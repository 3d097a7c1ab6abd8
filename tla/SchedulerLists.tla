---------------------------- MODULE SchedulerLists ----------------------------
(***************************************************************************)
(* The lists of runtime/inferencesched and the two cursors, counted from   *)
(* 0, that point into the running list.                                    *)
(***************************************************************************)
EXTENDS Lists

\* A cursor brought back into a list of length n.
wrapCursor(c, n) == IF n = 0 THEN 0 ELSE c % n

\* Mutants: the cursor forgets where it began when nobody made progress, or
\* stays at the last entry that did.
cursorOfProgress(start, lastUsed, n) == lastUsed
cursorAtLast(start, lastUsed, n) == IF lastUsed >= 0 THEN lastUsed ELSE start

\* Where a loop over n entries that began at start leaves its cursor: after
\* the last entry that made progress, or one further if none did (-1).
nextCursor(start, lastUsed, n) ==
  ((IF lastUsed >= 0 THEN lastUsed ELSE start) + 1) % n
=============================================================================
