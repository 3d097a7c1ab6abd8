-------------------------------- MODULE Lists --------------------------------
(***************************************************************************)
(* Removing from and inserting into a list.  The names are those of        *)
(* runtime/inferencesched, which does both on slices; the recency list of  *)
(* runtime/promptcache loses an element in the same way.                   *)
(***************************************************************************)
EXTENDS Integers, Sequences, FiniteSets, Functions

\* The entries of src that are not in gone, in their order.
compactEntries(src, gone) ==
  LET kept == {i \in DOMAIN src : src[i] \notin gone}
      rank(i) == Cardinality({k \in kept : k <= i})
  IN  [j \in 1..Cardinality(kept) |-> src[CHOOSE i \in kept : rank(i) = j]]

\* Mutant: the entry goes to the end.
insertAtEnd(dst, at, ent) == Append(dst, ent)

\* dst with ent inserted so that it is at position at.
insertEntry(dst, at, ent) ==
  [i \in 1..(Len(dst) + 1) |->
     IF i < at THEN dst[i] ELSE IF i = at THEN ent ELSE dst[i - 1]]
=============================================================================
