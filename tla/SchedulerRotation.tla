-------------------------- MODULE SchedulerRotation --------------------------
(***************************************************************************)
(* The round robin of runtime/inferencesched under an endless load.        *)
(*                                                                         *)
(* Scheduler.tla has a finite set of requests, so every request is alone   *)
(* in the end and is served then.  Here requests never stop coming: a Slot *)
(* is the place of one live request and is taken by a fresh one when that  *)
(* is gone.  What is left of a Step is what moves the cursor: compaction,  *)
(* admission, one loop (the prefill loop; the decode loop turns the same   *)
(* way) and compaction again.  The queue always has a request to admit, or *)
(* has none, as the load pleases.                                          *)
(***************************************************************************)
EXTENDS SchedulerLists

CONSTANTS
  Slot,        \* places for live requests, at least MaxActive of them
  MaxActive,   \* Config.MaxActive
  Budget,      \* Config.PrefillBudget
  Needs,       \* the lengths of prompts
  Cancelling   \* whether contexts are ever cancelled

ASSUME RotationAssumption ==
  /\ MaxActive \in Nat \ {0}
  /\ Budget \in Nat \ {0}
  /\ Needs \subseteq Nat \ {0}
  /\ Cancelling \in BOOLEAN

VARIABLES running, cursor, need, dead, phase, pos, budget, lastUsed

rotationVars == <<running, cursor, need, dead, phase, pos, budget, lastUsed>>

size == Len(running)
visiting == (cursor + pos - 1) % size

Init ==
  /\ running = <<>>
  /\ cursor = 0
  /\ need = [s \in Slot |-> 0]
  /\ dead = {}
  /\ phase = "compact"
  /\ pos = 1
  /\ budget = 0
  /\ lastUsed = -1

\* The entries a sweep releases: those that are dead already, and any whose
\* context it finds cancelled.
Gone == {dead \cup canceled : canceled \in
           IF Cancelling THEN SUBSET Range(running) ELSE {{}}}

\* The list closes up around a cursor c.
Leave(gone, c) ==
  /\ running' = compactEntries(running, gone)
  /\ cursor' = wrapCursor(c, Len(running'))
  /\ need' = [s \in Slot |-> IF s \in Range(running') THEN need[s] ELSE 0]
  /\ dead' = {}

\* The first sweep of a Step.
BeginStep ==
  /\ phase = "compact"
  /\ \E gone \in Gone : Leave(gone, cursor)
  /\ phase' = "admit"
  /\ UNCHANGED <<pos, budget, lastUsed>>

\* A fresh request takes a slot nobody has.
AdmitOne(s) ==
  /\ phase = "admit"
  /\ size < MaxActive
  /\ s \notin Range(running)
  /\ running' = Append(running, s)
  /\ \E n \in Needs : need' = [need EXCEPT ![s] = n]
  /\ UNCHANGED <<cursor, dead, phase, pos, budget, lastUsed>>

\* The running list is full, or the queue is empty: on to the loop.
BeginLoop ==
  /\ phase = "admit"
  /\ size > 0
  /\ phase' = "run"
  /\ pos' = 1
  /\ budget' = Budget
  /\ lastUsed' = -1
  /\ UNCHANGED <<running, cursor, need, dead>>

\* One call of Prefill: a Work consumes at least a token and at most what
\* budget and prompt allow, and is finished at the end of its prompt.
Visit ==
  /\ phase = "run"
  /\ pos <= size
  /\ budget > 0
  /\ LET s == running[visiting + 1] IN
       \E n \in 1..budget :
         /\ n <= need[s]
         /\ need' = [need EXCEPT ![s] = @ - n]
         /\ budget' = budget - n
         /\ dead' = IF need[s] = n THEN dead \cup {s} ELSE dead
  /\ lastUsed' = visiting
  /\ pos' = pos + 1
  /\ UNCHANGED <<running, cursor, phase>>

\* The cursor moves on and the list closes up: the end of a Step.
EndStep ==
  /\ phase = "run"
  /\ pos > size \/ budget = 0
  /\ \E gone \in Gone : Leave(gone, nextCursor(cursor, lastUsed, size))
  /\ phase' = "compact"
  /\ pos' = 1
  /\ budget' = 0
  /\ lastUsed' = -1

Next == BeginStep \/ (\E s \in Slot : AdmitOne(s)) \/ BeginLoop \/ Visit \/ EndStep

\* Step is called again and again.
Spec == Init /\ [][Next]_rotationVars /\ WF_rotationVars(Next)

-----------------------------------------------------------------------------
\* Round robin is fair across Steps: whoever is running is served again or
\* leaves, however many requests come and go around it.
ServedAgain ==
  \A s \in Slot, n \in Needs :
    s \in Range(running) /\ need[s] = n ~> s \notin Range(running) \/ need[s] # n
=============================================================================
