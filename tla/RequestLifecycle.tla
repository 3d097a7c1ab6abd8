--------------------------- MODULE RequestLifecycle ---------------------------
(***************************************************************************)
(* What the inference scheduler promises the owner of a request, without   *)
(* queues, cursors, budgets or sweeps: a request is submitted under an id  *)
(* no other live request has, becomes active while there is room, and is   *)
(* released once; after a shutdown nothing is taken in and everything left *)
(* is released.                                                            *)
(***************************************************************************)
EXTENDS Naturals, FiniteSets

CONSTANTS Request, ID, IdOf, MaxActive

VARIABLES open, stage

lifeVars == <<open, stage>>

Stages == {"new", "waiting", "active", "closing", "released"}

At(s) == {r \in Request : stage[r] = s}

Init ==
  /\ open = TRUE
  /\ stage = [r \in Request |-> "new"]

Submit(r) ==
  /\ open
  /\ stage[r] = "new"
  /\ \A q \in At("waiting") \cup At("active") : IdOf[q] # IdOf[r]
  /\ stage' = [stage EXCEPT ![r] = "waiting"]
  /\ UNCHANGED open

\* A batch of waiting requests becomes active.
Admit(batch) ==
  /\ batch # {}
  /\ Cardinality(At("active") \cup batch) <= MaxActive
  /\ stage' = [r \in Request |-> IF r \in batch THEN "active" ELSE stage[r]]
  /\ UNCHANGED open

Release(r) ==
  /\ stage[r] \in {"waiting", "active"}
  /\ stage' = [stage EXCEPT ![r] = "released"]
  /\ UNCHANGED open

Shutdown ==
  /\ open
  /\ open' = FALSE
  /\ stage' = [r \in Request |->
                 IF stage[r] \in {"waiting", "active"} THEN "closing" ELSE stage[r]]

Drain(r) ==
  /\ stage[r] = "closing"
  /\ stage' = [stage EXCEPT ![r] = "released"]
  /\ UNCHANGED open

Next ==
  \/ \E r \in Request : Submit(r) \/ Release(r) \/ Drain(r)
  \/ \E batch \in SUBSET At("waiting") : Admit(batch)
  \/ Shutdown

Spec == Init /\ [][Next]_lifeVars /\ WF_lifeVars(\E r \in Request : Drain(r))
=============================================================================
