----------------------------- MODULE MCScheduler -----------------------------
(* Instances of Scheduler for TLC.  Three requests, two of which share an  *)
(* id, so that an id is refused while in use and taken again afterwards;   *)
(* or two requests with different ids and Works that do everything wrong.  *)
EXTENDS Scheduler

CONSTANTS r1, r2, r3, a, b

Three == {r1, r2, r3}
Two == {r1, r2}
MCID == {a, b}
MCIdOf == [r \in Request |-> IF r = r2 THEN b ELSE a]
\* r2 and r3 arrived at the same time, before r1.
MCArrivalOf == [r \in Request |-> IF r = r1 THEN 2 ELSE 1]

JustOne == {1}
JustTwo == {2}
ZeroOrTwo == {0, 2}
MinusOneOrTwo == {-1, 2}

AllFaults == {"stall", "error", "progress", "close"}
Stalls == {"stall"}
=============================================================================
