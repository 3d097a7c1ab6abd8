------------------------ MODULE MCSchedulerRotation ------------------------
(* Instances of SchedulerRotation for TLC.                                 *)
EXTENDS SchedulerRotation

CONSTANTS s1, s2, s3, s4

ThreeSlots == {s1, s2, s3}
FourSlots == {s1, s2, s3, s4}
OneOrTwo == {1, 2}

\* compactEntries keeps the order of the entries it keeps: it is SelectSeq.
CompactIsSelectSeq ==
  \A n \in 0..4 : \A s \in [1..n -> ThreeSlots], gone \in SUBSET ThreeSlots :
    compactEntries(s, gone) = SelectSeq(s, LAMBDA e : e \notin gone)
ASSUME CompactIsSelectSeq
=============================================================================
