------------------------------ MODULE MCGEMMPool ------------------------------
(* An instance of GEMMPool for TLC: three workers, of which two tiles      *)
(* leave one without a chunk and four tiles one with an empty chunk.       *)
EXTENDS GEMMPool

CONSTANTS r1, r2, c1, c2

TwoRunners == {r1, r2}
TwoClosers == {c1, c2}
ZeroTwoOrFour == {0, 2, 4}
=============================================================================
