---------------------------- MODULE MCPromptCache ----------------------------
(* An instance of PromptCache for TLC: blocks of one and of two tokens, a  *)
(* budget for two entries or for three small ones, and a hash function     *)
(* that tells no two chains of blocks apart.                               *)
EXTENDS PromptCache

CONSTANTS c1, c2, i1, i2

TwoCallers == {c1, c2}
TwoIdentities == {i1, i2}
ThreeElements == 1..3
OneAndTwo == {1, 2}
ShortPrompts == {<<0>>, <<0, 1>>, <<1, 1>>}

ConstantHash(id, prev, block) == 0
=============================================================================
