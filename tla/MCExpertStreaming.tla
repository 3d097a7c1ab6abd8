-------------------------- MODULE MCExpertStreaming --------------------------
EXTENDS ExpertStreaming, TLC

CONSTANTS c1, c2, d1, d2, d3, d4
TwoCallers == {c1, c2}
FourDevices == {d1, d2, d3, d4}
Symmetric == {p @@ q : p \in Permutations(Caller), q \in Permutations(Device)}
ThreeExperts == {0, 1, 2}
NoneOrTwo == {0, 2}
LRUOrLFU == {"lru", "lfu"}

\* Distinct keys, one twice, one negative after others, and one not known.
MixedLists == {<<1, 0>>, <<0, 2, 0>>, <<2, -1>>, <<1, 3>>}
Routed == {<<0, 2>>}
=============================================================================
