---------------------------- MODULE MCMmapAdvisor ----------------------------
EXTENDS MmapAdvisor

\* Inside and outside of a mapping of two pages of two bytes and half a page;
\* nothing, a byte, more than a page, and more than the mapping has.
AnyOffset == {-1, 0, 1, 2, 4, 5}
AnySize == {0, 1, 3, 9}
=============================================================================
