SPECIFICATION Spec
CONSTANTS
  r1 = r1
  r2 = r2
  c1 = c1
  c2 = c2
  None = None
  Runner <- TwoRunners
  Closer <- TwoClosers
  Workers = 3
  Sizes <- ZeroTwoOrFour
INVARIANTS
  Drained
  DisjointWriters
  NeverOnClosed
  ClosedForGood
PROPERTIES
  ExactlyOnce
  CallsReturn
