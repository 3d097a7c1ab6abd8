SPECIFICATION Spec
CONSTANTS
  PageSize = 2
  Length = 5
  Offsets <- AnyOffset
  Sizes <- AnySize
  NoSweep = NoSweep
  MaxTime = 3
INVARIANTS
  UseIsTracked
  TotalExact
PROPERTIES
  ColdAndOnlyCold
\* The owner may leave the advisor alone.
CHECK_DEADLOCK FALSE
