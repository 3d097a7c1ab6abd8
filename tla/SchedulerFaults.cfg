SPECIFICATION FairSpec
CONSTANTS
  r1 = r1
  r2 = r2
  r3 = r3
  a = a
  b = b
  Request <- Two
  ID <- MCID
  IdOf <- MCIdOf
  ArrivalOf <- MCArrivalOf
  MaxActive = 2
  DecodeBudget = 2
  PrefillBudget = 2
  MaxOrder = 3
  Prompts <- MinusOneOrTwo
  Outputs <- JustTwo
  Faults <- AllFaults
INVARIANTS
  ReportExact
PROPERTIES
  ReleasedIsFinal
  BudgetKept
  CancelledIsReleased
\* A closed scheduler whose entries are all released has nothing left to do.
CHECK_DEADLOCK FALSE
