SPECIFICATION WorkSpec
CONSTANTS
  r1 = r1
  r2 = r2
  r3 = r3
  a = a
  b = b
  Request <- Two
  ID <- MCID
  IdOf <- MCIdOf
  ArrivalOf <- MCArrivalOf
  MaxActive = 2
  DecodeBudget = 2
  PrefillBudget = 1
  MaxOrder = 3
  Prompts <- ZeroOrTwo
  Outputs <- ZeroOrTwo
  Faults <- Failures
INVARIANTS
  ContractKept
  ReportedIsDelivered
PROPERTIES
  EventuallyReleased
  CancelledIsNotRun
\* A closed scheduler whose entries are all released has nothing left to do.
CHECK_DEADLOCK FALSE
