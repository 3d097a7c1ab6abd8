SPECIFICATION FairSpec
CONSTANTS
  r1 = r1
  r2 = r2
  r3 = r3
  a = a
  b = b
  Request <- Three
  ID <- MCID
  IdOf <- MCIdOf
  ArrivalOf <- MCArrivalOf
  MaxActive = 1
  DecodeBudget = 1
  PrefillBudget = 1
  MaxOrder = 3
  Prompts <- JustOne
  Outputs <- ZeroOrTwo
  Faults <- Stalls
INVARIANTS
  TypeOK
  Ownership
  IndexExact
PROPERTIES
  AdmissionOrder
  ImplementsLifecycle
\* A closed scheduler whose entries are all released has nothing left to do.
CHECK_DEADLOCK FALSE
