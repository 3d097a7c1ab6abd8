SPECIFICATION Spec
CONSTANTS
  c1 = c1
  c2 = c2
  d1 = d1
  d2 = d2
  d3 = d3
  d4 = d4
  Caller <- TwoCallers
  Device <- FourDevices
  Expert <- ThreeExperts
  HostSlots = 2
  Garbled = Garbled
  Nobody = Nobody
  NoEntry = NoEntry
  Capacity <- NoneOrTwo
  Policies <- LRUOrLFU
  Budget = 3
  StreamSize = 2
  NativeSize = 1
  Asked <- MixedLists
  Selections <- Routed
  MaxCalls = 3
SYMMETRY Symmetric
INVARIANTS
  SlotsExact
  ViewsIntact
  EntriesAccounted
  BudgetExact
PROPERTIES
  NoSelfFree
  UploadedIsResident
\* Callers may stop calling.
CHECK_DEADLOCK FALSE
