SPECIFICATION Spec
CONSTANTS
  s1 = s1
  s2 = s2
  s3 = s3
  s4 = s4
  Slot <- FourSlots
  MaxActive = 3
  Budget = 2
  Needs <- OneOrTwo
  Cancelling = TRUE
PROPERTIES
  ServedAgain
