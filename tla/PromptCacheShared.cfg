SPECIFICATION Spec
CONSTANTS
  c1 = c1
  c2 = c2
  i1 = i1
  i2 = i2
  Caller <- TwoCallers
  NoElement = NoElement
  Element <- ThreeElements
  Identity <- TwoIdentities
  Prompt <- ShortPrompts
  BlockSizes <- OneAndTwo
  Bytes <- OneAndTwo
  Overhead = 1
  MaxBytes = 9
  MaxCalls = 4
  HashBlock <- ConstantHash
INVARIANTS
  FiledOnce
  Balanced
  HitIsPrefix
PROPERTIES
  ImplementsPrefixStore
\* Callers may stop calling.
CHECK_DEADLOCK FALSE
