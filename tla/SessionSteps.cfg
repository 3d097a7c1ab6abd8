SPECIFICATION Spec
CONSTANTS
  Token <- ThreeTokens
  StopTokens <- ThreeStops
  MaxTokens = 5
  Greedy <- MCGreedy
  Prompts <- MixedPrompts
  NumLayers = 2
  BatchMin = 2
  Uncached <- WithoutCache
  BlockSize = 2
  MaxDraft = 3
  MaxSaved = 3
  Compressed = FALSE
  Nil = Nil
  Empty = Empty
  Garbled = Garbled
INVARIANTS
  SessionTypeOK
  RowsExact
  SnapshotsExact
  LogitsExact
  FinishExact
PROPERTIES
  VerifyAllOrNothing
  ImplementsGeneration
\* The owner may leave a session alone.
CHECK_DEADLOCK FALSE
