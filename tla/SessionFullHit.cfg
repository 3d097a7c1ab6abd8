SPECIFICATION Spec
CONSTANTS
  Token <- TwoTokens
  StopTokens <- NoStop
  MaxTokens = 2
  Greedy <- MCGreedy
  Prompts <- CachedPrompts
  NumLayers = 2
  BatchMin = 2
  Uncached = {}
  BlockSize = 2
  MaxDraft = 0
  MaxSaved = 1
  Compressed = FALSE
  Nil = Nil
  Empty = Empty
  Garbled = Garbled
INVARIANTS
  BeginAccepts
\* The owner may leave a session alone.
CHECK_DEADLOCK FALSE
