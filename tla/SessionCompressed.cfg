SPECIFICATION Spec
CONSTANTS
  Token <- TwoTokens
  StopTokens <- NoStop
  MaxTokens = 4
  Greedy <- MCGreedy
  Prompts <- OnePrompt
  NumLayers = 2
  BatchMin = 2
  Uncached = {}
  BlockSize = 0
  MaxDraft = 1
  MaxSaved = 0
  Compressed = TRUE
  Nil = Nil
  Empty = Empty
  Garbled = Garbled
INVARIANTS
  LogitsExact
\* The owner may leave a session alone.
CHECK_DEADLOCK FALSE
