SPECIFICATION FairSpec
CONSTANTS
  Tokens = {z, a, eos}
  Ends = {eos}
  Zero = z
  Prompts <- AllPrompts
  MaxTokens = 3
  SpecK = 2
  MinContext = 3
  MinWindow = 1
  MaxWindow = 2
  DraftHead = FALSE
  Adopt = FALSE
  Drift = TRUE
  CanFallBack = TRUE
  Streams = TRUE
\* a request ends
CHECK_DEADLOCK FALSE
INVARIANTS HistoryIsCached
PROPERTIES Lossless RequestEnds
