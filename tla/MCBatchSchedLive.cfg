SPECIFICATION FairSpec
CONSTANTS
  Workers = {w1, w2}
  BatchMax = 2
  MaxTokens = 3
  MaxRequests = 1
  ScratchFails = TRUE
\* every worker runs MaxRequests requests, then the model stops
CHECK_DEADLOCK FALSE
PROPERTIES CollectedIsForwarded DestroyJoins
