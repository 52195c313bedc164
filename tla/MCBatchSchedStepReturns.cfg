SPECIFICATION FairSpec
CONSTANTS
  Workers = {w1, w2}
  BatchMax = 2
  MaxTokens = 2
  MaxRequests = 1
  ScratchFails = FALSE
\* every worker runs MaxRequests requests, then the model stops
CHECK_DEADLOCK FALSE
PROPERTY StepReturns
