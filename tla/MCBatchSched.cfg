SPECIFICATION Spec
CONSTANTS
  Workers = {w1, w2, w3}
  BatchMax = 2
  MaxTokens = 3
  MaxRequests = 1
  ScratchFails = FALSE
SYMMETRY Symmetry
\* every worker runs MaxRequests requests, then the model stops
CHECK_DEADLOCK FALSE
INVARIANTS TypeOK ExactlyOnce BatchIsStable SlotsPartitioned StepNotDropped
PROPERTY ImplementsPromise
