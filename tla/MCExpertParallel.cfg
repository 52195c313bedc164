SPECIFICATION FairSpec
CONSTANTS
  Workers = {w1, w2}
  MaxRanks = 3
  None = none
  MaxCrashes = 1
  NExperts = 6
  TopK = 2
  Inputs <- Layers
  Plans <- Settings
  Splits = {4}
  \* a late answer to the forward pass breaks FfnExact
  SlowDrivers = {"check"}
  \* and so do processes that split the experts differently
  Alike = TRUE
  MaxCalls = 2
\* the session ends, and nobody goes on
CHECK_DEADLOCK FALSE
INVARIANTS FfnExact FramesPaired TableIsBalanced
PROPERTIES EveryCallReturns
