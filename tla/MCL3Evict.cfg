SPECIFICATION Spec
CONSTANTS
  Users = {u1, u2}
  None = none
  NBlocks = 3
  BlockRows = 2
  MinKeep = 1
  MinSeq = 0
  KeepPercent = 34
  Incremental = TRUE
  Faults = {}
  MaxRounds = 3
SYMMETRY Symmetry
\* after MaxRounds requests the model may stop
CHECK_DEADLOCK FALSE
INVARIANTS CacheReadable PayloadsAreTrue
