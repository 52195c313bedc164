SPECIFICATION FairLadderSpec
CONSTANTS
  Users = {u}
  None = none
  NBlocks = 2
  BlockRows = 1
  MinKeep = 1
  MinSeq = 0
  KeepPercent = 34
  Incremental = TRUE
  Faults = {}
  MaxRounds = 2
  Monitor = monitor
  Admins = {a}
  CliL3 = FALSE
  CliSparse = FALSE
  WeightLevels = TRUE
  MemSoft = TRUE
  MemLowLevel = 0
  Overlap = FALSE
  MaxSets = 1
\* after MaxRounds requests the model may stop
CHECK_DEADLOCK FALSE
INVARIANTS LevelIsApplied
PROPERTY IdleUnloads
