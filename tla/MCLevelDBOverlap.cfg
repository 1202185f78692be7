SPECIFICATION Spec
CONSTANTS
  NumLevels = 4
  L0Trigger = 2
  MaxMemCompactLevel = 2
  TargetFileSize = 4
  GrandParentFactor = 10
  ExpandFactor = 25
  LevelBytes = 4
  Writers = {w1}
  Readers = {}
  Requests <- ThreeKeys
  Ranges <- LevelOne
  WriteBufferSize = 0
  MaxGroup = 3
  L0Slowdown = 2
  L0Stop = 3
  Faults = {}
  SeeksWearOut = FALSE
  Stops = {}
  MaxSeq = 6
  MaxStops = 1
INVARIANTS LevelsDisjoint
CHECK_DEADLOCK FALSE
