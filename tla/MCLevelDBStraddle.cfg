SPECIFICATION Spec
CONSTANTS
  NumLevels = 4
  L0Trigger = 2
  MaxMemCompactLevel = 2
  TargetFileSize = 1
  GrandParentFactor = 10
  ExpandFactor = 25
  LevelBytes = 2
  Writers = {w1}
  Readers = {r1}
  Requests <- OneKey
  Ranges <- LevelTwo
  WriteBufferSize = 0
  MaxGroup = 3
  L0Slowdown = 2
  L0Stop = 3
  Faults = {}
  SeeksWearOut = FALSE
  Stops = {}
  MaxSeq = 5
  MaxStops = 1
INVARIANTS NewerAbove
CHECK_DEADLOCK FALSE
