SPECIFICATION Spec
CONSTANTS
  NumLevels = 4
  L0Trigger = 2
  MaxMemCompactLevel = 2
  TargetFileSize = 1
  GrandParentFactor = 10
  ExpandFactor = 25
  LevelBytes = 2
  Writers = {w1}
  Readers = {}
  Requests <- PutAndBatch
  Ranges = {}
  WriteBufferSize = 0
  MaxGroup = 3
  L0Slowdown = 2
  L0Stop = 3
  Faults = {"log"}
  SeeksWearOut = FALSE
  Stops = {"kill"}
  MaxSeq = 3
  MaxStops = 1
PROPERTIES KillLosesNothing
CHECK_DEADLOCK FALSE
