SPECIFICATION MCSpec
CONSTANTS
  NumLevels = 4
  L0Trigger = 2
  MaxMemCompactLevel = 2
  TargetFileSize = 4
  GrandParentFactor = 10
  ExpandFactor = 25
  LevelBytes = 2
  Writers = {w1, w2}
  Readers = {r1}
  Requests <- AllRequests
  Ranges <- WholeRange
  WriteBufferSize = 0
  MaxGroup = 3
  L0Slowdown = 2
  L0Stop = 3
  Faults = {"table", "manifest", "newlog", "sync", "log"}
  SeeksWearOut = TRUE
  Stops = {"kill", "power", "close"}
  MaxSeq = 6
  MaxStops = 2
INVARIANTS TypeOK ReadsRight TablesIntact Reopens LevelsStayDisjoint NewerAbove
PROPERTIES KVSpec KillLosesNothing CallsReturn
CHECK_DEADLOCK FALSE
