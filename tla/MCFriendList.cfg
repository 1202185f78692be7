SPECIFICATION Spec
CONSTANTS
    f1 = f1
    f2 = f2
    Member = {f1, f2}
    Absent = "absent"
    Start <- MCStart
    MaxSteps = 1
INVARIANTS
    TypeOK
    TapMeansDrawnRow
    CleanListIsRight
PROPERTIES
    ListCatchesUp
CHECK_DEADLOCK FALSE
