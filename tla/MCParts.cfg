SPECIFICATION Spec
INVARIANTS
    WhatIsWrittenIsRead
    TablesAnswer
    MessagesReadBack
    IteratorsShowTheSnapshot
    ReadersSeeWholeNodes
    EnvironmentIsKept
    RepairKeepsEntries
    LevelsAreRead
    NeededFilesAreThere
    PendingWritesShow
PROPERTIES
    CacheIsConsistent
CHECK_DEADLOCK FALSE
