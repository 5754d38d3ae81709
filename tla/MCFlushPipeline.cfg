SPECIFICATION FairSpec
CONSTANTS
    p1 = p1
    t1 = t1
    Pids = {p1}
    Tids = {t1}
    MemValues = {1}
    Window = 2
    BootTime = 9
    DepAges <- MCAges
    MaxClock = 3
    MaxRequests = 3
    MaxDeps = 0
    FlushInterval = 1
    BufferSize = 2
    CorrelatedSize = 1
INVARIANTS
    TypeOK
    Conservation
    CorrelatedIsRecent
    QueriesAnswerFromHistory
    ExportedAtMostOnce
    IdsAndTimesInOrder
PROPERTIES
    LogSpec
    HandledIsStored
    StopWhilePollingEnds
CHECK_DEADLOCK FALSE
