SPECIFICATION AttributionSpec
CONSTANTS
    p1 = p1
    t1 = t1
    t2 = t2
    s1 = s1
    s2 = s2
    Pids = {p1}
    Tids = {t1, t2}
    Threads <- MCThreads
    Sockets = {s1, s2}
    MaxConnects = 2
    MaxAccepts = 2
    DepCapacity = 1
    ReqCapacity = 1
    MaxCycles = 2
    MemValues = {1}
    Window = 2
    BootTime = 9
    DepAges <- MCAges
    MaxClock = 0
    MaxRequests = 2
    MaxDeps = 2
SYMMETRY MCSymmetry
CHECK_DEADLOCK FALSE
INVARIANTS
    ConnectReportedOnce
    OnlyLatestReported
    DepsUsedOnce
    DepsGoToNextRequest
    AttributionTypeOK
    ConnectInOneProfile
    NeverACycleBehind
    OnlyByAcceptor
