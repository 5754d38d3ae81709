SPECIFICATION CorrSpec
CONSTANTS
    p1 = p1
    t1 = t1
    t2 = t2
    Pids = {p1}
    Tids = {t1, t2}
    MemValues = {1}
    Window = 2
    BootTime = 9
    DepAges <- MCAges
    MaxClock = 2
    MaxRequests = 3
    MaxDeps = 2
PROPERTY SweepKeepsFresh
