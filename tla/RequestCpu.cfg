SPECIFICATION Spec
CONSTANTS
    t1 = t1
    t2 = t2
    s1 = s1
    s2 = s2
    c1 = c1
    c2 = c2
    Threads = {t1, t2}
    Socks = {s1, s2}
    Cpus = {c1, c2}
    ReadCalls = {}
    TidCapacity = 2
    HeaderCapacity = 2
    MaxClock = 2
    MaxConns = 2
    MaxCalls = 3
SYMMETRY MCSymmetry
INVARIANTS
    RequestTypeOK
    EveryConnectionAccounted
    ChargedAtMostOnce
    ChargedToUsersOrLeftovers
