SPECIFICATION Spec
CONSTANTS
    t1 = t1
    t2 = t2
    s1 = s1
    s2 = s2
    c1 = c1
    c2 = c2
    Threads = {t1}
    Socks = {s1, s2}
    Cpus = {c1}
    ReadCalls = {"read", "recvmsg", "file"}
    TidCapacity = 1
    HeaderCapacity = 2
    MaxClock = 0
    MaxConns = 2
    MaxCalls = 4
INVARIANTS
    FilesAreNotCaptured
