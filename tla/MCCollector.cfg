SPECIFICATION Spec
CONSTANTS
    PodList <- MCPods
    Comms <- MCComms
    Ports = {0, 1}
    Prefixes <- MCPrefixes
    Pids = {p1, p2}
    MaxTime = 1
    MaxExits = 2
    MaxRefreshes = 2
    TargetNamespace = "shop"
    TargetPods = {}
    CacheTime = 1
INVARIANTS
    CollectorTypeOK
    KnownPodsAreRight
    PidPodsAreRight
    RssWasOfComm
    StrangersReusePids
SYMMETRY Symmetry
CHECK_DEADLOCK FALSE
