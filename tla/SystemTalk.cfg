\* Two nodes that name each other; the router may fail to start, and crash.
CONSTANTS
    Nodes = {1, 2}
    DstId <- Pair
    Conns <- MCConns
    Values <- MCValues
    nullptr = nullptr
    MAX_CLIENTS_COUNT = 4
    SlowPeers = {}
    FIRST_MTI = 0
    MTI_STEP = 1
    MTI_LIMIT = 1
    THREAD_COUNT = 3
    MaxConnects = 3
    Faults = {"start", "crash"}
    MaxFaults = 2
SPECIFICATION Spec
PROPERTY KeepsTalking
