\* Two nodes, two faults of any kind.
CONSTANTS
    Nodes = {1, 2}
    DstId <- Pair
    Conns <- MCConns
    Values <- MCValues
    nullptr = nullptr
    MAX_CLIENTS_COUNT = 4
    SlowPeers = {}
    FIRST_MTI = 0
    MTI_STEP = 1
    MTI_LIMIT = 1
    THREAD_COUNT = 4
    MaxConnects = 3
    Faults = {"reset", "refuse", "restart", "cut", "crash", "start", "listen"}
    MaxFaults = 2
SPECIFICATION SafetySpec
INVARIANT TypeOK
INVARIANT NothingIsDuplicated
INVARIANT RepliesAreAddressed
INVARIANT OneLiveLink
INVARIANT SubscribedNodeIsReachable
CHECK_DEADLOCK FALSE
