\* Two nodes talk, two readers share the work, one of the nodes may close.
CONSTANTS
    c1 = c1
    c2 = c2
    c3 = c3
    Conns = {c1, c2}
    Sockets = {s1, s2}
    Readers = {r1, r2}
    Writers = {w1}
    Values <- MCValues
    nullptr = nullptr
    MAX_CLIENTS_COUNT = 5
    Stream <- TalkStream
    Cuts <- AlignedCuts
    Closers = {c2}
    Resetters = {}
    SlowPeers = {}
    FD_SETSIZE = 64
    MaxReadQueue = 2
SPECIFICATION SafetySpec
SYMMETRY ThreadSymmetry
INVARIANT TypeOK
INVARIANT ExclusiveSocketIO
INVARIANT ReaderSessionStable
INVARIANT DeliveredOnceInOrder
CHECK_DEADLOCK FALSE
