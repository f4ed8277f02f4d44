\* Three clients for two descriptors; one is reset, one has a full send
\* buffer, two claim the same id, one of them after text that is no number.
CONSTANTS
    c1 = c1
    c2 = c2
    c3 = c3
    Conns = {c1, c2, c3}
    Sockets = {s1, s2}
    Readers = {r1}
    Writers = {w1, w2}
    Values <- MCValues
    nullptr = nullptr
    MAX_CLIENTS_COUNT = 5
    Stream <- ChurnStream
    Cuts <- ChurnCuts
    Closers = {}
    Resetters = {c1}
    SlowPeers = {c2}
    FD_SETSIZE = 64
    MaxReadQueue = 2
SPECIFICATION SafetySpec
SYMMETRY ThreadSymmetry
INVARIANT LockInv
INVARIANT AddressInv
INVARIANT ContainersAgree
INVARIANT IdsResolveToLiveSessions
INVARIANT NoSelfDeadlock
INVARIANT NoMisdelivery
INVARIANT FragmentEndsSession
PROPERTY ImplementsService
CHECK_DEADLOCK FALSE
