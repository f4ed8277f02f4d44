\* The writer removes a session, whose client has a full buffer, while the
\* event loop copies the vector.
CONSTANTS
    c1 = c1
    c2 = c2
    c3 = c3
    Conns = {c1, c2, c3}
    Sockets = {s1, s2, s3}
    Readers = {r1}
    Writers = {w1}
    Values <- MCValues
    nullptr = nullptr
    MAX_CLIENTS_COUNT = 5
    Stream <- TrioStream
    Cuts <- TrioCuts
    Closers = {}
    Resetters = {}
    SlowPeers = {c1}
    FD_SETSIZE = 64
    MaxReadQueue = 2
SPECIFICATION SafetySpec
SYMMETRY ThreadSymmetry
INVARIANT NobodyWaitsForSelect
CHECK_DEADLOCK FALSE
