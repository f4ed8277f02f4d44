\* Two clients, one descriptor: accept() fails while the other has data.
CONSTANTS
    c1 = c1
    c2 = c2
    c3 = c3
    Conns = {c1, c2}
    Sockets = {s1}
    Readers = {r1}
    Writers = {w1}
    Values <- MCValues
    nullptr = nullptr
    MAX_CLIENTS_COUNT = 5
    Stream <- TwinStream
    Cuts <- TwinCuts
    Closers = {}
    Resetters = {}
    SlowPeers = {}
    FD_SETSIZE = 64
    MaxReadQueue = 2
SPECIFICATION Spec
PROPERTY ReadEventsServed
CHECK_DEADLOCK FALSE
