\* Liveness: one node sends a message to nobody and one to another node, which
\* may close, be reset or let its buffer fill up.
\* The server socket and the two clients fill the fd_set.
CONSTANTS
    c1 = c1
    c2 = c2
    c3 = c3
    Conns = {c1, c2}
    Sockets = {s1, s2}
    Readers = {r1}
    Writers = {w1}
    Values <- MCValues
    nullptr = nullptr
    MAX_CLIENTS_COUNT = 5
    Stream <- ServeStream
    Cuts <- ServeCuts
    Closers = {c2}
    Resetters = {c2}
    SlowPeers = {c2}
    FD_SETSIZE = 3
    MaxReadQueue = 2
SPECIFICATION Spec
PROPERTY ReadEventsServed
PROPERTY MessagesDelivered
CHECK_DEADLOCK FALSE
