\* ready_read_sockets_queue_: the event loop pushes, the read workers pop, the
\* skip flag is always set.
CONSTANTS
    Producers = {listener}
    Consumers = {r1, r2}
    Items = {s1, s2}
    SkipFlags = {TRUE}
    NoItem = NoItem
    Nobody = Nobody
    MaxLen = 3
SPECIFICATION Spec
INVARIANT TypeOK
INVARIANT CriticalSection
INVARIANT WakeupPerItem
INVARIANT NoAdjacentRepeat
PROPERTY ImplementsFifo
