\* ready_write_sockets_queue_: the read workers push, the write workers pop,
\* equal tasks are never merged.
CONSTANTS
    Producers = {r1, r2}
    Consumers = {w1, w2}
    Items = {t1, t2}
    SkipFlags = {FALSE}
    NoItem = NoItem
    Nobody = Nobody
    MaxLen = 3
SPECIFICATION Spec
INVARIANT WakeupPerItem
PROPERTY ImplementsFifo
