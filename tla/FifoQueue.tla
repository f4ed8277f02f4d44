----------------------------- MODULE FifoQueue -----------------------------
(***************************************************************************)
(* What router/include/signaling_queue.h promises its callers: a FIFO      *)
(* queue shared by threads.  Locks, condition variable and wait set are    *)
(* not visible here; a push that was called takes effect at one instant,   *)
(* and so does a pop.                                                      *)
(***************************************************************************)
EXTENDS Sequences

CONSTANTS
    Producers,      \* threads that call push()
    Consumers,      \* threads that call pop()
    Items,          \* the values of T
    SkipFlags,      \* the values callers give to skip_if_repeated
    NoItem          \* no call in progress; nothing returned yet

VARIABLES
    queue,          \* the items, oldest first
    pending,        \* pending[p]: the push() of p that has not taken effect
    got             \* got[c]: what the latest pop() of c returned

vars == <<queue, pending, got>>

Init ==
    /\ queue = <<>>
    /\ pending = [p \in Producers |-> NoItem]
    /\ got = [c \in Consumers |-> NoItem]

Call(p, i, s) ==
    /\ pending[p] = NoItem
    /\ pending' = [pending EXCEPT ![p] = [item |-> i, skip |-> s]]
    /\ UNCHANGED <<queue, got>>

\* With the skip flag, an item equal to the newest one is represented by it;
\* in every other case the item enters the queue.
Push(p) ==
    /\ pending[p] # NoItem
    /\ queue' = IF /\ pending[p].skip
                   /\ queue # <<>>
                   /\ queue[Len(queue)] = pending[p].item
                THEN queue
                ELSE Append(queue, pending[p].item)
    /\ pending' = [pending EXCEPT ![p] = NoItem]
    /\ UNCHANGED got

Pop(c) ==
    /\ queue # <<>>
    /\ queue' = Tail(queue)
    /\ got' = [got EXCEPT ![c] = Head(queue)]
    /\ UNCHANGED pending

Next ==
    \/ \E p \in Producers, i \in Items, s \in SkipFlags : Call(p, i, s)
    \/ \E p \in Producers : Push(p)
    \/ \E c \in Consumers : Pop(c)

\* The safety part: which items are handed out, in which order, how often.
Safety == Init /\ [][Next]_vars

\* A push that was called takes effect, and a queue that is not empty does
\* not stay as it is for ever.
Spec ==
    /\ Safety
    /\ \A p \in Producers : WF_vars(Push(p))
    /\ WF_vars(\E c \in Consumers : Pop(c))
=============================================================================
