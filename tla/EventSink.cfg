\* Two late senders and the two closers of a transport, a buffer of two that
\* is often full, two sends each.
CONSTANTS
    Senders = {s1, s2}
    Closers = {c1, c2}
    Buffer = 2
    MaxSends = 2
SPECIFICATION FairSpec
INVARIANTS
    NoPanic
    FifoPerSender
PROPERTIES
    CloseReturns
    SendReturns
\* Every goroutine may have finished: the sink is closed and nobody calls it.
CHECK_DEADLOCK FALSE
