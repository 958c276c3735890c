\* One frontend and a queue of two: every third event finds the queue full, two
\* events of one goroutine in it, or one of each.
CONSTANTS
    Clients = {c1}
    Session = session
    QueueCap = 2
    MaxBroadcasts = 2
    MaxCommands = 2
    MaxFaults = 1
SPECIFICATION FairSpec
INVARIANTS
    NoBroadcastBeforeHello
    EndedClientForgotten
    SenderOrder
    ProtocolErrorDelivered
PROPERTIES
    SlowClientNeverBlocks
    ServeGoroutinesEnd
\* The daemon may be shut down with every goroutine gone.
CHECK_DEADLOCK FALSE
