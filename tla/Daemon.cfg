\* Three daemons at one path, started four times between them.
CONSTANTS
    Daemons = {d1, d2, d3}
    None = None
    MaxStarts = 4
SPECIFICATION FairSpec
INVARIANTS
    ServiceIsReachable
    RefusesToTakeOver
PROPERTY StaleNeverBlocks
\* Every daemon may have ended for good.
CHECK_DEADLOCK FALSE
