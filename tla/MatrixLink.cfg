\* Three events, two in one response, through a channel of one; two lives, two
\* faults in each, which double a delay and then cap it.
CONSTANTS
    Encrypt = TRUE
    Buffer = 1
    MaxBackoff = 3
    TimelineLimit = 2
    MaxEvents = 3
    MaxFaults = 2
    MaxLives = 2
SPECIFICATION FairSpec
INVARIANTS
    NewsOnce
    NothingSkipped
    SessionFollowsLink
    DelayFollowsOutage
    PickleKeyKept
PROPERTY NewsArrives
\* The daemon may have been stopped for good.
CHECK_DEADLOCK FALSE
