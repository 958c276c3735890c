CONSTANTS
    r1 = r1
    r2 = r2
    e1 = e1
    e2 = e2
    e3 = e3
    Rooms = {r1, r2}
    Events = {e1, e2, e3}
    OwnEvents = {e2}
    None = none
    RoomOf <- MCRoomOf
    Ts <- MCTs
    HistoryLimit = 1
    IdLimit = 1
    MaxReplays = 2
    MaxLosses = 1
SPECIFICATION ViewSpec
INVARIANTS
    GlancedOnce
    
CHECK_DEADLOCK FALSE
