CONSTANTS
    e1 = e1
    e2 = e2
    e3 = e3
    r1 = r1
    Clients = {a, b}
    Run = run
    Rooms = {r1}
    NoRoom = noroom
    Listed = {r1}
    Events = {e1, e3}
    OwnEvents = {e3}
    NoEvent = NoEvent
    Capacity = 1
    RoomOf <- MCRoomOf
    Ts <- MCTs
    HistoryLimit = 1
    MaxWork = 3
CHECK_DEADLOCK FALSE
SYMMETRY Symmetry
SPECIFICATION Spec
INVARIANTS
    AgreesUnlessRaced
    SeenIsStored
    LastTSIsNewest
