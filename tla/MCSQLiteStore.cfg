CONSTANTS
    Rooms = {r1}
    Callers = {c1, c2}
    Events = {e1, e2, e3, e4}
    OwnEvents = {e3}
    NoEvent = NoEvent
    Capacity = 2
    MaxInserts = 5
    MaxInterrupts = 2
SPECIFICATION SQLiteSpec
INVARIANTS
    OvershootNeverHidesUnread
PROPERTY ImplementsStore
