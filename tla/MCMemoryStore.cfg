CONSTANTS
    Rooms = {r1, r2}
    Events = {e1, e2, e3}
    OwnEvents = {e3}
    NoEvent = NoEvent
    Capacity = 2
    MaxArrivals = 4
SYMMETRY Symmetry
SPECIFICATION Spec
INVARIANTS
    LogIsTailOfArrivals
    UnreadSurvivesTrimming
