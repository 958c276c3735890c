\* One request, one outage and one stop of the plugin; a cancelled socket, a
\* closed one and the current one can exist together.
CONSTANTS
    Slots = {k1, k2, k3}
    NoSlot = none
    MaxSends = 1
    MaxStops = 1
    MaxOutages = 1
SPECIFICATION FairSpec
INVARIANTS
    AnsweredAtMostOnce
    OneConnection
    StoppedIsQuiet
PROPERTIES
    RequestsAnswered
    Reconnects
\* Everything may be still: stopped, or connected with nothing to say.
CHECK_DEADLOCK FALSE
