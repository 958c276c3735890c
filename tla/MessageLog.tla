------------------------------ MODULE MessageLog ------------------------------
(***************************************************************************)
(* The per-room message log every Store implementation keeps               *)
(* (internal/store): a bounded sequence of messages in arrival order and   *)
(* one read marker.  This module holds the pure part: what the four Store  *)
(* operations compute from a log and a marker.  A message is represented   *)
(* by its event ID; whether the user sent it (model.Message.Own) is a      *)
(* fixed attribute of the event.                                           *)
(***************************************************************************)
EXTENDS Naturals, Sequences, FiniteSets

CONSTANTS
    Rooms,      \* room IDs; a store keeps a log and a marker for each
    Events,     \* event IDs a room can hold
    OwnEvents,  \* the ones the user sent (Own = true)
    NoEvent,    \* the empty event ID "", also "no marker yet"
    Capacity    \* messages kept per room; DefaultCapacity (500) in the code

ASSUME MessageLogAssumption ==
    /\ OwnEvents \subseteq Events
    /\ NoEvent \notin Events
    /\ Capacity \in Nat \ {0}

Markers == Events \union {NoEvent}

-----------------------------------------------------------------------------

Has(log, e) == \E i \in DOMAIN log : log[i] = e

\* The last n elements of log, for n <= Len(log).
LastN(log, n) == SubSeq(log, Len(log) - n + 1, Len(log))

\* Mutant: trimming keeps the oldest messages instead of the newest.
TrimKeepsOldest(log) ==
    IF Len(log) > Capacity THEN SubSeq(log, 1, Capacity) ELSE log

\* Drop the oldest messages once the room is over capacity.
Trim(log) ==
    IF Len(log) > Capacity THEN LastN(log, Capacity) ELSE log

\* The log after AppendMessage: an event the log still holds is ignored.
Appended(log, e) ==
    IF Has(log, e) THEN log ELSE Trim(Append(log, e))

\* The tail RecentMessages returns; a limit of 0 means everything.
Recent(log, limit) ==
    IF limit = 0 \/ limit > Len(log) THEN log ELSE LastN(log, limit)

\* Mutant: a marker the log no longer holds counts nothing as unread.
UnreadNoneIfEvicted(log, marker) ==
    {i \in DOMAIN log :
        /\ log[i] \notin OwnEvents
        /\ marker = NoEvent \/ Has(log, marker)
        /\ \A j \in DOMAIN log : log[j] = marker => j < i}

\* Positions of the unread messages: after the marker, not sent by the user.
\* A marker the log does not hold leaves every message unread.
UnreadPositions(log, marker) ==
    {i \in DOMAIN log :
        /\ log[i] \notin OwnEvents
        /\ \A j \in DOMAIN log : log[j] = marker => j < i}

UnreadCount(log, marker) == Cardinality(UnreadPositions(log, marker))

\* The marker after SetReadMarker(e); "" marks the whole room as read.
Marked(log, marker, e) ==
    IF e # NoEvent THEN e
    ELSE IF log = << >> THEN marker
    ELSE log[Len(log)]

=============================================================================
