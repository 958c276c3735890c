----------------------------- MODULE MemoryStore -----------------------------
(***************************************************************************)
(* The in-memory Store (internal/store/memory.go), and at the same time    *)
(* the abstract specification of what any Store promises: SQLiteStore is   *)
(* shown to implement it.  Every operation holds the store's mutex from    *)
(* entry to return, so each is one step.                                   *)
(*                                                                         *)
(* arrivals is a history variable: every event a room ever accepted, in    *)
(* order.  The program does not keep it.                                   *)
(***************************************************************************)
EXTENDS MessageLog

CONSTANTS
    MaxArrivals   \* bound on the accepted messages of one room (history)

VARIABLES
    log,      \* log[r]: roomLog.messages, oldest first
    marker,   \* marker[r]: roomLog.readMarker
    arrivals  \* arrivals[r]: history of accepted events

vars == <<log, marker, arrivals>>

TypeOK ==
    /\ log \in [Rooms -> Seq(Events)]
    /\ \A r \in Rooms : Len(log[r]) <= Capacity
    /\ marker \in [Rooms -> Markers]
    /\ arrivals \in [Rooms -> Seq(Events)]

Init ==
    /\ log = [r \in Rooms |-> << >>]
    /\ marker = [r \in Rooms |-> NoEvent]
    /\ arrivals = [r \in Rooms |-> << >>]

AppendMessage(r, e) ==
    /\ Len(arrivals[r]) < MaxArrivals
    /\ log' = [log EXCEPT ![r] = Appended(@, e)]
    /\ arrivals' = [arrivals EXCEPT ![r] = IF Has(log[r], e) THEN @ ELSE Append(@, e)]
    /\ UNCHANGED marker

SetReadMarker(r, e) ==
    /\ marker' = [marker EXCEPT ![r] = Marked(log[r], @, e)]
    /\ UNCHANGED <<log, arrivals>>

Next ==
    \E r \in Rooms :
        \/ \E e \in Events : AppendMessage(r, e)
        \/ \E e \in Markers : SetReadMarker(r, e)

Spec == Init /\ [][Next]_vars

-----------------------------------------------------------------------------

\* The log is exactly the newest Capacity messages the room ever accepted, in
\* arrival order: AppendMessage never reorders, never drops a newer message
\* for an older one and never keeps more than the capacity (memory.go:59-62).
LogIsTailOfArrivals ==
    \A r \in Rooms :
        log[r] = IF Len(arrivals[r]) > Capacity
                 THEN LastN(arrivals[r], Capacity)
                 ELSE arrivals[r]

\* No event is held twice, so a replay after a reconnect neither shows a
\* message twice nor counts it twice (memory.go:49-58).
NoDuplicates ==
    \A r \in Rooms : \A i, j \in DOMAIN log[r] :
        log[r][i] = log[r][j] => i = j

\* Positions of arrivals[r] that came after the last arrival of the marker.
AfterMarker(r) ==
    {k \in DOMAIN arrivals[r] :
        \A j \in DOMAIN arrivals[r] : arrivals[r][j] = marker[r] => j < k}

\* What countUnread reports is what a store that never forgot anything would
\* report for the messages still held: trimming away the marker itself must
\* not turn a read message unread or an unread one read (memory.go:95-112).
UnreadSurvivesTrimming ==
    \A r \in Rooms :
        LET first == Len(arrivals[r]) - Len(log[r]) IN
        {log[r][i] : i \in UnreadPositions(log[r], marker[r])}
            = {arrivals[r][k] : k \in {k \in AfterMarker(r) :
                                   k > first /\ arrivals[r][k] \notin OwnEvents}}

=============================================================================
