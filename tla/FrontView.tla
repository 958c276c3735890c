------------------------------ MODULE FrontView ------------------------------
(***************************************************************************)
(* What the frontend knows of the rooms: lua/quietdm/state.lua and the     *)
(* handlers of init.lua, against a daemon that stores, broadcasts, answers *)
(* and repeats itself.  The editor is single-threaded: a handler or a      *)
(* command is one step.  Whether a glance is allowed, and how it looks, is *)
(* FrontLevel's concern.                                                   *)
(*                                                                         *)
(* The daemon is cut down: one goroutine stores an event and broadcasts it *)
(* (Session), the reader of this connection answers requests in order, a   *)
(* history reply being read first and sent later (Hub).  An event that is  *)
(* too long for a line, or the oldest of a full queue, never arrives.  Its *)
(* store holds every event of an instance, so a replayed one is ignored.   *)
(* Unread counts and mark_read are left to Session, the socket to          *)
(* FrontLink.                                                              *)
(***************************************************************************)
EXTENDS Naturals, Sequences, FiniteSets, SequencesExt, FiniteSetsExt

CONSTANTS
    Rooms, Events, None,
    OwnEvents,     \* the user's own messages
    RoomOf,        \* [Events -> Rooms]
    Ts,            \* [Events -> Nat], timestamps
    HistoryLimit,  \* state.lua history_limit, config.history
    IdLimit,       \* state.lua id_limit
    MaxReplays,    \* bound on the events the daemon broadcasts again
    MaxLosses      \* bound on lost connections and stops

ASSUME FrontViewAssumption ==
    /\ IsFiniteSet(Rooms)
    /\ OwnEvents \subseteq Events
    /\ RoomOf \in [Events -> Rooms] /\ Ts \in [Events -> Nat]
    /\ None \notin Events \union Rooms
    /\ HistoryLimit \in Nat \ {0} /\ IdLimit \in Nat
    /\ MaxReplays \in Nat /\ MaxLosses \in Nat

VARIABLES
    order,      \* state.order, the active room first
    messages,   \* state.messages
    seen, glanced, idCount,
    log,        \* daemon: stored events of a room
    ingesting,  \* daemon: the event stored and not yet broadcast, or None
    link,       \* daemon: "down", "hello" (greeted) or "ready"
    asked,      \* requests on their way: None for rooms, a room for its history
    reply,      \* the history read for the first request, << >> or <<events>>
    wire,       \* events on their way to the frontend
    shows,      \* history: shows[e], times e was glanced at
    reborn,     \* history: replayed events accepted as new
    gaps,       \* history: rooms the view may lack messages of until it reconnects
    replays, losses

view    == <<order, messages, seen, glanced, idCount>>
daemon  == <<log, ingesting, link, asked, reply, wire>>
history == <<shows, reborn, gaps, replays, losses>>
viewVars    == <<view, daemon, history>>

\* What a history reply carries, and what the view holds of a room.
History == {s \in Seq(Events) : Len(s) <= HistoryLimit}

Wire == [t : {"ready"}] \union [t : {"rooms"}, rooms : SUBSET Rooms]
            \union [t : {"message"}, event : Events, again : BOOLEAN]
            \union [t : {"history"}, room : Rooms, events : History]

ViewTypeOK ==
    /\ order \in Seq(Rooms) /\ IsInjective(order)
    /\ messages \in [Rooms -> History]
    /\ \A r \in Rooms : messages[r] # << >> => r \in Range(order)
    /\ seen \subseteq Events /\ glanced \subseteq Events /\ idCount \in 0..IdLimit
    /\ log \in [Rooms -> Seq(Events)] /\ ingesting \in Events \union {None}
    /\ link \in {"down", "hello", "ready"} /\ asked \in Seq(Rooms \union {None})
    /\ reply \in Seq(History) /\ Len(reply) <= 1
    /\ reply # << >> => asked # << >> /\ Head(asked) \in Rooms
    /\ wire \in Seq(Wire)
    /\ shows \in [Events -> Nat] /\ reborn \subseteq Events /\ gaps \subseteq Rooms

ViewInit ==
    /\ order = << >> /\ messages = [r \in Rooms |-> << >>]
    /\ seen = {} /\ glanced = {} /\ idCount = 0
    /\ log = [r \in Rooms |-> << >>] /\ ingesting = None /\ link = "down"
    /\ asked = << >> /\ reply = << >> /\ wire = << >>
    /\ shows = [e \in Events |-> 0] /\ reborn = {} /\ gaps = {}
    /\ replays = 0 /\ losses = 0

\* The last n elements of s.
Newest(s, n) == SubSeq(s, IF Len(s) > n THEN Len(s) - n + 1 ELSE 1, Len(s))

-----------------------------------------------------------------------------
(* The view                                                                *)

\* touch_room: an unknown room goes to the end of the order.
Touched(list, r) == IF r \in Range(list) THEN list ELSE Append(list, r)

\* bump, after touch_room: the room becomes the active one.
Bumped(r) ==
    LET list == Touched(order, r)
        at == CHOOSE i \in DOMAIN list : list[i] = r
    IN  <<r>> \o RemoveAt(list, at)

Held(lists) == UNION {Range(lists[r]) : r \in Rooms}

\* Mutant: the tables are cleared instead of being rebuilt.
PruneAll(ids, shown, count, lists) ==
    IF count > IdLimit
    THEN seen' = {} /\ glanced' = {} /\ idCount' = 0
    ELSE seen' = ids /\ glanced' = shown /\ idCount' = count

\* maybe_prune: past the limit only the ids of held messages are kept.
Prune(ids, shown, count, lists) ==
    IF count > IdLimit
    THEN seen' = Held(lists) /\ glanced' = shown \intersect Held(lists) /\ idCount' = 0
    ELSE seen' = ids /\ glanced' = shown /\ idCount' = count

Reset ==
    /\ order' = << >> /\ messages' = [r \in Rooms |-> << >>]
    /\ seen' = {} /\ glanced' = {} /\ idCount' = 0

\* Mutant: nothing is remembered, so nothing is recognised.
OnMessageTwice(e) ==
    LET r == RoomOf[e]
        lists == [messages EXCEPT ![r] = Newest(Append(@, e), HistoryLimit)]
    IN  /\ order' = Bumped(r)
        /\ messages' = lists
        /\ Prune(seen \union {e}, glanced, idCount + 1, lists)

\* on_message; the user's own messages count as glanced.
OnMessage(e) ==
    LET r == RoomOf[e]
        lists == [messages EXCEPT ![r] = Newest(Append(@, e), HistoryLimit)]
    IN  IF e \in seen THEN UNCHANGED view
        ELSE /\ order' = Bumped(r)
             /\ messages' = lists
             /\ Prune(seen \union {e}, glanced \union ({e} \intersect OwnEvents),
                      idCount + 1, lists)

\* on_history: the list is replaced, and nothing of it is news.
OnHistory(r, events) ==
    LET lists == [messages EXCEPT ![r] = events]
    IN  /\ order' = Touched(order, r)
        /\ messages' = lists
        /\ Prune(seen \union Range(events), glanced \union Range(events),
                 idCount + Len(events), lists)

\* next_unglanced: the newest of the rooms' last messages not shown yet.
NextUnglanced ==
    LET last == {Last(messages[r]) : r \in {q \in Rooms : messages[q] # << >>}} \ glanced
    IN  {e \in last : \A other \in last : Ts[other] <= Ts[e]}

-----------------------------------------------------------------------------
(* What the user looks at                                                  *)

\* level.glance
GlanceNews ==
    \E e \in NextUnglanced :
        /\ glanced' = glanced \union {e}
        /\ shows' = [shows EXCEPT ![e] = @ + 1]
        /\ UNCHANGED <<order, messages, seen, idCount, daemon, reborn, gaps, replays, losses>>

\* level.read and panorama: the last messages of the active room, eight of them
\* for read, which is more than the lists of an instance hold.
Look ==
    /\ order # << >>
    /\ glanced' = glanced \union Range(messages[Head(order)])
    /\ UNCHANGED <<order, messages, seen, idCount, daemon, history>>

-----------------------------------------------------------------------------
(* Events of the daemon                                                    *)

Arrives(kind) == wire # << >> /\ Head(wire).t = kind /\ wire' = Tail(wire)

\* ready: start over and ask for the rooms.
HandleReady ==
    /\ Arrives("ready")
    /\ Reset
    /\ asked' = Append(asked, None)
    /\ UNCHANGED <<log, ingesting, link, reply, history>>

\* The answer to rooms, in the daemon's order: ask for the history of each.
HandleRooms ==
    /\ Arrives("rooms")
    /\ \E listing \in SetToSeqs(Head(wire).rooms) :
        /\ LET touched[i \in 0..Len(listing)] ==
                   IF i = 0 THEN order ELSE Touched(touched[i - 1], listing[i])
           IN  order' = touched[Len(listing)]
        /\ asked' = asked \o listing
    /\ UNCHANGED <<messages, seen, glanced, idCount, log, ingesting, link, reply, history>>

HandleHistory ==
    /\ Arrives("history")
    /\ OnHistory(Head(wire).room, Head(wire).events)
    /\ UNCHANGED <<log, ingesting, link, asked, reply, history>>

HandleMessage ==
    LET e == Head(wire).event
    IN  /\ Arrives("message")
        /\ OnMessage(e)
        /\ reborn' = IF Head(wire).again /\ e \notin seen THEN reborn \union {e} ELSE reborn
        /\ UNCHANGED <<log, ingesting, link, asked, reply, shows, gaps, replays, losses>>

\* A lost connection loses what is on its way; the requests end in errors,
\* which change nothing.
Lose ==
    /\ link # "down" /\ losses < MaxLosses
    /\ losses' = losses + 1
    /\ link' = "down" /\ wire' = << >> /\ asked' = << >> /\ reply' = << >>
    /\ gaps' = {}
    /\ UNCHANGED <<view, log, ingesting, shows, reborn, replays>>

\* M.stop: the link goes and the view is cleared.
Stop ==
    /\ link # "down" /\ losses < MaxLosses
    /\ losses' = losses + 1
    /\ link' = "down" /\ wire' = << >> /\ asked' = << >> /\ reply' = << >>
    /\ gaps' = {}
    /\ Reset
    /\ UNCHANGED <<log, ingesting, shows, reborn, replays>>

-----------------------------------------------------------------------------
(* The daemon                                                              *)

\* enqueue for this frontend; the event is given up if it exceeds MaxLine or if
\* drop-oldest takes it later, and about says which rooms may then lack messages.
\* (An event can only be missed: when it is dropped makes no difference.)
Enqueue(ev, about) ==
    \/ wire' = Append(wire, ev) /\ UNCHANGED gaps
    \/ gaps' = gaps \union about /\ UNCHANGED wire

Greet ==
    /\ link = "down"
    /\ link' = "hello"
    /\ UNCHANGED <<view, log, ingesting, asked, reply, wire, history>>

SendReady ==
    /\ link = "hello"
    /\ link' = "ready"
    /\ Enqueue([t |-> "ready"], Rooms)
    /\ UNCHANGED <<view, log, ingesting, asked, reply, shows, reborn, replays, losses>>

\* An event is stored before it is broadcast.
Ingest(e) ==
    /\ ingesting = None /\ \A r \in Rooms : e \notin Range(log[r])
    /\ log' = [log EXCEPT ![RoomOf[e]] = Append(@, e)]
    /\ ingesting' = e
    /\ UNCHANGED <<view, link, asked, reply, wire, history>>

\* The transport delivers a stored event again.  (Given up, it changes nothing.)
IngestAgain(e) ==
    /\ ingesting = None /\ replays < MaxReplays
    /\ e \in Held(log) /\ link # "down"
    /\ replays' = replays + 1
    /\ wire' = Append(wire, [t |-> "message", event |-> e, again |-> TRUE])
    /\ UNCHANGED <<view, log, ingesting, link, asked, reply, shows, reborn, gaps, losses>>

\* A history reply that was read before the event was stored, and is sent
\* after this, lacks it.
Overtaken ==
    {r \in {RoomOf[ingesting]} :
        reply # << >> /\ Head(asked) = r /\ ingesting \notin Range(reply[1])}

Broadcast ==
    /\ ingesting # None
    /\ ingesting' = None
    /\ \/ link = "down" /\ UNCHANGED <<wire, gaps>>
       \/ /\ link # "down"
          /\ wire' = Append(wire, [t |-> "message", event |-> ingesting, again |-> FALSE])
          /\ gaps' = gaps \union Overtaken
       \/ /\ link # "down"
          /\ gaps' = gaps \union {RoomOf[ingesting]}
          /\ UNCHANGED wire
    /\ UNCHANGED <<view, log, link, asked, reply, shows, reborn, replays, losses>>

AnswerRooms ==
    /\ asked # << >> /\ Head(asked) = None
    /\ asked' = Tail(asked)
    /\ Enqueue([t |-> "rooms", rooms |-> {r \in Rooms : log[r] # << >>}], Rooms)
    /\ UNCHANGED <<view, log, ingesting, link, reply, shows, reborn, replays, losses>>

ReadHistory ==
    /\ asked # << >> /\ Head(asked) # None /\ reply = << >>
    /\ reply' = <<Newest(log[Head(asked)], HistoryLimit)>>
    /\ UNCHANGED <<view, log, ingesting, link, asked, wire, history>>

SendHistory ==
    /\ reply # << >>
    /\ Enqueue([t |-> "history", room |-> Head(asked), events |-> reply[1]], {Head(asked)})
    /\ asked' = Tail(asked) /\ reply' = << >>
    /\ UNCHANGED <<view, log, ingesting, link, shows, reborn, replays, losses>>

-----------------------------------------------------------------------------

Frontend == \/ GlanceNews \/ Look \/ Stop \/ Lose
            \/ HandleReady \/ HandleRooms \/ HandleHistory \/ HandleMessage

Daemon == \/ Greet \/ SendReady \/ Broadcast \/ AnswerRooms \/ ReadHistory \/ SendHistory
          \/ \E e \in Events : Ingest(e) \/ IngestAgain(e)

ViewNext == Frontend \/ Daemon

ViewSpec == ViewInit /\ [][ViewNext]_viewVars

-----------------------------------------------------------------------------

\* A message is glanced at once only ("presented once", in any reconnect,
\* docs/design/03-ipc-protocol.md:181), unless the daemon sent it again after
\* the view had forgotten it (state.lua:49-63, 98-121, 172-184).
GlancedOnce == \A e \in Events : shows[e] <= 1 \/ e \in reborn

\* With nothing under way the view of a room is what the daemon has stored
\* last, through reconnects, pruning and replays of known events, unless on
\* this connection a history reply was overtaken by a message it lacks or the
\* daemon gave up an event that told of the room (state.lua:98-148,
\* init.lua:55-86, server.go:269-280, 487-492).
Quiet == link = "ready" /\ wire = << >> /\ asked = << >> /\ ingesting = None

ViewFollowsDaemon ==
    Quiet => \A r \in Rooms \ gaps :
        Range(messages[r]) \intersect reborn = {} => messages[r] = Newest(log[r], HistoryLimit)

=============================================================================
