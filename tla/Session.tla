------------------------------- MODULE Session -------------------------------
(***************************************************************************)
(* The session layer (internal/session/session.go) between the transport,  *)
(* the store and the frontends: Session.Run ingests transport events while *)
(* the handlers of the frontends' commands mark rooms read, list rooms and *)
(* fetch history.  Each holds a lock only inside single calls, so their    *)
(* steps interleave; every step below is one such call.                    *)
(*                                                                         *)
(* The store is the in-memory one (MessageLog; SQLiteStore implements it). *)
(* The hub is reduced to what it promises a frontend that keeps up (Hub):  *)
(* feed[c] gets the events of each goroutine in order, one frontend after  *)
(* the other.  Session.Send keeps no state of its own: its echo arrives as *)
(* a transport event like any other.                                       *)
(***************************************************************************)
EXTENDS MessageLog

CONSTANTS
    Clients,        \* connected frontends, one command at a time each
    Run,            \* the goroutine of Session.Run
    NoRoom,
    Listed,         \* rooms the transport lists when Run starts
    RoomOf,         \* the room of an event
    Ts,             \* its timestamp; need not follow arrival order
    HistoryLimit,   \* messages a history command asks for
    MaxWork         \* bound on the transport's events (messages, link changes),
                    \* commands (hello aside) and failing calls together

ASSUME SessionAssumption ==
    /\ Run \notin Clients /\ Clients # {}
    /\ NoRoom \notin Rooms
    /\ Listed \subseteq Rooms
    /\ RoomOf \in [Events -> Rooms]
    /\ Ts \in [Events -> Nat]
    /\ HistoryLimit \in Nat /\ MaxWork \in Nat

Procs == Clients \union {Run}

VARIABLES
    log, marker,    \* the store
    known,          \* rooms of Session.rooms
    lastTS,         \* roomState.lastTS
    connected,      \* Session.connected
    greeted,        \* frontends past hello
    task,           \* task[p]: the step p is at and its local variables
    feed,           \* feed[c]: events queued for c, oldest first
    delivered, commands, failures,  \* counters for MaxWork
    arrivals,       \* history: events the store held at the start or accepted, per room
    heard,          \* history: events the store took since the start, per room
    raced           \* history: <<room, frontend>> pairs for which no handler
                    \* has run alone since two ran at once, or one failed

store    == <<log, marker>>
rooms    == <<known, lastTS, connected>>
counters == <<delivered, commands, failures>>
history  == <<arrivals, heard, raced>>
vars     == <<store, rooms, greeted, task, feed, counters, history>>

View == [unread : Nat, lastTS : Nat]

\* An answer to "rooms": the view of each room listed so far, if any.
Listing == [Rooms -> SUBSET View]

FeedEvent ==
    [t : {"ready"}, connected : BOOLEAN]
        \union [t : {"message"}, event : Events]
        \union [t : {"room"}, room : Rooms, view : View]
        \union [t : {"history"}, room : Rooms, msgs : Seq(Events)]
        \union [t : {"rooms"}, list : Listing]

\* A goroutine with nothing to do is idle; Run first lists the rooms.
Task == [at : {"list", "idle", "append", "ensure", "mark", "message", "receipt",
               "view", "count", "room", "read", "reply"},
         cmd : {"none", "ingest", "mark_read", "history", "rooms"},
         room : Rooms \union {NoRoom}, event : Markers, view : View,
         todo : SUBSET Clients, rest : SUBSET Rooms,
         list : Listing, msgs : Seq(Events)]

Idle == [at |-> "idle", cmd |-> "none", room |-> NoRoom, event |-> NoEvent,
         view |-> [unread |-> 0, lastTS |-> 0], todo |-> {}, rest |-> {},
         list |-> [r \in Rooms |-> {}], msgs |-> << >>]

StoreOK ==
    /\ log \in [Rooms -> Seq(Events)] /\ marker \in [Rooms -> Markers]
    /\ \A r \in Rooms : Len(log[r]) <= Capacity
    /\ arrivals \in [Rooms -> Seq(Events)] /\ heard \in [Rooms -> SUBSET Events]

RoomsOK ==
    /\ known \subseteq Rooms /\ lastTS \in [Rooms -> Nat] /\ connected \in BOOLEAN
    /\ greeted \subseteq Clients
    /\ raced \subseteq Rooms \X Clients

TypeOK ==
    /\ StoreOK /\ RoomsOK
    /\ task \in [Procs -> Task]
    /\ feed \in [Clients -> Seq(FeedEvent)]

\* What an earlier life of the daemon may have left in the store for room r.
Stored(r) ==
    {s \in UNION {[1..n -> Events] : n \in 0..Capacity} :
        /\ \A i \in DOMAIN s : RoomOf[s[i]] = r
        /\ \A i, j \in DOMAIN s : s[i] = s[j] => i = j}

\* session.New keeps nothing of what the store holds: no room is known yet.
Init ==
    /\ log \in [Rooms -> UNION {Stored(r) : r \in Rooms}]
    /\ \A r \in Rooms : log[r] \in Stored(r)
    /\ marker \in [Rooms -> Markers]
    /\ known = {} /\ lastTS = [r \in Rooms |-> 0] /\ connected = FALSE
    /\ greeted = {}
    /\ task = [p \in Procs |-> IF p = Run THEN [Idle EXCEPT !.at = "list"] ELSE Idle]
    /\ feed = [c \in Clients |-> << >>]
    /\ delivered = 0 /\ commands = 0 /\ failures = 0
    /\ arrivals = log /\ heard = [r \in Rooms |-> {}]
    /\ raced = {}

-----------------------------------------------------------------------------
(* Starting and leaving a handler                                          *)

\* Rooms whose state p reads or changes for a room event.
Touched(t) ==
    IF t.cmd \in {"ingest", "mark_read"} THEN {t.room}
    ELSE IF t.cmd = "rooms" THEN t.rest \union {r \in Rooms : t.list[r] # {}} \union ({t.room} \ {NoRoom})
    ELSE {}

Within == delivered + commands + failures < MaxWork

\* p takes up t: from here on the rooms of t are raced if another handler is
\* at them too, and settled again for the frontends t will tell if it is alone.
Begin(p, t) ==
    LET busy == UNION {Touched(task[q]) : q \in Procs \ {p}}
        told == Touched(t) \X (IF t.cmd = "rooms" THEN {p} ELSE Clients)
    IN  /\ task[p] = Idle
        /\ task' = [task EXCEPT ![p] = t]
        /\ raced' = (raced \ told) \union ((Touched(t) \intersect busy) \X Clients)

\* A call of p fails and its handler returns early.
Fail(p) ==
    /\ Within
    /\ failures' = failures + 1
    /\ task' = [task EXCEPT ![p] = Idle]
    /\ raced' = raced \union (Touched(task[p]) \X Clients)
    /\ UNCHANGED <<store, rooms, greeted, feed, delivered, commands, arrivals, heard>>

Goto(p, step) == task' = [task EXCEPT ![p].at = step]

\* Broadcasts go to every connected frontend, one after the other.
GotoBroadcast(p, step) == task' = [task EXCEPT ![p].at = step, ![p].todo = Clients]

-----------------------------------------------------------------------------
(* Session.Run                                                             *)

ListRooms ==
    /\ task[Run].at = "list"
    /\ known' = known \union Listed
    /\ task' = [task EXCEPT ![Run] = Idle]
    /\ UNCHANGED <<store, lastTS, connected, greeted, feed, counters, history>>

TakeConnected(up) ==
    /\ task[Run] = Idle
    /\ Within
    /\ delivered' = delivered + 1
    /\ connected' = up
    /\ UNCHANGED <<store, known, lastTS, greeted, task, feed, commands, failures,
                   history>>

TakeMessage(e) ==
    /\ Within
    /\ delivered' = delivered + 1
    /\ Begin(Run, [Idle EXCEPT !.at = "append", !.cmd = "ingest",
                               !.room = RoomOf[e], !.event = e])
    /\ UNCHANGED <<store, rooms, greeted, feed, commands, failures, arrivals,
                   heard>>

StoreAppend(p) ==
    LET r == task[p].room
        e == task[p].event
    IN  /\ task[p].at = "append"
        /\ log' = [log EXCEPT ![r] = Appended(@, e)]
        /\ arrivals' = [arrivals EXCEPT ![r] = IF Has(log[r], e) THEN @ ELSE Append(@, e)]
        /\ heard' = [heard EXCEPT ![r] = @ \union {e}]
        /\ Goto(p, "ensure")
        /\ UNCHANGED <<marker, rooms, greeted, feed, counters, raced>>

\* Mutant: ingest goes on after AppendMessage failed.
AppendFailsUnnoticed(p) ==
    /\ task[p].at = "append"
    /\ Within
    /\ failures' = failures + 1
    /\ Goto(p, "ensure")
    /\ UNCHANGED <<store, rooms, greeted, feed, delivered, commands, history>>

AppendFails(p) == task[p].at = "append" /\ Fail(p)

\* Mutant: lastTS takes every timestamp, an older one too.
TouchRoomAlways(r, ts) == lastTS' = [lastTS EXCEPT ![r] = ts]

TouchRoom(r, ts) ==
    lastTS' = [lastTS EXCEPT ![r] = IF ts > @ THEN ts ELSE @]

EnsureRoom(p) ==
    LET r == task[p].room
        e == task[p].event
    IN  /\ task[p].at = "ensure"
        /\ known' = known \union {r}
        /\ TouchRoom(r, Ts[e])
        /\ IF e \in OwnEvents THEN Goto(p, "mark") ELSE GotoBroadcast(p, "message")
        /\ UNCHANGED <<store, connected, greeted, feed, counters, history>>

\* ingest ignores a failing SetReadMarker.
MarkOwnFails(p) ==
    /\ task[p].at = "mark" /\ task[p].cmd = "ingest"
    /\ Within
    /\ failures' = failures + 1
    /\ GotoBroadcast(p, "message")
    /\ UNCHANGED <<store, rooms, greeted, feed, delivered, commands, history>>

SetMarker(p) ==
    LET r == task[p].room IN
    /\ task[p].at = "mark"
    /\ marker' = [marker EXCEPT ![r] = Marked(log[r], @, task[p].event)]
    /\ IF task[p].cmd = "ingest" THEN GotoBroadcast(p, "message") ELSE Goto(p, "receipt")
    /\ UNCHANGED <<log, rooms, greeted, feed, counters, history>>

-----------------------------------------------------------------------------
(* Broadcasting, and the view of a room                                    *)

\* p hands its event to frontend c; a frontend before hello is passed over.
Tell(p, c, ev, next) ==
    /\ c \in task[p].todo
    /\ feed' = [feed EXCEPT ![c] = IF c \in greeted THEN Append(@, ev) ELSE @]
    /\ task' = [task EXCEPT ![p] =
                    IF @.todo # {c} THEN [@ EXCEPT !.todo = task[p].todo \ {c}]
                    ELSE IF next = "idle" THEN Idle
                    ELSE [@ EXCEPT !.todo = {}, !.at = next]]
    /\ UNCHANGED <<store, rooms, greeted, counters, history>>

BroadcastMessage(p, c) ==
    /\ task[p].at = "message"
    /\ Tell(p, c, [t |-> "message", event |-> task[p].event], "view")

BroadcastRoom(p, c) ==
    /\ task[p].at = "room"
    /\ Tell(p, c, [t |-> "room", room |-> task[p].room, view |-> task[p].view], "idle")

\* roomView reads lastTS under Session.mu and then asks the store.
ReadView(p) ==
    /\ task[p].at = "view"
    /\ task' = [task EXCEPT ![p].at = "count", ![p].view.lastTS = lastTS[task[p].room]]
    /\ UNCHANGED <<store, rooms, greeted, feed, counters, history>>

\* A handler of "rooms" goes on with the next room or answers.
NextRoom(t) ==
    IF t.rest = {} THEN {[t EXCEPT !.at = "reply"]}
    ELSE {[t EXCEPT !.at = "view", !.room = r, !.rest = @ \ {r}] : r \in t.rest}

CountUnread(p) ==
    LET r == task[p].room
        t == [task[p] EXCEPT !.view.unread = UnreadCount(log[r], marker[r])]
    IN  /\ task[p].at = "count"
        /\ IF t.cmd = "rooms"
           THEN \E next \in NextRoom([t EXCEPT !.list[r] = {t.view}]) :
                    task' = [task EXCEPT ![p] = next]
           ELSE task' = [task EXCEPT ![p] = [t EXCEPT !.at = "room", !.todo = Clients]]
        /\ UNCHANGED <<store, rooms, greeted, feed, counters, history>>

\* No room event if the count fails; "rooms" is answered by an error.
CountFails(p) == task[p].at = "count" /\ Fail(p)

-----------------------------------------------------------------------------
(* Commands of the frontends                                               *)

Hello(c) ==
    /\ c \notin greeted
    /\ greeted' = greeted \union {c}
    /\ feed' = [feed EXCEPT ![c] = Append(@, [t |-> "ready", connected |-> connected])]
    /\ UNCHANGED <<store, rooms, task, counters, history>>

\* Frontend c sends a command and its handler starts.
Command(c, t) ==
    /\ c \in greeted
    /\ Within
    /\ commands' = commands + 1
    /\ Begin(c, t)
    /\ UNCHANGED <<store, rooms, greeted, feed, delivered, failures, arrivals,
                   heard>>

MarkRead(c, r, e) ==
    /\ r \in known
    /\ Command(c, [Idle EXCEPT !.at = "mark", !.cmd = "mark_read", !.room = r, !.event = e])

\* Session.MarkRead when SetReadMarker fails.
MarkFails(p) == task[p].at = "mark" /\ task[p].cmd = "mark_read" /\ Fail(p)

\* Mutant: MarkRead returns without telling the frontends.
ReceiptTellsNobody(p) ==
    /\ task[p].at = "receipt"
    /\ task' = [task EXCEPT ![p] = Idle]
    /\ UNCHANGED <<store, rooms, greeted, feed, counters, history>>

\* The transport tells the homeserver.
Receipt(p) ==
    /\ task[p].at = "receipt"
    /\ Goto(p, "view")
    /\ UNCHANGED <<store, rooms, greeted, feed, counters, history>>

ReceiptFails(p) == task[p].at = "receipt" /\ Fail(p)

History(c, r) ==
    /\ r \in known
    /\ Command(c, [Idle EXCEPT !.at = "read", !.cmd = "history", !.room = r])

ReadHistory(p) ==
    /\ task[p].at = "read"
    /\ task' = [task EXCEPT ![p].at = "reply",
                            ![p].msgs = Recent(log[task[p].room], HistoryLimit)]
    /\ UNCHANGED <<store, rooms, greeted, feed, counters, history>>

ReadFails(p) == task[p].at = "read" /\ Fail(p)

\* Rooms copies the known rooms and then views one after the other (in the
\* order they became known in the code, in any order here).
ListCommand(c) ==
    \E t \in NextRoom([Idle EXCEPT !.cmd = "rooms", !.rest = known]) : Command(c, t)

Reply(p) ==
    LET t == task[p] IN
    /\ t.at = "reply"
    /\ feed' = [feed EXCEPT ![p] = Append(@,
                    IF t.cmd = "rooms" THEN [t |-> "rooms", list |-> t.list]
                    ELSE [t |-> "history", room |-> t.room, msgs |-> t.msgs])]
    /\ task' = [task EXCEPT ![p] = Idle]
    /\ UNCHANGED <<store, rooms, greeted, counters, history>>

-----------------------------------------------------------------------------

Ingest ==
    \/ ListRooms
    \/ \E up \in BOOLEAN : TakeConnected(up)
    \/ \E e \in Events : TakeMessage(e)

Step(p) ==
    \/ StoreAppend(p) \/ AppendFails(p)
    \/ EnsureRoom(p)
    \/ SetMarker(p) \/ MarkOwnFails(p) \/ MarkFails(p)
    \/ \E c \in Clients : BroadcastMessage(p, c) \/ BroadcastRoom(p, c)
    \/ ReadView(p) \/ CountUnread(p) \/ CountFails(p)
    \/ Receipt(p) \/ ReceiptFails(p)
    \/ ReadHistory(p) \/ ReadFails(p)
    \/ Reply(p)

Frontend(c) ==
    \/ Hello(c)
    \/ ListCommand(c)
    \/ \E r \in Rooms : History(c, r) \/ \E e \in Markers : MarkRead(c, r, e)

Next == Ingest \/ (\E p \in Procs : Step(p)) \/ (\E c \in Clients : Frontend(c))

Spec == Init /\ [][Next]_vars

-----------------------------------------------------------------------------

\* A message a frontend was shown, as a broadcast or in a history, is one the
\* store accepted: ingest stops when AppendMessage fails (session.go:125-127).
SeenIsStored ==
    \A c \in Clients : \A i \in DOMAIN feed[c] :
        LET ev == feed[c][i] IN
        /\ ev.t = "message" => Has(arrivals[RoomOf[ev.event]], ev.event)
        /\ ev.t = "history" => \A j \in DOMAIN ev.msgs : Has(arrivals[ev.room], ev.msgs[j])

Ingesting(r) == task[Run].at \in {"append", "ensure"} /\ task[Run].room = r

\* Except while a message is on its way in, lastTS is the newest timestamp of
\* the messages the session took since it started, in whatever order they
\* arrived, and 0 before the first: what the store kept from an earlier life
\* does not count (session.go:52-60, 131-133).
LastTSIsNewest ==
    \A r \in Rooms : ~Ingesting(r) =>
        LET seen == {Ts[e] : e \in heard[r]} IN
        /\ \A ts \in seen : ts <= lastTS[r]
        /\ lastTS[r] \in seen \union {0}

Quiet(r) == \A p \in Procs : r \notin Touched(task[p])

\* What the last room or rooms event in a feed said of r.
Mentions(c, r) ==
    {i \in DOMAIN feed[c] :
        \/ feed[c][i].t = "room" /\ feed[c][i].room = r
        \/ feed[c][i].t = "rooms" /\ feed[c][i].list[r] # {}}

LastMention(c, r) ==
    feed[c][CHOOSE i \in Mentions(c, r) : \A j \in Mentions(c, r) : j <= i]

LastTold(c, r) ==
    LET ev == LastMention(c, r)
    IN  IF ev.t = "room" THEN {ev.view} ELSE ev.list[r]

Agrees(c, r) ==
    (Quiet(r) /\ Mentions(c, r) # {}) =>
        LastTold(c, r) = {[unread |-> UnreadCount(log[r], marker[r]), lastTS |-> lastTS[r]]}

\* Once no handler works on a room, the last thing a frontend was told of it
\* is how the store has it, unless two handlers overlapped or one failed since
\* a handler last had the room to itself (session.go:140-145, 205-210).
AgreesUnlessRaced ==
    \A r \in Rooms, c \in Clients : <<r, c>> \notin raced => Agrees(c, r)

\* "The read state is global: when any client sends mark_read, every client
\* receives the updated room event" (docs/design/03-ipc-protocol.md:182).  The
\* count is read before the event is queued, so of two handlers at once the
\* one with the stale count may be the last to tell.  (Broadcasts only, and
\* without failing calls.)
MarkReadReachesEveryClient ==
    \A r \in Rooms, c \in Clients :
        (failures = 0 /\ Mentions(c, r) # {} /\ LastMention(c, r).t = "room")
            => Agrees(c, r)

=============================================================================
