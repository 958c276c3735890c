---------------------------- MODULE SessionProofs ----------------------------
(***************************************************************************)
(* The session, for any rooms, events, frontends, commands and failures.   *)
(* None of its three properties is inductive.  What a frontend is shown    *)
(* passes through the local variables of a handler and the log, so         *)
(* StoredInv follows it there; a timestamp is noted one step after its     *)
(* message is stored, which NewestInv allows for; and RaceInv says that a  *)
(* room which is not raced has at most one handler at it, and what that    *)
(* handler, at each of its steps, has read of the room and told of it.     *)
(***************************************************************************)
EXTENDS Session, SequenceTheorems, FiniteSetTheorems, TLAPS

\* A goroutine is at a step of its handler, for a room and an event it may have.
ShapeOf(p, t) ==
    \/ t.cmd = "none" /\ t.at \in {"list", "idle"}
    \/ /\ t.cmd = "ingest" /\ p = Run
       /\ t.at \in {"append", "ensure", "mark", "message", "view", "count", "room"}
       /\ t.event \in Events /\ t.room = RoomOf[t.event]
    \/ /\ t.cmd = "mark_read" /\ t.room \in Rooms
       /\ t.at \in {"mark", "receipt", "view", "count", "room"}
    \/ t.cmd = "history" /\ t.room \in Rooms /\ t.at \in {"read", "reply"}
    \/ /\ t.cmd = "rooms"
       /\ \/ t.at \in {"view", "count"} /\ t.room \in Rooms
          \/ t.at = "reply" /\ t.rest = {}

ShapeInv == \A p \in Procs : ShapeOf(p, task[p])

\* Only a frontend that has greeted asks for anything or is told anything.
GreetInv ==
    /\ \A p \in Procs : task[p].cmd \in {"history", "rooms"} => p \in greeted
    /\ \A c \in Clients \ greeted : feed[c] = << >>

StoredOf(t) ==
    /\ t.cmd = "ingest" /\ t.at # "append" => Has(arrivals[t.room], t.event)
    /\ t.cmd = "history" /\ t.at = "reply" => \A j \in DOMAIN t.msgs : Has(arrivals[t.room], t.msgs[j])

StoredInv ==
    /\ \A r \in Rooms : \A i \in DOMAIN log[r] : Has(arrivals[r], log[r][i])
    /\ \A p \in Procs : StoredOf(task[p])

NewestInv ==
    /\ task[Run].at = "ensure" => task[Run].event \in heard[task[Run].room]
    /\ \A r \in Rooms :
        /\ \A x \in heard[r] :
              \/ Ts[x] <= lastTS[r]
              \/ task[Run].at = "ensure" /\ task[Run].room = r /\ x = task[Run].event
        /\ lastTS[r] = 0 \/ \E x \in heard[r] : Ts[x] = lastTS[r]

\* What an event says of a room, if it speaks of it.
Speaks(ev, r) ==
    \/ ev.t = "room" /\ ev.room = r
    \/ ev.t = "rooms" /\ ev.list[r] # {}

Said(ev, r) == IF ev.t = "room" THEN {ev.view} ELSE ev.list[r]

\* The last event of feed f that speaks of r says v, or none does.
Told(f, r, v) ==
    \/ \A i \in DOMAIN f : ~Speaks(f[i], r)
    \/ \E i \in DOMAIN f :
          /\ Speaks(f[i], r) /\ Said(f[i], r) = {v}
          /\ \A j \in DOMAIN f : Speaks(f[j], r) => j <= i

Now(r) == [unread |-> UnreadCount(log[r], marker[r]), lastTS |-> lastTS[r]]

\* What a handler that is alone with r, whose view is v, has read of it and
\* told frontend c, with feed f: a change tells everybody, a listing its caller.
Working(p, t, r, c, f, v) ==
    IF t.cmd # "rooms" THEN
        /\ t.at = "count" => t.view.lastTS = v.lastTS
        /\ t.at = "room" => t.view = v /\ (c \notin t.todo => Told(f, r, v))
    ELSE IF p # c THEN Told(f, r, v)
    ELSE /\ t.list[r] \subseteq {v}
         /\ (t.at = "count" /\ t.room = r) => t.view.lastTS = v.lastTS
         /\ t.list[r] # {} \/ r \in t.rest \/ (t.room = r /\ t.at \in {"view", "count"})

\* A room that is not raced for c is as c was told, or one handler is at it.
RaceOf(r, c) ==
    /\ Quiet(r) => Told(feed[c], r, Now(r))
    /\ \A p \in Procs : r \in Touched(task[p]) =>
          /\ \A q \in Procs : r \in Touched(task[q]) => q = p
          /\ Working(p, task[p], r, c, feed[c], Now(r))

RaceInv == \A r \in Rooms, c \in Clients : <<r, c>> \notin raced => RaceOf(r, c)

-----------------------------------------------------------------------------
(* The operators of the log                                                *)

\* A stored log stays within the capacity and gains nothing but the event.
LEMMA AppendedProperties ==
  ASSUME NEW s \in Seq(Events), NEW e \in Events, Len(s) <= Capacity
  PROVE  /\ Appended(s, e) \in Seq(Events) /\ Len(Appended(s, e)) <= Capacity
         /\ \A i \in DOMAIN Appended(s, e) : Appended(s, e)[i] = e \/ Has(s, Appended(s, e)[i])
<1>. DEFINE a == Append(s, e)
<1>0. Capacity \in Nat \ {0}
  BY MessageLogAssumption
<1>1. /\ a \in Seq(Events) /\ Len(a) = Len(s) + 1 /\ Len(s) \in Nat
      /\ \A i \in 1..Len(a) : a[i] = e \/ \E j \in DOMAIN s : s[j] = a[i]
  OBVIOUS
<1>. HIDE DEF a
<1>2. \A i \in 1..Len(a) : a[i] = e \/ Has(s, a[i])
  BY <1>1 DEF Has
<1>3. CASE Has(s, e)
  BY <1>3 DEF Appended, Has
<1>4. CASE ~Has(s, e) /\ Len(a) <= Capacity
  <2>1. Appended(s, e) = a
    BY <1>0, <1>1, <1>4 DEF Appended, Trim, a
  <2>. QED
    BY <1>1, <1>2, <1>4, <2>1
<1>5. CASE ~Has(s, e) /\ Len(a) > Capacity
  <2>. DEFINE b == SubSeq(a, 2, Len(a))
  <2>1. Len(a) = Capacity + 1
    BY <1>0, <1>1, <1>5
  <2>2. Appended(s, e) = b
    BY <1>0, <1>1, <1>5, <2>1 DEF Appended, Trim, LastN, a
  <2>3. b \in Seq(Events) /\ Len(b) = Capacity /\ \A i \in 1..Len(b) : i + 1 \in 1..Len(a) /\ b[i] = a[i + 1]
    BY <1>0, <1>1, <2>1
  <2>. HIDE DEF b
  <2>. QED
    BY <1>0, <1>2, <2>2, <2>3
<1>. QED
  BY <1>0, <1>1, <1>3, <1>4, <1>5

\* A history is a part of the log.
LEMMA RecentProperties ==
  ASSUME NEW s \in Seq(Events), NEW n \in Nat
  PROVE  /\ Recent(s, n) \in Seq(Events)
         /\ \A i \in DOMAIN Recent(s, n) : Has(s, Recent(s, n)[i])
<1>1. CASE n = 0 \/ n > Len(s)
  BY <1>1 DEF Recent, Has
<1>2. CASE ~(n = 0 \/ n > Len(s))
  <2>. DEFINE b == SubSeq(s, Len(s) - n + 1, Len(s))
  <2>1. Recent(s, n) = b
    BY <1>2 DEF Recent, LastN
  <2>2. b \in Seq(Events) /\ Len(b) = n /\ \A i \in 1..n : i + (Len(s) - n) \in DOMAIN s /\ b[i] = s[i + (Len(s) - n)]
    BY <1>2
  <2>. HIDE DEF b
  <2>. QED
    BY <2>1, <2>2 DEF Has
<1>. QED
  BY <1>1, <1>2

\* A count is a number.
LEMMA UnreadCountType ==
  ASSUME NEW s \in Seq(Events), NEW m \in Markers
  PROVE  UnreadCount(s, m) \in Nat
<1>1. UnreadPositions(s, m) \subseteq 1..Len(s) /\ Len(s) \in Nat
  BY DEF UnreadPositions
<1>2. IsFiniteSet(1..Len(s))
  BY <1>1, FS_Interval
<1>3. IsFiniteSet(UnreadPositions(s, m))
  BY <1>1, <1>2, FS_Subset
<1>. QED
  BY <1>3, FS_CardinalityType DEF UnreadCount

\* The marker a command leaves behind is an event or none.
LEMMA MarkedType ==
  ASSUME NEW s \in Seq(Events), NEW m \in Markers, NEW e \in Markers
  PROVE  Marked(s, m, e) \in Markers
<1>1. s # << >> => s[Len(s)] \in Events
  OBVIOUS
<1>. QED
  BY <1>1 DEF Marked, Markers

-----------------------------------------------------------------------------
(* Types                                                                   *)

\* No goroutine ever has less to do.
LEMMA IdleIsTask == Idle \in Task
<1>1. [r \in Rooms |-> {}] \in Listing
  BY DEF Listing
<1>2. << >> \in Seq(Events)
  BY EmptySeq
<1>3. [unread |-> 0, lastTS |-> 0] \in View
  BY DEF View
<1>. QED
  BY <1>1, <1>2, <1>3 DEF Idle, Task, Markers

LEMMA InitTypes == Init => TypeOK
<1>. SUFFICES ASSUME Init PROVE TypeOK
  OBVIOUS
<1>1. StoreOK
  <2>1. Capacity \in Nat
    BY MessageLogAssumption
  <2>2. ASSUME NEW r \in Rooms, NEW s \in Stored(r) PROVE s \in Seq(Events) /\ Len(s) <= Capacity
    <3>1. PICK n \in 0..Capacity : s \in [1..n -> Events]
      BY <2>2 DEF Stored
    <3>. QED
      BY <2>1, <3>1
  <2>3. log \in [Rooms -> Seq(Events)] /\ \A r \in Rooms : Len(log[r]) <= Capacity
    <3>1. DOMAIN log = Rooms /\ log = [r \in DOMAIN log |-> log[r]]
      BY DEF Init
    <3>. QED
      BY <2>2, <3>1 DEF Init
  <2>4. heard \in [Rooms -> SUBSET Events] /\ arrivals = log /\ marker \in [Rooms -> Markers]
    BY DEF Init
  <2>. QED
    BY <2>3, <2>4 DEF StoreOK
<1>2. RoomsOK
  BY DEF Init, RoomsOK
<1>3. task \in [Procs -> Task]
  <2>1. [Idle EXCEPT !.at = "list"] \in Task
    BY IdleIsTask DEF Task
  <2>. QED
    BY <2>1, IdleIsTask DEF Init
<1>4. feed \in [Clients -> Seq(FeedEvent)]
  BY EmptySeq DEF Init
<1>. QED
  BY <1>1, <1>2, <1>3, <1>4 DEF TypeOK

\* Where a goroutine is put, it can be.
LEMMA GotoTypes ==
  ASSUME NEW t \in Task,
         NEW at \in {"append", "ensure", "mark", "message", "receipt", "view", "count", "room",
                     "read", "reply"},
         NEW todo \in SUBSET Clients
  PROVE  /\ [t EXCEPT !.at = at] \in Task
         /\ [t EXCEPT !.at = at, !.todo = todo] \in Task
         /\ [t EXCEPT !.todo = todo] \in Task
  BY DEF Task

\* A step of one goroutine.
LEMMA OneTask ==
  ASSUME task \in [Procs -> Task], NEW p \in Procs, NEW t \in Task, task' = [task EXCEPT ![p] = t]
  PROVE  /\ task' \in [Procs -> Task]
         /\ task'[p] = t
         /\ \A q \in Procs \ {p} : task'[q] = task[q]
  OBVIOUS

\* A handler of "rooms" takes one more room from the rest, or answers.
LEMMA NextRoomTypes ==
  ASSUME NEW t \in Task, NEW u \in NextRoom(t)
  PROVE  /\ u \in Task /\ u.cmd = t.cmd /\ u.list = t.list /\ u.view = t.view
         /\ \/ u.at = "reply" /\ u.rest = {} /\ t.rest = {} /\ u.room = t.room
            \/ u.at = "view" /\ u.room \in Rooms /\ t.rest = u.rest \union {u.room}
<1>1. CASE t.rest = {}
  <2>1. u = [t EXCEPT !.at = "reply"]
    BY <1>1 DEF NextRoom
  <2>. QED
    BY <1>1, <2>1 DEF Task
<1>2. CASE t.rest # {}
  <2>1. PICK r \in t.rest : u = [t EXCEPT !.at = "view", !.room = r, !.rest = @ \ {r}]
    BY <1>2 DEF NextRoom
  <2>2. t.rest \subseteq Rooms
    BY DEF Task
  <2>. QED
    BY <2>1, <2>2 DEF Task
<1>. QED
  BY <1>1, <1>2

\* What a handler is started with.
LEMMA StartTypes ==
  /\ \A e \in Events : [Idle EXCEPT !.at = "append", !.cmd = "ingest", !.room = RoomOf[e], !.event = e] \in Task
  /\ \A r \in Rooms, e \in Markers :
        [Idle EXCEPT !.at = "mark", !.cmd = "mark_read", !.room = r, !.event = e] \in Task
  /\ \A r \in Rooms : [Idle EXCEPT !.at = "read", !.cmd = "history", !.room = r] \in Task
  /\ \A rs \in SUBSET Rooms : [Idle EXCEPT !.cmd = "rooms", !.rest = rs] \in Task
<1>1. \A e \in Events : RoomOf[e] \in Rooms /\ e \in Markers
  BY SessionAssumption DEF Markers
<1>2. Idle \in Task
  BY IdleIsTask
<1>. QED
  BY <1>1, <1>2 DEF Task

\* The rooms a handler is at are rooms.
LEMMA TouchedRooms ==
  ASSUME NEW t \in Task, t.cmd \in {"ingest", "mark_read"} => t.room \in Rooms
  PROVE  Touched(t) \subseteq Rooms
<1>1. t.rest \subseteq Rooms /\ t.room \in Rooms \union {NoRoom}
  BY DEF Task
<1>. QED
  BY <1>1 DEF Touched

\* A handler of "rooms" starts with all rooms before it.
LEMMA ListStart ==
  ASSUME NEW rs \in SUBSET Rooms, NEW u \in NextRoom([Idle EXCEPT !.cmd = "rooms", !.rest = rs])
  PROVE  /\ u \in Task /\ u.cmd = "rooms" /\ u.list = [r \in Rooms |-> {}]
         /\ \/ u.at = "reply" /\ u.rest = {} /\ rs = {} /\ u.room = NoRoom
            \/ u.at = "view" /\ u.room \in Rooms /\ rs = u.rest \union {u.room}
<1>. DEFINE t == [Idle EXCEPT !.cmd = "rooms", !.rest = rs]
<1>1. t \in Task /\ t.cmd = "rooms" /\ t.list = [r \in Rooms |-> {}] /\ t.rest = rs /\ t.room = NoRoom
  BY StartTypes DEF Idle
<1>. HIDE DEF t
<1>2. u \in NextRoom(t)
  BY DEF t
<1>. QED
  BY <1>1, <1>2, NextRoomTypes

\* A step that moves p to t and leaves the rest of the state alone.
LEMMA MoveTypes ==
  ASSUME TypeOK, NEW p \in Procs, NEW t \in Task, task' = [task EXCEPT ![p] = t],
         UNCHANGED <<log, marker, arrivals, heard, rooms, greeted, feed, raced>>
  PROVE  TypeOK'
<1>1. task' \in [Procs -> Task] /\ feed' \in [Clients -> Seq(FeedEvent)]
  BY DEF TypeOK
<1>2. StoreOK'
  BY DEF TypeOK, StoreOK
<1>3. RoomsOK'
  BY DEF TypeOK, RoomsOK, rooms
<1>. QED
  BY <1>1, <1>2, <1>3 DEF TypeOK

\* An early return keeps the types.
LEMMA FailTypes ==
  ASSUME TypeOK, ShapeInv, NEW p \in Procs, Fail(p)
  PROVE  TypeOK'
<1>1. StoreOK'
  BY DEF TypeOK, StoreOK, Fail, store
<1>2. RoomsOK'
  <2>1. Touched(task[p]) \subseteq Rooms
    <3>1. task[p] \in Task /\ (task[p].cmd \in {"ingest", "mark_read"} => task[p].room \in Rooms)
      BY SessionAssumption DEF TypeOK, ShapeInv, ShapeOf
    <3>. QED
      BY <3>1, TouchedRooms
  <2>. QED
    BY <2>1 DEF TypeOK, RoomsOK, Fail, rooms
<1>3. task' \in [Procs -> Task] /\ feed' \in [Clients -> Seq(FeedEvent)]
  BY IdleIsTask DEF TypeOK, Fail
<1>. QED
  BY <1>1, <1>2, <1>3 DEF TypeOK

\* So does taking up a task.
LEMMA BeginTypes ==
  ASSUME TypeOK, NEW p \in Procs, NEW t \in Task, Begin(p, t),
         t.cmd \in {"ingest", "mark_read"} => t.room \in Rooms,
         UNCHANGED <<store, rooms, greeted, feed, arrivals, heard>>
  PROVE  TypeOK'
<1>1. StoreOK'
  BY DEF TypeOK, StoreOK, store
<1>2. RoomsOK'
  <2>1. Touched(t) \subseteq Rooms
    BY TouchedRooms
  <2>. QED
    BY <2>1 DEF TypeOK, RoomsOK, Begin, rooms
<1>3. task' \in [Procs -> Task] /\ feed' \in [Clients -> Seq(FeedEvent)]
  BY DEF TypeOK, Begin
<1>. QED
  BY <1>1, <1>2, <1>3 DEF TypeOK

\* And so does an event for a frontend.
LEMMA TellTypes ==
  ASSUME TypeOK, NEW p \in Procs, NEW c \in Clients, NEW ev \in FeedEvent,
         NEW next \in {"view", "idle"}, Tell(p, c, ev, next)
  PROVE  TypeOK'
<1>1. StoreOK'
  BY DEF TypeOK, StoreOK, Tell, store, history
<1>2. RoomsOK'
  BY DEF TypeOK, RoomsOK, Tell, rooms, history
<1>3. task' \in [Procs -> Task]
  <2>. DEFINE t == task[p]
  <2>1. t \in Task
    BY DEF TypeOK
  <2>2. t.todo \ {c} \in SUBSET Clients
    BY <2>1 DEF Task
  <2>3. [t EXCEPT !.todo = t.todo \ {c}] \in Task
    BY <2>1, <2>2, GotoTypes
  <2>4. [t EXCEPT !.todo = {}, !.at = "view"] \in Task
    BY <2>1 DEF Task
  <2>5. PICK u \in Task : task' = [task EXCEPT ![p] = u]
    <3>1. CASE t.todo # {c}
      <4>1. task' = [task EXCEPT ![p] = [t EXCEPT !.todo = t.todo \ {c}]]
        BY <3>1 DEF Tell
      <4>. QED
        BY <2>3, <4>1
    <3>2. CASE t.todo = {c} /\ next = "idle"
      BY <3>2, IdleIsTask DEF Tell
    <3>3. CASE t.todo = {c} /\ next # "idle"
      BY <2>4, <3>3 DEF Tell
    <3>. QED
      BY <3>1, <3>2, <3>3
  <2>. QED
    BY <2>5 DEF TypeOK
<1>4. feed' \in [Clients -> Seq(FeedEvent)]
  BY DEF TypeOK, Tell
<1>. QED
  BY <1>1, <1>2, <1>3, <1>4 DEF TypeOK

\* Every step of a handler keeps the types.
LEMMA StepTypes ==
  ASSUME TypeOK, NEW p \in Procs, Step(p), ShapeInv
  PROVE  TypeOK'
<1>. DEFINE t == task[p]
<1>1. t \in Task /\ task \in [Procs -> Task]
  BY DEF TypeOK
<1>2. CASE StoreAppend(p)
  <2>1. t.room \in Rooms /\ t.event \in Events
    BY <1>2, SessionAssumption DEF StoreAppend, ShapeInv, ShapeOf
  <2>2. StoreOK'
    <3>1. log' = [log EXCEPT ![t.room] = Appended(@, t.event)]
      BY <1>2 DEF StoreAppend
    <3>2. log \in [Rooms -> Seq(Events)] /\ \A r \in Rooms : Len(log[r]) <= Capacity
      BY DEF TypeOK, StoreOK
    <3>3. Appended(log[t.room], t.event) \in Seq(Events) /\ Len(Appended(log[t.room], t.event)) <= Capacity
      BY <2>1, <3>2, AppendedProperties
    <3>4. log' \in [Rooms -> Seq(Events)] /\ \A r \in Rooms : Len(log'[r]) <= Capacity
      BY <3>1, <3>2, <3>3
    <3>5. arrivals' \in [Rooms -> Seq(Events)] /\ marker' \in [Rooms -> Markers]
      BY <1>2, <2>1 DEF TypeOK, StoreOK, StoreAppend
    <3>6. heard' \in [Rooms -> SUBSET Events]
      BY <1>2, <2>1 DEF TypeOK, StoreOK, StoreAppend
    <3>. QED
      BY <3>4, <3>5, <3>6 DEF StoreOK
  <2>3. RoomsOK'
    BY <1>2 DEF TypeOK, RoomsOK, StoreAppend, rooms
  <2>4. task' \in [Procs -> Task] /\ feed' \in [Clients -> Seq(FeedEvent)]
    BY <1>1, <1>2, GotoTypes DEF TypeOK, StoreAppend, Goto
  <2>. QED
    BY <2>2, <2>3, <2>4 DEF TypeOK
<1>3. CASE EnsureRoom(p)
  <2>1. t.room \in Rooms /\ t.event \in Events
    BY <1>3, SessionAssumption DEF EnsureRoom, ShapeInv, ShapeOf
  <2>2. StoreOK'
    BY <1>3 DEF TypeOK, StoreOK, EnsureRoom, store, history
  <2>3. RoomsOK'
    <3>1. Ts[t.event] \in Nat
      BY <2>1, SessionAssumption
    <3>. QED
      BY <1>3, <2>1, <3>1 DEF TypeOK, RoomsOK, EnsureRoom, TouchRoom, history
  <2>4. task' \in [Procs -> Task] /\ feed' \in [Clients -> Seq(FeedEvent)]
    <3>1. [t EXCEPT !.at = "mark"] \in Task /\ [t EXCEPT !.at = "message", !.todo = Clients] \in Task
      BY <1>1, GotoTypes
    <3>. QED
      BY <1>1, <1>3, <3>1 DEF TypeOK, EnsureRoom, Goto, GotoBroadcast
  <2>. QED
    BY <2>2, <2>3, <2>4 DEF TypeOK
<1>4. CASE SetMarker(p)
  <2>1. t.room \in Rooms /\ t.event \in Markers
    BY <1>1, <1>4, SessionAssumption DEF SetMarker, ShapeInv, ShapeOf, Task
  <2>2. StoreOK'
    <3>1. Marked(log[t.room], marker[t.room], t.event) \in Markers
      BY <2>1, MarkedType DEF TypeOK, StoreOK
    <3>. QED
      BY <1>4, <3>1 DEF TypeOK, StoreOK, SetMarker, history
  <2>3. RoomsOK'
    BY <1>4 DEF TypeOK, RoomsOK, SetMarker, rooms, history
  <2>4. task' \in [Procs -> Task] /\ feed' \in [Clients -> Seq(FeedEvent)]
    <3>1. [t EXCEPT !.at = "receipt"] \in Task /\ [t EXCEPT !.at = "message", !.todo = Clients] \in Task
      BY <1>1, GotoTypes
    <3>. QED
      BY <1>1, <1>4, <3>1 DEF TypeOK, SetMarker, Goto, GotoBroadcast
  <2>. QED
    BY <2>2, <2>3, <2>4 DEF TypeOK
<1>5. CASE AppendFails(p) \/ MarkFails(p) \/ CountFails(p) \/ ReceiptFails(p) \/ ReadFails(p)
  BY <1>5, FailTypes DEF AppendFails, MarkFails, CountFails, ReceiptFails, ReadFails
<1>6. CASE MarkOwnFails(p) \/ ReadView(p) \/ Receipt(p)
  <2>1. PICK u \in Task : task' = [task EXCEPT ![p] = u]
    <3>1. CASE MarkOwnFails(p)
      BY <1>1, <3>1, GotoTypes DEF MarkOwnFails, GotoBroadcast
    <3>2. CASE ReadView(p)
      <4>1. t.room \in Rooms
        BY <3>2, SessionAssumption DEF ReadView, ShapeInv, ShapeOf
      <4>2. lastTS[t.room] \in Nat
        BY <4>1 DEF TypeOK, RoomsOK
      <4>3. [t.view EXCEPT !.lastTS = lastTS[t.room]] \in View
        BY <1>1, <4>2 DEF Task, View
      <4>4. [t EXCEPT !.at = "count", !.view.lastTS = lastTS[t.room]] \in Task
        BY <1>1, <4>3 DEF Task
      <4>5. task' = [task EXCEPT ![p] = [t EXCEPT !.at = "count", !.view.lastTS = lastTS[t.room]]]
        BY <1>1, <3>2 DEF ReadView
      <4>. QED
        BY <4>4, <4>5
    <3>3. CASE Receipt(p)
      BY <1>1, <3>3, GotoTypes DEF Receipt, Goto
    <3>. QED
      BY <1>6, <3>1, <3>2, <3>3
  <2>2. UNCHANGED <<log, marker, arrivals, heard, rooms, greeted, feed, raced>>
    BY <1>6 DEF MarkOwnFails, ReadView, Receipt, store, history
  <2>. QED
    BY <2>1, <2>2, MoveTypes
<1>7. CASE CountUnread(p)
  <2>. DEFINE n == UnreadCount(log[t.room], marker[t.room])
              u == [t EXCEPT !.view.unread = n]
  <2>1. t.room \in Rooms
    BY <1>7, SessionAssumption DEF CountUnread, ShapeInv, ShapeOf
  <2>2. n \in Nat
    BY <2>1, UnreadCountType DEF TypeOK, StoreOK
  <2>. HIDE DEF n
  <2>3. u \in Task
    BY <1>1, <2>2 DEF Task, View
  <2>4. \/ \E next \in NextRoom([u EXCEPT !.list[t.room] = {u.view}]) : task' = [task EXCEPT ![p] = next]
        \/ task' = [task EXCEPT ![p] = [u EXCEPT !.at = "room", !.todo = Clients]]
    BY <1>1, <1>7 DEF CountUnread, n, Task
  <2>. HIDE DEF u
  <2>5. [u EXCEPT !.list[t.room] = {u.view}] \in Task
    BY <2>1, <2>3 DEF Task, Listing
  <2>6. [u EXCEPT !.at = "room", !.todo = Clients] \in Task
    BY <2>3, GotoTypes
  <2>7. PICK v \in Task : task' = [task EXCEPT ![p] = v]
    BY <2>4, <2>5, <2>6, NextRoomTypes
  <2>8. UNCHANGED <<log, marker, arrivals, heard, rooms, greeted, feed, raced>>
    BY <1>7 DEF CountUnread, store, history
  <2>. QED
    BY <2>7, <2>8, MoveTypes
<1>8. CASE ReadHistory(p)
  <2>1. t.room \in Rooms
    BY <1>8, SessionAssumption DEF ReadHistory, ShapeInv, ShapeOf
  <2>2. Recent(log[t.room], HistoryLimit) \in Seq(Events)
    BY <2>1, RecentProperties, SessionAssumption DEF TypeOK, StoreOK
  <2>3. [t EXCEPT !.at = "reply", !.msgs = Recent(log[t.room], HistoryLimit)] \in Task
    BY <1>1, <2>2 DEF Task
  <2>4. task' = [task EXCEPT ![p] = [t EXCEPT !.at = "reply", !.msgs = Recent(log[t.room], HistoryLimit)]]
    BY <1>8 DEF ReadHistory
  <2>5. UNCHANGED <<log, marker, arrivals, heard, rooms, greeted, feed, raced>>
    BY <1>8 DEF ReadHistory, store, history
  <2>. QED
    BY <2>3, <2>4, <2>5, MoveTypes
<1>9. ASSUME NEW c \in Clients, BroadcastMessage(p, c) \/ BroadcastRoom(p, c) PROVE TypeOK'
  <2>1. CASE BroadcastMessage(p, c)
    <3>1. t.event \in Events
      BY <2>1 DEF BroadcastMessage, ShapeInv, ShapeOf
    <3>2. [t |-> "message", event |-> t.event] \in FeedEvent
      BY <3>1 DEF FeedEvent
    <3>. QED
      BY <2>1, <3>2, TellTypes DEF BroadcastMessage
  <2>2. CASE BroadcastRoom(p, c)
    <3>1. t.room \in Rooms
      BY <2>2, SessionAssumption DEF BroadcastRoom, ShapeInv, ShapeOf
    <3>2. [t |-> "room", room |-> t.room, view |-> t.view] \in FeedEvent
      BY <1>1, <3>1 DEF FeedEvent, Task
    <3>. QED
      BY <2>2, <3>2, TellTypes DEF BroadcastRoom
  <2>. QED
    BY <1>9, <2>1, <2>2
<1>10. CASE Reply(p)
  <2>. DEFINE ev == IF t.cmd = "rooms" THEN [t |-> "rooms", list |-> t.list]
                    ELSE [t |-> "history", room |-> t.room, msgs |-> t.msgs]
  <2>1. t.cmd # "rooms" => t.room \in Rooms
    BY <1>10 DEF Reply, ShapeInv, ShapeOf
  <2>2. ev \in FeedEvent
    BY <1>1, <2>1 DEF FeedEvent, Task
  <2>3. feed' = [feed EXCEPT ![p] = Append(@, ev)] /\ task' = [task EXCEPT ![p] = Idle]
    BY <1>10 DEF Reply
  <2>. HIDE DEF ev
  <2>4. task' \in [Procs -> Task] /\ feed' \in [Clients -> Seq(FeedEvent)]
    <3>1. task' \in [Procs -> Task]
      BY <1>1, <2>3, IdleIsTask
    <3>2. CASE p \in Clients
      <4>1. feed \in [Clients -> Seq(FeedEvent)] /\ Append(feed[p], ev) \in Seq(FeedEvent)
        BY <2>2, <3>2 DEF TypeOK
      <4>. QED
        BY <2>3, <3>1, <3>2, <4>1
    <3>3. CASE p \notin Clients
      <4>1. feed' = feed
        BY <2>3, <3>3 DEF TypeOK
      <4>. QED
        BY <3>1, <4>1 DEF TypeOK
    <3>. QED
      BY <3>2, <3>3
  <2>5. StoreOK'
    BY <1>10 DEF TypeOK, StoreOK, Reply, store, history
  <2>6. RoomsOK'
    BY <1>10 DEF TypeOK, RoomsOK, Reply, rooms, history
  <2>. QED
    BY <2>4, <2>5, <2>6 DEF TypeOK
<1>. QED
  BY <1>2, <1>3, <1>4, <1>5, <1>6, <1>7, <1>8, <1>9, <1>10 DEF Step

\* Every step of Session.Run and of a frontend keeps the types.
LEMMA OtherTypes ==
  ASSUME TypeOK, Ingest \/ \E c \in Clients : Frontend(c)
  PROVE  TypeOK'
<1>0. Run \in Procs /\ Clients \subseteq Procs
  BY DEF Procs
<1>1. CASE ListRooms
  <2>1. StoreOK'
    BY <1>1 DEF TypeOK, StoreOK, ListRooms, store, history
  <2>2. RoomsOK'
    BY <1>1, SessionAssumption DEF TypeOK, RoomsOK, ListRooms, history
  <2>3. task' \in [Procs -> Task] /\ feed' \in [Clients -> Seq(FeedEvent)]
    BY <1>1, IdleIsTask DEF TypeOK, ListRooms
  <2>. QED
    BY <2>1, <2>2, <2>3 DEF TypeOK
<1>2. ASSUME NEW up \in BOOLEAN, TakeConnected(up) PROVE TypeOK'
  <2>1. StoreOK'
    BY <1>2 DEF TypeOK, StoreOK, TakeConnected, store, history
  <2>2. RoomsOK'
    BY <1>2 DEF TypeOK, RoomsOK, TakeConnected, history
  <2>3. task' \in [Procs -> Task] /\ feed' \in [Clients -> Seq(FeedEvent)]
    BY <1>2 DEF TypeOK, TakeConnected
  <2>. QED
    BY <2>1, <2>2, <2>3 DEF TypeOK
<1>3. ASSUME NEW e \in Events, TakeMessage(e) PROVE TypeOK'
  <2>. DEFINE t == [Idle EXCEPT !.at = "append", !.cmd = "ingest", !.room = RoomOf[e], !.event = e]
  <2>1. t \in Task /\ t.room \in Rooms
    BY StartTypes, SessionAssumption DEF Idle
  <2>2. Begin(Run, t) /\ UNCHANGED <<store, rooms, greeted, feed, arrivals, heard>>
    BY <1>3 DEF TakeMessage
  <2>. HIDE DEF t
  <2>. QED
    BY <1>0, <2>1, <2>2, BeginTypes
<1>4. ASSUME NEW c \in Clients, NEW t \in Task, Command(c, t),
             t.cmd \in {"ingest", "mark_read"} => t.room \in Rooms
      PROVE  TypeOK'
  BY <1>0, <1>4, BeginTypes DEF Command
<1>5. ASSUME NEW c \in Clients, Frontend(c) PROVE TypeOK'
  <2>1. CASE Hello(c)
    <3>1. StoreOK'
      BY <2>1 DEF TypeOK, StoreOK, Hello, store, history
    <3>2. RoomsOK'
      BY <2>1 DEF TypeOK, RoomsOK, Hello, rooms, history
    <3>3. [t |-> "ready", connected |-> connected] \in FeedEvent
      BY DEF TypeOK, RoomsOK, FeedEvent
    <3>4. task' \in [Procs -> Task] /\ feed' \in [Clients -> Seq(FeedEvent)]
      BY <2>1, <3>3 DEF TypeOK, Hello
    <3>. QED
      BY <3>1, <3>2, <3>4 DEF TypeOK
  <2>2. CASE ListCommand(c)
    <3>1. PICK t \in NextRoom([Idle EXCEPT !.cmd = "rooms", !.rest = known]) : Command(c, t)
      BY <2>2 DEF ListCommand
    <3>2. known \in SUBSET Rooms
      BY DEF TypeOK, RoomsOK
    <3>3. t \in Task /\ t.cmd = "rooms"
      BY <3>1, <3>2, StartTypes, ListStart
    <3>. QED
      BY <1>4, <3>1, <3>3
  <2>3. ASSUME NEW r \in Rooms, History(c, r) PROVE TypeOK'
    <3>. DEFINE t == [Idle EXCEPT !.at = "read", !.cmd = "history", !.room = r]
    <3>1. t \in Task /\ t.room \in Rooms
      BY StartTypes DEF Idle
    <3>2. Command(c, t)
      BY <2>3 DEF History
    <3>. HIDE DEF t
    <3>. QED
      BY <1>4, <3>1, <3>2
  <2>4. ASSUME NEW r \in Rooms, NEW e \in Markers, MarkRead(c, r, e) PROVE TypeOK'
    <3>. DEFINE t == [Idle EXCEPT !.at = "mark", !.cmd = "mark_read", !.room = r, !.event = e]
    <3>1. t \in Task /\ t.room \in Rooms
      BY StartTypes DEF Idle
    <3>2. Command(c, t)
      BY <2>4 DEF MarkRead
    <3>. HIDE DEF t
    <3>. QED
      BY <1>4, <3>1, <3>2
  <2>. QED
    BY <1>5, <2>1, <2>2, <2>3, <2>4 DEF Frontend
<1>. QED
  BY <1>1, <1>2, <1>3, <1>5 DEF Ingest

-----------------------------------------------------------------------------
(* Steps of a handler                                                      *)

\* roomView has read the timestamp.
LEMMA ViewFacts ==
  ASSUME TypeOK, NEW p \in Procs, ReadView(p)
  PROVE  LET t == task[p]
             u == task'[p]
         IN  /\ t.at = "view" /\ u.at = "count" /\ u.cmd = t.cmd /\ u.room = t.room /\ u.event = t.event
             /\ u.list = t.list /\ u.rest = t.rest /\ u.view.lastTS = lastTS[t.room]
             /\ \A q \in Procs \ {p} : task'[q] = task[q]
<1>1. task \in [Procs -> Task] /\ task[p] \in Task
  BY DEF TypeOK
<1>. QED
  BY <1>1 DEF ReadView, Task, View

\* roomView has counted: the view is broadcast, or is the room's in the list.
LEMMA CountFacts ==
  ASSUME TypeOK, ShapeInv, NEW p \in Procs, CountUnread(p)
  PROVE  LET t == task[p]
             u == task'[p]
             v == [unread |-> UnreadCount(log[t.room], marker[t.room]), lastTS |-> t.view.lastTS]
         IN  /\ t.at = "count" /\ t.room \in Rooms /\ u.cmd = t.cmd
             /\ t.cmd = "rooms" =>
                   /\ u.list = [t.list EXCEPT ![t.room] = {v}]
                   /\ \/ u.at = "reply" /\ u.rest = {} /\ t.rest = {} /\ u.room = t.room
                      \/ u.at = "view" /\ u.room \in Rooms /\ t.rest = u.rest \union {u.room}
             /\ t.cmd # "rooms" =>
                   /\ u.at = "room" /\ u.room = t.room /\ u.event = t.event
                   /\ u.view = v /\ u.todo = Clients
             /\ \A q \in Procs \ {p} : task'[q] = task[q]
<1>. DEFINE t == task[p]
            n == UnreadCount(log[t.room], marker[t.room])
            u == [t EXCEPT !.view.unread = n]
            v == [unread |-> n, lastTS |-> t.view.lastTS]
<1>1. task \in [Procs -> Task] /\ t \in Task /\ t.at = "count" /\ t.room \in Rooms
  BY SessionAssumption DEF TypeOK, CountUnread, ShapeInv, ShapeOf
<1>2. n \in Nat
  BY <1>1, UnreadCountType DEF TypeOK, StoreOK
<1>3. \/ /\ t.cmd = "rooms"
         /\ \E next \in NextRoom([u EXCEPT !.list[t.room] = {u.view}]) : task' = [task EXCEPT ![p] = next]
      \/ t.cmd # "rooms" /\ task' = [task EXCEPT ![p] = [u EXCEPT !.at = "room", !.todo = Clients]]
  BY <1>1 DEF CountUnread, Task
<1>. HIDE DEF n
<1>4. u \in Task /\ u.view = v /\ u.cmd = t.cmd /\ u.list = t.list /\ u.rest = t.rest
      /\ u.room = t.room /\ u.event = t.event
  BY <1>1, <1>2 DEF Task, View
<1>. HIDE DEF u
<1>5. CASE t.cmd = "rooms"
  <2>. DEFINE w == [u EXCEPT !.list[t.room] = {u.view}]
  <2>1. /\ w \in Task /\ w.cmd = "rooms" /\ w.rest = t.rest /\ w.room = t.room
        /\ w.list = [t.list EXCEPT ![t.room] = {v}]
    BY <1>1, <1>4, <1>5 DEF Task, Listing
  <2>2. PICK next \in NextRoom(w) : task' = [task EXCEPT ![p] = next]
    BY <1>3, <1>5
  <2>. HIDE DEF w
  <2>3. task'[p] = next /\ \A q \in Procs \ {p} : task'[q] = task[q]
    BY <1>1, <2>2
  <2>4. /\ next.cmd = w.cmd /\ next.list = w.list
        /\ \/ next.at = "reply" /\ next.rest = {} /\ w.rest = {} /\ next.room = w.room
           \/ next.at = "view" /\ next.room \in Rooms /\ w.rest = next.rest \union {next.room}
    BY <2>1, <2>2, NextRoomTypes
  <2>. QED
    BY <1>1, <1>5, <2>1, <2>3, <2>4 DEF n
<1>6. CASE t.cmd # "rooms"
  <2>. DEFINE w == [u EXCEPT !.at = "room", !.todo = Clients]
  <2>1. /\ w.at = "room" /\ w.cmd = t.cmd /\ w.room = t.room /\ w.event = t.event
        /\ w.view = v /\ w.todo = Clients
    BY <1>4 DEF Task
  <2>2. task' = [task EXCEPT ![p] = w]
    BY <1>3, <1>6
  <2>. HIDE DEF w
  <2>3. task'[p] = w /\ \A q \in Procs \ {p} : task'[q] = task[q]
    BY <1>1, <2>2
  <2>. QED
    BY <1>1, <1>6, <2>1, <2>3 DEF n
<1>. QED
  BY <1>5, <1>6

\* A broadcast goes on with the next frontend, or the handler does.
LEMMA TellFacts ==
  ASSUME TypeOK, NEW p \in Procs, NEW c \in Clients, NEW ev, NEW next \in {"view", "idle"},
         Tell(p, c, ev, next)
  PROVE  LET t == task[p]
             u == task'[p]
         IN  /\ \/ /\ u.at = t.at /\ u.todo = t.todo \ {c} /\ u.view = t.view
                   /\ u.cmd = t.cmd /\ u.room = t.room /\ u.event = t.event
                \/ t.todo = {c} /\ next = "idle" /\ u = Idle
                \/ /\ t.todo = {c} /\ next = "view" /\ u.at = "view"
                   /\ u.cmd = t.cmd /\ u.room = t.room /\ u.event = t.event
             /\ \A q \in Procs \ {p} : task'[q] = task[q]
<1>. DEFINE t == task[p]
<1>1. task \in [Procs -> Task] /\ t \in Task
  BY DEF TypeOK
<1>2. CASE t.todo # {c}
  <2>1. task' = [task EXCEPT ![p] = [t EXCEPT !.todo = t.todo \ {c}]]
    BY <1>2 DEF Tell
  <2>. QED
    BY <1>1, <2>1 DEF Task
<1>3. CASE t.todo = {c} /\ next = "idle"
  BY <1>1, <1>3 DEF Tell
<1>4. CASE t.todo = {c} /\ next = "view"
  <2>1. task' = [task EXCEPT ![p] = [t EXCEPT !.todo = {}, !.at = "view"]]
    BY <1>4 DEF Tell
  <2>. QED
    BY <1>1, <1>4, <2>1 DEF Task
<1>. QED
  BY <1>2, <1>3, <1>4

\* What a step of p makes of the goroutines.
LEMMA ShapeMove ==
  ASSUME ShapeInv, NEW p \in Procs, \A q \in Procs \ {p} : task'[q] = task[q], ShapeOf(p, task'[p])
  PROVE  ShapeInv'
<1>1. ASSUME NEW q \in Procs PROVE ShapeOf(q, task'[q])
  BY <1>1 DEF ShapeInv
<1>2. ASSUME NEW q \in Procs PROVE ShapeOf(q, task[q])'
  BY <1>1 DEF ShapeOf
<1>. QED
  BY <1>2 DEF ShapeInv

\* A handler goes on with its next step.
LEMMA StepShape ==
  ASSUME TypeOK, ShapeInv, NEW p \in Procs, Step(p)
  PROVE  ShapeInv'
<1>. DEFINE t == task[p]
<1>1. t \in Task /\ task \in [Procs -> Task] /\ ShapeOf(p, t)
  BY DEF TypeOK, ShapeInv
<1>2. ShapeOf(p, Idle) /\ Idle \in Task
  BY IdleIsTask DEF ShapeOf, Idle
<1>3. ASSUME NEW u \in Task, task' = [task EXCEPT ![p] = u], ShapeOf(p, u) PROVE ShapeInv'
  <2>1. task'[p] = u /\ \A q \in Procs \ {p} : task'[q] = task[q]
    BY <1>1, <1>3
  <2>. QED
    BY <1>3, <2>1, ShapeMove
<1>4. CASE StoreAppend(p)
  <2>. DEFINE u == [t EXCEPT !.at = "ensure"]
  <2>1. u \in Task /\ ShapeOf(p, u)
    BY <1>1, <1>4 DEF StoreAppend, ShapeOf, Task
  <2>. QED
    BY <1>3, <1>4, <2>1 DEF StoreAppend, Goto
<1>5. CASE EnsureRoom(p)
  <2>1. PICK u \in {[t EXCEPT !.at = "mark"], [t EXCEPT !.at = "message", !.todo = Clients]} :
            task' = [task EXCEPT ![p] = u]
    BY <1>5 DEF EnsureRoom, Goto, GotoBroadcast
  <2>2. u \in Task /\ ShapeOf(p, u)
    BY <1>1, <1>5, <2>1 DEF EnsureRoom, ShapeOf, Task
  <2>. QED
    BY <1>3, <2>1, <2>2
<1>6. CASE SetMarker(p)
  <2>1. PICK u \in Task : task' = [task EXCEPT ![p] = u] /\ ShapeOf(p, u)
    <3>1. CASE t.cmd = "ingest"
      <4>. DEFINE u == [t EXCEPT !.at = "message", !.todo = Clients]
      <4>1. u \in Task /\ ShapeOf(p, u)
        BY <1>1, <1>6, <3>1 DEF SetMarker, ShapeOf, Task
      <4>. QED
        BY <1>6, <3>1, <4>1 DEF SetMarker, GotoBroadcast
    <3>2. CASE t.cmd # "ingest"
      <4>. DEFINE u == [t EXCEPT !.at = "receipt"]
      <4>1. u \in Task /\ ShapeOf(p, u)
        BY <1>1, <1>6, <3>2 DEF SetMarker, ShapeOf, Task
      <4>. QED
        BY <1>6, <3>2, <4>1 DEF SetMarker, Goto
    <3>. QED
      BY <3>1, <3>2
  <2>. QED
    BY <1>3, <2>1
<1>7. CASE AppendFails(p) \/ MarkFails(p) \/ CountFails(p) \/ ReceiptFails(p) \/ ReadFails(p)
  BY <1>2, <1>3, <1>7 DEF AppendFails, MarkFails, CountFails, ReceiptFails, ReadFails, Fail
<1>8. CASE MarkOwnFails(p)
  <2>. DEFINE u == [t EXCEPT !.at = "message", !.todo = Clients]
  <2>1. u \in Task /\ ShapeOf(p, u)
    BY <1>1, <1>8 DEF MarkOwnFails, ShapeOf, Task
  <2>. QED
    BY <1>3, <1>8, <2>1 DEF MarkOwnFails, GotoBroadcast
<1>9. CASE Receipt(p)
  <2>. DEFINE u == [t EXCEPT !.at = "view"]
  <2>1. u \in Task /\ ShapeOf(p, u)
    BY <1>1, <1>9 DEF Receipt, ShapeOf, Task
  <2>. QED
    BY <1>3, <1>9, <2>1 DEF Receipt, Goto
<1>10. CASE ReadView(p)
  <2>1. ShapeOf(p, task'[p]) /\ \A q \in Procs \ {p} : task'[q] = task[q]
    BY <1>1, <1>10, ViewFacts DEF ShapeOf
  <2>. QED
    BY <2>1, ShapeMove
<1>11. CASE CountUnread(p)
  <2>1. /\ t.at = "count" /\ task'[p].cmd = t.cmd
        /\ t.cmd = "rooms" =>
              \/ task'[p].at = "reply" /\ task'[p].rest = {}
              \/ task'[p].at = "view" /\ task'[p].room \in Rooms
        /\ t.cmd # "rooms" => task'[p].at = "room" /\ task'[p].room = t.room /\ task'[p].event = t.event
        /\ \A q \in Procs \ {p} : task'[q] = task[q]
    BY <1>11, CountFacts
  <2>2. ShapeOf(p, task'[p])
    BY <1>1, <2>1 DEF ShapeOf
  <2>. QED
    BY <2>1, <2>2, ShapeMove
<1>12. CASE ReadHistory(p)
  <2>. DEFINE u == [t EXCEPT !.at = "reply", !.msgs = Recent(log[t.room], HistoryLimit)]
  <2>1. task' = [task EXCEPT ![p] = u]
    BY <1>12 DEF ReadHistory
  <2>2. u.at = "reply" /\ u.cmd = t.cmd /\ u.room = t.room
    BY <1>1 DEF Task
  <2>. HIDE DEF u
  <2>3. ShapeOf(p, u)
    BY <1>1, <1>12, <2>2 DEF ReadHistory, ShapeOf
  <2>. QED
    BY <1>1, <2>1, <2>3, ShapeMove
<1>13. ASSUME NEW c \in Clients, NEW ev, NEW next \in {"view", "idle"},
              t.at = (IF next = "view" THEN "message" ELSE "room"),
              Tell(p, c, ev, next)
       PROVE  ShapeInv'
  <2>1. PICK u : /\ u = task'[p]
                 /\ \/ u.at = t.at /\ u.cmd = t.cmd /\ u.room = t.room /\ u.event = t.event
                    \/ next = "idle" /\ u = Idle
                    \/ next = "view" /\ u.at = "view" /\ u.cmd = t.cmd /\ u.room = t.room /\ u.event = t.event
    BY <1>13, TellFacts
  <2>2. ShapeOf(p, u)
    BY <1>1, <1>2, <1>13, <2>1 DEF ShapeOf
  <2>3. \A q \in Procs \ {p} : task'[q] = task[q]
    BY <1>13, TellFacts
  <2>. QED
    BY <2>1, <2>2, <2>3, ShapeMove
<1>14. ASSUME NEW c \in Clients, BroadcastMessage(p, c) \/ BroadcastRoom(p, c) PROVE ShapeInv'
  <2>1. CASE BroadcastMessage(p, c)
    <3>1. PICK ev : Tell(p, c, ev, "view")
      BY <2>1 DEF BroadcastMessage
    <3>2. t.at = "message" /\ "view" \in {"view", "idle"}
      BY <2>1 DEF BroadcastMessage
    <3>. QED
      BY <1>13, <3>1, <3>2
  <2>2. CASE BroadcastRoom(p, c)
    <3>1. PICK ev : Tell(p, c, ev, "idle")
      BY <2>2 DEF BroadcastRoom
    <3>2. t.at = "room" /\ "idle" \in {"view", "idle"}
      BY <2>2 DEF BroadcastRoom
    <3>. QED
      BY <1>13, <3>1, <3>2
  <2>. QED
    BY <1>14, <2>1, <2>2
<1>15. CASE Reply(p)
  BY <1>2, <1>3, <1>15 DEF Reply
<1>. QED
  BY <1>4, <1>5, <1>6, <1>7, <1>8, <1>9, <1>10, <1>11, <1>12, <1>14, <1>15 DEF Step

\* A handler starts with its first step, or nothing is started.
LEMMA OtherShape ==
  ASSUME TypeOK, ShapeInv, Ingest \/ \E c \in Clients : Frontend(c)
  PROVE  ShapeInv'
<1>0. Run \in Procs /\ Clients \subseteq Procs /\ task \in [Procs -> Task]
  BY DEF Procs, TypeOK
<1>1. ASSUME NEW p \in Procs, NEW t, task' = [task EXCEPT ![p] = t], ShapeOf(p, t) PROVE ShapeInv'
  <2>1. task'[p] = t /\ \A q \in Procs \ {p} : task'[q] = task[q]
    BY <1>0, <1>1
  <2>. QED
    BY <1>1, <2>1, ShapeMove
<1>2. ASSUME task' = task PROVE ShapeInv'
  BY <1>2 DEF ShapeInv, ShapeOf
<1>3. CASE ListRooms
  BY <1>0, <1>1, <1>3 DEF ListRooms, ShapeOf, Idle
<1>4. CASE \E up \in BOOLEAN : TakeConnected(up)
  BY <1>2, <1>4 DEF TakeConnected
<1>5. ASSUME NEW e \in Events, TakeMessage(e) PROVE ShapeInv'
  BY <1>0, <1>1, <1>5 DEF TakeMessage, Begin, ShapeOf, Idle
<1>6. ASSUME NEW c \in Clients, Hello(c) PROVE ShapeInv'
  BY <1>2, <1>6 DEF Hello
<1>7. ASSUME NEW c \in Clients, NEW r \in Rooms, NEW e \in Markers, MarkRead(c, r, e) PROVE ShapeInv'
  BY <1>0, <1>1, <1>7 DEF MarkRead, Command, Begin, ShapeOf, Idle
<1>8. ASSUME NEW c \in Clients, NEW r \in Rooms, History(c, r) PROVE ShapeInv'
  BY <1>0, <1>1, <1>8 DEF History, Command, Begin, ShapeOf, Idle
<1>9. ASSUME NEW c \in Clients, ListCommand(c) PROVE ShapeInv'
  <2>1. PICK t \in NextRoom([Idle EXCEPT !.cmd = "rooms", !.rest = known]) : Command(c, t)
    BY <1>9 DEF ListCommand
  <2>2. known \in SUBSET Rooms
    BY DEF TypeOK, RoomsOK
  <2>3. /\ t.cmd = "rooms"
        /\ \/ t.at = "reply" /\ t.rest = {}
           \/ t.at = "view" /\ t.room \in Rooms
    BY <2>1, <2>2, ListStart
  <2>4. ShapeOf(c, t)
    BY <2>3 DEF ShapeOf
  <2>. QED
    BY <1>0, <1>1, <2>1, <2>4 DEF Command, Begin
<1>. QED
  BY <1>3, <1>4, <1>5, <1>6, <1>7, <1>8, <1>9 DEF Ingest, Frontend

LEMMA InitShape == Init => ShapeInv /\ GreetInv
<1>. SUFFICES ASSUME Init PROVE ShapeInv /\ GreetInv
  OBVIOUS
<1>1. ShapeInv
  BY DEF Init, ShapeInv, ShapeOf, Idle
<1>2. GreetInv
  BY DEF Init, GreetInv, Idle
<1>. QED
  BY <1>1, <1>2

\* A step of p is nobody else's, and no handler changes its command.
LEMMA StepMoves ==
  ASSUME TypeOK, ShapeInv, NEW p \in Procs, Step(p)
  PROVE  /\ task'[p].cmd \in {task[p].cmd, "none"}
         /\ \A q \in Procs \ {p} : task'[q] = task[q]
<1>. DEFINE t == task[p]
<1>0. task \in [Procs -> Task] /\ t \in Task /\ Idle.cmd = "none"
  BY DEF TypeOK, Idle
<1>1. CASE StoreAppend(p) \/ EnsureRoom(p) \/ SetMarker(p)
  BY <1>0, <1>1 DEF StoreAppend, EnsureRoom, SetMarker, Goto, GotoBroadcast, Task
<1>2. CASE AppendFails(p) \/ MarkFails(p) \/ CountFails(p) \/ ReceiptFails(p) \/ ReadFails(p)
  BY <1>0, <1>2 DEF AppendFails, MarkFails, CountFails, ReceiptFails, ReadFails, Fail
<1>3. CASE MarkOwnFails(p) \/ Receipt(p) \/ ReadHistory(p)
  BY <1>0, <1>3 DEF MarkOwnFails, Receipt, ReadHistory, Goto, GotoBroadcast, Task
<1>4. CASE ReadView(p)
  BY <1>4, ViewFacts
<1>5. CASE CountUnread(p)
  BY <1>5, CountFacts
<1>6. ASSUME NEW c \in Clients, NEW ev, NEW next \in {"view", "idle"}, Tell(p, c, ev, next)
      PROVE  task'[p].cmd \in {t.cmd, "none"} /\ \A q \in Procs \ {p} : task'[q] = task[q]
  BY <1>0, <1>6, TellFacts
<1>7. CASE \E c \in Clients : BroadcastMessage(p, c) \/ BroadcastRoom(p, c)
  BY <1>6, <1>7 DEF BroadcastMessage, BroadcastRoom
<1>8. CASE Reply(p)
  BY <1>0, <1>8 DEF Reply
<1>. QED
  BY <1>1, <1>2, <1>3, <1>4, <1>5, <1>7, <1>8 DEF Step

\* No handler changes its command, and only a frontend that greeted is told.
LEMMA StepGreet ==
  ASSUME TypeOK, ShapeInv, GreetInv, NEW p \in Procs, Step(p)
  PROVE  GreetInv'
<1>. DEFINE t == task[p]
<1>1. task \in [Procs -> Task] /\ t \in Task /\ Idle.cmd = "none"
  BY DEF TypeOK, Idle
<1>2. greeted' = greeted
  BY DEF Step, StoreAppend, EnsureRoom, SetMarker, AppendFails, MarkFails, CountFails, ReceiptFails,
         ReadFails, Fail, MarkOwnFails, ReadView, Receipt, CountUnread, ReadHistory,
         BroadcastMessage, BroadcastRoom, Tell, Reply
<1>3. task'[p].cmd \in {t.cmd, "none"} /\ \A q \in Procs \ {p} : task'[q] = task[q]
  BY StepMoves
<1>4. \A c \in Clients : feed'[c] = feed[c] \/ c \in greeted
  <2>1. CASE Reply(p)
    <3>1. t.cmd \in {"history", "rooms"}
      BY <2>1 DEF Reply, ShapeInv, ShapeOf
    <3>. QED
      BY <2>1, <3>1 DEF Reply, GreetInv, TypeOK
  <2>2. ASSUME NEW c \in Clients, BroadcastMessage(p, c) \/ BroadcastRoom(p, c)
        PROVE  \A d \in Clients : feed'[d] = feed[d] \/ d \in greeted
    <3>1. feed \in [Clients -> Seq(FeedEvent)]
      BY DEF TypeOK
    <3>. QED
      BY <2>2, <3>1 DEF BroadcastMessage, BroadcastRoom, Tell
  <2>. QED
    BY <2>1, <2>2 DEF Step, StoreAppend, EnsureRoom, SetMarker, AppendFails, MarkFails, CountFails,
         ReceiptFails, ReadFails, Fail, MarkOwnFails, ReadView, Receipt, CountUnread, ReadHistory
<1>. QED
  BY <1>2, <1>3, <1>4 DEF GreetInv

LEMMA OtherGreet ==
  ASSUME TypeOK, GreetInv, Ingest \/ \E c \in Clients : Frontend(c)
  PROVE  GreetInv'
<1>0. Run \in Procs /\ Clients \subseteq Procs /\ task \in [Procs -> Task]
  BY DEF Procs, TypeOK
<1>1. ASSUME NEW p \in Procs, NEW t, task' = [task EXCEPT ![p] = t], UNCHANGED <<greeted, feed>>,
             p \in greeted \/ t.cmd \in {"none", "ingest"}
      PROVE  GreetInv'
  BY <1>0, <1>1 DEF GreetInv
<1>2. CASE ListRooms
  BY <1>0, <1>1, <1>2 DEF ListRooms, Idle
<1>3. CASE \E up \in BOOLEAN : TakeConnected(up)
  BY <1>3 DEF TakeConnected, GreetInv
<1>4. ASSUME NEW e \in Events, TakeMessage(e) PROVE GreetInv'
  BY <1>0, <1>1, <1>4 DEF TakeMessage, Begin, Idle
<1>5. ASSUME NEW c \in Clients, Hello(c) PROVE GreetInv'
  BY <1>5 DEF Hello, GreetInv, TypeOK
<1>6. ASSUME NEW c \in Clients, NEW t, Command(c, t) PROVE GreetInv'
  BY <1>0, <1>1, <1>6 DEF Command, Begin
<1>7. ASSUME NEW c \in Clients, Frontend(c) PROVE GreetInv'
  BY <1>5, <1>6, <1>7 DEF Frontend, ListCommand, History, MarkRead
<1>. QED
  BY <1>2, <1>3, <1>4, <1>7 DEF Ingest

\* Variables keep their types, handlers their shape, whatever steps interleave.
THEOREM SessionTypeOK == Spec => [](TypeOK /\ ShapeInv /\ GreetInv)
<1>1. Init => TypeOK /\ ShapeInv /\ GreetInv
  BY InitTypes, InitShape
<1>2. TypeOK /\ ShapeInv /\ GreetInv /\ [Next]_vars => (TypeOK /\ ShapeInv /\ GreetInv)'
  <2>1. CASE UNCHANGED vars
    <3>1. TypeOK => TypeOK'
      BY <2>1 DEF vars, store, rooms, history, TypeOK, StoreOK, RoomsOK
    <3>2. ShapeInv => ShapeInv'
      BY <2>1 DEF vars, ShapeInv, ShapeOf
    <3>3. GreetInv => GreetInv'
      BY <2>1 DEF vars, GreetInv
    <3>. QED
      BY <3>1, <3>2, <3>3
  <2>2. CASE Next
    BY <2>2, StepTypes, OtherTypes, StepShape, OtherShape, StepGreet, OtherGreet DEF Next
  <2>. QED
    BY <2>1, <2>2
<1>. QED
  BY <1>1, <1>2, PTL DEF Spec

-----------------------------------------------------------------------------
(* What frontends see                                                      *)

\* What one more arrival adds to a sequence of events.
LEMMA HasAppended ==
  ASSUME NEW s \in Seq(Events), NEW e \in Events
  PROVE  /\ Has(Append(s, e), e)
         /\ \A x : Has(s, x) => Has(Append(s, e), x)
         /\ \A i \in DOMAIN Append(s, e) : Append(s, e)[i] = e \/ Has(s, Append(s, e)[i])
<1>. DEFINE a == Append(s, e)
<1>1. PICK l \in Nat : /\ DOMAIN s = 1..l /\ DOMAIN a = 1..(l + 1) /\ a[l + 1] = e
                       /\ \A n \in 1..l : a[n] = s[n]
  OBVIOUS
<1>. HIDE DEF a
<1>2. \A n \in DOMAIN s : n \in DOMAIN a /\ a[n] = s[n]
  BY <1>1
<1>3. \A n \in DOMAIN a : n \in DOMAIN s \/ n = l + 1
  BY <1>1
<1>4. l + 1 \in DOMAIN a /\ a[l + 1] = e
  BY <1>1
<1>5. /\ Has(a, e)
      /\ \A x : Has(s, x) => Has(a, x)
      /\ \A i \in DOMAIN a : a[i] = e \/ Has(s, a[i])
  BY <1>2, <1>3, <1>4 DEF Has
<1>. QED
  BY <1>5 DEF a

\* What the store accepted, it has accepted: arrivals only grow.
LEMMA ArrivalsGrow ==
  ASSUME TypeOK, ShapeInv, StoredInv, NEW p \in Procs, StoreAppend(p)
  PROVE  LET r == task[p].room
             e == task[p].event
         IN  /\ r \in Rooms /\ e \in Events /\ r = RoomOf[e] /\ p = Run
             /\ Has(arrivals'[r], e)
             /\ \A i \in DOMAIN arrivals'[r] : arrivals'[r][i] = e \/ Has(arrivals[r], arrivals'[r][i])
             /\ \A q \in Rooms : \A x : Has(arrivals[q], x) => Has(arrivals'[q], x)
             /\ \A q \in Rooms \ {r} : arrivals'[q] = arrivals[q]
             /\ \A i \in DOMAIN log'[r] : log'[r][i] = e \/ Has(log[r], log'[r][i])
             /\ \A q \in Rooms \ {r} : log'[q] = log[q]
<1>. DEFINE r == task[p].room
            e == task[p].event
            a == arrivals[r]
<1>1. r \in Rooms /\ e \in Events /\ r = RoomOf[e] /\ p = Run
  BY SessionAssumption DEF StoreAppend, ShapeInv, ShapeOf
<1>2. /\ a \in Seq(Events) /\ arrivals \in [Rooms -> Seq(Events)]
      /\ log[r] \in Seq(Events) /\ Len(log[r]) <= Capacity /\ log \in [Rooms -> Seq(Events)]
  BY <1>1 DEF TypeOK, StoreOK
<1>3. /\ arrivals'[r] = IF Has(log[r], e) THEN a ELSE Append(a, e)
      /\ \A q \in Rooms \ {r} : arrivals'[q] = arrivals[q]
      /\ log'[r] = Appended(log[r], e)
      /\ \A q \in Rooms \ {r} : log'[q] = log[q]
  BY <1>1, <1>2 DEF StoreAppend
<1>4. /\ Has(Append(a, e), e)
      /\ \A x : Has(a, x) => Has(Append(a, e), x)
      /\ \A i \in DOMAIN Append(a, e) : Append(a, e)[i] = e \/ Has(a, Append(a, e)[i])
  BY <1>1, <1>2, HasAppended
<1>5. Has(log[r], e) => Has(a, e)
  BY <1>1 DEF StoredInv, Has
<1>6. \A i \in DOMAIN a : Has(a, a[i])
  BY DEF Has
<1>7. /\ Has(arrivals'[r], e)
      /\ \A i \in DOMAIN arrivals'[r] : arrivals'[r][i] = e \/ Has(a, arrivals'[r][i])
      /\ \A x : Has(a, x) => Has(arrivals'[r], x)
  BY <1>3, <1>4, <1>5, <1>6
<1>8. \A i \in DOMAIN log'[r] : log'[r][i] = e \/ Has(log[r], log'[r][i])
  BY <1>1, <1>2, <1>3, AppendedProperties
<1>. QED
  BY <1>1, <1>3, <1>7, <1>8

\* An event a frontend may be told.
SeenOf(ev) ==
    /\ ev.t = "message" => Has(arrivals[RoomOf[ev.event]], ev.event)
    /\ ev.t = "history" => \A j \in DOMAIN ev.msgs : Has(arrivals[ev.room], ev.msgs[j])

LEMMA SeenAppended ==
  ASSUME TypeOK, SeenIsStored, UNCHANGED arrivals, NEW c, NEW ev, SeenOf(ev),
         \/ feed' = [feed EXCEPT ![c] = Append(@, ev)]
         \/ feed' = feed
  PROVE  SeenIsStored'
<1>1. ASSUME NEW d \in Clients, NEW i \in DOMAIN feed'[d] PROVE SeenOf(feed'[d][i])
  <2>1. feed \in [Clients -> Seq(FeedEvent)]
    BY DEF TypeOK
  <2>2. feed'[d][i] = ev \/ (i \in DOMAIN feed[d] /\ feed'[d][i] = feed[d][i])
    <3>1. CASE d # c \/ feed' = feed
      BY <1>1, <2>1, <3>1
    <3>2. CASE d = c /\ feed' # feed
      <4>1. feed'[d] = Append(feed[d], ev) /\ feed[d] \in Seq(FeedEvent)
        BY <2>1, <3>2
      <4>. QED
        BY <1>1, <4>1
    <3>. QED
      BY <3>1, <3>2
  <2>3. i \in DOMAIN feed[d] => SeenOf(feed[d][i])
    BY DEF SeenIsStored, SeenOf
  <2>. QED
    BY <2>2, <2>3
<1>. QED
  BY <1>1 DEF SeenIsStored, SeenOf

\* Steps that leave the store alone.
LEMMA StoredFrame ==
  ASSUME StoredInv, UNCHANGED <<log, arrivals>>, NEW p \in Procs,
         \A q \in Procs \ {p} : task'[q] = task[q], StoredOf(task'[p])
  PROVE  StoredInv'
<1>1. ASSUME NEW q \in Procs PROVE StoredOf(task'[q])
  BY <1>1 DEF StoredInv
<1>. QED
  BY <1>1 DEF StoredInv, StoredOf

\* What handlers hold of a room and what they have told of it was accepted.
LEMMA StepStored ==
  ASSUME TypeOK, ShapeInv, StoredInv, SeenIsStored, NEW p \in Procs, Step(p)
  PROVE  StoredInv' /\ SeenIsStored'
<1>. DEFINE t == task[p]
<1>1. task \in [Procs -> Task] /\ t \in Task /\ ShapeOf(p, t) /\ StoredOf(t)
  BY DEF TypeOK, ShapeInv, StoredInv
<1>2. StoredOf(Idle)
  BY DEF StoredOf, Idle
<1>3. ASSUME UNCHANGED <<arrivals, feed>> PROVE SeenIsStored'
  BY <1>3 DEF SeenIsStored
<1>4. CASE StoreAppend(p)
  <2>. DEFINE r == t.room
              e == t.event
  <2>1. \A q \in Procs \ {p} : task'[q] = task[q]
    BY <1>1, <1>4 DEF StoreAppend, Goto
  <2>2. task'[p].cmd = "ingest" /\ task'[p].at = "ensure" /\ task'[p].room = r /\ task'[p].event = e
    BY <1>1, <1>4 DEF StoreAppend, Goto, Task, ShapeOf
  <2>3. /\ r \in Rooms /\ Has(arrivals'[r], e)
        /\ \A q \in Rooms : \A x : Has(arrivals[q], x) => Has(arrivals'[q], x)
        /\ \A i \in DOMAIN log'[r] : log'[r][i] = e \/ Has(log[r], log'[r][i])
        /\ \A q \in Rooms \ {r} : log'[q] = log[q]
    BY <1>4, ArrivalsGrow
  <2>4. StoredInv'
    <3>1. ASSUME NEW q \in Rooms, NEW i \in DOMAIN log'[q] PROVE Has(arrivals'[q], log'[q][i])
      <4>1. (log'[q][i] = e /\ q = r) \/ Has(log[q], log'[q][i])
        BY <2>3, <3>1 DEF Has
      <4>2. Has(log[q], log'[q][i]) => Has(arrivals[q], log'[q][i])
        BY DEF StoredInv, Has
      <4>. QED
        BY <2>3, <4>1, <4>2
    <3>2. ASSUME NEW q \in Procs PROVE StoredOf(task[q])'
      <4>1. CASE q = p
        BY <2>2, <2>3, <4>1 DEF StoredOf
      <4>2. CASE q # p
        <5>1. StoredOf(task[q]) /\ ShapeOf(q, task[q]) /\ task'[q] = task[q]
          BY <2>1, <4>2 DEF StoredInv, ShapeInv
        <5>2. task[q].cmd \in {"ingest", "history"} => task[q].room \in Rooms
          BY <5>1, SessionAssumption DEF ShapeOf
        <5>. QED
          BY <2>3, <5>1, <5>2 DEF StoredOf
      <4>. QED
        BY <4>1, <4>2
    <3>. QED
      BY <3>1, <3>2 DEF StoredInv
  <2>5. SeenIsStored'
    <3>1. feed' = feed /\ feed \in [Clients -> Seq(FeedEvent)]
      BY <1>4 DEF StoreAppend, TypeOK
    <3>2. ASSUME NEW c \in Clients, NEW i \in DOMAIN feed[c] PROVE SeenOf(feed[c][i])'
      <4>1. PICK ev \in FeedEvent : ev = feed[c][i]
        BY <3>1, <3>2
      <4>2. /\ ev.t = "message" => RoomOf[ev.event] \in Rooms
            /\ ev.t = "history" => ev.room \in Rooms
        BY SessionAssumption DEF FeedEvent
      <4>3. SeenOf(ev)
        BY <4>1, <3>2 DEF SeenIsStored, SeenOf
      <4>4. SeenOf(ev)'
        BY <2>3, <4>2, <4>3 DEF SeenOf
      <4>. QED
        BY <3>1, <4>1, <4>4 DEF SeenOf
    <3>. QED
      BY <3>1, <3>2 DEF SeenIsStored, SeenOf
  <2>. QED
    BY <2>4, <2>5
<1>5. CASE EnsureRoom(p) \/ SetMarker(p) \/ MarkOwnFails(p) \/ Receipt(p)
  <2>1. /\ UNCHANGED <<log, arrivals, feed>>
        /\ \A q \in Procs \ {p} : task'[q] = task[q]
        /\ t.at # "append" /\ task'[p].at # "reply"
        /\ task'[p].cmd = t.cmd /\ task'[p].room = t.room /\ task'[p].event = t.event
    BY <1>1, <1>5 DEF EnsureRoom, SetMarker, MarkOwnFails, Receipt, Goto, GotoBroadcast, Task, store, history
  <2>2. StoredOf(task'[p])
    BY <1>1, <2>1 DEF StoredOf
  <2>. QED
    BY <1>3, <2>1, <2>2, StoredFrame
<1>6. CASE AppendFails(p) \/ MarkFails(p) \/ CountFails(p) \/ ReceiptFails(p) \/ ReadFails(p)
  <2>1. UNCHANGED <<log, arrivals, feed>> /\ task' = [task EXCEPT ![p] = Idle]
    BY <1>6 DEF AppendFails, MarkFails, CountFails, ReceiptFails, ReadFails, Fail, store
  <2>2. task'[p] = Idle /\ \A q \in Procs \ {p} : task'[q] = task[q]
    BY <1>1, <2>1
  <2>. QED
    BY <1>2, <1>3, <2>1, <2>2, StoredFrame
<1>7. CASE ReadView(p)
  <2>1. UNCHANGED <<log, arrivals, feed>>
    BY <1>7 DEF ReadView, store, history
  <2>2. StoredOf(task'[p]) /\ \A q \in Procs \ {p} : task'[q] = task[q]
    BY <1>1, <1>7, ViewFacts DEF StoredOf
  <2>. QED
    BY <1>3, <2>1, <2>2, StoredFrame
<1>8. CASE CountUnread(p)
  <2>1. UNCHANGED <<log, arrivals, feed>>
    BY <1>8 DEF CountUnread, store, history
  <2>2. /\ t.at = "count" /\ task'[p].cmd = t.cmd
        /\ t.cmd # "rooms" => task'[p].at = "room" /\ task'[p].room = t.room /\ task'[p].event = t.event
        /\ \A q \in Procs \ {p} : task'[q] = task[q]
    BY <1>8, CountFacts
  <2>3. StoredOf(task'[p])
    BY <1>1, <2>2 DEF StoredOf
  <2>. QED
    BY <1>3, <2>1, <2>2, <2>3, StoredFrame
<1>9. CASE ReadHistory(p)
  <2>. DEFINE m == Recent(log[t.room], HistoryLimit)
  <2>1. UNCHANGED <<log, arrivals, feed>>
    BY <1>9 DEF ReadHistory, store, history
  <2>2. t.room \in Rooms /\ t.cmd = "history"
    BY <1>1, <1>9 DEF ReadHistory, ShapeOf
  <2>3. \A j \in DOMAIN m : Has(arrivals[t.room], m[j])
    <3>1. log[t.room] \in Seq(Events)
      BY <2>2 DEF TypeOK, StoreOK
    <3>2. \A j \in DOMAIN m : Has(log[t.room], m[j])
      BY <3>1, RecentProperties, SessionAssumption
    <3>. QED
      BY <2>2, <3>2 DEF StoredInv, Has
  <2>. HIDE DEF m
  <2>4. /\ task'[p].cmd = "history" /\ task'[p].room = t.room /\ task'[p].msgs = m
        /\ \A q \in Procs \ {p} : task'[q] = task[q]
    BY <1>1, <1>9, <2>2 DEF ReadHistory, Task, m
  <2>5. StoredOf(task'[p])
    BY <2>1, <2>3, <2>4 DEF StoredOf
  <2>. QED
    BY <1>3, <2>1, <2>4, <2>5, StoredFrame
<1>10. ASSUME NEW c \in Clients, BroadcastMessage(p, c) \/ BroadcastRoom(p, c)
       PROVE  StoredInv' /\ SeenIsStored'
  <2>1. PICK ev, next :
            /\ next \in {"view", "idle"} /\ Tell(p, c, ev, next) /\ t.at \in {"message", "room"}
            /\ \/ ev = [t |-> "message", event |-> t.event] /\ t.at = "message"
               \/ ev = [t |-> "room", room |-> t.room, view |-> t.view]
    <3>1. CASE BroadcastMessage(p, c)
      <4>1. PICK ev : ev = [t |-> "message", event |-> t.event] /\ Tell(p, c, ev, "view") /\ t.at = "message"
        BY <3>1 DEF BroadcastMessage
      <4>. QED
        BY <4>1
    <3>2. CASE BroadcastRoom(p, c)
      <4>1. PICK ev : /\ ev = [t |-> "room", room |-> t.room, view |-> t.view]
                      /\ Tell(p, c, ev, "idle") /\ t.at = "room"
        BY <3>2 DEF BroadcastRoom
      <4>. QED
        BY <4>1
    <3>. QED
      BY <1>10, <3>1, <3>2
  <2>2. UNCHANGED <<log, arrivals>>
    BY <2>1 DEF Tell, store, history
  <2>3. StoredOf(task'[p]) /\ \A q \in Procs \ {p} : task'[q] = task[q]
    BY <1>1, <1>2, <2>1, TellFacts DEF StoredOf
  <2>4. StoredInv'
    BY <2>2, <2>3, StoredFrame
  <2>5. SeenOf(ev)
    <3>1. t.at = "message" => t.cmd = "ingest" /\ t.room = RoomOf[t.event]
      BY <1>1 DEF ShapeOf
    <3>. QED
      BY <1>1, <2>1, <3>1 DEF SeenOf, StoredOf
  <2>6. feed' = feed \/ feed' = [feed EXCEPT ![c] = Append(@, ev)]
    BY <2>1 DEF Tell, TypeOK
  <2>. QED
    BY <2>2, <2>4, <2>5, <2>6, SeenAppended
<1>11. CASE Reply(p)
  <2>1. PICK ev : /\ feed' = [feed EXCEPT ![p] = Append(@, ev)]
                  /\ ev = IF t.cmd = "rooms" THEN [t |-> "rooms", list |-> t.list]
                          ELSE [t |-> "history", room |-> t.room, msgs |-> t.msgs]
    BY <1>11 DEF Reply
  <2>2. UNCHANGED <<log, arrivals>> /\ task' = [task EXCEPT ![p] = Idle]
    BY <1>11 DEF Reply, store, history
  <2>3. task'[p] = Idle /\ \A q \in Procs \ {p} : task'[q] = task[q]
    BY <1>1, <2>2
  <2>4. StoredInv'
    BY <1>2, <2>2, <2>3, StoredFrame
  <2>5. t.cmd = "rooms" \/ (t.cmd = "history" /\ t.at = "reply")
    BY <1>1, <1>11 DEF Reply, ShapeOf
  <2>6. SeenOf(ev)
    BY <1>1, <2>1, <2>5 DEF SeenOf, StoredOf
  <2>. QED
    BY <2>1, <2>2, <2>4, <2>6, SeenAppended
<1>. QED
  BY <1>4, <1>5, <1>6, <1>7, <1>8, <1>9, <1>10, <1>11 DEF Step

LEMMA OtherStored ==
  ASSUME TypeOK, StoredInv, SeenIsStored, Ingest \/ \E c \in Clients : Frontend(c)
  PROVE  StoredInv' /\ SeenIsStored'
<1>0. Run \in Procs /\ Clients \subseteq Procs /\ task \in [Procs -> Task]
  BY DEF Procs, TypeOK
<1>1. UNCHANGED <<log, arrivals>>
  BY DEF Ingest, Frontend, ListRooms, TakeConnected, TakeMessage, Hello, ListCommand, History, MarkRead,
         Command, store, history
<1>2. SeenIsStored'
  <2>1. CASE \E c \in Clients : Hello(c)
    <3>1. PICK c, ev : ev = [t |-> "ready", connected |-> connected] /\ feed' = [feed EXCEPT ![c] = Append(@, ev)]
      BY <2>1 DEF Hello
    <3>2. SeenOf(ev)
      BY <3>1 DEF SeenOf
    <3>. QED
      BY <1>1, <3>1, <3>2, SeenAppended
  <2>2. CASE UNCHANGED feed
    BY <1>1, <2>2 DEF SeenIsStored
  <2>. QED
    BY <2>1, <2>2 DEF Ingest, Frontend, ListRooms, TakeConnected, TakeMessage, ListCommand, History,
         MarkRead, Command
<1>3. ASSUME NEW p \in Procs, NEW t, task' = [task EXCEPT ![p] = t], t.cmd = "ingest" => t.at = "append",
             t.cmd = "history" => t.at = "read"
      PROVE  StoredInv'
  <2>1. task'[p] = t /\ \A q \in Procs \ {p} : task'[q] = task[q]
    BY <1>0, <1>3
  <2>2. StoredOf(task'[p])
    BY <1>3, <2>1 DEF StoredOf
  <2>. QED
    BY <1>1, <2>1, <2>2, StoredFrame
<1>4. CASE ListRooms
  <2>1. Idle.cmd = "none"
    BY DEF Idle
  <2>. QED
    BY <1>0, <1>2, <1>3, <1>4, <2>1 DEF ListRooms
<1>5. CASE UNCHANGED task
  <2>1. StoredOf(task'[Run])
    BY <1>0, <1>5 DEF StoredInv
  <2>. QED
    BY <1>0, <1>1, <1>2, <1>5, <2>1, StoredFrame
<1>6. ASSUME NEW e \in Events, TakeMessage(e) PROVE StoredInv'
  BY <1>0, <1>3, <1>6 DEF TakeMessage, Begin, Idle
<1>7. ASSUME NEW c \in Clients, NEW r \in Rooms, NEW e \in Markers, MarkRead(c, r, e) PROVE StoredInv'
  BY <1>0, <1>3, <1>7 DEF MarkRead, Command, Begin, Idle
<1>8. ASSUME NEW c \in Clients, NEW r \in Rooms, History(c, r) PROVE StoredInv'
  BY <1>0, <1>3, <1>8 DEF History, Command, Begin, Idle
<1>9. ASSUME NEW c \in Clients, ListCommand(c) PROVE StoredInv'
  <2>1. PICK t \in NextRoom([Idle EXCEPT !.cmd = "rooms", !.rest = known]) : Command(c, t)
    BY <1>9 DEF ListCommand
  <2>2. t.cmd = "rooms"
    BY <2>1, ListStart DEF TypeOK, RoomsOK
  <2>. QED
    BY <1>0, <1>3, <2>1, <2>2 DEF Command, Begin
<1>. QED
  BY <1>2, <1>4, <1>5, <1>6, <1>7, <1>8, <1>9 DEF Ingest, Frontend, TakeConnected, Hello

\* Whatever is stored, trimmed, read and broadcast at once, and whichever calls
\* fail, a frontend sees no message the store did not accept.
THEOREM SeenWasStored == Spec => [](StoredInv /\ SeenIsStored)
<1>1. Init => StoredInv /\ SeenIsStored
  <2>1. DOMAIN << >> = {}
    OBVIOUS
  <2>. QED
    BY <2>1 DEF Init, StoredInv, StoredOf, SeenIsStored, Idle, Has
<1>2. TypeOK /\ ShapeInv /\ StoredInv /\ SeenIsStored /\ [Next]_vars => (StoredInv /\ SeenIsStored)'
  <2>1. StoredInv /\ SeenIsStored /\ UNCHANGED vars => (StoredInv /\ SeenIsStored)'
    BY DEF vars, store, history, StoredInv, StoredOf, SeenIsStored
  <2>. QED
    BY <2>1, StepStored, OtherStored DEF Next
<1>. QED
  BY <1>1, <1>2, SessionTypeOK, PTL DEF Spec

-----------------------------------------------------------------------------
(* Timestamps                                                              *)

\* Only a message just stored has its timestamp noted next.
LEMMA StepLeavesEnsure ==
  ASSUME TypeOK, ShapeInv, NEW p \in Procs, Step(p), ~StoreAppend(p)
  PROVE  task'[p].at # "ensure"
<1>. DEFINE t == task[p]
<1>0. task \in [Procs -> Task] /\ t \in Task /\ Idle.at = "idle"
  BY DEF TypeOK, Idle
<1>1. CASE EnsureRoom(p) \/ SetMarker(p) \/ MarkOwnFails(p) \/ Receipt(p)
  BY <1>0, <1>1 DEF EnsureRoom, SetMarker, MarkOwnFails, Receipt, Goto, GotoBroadcast, Task
<1>2. CASE AppendFails(p) \/ MarkFails(p) \/ CountFails(p) \/ ReceiptFails(p) \/ ReadFails(p)
  BY <1>0, <1>2 DEF AppendFails, MarkFails, CountFails, ReceiptFails, ReadFails, Fail
<1>3. CASE ReadHistory(p)
  BY <1>0, <1>3 DEF ReadHistory, Task
<1>4. CASE ReadView(p)
  BY <1>4, ViewFacts
<1>5. CASE CountUnread(p)
  BY <1>5, CountFacts
<1>6. CASE \E c \in Clients : BroadcastMessage(p, c) \/ BroadcastRoom(p, c)
  BY <1>0, <1>6, TellFacts DEF BroadcastMessage, BroadcastRoom
<1>7. CASE Reply(p)
  BY <1>0, <1>7 DEF Reply
<1>. QED
  BY <1>1, <1>2, <1>3, <1>4, <1>5, <1>6, <1>7 DEF Step

\* Steps that leave what was heard and the timestamps alone, with no message
\* under way to lastTS before or after.
LEMMA NewestFrame ==
  ASSUME NewestInv, UNCHANGED <<heard, lastTS>>,
         \/ task[Run].at # "ensure" /\ task'[Run].at # "ensure"
         \/ task'[Run] = task[Run]
  PROVE  NewestInv'
<1>1. ASSUME NEW r \in Rooms, NEW x \in heard[r], task[Run].at # "ensure"
      PROVE  Ts[x] <= lastTS[r]
  BY <1>1 DEF NewestInv
<1>. QED
  BY <1>1 DEF NewestInv

\* A message is stored and then its timestamp noted.
LEMMA NextNewest ==
  ASSUME TypeOK, ShapeInv, NewestInv, Next
  PROVE  NewestInv'
<1>0. Run \in Procs /\ Clients \subseteq Procs /\ task \in [Procs -> Task] /\ Run \notin Clients
  BY SessionAssumption DEF Procs, TypeOK
<1>1. ASSUME NEW p \in Procs, StoreAppend(p) PROVE NewestInv'
  <2>. DEFINE s == task[p].room
              e == task[p].event
  <2>1. p = Run /\ s \in Rooms /\ heard \in [Rooms -> SUBSET Events]
    BY <1>1, SessionAssumption DEF StoreAppend, ShapeInv, ShapeOf, TypeOK, StoreOK
  <2>2. /\ lastTS' = lastTS /\ task[Run].at = "append"
        /\ heard' = [heard EXCEPT ![s] = @ \union {e}]
        /\ task'[Run].at = "ensure" /\ task'[Run].room = s /\ task'[Run].event = e
    BY <1>0, <1>1, <2>1 DEF StoreAppend, Goto, rooms, Task
  <2>. HIDE DEF s, e
  <2>3. ASSUME NEW r \in Rooms, NEW x \in heard'[r]
        PROVE  Ts[x] <= lastTS[r] \/ (r = s /\ x = e)
    BY <2>1, <2>2, <2>3 DEF NewestInv
  <2>4. ASSUME NEW r \in Rooms, lastTS[r] # 0
        PROVE  \E x \in heard'[r] : Ts[x] = lastTS[r]
    BY <2>1, <2>2, <2>4 DEF NewestInv
  <2>. QED
    BY <2>1, <2>2, <2>3, <2>4 DEF NewestInv
<1>2. ASSUME NEW p \in Procs, EnsureRoom(p) PROVE NewestInv'
  <2>. DEFINE s == task[p].room
              e == task[p].event
  <2>1. p = Run /\ s \in Rooms /\ e \in Events /\ Ts[e] \in Nat /\ e \in heard[s]
    BY <1>2, SessionAssumption DEF EnsureRoom, ShapeInv, ShapeOf, NewestInv
  <2>2. /\ lastTS' = [lastTS EXCEPT ![s] = IF Ts[e] > @ THEN Ts[e] ELSE @]
        /\ heard' = heard /\ lastTS \in [Rooms -> Nat] /\ task[Run].at = "ensure"
    BY <1>2, <2>1 DEF EnsureRoom, TouchRoom, history, TypeOK, RoomsOK
  <2>3. heard \in [Rooms -> SUBSET Events] /\ Ts \in [Events -> Nat]
    BY SessionAssumption DEF TypeOK, StoreOK
  <2>4. ASSUME NEW r \in Rooms, NEW x \in heard[r]
        PROVE  Ts[x] <= lastTS'[r]
    <3>1. Ts[x] \in Nat
      BY <2>3, <2>4
    <3>2. Ts[x] <= lastTS[r] \/ (r = s /\ x = e)
      BY <2>1 DEF NewestInv
    <3>. QED
      BY <2>1, <2>2, <3>1, <3>2
  <2>5. ASSUME NEW r \in Rooms, lastTS'[r] # 0
        PROVE  \E x \in heard[r] : Ts[x] = lastTS'[r]
    <3>1. lastTS'[r] = lastTS[r] \/ (r = s /\ lastTS'[r] = Ts[e])
      BY <2>1, <2>2
    <3>. QED
      BY <2>1, <2>5, <3>1 DEF NewestInv
  <2>6. task'[Run].at # "ensure"
    BY <1>0, <1>2, <2>1 DEF EnsureRoom, Goto, GotoBroadcast, Task
  <2>. QED
    BY <2>2, <2>4, <2>5, <2>6 DEF NewestInv
<1>3. ASSUME NEW p \in Procs, Step(p), ~StoreAppend(p), ~EnsureRoom(p) PROVE NewestInv'
  <2>1. UNCHANGED <<heard, lastTS>> /\ task[p].at # "ensure"
    BY <1>3 DEF Step, SetMarker, AppendFails, MarkFails, CountFails, ReceiptFails, ReadFails, Fail,
         MarkOwnFails, ReadView, Receipt, CountUnread, ReadHistory, BroadcastMessage, BroadcastRoom,
         Tell, Reply, rooms, history
  <2>2. \A q \in Procs \ {p} : task'[q] = task[q]
    BY <1>3, StepMoves
  <2>3. task'[p].at # "ensure"
    BY <1>3, StepLeavesEnsure
  <2>. QED
    BY <1>0, <2>1, <2>2, <2>3, NewestFrame
<1>4. CASE Ingest
  <2>1. UNCHANGED <<heard, lastTS>>
    BY <1>4 DEF Ingest, ListRooms, TakeConnected, TakeMessage, rooms, history
  <2>2. \/ task[Run].at # "ensure" /\ task'[Run].at # "ensure"
        \/ task'[Run] = task[Run]
    <3>1. Idle.at = "idle" /\ \A e \in Events : [Idle EXCEPT !.at = "append", !.cmd = "ingest",
                               !.room = RoomOf[e], !.event = e].at = "append"
      BY DEF Idle
    <3>. QED
      BY <1>0, <1>4, <3>1 DEF Ingest, ListRooms, TakeConnected, TakeMessage, Begin
  <2>. QED
    BY <2>1, <2>2, NewestFrame
<1>5. ASSUME NEW c \in Clients, Frontend(c) PROVE NewestInv'
  <2>1. UNCHANGED <<heard, lastTS>> /\ task'[Run] = task[Run]
    BY <1>0, <1>5 DEF Frontend, Hello, ListCommand, History, MarkRead, Command, Begin, rooms, history
  <2>. QED
    BY <2>1, NewestFrame
<1>. QED
  BY <1>1, <1>2, <1>3, <1>4, <1>5 DEF Next

\* In whatever order messages arrive, and whatever an earlier life of the daemon
\* left in the store, a room's lastTS is the newest timestamp since the start.
THEOREM NewestIsKept == Spec => []LastTSIsNewest
<1>1. Init => NewestInv
  <2>1. task[Run].at = "list" \/ ~Init
    BY DEF Init, Idle, Procs
  <2>. QED
    BY <2>1 DEF Init, NewestInv
<1>2. TypeOK /\ ShapeInv /\ NewestInv /\ [Next]_vars => NewestInv'
  <2>1. NewestInv /\ UNCHANGED vars => NewestInv'
    BY DEF vars, rooms, history, NewestInv
  <2>. QED
    BY <2>1, NextNewest
<1>3. NewestInv => LastTSIsNewest
  BY DEF NewestInv, LastTSIsNewest, Ingesting
<1>. QED
  BY <1>1, <1>2, <1>3, SessionTypeOK, PTL DEF Spec

-----------------------------------------------------------------------------
(* What the last word on a room is                                         *)

LEMMA ToldAppended ==
  ASSUME NEW f \in Seq(FeedEvent), NEW ev \in FeedEvent, NEW r, NEW v
  PROVE  /\ ~Speaks(ev, r) /\ Told(f, r, v) => Told(Append(f, ev), r, v)
         /\ Speaks(ev, r) /\ Said(ev, r) = {v} => Told(Append(f, ev), r, v)
<1>. DEFINE a == Append(f, ev)
<1>1. PICK l \in Nat : /\ DOMAIN f = 1..l /\ DOMAIN a = 1..(l + 1) /\ a[l + 1] = ev
                       /\ \A n \in 1..l : a[n] = f[n]
  OBVIOUS
<1>. HIDE DEF a
<1>2. \A n \in DOMAIN f : n \in DOMAIN a /\ a[n] = f[n] /\ n <= l + 1
  BY <1>1
<1>3. \A n \in DOMAIN a : n \in DOMAIN f \/ n = l + 1
  BY <1>1
<1>4. l + 1 \in DOMAIN a /\ a[l + 1] = ev /\ l + 1 <= l + 1
  BY <1>1
<1>5. ~Speaks(ev, r) /\ Told(f, r, v) => Told(a, r, v)
  <2>1. ASSUME ~Speaks(ev, r), \A i \in DOMAIN f : ~Speaks(f[i], r) PROVE Told(a, r, v)
    BY <1>2, <1>3, <1>4, <2>1 DEF Told
  <2>2. ASSUME ~Speaks(ev, r), NEW i \in DOMAIN f, Speaks(f[i], r), Said(f[i], r) = {v},
               \A j \in DOMAIN f : Speaks(f[j], r) => j <= i
        PROVE  Told(a, r, v)
    BY <1>2, <1>3, <1>4, <2>2 DEF Told
  <2>. QED
    BY <2>1, <2>2 DEF Told
<1>6. Speaks(ev, r) /\ Said(ev, r) = {v} => Told(a, r, v)
  BY <1>2, <1>3, <1>4 DEF Told
<1>. QED
  BY <1>5, <1>6 DEF a

\* It is what the property says.
LEMMA ToldAgrees ==
  ASSUME TypeOK, NEW c \in Clients, NEW r \in Rooms, Told(feed[c], r, Now(r)), Mentions(c, r) # {}
  PROVE  LastTold(c, r) = {Now(r)}
<1>. DEFINE f == feed[c]
<1>1. f \in Seq(FeedEvent) /\ DOMAIN f \subseteq Nat
  BY DEF TypeOK
<1>2. \A i : i \in Mentions(c, r) <=> i \in DOMAIN f /\ Speaks(f[i], r)
  BY DEF Mentions, Speaks
<1>3. PICK i \in Mentions(c, r) : Said(f[i], r) = {Now(r)} /\ \A j \in Mentions(c, r) : j <= i
  BY <1>2 DEF Told
<1>4. ASSUME NEW k \in Mentions(c, r), \A j \in Mentions(c, r) : j <= k PROVE k = i
  <2>1. k <= i /\ i <= k /\ k \in Nat /\ i \in Nat
    BY <1>1, <1>2, <1>3, <1>4
  <2>. QED
    BY <2>1
<1>5. LastMention(c, r) = f[i]
  BY <1>3, <1>4 DEF LastMention
<1>. QED
  BY <1>3, <1>5 DEF LastTold, Said

\* What a handler has told stays told if no event speaks of its room.
LEMMA WorkingKept ==
  ASSUME NEW p, NEW t, NEW r, NEW c, NEW f, NEW g, NEW v, Working(p, t, r, c, f, v),
         Told(f, r, v) => Told(g, r, v)
  PROVE  Working(p, t, r, c, g, v)
BY DEF Working

\* p goes on with its task or ends it.
LEMMA RaceMove ==
  ASSUME NEW r \in Rooms, NEW c \in Clients, NEW p \in Procs, RaceOf(r, c),
         \A q \in Procs \ {p} : task'[q] = task[q],
         r \in Touched(task'[p]) =>
            r \in Touched(task[p]) /\ Working(p, task'[p], r, c, feed'[c], Now(r)'),
         r \in Touched(task[p]) /\ r \notin Touched(task'[p]) => Told(feed'[c], r, Now(r)'),
         r \notin Touched(task[p]) =>
            Now(r)' = Now(r) /\ (Told(feed[c], r, Now(r)) => Told(feed'[c], r, Now(r)))
  PROVE  RaceOf(r, c)'
<1>1. ASSUME \A q \in Procs : r \notin Touched(task'[q]) PROVE Told(feed'[c], r, Now(r)')
  <2>1. CASE r \in Touched(task[p])
    BY <1>1, <2>1
  <2>2. CASE r \notin Touched(task[p])
    <3>1. Quiet(r)
      BY <1>1, <2>2 DEF Quiet
    <3>. QED
      BY <2>2, <3>1 DEF RaceOf
  <2>. QED
    BY <2>1, <2>2
<1>2. ASSUME NEW q \in Procs, r \in Touched(task'[q])
      PROVE  /\ \A s \in Procs : r \in Touched(task'[s]) => s = q
             /\ Working(q, task'[q], r, c, feed'[c], Now(r)')
  <2>1. r \in Touched(task[q])
    BY <1>2
  <2>2. \A s \in Procs : r \in Touched(task[s]) => s = q
    BY <2>1 DEF RaceOf
  <2>3. \A s \in Procs : r \in Touched(task'[s]) => s = q
    BY <2>2
  <2>4. Working(q, task'[q], r, c, feed'[c], Now(r)')
    <3>1. CASE q = p
      BY <1>2, <3>1
    <3>2. CASE q # p
      <4>1. r \notin Touched(task[p]) /\ task'[q] = task[q]
        BY <2>2, <3>2
      <4>2. Working(q, task[q], r, c, feed[c], Now(r))
        BY <2>1 DEF RaceOf
      <4>3. Working(q, task[q], r, c, feed'[c], Now(r))
        BY <4>1, <4>2, WorkingKept
      <4>. QED
        BY <4>1, <4>3
    <3>. QED
      BY <3>1, <3>2
  <2>. QED
    BY <2>3, <2>4
<1>. QED
  BY <1>1, <1>2 DEF RaceOf, Quiet, Touched, Working

\* A handler of a message or of mark_read, on its way to a new view.
LEMMA RaceChange ==
  ASSUME TypeOK, ShapeInv, RaceInv, NEW p \in Procs,
         StoreAppend(p) \/ EnsureRoom(p) \/ SetMarker(p) \/ MarkOwnFails(p) \/ Receipt(p)
  PROVE  RaceInv'
<1>. DEFINE t == task[p]
<1>1. task \in [Procs -> Task] /\ t \in Task /\ ShapeOf(p, t)
  BY DEF TypeOK, ShapeInv
<1>2. /\ UNCHANGED <<feed, raced>>
      /\ \A q \in Procs \ {p} : task'[q] = task[q]
      /\ t.cmd \in {"ingest", "mark_read"} /\ task'[p].at \notin {"count", "room"}
      /\ task'[p].cmd = t.cmd /\ task'[p].room = t.room
  <2>1. t.cmd \in {"ingest", "mark_read"}
    BY <1>1 DEF StoreAppend, EnsureRoom, SetMarker, MarkOwnFails, Receipt, ShapeOf
  <2>. QED
    BY <1>1, <2>1 DEF StoreAppend, EnsureRoom, SetMarker, MarkOwnFails, Receipt, Goto, GotoBroadcast,
         Task, history
<1>3. ASSUME NEW r \in Rooms, r # t.room
      PROVE  log'[r] = log[r] /\ marker'[r] = marker[r] /\ lastTS'[r] = lastTS[r]
  BY <1>3 DEF StoreAppend, EnsureRoom, SetMarker, MarkOwnFails, Receipt, TouchRoom, store, rooms,
         TypeOK, StoreOK, RoomsOK
<1>4. Touched(t) = {t.room} /\ Touched(task'[p]) = {t.room}
  BY <1>2 DEF Touched
<1>. SUFFICES ASSUME NEW r \in Rooms, NEW c \in Clients, <<r, c>> \notin raced' PROVE RaceOf(r, c)'
  BY DEF RaceInv
<1>5. RaceOf(r, c)
  BY <1>2 DEF RaceInv
<1>6. Working(p, task'[p], r, c, feed'[c], Now(r)')
  BY <1>2 DEF Working
<1>7. r \notin Touched(t) => Now(r)' = Now(r)
  BY <1>3, <1>4 DEF Now
<1>. QED
  BY <1>2, <1>4, <1>5, <1>6, <1>7, RaceMove

\* A failing call leaves its room raced, and what it did not touch as it was.
LEMMA RaceFails ==
  ASSUME TypeOK, RaceInv, NEW p \in Procs, Fail(p)
  PROVE  RaceInv'
<1>1. /\ UNCHANGED <<feed, log, marker, lastTS>>
      /\ task'[p] = Idle /\ \A q \in Procs \ {p} : task'[q] = task[q]
      /\ raced' = raced \union (Touched(task[p]) \X Clients)
  BY DEF Fail, store, rooms, TypeOK
<1>2. Touched(Idle) = {}
  BY DEF Touched, Idle
<1>. SUFFICES ASSUME NEW r \in Rooms, NEW c \in Clients, <<r, c>> \notin raced' PROVE RaceOf(r, c)'
  BY DEF RaceInv
<1>3. RaceOf(r, c) /\ r \notin Touched(task[p])
  BY <1>1 DEF RaceInv
<1>4. Now(r)' = Now(r)
  BY <1>1 DEF Now
<1>. QED
  BY <1>1, <1>2, <1>3, <1>4, RaceMove

\* What a frontend was told does not change when the store and the feeds do not.
LEMMA RaceRead ==
  ASSUME TypeOK, ShapeInv, RaceInv, NEW p \in Procs, ReadView(p) \/ ReadHistory(p)
  PROVE  RaceInv'
<1>. DEFINE t == task[p]
<1>1. task \in [Procs -> Task] /\ t \in Task /\ ShapeOf(p, t)
  BY DEF TypeOK, ShapeInv
<1>2. UNCHANGED <<feed, log, marker, lastTS, raced>>
  BY DEF ReadView, ReadHistory, store, rooms, history
<1>. SUFFICES ASSUME NEW r \in Rooms, NEW c \in Clients, <<r, c>> \notin raced' PROVE RaceOf(r, c)'
  BY DEF RaceInv
<1>3. RaceOf(r, c) /\ Now(r)' = Now(r)
  BY <1>2 DEF RaceInv, Now
<1>4. CASE ReadView(p)
  <2>1. PICK u \in Task : u = task'[p]
    BY <1>4, StepTypes DEF Step, TypeOK
  <2>2. /\ t.at = "view" /\ u.at = "count" /\ u.cmd = t.cmd /\ u.room = t.room
        /\ u.list = t.list /\ u.rest = t.rest /\ u.view.lastTS = lastTS[t.room]
        /\ \A q \in Procs \ {p} : task'[q] = task[q]
    BY <1>4, <2>1, ViewFacts
  <2>3. Touched(u) = Touched(t)
    BY <2>2 DEF Touched
  <2>4. ASSUME r \in Touched(t) PROVE Working(p, u, r, c, feed[c], Now(r))
    <3>1. Working(p, t, r, c, feed[c], Now(r))
      BY <1>3, <2>4 DEF RaceOf
    <3>2. CASE t.cmd = "rooms"
      BY <2>2, <3>1, <3>2 DEF Working, Now
    <3>3. CASE t.cmd # "rooms"
      <4>1. r = t.room
        BY <2>4, <3>3 DEF Touched
      <4>. QED
        BY <2>2, <3>3, <4>1 DEF Working, Now
    <3>. QED
      BY <3>2, <3>3
  <2>. QED
    BY <1>2, <1>3, <2>1, <2>2, <2>3, <2>4, RaceMove
<1>5. CASE ReadHistory(p)
  <2>1. t.cmd = "history"
    BY <1>1, <1>5 DEF ReadHistory, ShapeOf
  <2>2. task'[p].cmd = "history" /\ \A q \in Procs \ {p} : task'[q] = task[q]
    BY <1>1, <1>5, <2>1 DEF ReadHistory, Task
  <2>3. Touched(t) = {} /\ Touched(task'[p]) = {}
    BY <2>1, <2>2 DEF Touched
  <2>. QED
    BY <1>2, <1>3, <2>2, <2>3, RaceMove
<1>. QED
  BY <1>4, <1>5

\* The count completes the view of a room nobody else is at.
LEMMA RaceCount ==
  ASSUME TypeOK, ShapeInv, RaceInv, NEW p \in Procs, CountUnread(p)
  PROVE  RaceInv'
<1>. DEFINE t == task[p]
            k == t.room
            v == [unread |-> UnreadCount(log[k], marker[k]), lastTS |-> t.view.lastTS]
<1>1. task \in [Procs -> Task] /\ t \in Task /\ ShapeOf(p, t)
  BY DEF TypeOK, ShapeInv
<1>2. UNCHANGED <<feed, log, marker, lastTS, raced>>
  BY DEF CountUnread, store, rooms, history
<1>3. PICK u \in Task : u = task'[p]
  BY StepTypes DEF Step, TypeOK
<1>4. /\ t.at = "count" /\ k \in Rooms /\ u.cmd = t.cmd
      /\ t.cmd = "rooms" =>
            /\ u.list = [t.list EXCEPT ![k] = {v}]
            /\ \/ u.at = "reply" /\ u.rest = {} /\ t.rest = {} /\ u.room = k
               \/ u.at = "view" /\ u.room \in Rooms /\ t.rest = u.rest \union {u.room}
      /\ t.cmd # "rooms" =>
            u.at = "room" /\ u.room = k /\ u.view = v /\ u.todo = Clients
      /\ \A q \in Procs \ {p} : task'[q] = task[q]
  BY <1>3, CountFacts
<1>. SUFFICES ASSUME NEW r \in Rooms, NEW c \in Clients, <<r, c>> \notin raced' PROVE RaceOf(r, c)'
  BY DEF RaceInv
<1>5. RaceOf(r, c) /\ Now(r)' = Now(r)
  BY <1>2 DEF RaceInv, Now
<1>6. ASSUME r \in Touched(t), r = k, t.cmd # "rooms" \/ p = c PROVE v = Now(r)
  <2>1. Working(p, t, r, c, feed[c], Now(r))
    BY <1>5, <1>6 DEF RaceOf
  <2>2. t.view.lastTS = Now(r).lastTS
    BY <1>4, <1>6, <2>1 DEF Working
  <2>. QED
    BY <1>6, <2>2 DEF Now
<1>. HIDE DEF v
<1>7. CASE t.cmd = "rooms"
  <2>1. t.list \in [Rooms -> SUBSET View] /\ NoRoom \notin Rooms
    BY <1>1, SessionAssumption DEF Task, Listing
  <2>2. r \in Touched(u) <=> r \in Touched(t)
    <3>1. r \in Touched(u) <=> r \in u.rest \/ u.list[r] # {} \/ r = u.room
      BY <1>4, <1>7, <2>1 DEF Touched
    <3>2. r \in Touched(t) <=> r \in t.rest \/ t.list[r] # {} \/ r = k
      BY <1>4, <1>7, <2>1 DEF Touched
    <3>3. u.list[r] # {} <=> t.list[r] # {} \/ r = k
      BY <1>4, <1>7, <2>1
    <3>. QED
      BY <1>4, <1>7, <3>1, <3>2, <3>3
  <2>3. ASSUME r \in Touched(t) PROVE Working(p, u, r, c, feed[c], Now(r))
    <3>1. Working(p, t, r, c, feed[c], Now(r))
      BY <1>5, <2>3 DEF RaceOf
    <3>2. CASE p # c
      BY <1>4, <1>7, <3>1, <3>2 DEF Working
    <3>3. CASE p = c
      <4>1. u.list[r] \subseteq {Now(r)}
        <5>1. CASE r = k
          BY <1>4, <1>6, <1>7, <2>1, <2>3, <3>3, <5>1
        <5>2. CASE r # k
          BY <1>4, <1>7, <2>1, <3>1, <3>3, <5>2 DEF Working
        <5>. QED
          BY <5>1, <5>2
      <4>2. u.list[r] # {} \/ r \in u.rest \/ (u.room = r /\ u.at \in {"view", "count"})
        <5>1. CASE r = k
          BY <1>4, <1>7, <2>1, <5>1
        <5>2. CASE r # k
          <6>1. t.list[r] # {} \/ r \in t.rest
            BY <1>7, <3>1, <3>3, <5>2 DEF Working
          <6>. QED
            BY <1>4, <1>7, <2>1, <5>2, <6>1
        <5>. QED
          BY <5>1, <5>2
      <4>3. u.at # "count"
        BY <1>4, <1>7
      <4>. QED
        BY <1>4, <1>7, <3>3, <4>1, <4>2, <4>3 DEF Working
    <3>. QED
      BY <3>2, <3>3
  <2>. QED
    BY <1>2, <1>3, <1>4, <1>5, <2>2, <2>3, RaceMove
<1>8. CASE t.cmd # "rooms"
  <2>1. t.cmd \in {"ingest", "mark_read"}
    BY <1>1, <1>4, <1>8 DEF ShapeOf
  <2>2. Touched(u) = {k} /\ Touched(t) = {k}
    BY <1>4, <1>8, <2>1 DEF Touched
  <2>3. r \in Touched(t) => Working(p, u, r, c, feed[c], Now(r))
    BY <1>4, <1>6, <1>8, <2>2 DEF Working
  <2>. QED
    BY <1>2, <1>3, <1>4, <1>5, <2>2, <2>3, RaceMove
<1>. QED
  BY <1>7, <1>8

\* A frontend is told of a message: the room's view is not in it.
LEMMA RaceMessage ==
  ASSUME TypeOK, ShapeInv, RaceInv, NEW p \in Procs, NEW d \in Clients, BroadcastMessage(p, d)
  PROVE  RaceInv'
<1>. DEFINE t == task[p]
<1>1. t \in Task /\ t.at = "message" /\ t.cmd = "ingest" /\ t.event \in Events
  BY DEF TypeOK, ShapeInv, ShapeOf, BroadcastMessage
<1>2. PICK ev : /\ ev = [t |-> "message", event |-> t.event]
                /\ Tell(p, d, ev, "view")
  BY DEF BroadcastMessage
<1>3. PICK u : u = task'[p]
  OBVIOUS
<1>4. /\ u.at \in {"message", "view"} /\ u.cmd = "ingest" /\ u.room = t.room
      /\ \A q \in Procs \ {p} : task'[q] = task[q]
  BY <1>1, <1>2, <1>3, TellFacts
<1>5. UNCHANGED <<log, marker, lastTS, raced>>
  BY <1>2 DEF Tell, store, rooms, history
<1>6. Touched(u) = {t.room} /\ Touched(t) = {t.room}
  BY <1>1, <1>4 DEF Touched
<1>. SUFFICES ASSUME NEW r \in Rooms, NEW c \in Clients, <<r, c>> \notin raced' PROVE RaceOf(r, c)'
  BY DEF RaceInv
<1>7. RaceOf(r, c) /\ Now(r)' = Now(r)
  BY <1>5 DEF RaceInv, Now
<1>8. \A v : Told(feed[c], r, v) => Told(feed'[c], r, v)
  <2>1. ev \in FeedEvent /\ ~Speaks(ev, r)
    BY <1>1, <1>2 DEF FeedEvent, Speaks
  <2>2. feed[c] \in Seq(FeedEvent) /\ (feed'[c] = feed[c] \/ feed'[c] = Append(feed[c], ev))
    BY <1>2 DEF Tell, TypeOK
  <2>. QED
    BY <2>1, <2>2, ToldAppended
<1>9. Working(p, u, r, c, feed'[c], Now(r))
  BY <1>4 DEF Working
<1>. QED
  BY <1>3, <1>4, <1>6, <1>7, <1>8, <1>9, RaceMove

\* A frontend is told the view, and the last one ends the handler.
LEMMA RaceRoom ==
  ASSUME TypeOK, ShapeInv, GreetInv, RaceInv, NEW p \in Procs, NEW d \in Clients, BroadcastRoom(p, d)
  PROVE  RaceInv'
<1>. DEFINE t == task[p]
            k == t.room
<1>1. /\ t \in Task /\ t.at = "room" /\ t.cmd \in {"ingest", "mark_read"} /\ k \in Rooms
      /\ t.view \in View
  BY SessionAssumption DEF TypeOK, ShapeInv, ShapeOf, BroadcastRoom, Task
<1>2. PICK ev : /\ ev = [t |-> "room", room |-> k, view |-> t.view]
                /\ Tell(p, d, ev, "idle")
  BY DEF BroadcastRoom
<1>3. PICK u : u = task'[p]
  OBVIOUS
<1>4. /\ \/ u.at = "room" /\ u.todo = t.todo \ {d} /\ u.view = t.view /\ u.cmd = t.cmd /\ u.room = k
         \/ t.todo = {d} /\ u = Idle
      /\ \A q \in Procs \ {p} : task'[q] = task[q]
  BY <1>1, <1>2, <1>3, TellFacts
<1>5. UNCHANGED <<log, marker, lastTS, raced>>
  BY <1>2 DEF Tell, store, rooms, history
<1>6. Touched(t) = {k} /\ (u = Idle => Touched(u) = {}) /\ (u.cmd = t.cmd => Touched(u) = {u.room})
  BY <1>1, <1>4 DEF Touched, Idle
<1>. SUFFICES ASSUME NEW r \in Rooms, NEW c \in Clients, <<r, c>> \notin raced' PROVE RaceOf(r, c)'
  BY DEF RaceInv
<1>7. RaceOf(r, c) /\ Now(r)' = Now(r)
  BY <1>5 DEF RaceInv, Now
<1>8. /\ ev \in FeedEvent /\ (Speaks(ev, r) <=> r = k) /\ Said(ev, r) = {t.view}
      /\ feed[c] \in Seq(FeedEvent)
      /\ feed'[c] = IF c = d /\ c \in greeted THEN Append(feed[c], ev) ELSE feed[c]
  BY <1>1, <1>2 DEF FeedEvent, Speaks, Said, Tell, TypeOK
<1>9. ASSUME r # k, NEW v, Told(feed[c], r, v) PROVE Told(feed'[c], r, v)
  BY <1>8, <1>9, ToldAppended
<1>10. ASSUME r = k PROVE t.view = Now(r) /\ (c \notin t.todo \ {d} => Told(feed'[c], r, Now(r)))
  <2>1. Working(p, t, r, c, feed[c], Now(r))
    BY <1>6, <1>7, <1>10 DEF RaceOf
  <2>2. t.view = Now(r) /\ (c \notin t.todo => Told(feed[c], r, Now(r)))
    BY <1>1, <2>1 DEF Working
  <2>3. CASE c = d /\ c \in greeted
    BY <1>8, <1>10, <2>2, <2>3, ToldAppended
  <2>4. CASE c \notin greeted
    <3>1. feed'[c] = << >>
      BY <1>8, <2>4 DEF GreetInv
    <3>. QED
      BY <2>2, <3>1 DEF Told
  <2>5. CASE c # d
    BY <1>8, <2>2, <2>5
  <2>. QED
    BY <2>3, <2>4, <2>5
<1>11. r \in Touched(u) => r \in Touched(t) /\ Working(p, u, r, c, feed'[c], Now(r))
  <2>1. ASSUME r \in Touched(u) PROVE r = k /\ u.at = "room" /\ u.cmd # "rooms" /\ u.view = t.view
                                      /\ u.todo = t.todo \ {d}
    BY <1>1, <1>4, <1>6, <2>1
  <2>. QED
    BY <1>6, <1>10, <2>1 DEF Working
<1>12. r \in Touched(t) /\ r \notin Touched(u) => Told(feed'[c], r, Now(r))
  BY <1>4, <1>6, <1>10
<1>. QED
  BY <1>3, <1>4, <1>6, <1>7, <1>9, <1>11, <1>12, RaceMove

\* A listing tells its caller of the rooms it went through.
LEMMA RaceReply ==
  ASSUME TypeOK, ShapeInv, RaceInv, NEW p \in Procs, Reply(p)
  PROVE  RaceInv'
<1>. DEFINE t == task[p]
<1>1. /\ t \in Task /\ task \in [Procs -> Task]
      /\ \/ t.cmd = "history" /\ t.room \in Rooms
         \/ t.cmd = "rooms" /\ t.at = "reply" /\ t.rest = {}
  BY DEF TypeOK, ShapeInv, ShapeOf, Reply
<1>2. PICK ev : /\ ev = IF t.cmd = "rooms" THEN [t |-> "rooms", list |-> t.list]
                        ELSE [t |-> "history", room |-> t.room, msgs |-> t.msgs]
                /\ feed' = [feed EXCEPT ![p] = Append(@, ev)]
  BY DEF Reply
<1>3. task'[p] = Idle /\ \A q \in Procs \ {p} : task'[q] = task[q]
  BY <1>1 DEF Reply
<1>4. UNCHANGED <<log, marker, lastTS, raced>>
  BY DEF Reply, store, rooms, history
<1>5. Touched(Idle) = {}
  BY DEF Touched, Idle
<1>. SUFFICES ASSUME NEW r \in Rooms, NEW c \in Clients, <<r, c>> \notin raced' PROVE RaceOf(r, c)'
  BY DEF RaceInv
<1>6. RaceOf(r, c) /\ Now(r)' = Now(r)
  BY <1>4 DEF RaceInv, Now
<1>7. /\ ev \in FeedEvent /\ (Speaks(ev, r) <=> t.cmd = "rooms" /\ t.list[r] # {})
      /\ t.cmd = "rooms" => Said(ev, r) = t.list[r]
  BY <1>1, <1>2 DEF FeedEvent, Speaks, Said, Task
<1>8. feed[c] \in Seq(FeedEvent) /\ feed'[c] = IF c = p THEN Append(feed[c], ev) ELSE feed[c]
  BY <1>2 DEF TypeOK
<1>9. ASSUME r \notin Touched(t), NEW v, Told(feed[c], r, v) PROVE Told(feed'[c], r, v)
  <2>1. ~Speaks(ev, r)
    BY <1>7, <1>9 DEF Touched
  <2>. QED
    BY <1>7, <1>8, <1>9, <2>1, ToldAppended
<1>10. ASSUME r \in Touched(t) PROVE Told(feed'[c], r, Now(r))
  <2>1. Working(p, t, r, c, feed[c], Now(r)) /\ t.cmd = "rooms"
    BY <1>1, <1>6, <1>10 DEF RaceOf, Touched
  <2>2. CASE p # c
    BY <1>8, <2>1, <2>2 DEF Working
  <2>3. CASE p = c
    <3>1. t.list[r] # {} /\ t.list[r] \subseteq {Now(r)}
      BY <1>1, <2>1, <2>3 DEF Working
    <3>. QED
      BY <1>7, <1>8, <2>1, <2>3, <3>1, ToldAppended
  <2>. QED
    BY <2>2, <2>3
<1>. QED
  BY <1>3, <1>5, <1>6, <1>9, <1>10, RaceMove

\* A handler that starts alone at a room settles it for those it will tell.
LEMMA RaceBegin ==
  ASSUME TypeOK, RaceInv, NEW p \in Procs, NEW t \in Task, Begin(p, t),
         UNCHANGED <<log, marker, lastTS, feed>>,
         \/ t.cmd # "rooms" /\ t.at \notin {"count", "room"}
         \/ /\ t.cmd = "rooms" /\ t.at # "count" /\ \A r \in Rooms : t.list[r] = {}
            /\ t.at = "view" \/ t.room = NoRoom
  PROVE  RaceInv'
<1>1. task'[p] = t /\ task[p] = Idle /\ \A q \in Procs \ {p} : task'[q] = task[q]
  BY DEF Begin, TypeOK
<1>2. Touched(Idle) = {}
  BY DEF Touched, Idle
<1>. SUFFICES ASSUME NEW r \in Rooms, NEW c \in Clients, <<r, c>> \notin raced' PROVE RaceOf(r, c)'
  BY DEF RaceInv
<1>3. Now(r)' = Now(r)
  BY DEF Now
<1>4. CASE r \notin Touched(t)
  <2>1. <<r, c>> \notin raced
    BY <1>4 DEF Begin
  <2>2. RaceOf(r, c)
    BY <2>1 DEF RaceInv
  <2>. QED
    BY <1>1, <1>2, <1>3, <1>4, <2>2, RaceMove
<1>5. CASE r \in Touched(t)
  <2>1. \A q \in Procs \ {p} : r \notin Touched(task[q])
    BY <1>5 DEF Begin
  <2>2. Quiet(r)
    BY <1>1, <1>2, <2>1 DEF Quiet
  <2>3. Working(p, t, r, c, feed[c], Now(r))
    <3>1. CASE t.cmd # "rooms"
      BY <3>1 DEF Working
    <3>2. CASE t.cmd = "rooms" /\ p # c
      <4>1. <<r, c>> \notin raced
        BY <3>2 DEF Begin
      <4>2. Told(feed[c], r, Now(r))
        BY <2>2, <4>1 DEF RaceInv, RaceOf
      <4>. QED
        BY <3>2, <4>2 DEF Working
    <3>3. CASE t.cmd = "rooms" /\ p = c
      <4>1. r \in t.rest \/ (r = t.room /\ r # NoRoom)
        BY <1>5, <3>3 DEF Touched
      <4>. QED
        BY <3>3, <4>1 DEF Working
    <3>. QED
      BY <3>1, <3>2, <3>3
  <2>4. \A q \in Procs : r \in Touched(task'[q]) => q = p
    BY <1>1, <2>1
  <2>5. ~Quiet(r)'
    BY <1>1, <1>5 DEF Quiet, Touched
  <2>. QED
    BY <1>1, <1>3, <1>5, <2>3, <2>4, <2>5 DEF RaceOf, Touched, Working
<1>. QED
  BY <1>4, <1>5

LEMMA StepRace ==
  ASSUME TypeOK, ShapeInv, GreetInv, RaceInv, NEW p \in Procs, Step(p)
  PROVE  RaceInv'
<1>1. CASE StoreAppend(p) \/ EnsureRoom(p) \/ SetMarker(p) \/ MarkOwnFails(p) \/ Receipt(p)
  BY <1>1, RaceChange
<1>2. CASE AppendFails(p) \/ MarkFails(p) \/ CountFails(p) \/ ReceiptFails(p) \/ ReadFails(p)
  BY <1>2, RaceFails DEF AppendFails, MarkFails, CountFails, ReceiptFails, ReadFails
<1>3. CASE ReadView(p) \/ ReadHistory(p)
  BY <1>3, RaceRead
<1>. QED
  BY <1>1, <1>2, <1>3, RaceCount, RaceMessage, RaceRoom, RaceReply DEF Step

\* What starts, and what is not about a room.
LEMMA OtherRace ==
  ASSUME TypeOK, ShapeInv, RaceInv, Ingest \/ \E c \in Clients : Frontend(c)
  PROVE  RaceInv'
<1>0. Run \in Procs /\ Clients \subseteq Procs /\ task \in [Procs -> Task]
  BY DEF Procs, TypeOK
<1>1. ASSUME UNCHANGED <<log, marker, lastTS, raced>>,
             \A q \in Procs : Touched(task'[q]) = Touched(task[q]),
             \A q \in Procs : Touched(task[q]) # {} => task'[q] = task[q],
             \A c \in Clients, r \in Rooms :
                \A v : Told(feed[c], r, v) => Told(feed'[c], r, v)
      PROVE  RaceInv'
  <2>. SUFFICES ASSUME NEW r \in Rooms, NEW c \in Clients, <<r, c>> \notin raced' PROVE RaceOf(r, c)'
    BY DEF RaceInv
  <2>1. RaceOf(r, c) /\ Now(r)' = Now(r)
    BY <1>1 DEF RaceInv, Now
  <2>2. ASSUME NEW q \in Procs, r \in Touched(task'[q]) PROVE Working(q, task'[q], r, c, feed'[c], Now(r))
    <3>1. Working(q, task[q], r, c, feed[c], Now(r)) /\ task'[q] = task[q]
      BY <1>1, <2>1, <2>2 DEF RaceOf
    <3>2. Told(feed[c], r, Now(r)) => Told(feed'[c], r, Now(r))
      BY <1>1
    <3>3. Working(q, task[q], r, c, feed'[c], Now(r))
      BY <3>1, <3>2, WorkingKept
    <3>. QED
      BY <3>1, <3>3
  <2>3. ASSUME \A q \in Procs : r \notin Touched(task'[q]) PROVE Told(feed'[c], r, Now(r))
    <3>1. Quiet(r)
      BY <1>1, <2>3 DEF Quiet
    <3>. QED
      BY <1>1, <2>1, <3>1 DEF RaceOf
  <2>4. ASSUME NEW q \in Procs, r \in Touched(task'[q]), NEW s \in Procs, r \in Touched(task'[s])
        PROVE  s = q
    BY <1>1, <2>1, <2>4 DEF RaceOf
  <2>. QED
    BY <2>1, <2>2, <2>3, <2>4 DEF RaceOf, Quiet, Touched, Working
<1>2. CASE ListRooms
  <2>1. task[Run].cmd = "none" /\ UNCHANGED <<log, marker, lastTS, raced, feed>>
    BY <1>0, <1>2 DEF ListRooms, ShapeInv, ShapeOf, store, history
  <2>2. Touched(task[Run]) = {} /\ Touched(Idle) = {}
    BY <2>1 DEF Touched, Idle
  <2>3. task'[Run] = Idle /\ \A q \in Procs \ {Run} : task'[q] = task[q]
    BY <1>0, <1>2 DEF ListRooms
  <2>. QED
    BY <1>1, <2>1, <2>2, <2>3
<1>3. CASE \E up \in BOOLEAN : TakeConnected(up)
  <2>1. UNCHANGED <<log, marker, lastTS, raced, feed, task>>
    BY <1>3 DEF TakeConnected, store, history
  <2>. QED
    BY <1>1, <2>1
<1>4. ASSUME NEW c \in Clients, Hello(c) PROVE RaceInv'
  <2>1. PICK ev : ev = [t |-> "ready", connected |-> connected] /\ feed' = [feed EXCEPT ![c] = Append(@, ev)]
    BY <1>4 DEF Hello
  <2>2. UNCHANGED <<log, marker, lastTS, raced, task>>
    BY <1>4 DEF Hello, store, rooms, history
  <2>3. ASSUME NEW d \in Clients, NEW r \in Rooms, NEW v, Told(feed[d], r, v) PROVE Told(feed'[d], r, v)
    <3>1. ev \in FeedEvent /\ ~Speaks(ev, r)
      BY <2>1 DEF FeedEvent, Speaks, TypeOK, RoomsOK
    <3>2. feed[d] \in Seq(FeedEvent) /\ (feed'[d] = feed[d] \/ feed'[d] = Append(feed[d], ev))
      BY <2>1 DEF TypeOK
    <3>. QED
      BY <2>3, <3>1, <3>2, ToldAppended
  <2>. QED
    BY <1>1, <2>2, <2>3
<1>5. ASSUME NEW e \in Events, TakeMessage(e) PROVE RaceInv'
  <2>1. PICK t : t = [Idle EXCEPT !.at = "append", !.cmd = "ingest", !.room = RoomOf[e], !.event = e]
    OBVIOUS
  <2>2. t \in Task /\ t.cmd = "ingest" /\ t.at = "append"
    BY <2>1, StartTypes DEF Idle
  <2>3. Begin(Run, t) /\ UNCHANGED <<log, marker, lastTS, feed>>
    BY <1>5, <2>1 DEF TakeMessage, store, rooms
  <2>. QED
    BY <1>0, <2>2, <2>3, RaceBegin
<1>6. ASSUME NEW c \in Clients, NEW t \in Task, Command(c, t),
             \/ t.cmd # "rooms" /\ t.at \notin {"count", "room"}
             \/ /\ t.cmd = "rooms" /\ t.at # "count" /\ \A r \in Rooms : t.list[r] = {}
                /\ t.at = "view" \/ t.room = NoRoom
      PROVE  RaceInv'
  <2>1. Begin(c, t) /\ UNCHANGED <<log, marker, lastTS, feed>>
    BY <1>6 DEF Command, store, rooms
  <2>. QED
    BY <1>0, <1>6, <2>1, RaceBegin
<1>7. ASSUME NEW c \in Clients, NEW r \in Rooms, NEW e \in Markers, MarkRead(c, r, e) PROVE RaceInv'
  <2>1. PICK t : t = [Idle EXCEPT !.at = "mark", !.cmd = "mark_read", !.room = r, !.event = e]
    OBVIOUS
  <2>2. t \in Task /\ t.cmd = "mark_read" /\ t.at = "mark" /\ Command(c, t)
    BY <1>7, <2>1, StartTypes DEF Idle, MarkRead
  <2>. QED
    BY <1>6, <2>2
<1>8. ASSUME NEW c \in Clients, NEW r \in Rooms, History(c, r) PROVE RaceInv'
  <2>1. PICK t : t = [Idle EXCEPT !.at = "read", !.cmd = "history", !.room = r]
    OBVIOUS
  <2>2. t \in Task /\ t.cmd = "history" /\ t.at = "read" /\ Command(c, t)
    BY <1>8, <2>1, StartTypes DEF Idle, History
  <2>. QED
    BY <1>6, <2>2
<1>9. ASSUME NEW c \in Clients, ListCommand(c) PROVE RaceInv'
  <2>1. PICK t \in NextRoom([Idle EXCEPT !.cmd = "rooms", !.rest = known]) : Command(c, t)
    BY <1>9 DEF ListCommand
  <2>2. known \in SUBSET Rooms
    BY DEF TypeOK, RoomsOK
  <2>3. /\ t \in Task /\ t.cmd = "rooms" /\ t.list = [r \in Rooms |-> {}]
        /\ \/ t.at = "reply" /\ t.room = NoRoom
           \/ t.at = "view"
    BY <2>1, <2>2, ListStart
  <2>. QED
    BY <1>6, <2>1, <2>3
<1>. QED
  BY <1>2, <1>3, <1>4, <1>5, <1>7, <1>8, <1>9 DEF Ingest, Frontend

\* Once a room is at rest, each frontend was last told of it what is stored,
\* for any number of rooms, frontends and commands, unless handlers overlapped
\* or failed since one had the room to itself.
THEOREM RoomsAreToldAsTheyAre == Spec => []AgreesUnlessRaced
<1>1. Init => RaceInv
  <2>1. DOMAIN << >> = {}
    OBVIOUS
  <2>2. ASSUME Init, NEW p \in Procs PROVE Touched(task[p]) = {}
    BY <2>2 DEF Init, Touched, Idle
  <2>. QED
    BY <2>1, <2>2 DEF Init, RaceInv, RaceOf, Told
<1>2. TypeOK /\ ShapeInv /\ GreetInv /\ RaceInv /\ [Next]_vars => RaceInv'
  <2>1. RaceInv /\ UNCHANGED vars => RaceInv'
    <3>. SUFFICES ASSUME RaceInv, UNCHANGED vars PROVE RaceInv'
      OBVIOUS
    <3>1. UNCHANGED <<log, marker, lastTS, task, feed, raced>>
      BY DEF vars, store, rooms, history
    <3>2. ASSUME NEW r \in Rooms PROVE Now(r)' = Now(r) /\ (Quiet(r)' <=> Quiet(r))
      BY <3>1 DEF Now, Quiet
    <3>3. ASSUME NEW r \in Rooms, NEW c \in Clients, RaceOf(r, c) PROVE RaceOf(r, c)'
      BY <3>1, <3>2, <3>3 DEF RaceOf
    <3>. QED
      BY <3>1, <3>3 DEF RaceInv
  <2>. QED
    BY <2>1, StepRace, OtherRace DEF Next
<1>3. TypeOK /\ RaceInv => AgreesUnlessRaced
  BY ToldAgrees DEF RaceInv, RaceOf, AgreesUnlessRaced, Agrees, Now
<1>. QED
  BY <1>1, <1>2, <1>3, SessionTypeOK, PTL DEF Spec

=============================================================================
