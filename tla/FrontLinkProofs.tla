--------------------------- MODULE FrontLinkProofs ---------------------------
(***************************************************************************)
(* The frontend's link, for any number of sockets, requests and daemon     *)
(* replies, however many of each are in flight.  That one socket is live   *)
(* and that a stop leaves nothing running are inductive given the types.   *)
(* That no request is answered twice is not: an answer may wait in the     *)
(* queue behind the connection that replaced the one it belongs to, and    *)
(* a reply for the same request would be the second.  AnswerInv says that  *)
(* a request is either still to come, outstanding, or awaited by one error *)
(* answer in the queue.                                                    *)
(***************************************************************************)
EXTENDS FrontLink, SequenceTheorems, TLAPS

\* An error answer to request i is queued, and queued once.
Fails(q, n, i) == q[n].do = "fail" /\ i \in q[n].ids
Awaits(q, i) == \E n \in DOMAIN q : Fails(q, n, i)
Once(q, i) == \A m, n \in DOMAIN q : (Fails(q, m, i) /\ Fails(q, n, i)) => m = n

\* A request that is yet to come, is outstanding, or is to be answered by an
\* error that is queued, is only one of these; it was neither answered nor
\* forgotten, and no request is both.
AnswerOf(i) ==
    /\ calls[i] <= 1
    /\ (i > seq \/ i \in pending \/ Awaits(queue, i)) => calls[i] = 0 /\ i \notin dropped
    /\ i > seq => i \notin pending /\ ~Awaits(queue, i)
    /\ i \in pending => ~Awaits(queue, i)
    /\ i \in dropped => calls[i] = 0
    /\ Once(queue, i)

AnswerInv == \A i \in Ids : AnswerOf(i)

-----------------------------------------------------------------------------
(* Types                                                                   *)

\* An answer that is scheduled is a callback.
LEMMA FailIsCallback ==
  ASSUME NEW ids \in SUBSET Ids
  PROVE  [do |-> "fail", ids |-> ids] \in Callback /\ FailPending(ids) \in Seq(Callback)
<1>1. [do |-> "fail", ids |-> ids] \in Callback
  BY DEF Callback
<1>. QED
  BY <1>1 DEF FailPending

\* Closing the current socket keeps the types.
LEMMA ClosePipeTypes ==
  ASSUME LinkOK, SocketsOK, NEW rest \in Seq(Callback), NEW ids \in SUBSET Ids, ClosePipe(rest, ids)
  PROVE  /\ SocketsOK' /\ queue' \in Seq(Callback)
         /\ pipe' \in Slots \union {NoSlot} /\ connected' \in BOOLEAN /\ pending' \subseteq Ids /\ lost' = {}
         /\ buffer' \in Seq({chunk \in Chunk : chunk.part = "head"})
<1>1. queue' \in Seq(Callback)
  <2>1. FailPending(ids) \in Seq(Callback) /\ queue' = rest \o FailPending(ids)
    BY FailIsCallback DEF ClosePipe
  <2>. QED
    BY <2>1, ConcatProperties
<1>2. SocketsOK'
  BY DEF ClosePipe, SockClosed, SocketsOK
<1>3. buffer' \in Seq({chunk \in Chunk : chunk.part = "head"})
  BY EmptySeq DEF ClosePipe
<1>. QED
  BY <1>1, <1>2, <1>3 DEF ClosePipe

\* A new socket keeps the types.
LEMMA ConnectTypes ==
  ASSUME SocketsOK, DaemonOK, Connect
  PROVE  SocketsOK' /\ DaemonOK' /\ pipe' \in Slots
BY DEF Connect, SocketsOK, DaemonOK

\* Every variable has its type at first.
LEMMA InitTypes == Init => TypeOK
<1>. SUFFICES ASSUME Init PROVE TypeOK
  OBVIOUS
<1>1. \A S : << >> \in Seq(S)
  BY EmptySeq
<1>2. LinkOK
  BY <1>1 DEF Init, LinkOK
<1>3. SocketsOK /\ DaemonOK /\ queue \in Seq(Callback)
  BY <1>1 DEF Init, SocketsOK, DaemonOK
<1>4. HistoryOK
  BY FrontLinkAssumption DEF Init, HistoryOK
<1>. QED
  BY <1>2, <1>3, <1>4 DEF TypeOK

\* The user's steps keep the types.
LEMMA UserTypes == TypeOK /\ (Start \/ Stop \/ Send \/ TimerFires) => TypeOK'
<1>. SUFFICES ASSUME TypeOK PROVE (Start \/ Stop \/ Send \/ TimerFires) => TypeOK'
  OBVIOUS
<1>. USE DEF TypeOK
<1>1. CASE Start
  <2>1. SocketsOK' /\ DaemonOK' /\ pipe' \in Slots \union {NoSlot}
    BY <1>1, ConnectTypes DEF Start, LinkOK, SocketsOK, DaemonOK, daemon
  <2>. QED
    BY <1>1, <2>1 DEF Start, LinkOK, HistoryOK, history
<1>2. CASE Stop
  <2>1. ClosePipe(queue, {})
    BY <1>2 DEF Stop
  <2>2. /\ SocketsOK' /\ queue' \in Seq(Callback)
        /\ pipe' \in Slots \union {NoSlot} /\ connected' \in BOOLEAN /\ pending' \subseteq Ids /\ lost' = {}
        /\ buffer' \in Seq({chunk \in Chunk : chunk.part = "head"})
    BY <2>1, ClosePipeTypes
  <2>3. LinkOK' /\ DaemonOK'
    BY <1>2, <2>2 DEF Stop, LinkOK, DaemonOK, daemon
  <2>4. HistoryOK'
    BY <1>2, FrontLinkAssumption DEF Stop, HistoryOK, LinkOK
  <2>. QED
    BY <2>2, <2>3, <2>4
<1>3. CASE Send
  <2>1. seq + 1 \in Ids /\ seq' = seq + 1 /\ seq' \in 0..MaxSends
    BY <1>3, FrontLinkAssumption DEF Send, HistoryOK, Ids
  <2>2. HistoryOK'
    BY <1>3, <2>1 DEF Send, HistoryOK
  <2>3. inbox' \in [Slots -> Seq({Hello} \union Ids)]
    <3>1. CASE pipe # NoSlot /\ connected
      <4>1. Append(inbox[pipe], seq + 1) \in Seq({Hello} \union Ids)
        BY <2>1, <3>1 DEF LinkOK, DaemonOK
      <4>. QED
        BY <1>3, <3>1, <4>1 DEF Send, Write, DaemonOK
    <3>2. CASE ~(pipe # NoSlot /\ connected)
      BY <1>3, <3>2 DEF Send, DaemonOK
    <3>. QED
      BY <3>1, <3>2
  <2>4. queue' \in Seq(Callback)
    <3>1. [do |-> "fail", ids |-> {seq + 1}] \in Callback
      BY <2>1, FailIsCallback
    <3>. QED
      BY <1>3, <3>1 DEF Send
  <2>5. LinkOK'
    BY <1>3, <2>1 DEF Send, LinkOK
  <2>6. SocketsOK' /\ DaemonOK'
    BY <1>3, <2>3 DEF Send, SocketsOK, DaemonOK
  <2>. QED
    BY <2>2, <2>4, <2>5, <2>6
<1>4. CASE TimerFires
  <2>1. SocketsOK' /\ DaemonOK' /\ pipe' \in Slots \union {NoSlot}
    BY <1>4, ConnectTypes DEF TimerFires, LinkOK, SocketsOK, DaemonOK, daemon
  <2>. QED
    BY <1>4, <2>1 DEF TimerFires, LinkOK, HistoryOK, history
<1>. QED
  BY <1>1, <1>2, <1>3, <1>4

\* The queue loses its head.
LEMMA QueueFacts ==
  ASSUME queue \in Seq(Callback), queue # << >>
  PROVE  /\ Head(queue) \in Callback /\ Head(queue) = queue[1] /\ Tail(queue) \in Seq(Callback)
         /\ 1 \in DOMAIN queue
         /\ \A n \in DOMAIN Tail(queue) :
               n + 1 \in DOMAIN queue /\ n + 1 # 1 /\ Tail(queue)[n] = queue[n + 1]
<1>1. /\ Head(queue) \in Callback /\ Tail(queue) \in Seq(Callback) /\ Len(Tail(queue)) = Len(queue) - 1
      /\ \A n \in 1..Len(Tail(queue)) : Tail(queue)[n] = queue[n + 1]
  BY HeadTailProperties
<1>2. Len(queue) \in Nat \ {0} /\ DOMAIN queue = 1..Len(queue) /\ Head(queue) = queue[1]
  BY EmptySeq
<1>3. DOMAIN Tail(queue) = 1..(Len(queue) - 1)
  BY <1>1
<1>. QED
  BY <1>1, <1>2, <1>3

\* A chunk either completes a line, which is dispatched, or changes nothing but
\* the buffer.
LEMMA Consumed ==
  ASSUME RunConsume
  PROVE  /\ Due("consume") /\ queue' = Tail(queue)
         /\ \/ \E line : Dispatch(line)
            \/ UNCHANGED <<connected, pending, calls>>
         /\ UNCHANGED <<want, pipe, timer, lost, sock, daemon, seq, dropped, stops, outages>>
BY DEF RunConsume

\* The queued callbacks keep the types.
LEMMA QueuedTypes == TypeOK /\ RunQueued => TypeOK'
<1>. SUFFICES ASSUME TypeOK PROVE RunQueued => TypeOK'
  OBVIOUS
<1>. USE DEF TypeOK
<1>1. ASSUME queue # << >>
      PROVE  Head(queue) \in Callback /\ Tail(queue) \in Seq(Callback)
  BY <1>1, QueueFacts
<1>2. ASSUME queue # << >>, ClosePipe(Tail(queue), pending), Retry, UNCHANGED <<want, daemon, history>>
      PROVE  TypeOK'
  <2>1. /\ SocketsOK' /\ queue' \in Seq(Callback)
        /\ pipe' \in Slots \union {NoSlot} /\ connected' \in BOOLEAN /\ pending' \subseteq Ids /\ lost' = {}
        /\ buffer' \in Seq({chunk \in Chunk : chunk.part = "head"})
    BY <1>1, <1>2, ClosePipeTypes DEF LinkOK
  <2>2. LinkOK' /\ DaemonOK' /\ HistoryOK'
    BY <1>2, <2>1 DEF Retry, LinkOK, DaemonOK, HistoryOK, daemon, history
  <2>. QED
    BY <2>1, <2>2
<1>3. CASE RunHello
  <2>1. queue' \in Seq(Callback)
    BY <1>1, <1>3 DEF RunHello, Due
  <2>2. inbox' \in [Slots -> Seq({Hello} \union Ids)]
    <3>1. CASE pipe = NoSlot
      BY <1>3, <3>1 DEF RunHello, DaemonOK
    <3>2. CASE pipe # NoSlot
      <4>1. Append(inbox[pipe], Hello) \in Seq({Hello} \union Ids)
        BY <3>2 DEF LinkOK, DaemonOK
      <4>. QED
        BY <1>3, <3>2, <4>1 DEF RunHello, Write, DaemonOK
    <3>. QED
      BY <3>1, <3>2
  <2>. QED
    BY <1>3, <2>1, <2>2 DEF RunHello, LinkOK, SocketsOK, DaemonOK, HistoryOK, link, history
<1>4. CASE RunFail
  <2>1. queue' \in Seq(Callback)
    BY <1>1, <1>4 DEF RunFail, Due
  <2>2. calls' \in [Ids -> Nat]
    BY <1>4 DEF RunFail, Call, HistoryOK
  <2>. QED
    BY <1>4, <2>1, <2>2 DEF RunFail, LinkOK, SocketsOK, DaemonOK, HistoryOK, link, daemon
<1>5. CASE RunConsume
  <2>1. queue' \in Seq(Callback)
    BY <1>1, <1>5 DEF RunConsume, Due
  <2>2. Head(queue).chunk \in Chunk
    BY <1>1, <1>5 DEF RunConsume, Due, Callback
  <2>. DEFINE line == Append(buffer, Head(queue).chunk)
  <2>3. buffer' \in Seq({chunk \in Chunk : chunk.part = "head"})
    <3>1. buffer' = Rest(line)
      BY <1>5 DEF RunConsume
    <3>2. buffer \in Seq({chunk \in Chunk : chunk.part = "head"})
      BY DEF LinkOK
    <3>3. line[Len(line)] = Head(queue).chunk
      BY <3>2
    <3>4. CASE Head(queue).chunk.part = "head"
      <4>1. line \in Seq({chunk \in Chunk : chunk.part = "head"})
        BY <2>2, <3>2, <3>4
      <4>. QED
        BY <3>1, <3>3, <3>4, <4>1 DEF Rest
    <3>5. CASE Head(queue).chunk.part # "head"
      BY <3>1, <3>3, <3>5 DEF Rest
    <3>. QED
      BY <3>4, <3>5
  <2>4. connected' \in BOOLEAN /\ pending' \subseteq Ids /\ calls' \in [Ids -> Nat]
    <3>1. ASSUME NEW l, Dispatch(l)
          PROVE  connected' \in BOOLEAN /\ pending' \subseteq Ids /\ calls' \in [Ids -> Nat]
      <4>1. connected' \in BOOLEAN
        BY <3>1 DEF Dispatch
      <4>2. pending' \subseteq Ids
        BY <3>1 DEF Dispatch, LinkOK
      <4>3. calls' \in [Ids -> Nat]
        BY <3>1 DEF Dispatch, Call, HistoryOK
      <4>. QED
        BY <4>1, <4>2, <4>3
    <3>2. ASSUME UNCHANGED <<connected, pending, calls>>
          PROVE  connected' \in BOOLEAN /\ pending' \subseteq Ids /\ calls' \in [Ids -> Nat]
      BY <3>2 DEF LinkOK, HistoryOK
    <3>. QED
      BY <1>5, <3>1, <3>2, Consumed
  <2>. QED
    BY <1>5, <2>1, <2>3, <2>4 DEF RunConsume, LinkOK, SocketsOK, DaemonOK, HistoryOK, daemon
<1>. QED
  BY <1>2, <1>3, <1>4, <1>5 DEF RunQueued, RunLost, RunOverlong, Due

\* What libuv and the daemon do keeps the types.
LEMMA OutsideTypes ==
  TypeOK /\ (DaemonDies \/ DaemonStarts \/ \E k \in Slots : Uv(k) \/ DaemonRead(k)) => TypeOK'
<1>. SUFFICES ASSUME TypeOK,
                     DaemonDies \/ DaemonStarts \/ \E k \in Slots : Uv(k) \/ DaemonRead(k)
              PROVE  TypeOK'
  OBVIOUS
<1>. USE DEF TypeOK
<1>1. [do |-> "lost"] \in Callback /\ [do |-> "hello"] \in Callback
  BY DEF Callback
<1>2. ASSUME NEW k \in Slots, ConnectDone(k) \/ ConnectCancelled(k) \/ ReadEnd(k)
      PROVE  TypeOK'
  <2>1. queue' \in Seq(Callback)
    BY <1>1, <1>2 DEF ConnectDone, ConnectCancelled, ReadEnd, Schedule
  <2>2. SocketsOK'
    BY <1>2 DEF ConnectDone, ConnectCancelled, ReadEnd, SocketsOK
  <2>. QED
    BY <1>2, <2>1, <2>2 DEF ConnectDone, ConnectCancelled, ReadEnd, LinkOK, DaemonOK, HistoryOK, link, daemon, history
<1>3. ASSUME NEW k \in Slots, ReadChunk(k) PROVE TypeOK'
  <2>1. Head(outbox[k]) \in Chunk /\ Tail(outbox[k]) \in Seq(Chunk)
    BY <1>3, HeadTailProperties DEF ReadChunk, DaemonOK
  <2>2. [do |-> "consume", chunk |-> Head(outbox[k])] \in Callback
    BY <2>1 DEF Callback
  <2>3. queue' \in Seq(Callback)
    BY <1>3, <2>2 DEF ReadChunk, Schedule
  <2>4. outbox' \in [Slots -> Seq(Chunk)]
    BY <1>3, <2>1 DEF ReadChunk, DaemonOK
  <2>. QED
    BY <1>3, <2>3, <2>4 DEF ReadChunk, LinkOK, SocketsOK, DaemonOK, HistoryOK, link, history
<1>4. ASSUME NEW k \in Slots, DaemonRead(k) PROVE TypeOK'
  <2>1. Head(inbox[k]) \in {Hello} \union Ids /\ Tail(inbox[k]) \in Seq({Hello} \union Ids)
    BY <1>4, HeadTailProperties DEF DaemonRead, DaemonOK
  <2>2. \A answer \in Answers(Head(inbox[k])) : answer \in Seq(Chunk)
    <3>1. \A part \in {"whole", "head", "tail"} : [line |-> Head(inbox[k]), part |-> part] \in Chunk
      BY <2>1 DEF Chunk
    <3>2. \A x, y \in Chunk : <<x>> \in Seq(Chunk) /\ <<x, y>> \in Seq(Chunk)
      OBVIOUS
    <3>. QED
      BY <3>1, <3>2 DEF Answers
  <2>3. \/ outbox' = outbox
        \/ \E answer \in Answers(Head(inbox[k])) : outbox' = [outbox EXCEPT ![k] = @ \o answer]
    BY <1>4 DEF DaemonRead
  <2>4. outbox' \in [Slots -> Seq(Chunk)]
    <3>1. outbox \in [Slots -> Seq(Chunk)]
      BY DEF DaemonOK
    <3>2. \A answer \in Answers(Head(inbox[k])) : outbox[k] \o answer \in Seq(Chunk)
      BY <2>2, <3>1, ConcatProperties
    <3>. QED
      BY <2>3, <3>1, <3>2
  <2>6. lost' \subseteq {Hello} \union Ids
    BY <1>4, <2>1 DEF DaemonRead, LinkOK
  <2>5. inbox' \in [Slots -> Seq({Hello} \union Ids)] /\ peer' \in [Slots -> {"new", "greeted", "closed"}]
    BY <1>4, <2>1 DEF DaemonRead, DaemonOK
  <2>. QED
    BY <1>4, <2>4, <2>5, <2>6 DEF DaemonRead, LinkOK, SocketsOK, DaemonOK, HistoryOK, history
<1>5. CASE DaemonDies
  <2>1. HistoryOK'
    BY <1>5, FrontLinkAssumption DEF DaemonDies, HistoryOK
  <2>. QED
    BY <1>5, <2>1 DEF DaemonDies, LinkOK, SocketsOK, DaemonOK, link
<1>6. CASE DaemonStarts
  BY <1>6 DEF DaemonStarts, LinkOK, SocketsOK, DaemonOK, HistoryOK, link, history
<1>. QED
  BY <1>2, <1>3, <1>4, <1>5, <1>6 DEF Uv

\* Every variable keeps its type, in whatever order callbacks run.
THEOREM FrontLinkTypeOK == Spec => []TypeOK
<1>1. TypeOK /\ UNCHANGED vars => TypeOK'
  BY DEF vars, link, daemon, history, TypeOK, LinkOK, SocketsOK, DaemonOK, HistoryOK
<1>2. TypeOK /\ [Next]_vars => TypeOK'
  BY <1>1, UserTypes, QueuedTypes, OutsideTypes DEF Next
<1>. QED
  BY <1>2, InitTypes, PTL DEF Spec

-----------------------------------------------------------------------------
(* Sockets and the retry timer                                             *)

\* A new socket is made only where there is none.
LEMMA ConnectOne ==
  ASSUME TypeOK, OneConnection, pipe = NoSlot, Connect
  PROVE  OneConnection'
BY FrontLinkAssumption DEF Connect, OneConnection, TypeOK, SocketsOK

\* Closing the current socket leaves none.
LEMMA ClosePipeOne ==
  ASSUME TypeOK, OneConnection, NEW rest, NEW ids, ClosePipe(rest, ids)
  PROVE  OneConnection' /\ pipe' = NoSlot
BY DEF ClosePipe, SockClosed, OneConnection, TypeOK, SocketsOK

\* No step leaves a socket behind.
LEMMA OneStep == TypeOK /\ OneConnection /\ Next => OneConnection'
<1>. SUFFICES ASSUME TypeOK, OneConnection, Next PROVE OneConnection'
  OBVIOUS
<1>1. ASSUME pipe' = pipe, sock' = sock PROVE OneConnection'
  BY <1>1 DEF OneConnection
<1>2. CASE Start
  BY <1>1, <1>2, ConnectOne DEF Start
<1>3. CASE TimerFires
  BY <1>1, <1>3, ConnectOne DEF TimerFires
<1>4. CASE Stop
  BY <1>4, ClosePipeOne DEF Stop
<1>5. CASE RunLost \/ RunOverlong
  BY <1>5, ClosePipeOne DEF RunLost, RunOverlong
<1>6. CASE Send \/ RunHello \/ RunFail \/ RunConsume
  <2>1. pipe' = pipe /\ sock' = sock
    BY <1>6, Consumed DEF Send, RunHello, RunFail, link
  <2>. QED
    BY <1>1, <2>1
<1>7. CASE DaemonDies \/ DaemonStarts
  BY <1>1, <1>7 DEF DaemonDies, DaemonStarts, link
<1>8. ASSUME NEW k \in Slots, Uv(k) PROVE OneConnection'
  BY <1>8 DEF Uv, ConnectDone, ConnectCancelled, ReadChunk, ReadEnd, link, OneConnection, TypeOK, SocketsOK
<1>9. ASSUME NEW k \in Slots, DaemonRead(k) PROVE OneConnection'
  BY <1>1, <1>9 DEF DaemonRead, link
<1>. QED
  BY <1>2, <1>3, <1>4, <1>5, <1>6, <1>7, <1>8, <1>9 DEF Next, RunQueued

\* No step makes a socket or arms the timer after a stop.
LEMMA QuietStep == TypeOK /\ OneConnection /\ StoppedIsQuiet /\ Next => StoppedIsQuiet'
<1>. SUFFICES ASSUME TypeOK, OneConnection, StoppedIsQuiet, Next PROVE StoppedIsQuiet'
  OBVIOUS
<1>. USE DEF StoppedIsQuiet
<1>1. ASSUME UNCHANGED <<want, pipe, timer>> PROVE StoppedIsQuiet'
  BY <1>1
<1>2. CASE Start
  BY <1>2 DEF Start
<1>3. CASE TimerFires
  BY <1>3 DEF TimerFires
<1>4. CASE Stop
  BY <1>4, ClosePipeOne DEF Stop
<1>5. CASE RunLost \/ RunOverlong
  BY <1>5, ClosePipeOne DEF RunLost, RunOverlong, Retry
<1>6. CASE Send \/ RunHello \/ RunFail \/ RunConsume
  <2>1. UNCHANGED <<want, pipe, timer>>
    BY <1>6, Consumed DEF Send, RunHello, RunFail, link
  <2>. QED
    BY <1>1, <2>1
<1>7. CASE DaemonDies \/ DaemonStarts
  BY <1>1, <1>7 DEF DaemonDies, DaemonStarts, link
<1>8. ASSUME NEW k \in Slots, Uv(k) \/ DaemonRead(k) PROVE StoppedIsQuiet'
  BY <1>1, <1>8 DEF Uv, ConnectDone, ConnectCancelled, ReadChunk, ReadEnd, DaemonRead, link
<1>. QED
  BY <1>2, <1>3, <1>4, <1>5, <1>6, <1>7, <1>8 DEF Next, RunQueued

\* Whatever order stops, lost connections and late callbacks come in, only the
\* current socket is connecting or connected.
THEOREM NoSocketIsLeft == Spec => []OneConnection
<1>1. Init => OneConnection
  BY DEF Init, OneConnection
<1>2. TypeOK /\ OneConnection /\ [Next]_vars => OneConnection'
  <2>1. OneConnection /\ UNCHANGED vars => OneConnection'
    BY DEF vars, link, OneConnection
  <2>. QED
    BY <2>1, OneStep
<1>. QED
  BY <1>1, <1>2, FrontLinkTypeOK, PTL DEF Spec

\* After a stop there is no socket and no armed timer, whichever callbacks of
\* the old connection run later.
THEOREM StopIsQuiet == Spec => []StoppedIsQuiet
<1>1. Init => StoppedIsQuiet
  BY DEF Init, StoppedIsQuiet
<1>2. TypeOK /\ OneConnection /\ StoppedIsQuiet /\ [Next]_vars => StoppedIsQuiet'
  <2>1. StoppedIsQuiet /\ UNCHANGED vars => StoppedIsQuiet'
    BY DEF vars, link, StoppedIsQuiet
  <2>. QED
    BY <2>1, QuietStep
<1>. QED
  BY <1>1, <1>2, FrontLinkTypeOK, NoSocketIsLeft, PTL DEF Spec

-----------------------------------------------------------------------------
(* Answers                                                                 *)

\* What is queued last: it is awaited besides the others, and once if the
\* others do not hold it.
LEMMA AwaitsAppended ==
  ASSUME NEW q \in Seq(Callback), NEW cb \in Callback, NEW i
  PROVE  /\ Awaits(Append(q, cb), i) <=> Awaits(q, i) \/ (cb.do = "fail" /\ i \in cb.ids)
         /\ (Once(q, i) /\ ~(Awaits(q, i) /\ cb.do = "fail" /\ i \in cb.ids)) => Once(Append(q, cb), i)
<1>. DEFINE a == Append(q, cb)
<1>1. PICK l \in Nat : /\ DOMAIN q = 1..l /\ DOMAIN a = 1..(l + 1) /\ a[l + 1] = cb
                       /\ \A n \in 1..l : a[n] = q[n]
  OBVIOUS
<1>. HIDE DEF a
<1>2. \A n \in DOMAIN q : n \in DOMAIN a /\ a[n] = q[n] /\ n # l + 1
  BY <1>1
<1>3. \A n \in DOMAIN a : n \in DOMAIN q \/ n = l + 1
  BY <1>1
<1>4. l + 1 \in DOMAIN a /\ a[l + 1] = cb
  BY <1>1
<1>5. Awaits(a, i) <=> Awaits(q, i) \/ (cb.do = "fail" /\ i \in cb.ids)
  BY <1>2, <1>3, <1>4 DEF Awaits, Fails
<1>6. (Once(q, i) /\ ~(Awaits(q, i) /\ cb.do = "fail" /\ i \in cb.ids)) => Once(a, i)
  BY <1>2, <1>3, <1>4 DEF Awaits, Once, Fails
<1>. QED
  BY <1>5, <1>6 DEF a

\* What is left when the head of the queue is taken.
LEMMA AwaitsTail ==
  ASSUME queue \in Seq(Callback), queue # << >>, NEW i
  PROVE  /\ Awaits(Tail(queue), i) => Awaits(queue, i)
         /\ Once(queue, i) => Once(Tail(queue), i)
         /\ (Once(queue, i) /\ Head(queue).do = "fail" /\ i \in Head(queue).ids)
                => Awaits(queue, i) /\ ~Awaits(Tail(queue), i)
<1>. DEFINE t == Tail(queue)
<1>1. /\ 1 \in DOMAIN queue /\ Head(queue) = queue[1]
      /\ \A n \in DOMAIN t : n + 1 \in DOMAIN queue /\ n + 1 # 1 /\ t[n] = queue[n + 1]
  BY QueueFacts
<1>2. \A m, n \in DOMAIN t : m + 1 = n + 1 => m = n
  <2>1. DOMAIN t \subseteq Nat
    BY QueueFacts
  <2>. QED
    BY <2>1
<1>. HIDE DEF t
<1>3. Awaits(t, i) => Awaits(queue, i)
  BY <1>1 DEF Awaits, Fails
<1>4. Once(queue, i) => Once(t, i)
  BY <1>1, <1>2 DEF Once, Fails
<1>5. (Once(queue, i) /\ Head(queue).do = "fail" /\ i \in Head(queue).ids)
          => Awaits(queue, i) /\ ~Awaits(t, i)
  BY <1>1 DEF Once, Awaits, Fails
<1>. QED
  BY <1>3, <1>4, <1>5 DEF t

\* The queue without and with an error answer for ids.
LEMMA FailPendingQueued ==
  ASSUME NEW q \in Seq(Callback), NEW ids \in SUBSET Ids, NEW i
  PROVE  /\ Awaits(q \o FailPending(ids), i) <=> Awaits(q, i) \/ i \in ids
         /\ (Once(q, i) /\ ~(Awaits(q, i) /\ i \in ids)) => Once(q \o FailPending(ids), i)
<1>1. CASE ids = {}
  <2>1. q \o FailPending(ids) = q
    BY <1>1, ConcatEmptySeq DEF FailPending
  <2>. QED
    BY <1>1, <2>1
<1>2. CASE ids # {}
  <2>. DEFINE cb == [do |-> "fail", ids |-> ids]
  <2>1. cb \in Callback /\ cb.do = "fail" /\ cb.ids = ids
    BY FailIsCallback
  <2>. HIDE DEF cb
  <2>2. q \o <<cb>> = Append(q, cb)
    BY <2>1
  <2>3. FailPending(ids) = <<cb>>
    BY <1>2 DEF FailPending, cb
  <2>4. /\ Awaits(Append(q, cb), i) <=> Awaits(q, i) \/ (cb.do = "fail" /\ i \in cb.ids)
        /\ (Once(q, i) /\ ~(Awaits(q, i) /\ cb.do = "fail" /\ i \in cb.ids)) => Once(Append(q, cb), i)
    BY <2>1, AwaitsAppended
  <2>5. q \o FailPending(ids) = Append(q, cb)
    BY <2>2, <2>3
  <2>6. /\ Awaits(Append(q, cb), i) <=> Awaits(q, i) \/ i \in ids
        /\ (Once(q, i) /\ ~(Awaits(q, i) /\ i \in ids)) => Once(Append(q, cb), i)
    BY <2>1, <2>4
  <2>. QED
    BY <2>5, <2>6
<1>. QED
  BY <1>1, <1>2

\* Other callbacks come and go without any request noticing.
LEMMA AnswerFrame ==
  ASSUME AnswerInv, UNCHANGED <<pending, calls, dropped, seq>>,
         \A i \in Ids : /\ Awaits(queue', i) => Awaits(queue, i)
                        /\ Once(queue, i) => Once(queue', i)
  PROVE  AnswerInv'
<1>. SUFFICES ASSUME NEW i \in Ids PROVE AnswerOf(i)'
  BY DEF AnswerInv
<1>1. AnswerOf(i) /\ (Awaits(queue', i) => Awaits(queue, i)) /\ (Once(queue, i) => Once(queue', i))
  BY DEF AnswerInv
<1>. QED
  BY <1>1 DEF AnswerOf

\* No step answers a request again, or one that a stop has forgotten.
LEMMA AnswerStep == TypeOK /\ AnswerInv /\ Next => AnswerInv'
<1>. SUFFICES ASSUME TypeOK, AnswerInv, Next PROVE AnswerInv'
  OBVIOUS
<1>0. /\ queue \in Seq(Callback) /\ pending \in SUBSET Ids /\ calls \in [Ids -> Nat]
      /\ seq \in Nat
  BY FrontLinkAssumption DEF TypeOK, LinkOK, HistoryOK
<1>1. ASSUME UNCHANGED <<queue, pending, calls, dropped, seq>> PROVE AnswerInv'
  BY <1>1, AnswerFrame
<1>2. ASSUME NEW cb \in Callback, cb.do # "fail", queue' = Append(queue, cb),
             UNCHANGED <<pending, calls, dropped, seq>>
      PROVE  AnswerInv'
  BY <1>0, <1>2, AnswerFrame, AwaitsAppended
<1>3. CASE Start \/ TimerFires \/ DaemonDies \/ DaemonStarts
  BY <1>1, <1>3 DEF Start, TimerFires, DaemonDies, DaemonStarts, history, link
<1>4. ASSUME NEW k \in Slots, DaemonRead(k) PROVE AnswerInv'
  BY <1>1, <1>4 DEF DaemonRead, link, history
<1>5. ASSUME NEW k \in Slots, Uv(k) PROVE AnswerInv'
  <2>1. UNCHANGED <<pending, calls, dropped, seq>>
    BY <1>5 DEF Uv, ConnectDone, ConnectCancelled, ReadChunk, ReadEnd, link, history
  <2>2. CASE ReadChunk(k)
    <3>1. Head(outbox[k]) \in Chunk
      BY <2>2, HeadTailProperties DEF ReadChunk, TypeOK, DaemonOK
    <3>2. PICK cb \in Callback : cb.do # "fail" /\ queue' = Append(queue, cb)
      BY <2>2, <3>1 DEF ReadChunk, Schedule, Callback
    <3>. QED
      BY <1>2, <2>1, <3>2
  <2>3. CASE ConnectDone(k) \/ ConnectCancelled(k) \/ ReadEnd(k)
    <3>1. PICK x \in {"lost", "hello"} : queue' = Append(queue, [do |-> x])
      BY <2>3 DEF ConnectDone, ConnectCancelled, ReadEnd, Schedule
    <3>2. [do |-> x] \in Callback /\ [do |-> x].do # "fail"
      BY DEF Callback
    <3>. QED
      BY <1>2, <2>1, <3>1, <3>2
  <2>. QED
    BY <1>5, <2>2, <2>3 DEF Uv
<1>6. CASE RunHello
  <2>1. queue # << >> /\ queue' = Tail(queue) /\ UNCHANGED <<pending, calls, dropped, seq>>
    BY <1>6 DEF RunHello, Due, link, history
  <2>. QED
    BY <1>0, <2>1, AnswerFrame, AwaitsTail
<1>7. CASE Stop
  <2>1. /\ queue' = queue \o FailPending({}) /\ pending' = {} /\ dropped' = dropped \union pending
        /\ UNCHANGED <<seq, calls>>
    BY <1>7 DEF Stop, ClosePipe
  <2>2. queue' = queue
    BY <1>0, <2>1, ConcatEmptySeq DEF FailPending
  <2>3. ASSUME NEW i \in Ids PROVE AnswerOf(i)'
    <3>1. AnswerOf(i)
      BY DEF AnswerInv
    <3>. QED
      BY <2>1, <2>2, <3>1 DEF AnswerOf
  <2>. QED
    BY <2>3 DEF AnswerInv
<1>8. CASE RunLost \/ RunOverlong
  <2>1. /\ queue # << >> /\ queue' = Tail(queue) \o FailPending(pending) /\ pending' = {}
        /\ UNCHANGED <<seq, calls, dropped>>
    BY <1>8 DEF RunLost, RunOverlong, Due, ClosePipe, history
  <2>2. Tail(queue) \in Seq(Callback)
    BY <1>0, <2>1, QueueFacts
  <2>3. ASSUME NEW i \in Ids PROVE AnswerOf(i)'
    <3>1. AnswerOf(i)
      BY DEF AnswerInv
    <3>2. /\ Awaits(Tail(queue), i) => Awaits(queue, i)
          /\ Once(queue, i) => Once(Tail(queue), i)
      BY <1>0, <2>1, AwaitsTail
    <3>3. /\ Awaits(queue', i) <=> Awaits(Tail(queue), i) \/ i \in pending
          /\ (Once(Tail(queue), i) /\ ~(Awaits(Tail(queue), i) /\ i \in pending)) => Once(queue', i)
      BY <1>0, <2>1, <2>2, FailPendingQueued
    <3>. QED
      BY <2>1, <3>1, <3>2, <3>3 DEF AnswerOf
  <2>. QED
    BY <2>3 DEF AnswerInv
<1>9. CASE RunFail
  <2>1. /\ queue # << >> /\ queue' = Tail(queue) /\ Head(queue).do = "fail" /\ Call(Head(queue).ids)
        /\ UNCHANGED <<seq, pending, dropped>>
    BY <1>9 DEF RunFail, Due, link
  <2>2. ASSUME NEW i \in Ids PROVE AnswerOf(i)'
    <3>1. AnswerOf(i)
      BY DEF AnswerInv
    <3>2. /\ Awaits(queue', i) => Awaits(queue, i)
          /\ Once(queue, i) => Once(queue', i)
          /\ (Once(queue, i) /\ i \in Head(queue).ids) => Awaits(queue, i) /\ ~Awaits(queue', i)
      BY <1>0, <2>1, AwaitsTail
    <3>3. calls'[i] = IF i \in Head(queue).ids THEN calls[i] + 1 ELSE calls[i]
      BY <2>1 DEF Call
    <3>4. CASE i \in Head(queue).ids
      <4>1. Awaits(queue, i) /\ ~Awaits(queue', i) /\ Once(queue', i)
        BY <3>1, <3>2, <3>4 DEF AnswerOf
      <4>2. calls'[i] = 1 /\ i \notin dropped /\ i \notin pending /\ ~(i > seq)
        BY <3>1, <3>3, <3>4, <4>1 DEF AnswerOf
      <4>. QED
        BY <2>1, <4>1, <4>2 DEF AnswerOf
    <3>5. CASE i \notin Head(queue).ids
      BY <2>1, <3>1, <3>2, <3>3, <3>5 DEF AnswerOf
    <3>. QED
      BY <3>4, <3>5
  <2>. QED
    BY <2>2 DEF AnswerInv
<1>10. CASE RunConsume
  <2>1. queue # << >> /\ queue' = Tail(queue) /\ UNCHANGED <<seq, dropped>>
    BY <1>10, Consumed DEF Due
  <2>2. \A i \in Ids : /\ Awaits(queue', i) => Awaits(queue, i)
                       /\ Once(queue, i) => Once(queue', i)
    BY <1>0, <2>1, AwaitsTail
  <2>3. CASE UNCHANGED <<connected, pending, calls>>
    BY <2>1, <2>2, <2>3, AnswerFrame
  <2>4. ASSUME NEW line, Dispatch(line) PROVE AnswerInv'
    <3>1. ASSUME NEW i \in Ids PROVE AnswerOf(i)'
      <4>1. AnswerOf(i)
        BY DEF AnswerInv
      <4>2. CASE i = line /\ i \in pending
        <5>1. calls'[i] = calls[i] + 1 /\ i \notin pending'
          BY <2>4, <4>2 DEF Dispatch, Call
        <5>2. calls'[i] = 1 /\ i \notin dropped /\ ~(i > seq) /\ ~Awaits(queue', i) /\ Once(queue', i)
          BY <2>2, <4>1, <4>2, <5>1 DEF AnswerOf
        <5>. QED
          BY <2>1, <5>1, <5>2 DEF AnswerOf
      <4>3. CASE ~(i = line /\ i \in pending)
        <5>1. calls'[i] = calls[i] /\ (i \in pending' <=> i \in pending)
          BY <2>4, <4>3 DEF Dispatch, Call
        <5>. QED
          BY <2>1, <2>2, <4>1, <5>1 DEF AnswerOf
      <4>. QED
        BY <4>2, <4>3
    <3>. QED
      BY <3>1 DEF AnswerInv
  <2>. QED
    BY <1>10, <2>3, <2>4, Consumed
<1>11. CASE Send
  <2>1. seq' = seq + 1 /\ UNCHANGED <<calls, dropped>> /\ seq + 1 \in Ids
    BY <1>11, FrontLinkAssumption DEF Send, TypeOK, HistoryOK, Ids
  <2>2. \/ pending' = pending \union {seq + 1} /\ queue' = queue
        \/ pending' = pending /\ queue' = Append(queue, [do |-> "fail", ids |-> {seq + 1}])
    BY <1>11 DEF Send
  <2>3. ASSUME NEW i \in Ids PROVE AnswerOf(i)'
    <3>1. AnswerOf(i)
      BY DEF AnswerInv
    <3>2. (i > seq' => i > seq /\ i # seq + 1) /\ (i = seq + 1 => i > seq)
      BY <1>0, <2>1 DEF Ids
    <3>3. CASE pending' = pending \union {seq + 1} /\ queue' = queue
      BY <2>1, <3>1, <3>2, <3>3 DEF AnswerOf
    <3>4. CASE pending' = pending /\ queue' = Append(queue, [do |-> "fail", ids |-> {seq + 1}])
      <4>1. PICK cb \in Callback : cb.do = "fail" /\ cb.ids = {seq + 1} /\ queue' = Append(queue, cb)
        BY <2>1, <3>4, FailIsCallback
      <4>2. /\ Awaits(queue', i) <=> Awaits(queue, i) \/ i = seq + 1
            /\ (Once(queue, i) /\ ~(Awaits(queue, i) /\ i = seq + 1)) => Once(queue', i)
        BY <1>0, <4>1, AwaitsAppended
      <4>. QED
        BY <2>1, <3>1, <3>2, <3>4, <4>2 DEF AnswerOf
    <3>. QED
      BY <2>2, <3>3, <3>4
  <2>. QED
    BY <2>3 DEF AnswerInv
<1>. QED
  BY <1>3, <1>4, <1>5, <1>6, <1>7, <1>8, <1>9, <1>10, <1>11 DEF Next, RunQueued

\* Whatever order answers, failures, stops and restarts come in, the callback of
\* a request runs at most once, and not if a stop has forgotten it.
THEOREM CallbackRunsOnce == Spec => []AnsweredAtMostOnce
<1>1. Init => AnswerInv
  <2>1. DOMAIN << >> = {}
    OBVIOUS
  <2>. QED
    BY <2>1 DEF Init, AnswerInv, AnswerOf, Awaits, Once, Ids
<1>2. TypeOK /\ AnswerInv /\ [Next]_vars => AnswerInv'
  <2>1. AnswerInv /\ UNCHANGED vars => AnswerInv'
    BY AnswerFrame DEF vars, link, history
  <2>. QED
    BY <2>1, AnswerStep
<1>3. TypeOK /\ AnswerInv => AnsweredAtMostOnce
  BY DEF AnswerInv, AnswerOf, AnsweredAtMostOnce
<1>. QED
  BY <1>1, <1>2, <1>3, FrontLinkTypeOK, PTL DEF Spec

=============================================================================
