------------------------------ MODULE FrontLink ------------------------------
(***************************************************************************)
(* The frontend's link to the daemon (lua/quietdm/ipc.lua, and the start   *)
(* and stop of init.lua): one socket at a time, silent retries, requests   *)
(* with callbacks.  libuv callbacks only queue work with vim.schedule; the *)
(* queue is worked off on the main loop, between the user's commands.  A   *)
(* queued callback does not know which connection it came from.            *)
(*                                                                         *)
(* A connection is a slot, used again once it is closed and no callback of *)
(* it is due.  The daemon is cut down: it answers a connection that greets *)
(* first, in order, and closes one that does not (Hub); it gives up an     *)
(* answer that is too long, or that drop-oldest takes from a full queue.   *)
(* A line reaches the frontend whole or in two chunks.  Backoff delays are *)
(* not modelled: an armed timer may fire at any time.                      *)
(***************************************************************************)
EXTENDS Naturals, Sequences, FiniteSets

CONSTANTS
    Slots,       \* connections that can exist at once
    NoSlot,      \* state.pipe = nil
    MaxSends,    \* bound on the requests of the user
    MaxStops,    \* bound on the times the user stops the plugin
    MaxOutages   \* bound on the times the daemon dies

ASSUME FrontLinkAssumption ==
    /\ NoSlot \notin Slots
    /\ MaxSends \in Nat /\ MaxStops \in Nat /\ MaxOutages \in Nat

VARIABLES
    want,        \* state.want; also init.lua's started
    pipe,        \* state.pipe
    connected,   \* state.connected
    buffer,      \* state.buffer: chunks of the line being received
    timer,       \* state.timer is armed
    pending,     \* ids of state.pending
    lost,        \* history: lines of the current socket whose answers were given up
    queue,       \* vim.schedule's queue
    sock,        \* sock[k]: "free", "connecting", "cancelled", "open", "ended"
    up,          \* the daemon runs
    inbox,       \* inbox[k]: lines written to k the daemon has not read
    outbox,      \* outbox[k]: chunks from the daemon not read yet
    peer,        \* peer[k]: "new", "greeted" or "closed", the daemon's end of k
    seq,         \* state.seq, requests made so far
    calls,       \* history: calls[i], times the callback of request i ran
    dropped,     \* history: requests forgotten by stop
    stops, outages

link    == <<want, pipe, connected, buffer, timer, pending, lost>>
daemon  == <<up, inbox, outbox, peer>>
history == <<seq, calls, dropped, stops, outages>>
vars    == <<link, queue, sock, daemon, history>>

Ids == 1..MaxSends

Hello == 0   \* the line hello; request i is the line i

\* A chunk: a line of the daemon (ready, or the answer to request id), or the
\* part of it before or after a read boundary.
Chunk == [line : {Hello} \union Ids, part : {"whole", "head", "tail"}]

Callback == [do : {"lost", "hello"}]
                \union [do : {"consume"}, chunk : Chunk]
                \union [do : {"fail"}, ids : SUBSET Ids]

LinkOK ==
    /\ want \in BOOLEAN /\ pipe \in Slots \union {NoSlot}
    /\ connected \in BOOLEAN /\ timer \in BOOLEAN
    /\ buffer \in Seq({chunk \in Chunk : chunk.part = "head"})
    /\ pending \subseteq Ids /\ lost \subseteq {Hello} \union Ids

SocketsOK == sock \in [Slots -> {"free", "connecting", "cancelled", "open", "ended"}]

DaemonOK ==
    /\ up \in BOOLEAN
    /\ inbox \in [Slots -> Seq({Hello} \union Ids)]
    /\ outbox \in [Slots -> Seq(Chunk)]
    /\ peer \in [Slots -> {"new", "greeted", "closed"}]

HistoryOK ==
    /\ seq \in 0..MaxSends /\ calls \in [Ids -> Nat] /\ dropped \subseteq Ids
    /\ stops \in 0..MaxStops /\ outages \in 0..MaxOutages

TypeOK == LinkOK /\ queue \in Seq(Callback) /\ SocketsOK /\ DaemonOK /\ HistoryOK

Init ==
    /\ want = FALSE /\ pipe = NoSlot /\ connected = FALSE /\ timer = FALSE
    /\ buffer = << >> /\ pending = {} /\ lost = {} /\ queue = << >>
    /\ sock = [k \in Slots |-> "free"]
    /\ up \in BOOLEAN
    /\ inbox = [k \in Slots |-> << >>] /\ outbox = [k \in Slots |-> << >>]
    /\ peer = [k \in Slots |-> "new"]
    /\ seq = 0 /\ calls = [i \in Ids |-> 0] /\ dropped = {}
    /\ stops = 0 /\ outages = 0

-----------------------------------------------------------------------------
(* connect, close_pipe and retry                                           *)

\* connect: a new socket starts connecting.
Connect ==
    \E k \in Slots :
        /\ sock[k] = "free"
        /\ pipe' = k
        /\ sock' = [sock EXCEPT ![k] = "connecting"]
        /\ inbox' = [inbox EXCEPT ![k] = << >>]
        /\ outbox' = [outbox EXCEPT ![k] = << >>]
        /\ peer' = [peer EXCEPT ![k] = "new"]
        /\ UNCHANGED up

\* Mutant: the handle is forgotten and not closed.
SockLeaked == sock

\* The sockets after close: a connect still under way is called back with an
\* error, a connection is just gone.
SockClosed ==
    [k \in Slots |->
        IF k # pipe THEN sock[k]
        ELSE IF sock[k] = "connecting" THEN "cancelled" ELSE "free"]

\* Mutant: outstanding requests are kept for the next connection.
FailNothing(ids) == << >>

\* fail_pending: an error answer for every outstanding request.
FailPending(ids) ==
    IF ids = {} THEN << >> ELSE <<[do |-> "fail", ids |-> ids]>>

\* close_pipe; rest is what remains queued before the answers to ids.
ClosePipe(rest, ids) ==
    /\ sock' = SockClosed
    /\ pipe' = NoSlot
    /\ buffer' = << >>
    /\ connected' = FALSE
    /\ pending' = {}
    /\ lost' = {}
    /\ queue' = rest \o FailPending(ids)

\* Mutant: retry does not look at want.
RetryAlways == timer' = TRUE

\* retry: arm the timer unless the user has stopped.
Retry == timer' = want

TimerFires ==
    /\ timer
    /\ timer' = FALSE
    /\ IF want /\ pipe = NoSlot THEN Connect
       ELSE UNCHANGED <<pipe, sock, daemon>>
    /\ UNCHANGED <<want, connected, buffer, pending, lost, queue, history>>

-----------------------------------------------------------------------------
(* The user                                                                *)

Start ==
    /\ ~want
    /\ want' = TRUE
    /\ IF pipe = NoSlot THEN Connect ELSE UNCHANGED <<pipe, sock, daemon>>
    /\ UNCHANGED <<connected, buffer, timer, pending, lost, queue, history>>

\* stop forgets the outstanding requests before it closes the socket.
Stop ==
    /\ want /\ stops < MaxStops
    /\ stops' = stops + 1
    /\ want' = FALSE /\ timer' = FALSE
    /\ dropped' = dropped \union pending
    /\ ClosePipe(queue, {})
    /\ UNCHANGED <<daemon, seq, calls, outages>>

\* A line goes to the current socket; libuv holds it while that connects.
Write(line) == inbox' = [inbox EXCEPT ![pipe] = Append(@, line)]

\* send with a callback: written if connected, or answered by an error.
Send ==
    /\ seq < MaxSends
    /\ seq' = seq + 1
    /\ IF pipe # NoSlot /\ connected
       THEN /\ Write(seq + 1)
            /\ pending' = pending \union {seq + 1}
            /\ UNCHANGED queue
       ELSE /\ queue' = Append(queue, [do |-> "fail", ids |-> {seq + 1}])
            /\ UNCHANGED <<inbox, pending>>
    /\ UNCHANGED <<want, pipe, connected, buffer, timer, lost, sock, up, outbox,
                   peer, calls, dropped, stops, outages>>

-----------------------------------------------------------------------------
(* Queued callbacks                                                        *)

Due(what) == queue # << >> /\ Head(queue).do = what

\* The socket failed or ended: close whatever the current one is, and retry.
RunLost ==
    /\ Due("lost")
    /\ ClosePipe(Tail(queue), pending)
    /\ Retry
    /\ UNCHANGED <<want, daemon, history>>

RunHello ==
    /\ Due("hello")
    /\ queue' = Tail(queue)
    /\ IF pipe = NoSlot THEN UNCHANGED inbox ELSE Write(Hello)
    /\ UNCHANGED <<link, sock, up, outbox, peer, history>>

Call(ids) == calls' = [i \in Ids |-> IF i \in ids THEN calls[i] + 1 ELSE calls[i]]

RunFail ==
    /\ Due("fail")
    /\ queue' = Tail(queue)
    /\ Call(Head(queue).ids)
    /\ UNCHANGED <<link, sock, daemon, seq, dropped, stops, outages>>

\* Mutant: the callback of a request stays registered after its answer.
DispatchKeeps(line) ==
    /\ connected' = (connected \/ line = Hello)
    /\ Call({line} \intersect pending)
    /\ UNCHANGED pending

\* dispatch: ready completes the handshake, an answer goes to its callback.
Dispatch(line) ==
    /\ connected' = (connected \/ line = Hello)
    /\ Call({line} \intersect pending)
    /\ pending' = pending \ {line}

\* What consume leaves in the buffer: nothing that holds a newline.
Rest(line) == IF line[Len(line)].part = "head" THEN line ELSE << >>

\* consume: without a newline the chunk waits; with one the line is complete,
\* and malformed if what waited is not its beginning.
RunConsume ==
    LET chunk == Head(queue).chunk
        line  == Append(buffer, chunk)
        whole == [line |-> chunk.line, part |-> "whole"]
        parts == <<[line |-> chunk.line, part |-> "head"], [line |-> chunk.line, part |-> "tail"]>>
    IN  /\ Due("consume")
        /\ queue' = Tail(queue)
        /\ buffer' = Rest(line)
        /\ IF line = <<whole>> \/ line = parts THEN Dispatch(chunk.line)
           ELSE UNCHANGED <<connected, pending, calls>>
        /\ UNCHANGED <<want, pipe, timer, lost, sock, daemon, seq, dropped, stops, outages>>

\* The beginnings of two lines exceed the line limit, which neither does alone:
\* drop the connection and retry.
RunOverlong ==
    /\ Due("consume")
    /\ buffer # << >> /\ Head(queue).chunk.part = "head"
    /\ ClosePipe(Tail(queue), pending)
    /\ Retry
    /\ UNCHANGED <<want, daemon, history>>

-----------------------------------------------------------------------------
(* libuv                                                                   *)

Schedule(callback) == queue' = Append(queue, callback)

ConnectDone(k) ==
    /\ sock[k] = "connecting"
    /\ IF up THEN /\ sock' = [sock EXCEPT ![k] = "open"] /\ Schedule([do |-> "hello"])
             ELSE /\ sock' = [sock EXCEPT ![k] = "ended"] /\ Schedule([do |-> "lost"])
    /\ UNCHANGED <<link, daemon, history>>

ConnectCancelled(k) ==
    /\ sock[k] = "cancelled"
    /\ sock' = [sock EXCEPT ![k] = "free"]
    /\ Schedule([do |-> "lost"])
    /\ UNCHANGED <<link, daemon, history>>

ReadChunk(k) ==
    /\ sock[k] = "open" /\ outbox[k] # << >>
    /\ outbox' = [outbox EXCEPT ![k] = Tail(@)]
    /\ Schedule([do |-> "consume", chunk |-> Head(outbox[k])])
    /\ UNCHANGED <<link, sock, up, inbox, peer, history>>

\* Mutant: the end of the stream is not noticed.
ReadEndUnnoticed(k) ==
    /\ sock[k] = "open" /\ outbox[k] = << >> /\ peer[k] = "closed"
    /\ sock' = [sock EXCEPT ![k] = "ended"]
    /\ UNCHANGED <<link, queue, daemon, history>>

ReadEnd(k) ==
    /\ sock[k] = "open" /\ outbox[k] = << >> /\ peer[k] = "closed"
    /\ sock' = [sock EXCEPT ![k] = "ended"]
    /\ Schedule([do |-> "lost"])
    /\ UNCHANGED <<link, daemon, history>>

-----------------------------------------------------------------------------
(* The daemon                                                              *)

\* The answer to line, whole or cut by a read boundary.
Answers(line) ==
    {<<[line |-> line, part |-> "whole"]>>,
     <<[line |-> line, part |-> "head"], [line |-> line, part |-> "tail"]>>}

\* It reads a line: the first must be hello; then every line has its answer,
\* unless that exceeds MaxLine or is dropped as the oldest of a full queue.
DaemonRead(k) ==
    LET line == Head(inbox[k])
        greets == peer[k] = "greeted" \/ line = Hello
    IN  /\ sock[k] = "open" /\ peer[k] # "closed" /\ inbox[k] # << >>
        /\ inbox' = [inbox EXCEPT ![k] = Tail(@)]
        /\ peer' = [peer EXCEPT ![k] = IF greets THEN "greeted" ELSE "closed"]
        /\ \/ /\ greets
              /\ \E answer \in Answers(line) : outbox' = [outbox EXCEPT ![k] = @ \o answer]
              /\ UNCHANGED lost
           \/ /\ greets
              /\ lost' = lost \union {line}
              /\ UNCHANGED outbox
           \/ /\ ~greets
              /\ UNCHANGED <<outbox, lost>>
        /\ UNCHANGED <<want, pipe, connected, buffer, timer, pending, queue, sock, up, history>>

DaemonDies ==
    /\ up /\ outages < MaxOutages
    /\ outages' = outages + 1
    /\ up' = FALSE
    /\ peer' = [k \in Slots |-> IF sock[k] = "open" THEN "closed" ELSE peer[k]]
    /\ UNCHANGED <<link, queue, sock, inbox, outbox, seq, calls, dropped, stops>>

DaemonStarts ==
    /\ ~up
    /\ up' = TRUE
    /\ UNCHANGED <<link, queue, sock, inbox, outbox, peer, history>>

-----------------------------------------------------------------------------

RunQueued == RunLost \/ RunHello \/ RunFail \/ RunConsume \/ RunOverlong

Uv(k) == ConnectDone(k) \/ ConnectCancelled(k) \/ ReadChunk(k) \/ ReadEnd(k)

Next ==
    \/ Start \/ Stop \/ Send
    \/ RunQueued \/ TimerFires
    \/ DaemonDies \/ DaemonStarts
    \/ \E k \in Slots : Uv(k) \/ DaemonRead(k)

Spec == Init /\ [][Next]_vars

\* The main loop runs what is queued, libuv reports what has happened, and a
\* daemon that runs answers.  Nobody has to start the daemon or the plugin.
FairSpec ==
    /\ Spec
    /\ WF_vars(RunQueued) /\ WF_vars(TimerFires)
    /\ \A k \in Slots : WF_vars(Uv(k)) /\ WF_vars(DaemonRead(k))

-----------------------------------------------------------------------------

\* The callback of a request runs at most once, and not after a stop the user
\* asked for, whatever order answers, failures and stops come in
\* (ipc.lua:67-81, 150-176, 277-285).
AnsweredAtMostOnce == \A i \in Ids : calls[i] <= IF i \in dropped THEN 0 ELSE 1

\* No socket is left behind: only the current one is connecting or connected
\* (ipc.lua:83-98, 230-235).
OneConnection ==
    \A k \in Slots : sock[k] \in {"connecting", "open", "ended"} => k = pipe

\* After a stop nothing goes on in the background: no socket and no retry,
\* even when callbacks of the old connection run later (ipc.lua:103-107, 277-285).
StoppedIsQuiet == ~want => pipe = NoSlot /\ ~timer

\* Every request is answered in the end, by the daemon or by an error, unless
\* the user stops the plugin, or the daemon gave its answer up and their
\* connection lasts for ever: nothing else limits the wait (ipc.lua:67-69,
\* 163-166, server.go:269-280, 487-492).
RequestsAnswered ==
    \A i \in Ids :
        \/ i <= seq ~> (calls[i] > 0 \/ i \in dropped)
        \/ <>[](i \in lost)

\* While the plugin is on and the daemon runs, the link comes up, until the
\* first stop, unless it hangs on a connection whose ready the daemon gave up
\* (ipc.lua:101-116, server.go:269-280).
Reconnects ==
    <>[](want /\ up /\ stops = 0) => (<>[]connected \/ <>[](Hello \in lost))

=============================================================================
