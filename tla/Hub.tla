--------------------------------- MODULE Hub ---------------------------------
(***************************************************************************)
(* The IPC hub (internal/ipc/server.go): the accept loop, one reader and   *)
(* one writer goroutine per frontend, broadcasts from the session, the     *)
(* bounded queue of each frontend with drop-oldest, and Close.             *)
(*                                                                         *)
(* An event is a record: kind "ready" answers hello, "reply" is an ack,    *)
(* history, rooms or error that leaves the connection open, "fatal" an     *)
(* error after which dispatch returns false, "bcast" a message or room     *)
(* broadcast; from is the goroutine that sends it and n its number there.  *)
(* A broadcast or reply is a job of that goroutine; jobs[p] holds the jobs *)
(* of the handler p is running, the current one first.                     *)
(***************************************************************************)
EXTENDS Naturals, Sequences, FiniteSets

CONSTANTS
    Clients,        \* connections; each is made at most once
    Session,        \* the goroutine of Session.Run
    QueueCap,       \* clientQueue, 64 in the code
    MaxBroadcasts,  \* bound on the messages and rooms Session.Run broadcasts
    MaxCommands,    \* bound on the commands one frontend sends
    MaxFaults       \* bound on disconnects, failed writes, timeouts and shutdowns

ASSUME HubAssumption ==
    /\ Session \notin Clients
    /\ QueueCap \in Nat \ {0}
    /\ MaxBroadcasts \in Nat /\ MaxCommands \in Nat /\ MaxFaults \in Nat

Procs == Clients \union {Session}

VARIABLES
    faults,     \* faults that have happened, for MaxFaults
    ctxDone,    \* the daemon's context has ended
    srvClosed,  \* Server.closed
    lnOpen,     \* the listener accepts
    tracked,    \* Server.clients
    acceptor,   \* Serve: [at, c], c the connection it has just accepted
    closer,     \* Server.Close: [at, todo, c]
    conn,       \* conn[c]: "none", "open" or "closed"
    hello,      \* client.hello
    closed,     \* client.closed
    shut,       \* client.shutdown has been closed
    out,        \* client.out
    reader,     \* where serve is: "off", "scan", "busy", "stop", "wait", "close", "end"
    writer,     \* where the writer is: "off", "loop", "drain", "done"
    jobs,       \* jobs[p]: what goroutine p is delivering
    sent,       \* sent[p]: events p has started to send
    wire,       \* history: events written to the frontend
    asked,      \* history: commands read from the frontend
    debt        \* history: "owed" once c was sent a fatal event, "debtd" if a
                \* write failed or timed out or the event was dropped

closing == <<faults, ctxDone, srvClosed, closer>>
serving == <<lnOpen, tracked, acceptor>>
goroutines == <<reader, writer>>
flags  == <<conn, hello, closed, shut>>
queues == <<out, wire, debt>>
work   == <<jobs, sent, asked>>
vars   == <<closing, serving, goroutines, flags, queues, work>>

Kinds == {"ready", "reply", "fatal", "bcast"}
Event == [kind : Kinds, from : Procs, n : Nat]
Job   == [ev : Event, stage : {"snapshot", "next", "try", "drop"},
          todo : SUBSET Clients, to : SUBSET Clients]

ServerOK ==
    /\ faults \in 0..MaxFaults
    /\ ctxDone \in BOOLEAN /\ srvClosed \in BOOLEAN /\ lnOpen \in BOOLEAN
    /\ tracked \in SUBSET Clients
    /\ acceptor \in [at : {"accept", "add", "spawn", "returned"}, c : SUBSET Clients]
    /\ closer \in [at : {"idle", "listener", "clients", "conn", "done"},
                   todo : SUBSET Clients, c : SUBSET Clients]

ClientsOK ==
    /\ conn \in [Clients -> {"none", "open", "closed"}]
    /\ hello \in [Clients -> BOOLEAN]
    /\ closed \in [Clients -> BOOLEAN]
    /\ shut \in [Clients -> BOOLEAN]
    /\ reader \in [Clients -> {"off", "scan", "busy", "stop", "wait", "close", "end"}]
    /\ writer \in [Clients -> {"off", "loop", "drain", "done"}]
    /\ asked \in [Clients -> Nat]
    /\ debt \in [Clients -> {"none", "owed", "debtd"}]

QueuesOK ==
    /\ out \in [Clients -> Seq(Event)]
    /\ \A c \in Clients : Len(out[c]) <= QueueCap
    /\ wire \in [Clients -> Seq(Event)]

JobsOK ==
    /\ jobs \in [Procs -> Seq(Job)]
    /\ sent \in [Procs -> Nat]

TypeOK == ServerOK /\ ClientsOK /\ QueuesOK /\ JobsOK

Init ==
    /\ faults = 0
    /\ ctxDone = FALSE /\ srvClosed = FALSE /\ lnOpen = TRUE
    /\ tracked = {}
    /\ acceptor = [at |-> "accept", c |-> {}]
    /\ closer = [at |-> "idle", todo |-> {}, c |-> {}]
    /\ conn = [c \in Clients |-> "none"]
    /\ hello = [c \in Clients |-> FALSE]
    /\ closed = [c \in Clients |-> FALSE]
    /\ shut = [c \in Clients |-> FALSE]
    /\ out = [c \in Clients |-> << >>]
    /\ reader = [c \in Clients |-> "off"]
    /\ writer = [c \in Clients |-> "off"]
    /\ jobs = [p \in Procs |-> << >>]
    /\ sent = [p \in Procs |-> 0]
    /\ wire = [c \in Clients |-> << >>]
    /\ asked = [c \in Clients |-> 0]
    /\ debt = [c \in Clients |-> "none"]

-----------------------------------------------------------------------------
(* Serve: the accept loop                                                  *)

Fault == faults < MaxFaults /\ faults' = faults + 1

\* A frontend connects and Accept returns its connection.
Accept(c) ==
    /\ acceptor.at = "accept" /\ lnOpen
    /\ conn[c] = "none"
    /\ conn' = [conn EXCEPT ![c] = "open"]
    /\ acceptor' = [at |-> "add", c |-> {c}]
    /\ UNCHANGED <<closing, lnOpen, tracked, goroutines, hello, closed, shut, queues, work>>

AddClient ==
    /\ acceptor.at = "add"
    /\ tracked' = tracked \union acceptor.c
    /\ acceptor' = [acceptor EXCEPT !.at = "spawn"]
    /\ UNCHANGED <<closing, lnOpen, goroutines, flags, queues, work>>

\* go c.serve: reader and writer start.
SpawnServe ==
    /\ acceptor.at = "spawn"
    /\ \E c \in acceptor.c :
        /\ reader' = [reader EXCEPT ![c] = "scan"]
        /\ writer' = [writer EXCEPT ![c] = "loop"]
    /\ acceptor' = [at |-> "accept", c |-> {}]
    /\ UNCHANGED <<closing, lnOpen, tracked, flags, queues, work>>

\* Accept fails once the listener is closed; Serve returns.
ServeReturns ==
    /\ acceptor.at = "accept" /\ ~lnOpen
    /\ acceptor' = [at |-> "returned", c |-> {}]
    /\ UNCHANGED <<closing, lnOpen, tracked, goroutines, flags, queues, work>>

-----------------------------------------------------------------------------
(* Server.Close                                                            *)

Cancel ==
    /\ ~ctxDone /\ Fault
    /\ ctxDone' = TRUE
    /\ UNCHANGED <<srvClosed, closer, serving, goroutines, flags, queues, work>>

\* Close by the goroutine that waits for ctx, or by main's defer, which runs
\* after the one that cancels ctx: the first caller takes the clients away
\* under the lock, later callers return at once.
CloseServer ==
    /\ ctxDone /\ ~srvClosed
    /\ srvClosed' = TRUE
    /\ closer' = [at |-> "listener", todo |-> tracked, c |-> {}]
    /\ tracked' = {}
    /\ UNCHANGED <<faults, ctxDone, lnOpen, acceptor, goroutines, flags, queues, work>>

CloseListener ==
    /\ closer.at = "listener"
    /\ lnOpen' = FALSE
    /\ closer' = [closer EXCEPT !.at = "clients"]
    /\ UNCHANGED <<faults, ctxDone, srvClosed, tracked, acceptor, goroutines, flags,
                   queues, work>>

\* client.close: the flag and the shutdown channel, unless already closed ...
CloseClientFlag(c) ==
    /\ closer.at = "clients" /\ c \in closer.todo
    /\ IF closed[c]
       THEN /\ closer' = [closer EXCEPT !.todo = @ \ {c}]
            /\ UNCHANGED <<closed, shut>>
       ELSE /\ closer' = [at |-> "conn", todo |-> closer.todo \ {c}, c |-> {c}]
            /\ closed' = [closed EXCEPT ![c] = TRUE]
            /\ shut' = [shut EXCEPT ![c] = TRUE]
    /\ UNCHANGED <<faults, ctxDone, srvClosed, serving, goroutines, conn, hello, queues, work>>

\* ... then the connection.
CloseClientConn ==
    /\ closer.at = "conn"
    /\ conn' = [c \in Clients |-> IF c \in closer.c THEN "closed" ELSE conn[c]]
    /\ closer' = [closer EXCEPT !.at = "clients", !.c = {}]
    /\ UNCHANGED <<faults, ctxDone, srvClosed, serving, goroutines, hello, closed, shut, queues, work>>

CloseDone ==
    /\ closer.at = "clients" /\ closer.todo = {}
    /\ closer' = [closer EXCEPT !.at = "done"]
    /\ UNCHANGED <<faults, ctxDone, srvClosed, serving, goroutines, flags, queues, work>>

-----------------------------------------------------------------------------
(* broadcast, send and enqueue                                             *)

NewEvent(p, kind, k) == [kind |-> kind, from |-> p, n |-> sent[p] + k]

\* A broadcast snapshots the clients when it begins; a reply has one target.
Broadcast(p, k) ==
    [ev |-> NewEvent(p, "bcast", k), stage |-> "snapshot", todo |-> {}, to |-> {}]
Reply(c, kind, k) ==
    [ev |-> NewEvent(c, kind, k), stage |-> "next", todo |-> {c}, to |-> {}]

\* Give p the jobs js, numbered on from sent[p].
Begin(p, js) ==
    /\ jobs[p] = << >>
    /\ jobs' = [jobs EXCEPT ![p] = js]
    /\ sent' = [sent EXCEPT ![p] = @ + Len(js)]

Current(p)  == jobs[p][1]
Stage(p, s) == jobs[p] # << >> /\ Current(p).stage = s
Target(p)   == CHOOSE c \in Clients : c \in Current(p).to

\* The current job of p goes on; Turn leaves its clients as they are.
GoOn(p, s, left, c) ==
    LET job == [ev |-> Current(p).ev, stage |-> s, todo |-> left, to |-> c] IN
    jobs' = [jobs EXCEPT ![p] = [@ EXCEPT ![1] = job]]
Turn(p, s) == GoOn(p, s, Current(p).todo, Current(p).to)

\* BroadcastMessage and BroadcastRoom, called by Session.ingest one at a time.
SessionBroadcast ==
    /\ sent[Session] < MaxBroadcasts
    /\ Begin(Session, <<Broadcast(Session, 1)>>)
    /\ UNCHANGED <<closing, serving, goroutines, flags, queues, asked>>

TakeSnapshot(p) ==
    /\ Stage(p, "snapshot")
    /\ GoOn(p, "next", tracked, {})
    /\ UNCHANGED <<closing, serving, goroutines, flags, queues, sent, asked>>

\* Mutant: a broadcast goes to every connection, greeted or not.
NextTargetUngreeted(p) ==
    /\ Stage(p, "next")
    /\ \E c \in Current(p).todo :
        GoOn(p, IF closed[c] THEN "next" ELSE "try", Current(p).todo \ {c}, {c})
    /\ UNCHANGED <<closing, serving, goroutines, flags, queues, sent, asked>>

\* The next client: broadcast skips one that is not greeted, enqueue returns
\* at once for one that is closed.
NextTarget(p) ==
    /\ Stage(p, "next")
    /\ \E c \in Current(p).todo :
        LET skip == closed[c] \/ (Current(p).ev.kind = "bcast" /\ ~hello[c]) IN
        GoOn(p, IF skip THEN "next" ELSE "try", Current(p).todo \ {c}, {c})
    /\ UNCHANGED <<closing, serving, goroutines, flags, queues, sent, asked>>

\* Mutant: a full queue is waited for instead of making room.
TryEnqueueBlocking(p) ==
    /\ Stage(p, "try")
    /\ LET c == Target(p) IN
        /\ Len(out[c]) < QueueCap
        /\ out' = [out EXCEPT ![c] = Append(@, Current(p).ev)]
        /\ Turn(p, "next")
    /\ UNCHANGED <<closing, serving, goroutines, flags, wire, debt, sent, asked>>

\* enqueue, first select: queue the line if there is room.
TryEnqueue(p) ==
    /\ Stage(p, "try")
    /\ LET c == Target(p) IN
        IF Len(out[c]) < QueueCap
        THEN /\ out' = [out EXCEPT ![c] = Append(@, Current(p).ev)]
             /\ Turn(p, "next")
        ELSE /\ Turn(p, "drop")
             /\ UNCHANGED out
    /\ UNCHANGED <<closing, serving, goroutines, flags, wire, debt, sent, asked>>

\* Mutant: an answer is not thrown away for a broadcast but moved to the back.
DropOldestKeepsReplies(p) ==
    /\ Stage(p, "drop")
    /\ LET c == Target(p) IN
        out' = [out EXCEPT ![c] = IF @ = << >> THEN @
                                 ELSE IF Head(@).kind = "bcast" THEN Tail(@)
                                 ELSE Append(Tail(@), Head(@))]
    /\ Turn(p, "try")
    /\ UNCHANGED <<closing, serving, goroutines, flags, wire, debt, sent, asked>>

\* enqueue, second select: drop the oldest line, if the writer left one.
DropOldest(p) ==
    /\ Stage(p, "drop")
    /\ LET c == Target(p) IN
        /\ out' = [out EXCEPT ![c] = IF @ = << >> THEN @ ELSE Tail(@)]
        /\ debt' = [debt EXCEPT ![c] =
              IF out[c] # << >> /\ Head(out[c]).kind = "fatal" THEN "debtd" ELSE @]
    /\ Turn(p, "try")
    /\ UNCHANGED <<closing, serving, goroutines, flags, wire, sent, asked>>

\* The job is over.  A reader whose last job is done reads on, or stops after
\* a fatal event (dispatch returned false).
FinishJob(p) ==
    /\ Stage(p, "next") /\ Current(p).todo = {}
    /\ jobs' = [jobs EXCEPT ![p] = Tail(@)]
    /\ IF p # Session /\ Len(jobs[p]) = 1
       THEN reader' = [reader EXCEPT ![p] =
                         IF Current(p).ev.kind = "fatal" THEN "stop" ELSE "scan"]
       ELSE UNCHANGED reader
    /\ UNCHANGED <<closing, serving, writer, flags, queues, sent, asked>>

Delivering(p) ==
    \/ TakeSnapshot(p) \/ NextTarget(p) \/ TryEnqueue(p) \/ DropOldest(p) \/ FinishJob(p)

-----------------------------------------------------------------------------
(* serve: the reader                                                       *)

\* A command arrives and its handler begins to deliver js.
Read(c, js) ==
    /\ reader[c] = "scan" /\ conn[c] = "open"
    /\ asked[c] < MaxCommands
    /\ asked' = [asked EXCEPT ![c] = @ + 1]
    /\ Begin(c, js)
    /\ reader' = [reader EXCEPT ![c] = "busy"]
    /\ UNCHANGED <<closing, serving, writer, conn, closed, shut, out, wire>>

\* handleHello sets the flag before it sends ready.
ReadHello(c) ==
    /\ Read(c, <<Reply(c, "ready", 1)>>)
    /\ hello' = [hello EXCEPT ![c] = TRUE]
    /\ UNCHANGED debt

\* Malformed JSON, a wrong protocol version, or anything but hello first.
ReadFatal(c) ==
    /\ Read(c, <<Reply(c, "fatal", 1)>>)
    /\ debt' = [debt EXCEPT ![c] = IF @ = "none" THEN "owed" ELSE @]
    /\ UNCHANGED hello

\* send, history, rooms, an unknown command, or a mark_read that is refused.
ReadCommand(c) ==
    /\ hello[c]
    /\ Read(c, <<Reply(c, "reply", 1)>>)
    /\ UNCHANGED <<hello, debt>>

\* mark_read: the session broadcasts the room before the ack.
ReadMarkRead(c) ==
    /\ hello[c]
    /\ Read(c, <<Broadcast(c, 1), Reply(c, "reply", 2)>>)
    /\ UNCHANGED <<hello, debt>>

\* history whose reply exceeds MaxLine: send logs the encode error and gives up.
ReadOversizeHistory(c) ==
    /\ hello[c]
    /\ reader[c] = "scan" /\ conn[c] = "open"
    /\ asked[c] < MaxCommands
    /\ asked' = [asked EXCEPT ![c] = @ + 1]
    /\ UNCHANGED <<closing, serving, goroutines, flags, queues, jobs, sent>>

\* The scan ends: the frontend went away, a line is too long, or the
\* connection was closed under it.
ScanEnds(c) ==
    /\ reader[c] = "scan"
    /\ IF conn[c] = "closed" THEN UNCHANGED faults ELSE Fault
    /\ reader' = [reader EXCEPT ![c] = "stop"]
    /\ UNCHANGED <<ctxDone, srvClosed, closer, serving, writer, flags, queues, work>>

\* Mutant: serve closes the connection without waiting for the writer.
StopWritingNoWait(c) ==
    /\ reader[c] = "stop"
    /\ shut' = [shut EXCEPT ![c] = TRUE]
    /\ reader' = [reader EXCEPT ![c] = "close"]
    /\ UNCHANGED <<closing, serving, writer, conn, hello, closed, queues, work>>

StopWriting(c) ==
    /\ reader[c] = "stop"
    /\ shut' = [shut EXCEPT ![c] = TRUE]
    /\ reader' = [reader EXCEPT ![c] = "wait"]
    /\ UNCHANGED <<closing, serving, writer, conn, hello, closed, queues, work>>

WriterStopped(c) ==
    /\ reader[c] = "wait" /\ writer[c] = "done"
    /\ reader' = [reader EXCEPT ![c] = "close"]
    /\ UNCHANGED <<closing, serving, writer, flags, queues, work>>

\* The five seconds are over before a slow writer is.
WaitTimesOut(c) ==
    /\ reader[c] = "wait" /\ writer[c] # "done" /\ Fault
    /\ reader' = [reader EXCEPT ![c] = "close"]
    /\ debt' = [debt EXCEPT ![c] = "debtd"]
    /\ UNCHANGED <<ctxDone, srvClosed, closer, serving, writer, flags, out, wire, work>>

\* Mutant: the deferred remove is missing.
EndServeKeepsClient(c) ==
    /\ reader[c] = "close"
    /\ closed' = [closed EXCEPT ![c] = TRUE]
    /\ shut' = [shut EXCEPT ![c] = TRUE]
    /\ conn' = [conn EXCEPT ![c] = "closed"]
    /\ reader' = [reader EXCEPT ![c] = "end"]
    /\ UNCHANGED <<closing, serving, writer, hello, queues, work>>

\* close, then the deferred remove.
EndServe(c) ==
    /\ reader[c] = "close"
    /\ closed' = [closed EXCEPT ![c] = TRUE]
    /\ shut' = [shut EXCEPT ![c] = TRUE]
    /\ conn' = [conn EXCEPT ![c] = "closed"]
    /\ tracked' = tracked \ {c}
    /\ reader' = [reader EXCEPT ![c] = "end"]
    /\ UNCHANGED <<closing, lnOpen, acceptor, writer, hello, queues, work>>

-----------------------------------------------------------------------------
(* serve: the writer                                                       *)

Writing(c) == writer[c] \in {"loop", "drain"}

WriteLine(c) ==
    /\ Writing(c) /\ out[c] # << >> /\ conn[c] = "open"
    /\ wire' = [wire EXCEPT ![c] = Append(@, Head(out[c]))]
    /\ out' = [out EXCEPT ![c] = Tail(@)]
    /\ UNCHANGED <<closing, serving, goroutines, flags, debt, work>>

\* The write fails: the connection is closed, or the frontend has not read
\* for five seconds.
WriteFails(c) ==
    /\ Writing(c) /\ out[c] # << >>
    /\ IF conn[c] = "closed" THEN UNCHANGED faults ELSE Fault
    /\ out' = [out EXCEPT ![c] = Tail(@)]
    /\ writer' = [writer EXCEPT ![c] = "done"]
    /\ debt' = [debt EXCEPT ![c] = "debtd"]
    /\ UNCHANGED <<ctxDone, srvClosed, closer, serving, reader, flags, wire, work>>

\* The three-way select takes shutdown, even with lines queued; the lines are
\* then drained.
WriterShutdown(c) ==
    /\ writer[c] = "loop" /\ shut[c]
    /\ writer' = [writer EXCEPT ![c] = "drain"]
    /\ UNCHANGED <<closing, serving, reader, flags, queues, work>>

\* Mutant: break leaves the select and not the drain loop.
WriterNeverLeavesDrain(c) ==
    /\ writer[c] = "loop" /\ ctxDone
    /\ writer' = [writer EXCEPT ![c] = "done"]
    /\ UNCHANGED <<closing, serving, reader, flags, queues, work>>

\* The writer returns: drained, or the context ended.
WriterExits(c) ==
    /\ \/ writer[c] = "drain" /\ out[c] = << >>
       \/ writer[c] = "loop" /\ ctxDone
    /\ writer' = [writer EXCEPT ![c] = "done"]
    /\ UNCHANGED <<closing, serving, reader, flags, queues, work>>

-----------------------------------------------------------------------------

Reading(c) ==
    \/ ReadHello(c) \/ ReadFatal(c) \/ ReadCommand(c) \/ ReadMarkRead(c)
    \/ ReadOversizeHistory(c) \/ ScanEnds(c)

Closing(c) == StopWriting(c) \/ WriterStopped(c) \/ WaitTimesOut(c) \/ EndServe(c)

WritingOut(c) ==
    WriteLine(c) \/ WriteFails(c) \/ WriterShutdown(c) \/ WriterExits(c)

Next ==
    \/ Cancel \/ CloseServer \/ CloseListener \/ CloseClientConn \/ CloseDone
    \/ AddClient \/ SpawnServe \/ ServeReturns \/ SessionBroadcast
    \/ \E p \in Procs : Delivering(p)
    \/ \E c \in Clients :
        \/ Accept(c) \/ CloseClientFlag(c)
        \/ Reading(c) \/ Closing(c)
        \/ WritingOut(c)

Spec == Init /\ [][Next]_vars

\* The scheduler runs a goroutine that is delivering, and one of a connection
\* on its way down: there a write succeeds or fails within its five-second
\* deadline.  Nothing makes a frontend read, so while it is connected its
\* writer is not fair.
FairSpec ==
    /\ Spec
    /\ \A p \in Procs : WF_vars(Delivering(p))
    /\ \A c \in Clients : WF_vars(Closing(c)) /\ WF_vars(shut[c] /\ WritingOut(c))

-----------------------------------------------------------------------------

\* What a frontend has been or will be sent, unless the connection breaks.
Stream(c) == wire[c] \o out[c]

\* "The daemon sends no event before hello" (docs/design/03-ipc-protocol.md:31):
\* whatever is in flight while a frontend connects, no broadcast reaches a
\* connection that has not greeted (server.go:206-210).
NoBroadcastBeforeHello ==
    \A c \in Clients : ~hello[c] =>
        \A i \in DOMAIN Stream(c) : Stream(c)[i].kind = "fatal"

\* However two broadcasters, a reply and drop-oldest interleave, a frontend gets
\* the events of one goroutine in the order they were sent, none twice: the
\* message comes before the room state it led to, a room before the ack
\* (server.go:194-211, 256-280).
SenderOrder ==
    \A c \in Clients : \A i, j \in DOMAIN Stream(c) :
        (i < j /\ Stream(c)[i].from = Stream(c)[j].from) => Stream(c)[i].n < Stream(c)[j].n

\* "A protocol error still owes the client its error event, so the queue is
\* drained before the connection goes away" (server.go:294-296, 358-365): the
\* reader never closes the connection under a writer that could still deliver.
ProtocolErrorDelivered ==
    \A c \in Clients :
        (reader[c] = "end" /\ debt[c] = "owed" /\ ~ctxDone /\ ~srvClosed)
            => \E i \in DOMAIN wire[c] : wire[c][i].kind = "fatal"

\* A connection that has ended is not a broadcast target any more, whichever of
\* Serve, serve and Close came last (server.go:139-141, 301-305).
EndedClientForgotten ==
    \A c \in Clients : reader[c] = "end" => c \notin tracked

\* A frontend that reads nothing never holds up a broadcast or a reply
\* (server.go:31-33, 254-255).
SlowClientNeverBlocks ==
    \A p \in Procs : jobs[p] # << >> ~> jobs[p] = << >>

\* A connection that begins to end does end, both its goroutines gone, even if
\* the frontend never reads another byte (server.go:311-313, 358-365).
ServeGoroutinesEnd ==
    \A c \in Clients : reader[c] = "stop" ~> (reader[c] = "end" /\ writer[c] = "done")

=============================================================================
