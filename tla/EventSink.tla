------------------------------ MODULE EventSink ------------------------------
(***************************************************************************)
(* The channel a transport delivers events on, and what makes closing it   *)
(* safe (internal/transport/sink.go).  Senders are the goroutines that     *)
(* call send: the mock's script, the IPC handlers whose reply the mock     *)
(* echoes, the Matrix sync loop and its crypto layer.  Closers are the     *)
(* goroutines that call close: the transport's own loop and Close from     *)
(* main.  The receiver is Session.Run.                                     *)
(*                                                                         *)
(* Sending on a closed channel and closing a channel twice panic in Go;    *)
(* both are states here ("panicked"), not absent steps.  The lock is Go's  *)
(* RWMutex: a writer that has announced itself keeps new readers out.      *)
(***************************************************************************)
EXTENDS Naturals, Sequences, FiniteSets

CONSTANTS
    Senders,
    Closers,
    Buffer,     \* capacity of ch; 16 in both transports
    MaxSends    \* bound on the calls of send by one goroutine

ASSUME EventSinkAssumption ==
    /\ Buffer \in Nat
    /\ MaxSends \in Nat

VARIABLES
    ch,         \* buffered events
    chClosed,   \* close(ch) has run
    stopped,    \* close(stopped) has run
    ctxDone,    \* the daemon's context has ended
    readers,    \* senders holding mu for reading
    wlock,      \* mu's writer: "free", "pending" or "held"
    once,       \* sync.Once of close: "new", "running" or "done"
    spc,        \* where each sender is in send
    calls,      \* calls[s]: calls of send s has made
    cpc,        \* where each closer is in close
    receiving,  \* Session.Run is still in its loop
    reported,   \* history: events send reported as delivered
    received    \* history: events Session.Run took, in order

vars == <<ch, chClosed, stopped, ctxDone, readers, wlock, once, spc, calls,
          cpc, receiving, reported, received>>

Event == Senders \X (0..MaxSends)

TypeOK ==
    /\ ch \in Seq(Event) /\ Len(ch) <= Buffer
    /\ chClosed \in BOOLEAN /\ stopped \in BOOLEAN /\ ctxDone \in BOOLEAN
    /\ readers \in SUBSET Senders
    /\ wlock \in {"free", "pending", "held"}
    /\ once \in {"new", "running", "done"}
    /\ spc \in [Senders -> {"idle", "rlock", "check", "select", "release", "panicked"}]
    /\ calls \in [Senders -> 0..MaxSends]
    /\ cpc \in [Closers -> {"idle", "announce", "lock", "close", "unlock",
                            "waitonce", "done", "panicked"}]
    /\ receiving \in BOOLEAN
    /\ reported \in SUBSET Event
    /\ received \in Seq(Event)

Init ==
    /\ ch = << >> /\ chClosed = FALSE /\ stopped = FALSE /\ ctxDone = FALSE
    /\ readers = {} /\ wlock = "free" /\ once = "new"
    /\ spc = [s \in Senders |-> "idle"]
    /\ calls = [s \in Senders |-> 0]
    /\ cpc = [c \in Closers |-> "idle"]
    /\ receiving = TRUE
    /\ reported = {} /\ received = << >>

shared == <<chClosed, stopped, ctxDone, wlock, once, cpc, receiving, received>>

-----------------------------------------------------------------------------
(* send                                                                    *)

Go(s, from, to) == spc[s] = from /\ spc' = [spc EXCEPT ![s] = to]

CallSend(s) ==
    /\ calls[s] < MaxSends
    /\ Go(s, "idle", "rlock")
    /\ calls' = [calls EXCEPT ![s] = @ + 1]
    /\ UNCHANGED <<ch, readers, reported, shared>>

\* Mutant: send does not take the lock.
SendWithoutLock(s) ==
    /\ Go(s, "rlock", "check")
    /\ UNCHANGED <<ch, readers, calls, reported, shared>>

\* mu.RLock: neither a writer in the lock nor one waiting for it.
AcquireRead(s) ==
    /\ Go(s, "rlock", "check")
    /\ wlock = "free"
    /\ readers' = readers \union {s}
    /\ UNCHANGED <<ch, calls, reported, shared>>

\* The first select: give up at once when the sink is stopped.
CheckStopped(s) ==
    /\ Go(s, "check", IF stopped THEN "release" ELSE "select")
    /\ UNCHANGED <<ch, readers, calls, reported, shared>>

\* The second select, case ch <- ev: ready when there is room, and on a closed
\* channel, where it panics.
Deliver(s) ==
    /\ chClosed \/ Len(ch) < Buffer
    /\ Go(s, "select", IF chClosed THEN "panicked" ELSE "release")
    /\ IF chClosed
       THEN UNCHANGED <<ch, reported>>
       ELSE /\ ch' = Append(ch, <<s, calls[s]>>)
            /\ reported' = reported \union {<<s, calls[s]>>}
    /\ UNCHANGED <<readers, calls, shared>>

\* Mutant: the second select only watches the context.
GiveUpOnContext(s) ==
    /\ Go(s, "select", "release")
    /\ ctxDone
    /\ UNCHANGED <<ch, readers, calls, reported, shared>>

\* Mutant: the second select only watches stopped.
GiveUpOnStop(s) ==
    /\ Go(s, "select", "release")
    /\ stopped
    /\ UNCHANGED <<ch, readers, calls, reported, shared>>

\* The second select, cases stopped and ctx.Done.
GiveUp(s) ==
    /\ Go(s, "select", "release")
    /\ stopped \/ ctxDone
    /\ UNCHANGED <<ch, readers, calls, reported, shared>>

ReleaseRead(s) ==
    /\ Go(s, "release", "idle")
    /\ readers' = readers \ {s}
    /\ UNCHANGED <<ch, calls, reported, shared>>

InSend(s) ==
    \/ AcquireRead(s) \/ CheckStopped(s) \/ Deliver(s)
    \/ GiveUp(s) \/ ReleaseRead(s)

-----------------------------------------------------------------------------
(* close                                                                   *)

sendSide == <<ch, readers, spc, calls, reported, ctxDone, receiving, received>>

Step(c, from, to) == cpc[c] = from /\ cpc' = [cpc EXCEPT ![c] = to]

\* once.Do: the first caller closes stopped and goes on, a caller that comes
\* while it runs waits for it, a later one returns.
CallClose(c) ==
    /\ \/ /\ once = "new"
          /\ Step(c, "idle", "announce")
          /\ once' = "running"
          /\ stopped' = TRUE
       \/ /\ once = "running"
          /\ Step(c, "idle", "waitonce")
          /\ UNCHANGED <<once, stopped>>
       \/ /\ once = "done"
          /\ Step(c, "idle", "done")
          /\ UNCHANGED <<once, stopped>>
    /\ UNCHANGED <<sendSide, chClosed, wlock>>

\* mu.Lock announces the writer, then waits for the readers to leave.
AnnounceLock(c) ==
    /\ Step(c, "announce", "lock")
    /\ wlock' = "pending"
    /\ UNCHANGED <<sendSide, chClosed, stopped, once>>

AcquireLock(c) ==
    /\ Step(c, "lock", "close")
    /\ readers = {}
    /\ wlock' = "held"
    /\ UNCHANGED <<sendSide, chClosed, stopped, once>>

CloseChannel(c) ==
    /\ Step(c, "close", IF chClosed THEN "panicked" ELSE "unlock")
    /\ chClosed' = TRUE
    /\ UNCHANGED <<sendSide, stopped, wlock, once>>

ReleaseLock(c) ==
    /\ Step(c, "unlock", "done")
    /\ wlock' = "free"
    /\ once' = "done"
    /\ UNCHANGED <<sendSide, chClosed, stopped>>

WaitOnce(c) ==
    /\ Step(c, "waitonce", "done")
    /\ once = "done"
    /\ UNCHANGED <<sendSide, chClosed, stopped, wlock, once>>

InClose(c) ==
    \/ AnnounceLock(c) \/ AcquireLock(c) \/ CloseChannel(c)
    \/ ReleaseLock(c) \/ WaitOnce(c)

-----------------------------------------------------------------------------
(* The receiver and the context                                            *)

inside == <<chClosed, stopped, readers, wlock, once, spc, calls, cpc, reported>>

\* Mutant: the receiver reads from the wrong end.
ReceiveNewest ==
    /\ receiving
    /\ ch # << >>
    /\ received' = Append(received, ch[Len(ch)])
    /\ ch' = SubSeq(ch, 1, Len(ch) - 1)
    /\ UNCHANGED <<inside, ctxDone, receiving>>

Receive ==
    /\ receiving
    /\ ch # << >>
    /\ received' = Append(received, Head(ch))
    /\ ch' = Tail(ch)
    /\ UNCHANGED <<inside, ctxDone, receiving>>

\* Session.Run leaves its loop on a closed channel or an ended context.
StopReceiving ==
    /\ receiving
    /\ ctxDone \/ (chClosed /\ ch = << >>)
    /\ receiving' = FALSE
    /\ UNCHANGED <<inside, ctxDone, ch, received>>

Cancel ==
    /\ ~ctxDone
    /\ ctxDone' = TRUE
    /\ UNCHANGED <<inside, ch, receiving, received>>

Next ==
    \/ \E s \in Senders : CallSend(s) \/ InSend(s)
    \/ \E c \in Closers : CallClose(c) \/ InClose(c)
    \/ Receive \/ StopReceiving \/ Cancel

Spec == Init /\ [][Next]_vars

\* A goroutine that can take its next step inside send or close takes it.
\* Nothing forces anyone to call either, the context to end or, above all,
\* the receiver to read: Session.Run may be busy or gone.
FairSpec ==
    /\ Spec
    /\ \A s \in Senders : WF_vars(InSend(s))
    /\ \A c \in Closers : WF_vars(InClose(c))

-----------------------------------------------------------------------------

\* No interleaving of late senders and closers sends on a closed channel or
\* closes it twice (sink.go:11-15: "Closing an event channel while another
\* goroutine is still sending on it panics").
NoPanic ==
    /\ \A s \in Senders : spc[s] # "panicked"
    /\ \A c \in Closers : cpc[c] # "panicked"

\* The strengthening that makes NoPanic inductive: who is past which point of
\* the lock and of the Once.
InLock == {c \in Closers : cpc[c] \in {"announce", "lock", "close", "unlock"}}

LockInv ==
    /\ \A s \in Senders : spc[s] \in {"check", "select", "release"} => s \in readers
    /\ \A c \in InLock : once = "running"
    /\ \A c, d \in InLock : c = d
    /\ chClosed => stopped
    /\ once = "new" <=> ~stopped
    /\ \A c \in InLock : cpc[c] \in {"close", "unlock"} => readers = {} /\ wlock = "held"
    /\ \A c \in InLock : cpc[c] = "lock" => wlock = "pending"
    /\ \A c \in InLock : cpc[c] # "unlock" => ~chClosed
    /\ \A s \in Senders : chClosed => spc[s] # "select"

\* Events reach Session.Run in the order each goroutine sent them, each at most
\* once, and what send reported as delivered is what was received or waits in
\* the buffer (sink.go:34-50).
FifoPerSender ==
    LET all == received \o ch IN
    /\ \A i, j \in DOMAIN all : i < j /\ all[i][1] = all[j][1] => all[i][2] < all[j][2]
    /\ {all[i] : i \in DOMAIN all} = reported

\* close returns although the channel is full and nobody reads it any more
\* ("taking the write lock cannot deadlock against it", sink.go:52-53).
CloseReturns == \A c \in Closers : cpc[c] # "idle" ~> cpc[c] = "done"

\* Once the sink is stopped or the context has ended no send stays blocked.
SendReturns ==
    \A s \in Senders :
        (spc[s] # "idle" /\ (stopped \/ ctxDone)) ~> spc[s] = "idle"

=============================================================================
