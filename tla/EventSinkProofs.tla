--------------------------- MODULE EventSinkProofs ---------------------------
(***************************************************************************)
(* No panic and no reordering, for any number of senders, closers and      *)
(* sends and any buffer.  NoPanic is not inductive: that a sender in the   *)
(* second select finds the channel open follows from its holding the read  *)
(* lock while a closer past the lock has seen no reader (LockInv).         *)
(***************************************************************************)
EXTENDS EventSink, SequenceTheorems, TLAPS

\* Every variable keeps its type and the channel its capacity.
THEOREM EventSinkTypeOK == Spec => []TypeOK
<1>1. Init => TypeOK
  <2>1. << >> \in Seq(Event) /\ Len(<< >>) <= Buffer
    BY EventSinkAssumption
  <2>2. 0 \in 0..MaxSends
    BY EventSinkAssumption
  <2>. QED
    BY <2>1, <2>2 DEF Init, TypeOK
<1>2. TypeOK /\ [Next]_vars => TypeOK'
  <2>. SUFFICES ASSUME TypeOK, [Next]_vars
                PROVE  TypeOK'
    OBVIOUS
  <2>. USE EventSinkAssumption DEF TypeOK, shared, sendSide, inside, Go, Step
  <2>1. ASSUME NEW s \in Senders, CallSend(s) PROVE TypeOK'
    BY <2>1 DEF CallSend
  <2>2. ASSUME NEW s \in Senders, AcquireRead(s) PROVE TypeOK'
    BY <2>2 DEF AcquireRead
  <2>3. ASSUME NEW s \in Senders, CheckStopped(s) PROVE TypeOK'
    BY <2>3 DEF CheckStopped
  <2>4. ASSUME NEW s \in Senders, Deliver(s) PROVE TypeOK'
    <3>1. CASE chClosed
      BY <2>4, <3>1 DEF Deliver
    <3>2. CASE ~chClosed
      <4>1. <<s, calls[s]>> \in Event
        BY DEF Event
      <4>2. /\ ch' = Append(ch, <<s, calls[s]>>)
            /\ Len(ch) < Buffer
            /\ reported' = reported \union {<<s, calls[s]>>}
        BY <2>4, <3>2 DEF Deliver
      <4>3. ch' \in Seq(Event) /\ Len(ch') = Len(ch) + 1
        BY <4>1, <4>2
      <4>4. Len(ch') <= Buffer
        BY <4>2, <4>3
      <4>5. reported' \in SUBSET Event
        BY <4>1, <4>2
      <4>. QED
        BY <2>4, <3>2, <4>3, <4>4, <4>5 DEF Deliver
    <3>. QED
      BY <3>1, <3>2
  <2>5. ASSUME NEW s \in Senders, GiveUp(s) PROVE TypeOK'
    BY <2>5 DEF GiveUp
  <2>6. ASSUME NEW s \in Senders, ReleaseRead(s) PROVE TypeOK'
    BY <2>6 DEF ReleaseRead
  <2>7. ASSUME NEW c \in Closers, CallClose(c) PROVE TypeOK'
    BY <2>7 DEF CallClose
  <2>8. ASSUME NEW c \in Closers, AnnounceLock(c) PROVE TypeOK'
    BY <2>8 DEF AnnounceLock
  <2>9. ASSUME NEW c \in Closers, AcquireLock(c) PROVE TypeOK'
    BY <2>9 DEF AcquireLock
  <2>10. ASSUME NEW c \in Closers, CloseChannel(c) PROVE TypeOK'
    BY <2>10 DEF CloseChannel
  <2>11. ASSUME NEW c \in Closers, ReleaseLock(c) PROVE TypeOK'
    BY <2>11 DEF ReleaseLock
  <2>12. ASSUME NEW c \in Closers, WaitOnce(c) PROVE TypeOK'
    BY <2>12 DEF WaitOnce
  <2>13. CASE Receive
    <3>1. Head(ch) \in Event /\ Tail(ch) \in Seq(Event) /\ Len(Tail(ch)) <= Buffer
      BY <2>13 DEF Receive
    <3>2. received' \in Seq(Event)
      BY <2>13, <3>1 DEF Receive
    <3>. QED
      BY <2>13, <3>1, <3>2 DEF Receive
  <2>14. CASE StopReceiving
    BY <2>14 DEF StopReceiving
  <2>15. CASE Cancel
    BY <2>15 DEF Cancel
  <2>16. CASE UNCHANGED vars
    BY <2>16 DEF vars
  <2>. QED
    BY <2>1, <2>2, <2>3, <2>4, <2>5, <2>6, <2>7, <2>8, <2>9, <2>10, <2>11, <2>12,
       <2>13, <2>14, <2>15, <2>16 DEF Next, InSend, InClose
<1>. QED
  BY <1>1, <1>2, PTL DEF Spec

-----------------------------------------------------------------------------

\* A sender that keeps or does not need its read lock disturbs nothing, if it
\* only enters the second select of an open channel.
LEMMA SenderMoves ==
    ASSUME TypeOK, LockInv, NoPanic, NEW s \in Senders,
           \/ spc[s] = "idle" /\ spc' = [spc EXCEPT ![s] = "rlock"]
           \/ spc[s] \in {"check", "select"} /\ spc' = [spc EXCEPT ![s] = "release"]
           \/ spc[s] = "check" /\ spc' = [spc EXCEPT ![s] = "select"] /\ ~stopped,
           UNCHANGED <<readers, shared>>
    PROVE  (LockInv /\ NoPanic)'
<1>1. \A t \in Senders : spc'[t] \in {"check", "select", "release"} => t \in readers
  BY DEF TypeOK, LockInv
<1>2. \A t \in Senders : spc'[t] # "panicked" /\ (chClosed => spc'[t] # "select")
  BY DEF TypeOK, LockInv, NoPanic
<1>3. InLock' = InLock
  BY DEF InLock, shared
<1>. QED
  BY <1>1, <1>2, <1>3 DEF LockInv, NoPanic, shared

\* A closer that is not in the lock and does not enter it disturbs nothing.
LEMMA CloserElsewhere ==
    ASSUME TypeOK, LockInv, NoPanic, NEW c \in Closers,
           cpc[c] \in {"idle", "waitonce"},
           \/ cpc' = [cpc EXCEPT ![c] = "waitonce"]
           \/ cpc' = [cpc EXCEPT ![c] = "done"],
           UNCHANGED <<readers, spc, chClosed, wlock, once, stopped>>
    PROVE  (LockInv /\ NoPanic)'
<1>1. InLock' = InLock /\ \A d \in InLock : cpc'[d] = cpc[d]
  BY DEF InLock, TypeOK
<1>2. \A d \in Closers : cpc'[d] # "panicked"
  BY DEF TypeOK, NoPanic
<1>. QED
  BY <1>1, <1>2 DEF LockInv, NoPanic

\* The one closer in the lock goes on to wait for it, or to hold it once the
\* readers have left.
LEMMA CloserMoves ==
    ASSUME TypeOK, LockInv, NoPanic, NEW c \in Closers,
           cpc[c] \in {"announce", "lock"},
           \/ cpc' = [cpc EXCEPT ![c] = "lock"] /\ wlock' = "pending"
           \/ cpc' = [cpc EXCEPT ![c] = "close"] /\ wlock' = "held" /\ readers = {},
           UNCHANGED <<readers, spc, chClosed, once, stopped>>
    PROVE  (LockInv /\ NoPanic)'
<1>1. c \in InLock /\ ~chClosed /\ \A d \in InLock : d = c
  BY DEF LockInv, InLock
<1>2. InLock' = InLock
  BY <1>1 DEF InLock, TypeOK
<1>3. \A d \in Closers : cpc'[d] # "panicked"
  BY DEF TypeOK, NoPanic
<1>4. \/ cpc'[c] = "lock" /\ wlock' = "pending"
      \/ cpc'[c] = "close" /\ wlock' = "held" /\ readers' = {}
  BY DEF TypeOK
<1>. QED
  BY <1>1, <1>2, <1>3, <1>4 DEF LockInv, NoPanic

\* Nothing is ever sent on a closed channel, and the channel is closed at most
\* once, however many goroutines are late to the party.
THEOREM EventSinkNoPanic == Spec => []NoPanic
<1>. DEFINE IInv == LockInv /\ NoPanic
<1>1. Init => IInv
  BY DEF Init, LockInv, InLock, NoPanic
<1>2. TypeOK /\ IInv /\ [Next]_vars => IInv'
  <2>. SUFFICES ASSUME TypeOK, IInv, [Next]_vars
                PROVE  IInv'
    OBVIOUS
  <2>1. ASSUME NEW s \in Senders, CallSend(s) PROVE IInv'
    <3>1. spc[s] = "idle" /\ spc' = [spc EXCEPT ![s] = "rlock"] /\ UNCHANGED <<readers, shared>>
      BY <2>1 DEF CallSend, Go
    <3>. QED
      BY <3>1, SenderMoves
  <2>2. ASSUME NEW s \in Senders, AcquireRead(s) PROVE IInv'
    <3>1. /\ spc' = [spc EXCEPT ![s] = "check"]
          /\ wlock = "free" /\ readers' = readers \union {s} /\ UNCHANGED shared
      BY <2>2 DEF AcquireRead, Go
    <3>2. \A c \in InLock : cpc[c] = "announce"
      BY <3>1 DEF LockInv, InLock
    <3>3. /\ \A t \in Senders : spc'[t] \in {"check", "select", "release"} => t \in readers'
          /\ \A t \in Senders : spc'[t] # "panicked" /\ (chClosed => spc'[t] # "select")
      BY <3>1 DEF TypeOK, LockInv, NoPanic
    <3>4. InLock' = InLock
      BY <3>1 DEF InLock, shared
    <3>. QED
      BY <3>1, <3>2, <3>3, <3>4 DEF LockInv, NoPanic, shared
  <2>3. ASSUME NEW s \in Senders, CheckStopped(s) PROVE IInv'
    <3>1. /\ spc[s] = "check" /\ UNCHANGED <<readers, shared>>
          /\ \/ spc' = [spc EXCEPT ![s] = "release"]
             \/ spc' = [spc EXCEPT ![s] = "select"] /\ ~stopped
      BY <2>3 DEF CheckStopped, Go
    <3>. QED
      BY <3>1, SenderMoves
  <2>4. ASSUME NEW s \in Senders, Deliver(s) PROVE IInv'
    <3>1. spc[s] = "select" /\ UNCHANGED <<readers, shared>>
      BY <2>4 DEF Deliver, Go
    <3>2. ~chClosed
      BY <3>1 DEF LockInv
    <3>3. spc' = [spc EXCEPT ![s] = "release"]
      BY <2>4, <3>2 DEF Deliver, Go
    <3>. QED
      BY <3>1, <3>3, SenderMoves
  <2>5. ASSUME NEW s \in Senders, GiveUp(s) PROVE IInv'
    <3>1. spc[s] = "select" /\ spc' = [spc EXCEPT ![s] = "release"] /\ UNCHANGED <<readers, shared>>
      BY <2>5 DEF GiveUp, Go
    <3>. QED
      BY <3>1, SenderMoves
  <2>6. ASSUME NEW s \in Senders, ReleaseRead(s) PROVE IInv'
    <3>1. /\ spc' = [spc EXCEPT ![s] = "idle"]
          /\ readers' = readers \ {s} /\ UNCHANGED shared
      BY <2>6 DEF ReleaseRead, Go
    <3>2. /\ \A t \in Senders : spc'[t] \in {"check", "select", "release"} => t \in readers'
          /\ \A t \in Senders : spc'[t] # "panicked" /\ (chClosed => spc'[t] # "select")
      BY <3>1 DEF TypeOK, LockInv, NoPanic
    <3>3. InLock' = InLock /\ (readers = {} => readers' = {})
      BY <3>1 DEF InLock, shared
    <3>. QED
      BY <3>1, <3>2, <3>3 DEF LockInv, NoPanic, shared
  <2>7. ASSUME NEW c \in Closers, CallClose(c) PROVE IInv'
    <3>1. UNCHANGED <<readers, spc, chClosed, wlock>> /\ cpc[c] = "idle"
      BY <2>7 DEF CallClose, sendSide, Step
    <3>2. CASE once = "new"
      <4>1. /\ cpc' = [cpc EXCEPT ![c] = "announce"]
            /\ once' = "running" /\ stopped' = TRUE
        BY <2>7, <3>2 DEF CallClose, Step
      <4>2. InLock = {} /\ ~chClosed
        BY <3>2 DEF LockInv, InLock
      <4>3. InLock' = {c} /\ cpc'[c] = "announce"
        BY <4>1, <4>2 DEF InLock, TypeOK
      <4>4. \A d \in Closers : cpc'[d] # "panicked"
        BY <4>1 DEF TypeOK, NoPanic
      <4>. QED
        BY <3>1, <4>1, <4>2, <4>3, <4>4 DEF LockInv, NoPanic
    <3>3. CASE once # "new"
      <4>1. /\ cpc' = [cpc EXCEPT ![c] = "waitonce"] \/ cpc' = [cpc EXCEPT ![c] = "done"]
            /\ UNCHANGED <<once, stopped>>
        BY <2>7, <3>3 DEF CallClose, Step
      <4>. QED
        BY <3>1, <4>1, CloserElsewhere
    <3>. QED
      BY <3>2, <3>3
  <2>8. ASSUME NEW c \in Closers, AnnounceLock(c) PROVE IInv'
    <3>1. /\ UNCHANGED <<readers, spc, chClosed, stopped, once>>
          /\ cpc[c] = "announce" /\ cpc' = [cpc EXCEPT ![c] = "lock"]
          /\ wlock' = "pending"
      BY <2>8 DEF AnnounceLock, sendSide, Step
    <3>. QED
      BY <3>1, CloserMoves
  <2>9. ASSUME NEW c \in Closers, AcquireLock(c) PROVE IInv'
    <3>1. /\ UNCHANGED <<readers, spc, chClosed, stopped, once>>
          /\ cpc[c] = "lock" /\ cpc' = [cpc EXCEPT ![c] = "close"]
          /\ readers = {} /\ wlock' = "held"
      BY <2>9 DEF AcquireLock, sendSide, Step
    <3>. QED
      BY <3>1, CloserMoves
  <2>10. ASSUME NEW c \in Closers, CloseChannel(c) PROVE IInv'
    <3>1. /\ UNCHANGED <<readers, spc, stopped, once, wlock>>
          /\ cpc[c] = "close" /\ chClosed' = TRUE
          /\ cpc' = [cpc EXCEPT ![c] = IF chClosed THEN "panicked" ELSE "unlock"]
      BY <2>10 DEF CloseChannel, sendSide, Step
    <3>2. c \in InLock /\ ~chClosed /\ readers = {} /\ wlock = "held" /\ stopped
      BY <3>1 DEF LockInv, InLock
    <3>3. cpc' = [cpc EXCEPT ![c] = "unlock"]
      BY <3>1, <3>2
    <3>4. InLock' = InLock /\ \A d \in InLock : d = c
      BY <3>2, <3>3 DEF LockInv, InLock, TypeOK
    <3>5. cpc'[c] = "unlock" /\ \A d \in Closers : cpc'[d] # "panicked"
      BY <3>3 DEF TypeOK, NoPanic
    <3>6. \A s \in Senders : spc[s] # "select"
      BY <3>2 DEF LockInv
    <3>. QED
      BY <3>1, <3>2, <3>4, <3>5, <3>6 DEF LockInv, NoPanic
  <2>11. ASSUME NEW c \in Closers, ReleaseLock(c) PROVE IInv'
    <3>1. /\ UNCHANGED <<readers, spc, chClosed, stopped>>
          /\ cpc[c] = "unlock" /\ cpc' = [cpc EXCEPT ![c] = "done"]
          /\ once' = "done"
      BY <2>11 DEF ReleaseLock, sendSide, Step
    <3>2. c \in InLock /\ once # "new" /\ \A d \in InLock : d = c
      BY <3>1 DEF LockInv, InLock
    <3>3. InLock' = {}
      BY <3>1, <3>2 DEF InLock, TypeOK
    <3>4. \A d \in Closers : cpc'[d] # "panicked"
      BY <3>1 DEF TypeOK, NoPanic
    <3>. QED
      BY <3>1, <3>2, <3>3, <3>4 DEF LockInv, NoPanic
  <2>12. ASSUME NEW c \in Closers, WaitOnce(c) PROVE IInv'
    <3>1. /\ UNCHANGED <<readers, spc, chClosed, wlock, once, stopped>>
          /\ cpc[c] = "waitonce" /\ cpc' = [cpc EXCEPT ![c] = "done"]
      BY <2>12 DEF WaitOnce, sendSide, Step
    <3>. QED
      BY <3>1, CloserElsewhere
  <2>13. ASSUME UNCHANGED inside PROVE IInv'
    BY <2>13 DEF inside, LockInv, InLock, NoPanic
  <2>14. Receive \/ StopReceiving \/ Cancel \/ UNCHANGED vars => UNCHANGED inside
    BY DEF Receive, StopReceiving, Cancel, vars, inside
  <2>. QED
    BY <2>1, <2>2, <2>3, <2>4, <2>5, <2>6, <2>7, <2>8, <2>9, <2>10, <2>11, <2>12,
       <2>13, <2>14 DEF Next, InSend, InClose
<1>. QED
  BY <1>1, <1>2, EventSinkTypeOK, PTL DEF Spec

-----------------------------------------------------------------------------

\* Everything that was ever put on the channel, in order.
Sent == received \o ch

\* What makes FifoPerSender inductive: an event still to be sent has a number
\* above all those its sender has sent.
SentInv ==
    /\ \A i \in DOMAIN Sent :
          /\ Sent[i][2] <= calls[Sent[i][1]]
          /\ spc[Sent[i][1]] \in {"rlock", "check", "select"}
                => Sent[i][2] < calls[Sent[i][1]]
    /\ \A i, j \in DOMAIN Sent :
          i < j /\ Sent[i][1] = Sent[j][1] => Sent[i][2] < Sent[j][2]
    /\ {Sent[i] : i \in DOMAIN Sent} = reported

\* Taking an event from the channel does not change what was sent.
LEMMA ReceiveKeepsSent == ASSUME TypeOK, Receive PROVE Sent' = Sent
<1>1. /\ ch \in Seq(Event) /\ received \in Seq(Event) /\ ch # << >>
      /\ received' = Append(received, Head(ch)) /\ ch' = Tail(ch)
  BY DEF TypeOK, Receive
<1>2. Head(ch) \in Event /\ Tail(ch) \in Seq(Event) /\ << >> \in Seq(Event)
      /\ <<Head(ch)>> \in Seq(Event)
  BY <1>1, HeadTailProperties
<1>3. ch = <<Head(ch)>> \o Tail(ch)
  BY <1>1, <1>2
<1>4. Append(received, Head(ch)) = received \o <<Head(ch)>>
  BY <1>1, <1>2, AppendIsConcat
<1>5. (received \o <<Head(ch)>>) \o Tail(ch) = received \o (<<Head(ch)>> \o Tail(ch))
  BY <1>1, <1>2, ConcatAssociative
<1>. QED
  BY <1>1, <1>3, <1>4, <1>5 DEF Sent

\* Putting an event on the channel appends it to what was sent.
LEMMA DeliverAppendsSent ==
    ASSUME TypeOK, NEW s \in Senders, Deliver(s), ~chClosed
    PROVE  Sent' = Append(Sent, <<s, calls[s]>>)
<1>. DEFINE ev == <<s, calls[s]>>
<1>1. /\ ch \in Seq(Event) /\ received \in Seq(Event) /\ ev \in Event
      /\ ch' = Append(ch, ev) /\ received' = received
  BY DEF TypeOK, Deliver, Event, shared
<1>. HIDE DEF ev
<1>2. ch' = ch \o <<ev>> /\ <<ev>> \in Seq(Event)
  BY <1>1, AppendIsConcat
<1>3. received \o (ch \o <<ev>>) = (received \o ch) \o <<ev>>
  BY <1>1, <1>2, ConcatAssociative
<1>4. received \o ch \in Seq(Event)
  BY <1>1, ConcatProperties
<1>5. Append(received \o ch, ev) = (received \o ch) \o <<ev>>
  BY <1>1, <1>4, AppendIsConcat
<1>. QED
  BY <1>1, <1>2, <1>3, <1>5 DEF Sent, ev

\* A step that sends nothing and starts no call keeps the bookkeeping.
LEMMA SentInvUnchanged ==
    ASSUME TypeOK, SentInv, Sent' = Sent, calls' = calls, reported' = reported,
           \A s \in Senders : spc'[s] \in {"rlock", "check", "select"}
                                => spc[s] \in {"rlock", "check", "select"}
    PROVE  SentInv'
<1>1. Sent \in Seq(Event)
  BY ConcatProperties DEF TypeOK, Sent
<1>2. \A i \in DOMAIN Sent : Sent[i][1] \in Senders
  BY <1>1 DEF Event
<1>. QED
  BY <1>2 DEF SentInv

\* Session.Run takes every goroutine's events in the order they were sent, each
\* at most once, and exactly those that send reported as delivered (or finds
\* them waiting in the buffer).
THEOREM EventSinkFifo == Spec => []FifoPerSender
<1>1. Init => SentInv
  BY DEF Init, SentInv, Sent
<1>2. TypeOK /\ SentInv /\ [Next]_vars => SentInv'
  <2>. SUFFICES ASSUME TypeOK, SentInv, [Next]_vars
                PROVE  SentInv'
    OBVIOUS
  <2>0. Sent \in Seq(Event)
    BY ConcatProperties DEF TypeOK, Sent
  <2>1. ASSUME NEW s \in Senders, CallSend(s) PROVE SentInv'
    <3>1. /\ Sent' = Sent /\ reported' = reported
          /\ calls' = [calls EXCEPT ![s] = @ + 1]
          /\ spc' = [spc EXCEPT ![s] = "rlock"]
      BY <2>1 DEF CallSend, Go, shared, Sent
    <3>2. \A q \in Senders : calls[q] \in Nat /\ calls'[q] \in Nat
                             /\ calls'[q] = IF q = s THEN calls[q] + 1 ELSE calls[q]
      BY <3>1, EventSinkAssumption DEF TypeOK
    <3>3. \A i \in DOMAIN Sent : Sent[i][1] \in Senders /\ Sent[i][2] \in Nat
      BY <2>0, EventSinkAssumption DEF Event
    <3>4. ASSUME NEW i \in DOMAIN Sent
          PROVE  /\ Sent[i][2] <= calls'[Sent[i][1]]
                 /\ spc'[Sent[i][1]] \in {"rlock", "check", "select"}
                      => Sent[i][2] < calls'[Sent[i][1]]
      <4>1. CASE Sent[i][1] = s
        BY <3>2, <3>3, <4>1 DEF SentInv
      <4>2. CASE Sent[i][1] # s
        BY <3>1, <3>2, <3>3, <4>2 DEF SentInv, TypeOK
      <4>. QED
        BY <4>1, <4>2
    <3>. QED
      BY <3>1, <3>4 DEF SentInv
  <2>2. ASSUME NEW s \in Senders, AcquireRead(s) PROVE SentInv'
    BY <2>2, SentInvUnchanged DEF AcquireRead, Go, shared, Sent, TypeOK
  <2>3. ASSUME NEW s \in Senders, CheckStopped(s) PROVE SentInv'
    BY <2>3, SentInvUnchanged DEF CheckStopped, Go, shared, Sent, TypeOK
  <2>4. ASSUME NEW s \in Senders, Deliver(s) PROVE SentInv'
    <3>1. CASE chClosed
      BY <2>4, <3>1, SentInvUnchanged DEF Deliver, Go, shared, Sent, TypeOK
    <3>2. CASE ~chClosed
      <4>. DEFINE ev == <<s, calls[s]>>
      <4>1. /\ Sent' = Append(Sent, ev) /\ ev \in Event
            /\ calls' = calls /\ reported' = reported \union {ev}
            /\ spc[s] = "select" /\ spc' = [spc EXCEPT ![s] = "release"]
        BY <2>4, <3>2, DeliverAppendsSent DEF Deliver, Go, TypeOK, Event
      <4>2. /\ DOMAIN Sent' = 1..(Len(Sent) + 1) /\ DOMAIN Sent = 1..Len(Sent)
            /\ Sent'[Len(Sent) + 1] = ev
            /\ \A i \in DOMAIN Sent : Sent'[i] = Sent[i]
        BY <2>0, <4>1, AppendProperties
      <4>3. \A i \in DOMAIN Sent : Sent[i][1] \in Senders /\ Sent[i][2] \in Nat
        BY <2>0, EventSinkAssumption DEF Event
      <4>4. ev[1] = s /\ ev[2] = calls[s] /\ calls[s] \in Nat
        BY EventSinkAssumption DEF TypeOK
      <4>. HIDE DEF ev
      <4>5. \A i \in DOMAIN Sent : Sent[i][1] = s => Sent[i][2] < calls[s]
        BY <4>1 DEF SentInv
      <4>6. ASSUME NEW i \in DOMAIN Sent'
            PROVE  /\ Sent'[i][2] <= calls'[Sent'[i][1]]
                   /\ spc'[Sent'[i][1]] \in {"rlock", "check", "select"}
                        => Sent'[i][2] < calls'[Sent'[i][1]]
        <5>1. CASE i = Len(Sent) + 1
          BY <4>1, <4>2, <4>4, <5>1 DEF TypeOK
        <5>2. CASE i # Len(Sent) + 1
          <6>1. i \in DOMAIN Sent /\ Sent'[i] = Sent[i]
            BY <2>0, <4>2, <5>2
          <6>. QED
            BY <4>1, <4>3, <6>1 DEF SentInv, TypeOK
        <5>. QED
          BY <5>1, <5>2
      <4>7. ASSUME NEW i \in DOMAIN Sent', NEW j \in DOMAIN Sent',
                   i < j, Sent'[i][1] = Sent'[j][1]
            PROVE  Sent'[i][2] < Sent'[j][2]
        <5>0. i \in DOMAIN Sent /\ Sent'[i] = Sent[i]
          BY <2>0, <4>2, <4>7
        <5>1. CASE j = Len(Sent) + 1
          BY <4>2, <4>4, <4>5, <4>7, <5>0, <5>1
        <5>2. CASE j # Len(Sent) + 1
          <6>1. j \in DOMAIN Sent /\ Sent'[j] = Sent[j]
            BY <2>0, <4>2, <5>2
          <6>. QED
            BY <4>7, <5>0, <6>1 DEF SentInv
        <5>. QED
          BY <5>1, <5>2
      <4>8. {Sent'[i] : i \in DOMAIN Sent'} = reported'
        <5>1. DOMAIN Sent' = DOMAIN Sent \union {Len(Sent) + 1}
          BY <2>0, <4>2
        <5>2. {Sent[i] : i \in DOMAIN Sent} = reported
          BY DEF SentInv
        <5>. QED
          BY <4>1, <4>2, <5>1, <5>2
      <4>. QED
        BY <4>6, <4>7, <4>8 DEF SentInv
    <3>. QED
      BY <3>1, <3>2
  <2>5. ASSUME NEW s \in Senders, GiveUp(s) PROVE SentInv'
    BY <2>5, SentInvUnchanged DEF GiveUp, Go, shared, Sent, TypeOK
  <2>6. ASSUME NEW s \in Senders, ReleaseRead(s) PROVE SentInv'
    BY <2>6, SentInvUnchanged DEF ReleaseRead, Go, shared, Sent, TypeOK
  <2>7. ASSUME NEW c \in Closers, CallClose(c) \/ InClose(c) PROVE SentInv'
    <3>1. UNCHANGED sendSide
      BY <2>7 DEF CallClose, InClose, AnnounceLock, AcquireLock, CloseChannel,
                  ReleaseLock, WaitOnce
    <3>. QED
      BY <3>1, SentInvUnchanged DEF sendSide, Sent
  <2>8. CASE Receive
    BY <2>8, ReceiveKeepsSent, SentInvUnchanged DEF Receive, inside
  <2>9. CASE StopReceiving \/ Cancel
    BY <2>9, SentInvUnchanged DEF StopReceiving, Cancel, inside, Sent
  <2>10. CASE UNCHANGED vars
    BY <2>10, SentInvUnchanged DEF vars, Sent
  <2>. QED
    BY <2>1, <2>2, <2>3, <2>4, <2>5, <2>6, <2>7, <2>8, <2>9, <2>10 DEF Next, InSend
<1>3. SentInv => FifoPerSender
  BY DEF SentInv, Sent, FifoPerSender
<1>. QED
  BY <1>1, <1>2, <1>3, EventSinkTypeOK, PTL DEF Spec

=============================================================================
