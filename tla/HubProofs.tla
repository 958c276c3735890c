------------------------------ MODULE HubProofs ------------------------------
(***************************************************************************)
(* The hub, for any number of frontends, broadcasts and commands and any   *)
(* queue.  None of the four properties is inductive.  HubInv is: what the  *)
(* goroutines of a connection may be doing (LifeInv, ClosedInv), which     *)
(* event a job carries and for whom (JobsInv), and what of it is queued,   *)
(* written or still owed (HelloInv, OrderInv, DebtInv).                    *)
(***************************************************************************)
EXTENDS Hub, SequenceTheorems, TLAPS

\* A connection is served once its acceptor has let go of it, and not a
\* broadcast target any more once it has ended.
LifeInv ==
    /\ \A c \in acceptor.c : reader[c] = "off" /\ conn[c] # "none"
    /\ \A c \in Clients : conn[c] = "none" => reader[c] = "off"
    /\ \A c \in Clients : jobs[c] # << >> => reader[c] = "busy"
    /\ EndedClientForgotten

\* A job is numbered by its sender, has one target at a time, and is owed to its
\* own frontend unless it is a broadcast, which goes to frontends that greeted.
JobOK(p, j, greeted) ==
    /\ j.ev.from = p
    /\ j.stage \in {"try", "drop"} =>
          \E c \in Clients : j.to = {c} /\ c \notin j.todo /\ (j.ev.kind # "fatal" => greeted[c])
    /\ j.ev.kind # "bcast" =>
          p \in Clients /\ j.todo \subseteq {p} /\ j.to \subseteq {p} /\ j.stage # "snapshot"
    /\ j.ev.kind \in {"ready", "reply"} => greeted[p]

JobsInv ==
    \A p \in Procs : \A i \in DOMAIN jobs[p] :
        JobOK(p, jobs[p][i], hello) /\ jobs[p][i].ev.n + Len(jobs[p]) = sent[p] + i

\* A frontend that has not greeted was sent nothing but protocol errors.
HelloInv ==
    \A c \in Clients : ~hello[c] =>
        /\ \A i \in DOMAIN out[c] : out[c][i].kind = "fatal"
        /\ \A i \in DOMAIN wire[c] : wire[c][i].kind = "fatal"

\* p has got past c with the event it is delivering.
Passed(p, c) ==
    /\ jobs[p] # << >> /\ jobs[p][1].stage # "snapshot"
    /\ c \notin jobs[p][1].todo
    /\ jobs[p][1].stage \in {"try", "drop"} => c \notin jobs[p][1].to

\* e belongs to a job that is over, or the current one, which is past c.
Before(c, e) ==
    \/ e.n + Len(jobs[e.from]) <= sent[e.from]
    \/ e.n + Len(jobs[e.from]) = sent[e.from] + 1 /\ Passed(e.from, c)

Ordered(s) == \A i, j \in DOMAIN s : (i < j /\ s[i].from = s[j].from) => s[i].n < s[j].n

\* A line written comes before a line still queued.
Stands(w, o) ==
    /\ Ordered(w) /\ Ordered(o)
    /\ \A i \in DOMAIN w, j \in DOMAIN o : w[i].from = o[j].from => w[i].n < o[j].n

OrderInv ==
    \A c \in Clients :
        /\ \A i \in DOMAIN out[c] : Before(c, out[c][i])
        /\ \A i \in DOMAIN wire[c] : Before(c, wire[c][i])
        /\ Stands(wire[c], out[c])

\* Who may have closed a connection, or told its writer to stop.
ClosedInv ==
    /\ srvClosed => ctxDone
    /\ closer.at # "idle" => srvClosed
    /\ \A c \in Clients :
        /\ closed[c] => srvClosed \/ reader[c] = "end"
        /\ shut[c] => srvClosed \/ reader[c] \in {"wait", "close", "end"}
        /\ writer[c] = "drain" => shut[c]
        /\ writer[c] = "done" => shut[c] \/ ctxDone \/ debt[c] = "debtd"

Fatal(s) == \E i \in DOMAIN s : s[i].kind = "fatal"

\* The handler of c has still to queue the protocol error.
Pending(c) ==
    /\ jobs[c] # << >> /\ jobs[c][1].ev.kind = "fatal"
    /\ c \in jobs[c][1].todo \/ jobs[c][1].stage \in {"try", "drop"}

FatalJob(c) == \E i \in DOMAIN jobs[c] : jobs[c][i].ev.kind = "fatal"

\* A protocol error that is owed is on its way, and never behind a writer that
\* is done; no other is.
Owed(c) ==
    /\ Fatal(wire[c]) \/ Fatal(out[c]) \/ Pending(c)
    /\ writer[c] = "done" => ~Fatal(out[c])
    /\ reader[c] \in {"close", "end"} => Fatal(wire[c])

DebtOf(c) ==
    /\ (debt[c] = "owed" /\ ~ctxDone) => Owed(c)
    /\ debt[c] = "none" => ~Fatal(out[c]) /\ ~FatalJob(c)

DebtInv == \A c \in Clients : DebtOf(c)

\* All of it together is inductive.
HubInv ==
    /\ TypeOK /\ JobsInv /\ LifeInv
    /\ HelloInv /\ OrderInv
    /\ ClosedInv /\ DebtInv

-----------------------------------------------------------------------------
(* What a step does, in terms the proofs share                             *)

\* What GoOn does, job by job.
Went(p, s, left, to) ==
    /\ jobs' \in [Procs -> Seq(Job)]
    /\ jobs'[p] # << >> /\ Len(jobs'[p]) = Len(jobs[p]) /\ DOMAIN jobs'[p] = DOMAIN jobs[p]
    /\ jobs'[p][1].ev = jobs[p][1].ev /\ jobs'[p][1].stage = s
    /\ jobs'[p][1].todo = left /\ jobs'[p][1].to = to
    /\ \A i \in DOMAIN jobs[p] : i # 1 => jobs'[p][i] = jobs[p][i]
    /\ \A q \in Procs : q # p => jobs'[q] = jobs[q]

\* p queues the event it is delivering for c.
Queues(p, c) ==
    /\ Stage(p, "try") /\ c = Target(p) /\ Len(out[c]) < QueueCap
    /\ out' = [out EXCEPT ![c] = Append(@, Current(p).ev)]
    /\ wire' = wire
    /\ Turn(p, "next")
    /\ UNCHANGED <<sent, hello>>

\* The oldest line queued for c leaves, for the frontend or for nothing.
Leaves(c) ==
    /\ out[c] # << >>
    /\ out' = [out EXCEPT ![c] = Tail(@)]
    /\ wire' \in {wire, [wire EXCEPT ![c] = Append(@, Head(out[c]))]}

\* What OrderInv asks of d, after the step.
OrderKept(d) ==
    \E w \in Seq(Event), o \in Seq(Event) :
        /\ wire'[d] = w /\ out'[d] = o /\ Stands(w, o)
        /\ \A i \in DOMAIN w : Before(d, w[i])'
        /\ \A i \in DOMAIN o : Before(d, o[i])'

-----------------------------------------------------------------------------
(* Sequences, events and jobs                                              *)

\* A sequence and its elements.
LEMMA SeqFacts ==
  ASSUME NEW S, NEW s \in Seq(S)
  PROVE  /\ Len(s) \in Nat /\ DOMAIN s = 1..Len(s)
         /\ \A i \in DOMAIN s : s[i] \in S
         /\ s # << >> => 1 \in DOMAIN s /\ Len(s) # 0 /\ Head(s) = s[1]
<1>1. Len(s) \in Nat /\ DOMAIN s = 1..Len(s)
  OBVIOUS
<1>2. \A i \in DOMAIN s : s[i] \in S
  BY <1>1, ElementOfSeq
<1>3. s # << >> => 1 \in DOMAIN s /\ Len(s) # 0 /\ Head(s) = s[1]
  BY <1>1, EmptySeq
<1>. QED
  BY <1>1, <1>2, <1>3

\* An empty sequence.
LEMMA EmptyFacts == \A S : << >> \in Seq(S) /\ Len(<< >>) = 0 /\ DOMAIN << >> = {}
BY EmptySeq, LenProperties

\* A sequence without its first element.
LEMMA TailFacts ==
  ASSUME NEW S, NEW s \in Seq(S), s # << >>
  PROVE  /\ Tail(s) \in Seq(S) /\ Len(Tail(s)) + 1 = Len(s)
         /\ \A i \in DOMAIN Tail(s) : i + 1 \in DOMAIN s /\ Tail(s)[i] = s[i + 1]
         /\ \A i \in DOMAIN s : i = 1 \/ \E j \in DOMAIN Tail(s) : s[i] = Tail(s)[j]
<1>1. Tail(s) \in Seq(S) /\ Len(Tail(s)) = Len(s) - 1 /\ Len(s) \in Nat \ {0}
      /\ \A i \in 1..Len(Tail(s)) : Tail(s)[i] = s[i + 1]
  BY HeadTailProperties, EmptySeq
<1>2. DOMAIN s = 1..Len(s) /\ DOMAIN Tail(s) = 1..(Len(s) - 1)
  BY <1>1, SeqFacts
<1>3. \A i \in DOMAIN Tail(s) : i + 1 \in DOMAIN s /\ Tail(s)[i] = s[i + 1]
  BY <1>1, <1>2
<1>4. ASSUME NEW i \in DOMAIN s, i # 1 PROVE \E j \in DOMAIN Tail(s) : s[i] = Tail(s)[j]
  <2>1. i - 1 \in DOMAIN Tail(s) /\ (i - 1) + 1 = i
    BY <1>2, <1>4
  <2>. QED
    BY <1>3, <2>1
<1>. QED
  BY <1>1, <1>3, <1>4

\* A sequence with an element more ...
LEMMA AppendFacts ==
  ASSUME NEW S, NEW s \in Seq(S), NEW m \in S
  PROVE  /\ Append(s, m) \in Seq(S)
         /\ Len(Append(s, m)) = Len(s) + 1
         /\ DOMAIN Append(s, m) = 1..(Len(s) + 1)
         /\ Append(s, m)[Len(s) + 1] = m
         /\ \A i \in 1..Len(s) : Append(s, m)[i] = s[i]
<1>1. Append(s, m) \in Seq(S) /\ Len(Append(s, m)) = Len(s) + 1
  OBVIOUS
<1>2. DOMAIN Append(s, m) = 1..(Len(s) + 1)
  BY <1>1, SeqFacts
<1>3. Append(s, m)[Len(s) + 1] = m
  OBVIOUS
<1>4. \A i \in 1..Len(s) : Append(s, m)[i] = s[i]
  OBVIOUS
<1>. QED
  BY <1>1, <1>2, <1>3, <1>4

\* ... and one of events, named.
LEMMA Appended ==
  ASSUME NEW s \in Seq(Event), NEW e \in Event
  PROVE  \E a \in Seq(Event), l \in Nat :
           /\ a = Append(s, e) /\ l = Len(s) /\ DOMAIN s = 1..l /\ DOMAIN a = 1..(l + 1)
           /\ a[l + 1] = e /\ \A i \in 1..l : a[i] = s[i]
<1>1. /\ Append(s, e) \in Seq(Event) /\ DOMAIN Append(s, e) = 1..(Len(s) + 1)
      /\ Append(s, e)[Len(s) + 1] = e /\ \A i \in 1..Len(s) : Append(s, e)[i] = s[i]
  BY AppendFacts
<1>2. Len(s) \in Nat /\ DOMAIN s = 1..Len(s)
  BY SeqFacts
<1>. QED
  BY <1>1, <1>2

\* A queue stays in order when it gets an event later than all of its sender's ...
LEMMA AppendStands ==
  ASSUME NEW w \in Seq(Event), NEW o \in Seq(Event), NEW e \in Event, Stands(w, o),
         \A i \in DOMAIN o : o[i].from = e.from => o[i].n < e.n,
         \A i \in DOMAIN w : w[i].from = e.from => w[i].n < e.n
  PROVE  Stands(w, Append(o, e))
<1>1. PICK a \in Seq(Event), l \in Nat :
        /\ a = Append(o, e) /\ l = Len(o) /\ DOMAIN o = 1..l /\ DOMAIN a = 1..(l + 1)
        /\ a[l + 1] = e /\ \A i \in 1..l : a[i] = o[i]
  BY Appended
<1>2. ASSUME NEW i \in DOMAIN a, NEW j \in DOMAIN a, i < j, a[i].from = a[j].from PROVE a[i].n < a[j].n
  <2>1. i \in 1..l /\ a[i] = o[i] /\ (j \in 1..l \/ j = l + 1)
    BY <1>1, <1>2
  <2>2. CASE j \in 1..l
    BY <1>1, <1>2, <2>1, <2>2 DEF Stands, Ordered
  <2>3. CASE j = l + 1
    BY <1>1, <1>2, <2>1, <2>3
  <2>. QED
    BY <2>1, <2>2, <2>3
<1>3. ASSUME NEW i \in DOMAIN w, NEW j \in DOMAIN a, w[i].from = a[j].from PROVE w[i].n < a[j].n
  <2>1. j \in 1..l \/ j = l + 1
    BY <1>1
  <2>. QED
    BY <1>1, <1>3, <2>1 DEF Stands
<1>. QED
  BY <1>1, <1>2, <1>3 DEF Stands, Ordered

\* What is left of a sequence without its head is the sequence, moved by one.
LEMMA TailTaken ==
  ASSUME NEW S, NEW s \in Seq(S), s # << >>
  PROVE  \E t \in Seq(S) : t = Tail(s) /\ \A i \in DOMAIN t : i + 1 \in DOMAIN s /\ t[i] = s[i + 1]
<1>1. Tail(s) \in Seq(S) /\ \A i \in DOMAIN Tail(s) : i + 1 \in DOMAIN s /\ Tail(s)[i] = s[i + 1]
  BY TailFacts
<1>. WITNESS Tail(s) \in Seq(S)
<1>. QED
  BY <1>1

\* ... and when its head leaves it, for the wire or for nothing.
LEMMA TailStands ==
  ASSUME NEW w \in Seq(Event), NEW o \in Seq(Event), o # << >>, Stands(w, o)
  PROVE  Stands(w, Tail(o)) /\ Stands(Append(w, Head(o)), Tail(o))
<1>1. PICK t \in Seq(Event) :
        t = Tail(o) /\ \A i \in DOMAIN t : i \in Nat /\ i # 0 /\ i + 1 \in DOMAIN o /\ t[i] = o[i + 1]
  <2>1. PICK t \in Seq(Event) : t = Tail(o) /\ \A i \in DOMAIN t : i + 1 \in DOMAIN o /\ t[i] = o[i + 1]
    BY TailTaken
  <2>2. \A i \in DOMAIN t : i \in Nat /\ i # 0
    BY <2>1, SeqFacts
  <2>. QED
    BY <2>1, <2>2
<1>2. PICK e \in Event : e = Head(o) /\ e = o[1] /\ 1 \in DOMAIN o
  BY SeqFacts
<1>3. ASSUME NEW i \in DOMAIN t, NEW j \in DOMAIN t, i < j, t[i].from = t[j].from PROVE t[i].n < t[j].n
  <2>1. i + 1 \in DOMAIN o /\ j + 1 \in DOMAIN o /\ i + 1 < j + 1 /\ t[i] = o[i + 1] /\ t[j] = o[j + 1]
    BY <1>1, <1>3
  <2>. QED
    BY <1>3, <2>1 DEF Stands, Ordered
<1>4. \A i \in DOMAIN w, j \in DOMAIN t : w[i].from = t[j].from => w[i].n < t[j].n
  BY <1>1 DEF Stands
<1>5. Stands(w, t)
  BY <1>3, <1>4 DEF Stands, Ordered
<1>6. \A j \in DOMAIN t : e.from = t[j].from => e.n < t[j].n
  <2>. SUFFICES ASSUME NEW j \in DOMAIN t, e.from = t[j].from PROVE e.n < t[j].n
    OBVIOUS
  <2>1. j + 1 \in DOMAIN o /\ 1 < j + 1 /\ t[j] = o[j + 1]
    BY <1>1
  <2>. QED
    BY <1>2, <2>1 DEF Stands, Ordered
<1>7. \A i \in DOMAIN w : w[i].from = e.from => w[i].n < e.n
  BY <1>2 DEF Stands
<1>9. PICK v \in Seq(Event), l \in Nat :
        /\ v = Append(w, e) /\ l = Len(w) /\ DOMAIN w = 1..l /\ DOMAIN v = 1..(l + 1)
        /\ v[l + 1] = e /\ \A i \in 1..l : v[i] = w[i]
  BY Appended
<1>10. ASSUME NEW i \in DOMAIN v, NEW j \in DOMAIN v, i < j, v[i].from = v[j].from PROVE v[i].n < v[j].n
  <2>1. i \in 1..l /\ v[i] = w[i] /\ (j \in 1..l \/ j = l + 1)
    BY <1>9, <1>10
  <2>2. CASE j \in 1..l
    BY <1>9, <1>10, <2>1, <2>2 DEF Stands, Ordered
  <2>3. CASE j = l + 1
    BY <1>7, <1>9, <1>10, <2>1, <2>3
  <2>. QED
    BY <2>1, <2>2, <2>3
<1>11. ASSUME NEW i \in DOMAIN v, NEW j \in DOMAIN t, v[i].from = t[j].from PROVE v[i].n < t[j].n
  <2>1. i \in 1..l \/ i = l + 1
    BY <1>9
  <2>. QED
    BY <1>4, <1>6, <1>9, <1>11, <2>1
<1>12. Stands(v, t)
  BY <1>5, <1>10, <1>11 DEF Stands, Ordered
<1>. QED
  BY <1>1, <1>2, <1>5, <1>9, <1>12

\* An event queued is fatal or was queued already ...
LEMMA AppendFatal ==
  ASSUME NEW s \in Seq(Event), NEW e \in Event
  PROVE  Fatal(Append(s, e)) <=> Fatal(s) \/ e.kind = "fatal"
<1>1. PICK a \in Seq(Event), l \in Nat :
        /\ a = Append(s, e) /\ l = Len(s) /\ DOMAIN s = 1..l /\ DOMAIN a = 1..(l + 1)
        /\ a[l + 1] = e /\ \A i \in 1..l : a[i] = s[i]
  BY Appended
<1>2. \A i \in DOMAIN a : i = l + 1 \/ i \in DOMAIN s
  BY <1>1
<1>3. l + 1 \in DOMAIN a /\ DOMAIN s \subseteq DOMAIN a
  BY <1>1
<1>. QED
  BY <1>1, <1>2, <1>3 DEF Fatal

\* ... and one that is not the head stays.
LEMMA TailFatal ==
  ASSUME NEW s \in Seq(Event), s # << >>
  PROVE  Fatal(s) <=> Fatal(Tail(s)) \/ Head(s).kind = "fatal"
<1>1. 1 \in DOMAIN s /\ Head(s) = s[1]
  BY SeqFacts
<1>2. /\ \A i \in DOMAIN Tail(s) : i + 1 \in DOMAIN s /\ Tail(s)[i] = s[i + 1]
      /\ \A i \in DOMAIN s : i = 1 \/ \E j \in DOMAIN Tail(s) : s[i] = Tail(s)[j]
  BY TailFacts
<1>. QED
  BY <1>1, <1>2 DEF Fatal

\* The fields of a job ...
LEMMA JobFields ==
  ASSUME NEW j \in Job
  PROVE  j.ev \in Event /\ j.stage \in {"snapshot", "next", "try", "drop"}
         /\ j.todo \in SUBSET Clients /\ j.to \in SUBSET Clients
         /\ j.ev.kind \in Kinds /\ j.ev.from \in Procs /\ j.ev.n \in Nat
BY DEF Job, Event

\* ... and the job under way.
LEMMA CurrentJob ==
  ASSUME JobsOK, NEW p \in Procs, jobs[p] # << >>
  PROVE  Current(p) \in Job /\ 1 \in DOMAIN jobs[p] /\ jobs[p] \in Seq(Job) /\ Current(p) = jobs[p][1]
<1>1. jobs[p] \in Seq(Job)
  BY DEF JobsOK
<1>. QED
  BY <1>1, SeqFacts DEF Current

\* A handler has one or two jobs.
LEMMA FewJobs ==
  ASSUME NEW S, NEW j \in S, NEW k \in S
  PROVE  <<j>> \in Seq(S) /\ <<j, k>> \in Seq(S)
OBVIOUS

\* What a new job carries.
LEMMA NewJobs ==
  ASSUME JobsOK, NEW p \in Procs, NEW k \in Nat
  PROVE  /\ Broadcast(p, k) \in Job /\ Broadcast(p, k).ev.n = sent[p] + k
         /\ \A g : JobOK(p, Broadcast(p, k), g)
         /\ p \in Clients => \A kind \in Kinds :
               /\ Reply(p, kind, k) \in Job /\ Reply(p, kind, k).ev.n = sent[p] + k
               /\ \A g : kind # "fatal" => (g[p] => JobOK(p, Reply(p, kind, k), g))
               /\ \A g : kind = "fatal" => JobOK(p, Reply(p, kind, k), g)
<1>1. sent[p] + k \in Nat
  BY DEF JobsOK
<1>2. Broadcast(p, k) \in Job /\ Broadcast(p, k).ev.n = sent[p] + k
  BY <1>1 DEF Broadcast, NewEvent, Job, Event, Kinds
<1>3. \A g : JobOK(p, Broadcast(p, k), g)
  BY DEF Broadcast, NewEvent, JobOK
<1>4. ASSUME p \in Clients, NEW kind \in Kinds
      PROVE  /\ Reply(p, kind, k) \in Job /\ Reply(p, kind, k).ev.n = sent[p] + k
             /\ \A g : kind # "fatal" => (g[p] => JobOK(p, Reply(p, kind, k), g))
             /\ \A g : kind = "fatal" => JobOK(p, Reply(p, kind, k), g)
  <2>1. Reply(p, kind, k) \in Job /\ Reply(p, kind, k).ev.n = sent[p] + k
    BY <1>1, <1>4 DEF Reply, NewEvent, Job, Event
  <2>2. Reply(p, kind, k).ev.from = p /\ Reply(p, kind, k).stage = "next"
        /\ Reply(p, kind, k).todo = {p} /\ Reply(p, kind, k).to = {} /\ Reply(p, kind, k).ev.kind = kind
    BY DEF Reply, NewEvent
  <2>. QED
    BY <1>4, <2>1, <2>2 DEF JobOK
<1>. QED
  BY <1>2, <1>3, <1>4

-----------------------------------------------------------------------------
(* Types, and the jobs                                                     *)

\* A job that goes on keeps its event, and leaves the others alone.
LEMMA Going ==
  ASSUME JobsOK, NEW p \in Procs, jobs[p] # << >>,
         NEW s \in {"snapshot", "next", "try", "drop"},
         NEW left \in SUBSET Clients, NEW to \in SUBSET Clients,
         GoOn(p, s, left, to)
  PROVE  Went(p, s, left, to)
<1>1. jobs[p] \in Seq(Job) /\ 1 \in DOMAIN jobs[p] /\ DOMAIN jobs[p] = 1..Len(jobs[p])
  BY CurrentJob, SeqFacts
<1>j. PICK j \in Job : j = [ev |-> jobs[p][1].ev, stage |-> s, todo |-> left, to |-> to]
  <2>1. jobs[p][1].ev \in Event
    BY <1>1, SeqFacts, JobFields
  <2>. QED
    BY <2>1 DEF Job
<1>2. /\ [jobs[p] EXCEPT ![1] = j] \in Seq(Job)
      /\ Len([jobs[p] EXCEPT ![1] = j]) = Len(jobs[p])
      /\ \A i \in 1..Len(jobs[p]) : [jobs[p] EXCEPT ![1] = j][i] = IF i = 1 THEN j ELSE jobs[p][i]
  BY <1>1, ExceptSeq
<1>0. jobs' = [jobs EXCEPT ![p] = [jobs[p] EXCEPT ![1] = j]]
  BY <1>j DEF GoOn, Current
<1>3. jobs'[p] = [jobs[p] EXCEPT ![1] = j] /\ \A q \in Procs : q # p => jobs'[q] = jobs[q]
  BY <1>0 DEF JobsOK
<1>4. jobs' \in [Procs -> Seq(Job)]
  BY <1>0, <1>2 DEF JobsOK
<1>5. DOMAIN jobs'[p] = 1..Len(jobs[p])
  BY <1>2, <1>3, SeqFacts
<1>6. jobs'[p] # << >>
  BY <1>1, <1>5, EmptyFacts
<1>7. jobs'[p][1] = j
  BY <1>1, <1>2, <1>3
<1>. QED
  BY <1>1, <1>j, <1>2, <1>3, <1>4, <1>5, <1>6, <1>7 DEF Went

\* The types hold at first.
LEMMA InitTypes == Init => TypeOK
<1>. SUFFICES ASSUME Init PROVE TypeOK
  OBVIOUS
<1>1. ServerOK
  <2>1. 0 \in 0..MaxFaults
    BY HubAssumption
  <2>. QED
    BY <2>1 DEF Init, ServerOK
<1>2. ClientsOK
  BY DEF Init, ClientsOK
<1>3. QueuesOK
  BY HubAssumption, EmptyFacts DEF Init, QueuesOK
<1>4. JobsOK
  BY EmptyFacts DEF Init, JobsOK
<1>. QED
  BY <1>1, <1>2, <1>3, <1>4 DEF TypeOK

\* The server and its goroutines stay in their places.
LEMMA ServerStep == TypeOK /\ Next => ServerOK'
<1>. SUFFICES ASSUME ServerOK, Next PROVE ServerOK'
  BY DEF TypeOK
<1>. USE HubAssumption DEF ServerOK, closing, serving, Fault
<1>1. CASE Cancel \/ CloseServer \/ CloseListener
  <2>1. CASE Cancel
    BY <2>1 DEF Cancel
  <2>2. CASE CloseServer
    BY <2>2 DEF CloseServer
  <2>3. CASE CloseListener
    BY <2>3 DEF CloseListener
  <2>. QED
    BY <1>1, <2>1, <2>2, <2>3
<1>2. CASE CloseClientConn \/ CloseDone
  BY <1>2 DEF CloseClientConn, CloseDone
<1>3. CASE AddClient \/ SpawnServe \/ ServeReturns
  BY <1>3 DEF AddClient, SpawnServe, ServeReturns
<1>4. CASE SessionBroadcast
  BY <1>4 DEF SessionBroadcast
<1>5. ASSUME NEW p \in Procs, Delivering(p) PROVE ServerOK'
  BY <1>5 DEF Delivering, TakeSnapshot, NextTarget, TryEnqueue, DropOldest, FinishJob
<1>6. ASSUME NEW c \in Clients, Accept(c) PROVE ServerOK'
  BY <1>6 DEF Accept
<1>7. ASSUME NEW c \in Clients, CloseClientFlag(c) PROVE ServerOK'
  <2>1. /\ UNCHANGED <<faults, ctxDone, srvClosed, lnOpen, tracked, acceptor>>
        /\ \/ closer' = [closer EXCEPT !.todo = @ \ {c}]
           \/ closer' = [at |-> "conn", todo |-> closer.todo \ {c}, c |-> {c}]
    BY <1>7 DEF CloseClientFlag
  <2>2. closer' \in [at : {"idle", "listener", "clients", "conn", "done"},
                    todo : SUBSET Clients, c : SUBSET Clients]
    BY <2>1
  <2>. QED
    BY <2>1, <2>2
<1>8. ASSUME NEW c \in Clients, Reading(c) PROVE ServerOK'
  BY <1>8 DEF Reading, Read, ReadHello, ReadFatal, ReadCommand, ReadMarkRead, ReadOversizeHistory, ScanEnds
<1>9. ASSUME NEW c \in Clients, Closing(c) PROVE ServerOK'
  BY <1>9 DEF Closing, StopWriting, WriterStopped, WaitTimesOut, EndServe
<1>10. ASSUME NEW c \in Clients, WritingOut(c) PROVE ServerOK'
  BY <1>10 DEF WritingOut, WriteLine, WriteFails, WriterShutdown, WriterExits
<1>. QED
  BY <1>1, <1>2, <1>3, <1>4, <1>5, <1>6, <1>7, <1>8, <1>9, <1>10 DEF Next

\* The flags of a connection stay flags.
LEMMA ClientsStep == TypeOK /\ Next => ClientsOK'
<1>. SUFFICES ASSUME ClientsOK, Next PROVE ClientsOK'
  BY DEF TypeOK
<1>. USE DEF ClientsOK, goroutines, flags, queues, work
<1>1. CASE Cancel \/ CloseServer \/ CloseListener \/ CloseDone
  BY <1>1 DEF Cancel, CloseServer, CloseListener, CloseDone
<1>2. CASE CloseClientConn
  BY <1>2 DEF CloseClientConn
<1>3. CASE AddClient \/ ServeReturns
  BY <1>3 DEF AddClient, ServeReturns
<1>4. CASE SpawnServe
  BY <1>4 DEF SpawnServe
<1>5. CASE SessionBroadcast
  BY <1>5 DEF SessionBroadcast
<1>6. ASSUME NEW p \in Procs, TakeSnapshot(p) \/ NextTarget(p) \/ TryEnqueue(p) PROVE ClientsOK'
  BY <1>6 DEF TakeSnapshot, NextTarget, TryEnqueue
<1>7. ASSUME NEW p \in Procs, DropOldest(p) PROVE ClientsOK'
  BY <1>7 DEF DropOldest
<1>8. ASSUME NEW p \in Procs, FinishJob(p) PROVE ClientsOK'
  BY <1>8 DEF FinishJob
<1>9. ASSUME NEW c \in Clients, Accept(c) PROVE ClientsOK'
  BY <1>9 DEF Accept
<1>10. ASSUME NEW c \in Clients, CloseClientFlag(c) PROVE ClientsOK'
  BY <1>10 DEF CloseClientFlag
<1>11. ASSUME NEW c \in Clients, ReadHello(c) PROVE ClientsOK'
  BY <1>11 DEF Read, ReadHello
<1>12. ASSUME NEW c \in Clients, ReadFatal(c) PROVE ClientsOK'
  BY <1>12 DEF Read, ReadFatal
<1>13. ASSUME NEW c \in Clients, ReadCommand(c) \/ ReadMarkRead(c) PROVE ClientsOK'
  BY <1>13 DEF Read, ReadCommand, ReadMarkRead
<1>14. ASSUME NEW c \in Clients, ReadOversizeHistory(c) \/ ScanEnds(c) PROVE ClientsOK'
  BY <1>14 DEF ReadOversizeHistory, ScanEnds
<1>15. ASSUME NEW c \in Clients, StopWriting(c) \/ WriterStopped(c) PROVE ClientsOK'
  BY <1>15 DEF StopWriting, WriterStopped
<1>16. ASSUME NEW c \in Clients, WaitTimesOut(c) PROVE ClientsOK'
  BY <1>16 DEF WaitTimesOut
<1>17. ASSUME NEW c \in Clients, EndServe(c) PROVE ClientsOK'
  BY <1>17 DEF EndServe
<1>18. ASSUME NEW c \in Clients, WriteLine(c) \/ WriterShutdown(c) \/ WriterExits(c) PROVE ClientsOK'
  BY <1>18 DEF WriteLine, WriterShutdown, WriterExits
<1>19. ASSUME NEW c \in Clients, WriteFails(c) PROVE ClientsOK'
  BY <1>19 DEF WriteFails
<1>. QED
  BY <1>1, <1>2, <1>3, <1>4, <1>5, <1>6, <1>7, <1>8, <1>9, <1>10, <1>11, <1>12, <1>13, <1>14,
     <1>15, <1>16, <1>17, <1>18, <1>19
  DEF Next, Delivering, Reading, Closing, WritingOut

\* The target of a job that is being queued.
LEMMA TargetFacts ==
  ASSUME JobsOK, JobsInv, NEW p \in Procs, Stage(p, "try") \/ Stage(p, "drop")
  PROVE  /\ jobs[p] # << >> /\ Target(p) \in Clients /\ Current(p).to = {Target(p)}
         /\ Target(p) \notin Current(p).todo
         /\ Current(p).ev.kind # "fatal" => hello[Target(p)]
         /\ Current(p).ev.kind # "bcast" => Target(p) = p
<1>1. jobs[p] # << >> /\ Current(p).stage \in {"try", "drop"}
  BY DEF Stage
<1>2. JobOK(p, Current(p), hello)
  BY <1>1, CurrentJob DEF JobsInv
<1>3. PICK c \in Clients : /\ Current(p).to = {c} /\ c \notin Current(p).todo
                           /\ Current(p).ev.kind # "fatal" => hello[c]
  BY <1>1, <1>2 DEF JobOK
<1>4. Target(p) = c
  BY <1>3 DEF Target
<1>5. Current(p).ev.kind # "bcast" => c = p
  BY <1>2, <1>3 DEF JobOK
<1>. QED
  BY <1>1, <1>3, <1>4, <1>5

\* A step that leaves the jobs alone ...
LEMMA JobsKept ==
  ASSUME JobsOK, JobsInv, UNCHANGED <<jobs, sent>>, \A c \in Clients : hello[c] => hello'[c]
  PROVE  JobsOK' /\ JobsInv'
<1>1. JobsOK'
  BY DEF JobsOK
<1>2. ASSUME NEW p \in Procs, NEW i \in DOMAIN jobs[p]
      PROVE  JobOK(p, jobs[p][i], hello') /\ jobs[p][i].ev.n + Len(jobs[p]) = sent[p] + i
  <2>1. JobOK(p, jobs[p][i], hello) /\ jobs[p][i].ev.n + Len(jobs[p]) = sent[p] + i
    BY DEF JobsInv
  <2>2. jobs[p][i] \in Job
    BY SeqFacts DEF JobsOK
  <2>. QED
    BY <2>1, <2>2 DEF JobOK
<1>. QED
  BY <1>1, <1>2 DEF JobsInv

\* ... one that moves a job to its next stage ...
LEMMA GoingKeeps ==
  ASSUME JobsOK, JobsInv, NEW p \in Procs, jobs[p] # << >>,
         NEW s \in {"snapshot", "next", "try", "drop"},
         NEW left \in SUBSET Clients, NEW to \in SUBSET Clients,
         GoOn(p, s, left, to), UNCHANGED <<sent, hello>>,
         s \in {"try", "drop"} =>
            \E c \in Clients : to = {c} /\ c \notin left /\ (Current(p).ev.kind # "fatal" => hello[c]),
         Current(p).ev.kind # "bcast" => left \subseteq {p} /\ to \subseteq {p} /\ s # "snapshot"
  PROVE  JobsOK' /\ JobsInv'
<1>1. Went(p, s, left, to)
  BY Going
<1>2. JobsOK'
  BY <1>1 DEF JobsOK, Went
<1>3. Current(p) = jobs[p][1] /\ 1 \in DOMAIN jobs[p]
  BY CurrentJob
<1>4. JobOK(p, jobs[p][1], hello) /\ jobs[p][1].ev.n + Len(jobs[p]) = sent[p] + 1
  BY <1>3 DEF JobsInv
<1>5. JobOK(p, jobs'[p][1], hello)
  BY <1>1, <1>3, <1>4 DEF JobOK, Went
<1>6. \A i \in DOMAIN jobs'[p] :
          JobOK(p, jobs'[p][i], hello) /\ jobs'[p][i].ev.n + Len(jobs'[p]) = sent[p] + i
  BY <1>1, <1>4, <1>5 DEF JobsInv, Went
<1>7. \A q \in Procs : q # p => \A i \in DOMAIN jobs'[q] :
          JobOK(q, jobs'[q][i], hello) /\ jobs'[q][i].ev.n + Len(jobs'[q]) = sent[q] + i
  BY <1>1 DEF JobsInv, Went
<1>. QED
  BY <1>2, <1>6, <1>7 DEF JobsInv

\* ... one that begins new ones, numbered on ...
LEMMA BeginKeeps ==
  ASSUME JobsOK, JobsInv, NEW p \in Procs, NEW js \in Seq(Job), Begin(p, js),
         \A c \in Clients : hello[c] => hello'[c],
         \A i \in DOMAIN js : JobOK(p, js[i], hello') /\ js[i].ev.n = sent[p] + i
  PROVE  JobsOK' /\ JobsInv'
<1>1. /\ jobs'[p] = js /\ sent'[p] = sent[p] + Len(js)
      /\ \A q \in Procs : q # p => jobs'[q] = jobs[q] /\ sent'[q] = sent[q]
      /\ JobsOK'
  BY SeqFacts DEF Begin, JobsOK
<1>2. \A i \in DOMAIN js : JobOK(p, js[i], hello') /\ js[i].ev.n + Len(js) = sent'[p] + i
  <2>1. sent[p] \in Nat /\ Len(js) \in Nat /\ DOMAIN js = 1..Len(js)
    BY SeqFacts DEF JobsOK
  <2>2. \A i \in DOMAIN js : js[i].ev.n \in Nat /\ i \in Nat
    BY SeqFacts, JobFields
  <2>. QED
    BY <1>1, <2>1, <2>2
<1>3. ASSUME NEW q \in Procs, q # p, NEW i \in DOMAIN jobs[q]
      PROVE  JobOK(q, jobs[q][i], hello') /\ jobs[q][i].ev.n + Len(jobs[q]) = sent[q] + i
  <2>1. JobOK(q, jobs[q][i], hello) /\ jobs[q][i].ev.n + Len(jobs[q]) = sent[q] + i
    BY DEF JobsInv
  <2>2. jobs[q][i] \in Job
    BY SeqFacts DEF JobsOK
  <2>. QED
    BY <2>1, <2>2 DEF JobOK
<1>. QED
  BY <1>1, <1>2, <1>3 DEF JobsInv

\* The arithmetic of a job that is over.
LEMMA OneLess == \A a, l, t, i \in Nat : a + (l + 1) = t + (i + 1) => a + l = t + i
OBVIOUS

\* ... and one that ends a job keep the jobs in order.
LEMMA FinishKeeps ==
  ASSUME JobsOK, JobsInv, NEW p \in Procs, FinishJob(p)
  PROVE  JobsOK' /\ JobsInv'
<1>1. /\ jobs[p] # << >> /\ jobs[p] \in Seq(Job) /\ UNCHANGED <<sent, hello>>
      /\ jobs'[p] = Tail(jobs[p])
      /\ \A q \in Procs : q # p => jobs'[q] = jobs[q]
  BY DEF FinishJob, Stage, flags, JobsOK
<1>2. JobsOK'
  BY <1>1, TailFacts DEF FinishJob, JobsOK
<1>3. \A i \in DOMAIN jobs'[p] :
          JobOK(p, jobs'[p][i], hello) /\ jobs'[p][i].ev.n + Len(jobs'[p]) = sent[p] + i
  <2>. SUFFICES ASSUME NEW i \in DOMAIN jobs'[p]
                PROVE  JobOK(p, jobs'[p][i], hello) /\ jobs'[p][i].ev.n + Len(jobs'[p]) = sent[p] + i
    OBVIOUS
  <2>1. Len(jobs'[p]) \in Nat /\ i \in Nat /\ sent[p] \in Nat
    BY <1>2, SeqFacts DEF JobsOK
  <2>2. PICK k \in Nat : k = i + 1
    BY <2>1
  <2>3. /\ k \in DOMAIN jobs[p] /\ jobs'[p][i] = jobs[p][k]
        /\ Len(jobs'[p]) + 1 = Len(jobs[p])
    BY <1>1, <2>2, TailFacts
  <2>4. JobOK(p, jobs[p][k], hello) /\ jobs[p][k].ev.n + Len(jobs[p]) = sent[p] + k
    BY <2>3 DEF JobsInv
  <2>5. PICK a \in Nat, l \in Nat, t \in Nat, b \in Nat :
           a = jobs[p][k].ev.n /\ l = Len(jobs'[p]) /\ t = sent[p] /\ b = i
    BY <1>1, <2>1, <2>3, SeqFacts, JobFields
  <2>6. a + (l + 1) = t + (b + 1)
    BY <2>2, <2>3, <2>4, <2>5
  <2>7. a + l = t + b
    BY <2>6, OneLess
  <2>8. JobOK(p, jobs'[p][i], hello)
    BY <2>3, <2>4
  <2>9. jobs'[p][i].ev.n + Len(jobs'[p]) = sent[p] + i
    BY <2>3, <2>5, <2>7
  <2>. QED
    BY <2>8, <2>9
<1>4. \A q \in Procs : q # p => \A i \in DOMAIN jobs'[q] :
          JobOK(q, jobs'[q][i], hello) /\ jobs'[q][i].ev.n + Len(jobs'[q]) = sent[q] + i
  BY <1>1 DEF JobsInv
<1>. QED
  BY <1>1, <1>2, <1>3, <1>4 DEF JobsInv

\* A step keeps the jobs in order.
LEMMA JobsStep == TypeOK /\ JobsInv /\ Next => JobsOK' /\ JobsInv'
<1>. SUFFICES ASSUME TypeOK, JobsInv, Next PROVE JobsOK' /\ JobsInv'
  OBVIOUS
<1>0. JobsOK /\ ClientsOK /\ ServerOK
  BY DEF TypeOK
<1>1. ASSUME UNCHANGED <<jobs, sent, hello>> PROVE JobsOK' /\ JobsInv'
  BY <1>0, <1>1, JobsKept
<1>2. CASE SessionBroadcast
  <2>1. Session \in Procs /\ 1 \in Nat
    BY DEF Procs
  <2>2. PICK j \in Job : /\ j = Broadcast(Session, 1) /\ j.ev.n = sent[Session] + 1
                         /\ JobOK(Session, j, hello')
    BY <1>0, <2>1, NewJobs
  <2>3. PICK js \in Seq(Job) : js = <<j>>
    BY FewJobs
  <2>4. DOMAIN js = {1} /\ js[1] = j
    BY <2>3
  <2>5. Begin(Session, js) /\ hello' = hello
    BY <1>2, <2>2, <2>3 DEF SessionBroadcast, flags
  <2>. QED
    BY <1>0, <2>1, <2>2, <2>4, <2>5, BeginKeeps
<1>3. ASSUME NEW p \in Procs, TakeSnapshot(p) PROVE JobsOK' /\ JobsInv'
  <2>1. PICK t \in SUBSET Clients : t = tracked
    BY <1>0 DEF ServerOK
  <2>2. /\ jobs[p] # << >> /\ Current(p).stage = "snapshot"
        /\ GoOn(p, "next", t, {}) /\ UNCHANGED <<sent, hello>>
    BY <1>3, <2>1 DEF TakeSnapshot, Stage, flags
  <2>3. JobOK(p, Current(p), hello)
    BY <1>0, <2>2, CurrentJob DEF JobsInv
  <2>4. Current(p).ev.kind = "bcast"
    BY <2>2, <2>3 DEF JobOK
  <2>. QED
    BY <1>0, <2>2, <2>4, GoingKeeps
<1>4. ASSUME NEW p \in Procs, NextTarget(p) PROVE JobsOK' /\ JobsInv'
  <2>1. jobs[p] # << >> /\ Current(p).stage = "next" /\ UNCHANGED <<sent, hello>>
    BY <1>4 DEF NextTarget, Stage, flags
  <2>2. Current(p) \in Job /\ JobOK(p, Current(p), hello)
    BY <1>0, <2>1, CurrentJob DEF JobsInv
  <2>3. PICK c \in Current(p).todo : \E s \in {"next", "try"} :
            /\ GoOn(p, s, Current(p).todo \ {c}, {c})
            /\ s = "try" => (Current(p).ev.kind = "bcast" => hello[c])
    BY <1>4 DEF NextTarget
  <2>4. PICK s \in {"next", "try"} :
            /\ GoOn(p, s, Current(p).todo \ {c}, {c})
            /\ s = "try" => (Current(p).ev.kind = "bcast" => hello[c])
    BY <2>3
  <2>5. PICK left \in SUBSET Clients : left = Current(p).todo \ {c}
    BY <2>2, JobFields
  <2>6. c \in Clients /\ c \notin left
    BY <2>2, <2>5, JobFields
  <2>7. Current(p).ev.kind # "bcast" => c = p /\ left \subseteq {p}
    BY <2>2, <2>5 DEF JobOK
  <2>8. s = "try" => (Current(p).ev.kind # "fatal" => hello[c])
    BY <2>2, <2>4, <2>7, JobFields DEF JobOK, Kinds
  <2>. QED
    BY <1>0, <2>1, <2>4, <2>5, <2>6, <2>7, <2>8, GoingKeeps
<1>5. ASSUME NEW p \in Procs, TryEnqueue(p) \/ DropOldest(p) PROVE JobsOK' /\ JobsInv'
  <2>1. jobs[p] # << >> /\ UNCHANGED <<sent, hello>> /\ (Stage(p, "try") \/ Stage(p, "drop"))
    BY <1>5 DEF TryEnqueue, DropOldest, Stage, flags
  <2>2. PICK s \in {"next", "try", "drop"} : GoOn(p, s, Current(p).todo, Current(p).to)
    BY <1>5 DEF TryEnqueue, DropOldest, Turn
  <2>3. Current(p) \in Job /\ JobOK(p, Current(p), hello)
    BY <1>0, <2>1, CurrentJob DEF JobsInv
  <2>4. PICK left \in SUBSET Clients, to \in SUBSET Clients : left = Current(p).todo /\ to = Current(p).to
    BY <2>3, JobFields
  <2>5. /\ Target(p) \in Clients /\ to = {Target(p)} /\ Target(p) \notin left
        /\ Current(p).ev.kind # "fatal" => hello[Target(p)]
    BY <1>0, <2>1, <2>4, TargetFacts
  <2>6. Current(p).ev.kind # "bcast" => left \subseteq {p} /\ to \subseteq {p}
    BY <2>3, <2>4 DEF JobOK
  <2>. QED
    BY <1>0, <2>1, <2>2, <2>4, <2>5, <2>6, GoingKeeps
<1>6. ASSUME NEW p \in Procs, FinishJob(p) PROVE JobsOK' /\ JobsInv'
  BY <1>0, <1>6, FinishKeeps
<1>7. ASSUME NEW c \in Clients, ReadHello(c) \/ ReadFatal(c) \/ ReadCommand(c) PROVE JobsOK' /\ JobsInv'
  <2>1. PICK kind \in Kinds : /\ Begin(c, <<Reply(c, kind, 1)>>)
                              /\ kind = "fatal" \/ hello'[c]
                              /\ \A d \in Clients : hello[d] => hello'[d]
    <3>1. CASE ReadHello(c)
      BY <1>0, <3>1 DEF ReadHello, Read, Kinds, ClientsOK
    <3>2. CASE ReadFatal(c)
      BY <3>2 DEF ReadFatal, Read, Kinds
    <3>3. CASE ReadCommand(c)
      BY <3>3 DEF ReadCommand, Read, Kinds
    <3>. QED
      BY <1>7, <3>1, <3>2, <3>3
  <2>2. c \in Procs /\ 1 \in Nat
    BY DEF Procs
  <2>3. PICK j \in Job : j = Reply(c, kind, 1) /\ j.ev.n = sent[c] + 1 /\ JobOK(c, j, hello')
    BY <1>0, <2>1, <2>2, NewJobs
  <2>4. PICK js \in Seq(Job) : js = <<j>>
    BY FewJobs
  <2>5. DOMAIN js = {1} /\ js[1] = j
    BY <2>4
  <2>. QED
    BY <1>0, <2>1, <2>2, <2>3, <2>4, <2>5, BeginKeeps
<1>8. ASSUME NEW c \in Clients, ReadMarkRead(c) PROVE JobsOK' /\ JobsInv'
  <2>1. hello[c] /\ hello' = hello /\ Begin(c, <<Broadcast(c, 1), Reply(c, "reply", 2)>>)
    BY <1>8 DEF ReadMarkRead, Read
  <2>2. c \in Procs /\ 1 \in Nat /\ 2 \in Nat /\ "reply" \in Kinds
    BY DEF Procs, Kinds
  <2>3. PICK j \in Job : j = Broadcast(c, 1) /\ j.ev.n = sent[c] + 1 /\ JobOK(c, j, hello')
    BY <1>0, <2>2, NewJobs
  <2>4. PICK k \in Job : k = Reply(c, "reply", 2) /\ k.ev.n = sent[c] + 2 /\ JobOK(c, k, hello')
    BY <1>0, <2>1, <2>2, NewJobs
  <2>5. PICK js \in Seq(Job) : js = <<j, k>>
    BY FewJobs
  <2>6. DOMAIN js = {1, 2} /\ js[1] = j /\ js[2] = k
    BY <2>5
  <2>. QED
    BY <1>0, <2>1, <2>2, <2>3, <2>4, <2>5, <2>6, BeginKeeps
<1>9. CASE Cancel \/ CloseServer \/ CloseListener \/ CloseDone \/ CloseClientConn
  BY <1>1, <1>9 DEF Cancel, CloseServer, CloseListener, CloseDone, CloseClientConn, work, flags
<1>10. CASE AddClient \/ ServeReturns \/ SpawnServe
  BY <1>1, <1>10 DEF AddClient, ServeReturns, SpawnServe, work, flags
<1>11. ASSUME NEW c \in Clients, Accept(c) \/ CloseClientFlag(c) PROVE JobsOK' /\ JobsInv'
  BY <1>1, <1>11 DEF Accept, CloseClientFlag, work
<1>12. ASSUME NEW c \in Clients, ReadOversizeHistory(c) \/ ScanEnds(c) PROVE JobsOK' /\ JobsInv'
  BY <1>1, <1>12 DEF ReadOversizeHistory, ScanEnds, work, flags
<1>13. ASSUME NEW c \in Clients, Closing(c) PROVE JobsOK' /\ JobsInv'
  BY <1>1, <1>13 DEF Closing, StopWriting, WriterStopped, WaitTimesOut, EndServe, work, flags
<1>14. ASSUME NEW c \in Clients, WritingOut(c) PROVE JobsOK' /\ JobsInv'
  BY <1>1, <1>14 DEF WritingOut, WriteLine, WriteFails, WriterShutdown, WriterExits, work, flags
<1>. QED
  BY <1>2, <1>3, <1>4, <1>5, <1>6, <1>7, <1>8, <1>9, <1>10, <1>11, <1>12, <1>13, <1>14
  DEF Next, Delivering, Reading

\* A queue changes at its ends only.
LEMMA QueueMoves ==
  ASSUME TypeOK, JobsInv, Next
  PROVE  \/ UNCHANGED <<out, wire>>
         \/ \E p \in Procs, c \in Clients : Queues(p, c)
         \/ \E c \in Clients : Leaves(c)
<1>0. QueuesOK /\ JobsOK
  BY DEF TypeOK
<1>1. ASSUME NEW p \in Procs, TryEnqueue(p)
      PROVE  UNCHANGED <<out, wire>> \/ \E c \in Clients : Queues(p, c)
  <2>1. PICK c \in Clients : c = Target(p)
    BY <1>0, <1>1, TargetFacts DEF TryEnqueue
  <2>2. /\ Stage(p, "try") /\ wire' = wire /\ UNCHANGED <<sent, hello>>
        /\ \/ out' = out
           \/ Len(out[c]) < QueueCap /\ out' = [out EXCEPT ![c] = Append(@, Current(p).ev)] /\ Turn(p, "next")
    BY <1>1, <2>1 DEF TryEnqueue, flags
  <2>. QED
    BY <2>1, <2>2 DEF Queues
<1>2. ASSUME NEW p \in Procs, DropOldest(p)
      PROVE  UNCHANGED <<out, wire>> \/ \E c \in Clients : Leaves(c)
  <2>1. PICK c \in Clients : c = Target(p)
    BY <1>0, <1>2, TargetFacts DEF DropOldest
  <2>2. wire' = wire /\ out' = [out EXCEPT ![c] = IF @ = << >> THEN @ ELSE Tail(@)]
    BY <1>2, <2>1 DEF DropOldest
  <2>3. CASE out[c] = << >>
    BY <1>0, <2>2, <2>3 DEF QueuesOK
  <2>4. CASE out[c] # << >>
    BY <2>2, <2>4 DEF Leaves
  <2>. QED
    BY <2>3, <2>4
<1>3. ASSUME NEW c \in Clients, WriteLine(c) \/ WriteFails(c) PROVE Leaves(c)
  BY <1>3 DEF WriteLine, WriteFails, Leaves
<1>4. CASE Cancel \/ CloseServer \/ CloseListener \/ CloseDone \/ CloseClientConn
  BY <1>4 DEF Cancel, CloseServer, CloseListener, CloseDone, CloseClientConn, queues
<1>5. CASE AddClient \/ ServeReturns \/ SpawnServe \/ SessionBroadcast
  BY <1>5 DEF AddClient, ServeReturns, SpawnServe, SessionBroadcast, queues
<1>6. ASSUME NEW p \in Procs, TakeSnapshot(p) \/ NextTarget(p) \/ FinishJob(p) PROVE UNCHANGED <<out, wire>>
  BY <1>6 DEF TakeSnapshot, NextTarget, FinishJob, queues
<1>7. ASSUME NEW c \in Clients, Accept(c) \/ CloseClientFlag(c) PROVE UNCHANGED <<out, wire>>
  BY <1>7 DEF Accept, CloseClientFlag, queues
<1>8. ASSUME NEW c \in Clients, Reading(c) PROVE UNCHANGED <<out, wire>>
  BY <1>8 DEF Reading, Read, ReadHello, ReadFatal, ReadCommand, ReadMarkRead, ReadOversizeHistory,
            ScanEnds, queues
<1>9. ASSUME NEW c \in Clients, Closing(c) PROVE UNCHANGED <<out, wire>>
  BY <1>9 DEF Closing, StopWriting, WriterStopped, WaitTimesOut, EndServe, queues
<1>10. ASSUME NEW c \in Clients, WriterShutdown(c) \/ WriterExits(c) PROVE UNCHANGED <<out, wire>>
  BY <1>10 DEF WriterShutdown, WriterExits, queues
<1>. QED
  BY <1>1, <1>2, <1>3, <1>4, <1>5, <1>6, <1>7, <1>8, <1>9, <1>10 DEF Next, Delivering, WritingOut

\* The queues hold events, and never more than their capacity.
LEMMA QueuesStep == TypeOK /\ JobsInv /\ Next => QueuesOK'
<1>. SUFFICES ASSUME TypeOK, JobsInv, Next PROVE QueuesOK'
  OBVIOUS
<1>0. QueuesOK /\ JobsOK
  BY DEF TypeOK
<1>1. CASE UNCHANGED <<out, wire>>
  BY <1>0, <1>1 DEF QueuesOK
<1>2. ASSUME NEW p \in Procs, NEW c \in Clients, Queues(p, c) PROVE QueuesOK'
  <2>1. PICK e \in Event : e = Current(p).ev
    BY <1>0, <1>2, CurrentJob, JobFields DEF Queues, Stage
  <2>2. Len(out[c]) < QueueCap /\ wire' = wire /\ out' = [out EXCEPT ![c] = Append(@, e)]
    BY <1>2, <2>1 DEF Queues
  <2>3. out[c] \in Seq(Event)
    BY <1>0 DEF QueuesOK
  <2>4. Append(out[c], e) \in Seq(Event) /\ Len(Append(out[c], e)) <= QueueCap
    BY <2>2, <2>3, AppendFacts, SeqFacts, HubAssumption
  <2>. QED
    BY <1>0, <2>2, <2>4 DEF QueuesOK
<1>3. ASSUME NEW c \in Clients, Leaves(c) PROVE QueuesOK'
  <2>1. /\ out[c] \in Seq(Event) /\ Len(out[c]) <= QueueCap /\ wire[c] \in Seq(Event)
        /\ out[c] # << >> /\ out' = [out EXCEPT ![c] = Tail(@)]
    BY <1>0, <1>3 DEF QueuesOK, Leaves
  <2>2. Tail(out[c]) \in Seq(Event) /\ Len(Tail(out[c])) \in Nat /\ Len(Tail(out[c])) + 1 = Len(out[c])
    BY <2>1, TailFacts, SeqFacts
  <2>3. Len(Tail(out[c])) <= QueueCap
    BY <2>1, <2>2, HubAssumption
  <2>4. Head(out[c]) \in Event
    BY <2>1, SeqFacts
  <2>5. Append(wire[c], Head(out[c])) \in Seq(Event)
    BY <2>1, <2>4, AppendFacts
  <2>6. out' \in [Clients -> Seq(Event)] /\ \A d \in Clients : Len(out'[d]) <= QueueCap
    BY <1>0, <2>1, <2>2, <2>3 DEF QueuesOK
  <2>7. wire' \in [Clients -> Seq(Event)]
    BY <1>0, <1>3, <2>5 DEF QueuesOK, Leaves
  <2>. QED
    BY <2>6, <2>7 DEF QueuesOK
<1>. QED
  BY <1>1, <1>2, <1>3, QueueMoves

-----------------------------------------------------------------------------
(* The life of a connection                                                *)

\* A job goes on and stays its goroutine's current one.
LEMMA GoesOn ==
  ASSUME JobsOK, ServerOK, NEW p \in Procs, TakeSnapshot(p) \/ NextTarget(p) \/ TryEnqueue(p) \/ DropOldest(p)
  PROVE  /\ jobs[p] # << >>
         /\ \E s \in {"next", "try", "drop"}, left \in SUBSET Clients, to \in SUBSET Clients :
               Went(p, s, left, to)
<1>1. jobs[p] # << >>
  BY DEF TakeSnapshot, NextTarget, TryEnqueue, DropOldest, Stage
<1>2. Current(p).todo \in SUBSET Clients /\ Current(p).to \in SUBSET Clients
  BY <1>1, CurrentJob, JobFields
<1>3. \E s \in {"next", "try", "drop"}, left \in SUBSET Clients, to \in SUBSET Clients : GoOn(p, s, left, to)
  <2>1. CASE TakeSnapshot(p)
    BY <2>1 DEF TakeSnapshot, ServerOK
  <2>2. CASE NextTarget(p)
    <3>1. PICK c \in Current(p).todo : \E s \in {"next", "try"} : GoOn(p, s, Current(p).todo \ {c}, {c})
      BY <2>2 DEF NextTarget
    <3>2. PICK left \in SUBSET Clients, to \in SUBSET Clients : left = Current(p).todo \ {c} /\ to = {c}
      BY <1>2
    <3>. QED
      BY <3>1, <3>2
  <2>3. CASE TryEnqueue(p) \/ DropOldest(p)
    <3>1. \E s \in {"next", "try", "drop"} : GoOn(p, s, Current(p).todo, Current(p).to)
      BY <2>3 DEF TryEnqueue, DropOldest, Turn
    <3>. QED
      BY <1>2, <3>1
  <2>. QED
    BY <2>1, <2>2, <2>3
<1>. QED
  BY <1>1, <1>3, Going

\* A step keeps the life of a connection.
LEMMA LifeStep == TypeOK /\ LifeInv /\ Next => LifeInv'
<1>. SUFFICES ASSUME TypeOK, LifeInv, Next PROVE LifeInv'
  OBVIOUS
<1>0. JobsOK /\ ClientsOK /\ ServerOK
  BY DEF TypeOK
<1>. USE DEF LifeInv, EndedClientForgotten
<1>1. CASE Cancel \/ CloseServer \/ CloseListener \/ CloseDone \/ ServeReturns
  BY <1>1 DEF Cancel, CloseServer, CloseListener, CloseDone, ServeReturns, work, flags, serving, goroutines
<1>2. CASE CloseClientConn
  BY <1>0, <1>2 DEF CloseClientConn, work, serving, goroutines, ClientsOK, ServerOK
<1>3. CASE AddClient
  BY <1>0, <1>3 DEF AddClient, work, flags, goroutines, ServerOK
<1>4. CASE SpawnServe
  BY <1>0, <1>4 DEF SpawnServe, work, flags, ServerOK, ClientsOK
<1>5. CASE SessionBroadcast
  <2>1. \A c \in Clients : jobs'[c] = jobs[c]
    BY <1>0, <1>5, HubAssumption DEF SessionBroadcast, Begin, JobsOK, Procs
  <2>. QED
    BY <1>5, <2>1 DEF SessionBroadcast, serving, goroutines, flags
<1>6. ASSUME NEW p \in Procs, TakeSnapshot(p) \/ NextTarget(p) \/ TryEnqueue(p) \/ DropOldest(p)
      PROVE  LifeInv'
  <2>1. \A c \in Clients : jobs'[c] # << >> => jobs[c] # << >>
    BY <1>0, <1>6, GoesOn DEF Went, Procs
  <2>2. UNCHANGED <<tracked, acceptor, reader, conn>>
    BY <1>6 DEF TakeSnapshot, NextTarget, TryEnqueue, DropOldest, serving, goroutines, flags
  <2>. QED
    BY <2>1, <2>2
<1>7. ASSUME NEW p \in Procs, FinishJob(p) PROVE LifeInv'
  <2>0. jobs[p] # << >> /\ UNCHANGED <<tracked, acceptor, conn>>
    BY <1>7 DEF FinishJob, Stage, serving, flags
  <2>1. /\ jobs[p] # << >> /\ jobs[p] \in Seq(Job)
        /\ jobs'[p] = Tail(jobs[p]) /\ \A q \in Procs : q # p => jobs'[q] = jobs[q]
    BY <1>0, <1>7, <2>0 DEF FinishJob, JobsOK
  <2>2. Len(jobs[p]) \in Nat /\ Len(jobs'[p]) + 1 = Len(jobs[p]) /\ jobs'[p] \in Seq(Job)
    BY <2>1, TailFacts, SeqFacts
  <2>3. Len(jobs'[p]) \in Nat /\ (jobs'[p] # << >> => Len(jobs'[p]) # 0)
    BY <2>2, SeqFacts
  <2>4. jobs'[p] # << >> => Len(jobs[p]) # 1
    <3>1. PICK l \in Nat : l = Len(jobs'[p])
      BY <2>3
    <3>2. l # 0 => l + 1 # 1
      OBVIOUS
    <3>. QED
      BY <2>2, <2>3, <3>1, <3>2
  <2>5. CASE p = Session
    <3>1. reader' = reader /\ \A c \in Clients : jobs'[c] = jobs[c]
      BY <1>7, <2>1, <2>5, HubAssumption DEF FinishJob, Procs
    <3>2. \A c \in Clients : jobs'[c] # << >> => reader'[c] = "busy"
      BY <3>1
    <3>. QED
      BY <2>0, <3>1, <3>2
  <2>6. CASE p # Session
    <3>1. p \in Clients /\ reader[p] = "busy"
      BY <2>1, <2>6 DEF Procs
    <3>2. /\ reader'[p] \in {"busy", "stop", "scan"} /\ (jobs'[p] # << >> => reader'[p] = "busy")
          /\ \A c \in Clients : c # p => reader'[c] = reader[c]
      BY <1>0, <1>7, <2>4, <3>1 DEF FinishJob, ClientsOK
    <3>3. \A c \in Clients : c # p => jobs'[c] = jobs[c]
      BY <2>1 DEF Procs
    <3>4. p \notin acceptor.c /\ conn[p] # "none" /\ acceptor.c \subseteq Clients
      BY <1>0, <3>1 DEF ServerOK
    <3>. QED
      BY <2>0, <2>1, <3>1, <3>2, <3>3, <3>4
  <2>. QED
    BY <2>5, <2>6
<1>8. ASSUME NEW c \in Clients, Accept(c) PROVE LifeInv'
  BY <1>0, <1>8 DEF Accept, work, goroutines, ClientsOK
<1>9. ASSUME NEW c \in Clients, CloseClientFlag(c) PROVE LifeInv'
  BY <1>0, <1>9 DEF CloseClientFlag, work, goroutines, serving
<1>10. ASSUME NEW c \in Clients, NEW js, Read(c, js) PROVE LifeInv'
  <2>1. /\ reader[c] = "scan" /\ reader'[c] = "busy" /\ UNCHANGED <<tracked, acceptor, conn>>
        /\ \A d \in Clients : d # c => jobs'[d] = jobs[d] /\ reader'[d] = reader[d]
    BY <1>0, <1>10 DEF Read, Begin, serving, ClientsOK, JobsOK, Procs
  <2>2. c \notin acceptor.c /\ acceptor.c \subseteq Clients /\ conn[c] # "none"
    BY <1>0, <2>1 DEF ServerOK
  <2>. QED
    BY <2>1, <2>2
<1>11. ASSUME NEW c \in Clients, ReadHello(c) \/ ReadFatal(c) \/ ReadCommand(c) \/ ReadMarkRead(c)
      PROVE  LifeInv'
  BY <1>10, <1>11 DEF ReadHello, ReadFatal, ReadCommand, ReadMarkRead
<1>12. ASSUME NEW c \in Clients, ReadOversizeHistory(c) \/ WritingOut(c) PROVE LifeInv'
  BY <1>0, <1>12 DEF ReadOversizeHistory, WritingOut, WriteLine, WriteFails, WriterShutdown, WriterExits,
                    work, goroutines, serving, flags
<1>13. ASSUME NEW c \in Clients, ScanEnds(c) \/ StopWriting(c) \/ WriterStopped(c) \/ WaitTimesOut(c)
      PROVE  LifeInv'
  <2>1. /\ reader[c] \in {"scan", "stop", "wait"} /\ reader'[c] \in {"stop", "wait", "close"}
        /\ UNCHANGED <<tracked, acceptor, conn, jobs>>
        /\ \A d \in Clients : d # c => reader'[d] = reader[d]
    BY <1>0, <1>13 DEF ScanEnds, StopWriting, WriterStopped, WaitTimesOut, work, serving, flags, ClientsOK
  <2>2. c \notin acceptor.c /\ acceptor.c \subseteq Clients
    BY <1>0, <2>1 DEF ServerOK
  <2>. QED
    BY <2>1, <2>2
<1>14. ASSUME NEW c \in Clients, EndServe(c) PROVE LifeInv'
  <2>1. /\ reader[c] = "close" /\ reader'[c] = "end" /\ conn'[c] = "closed" /\ tracked' = tracked \ {c}
        /\ UNCHANGED <<acceptor, jobs>>
        /\ \A d \in Clients : d # c => reader'[d] = reader[d] /\ conn'[d] = conn[d]
    BY <1>0, <1>14 DEF EndServe, work, ClientsOK
  <2>2. c \notin acceptor.c /\ acceptor.c \subseteq Clients
    BY <1>0, <2>1 DEF ServerOK
  <2>. QED
    BY <2>1, <2>2
<1>. QED
  BY <1>1, <1>2, <1>3, <1>4, <1>5, <1>6, <1>7, <1>8, <1>9, <1>11, <1>12, <1>13, <1>14
  DEF Next, Delivering, Reading, Closing

\* A step keeps who may have closed it.
LEMMA ClosedStep == TypeOK /\ LifeInv /\ ClosedInv /\ Next => ClosedInv'
<1>. SUFFICES ASSUME ClientsOK, ServerOK, LifeInv, ClosedInv, Next PROVE ClosedInv'
  BY DEF TypeOK
<1>. USE DEF ClosedInv, ClientsOK
<1>1. CASE Cancel
  BY <1>1 DEF Cancel, goroutines, flags, queues
<1>2. CASE CloseServer
  BY <1>2 DEF CloseServer, goroutines, flags, queues
<1>3. CASE CloseListener \/ CloseDone
  BY <1>3 DEF CloseListener, CloseDone, goroutines, flags, queues, ServerOK
<1>4. CASE CloseClientConn
  BY <1>4 DEF CloseClientConn, goroutines, queues, ServerOK
<1>5. CASE AddClient \/ ServeReturns
  BY <1>5 DEF AddClient, ServeReturns, closing, goroutines, flags, queues
<1>6. CASE SpawnServe
  <2>1. PICK c \in acceptor.c : /\ reader' = [reader EXCEPT ![c] = "scan"]
                                /\ writer' = [writer EXCEPT ![c] = "loop"]
    BY <1>6 DEF SpawnServe
  <2>2. c \in Clients /\ reader[c] = "off"
    BY <2>1 DEF LifeInv, ServerOK
  <2>. QED
    BY <1>6, <2>1, <2>2 DEF SpawnServe, closing, flags, queues
<1>7. CASE SessionBroadcast
  BY <1>7 DEF SessionBroadcast, closing, goroutines, flags, queues
<1>8. ASSUME NEW p \in Procs, TakeSnapshot(p) \/ NextTarget(p) \/ TryEnqueue(p) PROVE ClosedInv'
  BY <1>8 DEF TakeSnapshot, NextTarget, TryEnqueue, closing, goroutines, flags, queues
<1>9. ASSUME NEW p \in Procs, DropOldest(p) PROVE ClosedInv'
  BY <1>9 DEF DropOldest, closing, goroutines, flags
<1>10. ASSUME NEW p \in Procs, FinishJob(p) PROVE ClosedInv'
  <2>0. jobs[p] # << >> /\ (p \in Clients => reader[p] = "busy")
    BY <1>10 DEF FinishJob, Stage, LifeInv
  <2>1. \/ reader' = reader
        \/ /\ p \in Clients /\ reader[p] = "busy"
           /\ \E s \in {"stop", "scan"} : reader' = [reader EXCEPT ![p] = s]
    BY <1>10, <2>0 DEF FinishJob, Procs
  <2>2. UNCHANGED <<closing, writer, flags, queues>>
    BY <1>10 DEF FinishJob
  <2>. QED
    BY <2>1, <2>2 DEF closing, flags, queues
<1>11. ASSUME NEW c \in Clients, Accept(c) PROVE ClosedInv'
  BY <1>11 DEF Accept, closing, goroutines, queues
<1>12. ASSUME NEW c \in Clients, CloseClientFlag(c) PROVE ClosedInv'
  <2>1. srvClosed /\ srvClosed' /\ ctxDone' = ctxDone /\ UNCHANGED <<goroutines, queues>>
    BY <1>12 DEF CloseClientFlag
  <2>2. \A d \in Clients : (closed[d] => closed'[d]) /\ (shut[d] => shut'[d])
    BY <1>12 DEF CloseClientFlag
  <2>. QED
    BY <2>1, <2>2 DEF goroutines, queues
<1>13. ASSUME NEW c \in Clients, ReadHello(c) \/ ReadCommand(c) \/ ReadMarkRead(c) PROVE ClosedInv'
  BY <1>13 DEF ReadHello, ReadCommand, ReadMarkRead, Read, closing
<1>14. ASSUME NEW c \in Clients, ReadFatal(c) PROVE ClosedInv'
  BY <1>14 DEF ReadFatal, Read, closing
<1>15. ASSUME NEW c \in Clients, ReadOversizeHistory(c) PROVE ClosedInv'
  BY <1>15 DEF ReadOversizeHistory, closing, goroutines, flags, queues
<1>16. ASSUME NEW c \in Clients, ScanEnds(c) PROVE ClosedInv'
  BY <1>16 DEF ScanEnds, flags, queues
<1>17. ASSUME NEW c \in Clients, StopWriting(c) PROVE ClosedInv'
  BY <1>17 DEF StopWriting, closing, queues
<1>18. ASSUME NEW c \in Clients, WriterStopped(c) PROVE ClosedInv'
  BY <1>18 DEF WriterStopped, closing, flags, queues
<1>19. ASSUME NEW c \in Clients, WaitTimesOut(c) PROVE ClosedInv'
  BY <1>19 DEF WaitTimesOut, flags
<1>20. ASSUME NEW c \in Clients, EndServe(c) PROVE ClosedInv'
  BY <1>20 DEF EndServe, closing, queues
<1>21. ASSUME NEW c \in Clients, WriteLine(c) PROVE ClosedInv'
  BY <1>21 DEF WriteLine, closing, flags, goroutines
<1>22. ASSUME NEW c \in Clients, WriteFails(c) PROVE ClosedInv'
  BY <1>22 DEF WriteFails, flags
<1>23. ASSUME NEW c \in Clients, WriterShutdown(c) PROVE ClosedInv'
  BY <1>23 DEF WriterShutdown, closing, flags, queues
<1>24. ASSUME NEW c \in Clients, WriterExits(c) PROVE ClosedInv'
  BY <1>24 DEF WriterExits, closing, flags, queues
<1>. QED
  BY <1>1, <1>2, <1>3, <1>4, <1>5, <1>6, <1>7, <1>8, <1>9, <1>10, <1>11, <1>12, <1>13, <1>14,
     <1>15, <1>16, <1>17, <1>18, <1>19, <1>20, <1>21, <1>22, <1>23, <1>24 DEF Next, Delivering, Reading, Closing, WritingOut

-----------------------------------------------------------------------------
(* Nothing before hello                                                    *)

\* A frontend that has greeted stays greeted.
LEMMA HelloGrows ==
  ASSUME ClientsOK, Next, NEW c \in Clients, hello[c]
  PROVE  hello'[c]
<1>1. CASE Cancel \/ CloseServer \/ CloseListener \/ CloseDone \/ CloseClientConn
  BY <1>1 DEF Cancel, CloseServer, CloseListener, CloseDone, CloseClientConn, flags
<1>2. CASE AddClient \/ ServeReturns \/ SpawnServe \/ SessionBroadcast
  BY <1>2 DEF AddClient, ServeReturns, SpawnServe, SessionBroadcast, flags
<1>3. ASSUME NEW p \in Procs, Delivering(p) PROVE hello' = hello
  BY <1>3 DEF Delivering, TakeSnapshot, NextTarget, TryEnqueue, DropOldest, FinishJob, flags
<1>4. ASSUME NEW d \in Clients, Accept(d) \/ CloseClientFlag(d) PROVE hello' = hello
  BY <1>4 DEF Accept, CloseClientFlag
<1>5. ASSUME NEW d \in Clients, ReadHello(d) PROVE hello'[c]
  BY <1>5 DEF ReadHello, ClientsOK
<1>6. ASSUME NEW d \in Clients, ReadFatal(d) \/ ReadCommand(d) \/ ReadMarkRead(d)
                                 \/ ReadOversizeHistory(d) \/ ScanEnds(d)
      PROVE  hello' = hello
  BY <1>6 DEF ReadFatal, ReadCommand, ReadMarkRead, ReadOversizeHistory, ScanEnds, flags
<1>7. ASSUME NEW d \in Clients, Closing(d) PROVE hello' = hello
  BY <1>7 DEF Closing, StopWriting, WriterStopped, WaitTimesOut, EndServe, flags
<1>8. ASSUME NEW d \in Clients, WritingOut(d) PROVE hello' = hello
  BY <1>8 DEF WritingOut, WriteLine, WriteFails, WriterShutdown, WriterExits, flags
<1>. QED
  BY <1>1, <1>2, <1>3, <1>4, <1>5, <1>6, <1>7, <1>8 DEF Next, Reading

\* A step keeps everything but errors from a frontend that has not greeted.
LEMMA HelloStep == TypeOK /\ JobsInv /\ HelloInv /\ Next => HelloInv'
<1>. SUFFICES ASSUME TypeOK, JobsInv, HelloInv, Next, NEW d \in Clients, ~hello'[d]
              PROVE  /\ \A i \in DOMAIN out'[d] : out'[d][i].kind = "fatal"
                     /\ \A i \in DOMAIN wire'[d] : wire'[d][i].kind = "fatal"
  BY DEF HelloInv
<1>0. QueuesOK /\ JobsOK /\ out[d] \in Seq(Event) /\ wire[d] \in Seq(Event)
  BY DEF TypeOK, QueuesOK
<1>1. /\ \A i \in DOMAIN out[d] : out[d][i].kind = "fatal"
      /\ \A i \in DOMAIN wire[d] : wire[d][i].kind = "fatal"
  BY HelloGrows DEF HelloInv, TypeOK
<1>2. CASE UNCHANGED <<out, wire>>
  BY <1>1, <1>2
<1>3. ASSUME NEW p \in Procs, NEW c \in Clients, Queues(p, c)
      PROVE  wire' = wire /\ \A i \in DOMAIN out'[d] : out'[d][i].kind = "fatal"
  <2>1. wire' = wire /\ hello' = hello /\ (c = d => ~hello[c]) /\ c = Target(p) /\ Stage(p, "try")
    BY <1>3 DEF Queues
  <2>2. PICK e \in Event : e = Current(p).ev
    BY <1>0, <2>1, CurrentJob, JobFields DEF Stage
  <2>3. c = d => e.kind = "fatal"
    BY <1>0, <2>1, <2>2, TargetFacts
  <2>4. out'[d] = IF c = d THEN Append(out[d], e) ELSE out[d]
    BY <1>0, <1>3, <2>2 DEF Queues, QueuesOK
  <2>. QED
    BY <1>0, <1>1, <2>1, <2>3, <2>4, AppendFacts, SeqFacts
<1>4. ASSUME NEW c \in Clients, Leaves(c)
      PROVE  /\ \A i \in DOMAIN out'[d] : out'[d][i].kind = "fatal"
             /\ \A i \in DOMAIN wire'[d] : wire'[d][i].kind = "fatal"
  <2>1. /\ out[c] # << >> /\ out'[d] = IF c = d THEN Tail(out[d]) ELSE out[d]
        /\ wire'[d] = wire[d] \/ (c = d /\ wire'[d] = Append(wire[d], Head(out[d])))
    BY <1>0, <1>4 DEF Leaves, QueuesOK
  <2>2. \A i \in DOMAIN out'[d] : out'[d][i].kind = "fatal"
    BY <1>0, <1>1, <2>1, TailFacts
  <2>3. c = d => Head(out[d]) \in Event /\ Head(out[d]).kind = "fatal"
    BY <1>0, <1>1, <2>1, SeqFacts
  <2>4. ASSUME c = d, wire'[d] = Append(wire[d], Head(out[d]))
        PROVE  \A i \in DOMAIN wire'[d] : wire'[d][i].kind = "fatal"
    <3>1. PICK e \in Event : e = Head(out[d]) /\ e.kind = "fatal"
      BY <2>3, <2>4
    <3>. PICK w \in Seq(Event) : w = wire[d]
      BY <1>0
    <3>2. PICK v \in Seq(Event), l \in Nat :
            /\ v = Append(w, e) /\ l = Len(w) /\ DOMAIN w = 1..l /\ DOMAIN v = 1..(l + 1)
            /\ v[l + 1] = e /\ \A i \in 1..l : v[i] = w[i]
      BY Appended
    <3>3. ASSUME NEW i \in DOMAIN v PROVE v[i].kind = "fatal"
      <4>1. i \in DOMAIN w \/ i = l + 1
        BY <3>2
      <4>. QED
        BY <1>1, <3>1, <3>2, <4>1
    <3>. QED
      BY <2>4, <3>1, <3>2, <3>3
  <2>. QED
    BY <1>1, <2>1, <2>2, <2>4
<1>. QED
  BY <1>1, <1>2, <1>3, <1>4, QueueMoves

-----------------------------------------------------------------------------
(* The order of events                                                     *)

\* An event that is before the current one stays so: as a job goes on ...
LEMMA BeforeGoing ==
  ASSUME JobsOK, NEW p \in Procs, NEW s \in {"next", "try", "drop"}, NEW left, NEW to,
         Went(p, s, left, to), sent' = sent, NEW c \in Clients, NEW e \in Event, Before(c, e),
         Passed(p, c) => c \notin left /\ (s \in {"try", "drop"} => c \notin to)
  PROVE  Before(c, e)'
<1>1. e.from \in Procs
  BY DEF Event
<1>2. CASE e.from # p
  <2>1. jobs'[e.from] = jobs[e.from]
    BY <1>1, <1>2 DEF Went
  <2>. QED
    BY <2>1 DEF Before, Passed
<1>3. CASE e.from = p
  <2>1. Len(jobs'[p]) = Len(jobs[p])
    BY DEF Went
  <2>2. Passed(p, c) => Passed(p, c)'
    BY DEF Went, Passed
  <2>. QED
    BY <1>3, <2>1, <2>2 DEF Before
<1>. QED
  BY <1>2, <1>3

\* ... as a goroutine begins new jobs ...
LEMMA BeforeBegin ==
  ASSUME JobsOK, NEW p \in Procs, NEW js \in Seq(Job), Begin(p, js),
         NEW c \in Clients, NEW e \in Event, Before(c, e)
  PROVE  Before(c, e)'
<1>1. /\ jobs[p] = << >> /\ jobs'[p] = js /\ sent'[p] = sent[p] + Len(js)
      /\ \A q \in Procs : q # p => jobs'[q] = jobs[q] /\ sent'[q] = sent[q]
  BY DEF Begin, JobsOK
<1>2. e.from \in Procs /\ e.n \in Nat
  BY DEF Event
<1>3. CASE e.from # p
  BY <1>1, <1>2, <1>3 DEF Before, Passed
<1>4. CASE e.from = p
  <2>1. PICK l \in Nat, n \in Nat, t \in Nat : l = Len(js) /\ n = e.n /\ t = sent[p]
    BY <1>2, SeqFacts DEF JobsOK
  <2>2. n + 0 <= t
    BY <1>1, <1>4, <2>1, EmptyFacts DEF Before, Passed
  <2>3. n + l <= t + l
    BY <2>2
  <2>. QED
    BY <1>1, <1>4, <2>1, <2>3 DEF Before
<1>. QED
  BY <1>3, <1>4

\* ... as a job ends ...
LEMMA BeforeFinish ==
  ASSUME JobsOK, NEW p \in Procs, FinishJob(p), NEW c \in Clients, NEW e \in Event, Before(c, e)
  PROVE  Before(c, e)'
<1>1. jobs[p] # << >> /\ sent' = sent
  BY DEF FinishJob, Stage
<1>2. /\ jobs[p] \in Seq(Job) /\ jobs'[p] = Tail(jobs[p])
      /\ \A q \in Procs : q # p => jobs'[q] = jobs[q]
  BY DEF FinishJob, JobsOK
<1>3. e.from \in Procs /\ e.n \in Nat
  BY DEF Event
<1>4. CASE e.from # p
  BY <1>1, <1>2, <1>3, <1>4 DEF Before, Passed
<1>5. CASE e.from = p
  <2>0. jobs'[p] \in Seq(Job) /\ Len(jobs'[p]) + 1 = Len(jobs[p])
    BY <1>1, <1>2, TailFacts
  <2>1. PICK l \in Nat, n \in Nat, t \in Nat : l = Len(jobs'[p]) /\ n = e.n /\ t = sent[p]
    BY <1>3, <2>0, SeqFacts DEF JobsOK
  <2>2. n + (l + 1) <= t \/ n + (l + 1) = t + 1
    BY <1>5, <2>0, <2>1 DEF Before
  <2>3. n + l <= t
    BY <2>2
  <2>. QED
    BY <1>1, <1>5, <2>1, <2>3 DEF Before
<1>. QED
  BY <1>4, <1>5

\* ... and with every other step.
LEMMA BeforeKept ==
  ASSUME TypeOK, JobsInv, Next, NEW c \in Clients, NEW e \in Event, Before(c, e)
  PROVE  Before(c, e)'
<1>0. JobsOK /\ ServerOK
  BY DEF TypeOK
<1>1. ASSUME UNCHANGED <<jobs, sent>> PROVE Before(c, e)'
  BY <1>1 DEF Before, Passed
<1>2. ASSUME NEW p \in Procs, TakeSnapshot(p) PROVE Before(c, e)'
  <2>1. PICK t \in SUBSET Clients : t = tracked
    BY <1>0 DEF ServerOK
  <2>2. jobs[p] # << >> /\ Went(p, "next", t, {}) /\ sent' = sent /\ ~Passed(p, c)
    BY <1>0, <1>2, <2>1, Going DEF TakeSnapshot, Stage, Passed, Current
  <2>. QED
    BY <1>0, <2>2, BeforeGoing
<1>3. ASSUME NEW p \in Procs, NextTarget(p) PROVE Before(c, e)'
  <2>1. jobs[p] # << >> /\ sent' = sent
    BY <1>3 DEF NextTarget, Stage
  <2>2. PICK d \in Current(p).todo, s \in {"next", "try"} : GoOn(p, s, Current(p).todo \ {d}, {d})
    BY <1>3 DEF NextTarget
  <2>3. PICK left \in SUBSET Clients, to \in SUBSET Clients : left = Current(p).todo \ {d} /\ to = {d}
    BY <1>0, <2>1, CurrentJob, JobFields
  <2>4. Went(p, s, left, to)
    BY <1>0, <2>1, <2>2, <2>3, Going
  <2>5. Passed(p, c) => c \notin left /\ c \notin to
    BY <2>2, <2>3 DEF Passed, Current
  <2>. QED
    BY <1>0, <2>1, <2>4, <2>5, BeforeGoing
<1>4. ASSUME NEW p \in Procs, TryEnqueue(p) \/ DropOldest(p) PROVE Before(c, e)'
  <2>1. jobs[p] # << >> /\ sent' = sent /\ Current(p).stage \in {"try", "drop"}
    BY <1>4 DEF TryEnqueue, DropOldest, Stage
  <2>2. PICK s \in {"next", "try", "drop"} : GoOn(p, s, Current(p).todo, Current(p).to)
    BY <1>4 DEF TryEnqueue, DropOldest, Turn
  <2>3. PICK left \in SUBSET Clients, to \in SUBSET Clients : left = Current(p).todo /\ to = Current(p).to
    BY <1>0, <2>1, CurrentJob, JobFields
  <2>4. Went(p, s, left, to)
    BY <1>0, <2>1, <2>2, <2>3, Going
  <2>5. Passed(p, c) => c \notin left /\ c \notin to
    BY <2>1, <2>3 DEF Passed, Current
  <2>. QED
    BY <1>0, <2>1, <2>4, <2>5, BeforeGoing
<1>5. ASSUME NEW p \in Procs, FinishJob(p) PROVE Before(c, e)'
  BY <1>0, <1>5, BeforeFinish
<1>6. CASE SessionBroadcast
  <2>1. PICK p \in Procs, j \in Job : p = Session /\ j = Broadcast(Session, 1)
    BY <1>0, NewJobs DEF Procs
  <2>2. PICK js \in Seq(Job) : js = <<j>>
    BY FewJobs
  <2>3. Begin(p, js)
    BY <1>6, <2>1, <2>2 DEF SessionBroadcast
  <2>. QED
    BY <1>0, <2>3, BeforeBegin
<1>7. ASSUME NEW d \in Clients, ReadHello(d) \/ ReadFatal(d) \/ ReadCommand(d) PROVE Before(c, e)'
  <2>1. PICK kind \in Kinds : Begin(d, <<Reply(d, kind, 1)>>)
    BY <1>7 DEF ReadHello, ReadFatal, ReadCommand, Read, Kinds
  <2>2. PICK j \in Job : d \in Procs /\ j = Reply(d, kind, 1)
    BY <1>0, NewJobs DEF Procs
  <2>3. PICK js \in Seq(Job) : js = <<j>>
    BY FewJobs
  <2>. QED
    BY <1>0, <2>1, <2>2, <2>3, BeforeBegin
<1>8. ASSUME NEW d \in Clients, ReadMarkRead(d) PROVE Before(c, e)'
  <2>1. Begin(d, <<Broadcast(d, 1), Reply(d, "reply", 2)>>)
    BY <1>8 DEF ReadMarkRead, Read
  <2>2. PICK j \in Job, k \in Job : d \in Procs /\ j = Broadcast(d, 1) /\ k = Reply(d, "reply", 2)
    BY <1>0, NewJobs DEF Procs, Kinds
  <2>3. PICK js \in Seq(Job) : js = <<j, k>>
    BY FewJobs
  <2>. QED
    BY <1>0, <2>1, <2>2, <2>3, BeforeBegin
<1>9. CASE Cancel \/ CloseServer \/ CloseListener \/ CloseDone \/ CloseClientConn
  BY <1>1, <1>9 DEF Cancel, CloseServer, CloseListener, CloseDone, CloseClientConn, work
<1>10. CASE AddClient \/ ServeReturns \/ SpawnServe
  BY <1>1, <1>10 DEF AddClient, ServeReturns, SpawnServe, work
<1>11. ASSUME NEW d \in Clients, Accept(d) \/ CloseClientFlag(d) PROVE Before(c, e)'
  BY <1>1, <1>11 DEF Accept, CloseClientFlag, work
<1>12. ASSUME NEW d \in Clients, ReadOversizeHistory(d) \/ ScanEnds(d) PROVE Before(c, e)'
  BY <1>1, <1>12 DEF ReadOversizeHistory, ScanEnds, work
<1>13. ASSUME NEW d \in Clients, Closing(d) PROVE Before(c, e)'
  BY <1>1, <1>13 DEF Closing, StopWriting, WriterStopped, WaitTimesOut, EndServe, work
<1>14. ASSUME NEW d \in Clients, WritingOut(d) PROVE Before(c, e)'
  BY <1>1, <1>14 DEF WritingOut, WriteLine, WriteFails, WriterShutdown, WriterExits, work
<1>. QED
  BY <1>2, <1>3, <1>4, <1>5, <1>6, <1>7, <1>8, <1>9, <1>10, <1>11, <1>12, <1>13, <1>14
  DEF Next, Delivering, Reading

\* What is kept of each connection is the invariant.
LEMMA OrderAgain ==
  ASSUME \A d \in Clients : OrderKept(d)
  PROVE  OrderInv'
<1>. SUFFICES ASSUME NEW d \in Clients
              PROVE  (/\ \A i \in DOMAIN out[d] : Before(d, out[d][i])
                      /\ \A i \in DOMAIN wire[d] : Before(d, wire[d][i])
                      /\ Stands(wire[d], out[d]))'
  BY DEF OrderInv
<1>1. PICK w \in Seq(Event), o \in Seq(Event) :
        /\ wire'[d] = w /\ out'[d] = o /\ Stands(w, o)
        /\ \A i \in DOMAIN w : Before(d, w[i])'
        /\ \A i \in DOMAIN o : Before(d, o[i])'
  BY DEF OrderKept
<1>2. Stands(wire[d], out[d])'
  BY <1>1 DEF Stands, Ordered
<1>3. (\A i \in DOMAIN out[d] : Before(d, out[d][i]))'
  BY <1>1 DEF Before, Passed
<1>4. (\A i \in DOMAIN wire[d] : Before(d, wire[d][i]))'
  BY <1>1 DEF Before, Passed
<1>. QED
  BY <1>2, <1>3, <1>4

\* A step keeps each queue in order, and behind what is written.
LEMMA OrderStep == TypeOK /\ JobsInv /\ OrderInv /\ Next => OrderInv'
<1>. SUFFICES ASSUME TypeOK, JobsInv, OrderInv, Next, NEW d \in Clients PROVE OrderKept(d)
  BY OrderAgain
<1>0. QueuesOK /\ JobsOK
  BY DEF TypeOK
<1>1. PICK o \in Seq(Event), w \in Seq(Event) :
        /\ o = out[d] /\ w = wire[d] /\ Stands(w, o)
        /\ \A i \in DOMAIN o : Before(d, o[i])
        /\ \A i \in DOMAIN w : Before(d, w[i])
  BY <1>0 DEF OrderInv, QueuesOK
<1>2. /\ \A i \in DOMAIN o : Before(d, o[i])'
      /\ \A i \in DOMAIN w : Before(d, w[i])'
  <2>1. ASSUME NEW i \in DOMAIN o PROVE Before(d, o[i])'
    <3>1. PICK e \in Event : e = o[i]
      BY SeqFacts
    <3>. QED
      BY <1>1, <3>1, BeforeKept
  <2>2. ASSUME NEW i \in DOMAIN w PROVE Before(d, w[i])'
    <3>1. PICK e \in Event : e = w[i]
      BY SeqFacts
    <3>. QED
      BY <1>1, <3>1, BeforeKept
  <2>. QED
    BY <2>1, <2>2
<1>3. CASE UNCHANGED <<out, wire>>
  BY <1>1, <1>2, <1>3 DEF OrderKept
<1>4. ASSUME NEW p \in Procs, NEW c \in Clients, Queues(p, c) PROVE OrderKept(d)
  <2>1. jobs[p] # << >> /\ Stage(p, "try") /\ c = Target(p) /\ Turn(p, "next") /\ sent' = sent
    BY <1>4 DEF Queues, Stage
  <2>2. PICK e \in Event : e = Current(p).ev /\ e = jobs[p][1].ev
    BY <1>0, <2>1, CurrentJob, JobFields
  <2>3. wire'[d] = w /\ out'[d] = IF c = d THEN Append(o, e) ELSE o
    BY <1>0, <1>1, <1>4, <2>2 DEF Queues, QueuesOK
  <2>4. CASE c # d
    BY <1>1, <1>2, <2>3, <2>4 DEF OrderKept
  <2>5. CASE c = d
    <3>1. e.from = p /\ e.n + Len(jobs[p]) = sent[p] + 1
      BY <1>0, <2>1, <2>2, CurrentJob DEF JobsInv, JobOK
    <3>2. c \in Clients /\ jobs[p][1].to = {c} /\ c \notin jobs[p][1].todo /\ jobs[p][1].stage = "try"
      BY <1>0, <2>1, TargetFacts DEF Current, Stage
    <3>3. ASSUME NEW x \in Event, Before(d, x), x.from = e.from PROVE x.n < e.n
      <4>1. x.n + Len(jobs[p]) <= sent[p]
        BY <2>5, <3>1, <3>2, <3>3 DEF Before, Passed
      <4>2. PICK l \in Nat, m \in Nat, n \in Nat, t \in Nat :
               l = Len(jobs[p]) /\ m = x.n /\ n = e.n /\ t = sent[p]
        BY <1>0, SeqFacts DEF JobsOK, Event
      <4>3. m + l <= t /\ n + l = t + 1
        BY <3>1, <4>1, <4>2
      <4>4. m < n
        BY <4>3
      <4>. QED
        BY <4>2, <4>4
    <3>4. Stands(w, Append(o, e))
      BY <1>1, <3>3, SeqFacts, AppendStands
    <3>5. Before(d, e)'
      <4>1. PICK left \in SUBSET Clients, to \in SUBSET Clients : left = Current(p).todo /\ to = Current(p).to
        BY <1>0, <2>1, CurrentJob, JobFields
      <4>2. Went(p, "next", left, to)
        BY <1>0, <2>1, <4>1, Going DEF Turn
      <4>3. Passed(p, d)'
        BY <2>5, <3>2, <4>1, <4>2 DEF Went, Passed, Current
      <4>4. e.n + Len(jobs'[p]) = sent'[p] + 1
        BY <2>1, <3>1, <4>2 DEF Went
      <4>. QED
        BY <3>1, <4>3, <4>4 DEF Before
    <3>6. PICK a \in Seq(Event), l \in Nat :
            /\ a = Append(o, e) /\ l = Len(o) /\ DOMAIN o = 1..l /\ DOMAIN a = 1..(l + 1)
            /\ a[l + 1] = e /\ \A i \in 1..l : a[i] = o[i]
      BY Appended
    <3>7. \A i \in DOMAIN a : Before(d, a[i])'
      <4>1. ASSUME NEW i \in DOMAIN a PROVE Before(d, a[i])'
        <5>1. i \in DOMAIN o \/ i = l + 1
          BY <3>6
        <5>2. a[i] = e \/ (i \in DOMAIN o /\ a[i] = o[i])
          BY <3>6, <5>1
        <5>. QED
          BY <1>2, <3>5, <5>2
      <4>. QED
        BY <4>1
    <3>. QED
      BY <1>2, <2>3, <2>5, <3>4, <3>6, <3>7 DEF OrderKept
  <2>. QED
    BY <2>4, <2>5
<1>5. ASSUME NEW c \in Clients, Leaves(c) PROVE OrderKept(d)
  <2>1. /\ out[c] # << >> /\ out'[d] = IF c = d THEN Tail(o) ELSE o
        /\ wire'[d] = w \/ (c = d /\ wire'[d] = Append(w, Head(o)))
    BY <1>0, <1>1, <1>5 DEF Leaves, QueuesOK
  <2>2. CASE c # d
    BY <1>1, <1>2, <2>1, <2>2 DEF OrderKept
  <2>3. CASE c = d
    <3>1. o # << >> /\ Stands(w, Tail(o)) /\ Stands(Append(w, Head(o)), Tail(o))
      BY <1>1, <2>1, <2>3, TailStands
    <3>0. o # << >>
      BY <3>1
    <3>2. PICK t \in Seq(Event) : t = Tail(o) /\ \A i \in DOMAIN t : i + 1 \in DOMAIN o /\ t[i] = o[i + 1]
      BY <3>0, TailTaken
    <3>3. \A i \in DOMAIN t : Before(d, t[i])'
      BY <1>2, <3>2
    <3>4. CASE wire'[d] = w
      BY <1>2, <2>1, <2>3, <3>1, <3>2, <3>3, <3>4 DEF OrderKept
    <3>5. CASE wire'[d] = Append(w, Head(o))
      <4>1. PICK e \in Event : e = Head(o) /\ e = o[1] /\ 1 \in DOMAIN o
        BY <3>1, SeqFacts
      <4>2. PICK v \in Seq(Event), l \in Nat :
              /\ v = Append(w, e) /\ l = Len(w) /\ DOMAIN w = 1..l /\ DOMAIN v = 1..(l + 1)
              /\ v[l + 1] = e /\ \A i \in 1..l : v[i] = w[i]
        BY Appended
      <4>3. \A i \in DOMAIN v : Before(d, v[i])'
        <5>1. ASSUME NEW i \in DOMAIN v PROVE Before(d, v[i])'
          <6>1. i \in DOMAIN w \/ i = l + 1
            BY <4>2
          <6>2. v[i] = o[1] \/ (i \in DOMAIN w /\ v[i] = w[i])
            BY <4>1, <4>2, <6>1
          <6>. QED
            BY <1>2, <4>1, <6>2
        <5>. QED
          BY <5>1
      <4>4. Stands(v, t)
        BY <3>1, <3>2, <4>1, <4>2
      <4>5. wire'[d] = v /\ out'[d] = t
        BY <2>1, <2>3, <3>2, <3>5, <4>1, <4>2
      <4>. QED
        BY <3>3, <4>3, <4>4, <4>5 DEF OrderKept
    <3>. QED
      BY <2>1, <2>3, <3>4, <3>5
  <2>. QED
    BY <2>2, <2>3
<1>. QED
  BY <1>3, <1>4, <1>5, QueueMoves

-----------------------------------------------------------------------------
(* The protocol error                                                      *)

\* An error queued or written after the step.
LEMMA FatalPrimed ==
  ASSUME NEW d
  PROVE  (Fatal(wire[d])' <=> Fatal(wire'[d])) /\ (Fatal(out[d])' <=> Fatal(out'[d]))
BY DEF Fatal

\* A step that takes nothing from the error on its way ...
LEMMA DebtSame ==
  ASSUME NEW d \in Clients, DebtOf(d), debt'[d] = debt[d], ctxDone => ctxDone',
         writer'[d] = "done" => writer[d] = "done",
         reader'[d] \in {"close", "end"} => reader[d] \in {"close", "end"},
         Fatal(wire[d]) => Fatal(wire'[d]),
         Fatal(out[d]) => Fatal(out'[d]) \/ Fatal(wire'[d]),
         Fatal(out'[d]) => Fatal(out[d]),
         ctxDone \/ (Pending(d) => Pending(d)'), FatalJob(d)' => FatalJob(d)
  PROVE  DebtOf(d)'
BY FatalPrimed DEF DebtOf, Owed

\* ... such as one that leaves the connection alone.
LEMMA DebtFrame ==
  ASSUME NEW d \in Clients, DebtOf(d), debt'[d] = debt[d], ctxDone => ctxDone',
         writer'[d] = "done" => writer[d] = "done",
         reader'[d] \in {"close", "end"} => reader[d] \in {"close", "end"},
         wire'[d] = wire[d], out'[d] = out[d], jobs'[d] = jobs[d]
  PROVE  DebtOf(d)'
<1>1. Pending(d) => Pending(d)'
  BY DEF Pending
<1>2. FatalJob(d)' => FatalJob(d)
  BY DEF FatalJob
<1>. QED
  BY <1>1, <1>2, DebtSame

\* A job keeps its kind.
LEMMA WentFatal ==
  ASSUME NEW p \in Procs, NEW s, NEW left, NEW to, Went(p, s, left, to), jobs[p] # << >>, NEW d \in Procs
  PROVE  FatalJob(d)' => FatalJob(d)
<1>1. CASE d # p
  BY <1>1 DEF Went, FatalJob
<1>2. CASE d = p
  <2>1. \A i \in DOMAIN jobs'[p] : i \in DOMAIN jobs[p] /\ jobs'[p][i].ev = jobs[p][i].ev
    BY DEF Went
  <2>. QED
    BY <1>2, <2>1 DEF FatalJob
<1>. QED
  BY <1>1, <1>2

\* Queuing: the error of a reader that is busy is queued before a writer that
\* has not been told to stop.
LEMMA DebtTry ==
  ASSUME TypeOK, JobsInv, LifeInv, ClosedInv, NEW p \in Procs, TryEnqueue(p), NEW d \in Clients, DebtOf(d)
  PROVE  DebtOf(d)'
<1>0. JobsOK /\ QueuesOK /\ d \in Procs /\ out[d] \in Seq(Event)
  BY DEF TypeOK, Procs, QueuesOK
<1>1. jobs[p] # << >> /\ Current(p).stage = "try" /\ Stage(p, "try")
      /\ UNCHANGED <<ctxDone, writer, reader, wire, debt>>
  BY DEF TryEnqueue, Stage, closing, goroutines
<1>2. PICK c \in Clients : c = Target(p) /\ (Current(p).ev.kind # "bcast" => c = p)
  BY <1>0, <1>1, TargetFacts
<1>3. PICK e \in Event : e = Current(p).ev /\ e = jobs[p][1].ev
  BY <1>0, <1>1, CurrentJob, JobFields
<1>4. PICK left \in SUBSET Clients, to \in SUBSET Clients : left = Current(p).todo /\ to = Current(p).to
  BY <1>0, <1>1, CurrentJob, JobFields
<1>5. PICK s \in {"next", "drop"} :
        /\ Went(p, s, left, to)
        /\ s = "drop" => out' = out
        /\ s = "next" => out' = [out EXCEPT ![c] = Append(@, e)]
  <2>1. PICK s \in {"next", "drop"} :
          /\ GoOn(p, s, left, to)
          /\ s = "drop" => out' = out
          /\ s = "next" => out' = [out EXCEPT ![c] = Append(@, e)]
    BY <1>2, <1>3, <1>4 DEF TryEnqueue, Turn
  <2>2. Went(p, s, left, to)
    BY <1>0, <1>1, <2>1, Going
  <2>. QED
    BY <2>1, <2>2
<1>6. FatalJob(d)' => FatalJob(d)
  BY <1>0, <1>1, <1>5, WentFatal
<1>7. Pending(d) => d # p \/ (c = d /\ e.kind = "fatal")
  BY <1>2, <1>3 DEF Pending
<1>8. d # p => (Pending(d) => Pending(d)')
  BY <1>0, <1>5 DEF Went, Pending
<1>9. CASE s = "drop"
  <2>1. d = p => (Pending(d) => Pending(d)')
    BY <1>5, <1>9 DEF Went, Pending
  <2>. QED
    BY <1>1, <1>5, <1>6, <1>8, <1>9, <2>1, DebtSame
<1>10. CASE s = "next" /\ c # d
  <2>1. out'[d] = out[d]
    BY <1>0, <1>5, <1>10 DEF QueuesOK
  <2>. QED
    BY <1>1, <1>6, <1>7, <1>8, <1>10, <2>1, DebtSame
<1>11. CASE s = "next" /\ c = d
  <2>1. out'[d] = Append(out[d], e)
    BY <1>0, <1>5, <1>11 DEF QueuesOK
  <2>2. Fatal(out'[d]) <=> Fatal(out[d]) \/ e.kind = "fatal"
    BY <1>0, <2>1, AppendFatal
  <2>3. CASE e.kind # "fatal"
    BY <1>1, <1>6, <1>7, <1>8, <2>2, <2>3, DebtSame
  <2>4. CASE e.kind = "fatal"
    <3>1. p = d /\ FatalJob(d) /\ reader[d] = "busy"
      BY <1>0, <1>1, <1>2, <1>3, <1>11, <2>4, CurrentJob DEF FatalJob, LifeInv
    <3>2. debt[d] = "owed" /\ ~ctxDone => writer[d] # "done"
      BY <3>1 DEF ClosedInv
    <3>. QED
      BY <1>1, <2>2, <2>4, <3>1, <3>2, FatalPrimed DEF DebtOf, Owed
  <2>. QED
    BY <2>3, <2>4
<1>. QED
  BY <1>9, <1>10, <1>11

\* Making room: an error that is dropped is not owed any more.
LEMMA DebtDrop ==
  ASSUME TypeOK, JobsInv, NEW p \in Procs, DropOldest(p), NEW d \in Clients, DebtOf(d)
  PROVE  DebtOf(d)'
<1>0. JobsOK /\ QueuesOK /\ ClientsOK /\ d \in Procs /\ out[d] \in Seq(Event)
  BY DEF TypeOK, Procs, QueuesOK
<1>1. jobs[p] # << >> /\ Current(p).stage = "drop" /\ Stage(p, "drop")
      /\ UNCHANGED <<ctxDone, writer, reader, wire>>
  BY DEF DropOldest, Stage, closing, goroutines
<1>2. PICK c \in Clients : c = Target(p) /\ (Current(p).ev.kind # "bcast" => c = p)
  BY <1>0, <1>1, TargetFacts
<1>3. PICK left \in SUBSET Clients, to \in SUBSET Clients : left = Current(p).todo /\ to = Current(p).to
  BY <1>0, <1>1, CurrentJob, JobFields
<1>4. Went(p, "try", left, to)
  BY <1>0, <1>1, <1>3, Going DEF DropOldest, Turn
<1>5. FatalJob(d)' => FatalJob(d)
  BY <1>0, <1>1, <1>4, WentFatal
<1>6. Pending(d) => Pending(d)'
  BY <1>0, <1>4 DEF Went, Pending
<1>7. CASE c # d \/ out[d] = << >>
  <2>1. out'[d] = out[d] /\ debt'[d] = debt[d]
    BY <1>0, <1>2, <1>7 DEF DropOldest, QueuesOK, ClientsOK
  <2>. QED
    BY <1>1, <1>5, <1>6, <2>1, DebtSame
<1>8. CASE c = d /\ out[d] # << >>
  <2>1. /\ out'[d] = Tail(out[d])
        /\ debt'[d] = IF Head(out[d]).kind = "fatal" THEN "debtd" ELSE debt[d]
    BY <1>0, <1>2, <1>8 DEF DropOldest, QueuesOK, ClientsOK
  <2>2. CASE Head(out[d]).kind = "fatal"
    BY <2>1, <2>2 DEF DebtOf
  <2>3. CASE Head(out[d]).kind # "fatal"
    BY <1>0, <1>1, <1>5, <1>6, <1>8, <2>1, <2>3, TailFatal, DebtSame
  <2>. QED
    BY <2>2, <2>3
<1>. QED
  BY <1>7, <1>8

\* Going from one target to the next: the error is not passed over, for only
\* the reader or a server that shuts down closes the connection.
LEMMA DebtTurn ==
  ASSUME TypeOK, JobsInv, LifeInv, ClosedInv, NEW p \in Procs,
         TakeSnapshot(p) \/ NextTarget(p) \/ FinishJob(p), NEW d \in Clients, DebtOf(d)
  PROVE  DebtOf(d)'
<1>0. JobsOK /\ ServerOK /\ ClientsOK /\ d \in Procs
  BY DEF TypeOK, Procs
<1>1. jobs[p] # << >> /\ UNCHANGED <<ctxDone, writer, wire, out, debt>>
  BY DEF TakeSnapshot, NextTarget, FinishJob, Stage, closing, goroutines, queues
<1>2. Current(p) \in Job /\ Current(p) = jobs[p][1] /\ JobOK(p, Current(p), hello)
  BY <1>0, <1>1, CurrentJob DEF JobsInv
<1>3. CASE d # p
  <2>1. jobs'[d] = jobs[d]
    BY <1>0, <1>3 DEF TakeSnapshot, NextTarget, FinishJob, GoOn, JobsOK
  <2>2. reader'[d] = reader[d]
    BY <1>0, <1>3 DEF TakeSnapshot, NextTarget, FinishJob, goroutines, ClientsOK
  <2>. QED
    BY <1>1, <2>1, <2>2, DebtFrame
<1>4. CASE d = p
  <2>1. CASE TakeSnapshot(p)
    <3>1. PICK t \in SUBSET Clients : t = tracked
      BY <1>0 DEF ServerOK
    <3>2. Went(p, "next", t, {}) /\ reader' = reader
      BY <1>0, <1>1, <2>1, <3>1, Going DEF TakeSnapshot, goroutines
    <3>3. FatalJob(d)' => FatalJob(d)
      BY <1>0, <1>1, <3>2, WentFatal
    <3>4. ~Pending(d)
      BY <1>2, <1>4, <2>1 DEF TakeSnapshot, Stage, JobOK, Pending
    <3>. QED
      BY <1>1, <3>2, <3>3, <3>4, DebtSame
  <2>2. CASE NextTarget(p)
    <3>1. PICK c \in Current(p).todo, s \in {"next", "try"} :
            /\ GoOn(p, s, Current(p).todo \ {c}, {c})
            /\ s = "next" => closed[c] \/ Current(p).ev.kind = "bcast"
      BY <2>2 DEF NextTarget
    <3>2. PICK left \in SUBSET Clients, to \in SUBSET Clients : left = Current(p).todo \ {c} /\ to = {c}
      BY <1>2, JobFields
    <3>3. Went(p, s, left, to) /\ reader' = reader /\ Current(p).stage = "next"
      BY <1>0, <1>1, <2>2, <3>1, <3>2, Going DEF NextTarget, Stage, goroutines
    <3>4. FatalJob(d)' => FatalJob(d)
      BY <1>0, <1>1, <3>3, WentFatal
    <3>5. ASSUME Pending(d), ~ctxDone PROVE Pending(d)'
      <4>1. Current(p).ev.kind = "fatal" /\ c = d
        BY <1>2, <1>4, <3>1, <3>5 DEF Pending, JobOK
      <4>2. ~closed[d]
        BY <1>1, <1>4, <3>5 DEF ClosedInv, LifeInv
      <4>3. s = "try"
        BY <3>1, <4>1, <4>2
      <4>. QED
        BY <1>2, <1>4, <3>3, <4>1, <4>3 DEF Went, Pending
    <3>. QED
      BY <1>1, <3>3, <3>4, <3>5, DebtSame
  <2>3. CASE FinishJob(p)
    <3>1. ~Pending(d)
      BY <1>2, <1>4, <2>3 DEF FinishJob, Stage, Pending
    <3>2. jobs'[d] = Tail(jobs[d]) /\ jobs[d] \in Seq(Job)
      BY <1>0, <1>4, <2>3 DEF FinishJob, JobsOK
    <3>3. FatalJob(d)' => FatalJob(d)
      BY <1>1, <1>4, <3>2, TailFacts DEF FatalJob
    <3>4. reader'[d] \in {"close", "end"} => reader[d] \in {"close", "end"}
      BY <1>0, <1>4, <2>3 DEF FinishJob, ClientsOK
    <3>. QED
      BY <1>1, <3>1, <3>3, <3>4, DebtSame
  <2>. QED
    BY <2>1, <2>2, <2>3
<1>. QED
  BY <1>3, <1>4

\* Reading a command: a protocol error is the only job of its handler.
LEMMA DebtRead ==
  ASSUME TypeOK, JobsInv, LifeInv, NEW c \in Clients,
         ReadHello(c) \/ ReadFatal(c) \/ ReadCommand(c) \/ ReadMarkRead(c),
         NEW d \in Clients, DebtOf(d)
  PROVE  DebtOf(d)'
<1>0. JobsOK /\ ClientsOK /\ c \in Procs /\ d \in Procs
  BY DEF TypeOK, Procs
<1>1. /\ UNCHANGED <<ctxDone, writer, wire, out>> /\ jobs[c] = << >>
      /\ reader' = [reader EXCEPT ![c] = "busy"]
  BY DEF ReadHello, ReadFatal, ReadCommand, ReadMarkRead, Read, Begin, closing
<1>2. CASE d # c
  <2>1. jobs'[d] = jobs[d] /\ reader'[d] = reader[d] /\ debt'[d] = debt[d]
    BY <1>0, <1>2 DEF ReadHello, ReadFatal, ReadCommand, ReadMarkRead, Read, Begin, JobsOK, ClientsOK
  <2>. QED
    BY <1>1, <2>1, DebtFrame
<1>3. CASE d = c
  <2>1. ~Pending(d) /\ reader'[d] = "busy"
    BY <1>0, <1>1, <1>3 DEF Pending, ClientsOK
  <2>2. CASE ReadFatal(c)
    <3>1. jobs'[d] = <<Reply(d, "fatal", 1)>>
      BY <1>0, <1>3, <2>2 DEF ReadFatal, Read, Begin, JobsOK
    <3>2. PICK j : j = Reply(d, "fatal", 1)
      OBVIOUS
    <3>3. j.ev.kind = "fatal" /\ d \in j.todo /\ jobs'[d] = <<j>>
      BY <3>1, <3>2 DEF Reply, NewEvent
    <3>4. jobs'[d] # << >> /\ jobs'[d][1] = j
      BY <3>3
    <3>5. Pending(d)'
      BY <3>3, <3>4 DEF Pending
    <3>6. debt'[d] = IF debt[d] = "none" THEN "owed" ELSE debt[d]
      BY <1>0, <1>3, <2>2 DEF ReadFatal, ClientsOK
    <3>. QED
      BY <1>1, <2>1, <3>5, <3>6, FatalPrimed DEF DebtOf, Owed
  <2>3. CASE ReadHello(c) \/ ReadCommand(c) \/ ReadMarkRead(c)
    <3>1. debt'[d] = debt[d] /\ ~FatalJob(d)'
      <4>1. CASE ReadMarkRead(c)
        <5>1. jobs'[d] = <<Broadcast(d, 1), Reply(d, "reply", 2)>> /\ debt' = debt
          BY <1>0, <1>3, <4>1 DEF ReadMarkRead, Read, Begin, JobsOK
        <5>0. Broadcast(d, 1).ev.kind = "bcast" /\ Reply(d, "reply", 2).ev.kind = "reply"
          BY DEF Broadcast, Reply, NewEvent
        <5>2. PICK j, k : /\ j = Broadcast(d, 1) /\ k = Reply(d, "reply", 2)
                         /\ j.ev.kind = "bcast" /\ k.ev.kind = "reply"
          BY <5>0
        <5>3. \A i \in DOMAIN jobs'[d] : jobs'[d][i] = j \/ jobs'[d][i] = k
          BY <5>1, <5>2
        <5>. QED
          BY <5>1, <5>2, <5>3 DEF FatalJob
      <4>2. CASE ReadHello(c) \/ ReadCommand(c)
        <5>1. PICK kind \in {"ready", "reply"} : jobs'[d] = <<Reply(d, kind, 1)>> /\ debt' = debt
          BY <1>0, <1>3, <4>2 DEF ReadHello, ReadCommand, Read, Begin, JobsOK
        <5>0. Reply(d, kind, 1).ev.kind = kind
          BY DEF Reply, NewEvent
        <5>2. PICK j : j = Reply(d, kind, 1) /\ j.ev.kind = kind
          BY <5>0
        <5>3. \A i \in DOMAIN jobs'[d] : jobs'[d][i] = j
          BY <5>1, <5>2
        <5>. QED
          BY <5>1, <5>2, <5>3 DEF FatalJob
      <4>. QED
        BY <2>3, <4>1, <4>2
    <3>. QED
      BY <1>1, <2>1, <3>1, DebtSame
  <2>. QED
    BY <2>2, <2>3
<1>. QED
  BY <1>2, <1>3

\* Writing: the writer leaves only an empty queue, or an error that is not owed
\* any more.
LEMMA DebtWrite ==
  ASSUME TypeOK, NEW c \in Clients, WritingOut(c), NEW d \in Clients, DebtOf(d)
  PROVE  DebtOf(d)'
<1>0. ClientsOK /\ QueuesOK /\ out[d] \in Seq(Event) /\ wire[d] \in Seq(Event)
  BY DEF TypeOK, QueuesOK
<1>1. UNCHANGED <<ctxDone, jobs, reader>>
  BY DEF WritingOut, WriteLine, WriteFails, WriterShutdown, WriterExits, closing, goroutines, work
<1>2. CASE d # c
  <2>1. out'[d] = out[d] /\ wire'[d] = wire[d] /\ writer'[d] = writer[d] /\ debt'[d] = debt[d]
    BY <1>0, <1>2 DEF WritingOut, WriteLine, WriteFails, WriterShutdown, WriterExits,
                     goroutines, queues, ClientsOK, QueuesOK
  <2>. QED
    BY <1>1, <2>1, DebtFrame
<1>3. CASE d = c
  <2>1. CASE WriteLine(c)
    <3>1. /\ out[d] # << >> /\ out'[d] = Tail(out[d]) /\ wire'[d] = Append(wire[d], Head(out[d]))
          /\ UNCHANGED <<writer, debt>>
      BY <1>0, <1>3, <2>1 DEF WriteLine, QueuesOK, goroutines
    <3>2. PICK e \in Event : e = Head(out[d])
      BY <1>0, <3>1, SeqFacts
    <3>3. /\ Fatal(out[d]) <=> Fatal(out'[d]) \/ e.kind = "fatal"
          /\ Fatal(wire'[d]) <=> Fatal(wire[d]) \/ e.kind = "fatal"
      BY <1>0, <3>1, <3>2, TailFatal, AppendFatal
    <3>4. (Pending(d) => Pending(d)') /\ (FatalJob(d)' => FatalJob(d))
      BY <1>1 DEF Pending, FatalJob
    <3>. QED
      BY <1>1, <3>1, <3>3, <3>4, DebtSame
  <2>2. CASE WriteFails(c)
    <3>1. debt'[d] = "debtd"
      BY <1>0, <1>3, <2>2 DEF WriteFails, ClientsOK
    <3>. QED
      BY <3>1 DEF DebtOf
  <2>3. CASE WriterShutdown(c)
    <3>1. out'[d] = out[d] /\ wire'[d] = wire[d] /\ writer'[d] = "drain" /\ debt'[d] = debt[d]
      BY <1>0, <1>3, <2>3 DEF WriterShutdown, queues, ClientsOK
    <3>. QED
      BY <1>1, <3>1, DebtFrame
  <2>4. CASE WriterExits(c)
    <3>1. UNCHANGED <<out, wire, debt>> /\ (ctxDone \/ out[d] = << >>)
      BY <1>3, <2>4 DEF WriterExits, queues
    <3>2. out[d] = << >> => ~Fatal(out[d])
      BY EmptyFacts DEF Fatal
    <3>3. (Pending(d) <=> Pending(d)') /\ (FatalJob(d)' <=> FatalJob(d))
      BY <1>1 DEF Pending, FatalJob
    <3>. QED
      BY <1>1, <3>1, <3>2, <3>3, FatalPrimed DEF DebtOf, Owed
  <2>. QED
    BY <2>1, <2>2, <2>3, <2>4 DEF WritingOut
<1>. QED
  BY <1>2, <1>3

\* A step keeps the error on its way.
LEMMA DebtStep == TypeOK /\ JobsInv /\ LifeInv /\ ClosedInv /\ DebtInv /\ Next => DebtInv'
<1>. SUFFICES ASSUME TypeOK, JobsInv, LifeInv, ClosedInv, Next, NEW d \in Clients, DebtOf(d) PROVE DebtOf(d)'
  BY DEF DebtInv
<1>0. JobsOK /\ ClientsOK /\ ServerOK /\ d \in Procs
  BY DEF TypeOK, Procs
<1>1. CASE Cancel \/ CloseServer \/ CloseListener \/ CloseDone
  <2>1. (ctxDone => ctxDone') /\ UNCHANGED <<goroutines, queues, jobs>>
    BY <1>1 DEF Cancel, CloseServer, CloseListener, CloseDone, work
  <2>. QED
    BY <2>1, DebtFrame DEF goroutines, queues
<1>2. CASE CloseClientConn \/ AddClient \/ ServeReturns
  <2>1. UNCHANGED <<ctxDone, goroutines, queues, jobs>>
    BY <1>2 DEF CloseClientConn, AddClient, ServeReturns, closing, work
  <2>. QED
    BY <2>1, DebtFrame DEF goroutines, queues
<1>3. CASE SpawnServe
  <2>1. UNCHANGED <<ctxDone, queues, jobs>>
    BY <1>3 DEF SpawnServe, closing, work
  <2>2. reader'[d] \in {reader[d], "scan"} /\ writer'[d] \in {writer[d], "loop"}
    BY <1>0, <1>3 DEF SpawnServe, ClientsOK
  <2>. QED
    BY <2>1, <2>2, DebtFrame DEF queues
<1>4. CASE SessionBroadcast
  <2>1. UNCHANGED <<ctxDone, goroutines, queues>> /\ jobs'[d] = jobs[d]
    BY <1>0, <1>4, HubAssumption DEF SessionBroadcast, Begin, closing, JobsOK
  <2>. QED
    BY <2>1, DebtFrame DEF goroutines, queues
<1>5. ASSUME NEW p \in Procs, Delivering(p) PROVE DebtOf(d)'
  BY <1>5, DebtTry, DebtDrop, DebtTurn DEF Delivering
<1>6. ASSUME NEW c \in Clients, Accept(c) \/ CloseClientFlag(c) PROVE DebtOf(d)'
  <2>1. UNCHANGED <<ctxDone, goroutines, queues, jobs>>
    BY <1>6 DEF Accept, CloseClientFlag, closing, work
  <2>. QED
    BY <2>1, DebtFrame DEF goroutines, queues
<1>7. ASSUME NEW c \in Clients, ReadHello(c) \/ ReadFatal(c) \/ ReadCommand(c) \/ ReadMarkRead(c)
      PROVE  DebtOf(d)'
  BY <1>7, DebtRead
<1>8. ASSUME NEW c \in Clients, ReadOversizeHistory(c) PROVE DebtOf(d)'
  <2>1. UNCHANGED <<ctxDone, goroutines, queues, jobs>>
    BY <1>8 DEF ReadOversizeHistory, closing
  <2>. QED
    BY <2>1, DebtFrame DEF goroutines, queues
<1>9. ASSUME NEW c \in Clients, ScanEnds(c) \/ StopWriting(c) \/ EndServe(c) PROVE DebtOf(d)'
  <2>1. UNCHANGED <<ctxDone, writer, queues, jobs>>
    BY <1>9 DEF ScanEnds, StopWriting, EndServe, closing, work
  <2>2. reader'[d] \in {"close", "end"} => reader[d] \in {"close", "end"}
    BY <1>0, <1>9 DEF ScanEnds, StopWriting, EndServe, ClientsOK
  <2>. QED
    BY <2>1, <2>2, DebtFrame DEF queues
<1>10. ASSUME NEW c \in Clients, WriterStopped(c) PROVE DebtOf(d)'
  <2>1. UNCHANGED <<ctxDone, writer, queues, jobs>> /\ reader[c] = "wait" /\ writer[c] = "done"
    BY <1>10 DEF WriterStopped, closing, work
  <2>2. CASE c # d
    <3>1. reader'[d] = reader[d]
      BY <1>0, <1>10, <2>2 DEF WriterStopped, ClientsOK
    <3>. QED
      BY <2>1, <3>1, DebtFrame DEF queues
  <2>3. CASE c = d
    <3>1. ~Pending(d)
      BY <2>1, <2>3 DEF Pending, LifeInv
    <3>2. FatalJob(d)' <=> FatalJob(d)
      BY <2>1 DEF FatalJob
    <3>. QED
      BY <2>1, <2>3, <3>1, <3>2, FatalPrimed DEF DebtOf, Owed, queues
  <2>. QED
    BY <2>2, <2>3
<1>11. ASSUME NEW c \in Clients, WaitTimesOut(c) PROVE DebtOf(d)'
  <2>1. UNCHANGED <<ctxDone, writer, out, wire, jobs>>
    BY <1>11 DEF WaitTimesOut, work
  <2>2. CASE c # d
    <3>1. reader'[d] = reader[d] /\ debt'[d] = debt[d]
      BY <1>0, <1>11, <2>2 DEF WaitTimesOut, ClientsOK
    <3>. QED
      BY <2>1, <3>1, DebtFrame
  <2>3. CASE c = d
    <3>1. debt'[d] = "debtd"
      BY <1>0, <1>11, <2>3 DEF WaitTimesOut, ClientsOK
    <3>. QED
      BY <3>1 DEF DebtOf
  <2>. QED
    BY <2>2, <2>3
<1>12. ASSUME NEW c \in Clients, WritingOut(c) PROVE DebtOf(d)'
  BY <1>12, DebtWrite
<1>. QED
  BY <1>1, <1>2, <1>3, <1>4, <1>5, <1>6, <1>7, <1>8, <1>9, <1>10, <1>11, <1>12 DEF Next, Reading, Closing

-----------------------------------------------------------------------------
(* The theorems                                                            *)

\* The invariant holds at first.
LEMMA InitHolds == Init => HubInv
<1>. SUFFICES ASSUME Init PROVE HubInv
  OBVIOUS
<1>1. TypeOK
  BY InitTypes
<1>2. JobsInv
  BY EmptyFacts DEF Init, JobsInv
<1>3. LifeInv
  BY DEF Init, LifeInv, EndedClientForgotten, Procs
<1>4. HelloInv
  BY EmptyFacts DEF Init, HelloInv
<1>5. OrderInv
  BY EmptyFacts DEF Init, OrderInv, Stands, Ordered
<1>6. ClosedInv
  BY DEF Init, ClosedInv
<1>7. DebtInv
  BY EmptyFacts DEF Init, DebtInv, DebtOf, Fatal, FatalJob, Procs
<1>. QED
  BY <1>1, <1>2, <1>3, <1>4, <1>5, <1>6, <1>7 DEF HubInv

\* Order is a matter of lines, jobs and numbers only.
LEMMA OrderFrame == OrderInv /\ UNCHANGED <<wire, out, jobs, sent>> => OrderInv'
<1>. SUFFICES ASSUME OrderInv, UNCHANGED <<wire, out, jobs, sent>>, NEW c \in Clients
              PROVE  /\ \A i \in DOMAIN out[c] : Before(c, out[c][i])'
                     /\ \A i \in DOMAIN wire[c] : Before(c, wire[c][i])'
                     /\ Stands(wire[c], out[c])
  BY DEF OrderInv
<1>1. /\ \A i \in DOMAIN out[c] : Before(c, out[c][i])
      /\ \A i \in DOMAIN wire[c] : Before(c, wire[c][i])
      /\ Stands(wire[c], out[c])
  BY DEF OrderInv
<1>. QED
  BY <1>1 DEF Before, Passed

\* A step outside the hub changes nothing.
LEMMA StutterKeeps == HubInv /\ UNCHANGED vars => HubInv'
<1>. SUFFICES ASSUME HubInv, UNCHANGED vars PROVE HubInv'
  OBVIOUS
<1>. USE DEF HubInv, vars, closing, serving, goroutines, flags, queues, work
<1>1. TypeOK'
  BY DEF TypeOK, ServerOK, ClientsOK, QueuesOK, JobsOK
<1>2. JobsInv'
  BY JobsKept DEF TypeOK
<1>3. LifeInv'
  BY DEF LifeInv, EndedClientForgotten
<1>4. HelloInv'
  BY DEF HelloInv
<1>5. OrderInv'
  BY OrderFrame
<1>6. ClosedInv'
  BY DEF ClosedInv
<1>7. DebtInv'
  BY DebtFrame DEF DebtInv
<1>. QED
  BY <1>1, <1>2, <1>3, <1>4, <1>5, <1>6, <1>7

\* The inductive invariant.
LEMMA HubInvariant == Spec => []HubInv
<1>1. HubInv /\ [Next]_vars => HubInv'
  <2>1. HubInv /\ Next => HubInv'
    BY ServerStep, ClientsStep, QueuesStep, JobsStep, LifeStep, HelloStep, OrderStep, ClosedStep, DebtStep
    DEF HubInv, TypeOK
  <2>. QED
    BY <2>1, StutterKeeps
<1>. QED
  BY <1>1, InitHolds, PTL DEF Spec

\* What is written, then what is queued.
LEMMA StreamFacts ==
  ASSUME QueuesOK, NEW c \in Clients
  PROVE  \E l \in Nat, m \in Nat :
           /\ DOMAIN wire[c] = 1..l /\ DOMAIN out[c] = 1..m /\ DOMAIN Stream(c) = 1..(l + m)
           /\ \A i \in 1..(l + m) : Stream(c)[i] = IF i <= l THEN wire[c][i] ELSE out[c][i - l]
<1>1. wire[c] \in Seq(Event) /\ out[c] \in Seq(Event)
  BY DEF QueuesOK
<1>2. PICK l \in Nat, m \in Nat : /\ l = Len(wire[c]) /\ DOMAIN wire[c] = 1..l
                                  /\ m = Len(out[c]) /\ DOMAIN out[c] = 1..m
  BY <1>1, SeqFacts
<1>3. /\ Stream(c) \in Seq(Event) /\ Len(Stream(c)) = Len(wire[c]) + Len(out[c])
      /\ \A i \in 1..Len(wire[c]) + Len(out[c]) :
            Stream(c)[i] = IF i <= Len(wire[c]) THEN wire[c][i] ELSE out[c][i - Len(wire[c])]
  BY <1>1, ConcatProperties DEF Stream
<1>4. DOMAIN Stream(c) = 1..(l + m)
  BY <1>2, <1>3, SeqFacts
<1>. QED
  BY <1>2, <1>3, <1>4

\* The invariants of a queue say it of the stream: nothing before hello ...
LEMMA HelloFirst == QueuesOK /\ HelloInv => NoBroadcastBeforeHello
<1>. SUFFICES ASSUME QueuesOK, HelloInv, NEW c \in Clients, ~hello[c], NEW i \in DOMAIN Stream(c)
              PROVE  Stream(c)[i].kind = "fatal"
  BY DEF NoBroadcastBeforeHello
<1>1. PICK l \in Nat, m \in Nat :
           /\ DOMAIN wire[c] = 1..l /\ DOMAIN out[c] = 1..m /\ DOMAIN Stream(c) = 1..(l + m)
           /\ \A k \in 1..(l + m) : Stream(c)[k] = IF k <= l THEN wire[c][k] ELSE out[c][k - l]
  BY StreamFacts
<1>2. CASE i <= l
  BY <1>1, <1>2 DEF HelloInv
<1>3. CASE ~(i <= l)
  <2>1. i - l \in DOMAIN out[c]
    BY <1>1, <1>3
  <2>. QED
    BY <1>1, <1>3, <2>1 DEF HelloInv
<1>. QED
  BY <1>2, <1>3

\* ... and each sender's events in order.
LEMMA SendersInOrder == QueuesOK /\ OrderInv => SenderOrder
<1>. SUFFICES ASSUME QueuesOK, OrderInv, NEW c \in Clients,
                     NEW i \in DOMAIN Stream(c), NEW j \in DOMAIN Stream(c),
                     i < j, Stream(c)[i].from = Stream(c)[j].from
              PROVE  Stream(c)[i].n < Stream(c)[j].n
  BY DEF SenderOrder
<1>0. Stands(wire[c], out[c])
  BY DEF OrderInv
<1>1. PICK l \in Nat, m \in Nat :
           /\ DOMAIN wire[c] = 1..l /\ DOMAIN out[c] = 1..m /\ DOMAIN Stream(c) = 1..(l + m)
           /\ \A k \in 1..(l + m) : Stream(c)[k] = IF k <= l THEN wire[c][k] ELSE out[c][k - l]
  BY StreamFacts
<1>2. CASE j <= l
  <2>1. i \in DOMAIN wire[c] /\ j \in DOMAIN wire[c] /\ Stream(c)[i] = wire[c][i] /\ Stream(c)[j] = wire[c][j]
    BY <1>1, <1>2
  <2>. QED
    BY <1>0, <2>1 DEF Stands, Ordered
<1>3. CASE i <= l /\ ~(j <= l)
  <2>1. /\ i \in DOMAIN wire[c] /\ j - l \in DOMAIN out[c]
        /\ Stream(c)[i] = wire[c][i] /\ Stream(c)[j] = out[c][j - l]
    BY <1>1, <1>3
  <2>. QED
    BY <1>0, <2>1 DEF Stands
<1>4. CASE ~(i <= l)
  <2>1. /\ i - l \in DOMAIN out[c] /\ j - l \in DOMAIN out[c] /\ i - l < j - l
        /\ Stream(c)[i] = out[c][i - l] /\ Stream(c)[j] = out[c][j - l]
    BY <1>1, <1>4
  <2>. QED
    BY <1>0, <2>1 DEF Stands, Ordered
<1>. QED
  BY <1>1, <1>2, <1>3, <1>4

\* Every variable keeps its type, and no queue holds more than clientQueue lines
\* (server.go:33, 256-280).
THEOREM HubTypeOK == Spec => []TypeOK
<1>1. HubInv => TypeOK
  BY DEF HubInv
<1>. QED
  BY <1>1, HubInvariant, PTL

\* A connection that has ended is not a broadcast target any more, in whatever
\* order Serve, serve and Close get at the map of clients (server.go:139-141,
\* 301-305).
THEOREM EndedIsForgotten == Spec => []EndedClientForgotten
<1>1. HubInv => EndedClientForgotten
  BY DEF HubInv, LifeInv
<1>. QED
  BY <1>1, HubInvariant, PTL

\* A frontend that has not said hello is sent nothing but protocol errors
\* (server.go:206-210).
THEOREM HelloComesFirst == Spec => []NoBroadcastBeforeHello
<1>1. HubInv => NoBroadcastBeforeHello
  BY HelloFirst DEF HubInv, TypeOK
<1>. QED
  BY <1>1, HubInvariant, PTL

\* However broadcasts, replies and drop-oldest interleave, a frontend gets the
\* events of one goroutine in the order they were sent, none twice
\* (server.go:194-211, 256-280).
THEOREM SendersKeepOrder == Spec => []SenderOrder
<1>1. HubInv => SenderOrder
  BY SendersInOrder DEF HubInv, TypeOK
<1>. QED
  BY <1>1, HubInvariant, PTL

\* Unless a write fails, times out or the daemon shuts down, a connection ends
\* only after its protocol error was written (server.go:294-296, 358-365).
THEOREM OwedErrorArrives == Spec => []ProtocolErrorDelivered
<1>1. HubInv => ProtocolErrorDelivered
  BY DEF HubInv, DebtInv, DebtOf, Owed, Fatal, ProtocolErrorDelivered
<1>. QED
  BY <1>1, HubInvariant, PTL

=============================================================================
