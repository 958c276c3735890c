--------------------------- MODULE MatrixLinkProofs ---------------------------
(***************************************************************************)
(* The Matrix transport, for any number of events, failures and lives of   *)
(* the daemon, any channel and any delays.  None of the properties is      *)
(* inductive: the pickle key needs KeyInv, the link LinkInv, the delays    *)
(* DelayInv, and the events BatchInv and NewsInv, which say where a        *)
(* response lies with respect to the saved position while it is handed out. *)
(***************************************************************************)
EXTENDS MatrixLink, SequenceTheorems, WellFoundedInduction, TLAPS

\* The key file is empty only between its creation and its writing, and the
\* crypto store is opened with a key that is on disk.
KeyInv ==
    /\ PickleKeyKept
    /\ at = "write" => keyFile = Torn
    /\ at = "init" => keyFile \in Nat

\* An outage is known from its report on until the next sync, and a daemon that
\* is gone leaves no flag and no channel behind.
LinkInv ==
    /\ ~running => ch = << >> /\ ~flag /\ ~connected /\ at = "top" /\ ~ctxDone
    /\ (running /\ ~ctxDone) =>
        /\ at # "report" => Sees(connected)
        /\ at \in {"failed", "wait", "judge", "sleep", "ended"} => ~connected
        /\ (at = "report" /\ after \in {"failed", "judge"}) => ~connected

\* The next delay of either loop is the one its count of failures asks for; a
\* link that was seen up leaves run no failures to count.
DelayInv ==
    /\ down \in 0..MaxBackoff /\ misses \in 0..MaxBackoff
    /\ pause = Capped(More(misses))
    /\ IF saw THEN down = 0 ELSE backoff = Capped(More(down))
    /\ at = "wait" => misses > 0 /\ delay = Capped(misses)
    /\ at = "sleep" => down > 0 /\ delay = Capped(down)

\* A response is being handed out.
Handing == at \in {"save", "listen", "deliver"} \/ (at = "report" /\ after = "deliver")

\* The position of the request under way is the saved one.
Asking == at \in {"request", "failed", "wait", "save"} \/ (at = "report" /\ after = "failed")

\* A response holds the newest events that follow the position, and the rest of
\* it lies before the position once that is saved; it is history if nothing was
\* saved before, and news otherwise.
BatchInv ==
    /\ todo # << >> => Handing
    /\ Asking => since = position
    /\ at = "save" => \E s \in Nat : From <= s /\ \A i \in DOMAIN todo : todo[i] = s + i
    /\ at # "save" => \A i \in DOMAIN todo : position # None /\ todo[i] <= position
    /\ \A i, j \in DOMAIN todo : i < j => todo[i] < todo[j]
    /\ \A i \in DOMAIN todo : todo[i] \in old <=> since = None
    /\ \A e \in old : e <= posted /\ (position # None => e <= position)
    /\ (at = "save" /\ since = None) => \A e \in old : e <= NextBatch

\* An event that has entered, or waits for its key, lies before the position, is
\* not history, and is not among those still to be handed out.
NewsInv ==
    /\ \A e \in Events : entered[e] <= 1
    /\ \A e \in Events : (entered[e] > 0 \/ e \in late) =>
            position # None /\ e <= position /\ e \notin old
    /\ \A e \in late : entered[e] = 0
    /\ at # "save" => \A i \in DOMAIN todo : entered[todo[i]] = 0 /\ todo[i] \notin late

-----------------------------------------------------------------------------
(* Sequences, and the items of the channel                                 *)

\* A sequence and its elements.
LEMMA SeqFacts ==
  ASSUME NEW S, NEW s \in Seq(S)
  PROVE  /\ Len(s) \in Nat /\ DOMAIN s = 1..Len(s)
         /\ \A i \in DOMAIN s : s[i] \in S
         /\ Range(s) = {s[i] : i \in 1..Len(s)}
         /\ Range(s) \subseteq S
<1>1. Len(s) \in Nat /\ DOMAIN s = 1..Len(s)
  OBVIOUS
<1>2. \A i \in DOMAIN s : s[i] \in S
  BY <1>1, ElementOfSeq
<1>3. Range(s) = {s[i] : i \in DOMAIN s}
  BY DEF Range
<1>. QED
  BY <1>1, <1>2, <1>3

\* An empty sequence.
LEMMA EmptySeqs == \A S : << >> \in Seq(S) /\ Len(<< >>) = 0 /\ DOMAIN << >> = {}
BY EmptySeq, LenProperties

\* A sequence with an element more ...
LEMMA AppendFacts ==
  ASSUME NEW S, NEW s \in Seq(S), NEW m \in S
  PROVE  /\ Append(s, m) \in Seq(S)
         /\ Len(Append(s, m)) = Len(s) + 1
         /\ DOMAIN Append(s, m) = 1..(Len(s) + 1)
         /\ Append(s, m)[Len(s) + 1] = m
         /\ \A i \in 1..Len(s) : Append(s, m)[i] = s[i]
<1>1. Append(s, m) \in Seq(S) /\ Len(Append(s, m)) = Len(s) + 1
  OBVIOUS
<1>2. DOMAIN Append(s, m) = 1..(Len(s) + 1)
  BY <1>1, SeqFacts
<1>3. Append(s, m)[Len(s) + 1] = m
  OBVIOUS
<1>4. \A i \in 1..Len(s) : Append(s, m)[i] = s[i]
  OBVIOUS
<1>. QED
  BY <1>1, <1>2, <1>3, <1>4

\* ... and its range.
LEMMA RangeGrows ==
  ASSUME NEW S, NEW s \in Seq(S), NEW m \in S
  PROVE  Range(Append(s, m)) = Range(s) \union {m}
<1>1. Append(s, m) \in Seq(S) /\ DOMAIN Append(s, m) = 1..(Len(s) + 1) /\ Len(s) \in Nat
      /\ DOMAIN s = 1..Len(s)
  BY AppendFacts, SeqFacts
<1>2. \A i \in 1..Len(s) : Append(s, m)[i] = s[i]
  BY AppendFacts
<1>3. Append(s, m)[Len(s) + 1] = m
  BY AppendFacts
<1>. QED
  BY <1>1, <1>2, <1>3 DEF Range

\* Items of the channel.
LEMMA ItemTypes ==
    /\ \A up \in BOOLEAN : [t |-> "connected", up |-> up] \in Item
    /\ \A e \in Events : [t |-> "message", e |-> e] \in Item
    /\ \A m \in Item : m.t = "connected" => m.up \in BOOLEAN
    /\ \A m \in Item : m.t # "connected" => m.e \in Events
<1>1. \A up \in BOOLEAN : [t |-> "connected", up |-> up] \in Item
  BY DEF Item
<1>2. \A e \in Events : [t |-> "message", e |-> e] \in Item
  BY DEF Item
<1>3. \A m \in Item : m.t = "connected" => m.up \in BOOLEAN
  BY DEF Item
<1>4. \A m \in Item : m.t # "connected" => m.e \in Events
  BY DEF Item
<1>. QED
  BY <1>1, <1>2, <1>3, <1>4

-----------------------------------------------------------------------------
(* Types, and the pickle key                                               *)

\* The types hold at first.
LEMMA InitTypes == Init => TypeOK
<1>. SUFFICES ASSUME Init PROVE TypeOK
  OBVIOUS
<1>1. FlagsOK
  BY DEF Init, FlagsOK
<1>2. PlacesOK
  BY MatrixLinkAssumption DEF Init, PlacesOK
<1>3. FilesOK
  BY DEF Init, FilesOK, None, Torn
<1>4. PositionsOK
  BY MatrixLinkAssumption DEF Init, PositionsOK, None
<1>5. EventsOK
  BY MatrixLinkAssumption DEF Init, EventsOK
<1>6. DelaysOK
  BY MatrixLinkAssumption DEF Init, DelaysOK
<1>. QED
  BY <1>1, <1>2, <1>3, <1>4, <1>5, <1>6 DEF TypeOK

\* The flags stay flags: an edge taken off the channel carries one.
LEMMA FlagsStep == TypeOK /\ Next => FlagsOK'
<1>. SUFFICES ASSUME TypeOK, Next PROVE FlagsOK'
  OBVIOUS
<1>. USE DEF TypeOK, FlagsOK, outside, setup, link, trouble
<1>1. CASE Receive
  <2>1. ch # << >> /\ ch \in Seq(Item)
    BY <1>1 DEF Receive, EventsOK
  <2>2. Head(ch).t = "connected" => Head(ch).up \in BOOLEAN
    BY <2>1, ItemTypes
  <2>. QED
    BY <1>1, <2>2 DEF Receive, Breaks
<1>2. ASSUME NEW e \in Events, SendLate(e) \/ Undecryptable(e) PROVE FlagsOK'
  BY <1>2 DEF SendLate, Undecryptable
<1>3. CASE Report \/ ReportGivesUp \/ Top \/ ReadKey \/ Sleep \/ Wait \/ Delivered \/ Deliver
  BY <1>3 DEF Report, ReportGivesUp, Top, ReadKey, Sleep, Wait, Delivered, Deliver, Handout
<1>4. CASE Discover \/ InitCrypto \/ Load
  BY <1>4 DEF Discover, Answers, Fails, InitCrypto, Load
<1>5. CASE Request
  <2>1. connected' \in BOOLEAN /\ saw' \in BOOLEAN
    BY <1>5 DEF Request, SetConnected, Goto
  <2>2. refused' \in BOOLEAN /\ UNCHANGED <<outside, setup>>
    BY <1>5 DEF Request, Answers, Fails
  <2>. QED
    BY <2>1, <2>2
<1>11. CASE ConnectFails \/ Listen
  BY <1>11 DEF SetConnected, Goto, ConnectFails, Listen
<1>6. CASE WriteKey \/ Save
  <2>1. refused' = refused /\ UNCHANGED <<outside, setup, link>>
    BY <1>6 DEF WriteKey, Breaks, Save
  <2>. QED
    BY <2>1
<1>7. CASE FailedSync \/ Judge
  BY <1>7 DEF FailedSync, Judge
<1>8. CASE Post \/ RejectToken \/ Cancel
  BY <1>8 DEF Post, RejectToken, Cancel
<1>9. CASE End
  BY <1>9 DEF End
<1>10. CASE Start
  BY <1>10 DEF Start
<1>. QED
  BY <1>1, <1>2, <1>3, <1>4, <1>5, <1>6, <1>7, <1>8, <1>9, <1>10, <1>11 DEF Next, Loop

\* Where a request leaves the loop.
LEMMA RequestGoes ==
    Request => /\ at' \in {"save", "err", "report", "failed"}
               /\ after' = after \/ after' = "failed"
               /\ faults' = faults \/ (faults < MaxFaults /\ faults' = faults + 1)
               /\ at' = "save" \/ (todo' = todo /\ old' = old)
<1>1. Request => at' \in {"save", "err", "report", "failed"}
  BY DEF Request, SetConnected, Goto
<1>2. Request => (after' = after \/ after' = "failed")
  BY DEF Request, SetConnected, Goto
<1>3. Request => faults' = faults \/ (faults < MaxFaults /\ faults' = faults + 1)
  BY DEF Request, Answers, Fails, trouble
<1>4. Request => at' = "save" \/ (todo' = todo /\ old' = old)
  BY DEF Request, Goto
<1>. QED
  BY <1>1, <1>2, <1>3, <1>4

\* The loop stays in its places, lives and faults within their bounds.
LEMMA PlacesStep == TypeOK /\ Next => PlacesOK'
<1>. SUFFICES ASSUME TypeOK, Next PROVE PlacesOK'
  OBVIOUS
<1>. USE MatrixLinkAssumption DEF TypeOK, PlacesOK, outside, trouble
<1>1. CASE Report \/ ReportGivesUp \/ Top \/ ReadKey \/ Sleep \/ Wait \/ Delivered \/ Deliver
  BY <1>1 DEF Report, ReportGivesUp, Top, ReadKey, Sleep, Wait, Delivered, Deliver, Handout, Goto
<1>2. CASE Discover \/ InitCrypto \/ Load
  BY <1>2 DEF Discover, Answers, Fails, InitCrypto, Load, Goto
<1>3. CASE ConnectFails \/ Listen
  BY <1>3 DEF SetConnected, Goto, ConnectFails, Listen
<1>4. CASE Request
  <2>1. lives' = lives
    BY <1>4 DEF Request
  <2>2. faults' = faults \/ (faults < MaxFaults /\ faults' = faults + 1)
    BY <1>4, RequestGoes
  <2>3. at' \in {"save", "err", "report", "failed"} /\ (after' = after \/ after' = "failed")
    BY <1>4, RequestGoes
  <2>. QED
    BY <2>1, <2>2, <2>3
<1>5. CASE WriteKey \/ Save \/ FailedSync \/ Judge
  BY <1>5 DEF WriteKey, Breaks, Save, FailedSync, Judge, Goto
<1>6. CASE Post \/ RejectToken \/ Cancel \/ Start
  <2>1. CASE Post
    BY <2>1 DEF Post
  <2>2. CASE RejectToken
    BY <2>2 DEF RejectToken
  <2>3. CASE Cancel
    BY <2>3 DEF Cancel
  <2>4. CASE Start
    BY <2>4 DEF Start
  <2>. QED
    BY <1>6, <2>1, <2>2, <2>3, <2>4
<1>7. CASE Receive \/ End
  BY <1>7 DEF Receive, Breaks, End
<1>8. ASSUME NEW e \in Events, SendLate(e) \/ Undecryptable(e) PROVE PlacesOK'
  BY <1>8 DEF SendLate, Undecryptable
<1>. QED
  BY <1>1, <1>2, <1>3, <1>4, <1>5, <1>6, <1>7, <1>8 DEF Next, Loop

\* The file is empty until its key is written, and neither is replaced: a key is
\* made only where there is no file, and sessions are made only with a key.
LEMMA FilesStep == TypeOK /\ KeyInv /\ Next => FilesOK' /\ KeyInv'
<1>. SUFFICES ASSUME TypeOK, KeyInv, Next PROVE FilesOK' /\ KeyInv'
  OBVIOUS
<1>. USE DEF TypeOK, FilesOK, KeyInv, PickleKeyKept, files, None, Torn, At, Goto
<1>1. CASE ReadKey \/ WriteKey
  BY <1>1 DEF ReadKey, WriteKey, Breaks
<1>2. CASE InitCrypto
  BY <1>2 DEF InitCrypto, Answers, Fails
<1>. DEFINE Kept == UNCHANGED files /\ at' \notin {"write", "init"}
<1>. HIDE DEF Kept
<1>3. CASE Report \/ ReportGivesUp \/ Top \/ Sleep \/ Wait \/ Delivered
  BY <1>3, PlacesStep DEF Report, ReportGivesUp, Top, Sleep, Wait, Delivered, PlacesOK, Kept
<1>4. CASE Discover \/ Load \/ Request
  BY <1>4 DEF Discover, Load, Request, SetConnected, Kept
<1>5. CASE ConnectFails \/ Listen \/ Save \/ FailedSync \/ Judge
  BY <1>5 DEF SetConnected, ConnectFails, Listen, Save, FailedSync, Judge, Kept
<1>6. CASE Deliver \/ Receive \/ Post \/ RejectToken \/ Cancel
  BY <1>6 DEF Deliver, Handout, Receive, Post, RejectToken, Cancel
<1>7. CASE End \/ Start
  BY <1>7 DEF End, Start
<1>8. ASSUME NEW e \in Events, SendLate(e) \/ Undecryptable(e) PROVE FilesOK' /\ KeyInv'
  BY <1>8 DEF SendLate, Undecryptable
<1>9. Kept => FilesOK' /\ KeyInv'
  BY DEF Kept
<1>. QED
  BY <1>1, <1>2, <1>3, <1>4, <1>5, <1>6, <1>7, <1>8, <1>9 DEF Next, Loop

\* A delay is doubled up to its maximum.
LEMMA DelaysStep == TypeOK /\ Next => DelaysOK'
<1>. SUFFICES ASSUME TypeOK, Next PROVE DelaysOK'
  OBVIOUS
<1>. USE MatrixLinkAssumption DEF TypeOK, DelaysOK, delays
<1>1. CASE Report \/ ReportGivesUp \/ Top \/ Sleep \/ Wait \/ ReadKey \/ WriteKey \/ Delivered \/ Deliver
  BY <1>1 DEF Report, ReportGivesUp, Top, Sleep, Wait, ReadKey, WriteKey, Delivered, Deliver, Handout
<1>2. CASE Discover \/ InitCrypto \/ ConnectFails \/ Load \/ Request
  BY <1>2 DEF Discover, InitCrypto, ConnectFails, Load, Request
<1>3. CASE Save \/ RejectToken \/ Cancel \/ Start \/ Receive \/ Post
  BY <1>3 DEF Save, RejectToken, Cancel, Start, Receive, Post
<1>4. CASE Listen
  BY <1>4 DEF Listen
<1>5. CASE End
  BY <1>5 DEF End
<1>6. CASE FailedSync \/ Judge
  BY <1>6 DEF FailedSync, Judge, Double, More
<1>7. ASSUME NEW e \in Events, SendLate(e) \/ Undecryptable(e) PROVE DelaysOK'
  BY <1>7 DEF SendLate, Undecryptable
<1>. QED
  BY <1>1, <1>2, <1>3, <1>4, <1>5, <1>6, <1>7 DEF Next, Loop

\* A response holds the newest events after the position it was asked for, and
\* none only if there are none.
LEMMA Response ==
  ASSUME PositionsOK, Request, todo' # todo \/ at' = "save"
  PROVE  /\ tokenOK /\ ~ctxDone /\ at' = "save"
         /\ todo' \in Seq(1..posted)
         /\ \E s \in From..posted :
               /\ DOMAIN todo' = 1..(posted - s) /\ Len(todo') = posted - s
               /\ \A i \in 1..(posted - s) : todo'[i] = s + i
               /\ s = posted => From = posted
         /\ old' = IF since = None THEN old \union 1..posted ELSE old
<1>0. From \in 0..posted /\ posted \in Nat
  BY MatrixLinkAssumption DEF From, PositionsOK, None
<1>1. /\ tokenOK /\ ~ctxDone /\ at' = "save"
      /\ todo' = LET skip == IF posted - From > TimelineLimit THEN posted - TimelineLimit ELSE From
                 IN  [i \in 1..(posted - skip) |-> skip + i]
      /\ old' = IF since = None THEN old \union 1..posted ELSE old
  BY DEF Request, SetConnected, Goto, Fails, Answers
<1>. HIDE DEF From
<1>2. PICK s \in From..posted :
        /\ todo' = [i \in 1..(posted - s) |-> s + i]
        /\ s = posted => From = posted
  <2>1. CASE posted - From > TimelineLimit
    <3>1. posted - TimelineLimit \in From..posted /\ posted - TimelineLimit # posted
      BY <1>0, <2>1, MatrixLinkAssumption
    <3>. QED
      BY <1>1, <2>1, <3>1
  <2>2. CASE ~(posted - From > TimelineLimit)
    <3>1. From \in From..posted /\ todo' = [i \in 1..(posted - From) |-> From + i]
      BY <1>0, <1>1, <2>2
    <3>. QED
      BY <3>1
  <2>. QED
    BY <2>1, <2>2
<1>3. posted - s \in Nat /\ \A i \in 1..(posted - s) : s + i \in 1..posted
  BY <1>0
<1>4. todo' \in [1..(posted - s) -> 1..posted]
  BY <1>2, <1>3
<1>5. todo' \in Seq(1..posted)
  BY <1>3, <1>4, SeqDef
<1>6. DOMAIN todo' = 1..Len(todo') /\ Len(todo') \in Nat /\ DOMAIN todo' = 1..(posted - s)
  BY <1>4, <1>5, LenProperties
<1>7. Len(todo') = posted - s
  BY <1>3, <1>6
<1>. QED
  BY <1>1, <1>2, <1>5, <1>6, <1>7

\* The position saved lies among the events there are.
LEMMA NextBatchType == PositionsOK => NextBatch \in 0..posted
<1>. SUFFICES ASSUME PositionsOK PROVE NextBatch \in 0..posted
  OBVIOUS
<1>1. CASE todo # << >>
  <2>1. Len(todo) \in 1..Len(todo) /\ todo \in Seq(1..posted)
    BY <1>1, EmptySeq DEF PositionsOK
  <2>2. todo[Len(todo)] \in 1..posted
    BY <2>1, ElementOfSeq
  <2>. QED
    BY <1>1, <2>2 DEF NextBatch, Last
<1>2. CASE todo = << >>
  BY <1>2, MatrixLinkAssumption DEF NextBatch, From, PositionsOK, None
<1>. QED
  BY <1>1, <1>2

\* Positions stay among the events there are.
LEMMA PositionsStep == TypeOK /\ Next => PositionsOK'
<1>. SUFFICES ASSUME PositionsOK, Next PROVE PositionsOK'
  BY DEF TypeOK
<1>. DEFINE Kept == UNCHANGED <<posted, position, since, todo>>
<1>1. Kept => PositionsOK'
  BY DEF PositionsOK
<1>2. CASE Report \/ ReportGivesUp \/ Top \/ Sleep \/ Wait \/ ReadKey \/ WriteKey
  BY <1>1, <1>2 DEF Report, ReportGivesUp, Top, Sleep, Wait, ReadKey, WriteKey, outside, batch
<1>3. CASE Discover \/ InitCrypto \/ ConnectFails \/ Listen
  BY <1>1, <1>3 DEF Discover, InitCrypto, ConnectFails, Listen, outside, batch
<1>4. CASE FailedSync \/ Judge \/ RejectToken \/ Cancel \/ Start \/ Receive
  BY <1>1, <1>4 DEF FailedSync, Judge, RejectToken, Cancel, Start, Receive, outside, batch
<1>5. ASSUME NEW e \in Events, SendLate(e) \/ Undecryptable(e) PROVE PositionsOK'
  BY <1>1, <1>5 DEF SendLate, Undecryptable, outside, batch
<1>6. CASE Load \/ Delivered
  BY <1>6 DEF Load, Delivered, PositionsOK, outside, batch
<1>7. CASE Request
  <2>1. posted' = posted /\ position' = position /\ since' = since
    BY <1>7 DEF Request, outside
  <2>2. todo' \in Seq(1..posted)
    BY <1>7, Response DEF PositionsOK
  <2>. QED
    BY <2>1, <2>2 DEF PositionsOK
<1>8. CASE Save
  <2>1. posted' = posted /\ since' = since
    BY <1>8 DEF Save, outside
  <2>2. \/ position' = NextBatch /\ todo' = todo
        \/ position' = position /\ todo' = << >>
    BY <1>8 DEF Save
  <2>. QED
    BY <2>1, <2>2, NextBatchType, EmptySeqs DEF PositionsOK
<1>9. CASE Deliver
  <2>1. posted' = posted /\ position' = position /\ since' = since /\ todo # << >> /\ todo' = Tail(todo)
    BY <1>9 DEF Deliver, Handout, outside
  <2>. QED
    BY <2>1, HeadTailProperties DEF PositionsOK
<1>10. CASE Post
  <2>1. /\ posted < MaxEvents /\ posted' = posted + 1
        /\ position' = position /\ since' = since /\ todo' = todo
    BY <1>10 DEF Post, batch
  <2>2. 1..posted \subseteq 1..posted' /\ 0..posted \subseteq 0..posted' /\ posted' \in 0..MaxEvents
    BY <2>1, MatrixLinkAssumption DEF PositionsOK
  <2>. QED
    BY <2>1, <2>2, SeqMonotonic DEF PositionsOK
<1>11. CASE End
  BY <1>11, EmptySeqs DEF End, PositionsOK
<1>. QED
  BY <1>2, <1>3, <1>4, <1>5, <1>6, <1>7, <1>8, <1>9, <1>10, <1>11 DEF Next, Loop

\* What sending does to the channel and the history of the events.
LEMMA SendTypes ==
  ASSUME EventsOK, NEW e \in Events, Send(e)
  PROVE  /\ ch' \in Seq(Item) /\ Len(ch') <= Buffer
         /\ entered' \in [Events -> Nat] /\ gone' \subseteq Events
<1>1. CASE Len(ch) < Buffer /\ ch' = Append(ch, [t |-> "message", e |-> e])
           /\ entered' = [entered EXCEPT ![e] = @ + 1] /\ gone' = gone
  <2>1. ch' \in Seq(Item) /\ Len(ch') = Len(ch) + 1
    BY <1>1, ItemTypes DEF EventsOK
  <2>2. Len(ch) \in Nat /\ Buffer \in Nat
    BY MatrixLinkAssumption DEF EventsOK
  <2>. QED
    BY <1>1, <2>1, <2>2 DEF EventsOK
<1>2. CASE gone' = gone \union {e} /\ ch' = ch /\ entered' = entered
  BY <1>2 DEF EventsOK
<1>. QED
  BY <1>1, <1>2 DEF Send

\* What is handed out is an event of the account ...
LEMMA HeadIsEvent == PositionsOK /\ todo # << >> => Head(todo) \in Events
<1>1. PositionsOK => 1..posted \subseteq Events
  BY MatrixLinkAssumption DEF PositionsOK, Events
<1>. QED
  BY <1>1, HeadTailProperties DEF PositionsOK

\* ... and so is the rest of the response.
LEMMA TodoEvents == PositionsOK => \A i \in DOMAIN todo : todo[i] \in Events
<1>1. PositionsOK => 1..posted \subseteq Events
  BY MatrixLinkAssumption DEF PositionsOK, Events
<1>. QED
  BY <1>1, SeqFacts DEF PositionsOK

\* What a limited response leaves out are events of the account, too.
LEMMA LeftOutEvents == PositionsOK => LeftOut \subseteq Events
<1>. SUFFICES ASSUME PositionsOK, todo # << >> PROVE (From + 1)..(Head(todo) - 1) \subseteq Events
  BY DEF LeftOut
<1>1. From \in Nat /\ Head(todo) \in 1..MaxEvents
  BY HeadIsEvent DEF From, PositionsOK, None, Events
<1>. QED
  BY <1>1, MatrixLinkAssumption DEF Events

\* The channel keeps its items and its capacity.
LEMMA EventsStep == TypeOK /\ Next => EventsOK'
<1>. SUFFICES ASSUME FlagsOK, PositionsOK, EventsOK, Next PROVE EventsOK'
  BY DEF TypeOK
<1>. DEFINE Kept == UNCHANGED <<stored, late, old, gone, cut, entered, ch>>
<1>1. Kept => EventsOK'
  BY DEF EventsOK
<1>0. 1..posted \subseteq Events
  BY MatrixLinkAssumption DEF PositionsOK, Events
<1>2. CASE ReportGivesUp \/ Top \/ Sleep \/ Wait \/ ReadKey \/ WriteKey
  BY <1>1, <1>2 DEF ReportGivesUp, Top, Sleep, Wait, ReadKey, WriteKey, outside, batch, events
<1>3. CASE Discover \/ InitCrypto \/ ConnectFails \/ Listen
  BY <1>1, <1>3 DEF Discover, InitCrypto, ConnectFails, Listen, outside, batch, events
<1>4. CASE FailedSync \/ Judge \/ RejectToken \/ Cancel \/ Start
  BY <1>1, <1>4 DEF FailedSync, Judge, RejectToken, Cancel, Start, outside, batch, events
<1>5. CASE Load \/ Delivered \/ Post
  BY <1>1, <1>5 DEF Load, Delivered, Post, outside, batch, events
<1>13. CASE Save
  <2>1. UNCHANGED <<stored, late, old, gone, entered, ch>> /\ cut' \in {cut, cut \union LeftOut}
    BY <1>13 DEF Save, outside
  <2>. QED
    BY <2>1, LeftOutEvents DEF EventsOK
<1>6. CASE Report
  <2>1. /\ UNCHANGED <<stored, late, old, gone, cut, entered>>
        /\ Len(ch) < Buffer /\ ch' = Append(ch, [t |-> "connected", up |-> connected])
    BY <1>6 DEF Report, outside, batch
  <2>2. connected \in BOOLEAN
    BY DEF FlagsOK
  <2>. QED
    BY <2>1, <2>2, ItemTypes, MatrixLinkAssumption DEF EventsOK
<1>7. CASE Request
  <2>1. UNCHANGED <<stored, late, gone, cut, entered, ch>>
    BY <1>7 DEF Request, outside
  <2>2. old' \subseteq Events
    <3>1. CASE old' = old
      BY <3>1 DEF EventsOK
    <3>2. CASE old' # old
      <4>1. todo' # todo \/ at' = "save"
        BY <1>7, <3>2, RequestGoes
      <4>2. old' = old \union 1..posted
        BY <1>7, <3>2, <4>1, Response
      <4>. QED
        BY <4>2, <1>0 DEF EventsOK
    <3>. QED
      BY <3>1, <3>2
  <2>. QED
    BY <2>1, <2>2 DEF EventsOK
<1>8. CASE Deliver
  <2>1. todo # << >> /\ Head(todo) \in Events
    BY <1>8, <1>0, HeadTailProperties DEF Deliver, Handout, PositionsOK
  <2>2. UNCHANGED <<stored, old, cut>>
    BY <1>8 DEF Deliver, Handout, events, outside
  <2>3. \/ UNCHANGED <<ch, entered, gone>> /\ late' \in {late, late \union {Head(todo)}}
        \/ Send(Head(todo)) /\ late' = late
    BY <1>8 DEF Deliver, Handout, events
  <2>. QED
    BY <2>1, <2>2, <2>3, SendTypes DEF EventsOK
<1>9. CASE Receive
  <2>1. /\ UNCHANGED <<late, old, cut, entered>>
        /\ ch # << >> /\ ch' = Tail(ch)
    BY <1>9 DEF Receive, batch
  <2>2. Head(ch) \in Item /\ ch' \in Seq(Item) /\ Len(ch') = Len(ch) - 1
    BY <2>1, HeadTailProperties DEF EventsOK
  <2>3. \/ stored' = stored /\ gone' = gone
        \/ /\ Head(ch).t # "connected"
           /\ stored' \in {stored, stored \union {Head(ch).e}}
           /\ gone' \in {gone, gone \union {Head(ch).e}}
    BY <1>9 DEF Receive
  <2>4. stored' \subseteq Events /\ gone' \subseteq Events
    BY <2>2, <2>3, ItemTypes DEF EventsOK
  <2>5. Len(ch) \in Nat
    BY DEF EventsOK
  <2>. QED
    BY <2>1, <2>2, <2>4, <2>5, MatrixLinkAssumption DEF EventsOK
<1>10. ASSUME NEW e \in Events, SendLate(e) PROVE EventsOK'
  BY <1>10, SendTypes DEF SendLate, outside, EventsOK
<1>11. ASSUME NEW e \in Events, Undecryptable(e) PROVE EventsOK'
  BY <1>11 DEF Undecryptable, outside, EventsOK
<1>12. CASE End
  <2>1. InFlight \subseteq Events
    BY <1>0, SeqFacts DEF InFlight, EventsOK, PositionsOK
  <2>2. UNCHANGED <<stored, entered, old, cut>> /\ late' = {} /\ ch' = << >> /\ gone' = gone \union InFlight
    BY <1>12 DEF End
  <2>. QED
    BY <2>1, <2>2, EmptySeqs, MatrixLinkAssumption DEF EventsOK
<1>. QED
  BY <1>2, <1>3, <1>4, <1>5, <1>6, <1>7, <1>8, <1>9, <1>10, <1>11, <1>12, <1>13 DEF Next, Loop

\* No key and no session at first.
LEMMA KeyInit == Init => KeyInv
BY DEF Init, KeyInv, PickleKeyKept

\* A step keeps the types and the key.
LEMMA TypeAndKeyStep == TypeOK /\ KeyInv /\ [Next]_vars => TypeOK' /\ KeyInv'
<1>1. TypeOK /\ KeyInv /\ Next => TypeOK' /\ KeyInv'
  BY FlagsStep, PlacesStep, FilesStep, PositionsStep, EventsStep, DelaysStep DEF TypeOK
<1>2. TypeOK /\ KeyInv /\ UNCHANGED vars => TypeOK' /\ KeyInv'
  <2>. SUFFICES ASSUME TypeOK, KeyInv, UNCHANGED vars PROVE TypeOK' /\ KeyInv'
    OBVIOUS
  <2>. USE DEF vars, outside, files, setup, batch, link, delays, events, trouble
  <2>1. FlagsOK' /\ PlacesOK' /\ FilesOK'
    BY DEF TypeOK, FlagsOK, PlacesOK, FilesOK
  <2>2. PositionsOK' /\ EventsOK' /\ DelaysOK'
    BY DEF TypeOK, PositionsOK, EventsOK, DelaysOK
  <2>3. KeyInv'
    BY DEF KeyInv, PickleKeyKept
  <2>. QED
    BY <2>1, <2>2, <2>3 DEF TypeOK
<1>. QED
  BY <1>1, <1>2

-----------------------------------------------------------------------------
(* The link                                                                *)

\* An edge put on the channel is what the session will have seen ...
LEMMA EdgeReported ==
  ASSUME ch \in Seq(Item), NEW up \in BOOLEAN,
         ch' = Append(ch, [t |-> "connected", up |-> up])
  PROVE  Sees(up)'
<1>1. PICK n \in Nat \ {0} : n = Len(ch) + 1
  BY SeqFacts
<1>. DEFINE m == [t |-> "connected", up |-> up]
<1>2. m \in Item /\ m.t = "connected" /\ m.up = up
  BY ItemTypes
<1>. HIDE DEF m
<1>3. ch'[n] = m /\ DOMAIN ch' = 1..n
  BY <1>1, <1>2, AppendFacts DEF m
<1>4. \A j \in DOMAIN ch' : Edge(j)' => j <= n
  BY <1>3
<1>5. LastEdge(n)'
  BY <1>2, <1>3, <1>4 DEF LastEdge, Edge
<1>. QED
  BY <1>2, <1>3, <1>5 DEF Sees

\* ... a message changes nothing about it ...
LEMMA MessageQueued ==
  ASSUME ch \in Seq(Item), NEW e \in Events, NEW up, Sees(up), flag' = flag,
         ch' = Append(ch, [t |-> "message", e |-> e])
  PROVE  Sees(up)'
<1>0. PICK n \in Nat \ {0} : n = Len(ch) + 1
  BY SeqFacts
<1>. DEFINE m == [t |-> "message", e |-> e]
<1>m. m \in Item /\ m.t = "message"
  BY ItemTypes
<1>. HIDE DEF m
<1>1. /\ ch'[n] = m /\ DOMAIN ch' = 1..n
      /\ \A i \in 1..(n - 1) : ch'[i] = ch[i]
  BY <1>0, <1>m, AppendFacts DEF m
<1>2. DOMAIN ch = 1..(n - 1)
  BY <1>0, SeqFacts
<1>3. \A i \in 1..(n - 1) : Edge(i)' <=> Edge(i)
  BY <1>1 DEF Edge
<1>4. ~Edge(n)'
  BY <1>m, <1>1 DEF Edge
<1>5. CASE flag = up /\ \A i \in DOMAIN ch : ~Edge(i)
  BY <1>2, <1>3, <1>4, <1>5 DEF Sees
<1>6. ASSUME NEW i \in DOMAIN ch, LastEdge(i), ch[i].up = up PROVE Sees(up)'
  <2>1. i \in DOMAIN ch' /\ Edge(i)' /\ ch'[i].up = up
    BY <1>1, <1>2, <1>3, <1>6 DEF LastEdge, Edge
  <2>2. \A j \in DOMAIN ch' : Edge(j)' => j <= i
    BY <1>1, <1>2, <1>3, <1>4, <1>6 DEF LastEdge
  <2>. QED
    BY <2>1, <2>2 DEF LastEdge, Sees
<1>. QED
  BY <1>5, <1>6 DEF Sees

\* ... and neither does taking what comes first.
LEMMA ItemTaken ==
  ASSUME ch \in Seq(Item), ch # << >>, NEW up, Sees(up),
         ch' = Tail(ch),
         flag' = IF Head(ch).t = "connected" THEN Head(ch).up ELSE flag
  PROVE  Sees(up)'
<1>0. PICK n \in Nat \ {0} : n = Len(ch)
  BY EmptySeq
<1>1. /\ ch' \in Seq(Item) /\ Len(ch') = n - 1
      /\ \A i \in 1..(n - 1) : ch'[i] = ch[i + 1]
  BY <1>0, HeadTailProperties
<1>2. DOMAIN ch = 1..n /\ DOMAIN ch' = 1..(n - 1) /\ Head(ch) = ch[1]
  BY <1>0, <1>1, SeqFacts
<1>3. \A i \in 1..(n - 1) : Edge(i)' <=> Edge(i + 1)
  BY <1>1 DEF Edge
<1>4. CASE flag = up /\ \A i \in DOMAIN ch : ~Edge(i)
  <2>1. ~Edge(1) /\ \A i \in 1..(n - 1) : ~Edge(i + 1)
    BY <1>1, <1>2, <1>4
  <2>. QED
    BY <1>2, <1>3, <1>4, <2>1 DEF Sees, Edge
<1>5. ASSUME NEW i \in DOMAIN ch, LastEdge(i), ch[i].up = up PROVE Sees(up)'
  <2>1. CASE i = 1
    <3>0. ch[1].t = "connected" /\ ch[1].up = up
      BY <1>5, <2>1 DEF LastEdge, Edge
    <3>1. flag' = up
      BY <1>2, <3>0
    <3>2. \A j \in 1..(n - 1) : ~Edge(j + 1)
      BY <1>1, <1>2, <1>5, <2>1 DEF LastEdge
    <3>. QED
      BY <1>2, <1>3, <3>1, <3>2 DEF Sees
  <2>2. CASE i # 1
    <3>1. PICK k \in 1..(n - 1) : k + 1 = i
      BY <1>1, <1>2, <2>2
    <3>2. Edge(k)' /\ ch'[k].up = up
      BY <1>1, <1>3, <1>5, <3>1 DEF LastEdge
    <3>3. ASSUME NEW j \in 1..(n - 1), Edge(j)' PROVE j <= k
      <4>1. Edge(j + 1)
        BY <1>3, <3>3
      <4>2. j + 1 \in DOMAIN ch
        BY <1>2
      <4>3. j + 1 <= i
        BY <1>5, <4>1, <4>2 DEF LastEdge
      <4>. QED
        BY <3>1, <4>3
    <3>4. LastEdge(k)'
      BY <1>2, <3>2, <3>3 DEF LastEdge
    <3>. QED
      BY <1>2, <3>2, <3>4 DEF Sees
  <2>. QED
    BY <2>1, <2>2
<1>. QED
  BY <1>4, <1>5 DEF Sees

\* The link is down at first, and the session believes so.
LEMMA LinkInit == Init => LinkInv
<1>1. Init => Sees(FALSE)
  BY EmptySeqs DEF Init, Sees
<1>. QED
  BY <1>1 DEF Init, LinkInv

\* A step keeps the session behind the link.
LEMMA LinkStep == TypeOK /\ LinkInv /\ [Next]_vars => LinkInv'
<1>. SUFFICES ASSUME FlagsOK, PlacesOK, PositionsOK, EventsOK, LinkInv, [Next]_vars PROVE LinkInv'
  BY DEF TypeOK
<1>. USE DEF LinkInv
<1>. DEFINE Kept == UNCHANGED <<running, ctxDone, ch, flag, connected>>
            Quiet == {"failed", "wait", "judge", "sleep", "ended"}
<1>1. (flag' = flag /\ ch' = ch) => \A up \in BOOLEAN : Sees(up)' <=> Sees(up)
  BY DEF Sees, LastEdge, Edge
<1>0. after \in {"deliver", "failed", "judge"}
  BY DEF PlacesOK
<1>2. connected \in BOOLEAN /\ flag \in BOOLEAN /\ ch \in Seq(Item)
  BY DEF FlagsOK, EventsOK
\* A step of the loop that neither reports nor finds out about the link.
<1>3. ASSUME Kept, running, at # "report", at' # "report",
             (at' \in Quiet /\ ~ctxDone) => at \in Quiet
      PROVE  LinkInv'
  BY <1>1, <1>2, <1>3
\* A step that finds out about the link.
<1>4. ASSUME NEW up \in BOOLEAN, NEW place \in {"deliver", "failed", "judge"},
             SetConnected(up, place), up => place = "deliver",
             UNCHANGED <<running, ctxDone, ch, flag>>, running, at # "report"
      PROVE  LinkInv'
  BY <1>1, <1>2, <1>4 DEF SetConnected, Goto
<1>5. CASE Report
  <2>1. PICK up \in BOOLEAN : up = connected
    BY <1>2
  <2>2. /\ ch' = Append(ch, [t |-> "connected", up |-> up]) /\ at = "report" /\ running
        /\ at' = after /\ UNCHANGED <<running, ctxDone, connected, after>>
    BY <1>5, <2>1 DEF Report, At, Goto, outside, link
  <2>3. Sees(up)'
    BY <1>2, <2>2, EdgeReported
  <2>. QED
    BY <1>0, <2>1, <2>2, <2>3
<1>6. CASE ReportGivesUp
  BY <1>6 DEF ReportGivesUp, At, Goto, outside, link, events
<1>7. CASE Top \/ ReadKey \/ Sleep \/ Wait \/ Delivered
  BY <1>3, <1>7 DEF Top, ReadKey, Sleep, Wait, Delivered, At, Goto, outside, link, events
<1>8. CASE Discover \/ WriteKey \/ InitCrypto \/ Load \/ Save
  BY <1>3, <1>8 DEF Discover, WriteKey, InitCrypto, Load, Save, At, Goto, outside, link, events
<1>9. CASE FailedSync \/ Judge
  BY <1>3, <1>9 DEF FailedSync, Judge, At, Goto, outside, link, events
<1>10. CASE ConnectFails
  BY <1>3, <1>4, <1>10 DEF ConnectFails, At, Goto, outside, link, events
<1>11. CASE Request
  <2>1. running /\ at = "request" /\ UNCHANGED <<running, ctxDone, ch, flag>>
    BY <1>11 DEF Request, At, outside
  <2>2. \/ at' \in {"save", "err"} /\ connected' = connected
        \/ SetConnected(FALSE, "failed")
    BY <1>11 DEF Request, Goto, link, SetConnected
  <2>. QED
    BY <1>3, <1>4, <2>1, <2>2
<1>12. CASE Listen
  <2>1. running /\ at = "listen" /\ UNCHANGED <<running, ctxDone, ch, flag>>
    BY <1>12 DEF Listen, At, outside, events
  <2>. QED
    BY <1>4, <1>12, <2>1 DEF Listen
<1>13. ASSUME NEW e \in Events, Send(e), UNCHANGED <<running, ctxDone, flag, connected, at, after>>, running
       PROVE  LinkInv'
  BY <1>1, <1>2, <1>13, MessageQueued DEF Send
<1>14. CASE Deliver
  <2>1. Head(todo) \in Events /\ running
    BY <1>14, HeadIsEvent DEF Deliver, Handout, At
  <2>. QED
    BY <1>1, <1>2, <1>13, <1>14, <2>1 DEF Deliver, Handout, At, outside, link, events
<1>15. CASE Receive
  <2>1. ch # << >> /\ ch' = Tail(ch) /\ running
        /\ flag' = IF Head(ch).t = "connected" THEN Head(ch).up ELSE flag
    BY <1>15 DEF Receive
  <2>2. UNCHANGED <<running, ctxDone, connected, at, after>>
    BY <1>15 DEF Receive, link
  <2>. QED
    BY <1>2, <2>1, <2>2, ItemTaken
<1>16. ASSUME NEW e \in Events, SendLate(e) PROVE LinkInv'
  BY <1>13, <1>16 DEF SendLate, outside, link
<1>17. ASSUME NEW e \in Events, Undecryptable(e) PROVE LinkInv'
  BY <1>1, <1>2, <1>17 DEF Undecryptable, outside, link
<1>18. CASE Post \/ RejectToken \/ Cancel
  BY <1>1, <1>2, <1>18 DEF Post, RejectToken, Cancel, link, events
<1>19. CASE End
  BY <1>19 DEF End
<1>20. CASE Start
  <2>1. ch' = << >> /\ flag' = FALSE /\ connected' = FALSE /\ at' = "top"
    BY <1>2, <1>20 DEF Start, link, events
  <2>2. Sees(FALSE)'
    BY <2>1, EmptySeqs DEF Sees
  <2>. QED
    BY <1>20, <2>1, <2>2 DEF Start
<1>21. CASE UNCHANGED vars
  BY <1>1, <1>2, <1>21 DEF vars, outside, link, events
<1>. QED
  BY <1>5, <1>6, <1>7, <1>8, <1>9, <1>10, <1>11, <1>12, <1>14, <1>15, <1>16, <1>17, <1>18, <1>19, <1>20, <1>21 DEF Next, Loop

-----------------------------------------------------------------------------
(* What is delivered                                                       *)

\* Nothing is under way at first.
LEMMA DeliveryInit == Init => BatchInv /\ NewsInv /\ NothingSkipped
<1>. SUFFICES ASSUME Init PROVE BatchInv /\ NewsInv /\ NothingSkipped
  OBVIOUS
<1>1. todo = << >> /\ DOMAIN todo = {} /\ old = {} /\ late = {} /\ position = None
      /\ at = "top" /\ \A e \in Events : entered[e] = 0
  BY EmptySeqs DEF Init
<1>2. BatchInv
  BY <1>1 DEF BatchInv, Asking
<1>3. NewsInv
  BY <1>1 DEF NewsInv
<1>. QED
  BY <1>1, <1>2, <1>3 DEF NothingSkipped

\* A step of the loop between other places than that of an unsaved response.
LEMMA LoopGoesOn ==
  ASSUME BatchInv, NewsInv, NothingSkipped,
         UNCHANGED <<posted, position, todo, late, old, gone, cut, entered, stored, ch>>,
         at # "save", at' # "save", Handing' \/ ~Handing \/ todo = << >>,
         since' = since \/ todo = << >>,
         Asking' => (Asking /\ since' = since) \/ since' = position
  PROVE  BatchInv' /\ NewsInv' /\ NothingSkipped'
<1>1. BatchInv'
  <2>1. CASE since' = since
    BY <2>1 DEF BatchInv
  <2>2. CASE todo = << >>
    BY <2>2, EmptySeqs DEF BatchInv
  <2>. QED
    BY <2>1, <2>2
<1>2. NewsInv'
  BY DEF NewsInv
<1>3. NothingSkipped'
  BY DEF NothingSkipped, InFlight
<1>. QED
  BY <1>1, <1>2, <1>3

\* The steps of the loop that neither ask for, save nor hand out a response.
LEMMA LoopKeepsDelivery ==
  ASSUME TypeOK, BatchInv, NewsInv, NothingSkipped,
         \/ Report \/ ReportGivesUp \/ Top \/ Sleep \/ Wait \/ Discover \/ ReadKey \/ WriteKey
         \/ InitCrypto \/ Load \/ ConnectFails \/ Judge \/ FailedSync \/ Listen \/ Delivered
  PROVE  BatchInv' /\ NewsInv' /\ NothingSkipped'
<1>. DEFINE Kept == UNCHANGED <<posted, position, todo, late, old, gone, cut, entered, stored, ch>>
<1>0. after \in {"deliver", "failed", "judge"}
  BY DEF TypeOK, PlacesOK
<1>1. CASE ReportGivesUp
  BY <1>0, <1>1, LoopGoesOn DEF ReportGivesUp, At, Goto, outside, batch, events, Handing, Asking
<1>2. CASE Top \/ Sleep \/ Wait
  BY <1>2, LoopGoesOn DEF Top, Sleep, Wait, At, Goto, outside, batch, events, Handing, Asking
<1>3. CASE Discover \/ ReadKey
  BY <1>3, LoopGoesOn DEF Discover, ReadKey, At, Goto, outside, batch, events, Handing, Asking
<1>4. CASE WriteKey \/ InitCrypto
  BY <1>4, LoopGoesOn DEF WriteKey, InitCrypto, At, Goto, outside, batch, events, Handing, Asking
<1>5. CASE ConnectFails
  BY <1>5, LoopGoesOn DEF ConnectFails, SetConnected, At, Goto, outside, batch, events, Handing, Asking
<1>6. CASE Judge \/ FailedSync
  BY <1>6, LoopGoesOn DEF Judge, FailedSync, At, Goto, outside, batch, events, Handing, Asking
<1>7. CASE Listen
  BY <1>7, LoopGoesOn DEF Listen, SetConnected, At, Goto, outside, batch, events, Handing, Asking
<1>8. CASE Load
  <2>1. todo = << >>
    BY <1>8 DEF Load, At, BatchInv, Handing
  <2>. QED
    BY <1>8, <2>1, LoopGoesOn DEF Load, At, Goto, outside, events, Handing, Asking
<1>9. CASE Delivered
  BY <1>9, LoopGoesOn DEF Delivered, At, Goto, outside, events, Handing, Asking
<1>10. CASE Report
  <2>1. /\ UNCHANGED <<posted, position, since, todo, late, old, gone, cut, entered, stored>>
        /\ ch' = Append(ch, [t |-> "connected", up |-> connected])
        /\ at = "report" /\ at' = after /\ after' = after
    BY <1>10 DEF Report, At, Goto, outside, batch
  <2>2. BatchInv'
    BY <1>0, <2>1 DEF BatchInv, Handing, Asking, From, NextBatch
  <2>3. NewsInv'
    BY <1>0, <2>1 DEF NewsInv
  <2>4. Range(ch) \subseteq Range(ch')
    <3>1. [t |-> "connected", up |-> connected] \in Item /\ ch \in Seq(Item)
      BY ItemTypes DEF TypeOK, FlagsOK, EventsOK
    <3>. QED
      BY <2>1, <3>1, RangeGrows
  <2>5. NothingSkipped'
    BY <1>0, <2>1, <2>4 DEF NothingSkipped, InFlight
  <2>. QED
    BY <2>2, <2>3, <2>5
<1>. QED
  BY <1>1, <1>2, <1>3, <1>4, <1>5, <1>6, <1>7, <1>8, <1>9, <1>10

\* A response to a first request is history; any other follows the position.
LEMMA RequestKeepsDelivery ==
  ASSUME TypeOK, BatchInv, NewsInv, NothingSkipped, Request
  PROVE  BatchInv' /\ NewsInv' /\ NothingSkipped'
<1>1. /\ UNCHANGED <<posted, position, since, late, gone, cut, entered, stored, ch>>
      /\ at = "request" /\ since = position
  BY DEF Request, At, outside, BatchInv, Asking
<1>2. todo = << >>
  BY <1>1 DEF BatchInv, Handing
<1>3. CASE at' # "save"
  <2>1. todo' = todo /\ old' = old
    BY <1>3, RequestGoes
  <2>. QED
    BY <1>1, <1>2, <1>3, <2>1, LoopGoesOn
<1>4. CASE at' = "save"
  <2>1. PICK from \in Nat : from = From
    BY DEF From, TypeOK, PositionsOK, None
  <2>2. /\ todo' \in Seq(1..posted)
        /\ old' = IF since = None THEN old \union 1..posted ELSE old
        /\ \E s \in from..posted :
               /\ DOMAIN todo' = 1..(posted - s) /\ Len(todo') = posted - s
               /\ \A i \in 1..(posted - s) : todo'[i] = s + i
               /\ s = posted => from = posted
    BY <1>4, <2>1, Response DEF TypeOK
  <2>3. PICK s \in from..posted :
               /\ DOMAIN todo' = 1..(posted - s) /\ Len(todo') = posted - s
               /\ \A i \in 1..(posted - s) : todo'[i] = s + i
               /\ s = posted => from = posted
    BY <2>2
  <2>4. posted \in Nat /\ s \in Nat /\ from <= s /\ s <= posted
    BY <2>1 DEF TypeOK, PositionsOK
  <2>5. \A e \in old : e \in Nat /\ e <= posted /\ (position # None => e <= position)
    BY DEF BatchInv, TypeOK, EventsOK, Events
  <2>6. \A i \in 1..(posted - s) : todo'[i] \in old' <=> since = None
    <3>1. CASE since = None
      <4>1. \A i \in 1..(posted - s) : s + i \in 1..posted
        BY <2>4
      <4>. QED
        BY <2>2, <2>3, <3>1, <4>1
    <3>2. CASE since # None
      <4>1. from = position /\ old' = old /\ position # None
        BY <1>1, <2>1, <2>2, <3>2 DEF From
      <4>. QED
        BY <2>3, <2>4, <2>5, <3>2, <4>1
    <3>. QED
      BY <3>1, <3>2
  <2>7. \A e \in old' : e <= posted' /\ (position' # None => e <= position')
    BY <1>1, <2>2, <2>4, <2>5
  <2>8. BatchInv'
    <3>1. from = From'
      BY <1>1, <2>1 DEF From
    <3>2. \E z \in Nat : From' <= z /\ \A i \in DOMAIN todo' : todo'[i] = z + i
      BY <2>3, <2>4, <3>1
    <3>3. \A i, j \in DOMAIN todo' : i < j => todo'[i] < todo'[j]
      BY <2>3, <2>4
    <3>4. NextBatch' = posted
      <4>1. CASE s = posted
        <5>1. todo' = << >>
          BY <2>2, <2>3, <2>4, <4>1, EmptySeq
        <5>. QED
          BY <2>3, <3>1, <4>1, <5>1 DEF NextBatch
      <4>2. CASE s # posted
        <5>1. posted - s \in 1..(posted - s) /\ todo'[posted - s] = posted
          BY <2>3, <2>4, <4>2
        <5>2. todo' # << >>
          BY <2>3, <5>1, EmptySeqs
        <5>. QED
          BY <2>3, <5>1, <5>2 DEF NextBatch, Last
      <4>. QED
        BY <4>1, <4>2
    <3>. QED
      BY <1>1, <1>4, <2>3, <2>6, <2>7, <3>2, <3>3, <3>4 DEF BatchInv, Handing, Asking
  <2>9. NewsInv'
    <3>1. \A e \in Events : (entered[e] > 0 \/ e \in late) => position # None /\ e <= position /\ e \notin old'
      <4>. SUFFICES ASSUME NEW e \in Events, entered[e] > 0 \/ e \in late
                    PROVE  position # None /\ e <= position /\ e \notin old'
        OBVIOUS
      <4>1. position # None /\ e <= position /\ e \notin old
        BY DEF NewsInv
      <4>. QED
        BY <1>1, <2>2, <4>1
    <3>. QED
      BY <1>1, <1>4, <3>1 DEF NewsInv
  <2>10. NothingSkipped'
    BY <1>1, <1>2, <1>4, <2>2, EmptySeqs DEF NothingSkipped, InFlight, Range
  <2>. QED
    BY <2>8, <2>9, <2>10
<1>. QED
  BY <1>3, <1>4

\* The position saved is that of the last event of the response, whose events
\* follow one another from where it begins; the first of them is not left out.
LEMMA SavedPosition ==
  ASSUME PositionsOK, BatchInv, at = "save"
  PROVE  /\ From \in Nat /\ Len(todo) \in Nat /\ DOMAIN todo = 1..Len(todo)
         /\ position # None => From = position
         /\ position = None => From = 0
         /\ \E s \in Nat :
               /\ From <= s /\ NextBatch = s + Len(todo)
               /\ \A i \in 1..Len(todo) : todo[i] = s + i
               /\ (From + 1)..s = LeftOut
<1>1. Len(todo) \in Nat /\ DOMAIN todo = 1..Len(todo) /\ (todo # << >> => Len(todo) \in 1..Len(todo))
  BY SeqFacts, EmptySeq DEF PositionsOK
<1>2. From \in Nat
  BY DEF From, PositionsOK, None
<1>3. since = position
  BY DEF BatchInv, Asking
<1>. SUFFICES \E s \in Nat :
               /\ From <= s /\ NextBatch = s + Len(todo)
               /\ \A i \in 1..Len(todo) : todo[i] = s + i
               /\ (From + 1)..s = LeftOut
  BY <1>1, <1>2, <1>3 DEF From
<1>4. CASE todo = << >>
  <2>1. NextBatch = From + Len(todo) /\ LeftOut = {} /\ Len(todo) = 0 /\ (From + 1)..From = {}
    BY <1>2, <1>4, EmptySeqs DEF NextBatch, LeftOut
  <2>. QED
    BY <1>2, <2>1
<1>5. CASE todo # << >>
  <2>1. PICK s \in Nat : From <= s /\ \A i \in 1..Len(todo) : todo[i] = s + i
    BY <1>1 DEF BatchInv
  <2>2. NextBatch = s + Len(todo)
    BY <1>1, <1>5, <2>1 DEF NextBatch, Last
  <2>3. Head(todo) = s + 1
    BY <1>1, <1>5, <2>1, HeadTailProperties DEF PositionsOK
  <2>4. Head(todo) - 1 = s
    BY <2>3
  <2>. QED
    BY <1>5, <2>1, <2>2, <2>4 DEF LeftOut
<1>. QED
  BY <1>4, <1>5

\* Saving moves the position past the response, none of which has entered; a
\* failure to save leaves it where it was and drops the response.
LEMMA SaveKeepsDelivery ==
  ASSUME TypeOK, BatchInv, NewsInv, NothingSkipped, Save
  PROVE  BatchInv' /\ NewsInv' /\ NothingSkipped'
<1>1. UNCHANGED <<posted, since, late, old, gone, entered, stored, ch>> /\ at = "save"
  BY DEF Save, At, outside
<1>2. CASE position' = NextBatch /\ cut' = cut \union LeftOut /\ at' = "listen" /\ todo' = todo
  <2>1. PICK n \in Nat, from \in Nat, s \in Nat :
        /\ from = From /\ n = Len(todo) /\ DOMAIN todo = 1..n
        /\ position # None => from = position
        /\ position = None => from = 0
        /\ from <= s /\ NextBatch = s + n
        /\ \A i \in 1..n : todo[i] = s + i
        /\ (from + 1)..s = LeftOut
    BY <1>1, SavedPosition DEF TypeOK
  <2>2. /\ DOMAIN todo = 1..n /\ position' = s + n
        /\ position # None => from = position
        /\ position = None => from = 0
    BY <1>2, <2>1
  <2>3. \A i \in 1..n : todo[i] = s + i
    BY <2>1
  <2>4. \A e \in old : e <= position'
    <3>1. CASE since = None
      BY <1>1, <1>2, <3>1 DEF BatchInv
    <3>2. CASE since # None
      <4>1. position # None
        BY <1>1, <3>2 DEF BatchInv, Asking
      <4>. QED
        BY <2>1, <2>2, <4>1 DEF BatchInv, TypeOK, EventsOK, Events
    <3>. QED
      BY <3>1, <3>2
  <2>5. position' # None /\ \A i \in 1..n : todo[i] <= position'
    BY <2>2, <2>3 DEF None
  <2>6. BatchInv'
    BY <1>1, <1>2, <2>2, <2>4, <2>5 DEF BatchInv, Handing, Asking
  <2>7. \A i \in 1..n : entered[todo[i]] = 0 /\ todo[i] \notin late
    <3>. SUFFICES ASSUME NEW i \in 1..n PROVE entered[todo[i]] = 0 /\ todo[i] \notin late
      OBVIOUS
    <3>1. todo[i] \in Events /\ todo[i] = s + i
      BY <2>2, <2>3, TodoEvents DEF TypeOK
    <3>2. ~(position # None /\ todo[i] <= position)
      BY <2>1, <2>2, <3>1
    <3>3. entered[todo[i]] \in Nat
      BY <3>1 DEF TypeOK, EventsOK
    <3>. QED
      BY <3>1, <3>2, <3>3 DEF NewsInv
  <2>8. NewsInv'
    <3>1. \A e \in Events : position # None /\ e <= position => e <= position'
      BY <2>1, <2>2 DEF Events
    <3>. QED
      BY <1>1, <1>2, <2>2, <2>5, <2>7, <3>1 DEF NewsInv
  <2>9. ASSUME NEW e \in Events, e <= position'
        PROVE  e \in (stored \union old \union gone \union cut \union InFlight)'
    <3>1. CASE e <= from
      <4>1. position # None /\ e <= position
        BY <2>2, <3>1 DEF Events
      <4>. QED
        BY <1>1, <1>2, <4>1 DEF NothingSkipped, InFlight
    <3>3. CASE from < e /\ e <= s
      BY <1>2, <2>1, <3>3 DEF Events
    <3>2. CASE s < e
      <4>1. PICK i \in 1..n : e = s + i
        <5>1. e - s \in 1..n /\ e = s + (e - s)
          BY <2>2, <2>9, <3>2 DEF Events
        <5>. QED
          BY <5>1
      <4>2. e \in Range(todo)
        BY <2>2, <2>3, <4>1 DEF Range
      <4>. QED
        BY <1>2, <4>2 DEF InFlight
    <3>. QED
      BY <2>1, <3>1, <3>2, <3>3 DEF Events
  <2>. QED
    BY <2>6, <2>8, <2>9 DEF NothingSkipped
<1>3. CASE position' = position /\ cut' = cut /\ at' = "err" /\ todo' = << >>
  <2>1. DOMAIN todo' = {}
    BY <1>3, EmptySeqs
  <2>2. BatchInv'
    BY <1>1, <1>3, <2>1 DEF BatchInv, Asking
  <2>3. NewsInv'
    BY <1>1, <1>3, <2>1 DEF NewsInv
  <2>4. NothingSkipped'
    BY <1>1, <1>3, <2>1 DEF NothingSkipped, InFlight, Range
  <2>. QED
    BY <2>2, <2>3, <2>4
<1>. QED
  BY <1>2, <1>3 DEF Save, Goto

\* An event that is sent is on the channel, or accounted for.
LEMMA Sent ==
  ASSUME EventsOK, NEW e \in Events, Send(e)
  PROVE  /\ \A x \in Events : x # e => entered'[x] = entered[x]
         /\ entered'[e] \in {entered[e], entered[e] + 1}
         /\ Range(ch) \subseteq Range(ch') /\ gone \subseteq gone'
         /\ e \in gone' \/ [t |-> "message", e |-> e] \in Range(ch')
<1>1. CASE ch' = Append(ch, [t |-> "message", e |-> e])
           /\ entered' = [entered EXCEPT ![e] = @ + 1] /\ gone' = gone
  <2>1. Range(ch') = Range(ch) \union {[t |-> "message", e |-> e]}
    BY <1>1, ItemTypes, RangeGrows DEF EventsOK
  <2>. QED
    BY <1>1, <2>1 DEF EventsOK
<1>2. CASE gone' = gone \union {e} /\ ch' = ch /\ entered' = entered
  BY <1>2
<1>. QED
  BY <1>1, <1>2 DEF Send

\* The event handed out is the least of the rest, so it comes only once.
LEMMA DeliverKeepsDelivery ==
  ASSUME TypeOK, BatchInv, NewsInv, NothingSkipped, Deliver
  PROVE  BatchInv' /\ NewsInv' /\ NothingSkipped'
<1>1. /\ UNCHANGED <<posted, position, since, old, cut, stored, at, after>>
      /\ at = "deliver" /\ todo # << >> /\ todo' = Tail(todo)
  BY DEF Deliver, Handout, At, outside, events
<1>2. PICK n \in Nat \ {0} : n = Len(todo)
  BY <1>1, EmptySeq DEF TypeOK, PositionsOK
<1>3. /\ DOMAIN todo = 1..n /\ DOMAIN todo' = 1..(n - 1)
      /\ \A i \in 1..(n - 1) : todo'[i] = todo[i + 1]
      /\ Head(todo) = todo[1]
  BY <1>1, <1>2, HeadTailProperties, SeqFacts DEF TypeOK, PositionsOK
<1>4. PICK e \in Events : e = Head(todo)
  BY <1>1, HeadIsEvent DEF TypeOK
<1>5. \A i \in 1..(n - 1) : todo'[i] \in Events /\ todo'[i] # e
  <2>1. \A i \in 1..n : todo[i] \in Events
    BY <1>3, TodoEvents DEF TypeOK
  <2>2. \A i \in 1..(n - 1) : todo[1] < todo[i + 1]
    BY <1>2, <1>3 DEF BatchInv
  <2>. QED
    BY <1>2, <1>3, <1>4, <2>1, <2>2 DEF Events
<1>6. position # None /\ e <= position /\ entered[e] = 0 /\ e \notin late /\ (e \in old <=> since = None)
  <2>1. 1 \in DOMAIN todo
    BY <1>3
  <2>. QED
    BY <1>1, <1>3, <1>4, <2>1 DEF BatchInv, NewsInv
<1>7. \/ since = None /\ UNCHANGED <<late, ch, entered, gone>>
      \/ since # None /\ Send(e) /\ late' = late
      \/ since # None /\ late' = late \union {e} /\ UNCHANGED <<ch, entered, gone>>
  BY <1>4 DEF Deliver, Handout, events
<1>8. BatchInv'
  <2>1. \A i, j \in 1..(n - 1) : i < j => todo'[i] < todo'[j]
    BY <1>2, <1>3 DEF BatchInv
  <2>2. \A i \in 1..(n - 1) : todo'[i] <= position /\ (todo'[i] \in old <=> since = None)
    BY <1>1, <1>2, <1>3 DEF BatchInv
  <2>. QED
    BY <1>1, <1>3, <1>6, <2>1, <2>2 DEF BatchInv, Handing, Asking
<1>9. /\ Range(ch) \subseteq Range(ch') /\ gone \subseteq gone'
      /\ \A x \in Events : x # e => entered'[x] = entered[x] /\ (x \in late' <=> x \in late)
      /\ entered'[e] \in {0, 1}
      /\ since = None => entered'[e] = 0 /\ e \notin late'
      /\ e \in late' => entered'[e] = 0
      /\ e \in old \union gone' \union late' \/ [t |-> "message", e |-> e] \in Range(ch')
  BY <1>6, <1>7, Sent DEF TypeOK
<1>10. NewsInv'
  <2>1. \A i \in 1..(n - 1) : entered[todo'[i]] = 0 /\ todo'[i] \notin late
    BY <1>1, <1>2, <1>3 DEF NewsInv
  <2>2. \A i \in 1..(n - 1) : entered'[todo'[i]] = 0 /\ todo'[i] \notin late'
    BY <1>5, <1>9, <2>1
  <2>3. \A x \in Events : entered'[x] <= 1
    BY <1>9 DEF NewsInv
  <2>4. \A x \in late' : entered'[x] = 0
    BY <1>4, <1>7, <1>9 DEF NewsInv, TypeOK, EventsOK
  <2>5. \A x \in Events : (entered'[x] > 0 \/ x \in late') => position # None /\ x <= position /\ x \notin old
    BY <1>6, <1>9 DEF NewsInv
  <2>. QED
    BY <1>1, <1>3, <2>2, <2>3, <2>4, <2>5 DEF NewsInv
<1>11. NothingSkipped'
  <2>1. Range(todo) \subseteq Range(todo') \union {e}
    <3>1. \A i \in 1..n : i = 1 \/ (i - 1 \in 1..(n - 1) /\ todo[i] = todo'[i - 1])
      BY <1>2, <1>3
    <3>. QED
      BY <1>3, <1>4, <3>1 DEF Range
  <2>2. \A x \in InFlight : x = e \/ x \in InFlight'
    BY <1>1, <1>9, <2>1 DEF InFlight, TypeOK, EventsOK
  <2>3. e \in (stored \union old \union gone \union cut \union InFlight)'
    BY <1>1, <1>9 DEF InFlight
  <2>. QED
    BY <1>1, <1>9, <2>2, <2>3 DEF NothingSkipped
<1>. QED
  BY <1>8, <1>10, <1>11

\* A late event has not entered, and is in no response any more.
LEMMA LateKeepsDelivery ==
  ASSUME TypeOK, BatchInv, NewsInv, NothingSkipped,
         NEW e \in Events, SendLate(e) \/ Undecryptable(e)
  PROVE  BatchInv' /\ NewsInv' /\ NothingSkipped'
<1>1. /\ UNCHANGED <<posted, position, since, todo, old, cut, stored, at, after>>
      /\ e \in late /\ late' = late \ {e}
  BY DEF SendLate, Undecryptable, outside
<1>2. /\ Range(ch) \subseteq Range(ch') /\ gone \subseteq gone'
      /\ \A x \in Events : x # e => entered'[x] = entered[x]
      /\ entered'[e] \in {entered[e], entered[e] + 1}
      /\ e \in gone' \/ [t |-> "message", e |-> e] \in Range(ch')
  <2>1. CASE SendLate(e)
    BY <2>1, Sent DEF SendLate, TypeOK
  <2>2. CASE Undecryptable(e)
    BY <2>2 DEF Undecryptable
  <2>. QED
    BY <2>1, <2>2
<1>3. BatchInv'
  BY <1>1 DEF BatchInv, Handing, Asking, From, NextBatch
<1>4. NewsInv'
  <2>1. entered[e] = 0 /\ position # None /\ e <= position /\ e \notin old
    BY <1>1 DEF NewsInv
  <2>2. entered'[e] <= 1 /\ \A x \in Events : entered'[x] <= 1
    BY <1>2, <2>1 DEF NewsInv
  <2>3. \A x \in late' : x # e /\ x \in late /\ x \in Events
    BY <1>1 DEF TypeOK, EventsOK
  <2>4. at # "save" => \A i \in DOMAIN todo : todo[i] \in Events /\ todo[i] # e
    BY <1>1, TodoEvents DEF NewsInv, TypeOK
  <2>5. \A x \in late' : entered'[x] = 0
    BY <1>2, <2>3 DEF NewsInv
  <2>6. at # "save" => \A i \in DOMAIN todo : entered'[todo[i]] = 0 /\ todo[i] \notin late'
    BY <1>1, <1>2, <2>4 DEF NewsInv
  <2>7. \A x \in Events : (entered'[x] > 0 \/ x \in late') => position # None /\ x <= position /\ x \notin old
    BY <1>1, <1>2, <2>1 DEF NewsInv
  <2>. QED
    BY <1>1, <2>2, <2>5, <2>6, <2>7 DEF NewsInv
<1>5. NothingSkipped'
  <2>1. \A x \in InFlight : x = e \/ x \in InFlight'
    BY <1>1, <1>2 DEF InFlight
  <2>2. e \in (stored \union old \union gone \union cut \union InFlight)'
    BY <1>2 DEF InFlight
  <2>. QED
    BY <1>1, <1>2, <2>1, <2>2 DEF NothingSkipped
<1>. QED
  BY <1>3, <1>4, <1>5

\* What the session takes is stored, or accounted for.
LEMMA ReceiveKeepsDelivery ==
  ASSUME TypeOK, BatchInv, NewsInv, NothingSkipped, Receive
  PROVE  BatchInv' /\ NewsInv' /\ NothingSkipped'
<1>1. /\ UNCHANGED <<posted, position, since, todo, late, old, cut, entered, at, after>>
      /\ ch # << >> /\ ch' = Tail(ch) /\ ch \in Seq(Item)
      /\ stored \subseteq stored' /\ gone \subseteq gone'
      /\ Head(ch).t # "connected" => Head(ch).e \in stored' \union gone'
  BY DEF Receive, batch, TypeOK, EventsOK
<1>2. Range(ch) \subseteq {Head(ch)} \union Range(ch')
  <2>1. PICK n \in Nat \ {0} : n = Len(ch)
    BY <1>1, EmptySeq
  <2>2. /\ DOMAIN ch = 1..n /\ DOMAIN ch' = 1..(n - 1) /\ Head(ch) = ch[1]
        /\ \A i \in 1..(n - 1) : ch'[i] = ch[i + 1]
    BY <1>1, <2>1, HeadTailProperties, SeqFacts
  <2>3. \A i \in 1..n : i = 1 \/ (i - 1 \in 1..(n - 1) /\ ch[i] = ch'[i - 1])
    BY <2>2
  <2>. QED
    BY <2>2, <2>3 DEF Range
<1>3. BatchInv'
  BY <1>1 DEF BatchInv, Handing, Asking, From, NextBatch
<1>4. NewsInv'
  BY <1>1 DEF NewsInv
<1>5. NothingSkipped'
  <2>1. ASSUME NEW x \in Events, [t |-> "message", e |-> x] = Head(ch)
        PROVE  x \in stored' \union gone'
    BY <1>1, <2>1
  <2>2. \A x \in InFlight : x \in Events => x \in InFlight' \union stored' \union gone'
    BY <1>1, <1>2, <2>1 DEF InFlight
  <2>. QED
    BY <1>1, <2>2 DEF NothingSkipped
<1>. QED
  BY <1>3, <1>4, <1>5

\* What is in flight when the daemon ends is accounted for.
LEMMA EndKeepsDelivery ==
  ASSUME TypeOK, BatchInv, NewsInv, NothingSkipped, End
  PROVE  BatchInv' /\ NewsInv' /\ NothingSkipped'
<1>1. /\ UNCHANGED <<posted, position, old, cut, entered, stored>>
      /\ gone' = gone \union InFlight /\ late' = {} /\ todo' = << >> /\ at' = "top"
  BY DEF End
<1>2. DOMAIN todo' = {}
  BY <1>1, EmptySeqs
<1>3. BatchInv'
  BY <1>1, <1>2 DEF BatchInv, Asking
<1>4. NewsInv'
  BY <1>1, <1>2 DEF NewsInv
<1>5. NothingSkipped'
  BY <1>1 DEF NothingSkipped
<1>. QED
  BY <1>3, <1>4, <1>5

\* A step keeps what is known of the response, the events and the store.
LEMMA DeliveryStep ==
  TypeOK /\ BatchInv /\ NewsInv /\ NothingSkipped /\ [Next]_vars
    => BatchInv' /\ NewsInv' /\ NothingSkipped'
<1>. SUFFICES ASSUME TypeOK, BatchInv, NewsInv, NothingSkipped, [Next]_vars
              PROVE  BatchInv' /\ NewsInv' /\ NothingSkipped'
  OBVIOUS
<1>1. ASSUME UNCHANGED <<position, since, todo, late, old, gone, cut, entered, stored, ch, at, after>>,
             posted' \in {posted, posted + 1}
      PROVE  BatchInv' /\ NewsInv' /\ NothingSkipped'
  <2>1. \A e \in old : e <= posted'
    BY <1>1, MatrixLinkAssumption DEF BatchInv, TypeOK, PositionsOK, EventsOK, Events
  <2>2. BatchInv'
    BY <1>1, <2>1 DEF BatchInv, Handing, Asking, From, NextBatch
  <2>3. NewsInv'
    BY <1>1 DEF NewsInv
  <2>4. NothingSkipped'
    BY <1>1 DEF NothingSkipped, InFlight
  <2>. QED
    BY <2>2, <2>3, <2>4
<1>2. CASE Loop
  BY <1>2, LoopKeepsDelivery, RequestKeepsDelivery, SaveKeepsDelivery, DeliverKeepsDelivery DEF Loop
<1>3. CASE Receive \/ End
  BY <1>3, ReceiveKeepsDelivery, EndKeepsDelivery
<1>4. ASSUME NEW e \in Events, SendLate(e) \/ Undecryptable(e)
      PROVE  BatchInv' /\ NewsInv' /\ NothingSkipped'
  BY <1>4, LateKeepsDelivery
<1>5. CASE Post \/ RejectToken \/ Cancel \/ Start
  BY <1>1, <1>5 DEF Post, RejectToken, Cancel, Start, batch, events
<1>6. CASE UNCHANGED vars
  BY <1>1, <1>6 DEF vars, outside, batch, events
<1>. QED
  BY <1>2, <1>3, <1>4, <1>5, <1>6 DEF Next

-----------------------------------------------------------------------------
(* The delays                                                              *)

\* Every set of natural numbers but the empty one has a least element: what
\* induction is done with here.
LEMMA LeastNatural ==
    ASSUME NEW T, T \subseteq Nat, T # {}
    PROVE  \E m \in T : \A k \in T : m <= k
<1> DEFINE Less == {p \in Nat \X Nat : p[1] < p[2]}
<1>1. IsWellFoundedOn(Less, Nat)
  BY NatLessThanWellFounded DEF OpToRel
<1>2. \E m \in T : \A k \in T : <<k, m>> \notin Less
  <2>. HIDE DEF Less
  <2>. QED
    BY <1>1, WFMin
<1>3. PICK m \in T : \A k \in T : <<k, m>> \notin Less
  BY <1>2
<1>4. \A k \in T : ~(k < m)
  BY <1>3
<1>. QED
  BY <1>4

\* The powers of two up to n.
Doubling(n, f) == f = [i \in 0..n |-> IF i = 0 THEN 1 ELSE 2 * f[i - 1]]

\* The definition of Power has a value for every number ...
LEMMA PowerExists ==
    ASSUME NEW n \in Nat
    PROVE  \E f : Doubling(n, f)
<1> DEFINE T == {k \in Nat : ~ \E f : Doubling(k, f)}
<1>1. SUFFICES ASSUME T # {} PROVE FALSE
  OBVIOUS
<1>2. PICK m \in T : \A k \in T : m <= k
  <2>1. T \subseteq Nat
    OBVIOUS
  <2>. QED
    BY <1>1, <2>1, LeastNatural
<1>3. m # 0
  <2>1. Doubling(0, [i \in 0..0 |-> 1])
    BY DEF Doubling
  <2>. QED
    BY <2>1
<1>4. m - 1 \in Nat /\ m - 1 \notin T
  BY <1>2, <1>3
<1>5. PICK g : Doubling(m - 1, g)
  BY <1>4
<1> DEFINE h == [i \in 0..m |-> IF i = 0 THEN 1 ELSE 2 * g[i - 1]]
<1>6. \A i \in 0..(m - 1) : g[i] = IF i = 0 THEN 1 ELSE 2 * g[i - 1]
  BY <1>5 DEF Doubling
<1>7. \A i \in 0..m :
        i \in Nat /\ (i # m => i \in 0..(m - 1)) /\ (i # 0 => i - 1 \in 0..m /\ i - 1 # m)
  BY <1>2
<1>8. \A i \in 0..m : i # m => h[i] = g[i]
  BY <1>6, <1>7
<1>9. \A i \in 0..m : i # 0 => h[i - 1] = g[i - 1]
  <2>. HIDE DEF h
  <2>. QED
    BY <1>7, <1>8
<1>10. h = [i \in 0..m |-> IF i = 0 THEN 1 ELSE 2 * h[i - 1]]
  <2>1. \A i \in 0..m : (IF i = 0 THEN 1 ELSE 2 * g[i - 1])
                       = (IF i = 0 THEN 1 ELSE 2 * h[i - 1])
    <3>. HIDE DEF h
    <3>. QED
      BY <1>9
  <2>. QED
    BY <2>1
<1>11. Doubling(m, h)
  <2>. HIDE DEF h
  <2>. QED
    BY <1>10 DEF Doubling
<1>. QED
  BY <1>2, <1>11

\* ... which is twice the one before.
LEMMA PowerIs ==
    \A n \in 0..MaxBackoff : Power[n] = IF n = 0 THEN 1 ELSE 2 * Power[n - 1]
<1>1. \E f : Doubling(MaxBackoff, f)
  BY MatrixLinkAssumption, PowerExists
<1>2. Doubling(MaxBackoff, Power)
  <2>1. Power = CHOOSE f : Doubling(MaxBackoff, f)
    BY DEF Power, Doubling
  <2>. QED
    BY <1>1, <2>1
<1>. QED
  BY <1>2 DEF Doubling

\* A power of two is greater than its exponent.
LEMMA PowerGrows ==
    \A n \in 0..MaxBackoff : Power[n] \in Nat /\ n < Power[n]
<1> DEFINE T == {k \in 0..MaxBackoff : ~(Power[k] \in Nat /\ k < Power[k])}
<1>1. SUFFICES ASSUME T # {} PROVE FALSE
  OBVIOUS
<1>2. PICK m \in T : \A k \in T : m <= k
  <2>1. T \subseteq Nat
    BY MatrixLinkAssumption
  <2>. QED
    BY <1>1, <2>1, LeastNatural
<1>3. m \in 0..MaxBackoff /\ ~(Power[m] \in Nat /\ m < Power[m])
  BY <1>2
<1>4. m # 0
  BY <1>3, PowerIs
<1>5. m - 1 \in 0..MaxBackoff /\ ~(m <= m - 1)
  BY <1>3, <1>4, MatrixLinkAssumption
<1>6. Power[m - 1] \in Nat /\ m - 1 < Power[m - 1]
  BY <1>2, <1>5
<1>7. Power[m] = 2 * Power[m - 1]
  BY <1>3, <1>4, PowerIs
<1>. QED
  BY <1>3, <1>5, <1>6, <1>7, MatrixLinkAssumption

\* The first delay is the shortest, and a failure more doubles it, the longest
\* one excepted.
LEMMA CappedNext ==
    /\ Capped(1) = 1 /\ More(0) = 1
    /\ \A n \in 0..MaxBackoff : More(n) \in 1..MaxBackoff
    /\ \A n \in 1..MaxBackoff : Double(Capped(n)) = Capped(More(n))
<1>1. Capped(1) = 1
  <2>1. Power[0] = 1
    BY PowerIs, MatrixLinkAssumption
  <2>. QED
    BY <2>1, MatrixLinkAssumption DEF Capped
<1>2. More(0) = 1 /\ \A n \in 0..MaxBackoff : More(n) \in 1..MaxBackoff
  BY MatrixLinkAssumption DEF More
<1>3. ASSUME NEW n \in 1..MaxBackoff PROVE Double(Capped(n)) = Capped(More(n))
  <2>1. n \in 0..MaxBackoff /\ n # 0 /\ n - 1 \in 0..MaxBackoff
    BY MatrixLinkAssumption
  <2>2. Power[n - 1] \in Nat /\ n - 1 < Power[n - 1]
    BY <2>1, PowerGrows
  <2>3. CASE n = MaxBackoff
    <3>1. Capped(n) = MaxBackoff /\ More(n) = n
      BY <2>2, <2>3, MatrixLinkAssumption DEF Capped, More
    <3>. QED
      BY <3>1, MatrixLinkAssumption DEF Double
  <2>4. CASE n # MaxBackoff
    <3>1. More(n) = n + 1 /\ (n + 1) - 1 = n
      BY <2>4, MatrixLinkAssumption DEF More
    <3>2. Power[n] = 2 * Power[n - 1]
      BY <2>1, PowerIs
    <3>3. Capped(More(n)) = IF Power[n] < MaxBackoff THEN Power[n] ELSE MaxBackoff
      BY <3>1 DEF Capped
    <3>. QED
      BY <2>2, <3>2, <3>3, MatrixLinkAssumption DEF Capped, Double
  <2>. QED
    BY <2>3, <2>4
<1>. QED
  BY <1>1, <1>2, <1>3

LEMMA DelayInit == Init => DelayInv
BY CappedNext, MatrixLinkAssumption DEF Init, DelayInv

\* Only the judgement of an outage, a failed request, a sync and the end of the
\* daemon touch the delays and their counts.
LEMMA DelayStep == TypeOK /\ DelayInv /\ [Next]_vars => DelayInv'
<1>. SUFFICES ASSUME TypeOK, DelayInv, [Next]_vars PROVE DelayInv'
  OBVIOUS
<1>. USE DEF DelayInv
<1>1. CASE Judge
  BY <1>1, CappedNext DEF Judge, At, Goto
<1>2. CASE FailedSync
  BY <1>2, CappedNext DEF FailedSync, At, Goto, link
<1>3. CASE Listen
  <2>1. saw' /\ at' \in {"report", "deliver"}
    BY <1>3 DEF Listen, SetConnected, Goto
  <2>2. pause' = 1 /\ misses' = 0 /\ down' = 0
    BY <1>3 DEF Listen
  <2>. QED
    BY <2>1, <2>2, CappedNext, MatrixLinkAssumption
<1>4. CASE End
  BY <1>4, CappedNext, MatrixLinkAssumption DEF End
<1>5. CASE ConnectFails
  <2>1. saw' = saw /\ at' \in {"ended", "report", "judge"}
    BY <1>5 DEF ConnectFails, SetConnected, Goto, link, TypeOK, FlagsOK
  <2>2. UNCHANGED delays
    BY <1>5 DEF ConnectFails
  <2>. QED
    BY <2>1, <2>2 DEF delays
<1>6. CASE Request
  <2>1. saw' = saw /\ at' \in {"save", "err", "report", "failed"}
    BY <1>6 DEF Request, SetConnected, Goto, link, TypeOK, FlagsOK
  <2>2. UNCHANGED delays
    BY <1>6 DEF Request
  <2>. QED
    BY <2>1, <2>2 DEF delays
<1>7. CASE Report \/ ReportGivesUp
  BY <1>7 DEF Report, ReportGivesUp, Goto, delays, link, TypeOK, PlacesOK
<1>8. CASE Top \/ Sleep \/ Wait \/ ReadKey \/ WriteKey
  BY <1>8 DEF Top, Sleep, Wait, ReadKey, WriteKey, Goto, delays, link
<1>9. CASE Discover \/ InitCrypto \/ Load \/ Save
  BY <1>9 DEF Discover, InitCrypto, Load, Save, Goto, delays, link
<1>10. CASE Deliver \/ Delivered
  BY <1>10 DEF Deliver, Handout, Delivered, Goto, delays, link
<1>11. CASE Receive \/ Post \/ RejectToken \/ Cancel \/ Start
  <2>1. UNCHANGED <<delays, link, at>>
    BY <1>11 DEF Receive, Post, RejectToken, Cancel, Start
  <2>. QED
    BY <2>1 DEF delays, link
<1>12. ASSUME NEW e \in Events, SendLate(e) \/ Undecryptable(e) PROVE DelayInv'
  BY <1>12 DEF SendLate, Undecryptable, delays, link
<1>13. CASE UNCHANGED vars
  BY <1>13 DEF vars, delays, link
<1>. QED
  BY <1>1, <1>2, <1>3, <1>4, <1>5, <1>6, <1>7, <1>8, <1>9, <1>10, <1>11, <1>12, <1>13
  DEF Next, Loop

-----------------------------------------------------------------------------
(* The theorems                                                            *)

\* Types and key hold throughout.
LEMMA TypesAndKey == Spec => [](TypeOK /\ KeyInv)
<1>1. Init => TypeOK /\ KeyInv
  BY InitTypes, KeyInit
<1>. QED
  BY <1>1, TypeAndKeyStep, PTL DEF Spec

\* Every variable keeps its type, the channel its capacity, the delays their
\* bounds and the position its place among the events there are.
THEOREM MatrixLinkTypeOK == Spec => []TypeOK
BY TypesAndKey, PTL

\* The key file is never replaced while sessions on disk depend on it, whatever
\* fails and wherever the daemon is killed (loadOrCreatePickleKey, matrix.go:430).
THEOREM PickleKeyIsKept == Spec => []PickleKeyKept
<1>1. KeyInv => PickleKeyKept
  BY DEF KeyInv
<1>. QED
  BY <1>1, TypesAndKey, PTL

\* The session that drains the channel ends with the flag of the transport, and
\* believes the link down while the loop waits or has given up (setConnected).
THEOREM SessionSeesTheLink == Spec => []SessionFollowsLink
<1>1. Init => LinkInv
  BY LinkInit
<1>2. TypeOK /\ LinkInv /\ [Next]_vars => LinkInv'
  BY LinkStep
<1>3. TypeOK /\ LinkInv => SessionFollowsLink
  BY DEF LinkInv, SessionFollowsLink, TypeOK, FlagsOK
<1>. QED
  BY <1>1, <1>2, <1>3, MatrixLinkTypeOK, PTL DEF Spec

\* In both loops the delay is the one of this outage, whatever the delays of
\* earlier ones were (run's backoff and quietSyncer.OnFailedSync).
THEOREM DelaysFollowOutages == Spec => []DelayFollowsOutage
<1>1. DelayInv => DelayFollowsOutage
  BY DEF DelayInv, DelayFollowsOutage, At
<1>. QED
  BY <1>1, DelayInit, DelayStep, MatrixLinkTypeOK, PTL DEF Spec

\* What is known of the response, the events and the store holds throughout.
LEMMA Delivery == Spec => [](BatchInv /\ NewsInv /\ NothingSkipped)
BY DeliveryInit, DeliveryStep, MatrixLinkTypeOK, PTL DEF Spec

\* No event enters the daemon twice, and no event of a first sync enters at all
\* (onMessage, SaveNextBatch).
THEOREM MessagesAreNewsOnce == Spec => []NewsOnce
<1>1. TypeOK /\ NewsInv => NewsOnce
  BY DEF NewsInv, NewsOnce, TypeOK, EventsOK
<1>. QED
  BY <1>1, Delivery, MatrixLinkTypeOK, PTL

\* Whatever the saved position has passed is stored, history, under way, lost
\* with a life of the daemon, a key or a store that failed (SaveNextBatch), or
\* was left out of a response by its limit (prev_batch is not read): what is
\* lost is lost in one of these ways only.
THEOREM NothingIsSkipped == Spec => []NothingSkipped
BY Delivery, PTL

=============================================================================
