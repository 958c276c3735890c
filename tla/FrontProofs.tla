----------------------------- MODULE FrontProofs -----------------------------
(***************************************************************************)
(* The frontend inside the editor, for any number of callbacks, replies,   *)
(* rooms, events and connections.  First its screen: the levels of         *)
(* FrontLevel, and with Composer that a reply changes nothing in how they  *)
(* behave, and that one that was dropped is never sent.  Then its view of  *)
(* the conversation, FrontView: a message is glanced at once, and what is  *)
(* left when nothing is under way is what the daemon has.                  *)
(***************************************************************************)
EXTENDS Composer, FrontView, SequenceTheorems, FiniteSetTheorems,
        WellFoundedInduction, TLAPS

\* A queue only grows at its end and shrinks at its front.
LEMMA QueueMembers ==
    ASSUME NEW q \in Seq(Timer), NEW t \in Timer
    PROVE  /\ Append(q, t) \in Seq(Timer)
           /\ Range(Append(q, t)) = Range(q) \union {t}
           /\ q # << >> =>
                /\ Tail(q) \in Seq(Timer)
                /\ Head(q) \in Timer
                /\ Range(q) = Range(Tail(q)) \union {Head(q)}
  <1>1. Append(q, t) \in Seq(Timer)
    OBVIOUS
  <1>2. Range(Append(q, t)) = Range(q) \union {t}
    <2>1. \A i \in 1..Len(q) : Append(q, t)[i] = q[i]
      OBVIOUS
    <2>2. Append(q, t)[Len(q) + 1] = t
      OBVIOUS
    <2>3. DOMAIN Append(q, t) = 1..(Len(q) + 1) /\ DOMAIN q = 1..Len(q)
      OBVIOUS
    <2>4. 1..(Len(q) + 1) = 1..Len(q) \union {Len(q) + 1}
      OBVIOUS
    <2>. QED
      BY <2>1, <2>2, <2>3, <2>4 DEF Range
  <1>3. ASSUME q # << >>
        PROVE  /\ Tail(q) \in Seq(Timer)
               /\ Head(q) \in Timer
               /\ Range(q) = Range(Tail(q)) \union {Head(q)}
    <2>1. Tail(q) \in Seq(Timer) /\ Head(q) \in Timer /\ Head(q) = q[1]
      BY <1>3
    <2>2. DOMAIN q = 1..Len(q) /\ DOMAIN Tail(q) = 1..(Len(q) - 1) /\ Len(q) \in Nat /\ Len(q) >= 1
      BY <1>3
    <2>3. \A i \in 1..(Len(q) - 1) : Tail(q)[i] = q[i + 1]
      BY <1>3
    <2>4. \A i \in 1..Len(q) : i = 1 \/ (i - 1 \in 1..(Len(q) - 1) /\ q[i] = Tail(q)[i - 1])
      BY <2>2, <2>3
    <2>5. \A i \in 1..(Len(q) - 1) : i + 1 \in 1..Len(q) /\ Tail(q)[i] = q[i + 1]
      BY <2>2, <2>3
    <2>6. Range(q) \subseteq Range(Tail(q)) \union {Head(q)}
      <3>. SUFFICES ASSUME NEW i \in 1..Len(q)
                    PROVE  q[i] \in Range(Tail(q)) \union {Head(q)}
        BY <2>2 DEF Range
      <3>1. CASE i = 1
        BY <2>1, <3>1
      <3>2. CASE i # 1
        BY <2>2, <2>4, <3>2 DEF Range
      <3>. QED
        BY <3>1, <3>2
    <2>7. Range(Tail(q)) \union {Head(q)} \subseteq Range(q)
      BY <2>1, <2>2, <2>5 DEF Range
    <2>. QED
      BY <2>1, <2>6, <2>7
  <1>. QED
    BY <1>1, <1>2, <1>3

-----------------------------------------------------------------------------

\* The types, and that the glance timer runs at a raised level only.
THEOREM FrontLevelTypeOK == Spec => []TypeOK
  <1>1. Init => Flags
    BY Zenon DEF Init, Flags
  <1>2. Init => Timers
    BY FrontLevelAssumption DEF Init, Timers, Timer
  <1>3. Flags /\ [Next]_vars => Flags'
    <2>. SUFFICES ASSUME Flags, [Next]_vars
                  PROVE  Flags'
      OBVIOUS
    <2>. USE DEF Flags, conversation, screen, BlameRender, BlameClear, FloatRender, FloatClear,
                QuickfixRender, QuickfixClear, HoverCloses
    <2>1. CASE Glance
      BY <2>1, Zenon DEF Glance
    <2>2. CASE Read \/ Panorama
      BY <2>2, Zenon DEF Read, Panorama, Explicit
    <2>3. CASE CursorMoved
      BY <2>3, Zenon DEF CursorMoved
    <2>4. CASE InsertEnter \/ InsertLeave
      BY <2>4, Zenon DEF InsertEnter, InsertLeave
    <2>5. CASE Silence \/ SilenceEnds \/ LookAway
      BY <2>5, Zenon DEF Silence, SilenceEnds, LookAway, ClearAll, Clear
    <2>6. CASE SendFailed \/ HintExpires
      BY <2>6, Zenon DEF SendFailed, HintExpires
    <2>7. CASE CloseWindow
      BY <2>7, Zenon DEF CloseWindow
    <2>8. CASE ConversationChanges
      BY <2>8, Zenon DEF ConversationChanges
    <2>9. ASSUME NEW timer \in Timer, TimerFires(timer)
          PROVE  Flags'
      BY <2>9, Zenon DEF TimerFires
    <2>10. CASE GlanceDue \/ IdleDue
      BY <2>10, Zenon DEF GlanceDue, IdleDue, Clear
    <2>11. CASE UNCHANGED vars
      BY <2>11, Zenon DEF vars
    <2>. QED
      BY <2>1, <2>2, <2>3, <2>4, <2>5, <2>6, <2>7, <2>8, <2>9, <2>10, <2>11 DEF Next, Levels
  <1>4. Timers /\ [Next]_vars => Timers'
    <2>. SUFFICES ASSUME Timers, [Next]_vars
                  PROVE  Timers'
      OBVIOUS
    <2>. USE FrontLevelAssumption DEF Timers, Timer
    <2>1. CASE Glance
      BY <2>1 DEF Glance
    <2>2. CASE Read \/ Panorama
      BY <2>2 DEF Read, Panorama, Explicit, Touch
    <2>3. CASE CursorMoved
      BY <2>3 DEF CursorMoved, Touch
    <2>4. CASE InsertEnter \/ InsertLeave
      BY <2>4 DEF InsertEnter, InsertLeave
    <2>5. CASE Silence \/ SilenceEnds \/ LookAway
      BY <2>5 DEF Silence, SilenceEnds, LookAway, ClearAll, Clear
    <2>6. CASE SendFailed \/ HintExpires
      BY <2>6 DEF SendFailed, HintExpires
    <2>7. CASE CloseWindow \/ ConversationChanges
      BY <2>7 DEF CloseWindow, ConversationChanges
    <2>8. ASSUME NEW timer \in Timer, TimerFires(timer)
          PROVE  Timers'
      BY <2>8 DEF TimerFires
    <2>9. CASE GlanceDue \/ IdleDue
      <3>1. due # << >> /\ due' = Tail(due)
        BY <2>9 DEF GlanceDue, IdleDue
      <3>2. due' \in Seq(Timer) /\ Len(due') <= MaxQueued
        BY <3>1
      <3>3. (armed' = {} /\ current' = "L0") \/ (armed' = armed /\ current' = current)
        BY <2>9, Zenon DEF GlanceDue, IdleDue, Clear
      <3>. QED
        BY <3>2, <3>3
    <2>10. CASE UNCHANGED vars
      BY <2>10 DEF vars
    <2>. QED
      BY <2>1, <2>2, <2>3, <2>4, <2>5, <2>6, <2>7, <2>8, <2>9, <2>10 DEF Next, Levels
  <1>. QED
    BY <1>1, <1>2, <1>3, <1>4, PTL DEF Spec, TypeOK

-----------------------------------------------------------------------------

\* Silence wins over everything that arrives late.
THEOREM FrontLevelSilence == Spec => []SilencedIsBlank
  <1>1. Init => SilencedIsBlank
    BY DEF Init, SilencedIsBlank
  <1>2. TypeOK /\ SilencedIsBlank /\ [Next]_vars => SilencedIsBlank'
    <2>. SUFFICES ASSUME TypeOK, SilencedIsBlank, [Next]_vars
                  PROVE  SilencedIsBlank'
      OBVIOUS
    <2>. USE DEF TypeOK, SilencedIsBlank, screen, BlameRender, BlameClear, FloatRender, FloatClear,
                QuickfixRender, QuickfixClear, HoverCloses
    <2>1. CASE Glance \/ SendFailed
      BY <2>1 DEF Glance, SendFailed, Allow
    <2>2. CASE Read \/ Panorama
      BY <2>2 DEF Read, Panorama, Explicit, AllowExplicit
    <2>3. CASE CursorMoved \/ InsertEnter \/ InsertLeave
      BY <2>3 DEF CursorMoved, InsertEnter, InsertLeave
    <2>4. CASE Silence \/ SilenceEnds \/ LookAway
      BY <2>4 DEF Silence, SilenceEnds, LookAway, ClearAll, Clear
    <2>5. CASE HintExpires \/ CloseWindow \/ ConversationChanges
      BY <2>5 DEF HintExpires, CloseWindow, ConversationChanges
    <2>6. ASSUME NEW timer \in Timer, TimerFires(timer)
          PROVE  SilencedIsBlank'
      BY <2>6 DEF TimerFires
    <2>7. CASE GlanceDue \/ IdleDue
      BY <2>7 DEF GlanceDue, IdleDue, Clear
    <2>8. CASE UNCHANGED vars
      BY <2>8 DEF vars
    <2>. QED
      BY <2>1, <2>2, <2>3, <2>4, <2>5, <2>6, <2>7, <2>8 DEF Next, Levels
  <1>. QED
    BY <1>1, <1>2, FrontLevelTypeOK, PTL DEF Spec

-----------------------------------------------------------------------------

\* The timer that will bring a raised level down is never lost.
THEOREM FrontLevelTimed == Spec => []LevelIsTimed
  <1>1. Init => LevelIsTimed
    BY DEF Init, LevelIsTimed
  <1>2. TypeOK /\ LevelIsTimed /\ [Next]_vars => LevelIsTimed'
    <2>. SUFFICES ASSUME TypeOK, LevelIsTimed, [Next]_vars
                  PROVE  LevelIsTimed'
      OBVIOUS
    <2>. USE DEF TypeOK, Timers, LevelIsTimed
    <2>1. CASE Glance
      BY <2>1 DEF Glance
    <2>2. CASE Read
      BY <2>2 DEF Read, Explicit, Touch
    <2>3. CASE Panorama
      BY <2>3 DEF Panorama, Explicit, Touch
    <2>4. CASE CursorMoved
      BY <2>4 DEF CursorMoved, Touch
    <2>5. CASE InsertEnter
      BY <2>5 DEF InsertEnter
    <2>6. CASE InsertLeave \/ SilenceEnds \/ SendFailed \/ HintExpires
      BY <2>6 DEF InsertLeave, SilenceEnds, SendFailed, HintExpires
    <2>7. CASE Silence \/ LookAway
      BY <2>7 DEF Silence, LookAway, ClearAll, Clear
    <2>8. CASE CloseWindow \/ ConversationChanges
      BY <2>8 DEF CloseWindow, ConversationChanges
    <2>9. ASSUME NEW timer \in Timer, TimerFires(timer)
          PROVE  LevelIsTimed'
      <3>1. armed' = armed \ {timer} /\ Range(due') = Range(due) \union {timer}
        BY <2>9, QueueMembers DEF TimerFires
      <3>. QED
        BY <2>9, <3>1 DEF TimerFires
    <2>10. CASE GlanceDue
      <3>1. due # << >> /\ Head(due) = "glance" /\ due' = Tail(due)
        BY <2>10 DEF GlanceDue
      <3>2. Range(due) = Range(due') \union {"glance"}
        BY <3>1, QueueMembers DEF Timer
      <3>3. CASE current = "L1"
        BY <2>10, <3>3 DEF GlanceDue, Clear
      <3>4. CASE current # "L1"
        BY <2>10, <3>2, <3>4 DEF GlanceDue
      <3>. QED
        BY <3>3, <3>4
    <2>11. CASE IdleDue
      BY <2>11 DEF IdleDue, Clear
    <2>12. CASE UNCHANGED vars
      BY <2>12 DEF vars
    <2>. QED
      BY <2>1, <2>2, <2>3, <2>4, <2>5, <2>6, <2>7, <2>8, <2>9, <2>10, <2>11, <2>12 DEF Next, Levels
  <1>. QED
    BY <1>1, <1>2, FrontLevelTypeOK, PTL DEF Spec

-----------------------------------------------------------------------------

\* A mark goes with its level.
THEOREM FrontLevelMark == Spec => []MarkHasLevel
  <1>1. Init => MarkHasLevel
    BY DEF Init, MarkHasLevel
  <1>2. TypeOK /\ MarkHasLevel /\ [Next]_vars => MarkHasLevel'
    BY DEF TypeOK, MarkHasLevel, Next, Levels, vars, screen, Glance, Read, Panorama, Explicit,
           CursorMoved, InsertEnter, InsertLeave, Silence, SilenceEnds, LookAway, ClearAll, Clear,
           SendFailed, HintExpires, CloseWindow, ConversationChanges, TimerFires, GlanceDue, IdleDue,
           BlameRender, BlameClear
  <1>. QED
    BY <1>1, <1>2, FrontLevelTypeOK, PTL DEF Spec

\* Both together.
THEOREM FrontLevelWatched == Spec => []RaisedLevelIsWatched
  <1>1. RaisedLevelIsWatched <=> LevelIsTimed /\ MarkHasLevel
    BY DEF RaisedLevelIsWatched
  <1>. QED
    BY <1>1, FrontLevelTimed, FrontLevelMark, PTL


-----------------------------------------------------------------------------
(* Replies                                                                 *)

\* Opening a composer's window takes at most the hover window off the screen,
\* as the user may do himself.
LEMMA OpenClosesWindow == Open => [CloseWindow]_vars
  BY DEF Open, OpenWindow, HoverCloses, CloseWindow, vars, conversation, screen

\* With a composer, the frontend is still that of FrontLevel: what it proves of
\* levels and silence holds whatever is typed, sent and answered meanwhile.
THEOREM ComposerKeepsLevels == ComposerSpec => Spec
  <1>1. ComposerInit => Init
    BY DEF ComposerInit
  <1>2. [ComposerNext]_<<vars, composer>> => [Next]_vars
    <2>. SUFFICES ASSUME [ComposerNext]_<<vars, composer>>
                  PROVE  [Next]_vars
      OBVIOUS
    <2>1. CASE Levels \/ Silence \/ LookAway
      BY <2>1 DEF Next
    <2>2. CASE Open
      BY <2>2, OpenClosesWindow DEF Next, Levels
    <2>3. ASSUME NEW k \in reading, NEW send \in BOOLEAN, InputEnds(k, send) \/ Finish(k, send)
          PROVE  [Next]_vars
      BY <2>3, Zenon DEF InputEnds, Finish
    <2>4. ASSUME NEW k \in reading, UserCloses(k)
          PROVE  [Next]_vars
      BY <2>4, Zenon DEF UserCloses
    <2>5. CASE Acked \/ Failed
      BY <2>5, Zenon DEF Acked, Failed, Next
    <2>6. CASE UNCHANGED <<vars, composer>>
      BY <2>6
    <2>. QED
      BY <2>1, <2>2, <2>3, <2>4, <2>5, <2>6, Zenon DEF ComposerNext
  <1>. QED
    BY <1>1, <1>2, PTL DEF ComposerSpec, Spec

\* Silence and the way down from a level, with a composer.
THEOREM ComposerSilence == ComposerSpec => [](SilencedIsBlank /\ RaisedLevelIsWatched)
  BY ComposerKeepsLevels, FrontLevelSilence, FrontLevelWatched, PTL

-----------------------------------------------------------------------------

Replies ==
    /\ opens \in 0..MaxReplies /\ current_gen \in 0..opens /\ winid \in 0..opens
    /\ reading \subseteq 1..opens /\ dropped \subseteq 1..opens
    /\ answers \in [1..MaxReplies -> Nat]

\* A reply of the composer's generation that can still be finished has had no
\* answer and was not dropped.
CurrentIsOpen ==
    current_gen \in reading => answers[current_gen] = 0 /\ current_gen \notin dropped

Answered == DroppedIsNeverSent /\ \A k \in 1..MaxReplies : k > opens => answers[k] = 0

RInv == Replies /\ CurrentIsOpen /\ Answered

\* The invariant holds before the first reply.
LEMMA RepliesInit == ComposerInit => RInv
  BY ComposerAssumption DEF ComposerInit, RInv, Replies, CurrentIsOpen, Answered, DroppedIsNeverSent

\* What takes a reply that nobody has answered out of the way.
LEMMA RepliesDropped ==
    ASSUME RInv, Close
    PROVE  RInv'
  <1>1. Replies'
    <2>1. opens' = opens /\ answers' = answers /\ current_gen' = 0
      BY DEF Close
    <2>2. reading' \subseteq reading /\ winid' \in {winid, 0}
      BY DEF Close, CloseNothing, CloseWinid
    <2>3. dropped' = dropped \union Unanswered /\ Unanswered \subseteq 1..opens
      BY DEF Close, Unanswered
    <2>. QED
      BY <2>1, <2>2, <2>3, ComposerAssumption DEF RInv, Replies
  <1>2. CurrentIsOpen'
    <2>1. current_gen' = 0 /\ 0 \notin reading'
      BY <1>1 DEF Close, Replies
    <2>. QED
      BY <2>1 DEF CurrentIsOpen
  <1>3. Answered'
    BY DEF RInv, Replies, Answered, DroppedIsNeverSent, Close, Unanswered
  <1>. QED
    BY <1>1, <1>2, <1>3 DEF RInv

\* A new reply, whether its window appears or not.
LEMMA RepliesOpened ==
    ASSUME RInv, Open
    PROVE  RInv'
  <1>. DEFINE k == opens + 1
  <1>1. /\ k \in 1..MaxReplies /\ opens' = k /\ current_gen' = k
        /\ dropped' = dropped \union Unanswered /\ Unanswered \subseteq 1..opens
        /\ answers[k] = 0 /\ k \notin dropped'
    BY ComposerAssumption DEF RInv, Replies, Answered, Open, Unanswered
  <1>2. \/ answers' = answers
        \/ answers' = [answers EXCEPT ![k] = 1] /\ k \notin reading'
    <2>1. CASE UNCHANGED answers
      BY <2>1
    <2>2. CASE CloseWinid /\ Answer(opens', FALSE)
      <3>1. reading' \subseteq reading /\ k \notin reading
        BY <2>2, <1>1 DEF RInv, Replies, CloseWinid
      <3>. QED
        BY <2>2, <3>1, <1>1 DEF Answer
    <2>. QED
      BY <2>1, <2>2 DEF Open, OpenWindow
  <1>3. reading' \subseteq reading \union {k} /\ winid' \in {winid, k, 0}
    BY <1>1 DEF Open, OpenWindow, CloseWinid
  <1>4. Replies'
    BY <1>1, <1>2, <1>3, ComposerAssumption DEF RInv, Replies
  <1>5. CurrentIsOpen'
    BY <1>1, <1>2 DEF CurrentIsOpen
  <1>6. Answered'
    <2>1. \A j \in 1..MaxReplies : j # k => answers'[j] = answers[j]
      BY <1>2 DEF RInv, Replies
    <2>2. answers'[k] \in {0, 1}
      BY <1>1, <1>2 DEF RInv, Replies
    <2>3. opens \in Nat /\ \A j \in 1..k : j = k \/ (j \in 1..opens /\ j \in 1..MaxReplies)
      BY <1>1, ComposerAssumption DEF RInv, Replies
    <2>4. \A j \in 1..opens : answers[j] <= (IF j \in dropped' THEN 0 ELSE 1)
      BY <1>1, ComposerAssumption DEF RInv, Replies, Answered, DroppedIsNeverSent, Unanswered
    <2>5. DroppedIsNeverSent'
      BY <1>1, <2>1, <2>2, <2>3, <2>4 DEF DroppedIsNeverSent
    <2>6. \A j \in 1..MaxReplies : j > k => answers'[j] = 0
      BY <2>1, <2>3, ComposerAssumption DEF RInv, Answered
    <2>. QED
      BY <1>1, <2>5, <2>6 DEF Answered
  <1>. QED
    BY <1>4, <1>5, <1>6 DEF RInv

\* An end of the input or of the window, answered or stale.
LEMMA RepliesFinished ==
    ASSUME RInv, NEW k \in reading, NEW send \in BOOLEAN,
           InputEnds(k, send) \/ Finish(k, send) \/ UserCloses(k)
    PROVE  RInv'
  <1>. USE DEF RInv, Replies
  <1>1. k \in 1..MaxReplies /\ k \in 1..opens
    BY ComposerAssumption
  <1>2. opens' = opens /\ dropped' = dropped /\ reading' \subseteq reading
    BY DEF InputEnds, Finish, UserCloses, CloseWinid
  <1>3. CASE current_gen = k
    <2>1. answers[k] = 0 /\ k \notin dropped
      BY <1>3 DEF CurrentIsOpen
    <2>2. answers' = [answers EXCEPT ![k] = 1]
      BY <1>1, <1>3, <2>1 DEF InputEnds, Finish, UserCloses, Answer
    <2>3. (current_gen' = 0 \/ (current_gen' = k /\ k \notin reading')) /\ winid' \in {winid, 0}
      BY <1>3 DEF InputEnds, Finish, UserCloses, CloseWinid
    <2>4. CurrentIsOpen'
      BY <1>2, <2>3 DEF CurrentIsOpen
    <2>5. Answered'
      BY <1>1, <1>2, <2>1, <2>2 DEF Answered, DroppedIsNeverSent
    <2>. QED
      BY <1>1, <1>2, <1>3, <2>2, <2>3, <2>4, <2>5
  <1>4. CASE current_gen # k
    <2>1. UNCHANGED <<answers, current_gen, winid>>
      BY <1>4 DEF InputEnds, Finish, UserCloses
    <2>. QED
      BY <1>2, <2>1 DEF CurrentIsOpen, Answered, DroppedIsNeverSent
  <1>. QED
    BY <1>3, <1>4

\* A reply is submitted or cancelled once, and never after it was dropped, for
\* any number of replies, leftover windows and late callbacks.
THEOREM ComposerDropped == ComposerSpec => []DroppedIsNeverSent
  <1>1. ComposerInit => RInv
    BY RepliesInit
  <1>2. RInv /\ [ComposerNext]_<<vars, composer>> => RInv'
    <2>. SUFFICES ASSUME RInv, [ComposerNext]_<<vars, composer>>
                  PROVE  RInv'
      OBVIOUS
    <2>1. CASE (Silence \/ LookAway) /\ Close
      BY <2>1, RepliesDropped
    <2>2. CASE Open
      BY <2>2, RepliesOpened
    <2>3. ASSUME NEW k \in reading, NEW send \in BOOLEAN,
                 InputEnds(k, send) \/ Finish(k, send) \/ UserCloses(k)
          PROVE  RInv'
      BY <2>3, RepliesFinished
    <2>4. CASE Acked \/ Failed \/ UNCHANGED composer
      <3>1. UNCHANGED <<opens, current_gen, reading, winid, answers, dropped>>
        BY <2>4, Zenon DEF Acked, Failed, composer
      <3>. QED
        BY <3>1 DEF RInv, Replies, CurrentIsOpen, Answered, DroppedIsNeverSent
    <2>. QED
      BY <2>1, <2>2, <2>3, <2>4 DEF ComposerNext, Levels
  <1>3. RInv => DroppedIsNeverSent
    BY DEF RInv, Answered
  <1>. QED
    BY <1>1, <1>2, <1>3, PTL DEF ComposerSpec
-----------------------------------------------------------------------------
(* Sequences                                                               *)

\* Taking the head off a sequence.
LEMMA TailIs ==
    ASSUME NEW S, NEW s \in Seq(S), s # << >>
    PROVE  /\ Tail(s) \in Seq(S) /\ Len(s) \in Nat \ {0} /\ Len(Tail(s)) = Len(s) - 1
           /\ Head(s) = s[1] /\ s[1] \in S
           /\ \A i \in DOMAIN Tail(s) : i + 1 \in DOMAIN s /\ Tail(s)[i] = s[i + 1]
           /\ \A i \in DOMAIN s : i # 1 => i - 1 \in DOMAIN Tail(s)
           /\ DOMAIN s = 1..Len(s) /\ DOMAIN Tail(s) = 1..(Len(s) - 1)
  OBVIOUS

\* Adding an element at the end.
LEMMA AppendIs ==
    ASSUME NEW S, NEW s \in Seq(S), NEW x \in S
    PROVE  /\ Append(s, x) \in Seq(S) /\ Append(s, x) # << >>
           /\ Len(s) \in Nat /\ Len(Append(s, x)) = Len(s) + 1
           /\ \A i \in DOMAIN s : i \in DOMAIN Append(s, x) /\ Append(s, x)[i] = s[i]
           /\ Append(s, x)[Len(s) + 1] = x
           /\ DOMAIN s = 1..Len(s) /\ DOMAIN Append(s, x) = 1..(Len(s) + 1)
  OBVIOUS

LEMMA AppendRange ==
    ASSUME NEW S, NEW s \in Seq(S), NEW x \in S
    PROVE  Range(Append(s, x)) = Range(s) \union {x}
  <1>1. Range(Append(s, x)) = {Append(s, x)[i] : i \in 1..(Len(s) + 1)}
    BY AppendIs DEF Range
  <1>2. Range(s) = {s[i] : i \in 1..Len(s)}
    BY AppendIs DEF Range
  <1>3. \A i \in 1..(Len(s) + 1) : i \in 1..Len(s) \/ i = Len(s) + 1
    BY AppendIs
  <1>4. \A i \in 1..Len(s) : i \in 1..(Len(s) + 1) /\ Append(s, x)[i] = s[i]
    BY AppendIs
  <1>5. Len(s) + 1 \in 1..(Len(s) + 1) /\ Append(s, x)[Len(s) + 1] = x
    BY AppendIs
  <1>. QED
    BY <1>1, <1>2, <1>3, <1>4, <1>5

\* What Newest leaves of s: the last n elements, or all.
LEMMA NewestIs ==
    ASSUME NEW S, NEW s \in Seq(S), NEW n \in Nat \ {0}
    PROVE  LET t == Newest(s, n) IN
           /\ t \in Seq(S) /\ Len(s) \in Nat /\ Len(t) = IF Len(s) > n THEN n ELSE Len(s)
           /\ \A i \in DOMAIN t : /\ Len(s) + i - Len(t) \in DOMAIN s
                                  /\ t[i] = s[Len(s) + i - Len(t)]
           /\ DOMAIN t = 1..Len(t) /\ DOMAIN s = 1..Len(s)
           /\ Range(t) \subseteq Range(s)
  <1> DEFINE m == IF Len(s) > n THEN Len(s) - n + 1 ELSE 1
             t == Newest(s, n)
  <1>0. t = SubSeq(s, m, Len(s))
    BY DEF Newest
  <1>1. /\ Len(s) \in Nat /\ m \in Nat \ {0} /\ DOMAIN s = 1..Len(s)
        /\ Len(s) > n => m = Len(s) - n + 1
        /\ ~(Len(s) > n) => m = 1
    OBVIOUS
  <1>. HIDE DEF m, t
  <1>2. /\ t \in Seq(S) /\ Len(t) = IF m <= Len(s) THEN Len(s) - m + 1 ELSE 0
        /\ \A i \in 1..(Len(s) - m + 1) : t[i] = s[m + i - 1]
    <2>1. \A i \in m..Len(s) : s[i] \in S
      BY <1>1
    <2>. QED
      BY <1>0, <1>1, <2>1, SubSeqProperties
  <1>3. /\ Len(t) = IF Len(s) > n THEN n ELSE Len(s)
        /\ Len(t) = Len(s) - m + 1 /\ Len(t) \in Nat
    BY <1>1, <1>2
  <1>4. DOMAIN t = 1..Len(t)
    BY <1>2
  <1>5. \A i \in DOMAIN t : /\ Len(s) + i - Len(t) \in DOMAIN s
                            /\ t[i] = s[Len(s) + i - Len(t)]
    <2>. SUFFICES ASSUME NEW i \in 1..Len(t)
                  PROVE  /\ Len(s) + i - Len(t) \in 1..Len(s)
                         /\ t[i] = s[Len(s) + i - Len(t)]
      BY <1>1, <1>4
    <2>1. i \in Nat /\ 1 <= i /\ i <= Len(t)
      BY <1>3
    <2>2. m + i - 1 = Len(s) + i - Len(t) /\ i \in 1..(Len(s) - m + 1)
      <3>. DEFINE ls == Len(s)
                  lt == Len(t)
      <3>1. ls \in Nat /\ lt \in Nat /\ m \in Nat /\ lt = ls - m + 1 /\ i \in Nat /\ 1 <= i /\ i <= lt
        BY <1>1, <1>3, <2>1
      <3>. HIDE DEF ls, lt
      <3>2. m + i - 1 = ls + i - lt /\ i \in 1..(ls - m + 1)
        BY <3>1
      <3>. QED
        BY <3>2 DEF ls, lt
    <2>3. Len(s) + i - Len(t) \in 1..Len(s)
      BY <1>1, <1>3, <2>1
    <2>. QED
      BY <1>2, <2>2, <2>3
  <1>6. Range(t) \subseteq Range(s)
    BY <1>5 DEF Range
  <1>. QED
    BY <1>1, <1>2, <1>3, <1>4, <1>5, <1>6 DEF t

\* Every set of natural numbers but the empty one has a least element: what
\* induction is done with here.
LEMMA LeastNatural ==
    ASSUME NEW T, T \subseteq Nat, T # {}
    PROVE  \E m \in T : \A k \in T : m <= k
  <1> DEFINE Less == {p \in Nat \X Nat : p[1] < p[2]}
  <1>1. IsWellFoundedOn(Less, Nat)
    BY NatLessThanWellFounded DEF OpToRel
  <1>2. \E m \in T : \A k \in T : <<k, m>> \notin Less
    <2>. HIDE DEF Less
    <2>. QED
      BY <1>1, WFMin
  <1>3. PICK m \in T : \A k \in T : <<k, m>> \notin Less
    BY <1>2
  <1>4. \A k \in T : ~(k < m)
    BY <1>3
  <1>. QED
    BY <1>4

-----------------------------------------------------------------------------
(* The order of the rooms                                                  *)

\* A list of rooms, each once.
RoomList == {s \in Seq(Rooms) : IsInjective(s)}

LEMMA TouchedIs ==
    ASSUME NEW s \in RoomList, NEW r \in Rooms
    PROVE  /\ Touched(s, r) \in RoomList
           /\ Range(Touched(s, r)) = Range(s) \union {r}
  <1>1. CASE r \in Range(s)
    BY <1>1 DEF Touched
  <1>2. CASE r \notin Range(s)
    <2>1. s \in Seq(Rooms) /\ IsInjective(s)
      BY DEF RoomList
    <2>2. Append(s, r) \in Seq(Rooms) /\ Range(Append(s, r)) = Range(s) \union {r}
      BY <2>1, AppendIs, AppendRange
    <2>3. IsInjective(Append(s, r))
      <3>. SUFFICES ASSUME NEW a \in 1..(Len(s) + 1), NEW b \in 1..(Len(s) + 1),
                           Append(s, r)[a] = Append(s, r)[b]
                    PROVE  a = b
        BY <2>1, AppendIs DEF IsInjective
      <3>1. \A i \in 1..Len(s) : s[i] # r /\ Append(s, r)[i] = s[i]
        BY <1>2, <2>1, AppendIs DEF Range
      <3>2. Append(s, r)[Len(s) + 1] = r /\ Len(s) \in Nat /\ DOMAIN s = 1..Len(s)
        BY <2>1, AppendIs
      <3>3. \A i \in 1..(Len(s) + 1) : i \in 1..Len(s) \/ i = Len(s) + 1
        BY <3>2
      <3>4. \A i, j \in 1..Len(s) : s[i] = s[j] => i = j
        BY <2>1, <3>2 DEF IsInjective
      <3>. QED
        BY <3>1, <3>2, <3>3, <3>4
    <2>. QED
      BY <1>2, <2>2, <2>3 DEF Touched, RoomList
  <1>. QED
    BY <1>1, <1>2

LEMMA BumpedIs ==
    ASSUME order \in RoomList, NEW r \in Rooms
    PROVE  /\ Bumped(r) \in RoomList
           /\ Range(order) \union {r} \subseteq Range(Bumped(r))
  <1> DEFINE s == Touched(order, r)
             at == CHOOSE i \in DOMAIN s : s[i] = r
             b == Bumped(r)
  <1>1. s \in RoomList /\ Range(s) = Range(order) \union {r}
    BY TouchedIs
  <1>2. b = <<r>> \o (SubSeq(s, 1, at - 1) \o SubSeq(s, at + 1, Len(s)))
    BY DEF Bumped, RemoveAt
  <1>. HIDE DEF s, b
  <1>3. s \in Seq(Rooms) /\ Len(s) \in Nat /\ DOMAIN s = 1..Len(s)
        /\ \A i, j \in 1..Len(s) : s[i] = s[j] => i = j
    BY <1>1 DEF RoomList, IsInjective
  <1>4. at \in 1..Len(s) /\ s[at] = r
    <2>1. \E i \in DOMAIN s : s[i] = r
      BY <1>1 DEF Range
    <2>. QED
      BY <1>3, <2>1
  <1>. HIDE DEF at
  <1> DEFINE u == SubSeq(s, 1, at - 1)
             v == SubSeq(s, at + 1, Len(s))
  <1>5. /\ u \in Seq(Rooms) /\ Len(u) = at - 1
        /\ \A i \in 1..(at - 1) : u[i] = s[i]
    <2>1. 1 \in Int /\ at - 1 \in Int /\ \A i \in 1..(at - 1) : s[i] \in Rooms
      BY <1>3, <1>4
    <2>2. /\ u \in Seq(Rooms)
          /\ Len(u) = IF 1 <= at - 1 THEN (at - 1) - 1 + 1 ELSE 0
          /\ \A i \in 1..((at - 1) - 1 + 1) : u[i] = s[1 + i - 1]
      BY <2>1, SubSeqProperties
    <2>3. (at - 1) - 1 + 1 = at - 1 /\ \A i \in 1..(at - 1) : 1 + i - 1 = i
      BY <1>4
    <2>. HIDE DEF u
    <2>. QED
      BY <1>3, <1>4, <2>2, <2>3
  <1>6. /\ v \in Seq(Rooms) /\ Len(v) = Len(s) - at
        /\ \A i \in 1..(Len(s) - at) : v[i] = s[at + i]
    <2>1. at + 1 \in Int /\ Len(s) \in Int /\ \A i \in (at + 1)..Len(s) : s[i] \in Rooms
      BY <1>3, <1>4
    <2>2. /\ v \in Seq(Rooms)
          /\ Len(v) = IF at + 1 <= Len(s) THEN Len(s) - (at + 1) + 1 ELSE 0
          /\ \A i \in 1..(Len(s) - (at + 1) + 1) : v[i] = s[(at + 1) + i - 1]
      BY <2>1, SubSeqProperties
    <2>3. Len(s) - (at + 1) + 1 = Len(s) - at /\ \A i \in 1..(Len(s) - at) : (at + 1) + i - 1 = at + i
      BY <1>3, <1>4
    <2>. HIDE DEF v
    <2>4. Len(v) = Len(s) - at
      <3>1. CASE at + 1 <= Len(s)
        BY <2>2, <2>3, <3>1
      <3>2. CASE ~(at + 1 <= Len(s))
        <4>1. at \in Nat /\ Len(s) \in Nat /\ at <= Len(s)
          BY <1>3, <1>4
        <4>2. Len(s) - at = 0
          BY <3>2, <4>1
        <4>. QED
          BY <2>2, <3>2, <4>2
      <3>. QED
        BY <3>1, <3>2
    <2>5. ASSUME NEW i \in 1..(Len(s) - at)
          PROVE  v[i] = s[at + i]
      BY <2>2, <2>3
    <2>. QED
      BY <2>2, <2>4, <2>5
  <1>. HIDE DEF u, v
  <1>7. /\ b \in Seq(Rooms) /\ Len(b) = Len(s) /\ DOMAIN b = 1..Len(s)
        /\ \A k \in 1..Len(s) : b[k] = IF k = 1 THEN r
                                       ELSE IF k <= at THEN s[k - 1] ELSE s[k]
    <2>0. b = <<r>> \o (u \o v)
      BY <1>2 DEF u, v
    <2>1. u \o v \in Seq(Rooms) /\ Len(u \o v) = Len(s) - 1
      <3>1. u \o v \in Seq(Rooms) /\ Len(u \o v) = Len(u) + Len(v)
        BY <1>5, <1>6, ConcatProperties
      <3>2. Len(u) + Len(v) = Len(s) - 1
        BY <1>3, <1>4, <1>5, <1>6
      <3>. QED
        BY <3>1, <3>2
    <2>2. b \in Seq(Rooms) /\ Len(b) = Len(s)
      <3>1. <<r>> \in Seq(Rooms) /\ Len(<<r>>) = 1
        OBVIOUS
      <3>2. b \in Seq(Rooms) /\ Len(b) = 1 + Len(u \o v)
        BY <2>0, <2>1, <3>1, ConcatProperties
      <3>. QED
        BY <1>3, <2>1, <3>2
    <2>3. ASSUME NEW k \in 1..Len(s)
          PROVE  b[k] = IF k = 1 THEN r
                        ELSE IF k <= at THEN s[k - 1] ELSE s[k]
      <3>1. CASE k = 1
        BY <2>0, <2>1, <3>1
      <3>2. CASE k # 1
        <4>1. k - 1 \in 1..(Len(s) - 1)
          BY <1>3, <3>2
        <4>2. b[k] = (u \o v)[k - 1]
          BY <2>0, <2>1, <3>2, <4>1
        <4>3. CASE k <= at
          BY <1>4, <1>5, <1>6, <4>1, <4>2, <4>3
        <4>4. CASE ~(k <= at)
          <5>1. (k - 1) - (at - 1) = k - at /\ k - at \in 1..(Len(s) - at) /\ at + (k - at) = k
            BY <1>3, <1>4, <4>4
          <5>2. (u \o v)[k - 1] = v[(k - 1) - Len(u)]
            BY <1>3, <1>4, <1>5, <1>6, <4>1, <4>4
          <5>. QED
            BY <1>5, <1>6, <3>2, <4>2, <4>4, <5>1, <5>2
        <4>. QED
          BY <4>3, <4>4
      <3>. QED
        BY <3>1, <3>2
    <2>. QED
      BY <2>2, <2>3
  <1>8. ASSUME NEW k \in 1..Len(s), NEW l \in 1..Len(s), b[k] = b[l]
        PROVE  k = l
    <2> DEFINE P(i) == IF i = 1 THEN at ELSE IF i <= at THEN i - 1 ELSE i
    <2>1. \A i \in 1..Len(s) : P(i) \in 1..Len(s) /\ b[i] = s[P(i)]
      BY <1>3, <1>4, <1>7
    <2>2. P(k) = P(l)
      BY <1>3, <1>8, <2>1
    <2>. QED
      BY <1>3, <1>4, <2>2
  <1>9. ASSUME NEW j \in 1..Len(s)
        PROVE  \E k \in 1..Len(s) : b[k] = s[j]
    <2>1. CASE j = at
      BY <1>3, <1>4, <1>7, <2>1
    <2>2. CASE j < at
      <3>1. j + 1 \in 1..Len(s) /\ j + 1 # 1 /\ j + 1 <= at /\ (j + 1) - 1 = j
        BY <1>3, <1>4, <2>2
      <3>. QED
        BY <1>7, <3>1
    <2>3. CASE j > at
      BY <1>3, <1>4, <1>7, <2>3
    <2>. QED
      BY <1>3, <1>4, <2>1, <2>2, <2>3
  <1>10. Range(s) \subseteq Range(b)
    <2>1. Range(s) = {s[j] : j \in 1..Len(s)} /\ Range(b) = {b[k] : k \in 1..Len(s)}
      BY <1>3, <1>7 DEF Range
    <2>. QED
      BY <1>9, <2>1
  <1>11. b \in RoomList
    BY <1>7, <1>8 DEF RoomList, IsInjective
  <1>. QED
    BY <1>1, <1>10, <1>11 DEF b

\* The loop over the rooms that were listed: list k is the order once the
\* first k of them are known.
TouchedList(listing, f) ==
    f = [i \in 0..Len(listing) |->
            IF i = 0 THEN order ELSE Touched(f[i - 1], listing[i])]

LEMMA TouchedListExists ==
    ASSUME NEW listing \in Seq(Rooms)
    PROVE  \E f : TouchedList(listing, f)
  <1> DEFINE Upto(k, f) == f = [i \in 0..k |-> IF i = 0 THEN order
                                               ELSE Touched(f[i - 1], listing[i])]
             T == {k \in Nat : ~ \E f : Upto(k, f)}
  <1>1. SUFFICES ASSUME T # {} PROVE FALSE
    <2>1. Len(listing) \in Nat /\ (T = {} => \E f : Upto(Len(listing), f))
      OBVIOUS
    <2>. QED
      BY <2>1 DEF TouchedList
  <1>2. PICK m \in T : \A k \in T : m <= k
    <2>1. T \subseteq Nat
      OBVIOUS
    <2>. QED
      BY <1>1, <2>1, LeastNatural
  <1>3. m # 0
    <2>1. Upto(0, [i \in 0..0 |-> order])
      OBVIOUS
    <2>. QED
      BY <2>1
  <1>4. m - 1 \in Nat /\ m - 1 \notin T
    BY <1>2, <1>3
  <1>5. PICK g : Upto(m - 1, g)
    BY <1>4
  <1> DEFINE h == [i \in 0..m |-> IF i = 0 THEN order ELSE Touched(g[i - 1], listing[i])]
  <1>6. \A i \in 0..(m - 1) : g[i] = IF i = 0 THEN order ELSE Touched(g[i - 1], listing[i])
    BY <1>5
  <1>7. \A i \in 0..m : i \in Nat /\ (i # m => i \in 0..(m - 1)) /\ (i # 0 => i - 1 \in 0..m /\ i - 1 # m)
    BY <1>2
  <1>8. \A i \in 0..m : i # m => h[i] = g[i]
    BY <1>6, <1>7
  <1>9. \A i \in 0..m : i # 0 => h[i - 1] = g[i - 1]
    <2>. HIDE DEF h
    <2>. QED
      BY <1>7, <1>8
  <1>10. h = [i \in 0..m |-> IF i = 0 THEN order ELSE Touched(h[i - 1], listing[i])]
    <2>1. \A i \in 0..m : (IF i = 0 THEN order ELSE Touched(g[i - 1], listing[i]))
                         = (IF i = 0 THEN order ELSE Touched(h[i - 1], listing[i]))
      <3>. HIDE DEF h
      <3>. QED
        BY <1>9
    <2>. QED
      BY <2>1
  <1>11. Upto(m, h)
    <2>. HIDE DEF h
    <2>. QED
      BY <1>10
  <1>. QED
    BY <1>2, <1>11

LEMMA TouchedListIs ==
    ASSUME NEW listing \in Seq(Rooms), order \in RoomList, NEW f, TouchedList(listing, f)
    PROVE  f[Len(listing)] \in RoomList /\ Range(order) \subseteq Range(f[Len(listing)])
  <1> DEFINE Good(k) == f[k] \in RoomList /\ Range(order) \subseteq Range(f[k])
             T == {k \in 0..Len(listing) : ~Good(k)}
  <1>0. Len(listing) \in Nat
    OBVIOUS
  <1>1. SUFFICES ASSUME T # {} PROVE FALSE
    BY <1>0
  <1>2. PICK m \in T : \A k \in T : m <= k
    <2>1. T \subseteq Nat
      BY <1>0
    <2>. QED
      BY <1>1, <2>1, LeastNatural
  <1>3. \A i \in 0..Len(listing) : f[i] = IF i = 0 THEN order ELSE Touched(f[i - 1], listing[i])
    BY DEF TouchedList
  <1>4. m \in 0..Len(listing) /\ ~Good(m)
    BY <1>2
  <1>5. CASE m = 0
    BY <1>0, <1>3, <1>4, <1>5
  <1>6. CASE m # 0
    <2>1. m - 1 \in 0..Len(listing) /\ listing[m] \in Rooms /\ ~(m <= m - 1)
      BY <1>0, <1>4, <1>6
    <2>2. Good(m - 1)
      BY <1>2, <2>1
    <2>3. f[m] = Touched(f[m - 1], listing[m])
      BY <1>3, <1>4, <1>6
    <2>. QED
      BY <1>4, <2>1, <2>2, <2>3, TouchedIs
  <1>. QED
    BY <1>5, <1>6

\* A listing of some rooms has each of them once, and no other.
LEMMA ListingIs ==
    ASSUME NEW S, IsFiniteSet(S), NEW listing \in SetToSeqs(S)
    PROVE  listing \in Seq(S) /\ IsInjective(listing) /\ Range(listing) = S
  <1> DEFINE n == Cardinality(S)
  <1>1. n \in Nat
    BY FS_CardinalityType
  <1>2. /\ listing \in [1..n -> S]
        /\ \A i, j \in 1..n : i # j => listing[i] # listing[j]
    BY DEF SetToSeqs
  <1>. HIDE DEF n
  <1>3. listing \in Seq(S) /\ DOMAIN listing = 1..n
    BY <1>1, <1>2
  <1>4. IsInjective(listing)
    BY <1>2 DEF IsInjective
  <1>5. listing \in Injection(1..n, S)
    BY <1>2, <1>4 DEF Injection
  <1>6. Cardinality(1..n) = Cardinality(S)
    BY <1>1, FS_Interval DEF n
  <1>7. listing \in Surjection(1..n, S)
    BY <1>5, <1>6, FS_Injection
  <1>8. Range(listing) = S
    BY <1>2, <1>7 DEF Surjection, Range
  <1>. QED
    BY <1>3, <1>4, <1>8

-----------------------------------------------------------------------------
(* Types of the view                                                       *)

LEMMA WireFields ==
    ASSUME NEW w \in Wire
    PROVE  /\ w.t \in {"ready", "rooms", "message", "history"}
           /\ w.t = "rooms" => w.rooms \subseteq Rooms
           /\ w.t = "message" => w.event \in Events /\ w.again \in BOOLEAN
           /\ w.t = "history" => w.room \in Rooms /\ w.events \in History
  BY DEF Wire

LEMMA WireMembers ==
    /\ [t |-> "ready"] \in Wire
    /\ \A S \in SUBSET Rooms : [t |-> "rooms", rooms |-> S] \in Wire
    /\ \A e \in Events, b \in BOOLEAN : [t |-> "message", event |-> e, again |-> b] \in Wire
    /\ \A r \in Rooms, s \in History : [t |-> "history", room |-> r, events |-> s] \in Wire
  BY DEF Wire

LEMMA NewestHistory ==
    ASSUME NEW s \in Seq(Events)
    PROVE  Newest(s, HistoryLimit) \in History
  BY NewestIs, FrontViewAssumption DEF History

\* The view after a message or a history reply.
LEMMA PruneTypes ==
    ASSUME ViewTypeOK, NEW r \in Rooms, NEW h \in History, NEW ids, NEW shown, NEW count \in Nat,
           ids \subseteq Events, shown \subseteq Events,
           messages' = [messages EXCEPT ![r] = h],
           Prune(ids, shown, count, messages')
    PROVE  /\ messages' \in [Rooms -> History]
           /\ seen' \subseteq Events /\ glanced' \subseteq Events /\ idCount' \in 0..IdLimit
  <1>1. messages' \in [Rooms -> History]
    BY DEF ViewTypeOK
  <1>2. Held(messages') \subseteq Events
    <2>. SUFFICES ASSUME NEW q \in Rooms, NEW i \in DOMAIN messages'[q]
                  PROVE  messages'[q][i] \in Events
      BY DEF Held, Range
    <2>. QED
      BY <1>1 DEF History
  <1>. QED
    <2>1. IdLimit \in Nat
      BY FrontViewAssumption
    <2>2. CASE count > IdLimit
      <3>. DEFINE H == Held(messages')
      <3>1. seen' = H /\ glanced' = shown \intersect H /\ idCount' = 0
        BY <2>2 DEF Prune
      <3>. HIDE DEF H
      <3>2. H \subseteq Events
        BY <1>2 DEF H
      <3>. QED
        BY <1>1, <2>1, <3>1, <3>2
    <2>3. CASE ~(count > IdLimit)
      BY <1>1, <2>1, <2>3 DEF Prune
    <2>. QED
      BY <2>2, <2>3

LEMMA OrderTypes ==
    ASSUME ViewTypeOK
    PROVE  order \in RoomList
  BY DEF ViewTypeOK, RoomList

LEMMA MessageTypes ==
    ASSUME ViewTypeOK, NEW e \in Events, OnMessage(e)
    PROVE  /\ order' \in RoomList /\ messages' \in [Rooms -> History]
           /\ \A r \in Rooms : messages'[r] # << >> => r \in Range(order')
           /\ seen' \subseteq Events /\ glanced' \subseteq Events /\ idCount' \in 0..IdLimit
  <1>1. CASE e \in seen
    BY <1>1, OrderTypes DEF OnMessage, view, ViewTypeOK
  <1>2. CASE e \notin seen
    <2> DEFINE r == RoomOf[e]
               h == Newest(Append(messages[r], e), HistoryLimit)
    <2>1. r \in Rooms
      BY FrontViewAssumption
    <2>2. h \in History
      <3>1. messages[r] \in Seq(Events)
        BY <2>1 DEF ViewTypeOK, History
      <3>. QED
        BY <3>1, AppendIs, NewestHistory
    <2>3. messages' = [messages EXCEPT ![r] = h] /\ order' = Bumped(r)
      BY <1>2 DEF OnMessage
    <2>4. /\ messages' \in [Rooms -> History]
          /\ seen' \subseteq Events /\ glanced' \subseteq Events /\ idCount' \in 0..IdLimit
      <3>1. Prune(seen \union {e}, glanced \union ({e} \intersect OwnEvents), idCount + 1, messages')
        BY <1>2, <2>3 DEF OnMessage
      <3>2. /\ seen \union {e} \subseteq Events /\ idCount + 1 \in Nat
            /\ glanced \union ({e} \intersect OwnEvents) \subseteq Events
        BY FrontViewAssumption DEF ViewTypeOK
      <3>. HIDE DEF h, r
      <3>. QED
        BY <2>1, <2>2, <2>3, <3>1, <3>2, PruneTypes
    <2>5. order' \in RoomList /\ Range(order) \union {r} \subseteq Range(order')
      BY <2>1, <2>3, OrderTypes, BumpedIs
    <2>. HIDE DEF h
    <2>6. \A q \in Rooms : messages'[q] # << >> => q \in Range(order')
      BY <2>1, <2>3, <2>5 DEF ViewTypeOK
    <2>. QED
      BY <2>4, <2>5, <2>6
  <1>. QED
    BY <1>1, <1>2

LEMMA HistoryTypes ==
    ASSUME ViewTypeOK, NEW r \in Rooms, NEW h \in History, OnHistory(r, h)
    PROVE  /\ order' \in RoomList /\ messages' \in [Rooms -> History]
           /\ \A q \in Rooms : messages'[q] # << >> => q \in Range(order')
           /\ seen' \subseteq Events /\ glanced' \subseteq Events /\ idCount' \in 0..IdLimit
  <1>1. messages' = [messages EXCEPT ![r] = h] /\ order' = Touched(order, r)
    BY DEF OnHistory
  <1>2. Prune(seen \union Range(h), glanced \union Range(h), idCount + Len(h), messages')
    BY <1>1 DEF OnHistory
  <1>3. /\ seen \union Range(h) \subseteq Events /\ idCount + Len(h) \in Nat
        /\ glanced \union Range(h) \subseteq Events
    <2>1. Range(h) \subseteq Events /\ Len(h) \in Nat
      BY DEF History, Range
    <2>. QED
      BY <2>1, FrontViewAssumption DEF ViewTypeOK
  <1>4. order' \in RoomList /\ Range(order) \union {r} \subseteq Range(order')
    BY <1>1, OrderTypes, TouchedIs
  <1>5. \A q \in Rooms : messages'[q] # << >> => q \in Range(order')
    BY <1>1, <1>4 DEF ViewTypeOK
  <1>. QED
    BY <1>1, <1>2, <1>3, <1>4, <1>5, PruneTypes

LEMMA ViewTypesInit == ViewInit => ViewTypeOK
  <1>. SUFFICES ASSUME ViewInit PROVE ViewTypeOK
    OBVIOUS
  <1>1. << >> \in History /\ IsInjective(<< >>)
    BY FrontViewAssumption DEF History, IsInjective
  <1>2. messages \in [Rooms -> History] /\ \A r \in Rooms : messages[r] = << >>
    BY <1>1 DEF ViewInit
  <1>. QED
    BY <1>1, <1>2, FrontViewAssumption DEF ViewInit, ViewTypeOK

LEMMA ViewTypesStep == ViewTypeOK /\ [ViewNext]_viewVars => ViewTypeOK'
  <1>. SUFFICES ASSUME ViewTypeOK, [ViewNext]_viewVars
                PROVE  ViewTypeOK'
    OBVIOUS
  <1>. USE FrontViewAssumption
  <1>0. << >> \in History /\ IsInjective(<< >>) /\ order \in RoomList
    BY OrderTypes DEF History, IsInjective
  <1>00. wire \in Seq(Wire) /\ asked \in Seq(Rooms \union {None}) /\ reply \in Seq(History)
    BY DEF ViewTypeOK
  <1>a. ASSUME NEW tag, Arrives(tag)
        PROVE  /\ wire' \in Seq(Wire) /\ Head(wire) \in Wire /\ Head(wire).t = tag
    BY <1>00, <1>a, TailIs DEF Arrives
  <1>b. Reset => /\ order' = << >> /\ messages' \in [Rooms -> History]
                 /\ \A r \in Rooms : messages'[r] = << >>
                 /\ seen' = {} /\ glanced' = {} /\ idCount' = 0
    BY <1>0 DEF Reset
  <1>e. wire \in Seq(Wire) /\ \A w \in Wire : Append(wire, w) \in Seq(Wire)
    BY <1>00, AppendIs DEF ViewTypeOK
  <1>c. \A r \in Rooms : messages[r] # << >> => /\ Last(messages[r]) \in Events
                                                /\ Last(messages[r]) \in Range(messages[r])
    <2>. SUFFICES ASSUME NEW r \in Rooms, messages[r] # << >>
                  PROVE  Last(messages[r]) \in Events /\ Last(messages[r]) \in Range(messages[r])
      OBVIOUS
    <2>1. messages[r] \in Seq(Events)
      BY DEF ViewTypeOK, History
    <2>2. Len(messages[r]) \in DOMAIN messages[r]
      BY <2>1
    <2>. QED
      BY <2>1, <2>2 DEF Last, Range
  <1>d. \A r \in Rooms : Range(messages[r]) \subseteq Events
    <2>. SUFFICES ASSUME NEW r \in Rooms, NEW i \in DOMAIN messages[r]
                  PROVE  messages[r][i] \in Events
      BY DEF Range
    <2>. QED
      BY DEF ViewTypeOK, History
  <1>1. CASE GlanceNews
    <2>1. PICK e \in NextUnglanced : /\ glanced' = glanced \union {e}
                                     /\ shows' = [shows EXCEPT ![e] = @ + 1]
      BY <1>1 DEF GlanceNews
    <2>2. e \in Events
      BY <1>c DEF NextUnglanced
    <2>3. UNCHANGED <<order, messages, seen, idCount, daemon, reborn, gaps>>
      BY <1>1 DEF GlanceNews
    <2>4. glanced' \subseteq Events /\ shows' \in [Events -> Nat]
      BY <2>1, <2>2 DEF ViewTypeOK
    <2>. QED
      BY <2>3, <2>4 DEF ViewTypeOK, daemon
  <1>2. CASE Look
    <2>1. Head(order) \in Rooms
      BY <1>0, <1>2, TailIs DEF Look, RoomList
    <2>. QED
      BY <1>2, <1>d, <2>1 DEF Look, ViewTypeOK, daemon, history
  <1>3. CASE Stop
    BY <1>0, <1>3, <1>b DEF Stop, ViewTypeOK
  <1>4. CASE Lose
    BY <1>4 DEF Lose, ViewTypeOK, view
  <1>5. CASE HandleReady
    <2>1. wire' \in Seq(Wire)
      BY <1>5, <1>a DEF HandleReady
    <2>2. asked' \in Seq(Rooms \union {None})
      BY <1>5, <1>00, AppendIs DEF HandleReady
    <2>3. reply # << >> => asked' # << >> /\ Head(asked') = Head(asked)
      <3>1. reply # << >> => asked # << >>
        BY DEF ViewTypeOK
      <3>2. asked # << >> => 1 \in DOMAIN asked
        BY <1>00
      <3>. QED
        BY <1>00, <1>5, <3>1, <3>2, AppendIs DEF HandleReady
    <2>4. Reset /\ UNCHANGED <<log, ingesting, link, reply, shows, reborn, gaps>>
      BY <1>5 DEF HandleReady, history
    <2>5. order' \in Seq(Rooms) /\ IsInjective(order')
      BY <1>0, <1>b, <2>4
    <2>6. /\ messages' \in [Rooms -> History]
          /\ \A r \in Rooms : messages'[r] # << >> => r \in Range(order')
          /\ seen' \subseteq Events /\ glanced' \subseteq Events /\ idCount' \in 0..IdLimit
      BY <1>b, <2>4
    <2>7. /\ log' \in [Rooms -> Seq(Events)] /\ ingesting' \in Events \union {None}
          /\ link' \in {"down", "hello", "ready"} /\ reply' \in Seq(History) /\ Len(reply') <= 1
          /\ shows' \in [Events -> Nat] /\ reborn' \subseteq Events /\ gaps' \subseteq Rooms
      BY <2>4 DEF ViewTypeOK
    <2>8. reply' # << >> => asked' # << >> /\ Head(asked') \in Rooms
      BY <2>3, <2>4 DEF ViewTypeOK
    <2>. QED
      BY <2>1, <2>2, <2>5, <2>6, <2>7, <2>8 DEF ViewTypeOK
  <1>6. CASE HandleRooms
    <2>1. wire' \in Seq(Wire) /\ Head(wire).rooms \subseteq Rooms
      BY <1>6, <1>a, WireFields DEF HandleRooms
    <2>2. PICK listing \in SetToSeqs(Head(wire).rooms) :
            /\ LET touched[i \in 0..Len(listing)] ==
                       IF i = 0 THEN order ELSE Touched(touched[i - 1], listing[i])
               IN  order' = touched[Len(listing)]
            /\ asked' = asked \o listing
      BY <1>6 DEF HandleRooms
    <2>3. listing \in Seq(Rooms)
      <3>1. IsFiniteSet(Head(wire).rooms)
        BY <2>1, FS_Subset
      <3>. QED
        BY <2>1, <3>1, ListingIs
    <2>4. order' \in RoomList /\ Range(order) \subseteq Range(order')
      <3>1. PICK f : TouchedList(listing, f)
        BY <2>3, TouchedListExists
      <3> DEFINE g == CHOOSE f0 : f0 = [i \in 0..Len(listing) |->
                        IF i = 0 THEN order ELSE Touched(f0[i - 1], listing[i])]
      <3>2. order' = g[Len(listing)]
        BY <2>2
      <3>3. TouchedList(listing, g)
        BY <3>1 DEF TouchedList
      <3>. HIDE DEF g
      <3>. QED
        BY <1>0, <2>3, <3>2, <3>3, TouchedListIs
    <2>5. asked' \in Seq(Rooms \union {None})
      <3>1. listing \in Seq(Rooms \union {None})
        BY <2>3
      <3>. QED
        BY <1>00, <2>2, <3>1, ConcatProperties
    <2>6. reply # << >> => asked' # << >> /\ Head(asked') = Head(asked)
      <3>1. reply # << >> => asked # << >>
        BY DEF ViewTypeOK
      <3>. QED
        BY <1>00, <2>2, <2>3, <3>1
    <2>. QED
      BY <1>6, <2>1, <2>4, <2>5, <2>6 DEF HandleRooms, ViewTypeOK, RoomList, history
  <1>7. CASE HandleHistory
    <2>1. wire' \in Seq(Wire) /\ Head(wire).room \in Rooms /\ Head(wire).events \in History
      BY <1>7, <1>a, WireFields DEF HandleHistory
    <2>2. OnHistory(Head(wire).room, Head(wire).events)
      BY <1>7 DEF HandleHistory
    <2>. QED
      BY <1>7, <2>1, <2>2, HistoryTypes DEF HandleHistory, ViewTypeOK, RoomList, history
  <1>8. CASE HandleMessage
    <2>1. wire' \in Seq(Wire) /\ Head(wire).event \in Events
      BY <1>8, <1>a, WireFields DEF HandleMessage
    <2>2. OnMessage(Head(wire).event)
      BY <1>8 DEF HandleMessage
    <2>3. reborn' \subseteq Events
      BY <1>8, <2>1 DEF HandleMessage, ViewTypeOK
    <2>. QED
      BY <1>8, <2>1, <2>2, <2>3, MessageTypes DEF HandleMessage, ViewTypeOK, RoomList
  <1>9. CASE Greet
    BY <1>9 DEF Greet, ViewTypeOK, view, history
  <1>10. CASE SendReady
    <2>1. wire' \in Seq(Wire)
      BY <1>e, <1>10, WireMembers DEF SendReady, Enqueue
    <2>2. gaps' \subseteq Rooms
      BY <1>10 DEF SendReady, Enqueue, ViewTypeOK
    <2>. QED
      BY <1>10, <2>1, <2>2 DEF SendReady, ViewTypeOK, view
  <1>11. CASE Broadcast
    <2>1. wire' \in Seq(Wire)
      <3>1. ingesting \in Events
        BY <1>11 DEF Broadcast, ViewTypeOK
      <3>2. [t |-> "message", event |-> ingesting, again |-> FALSE] \in Wire
        BY <3>1, WireMembers
      <3>. QED
        BY <1>e, <1>11, <3>2 DEF Broadcast
    <2>2. gaps' \subseteq Rooms
      BY <1>11 DEF Broadcast, Overtaken, ViewTypeOK
    <2>. QED
      BY <1>11, <2>1, <2>2 DEF Broadcast, ViewTypeOK, view
  <1>12. CASE AnswerRooms
    <2>1. wire' \in Seq(Wire)
      <3>1. [t |-> "rooms", rooms |-> {r \in Rooms : log[r] # << >>}] \in Wire
        BY WireMembers
      <3>. QED
        BY <1>e, <1>12, <3>1 DEF AnswerRooms, Enqueue
    <2>2. asked' \in Seq(Rooms \union {None})
      BY <1>00, <1>12, TailIs DEF AnswerRooms
    <2>3. reply = << >>
      BY <1>12 DEF AnswerRooms, ViewTypeOK
    <2>4. gaps' \subseteq Rooms
      BY <1>12 DEF AnswerRooms, Enqueue, ViewTypeOK
    <2>. QED
      BY <1>12, <2>1, <2>2, <2>3, <2>4 DEF AnswerRooms, ViewTypeOK, view
  <1>13. CASE ReadHistory
    <2>1. Head(asked) \in Rooms
      BY <1>00, <1>13, TailIs DEF ReadHistory
    <2>2. Newest(log[Head(asked)], HistoryLimit) \in History
      BY <2>1, NewestHistory DEF ViewTypeOK
    <2>3. reply' \in Seq(History) /\ Len(reply') <= 1
      BY <1>13, <2>2 DEF ReadHistory
    <2>. QED
      BY <1>13, <2>1, <2>3 DEF ReadHistory, ViewTypeOK, view, history
  <1>14. CASE SendHistory
    <2>1. Head(asked) \in Rooms /\ asked # << >> /\ reply[1] \in History
      BY <1>00, <1>14, TailIs DEF SendHistory, ViewTypeOK
    <2>2. wire' \in Seq(Wire)
      <3>1. [t |-> "history", room |-> Head(asked), events |-> reply[1]] \in Wire
        BY <2>1, WireMembers
      <3>. QED
        BY <1>e, <1>14, <3>1 DEF SendHistory, Enqueue
    <2>3. asked' \in Seq(Rooms \union {None})
      BY <1>00, <1>14, <2>1, TailIs DEF SendHistory
    <2>4. gaps' \subseteq Rooms
      BY <1>14, <2>1 DEF SendHistory, Enqueue, ViewTypeOK
    <2>. QED
      BY <1>14, <2>2, <2>3, <2>4 DEF SendHistory, ViewTypeOK, view
  <1>15. ASSUME NEW e \in Events, Ingest(e)
         PROVE  ViewTypeOK'
    <2>1. log' \in [Rooms -> Seq(Events)]
      <3>1. RoomOf[e] \in Rooms
        OBVIOUS
      <3>2. Append(log[RoomOf[e]], e) \in Seq(Events)
        BY <3>1, AppendIs DEF ViewTypeOK
      <3>3. log' = [log EXCEPT ![RoomOf[e]] = Append(log[RoomOf[e]], e)]
        BY <1>15 DEF Ingest
      <3>. QED
        BY <3>1, <3>2, <3>3 DEF ViewTypeOK
    <2>. QED
      BY <1>15, <2>1 DEF Ingest, ViewTypeOK, view, history
  <1>16. ASSUME NEW e \in Events, IngestAgain(e)
         PROVE  ViewTypeOK'
    <2>1. wire' \in Seq(Wire)
      <3>1. [t |-> "message", event |-> e, again |-> TRUE] \in Wire
        BY WireMembers
      <3>. QED
        BY <1>00, <1>16, <3>1, AppendIs DEF IngestAgain
    <2>. QED
      BY <1>16, <2>1 DEF IngestAgain, ViewTypeOK, view
  <1>17. CASE UNCHANGED viewVars
    BY <1>17 DEF viewVars, view, daemon, history, ViewTypeOK
  <1>. QED
    BY <1>1, <1>2, <1>3, <1>4, <1>5, <1>6, <1>7, <1>8, <1>9, <1>10, <1>11, <1>12, <1>13,
       <1>14, <1>15, <1>16, <1>17 DEF ViewNext, Frontend, Daemon

-----------------------------------------------------------------------------
(* What keeps the view and the daemon together                             *)

\* w is the one broadcast of e.
Fresh(w, e) == w.t = "message" /\ w.event = e /\ ~w.again

Again(w, e) == w.t = "message" /\ w.event = e /\ w.again

Stored == {e \in Events : e \in Range(log[RoomOf[e]])}

\* Stored events whose broadcast is over: handled, lost or sent to nobody.
Spent == {e \in Stored : ingesting # e /\ \A i \in DOMAIN wire : ~Fresh(wire[i], e)}

\* An event is stored once, in its room; the one being ingested is the last.
LogInv ==
    /\ \A r \in Rooms : \A a \in DOMAIN log[r] : RoomOf[log[r][a]] = r
    /\ \A r \in Rooms : \A a, b \in DOMAIN log[r] : log[r][a] = log[r][b] => a = b
    /\ ingesting # None =>
          LET l == log[RoomOf[ingesting]] IN l # << >> /\ l[Len(l)] = ingesting

\* Messages on their way are stored, and a repeated one comes after the fresh
\* one, which is one.
MessagesInv ==
    \A i \in DOMAIN wire, e \in Events :
        /\ Fresh(wire[i], e) => e \in Stored /\ ingesting # e
        /\ Again(wire[i], e) =>
              /\ e \in Stored /\ ingesting # e
              /\ \A j \in DOMAIN wire : i < j => ~Fresh(wire[j], e)

\* Fresh messages come in the order of the log.
OrderInv ==
    \A r \in Rooms : \A a, b \in DOMAIN log[r] : \A i, j \in DOMAIN wire :
        Fresh(wire[i], log[r][a]) /\ Fresh(wire[j], log[r][b]) /\ i < j => a < b

\* A history has events of its room.
RepliesInv ==
    /\ \A i \in DOMAIN wire : wire[i].t = "history" =>
          Range(wire[i].events) \subseteq Range(log[wire[i].room])
    /\ reply # << >> => Range(reply[1]) \subseteq Range(log[asked[1]])

WireInv == MessagesInv /\ OrderInv /\ RepliesInv

\* What the view holds is stored, and recognised.
ViewInv ==
    /\ \A r \in Rooms : Range(messages[r]) \subseteq Range(log[r]) \intersect seen
    /\ seen \subseteq Stored /\ glanced \subseteq seen

\* An event that was shown, or could be, has had its one broadcast, unless it
\* came again as new.
GlanceInv ==
    \A e \in Events \ reborn :
        /\ shows[e] <= 1
        /\ shows[e] = 1 => e \in glanced \/ e \notin Held(messages)
        /\ shows[e] = 1 \/ e \in Held(messages) \ glanced => e \in Spent

\* The view belongs to this connection: ready has been handled.
Live == link = "ready" /\ \A i \in DOMAIN wire : wire[i].t # "ready"

\* The requests of a connection: rooms, then the history of each, once.
RequestInv ==
    /\ link = "down" => wire = << >>
    /\ link = "hello" => \A i \in DOMAIN wire : wire[i].t # "ready"
    /\ \A i, j \in DOMAIN wire : wire[i].t = "ready" /\ wire[j].t = "ready" => i = j
    /\ ~Live => asked = << >> /\ \A i \in DOMAIN wire : wire[i].t \notin {"rooms", "history"}
    /\ \A i \in DOMAIN asked : asked[i] = None =>
          /\ Len(asked) = 1
          /\ \A j \in DOMAIN wire : wire[j].t \notin {"rooms", "history"}
    /\ \A i \in DOMAIN wire : wire[i].t = "rooms" =>
          /\ asked = << >>
          /\ \A j \in DOMAIN wire : wire[j].t \in {"history", "rooms"} => i = j
    /\ \A i, j \in DOMAIN asked : asked[i] = asked[j] => i = j
    /\ \A i, j \in DOMAIN wire :
          wire[i].t = "history" /\ wire[j].t = "history" /\ wire[i].room = wire[j].room => i = j
    /\ \A i \in DOMAIN wire, j \in DOMAIN asked : wire[i].t = "history" => wire[i].room # asked[j]

\* The rooms whose history is asked for, or will be.
Awaited ==
    {r \in Rooms :
        \/ \E i \in DOMAIN asked : asked[i] = None \/ asked[i] = r
        \/ \E i \in DOMAIN wire : \/ wire[i].t = "rooms" /\ r \in wire[i].rooms
                                  \/ wire[i].t = "history" /\ wire[i].room = r}

\* s is what a log had last when it was k long.
IsHistory(s, l, k) == k \in 0..Len(l) /\ s = Newest(SubSeq(l, 1, k), HistoryLimit)

ReplyInv ==
    reply # << >> /\ asked[1] \notin gaps =>
        \E k \in Nat :
            /\ IsHistory(reply[1], log[asked[1]], k)
            /\ \A a \in DOMAIN log[asked[1]] : a > k => ingesting = log[asked[1]][a]

\* The history at place i of the wire was read between the broadcasts that
\* come before and after it: r's log was k events long.
HistoryAt(i, r, k) ==
    /\ IsHistory(wire[i].events, log[r], k)
    /\ \A a \in DOMAIN log[r] :
        /\ a > k => \/ ingesting = log[r][a]
                    \/ \E j \in DOMAIN wire : i < j /\ Fresh(wire[j], log[r][a])
        /\ a < k => /\ ingesting # log[r][a]
                    /\ \A j \in DOMAIN wire : i < j => ~Fresh(wire[j], log[r][a])

HistoryInv ==
    \A i \in DOMAIN wire, r \in Rooms \ gaps :
        wire[i].t = "history" /\ wire[i].room = r => \E k \in Nat : HistoryAt(i, r, k)

\* From the last message of m that was accepted again on, m is the log l up to
\* its k-th event; the whole of it if there is no such message.
Aligned(m, l, k, again) ==
    \A i \in 1..(Len(m) + 1) :
        (\A j \in DOMAIN m : i <= j => m[j] \notin again) =>
            /\ Len(m) < k + i
            /\ \A j \in DOMAIN m : i <= j => m[j] = l[k + j - Len(m)]
            /\ i = 1 => Len(m) = (IF k < HistoryLimit THEN k ELSE HistoryLimit)

\* The view of r is at the k-th event of its log.
Synced(r, k) ==
    /\ k <= Len(log[r])
    /\ Aligned(messages[r], log[r], k, reborn)
    /\ \A a \in DOMAIN log[r] :
        /\ a < k => log[r][a] \in Spent
        /\ a > k => log[r][a] \notin Spent \union seen

\* A room whose history is still to come has seen nothing ahead of its
\* broadcast; another follows its log.
Follows(r) ==
    IF r \in Awaited THEN \A e \in Range(log[r]) : e \in seen => e \in Spent
    ELSE \E k \in Nat : Synced(r, k)

SyncInv == Live => \A r \in Rooms \ gaps : Follows(r)

-----------------------------------------------------------------------------
(* The log and the wire                                                    *)

\* Which steps change what the daemon has under way, and how.
Still == wire' = wire /\ log' = log /\ ingesting' = ingesting
Handled == wire # << >> /\ wire' = Tail(wire) /\ log' = log /\ ingesting' = ingesting
Dropped == wire' = << >> /\ log' = log /\ ingesting' = ingesting
Sent(w) == wire' = Append(wire, w) /\ log' = log /\ ingesting' = ingesting

LEMMA ViewSteps ==
    ASSUME ViewTypeOK, [ViewNext]_viewVars
    PROVE  \/ (GlanceNews \/ Look \/ Greet \/ ReadHistory \/ UNCHANGED viewVars) /\ Still
           \/ (SendReady \/ AnswerRooms \/ SendHistory) /\ Still
           \/ (HandleReady \/ HandleRooms \/ HandleHistory \/ HandleMessage) /\ Handled
           \/ (Stop \/ Lose) /\ Dropped
           \/ SendReady /\ Sent([t |-> "ready"])
           \/ AnswerRooms /\ Sent([t |-> "rooms", rooms |-> {r \in Rooms : log[r] # << >>}])
           \/ SendHistory /\ Sent([t |-> "history", room |-> Head(asked), events |-> reply[1]])
           \/ Broadcast
           \/ \E e \in Events : Ingest(e)
           \/ \E e \in Events : /\ IngestAgain(e)
                                /\ Sent([t |-> "message", event |-> e, again |-> TRUE])
  <1>1. GlanceNews \/ Look \/ Greet \/ ReadHistory \/ UNCHANGED viewVars => Still
    BY DEF Still, GlanceNews, Look, Greet, ReadHistory, viewVars, view, daemon, history
  <1>2. HandleReady \/ HandleRooms \/ HandleHistory \/ HandleMessage => Handled
    BY DEF Handled, HandleReady, HandleRooms, HandleHistory, HandleMessage, Arrives
  <1>3. Stop \/ Lose => Dropped
    BY DEF Dropped, Stop, Lose
  <1>4. SendReady => Sent([t |-> "ready"]) \/ Still
    BY DEF SendReady, Enqueue, Sent, Still
  <1>5. AnswerRooms => \/ Sent([t |-> "rooms", rooms |-> {r \in Rooms : log[r] # << >>}])
                       \/ Still
    BY DEF AnswerRooms, Enqueue, Sent, Still
  <1>6. SendHistory => \/ Sent([t |-> "history", room |-> Head(asked), events |-> reply[1]])
                       \/ Still
    BY DEF SendHistory, Enqueue, Sent, Still
  <1>7. ASSUME NEW e \in Events, IngestAgain(e)
        PROVE  Sent([t |-> "message", event |-> e, again |-> TRUE])
    BY <1>7 DEF IngestAgain, Sent
  <1>. QED
    BY <1>1, <1>2, <1>3, <1>4, <1>5, <1>6, <1>7 DEF ViewNext, Frontend, Daemon

\* Where the elements of the wire are afterwards.
LEMMA WireHandled ==
    ASSUME ViewTypeOK, Handled
    PROVE  /\ wire[1] \in Wire /\ Head(wire) = wire[1] /\ 1 \in DOMAIN wire
           /\ \A i \in DOMAIN wire' : i + 1 \in DOMAIN wire /\ wire'[i] = wire[i + 1] /\ i \in Nat
           /\ \A i \in DOMAIN wire : i \in Nat /\ (i = 1 \/ (i - 1 \in DOMAIN wire' /\ wire'[i - 1] = wire[i] /\ 1 < i))
           /\ \A i \in DOMAIN wire : wire[i] \in Wire
           /\ \A i \in DOMAIN wire' : wire'[i] \in Wire
  <1>1. wire \in Seq(Wire) /\ wire # << >> /\ wire' = Tail(wire)
    BY DEF ViewTypeOK, Handled
  <1>2. /\ Tail(wire) \in Seq(Wire) /\ Len(wire) \in Nat \ {0}
        /\ Head(wire) = wire[1] /\ wire[1] \in Wire
        /\ \A i \in DOMAIN wire' : i + 1 \in DOMAIN wire /\ wire'[i] = wire[i + 1]
        /\ DOMAIN wire = 1..Len(wire) /\ DOMAIN wire' = 1..(Len(wire) - 1)
    BY <1>1, TailIs
  <1>3. \A i \in DOMAIN wire : i \in Nat /\ (i = 1 \/ (i - 1 \in DOMAIN wire' /\ (i - 1) + 1 = i /\ 1 < i))
    BY <1>2
  <1>4. \A i \in DOMAIN wire : wire[i] \in Wire
    BY <1>1
  <1>5. \A i \in DOMAIN wire' : wire'[i] \in Wire /\ i \in Nat
    BY <1>2, <1>4
  <1>6. 1 \in DOMAIN wire
    BY <1>2
  <1>7. \A i \in DOMAIN wire : i \in Nat /\ (i = 1 \/ (i - 1 \in DOMAIN wire' /\ wire'[i - 1] = wire[i] /\ 1 < i))
    BY <1>2, <1>3
  <1>. QED
    BY <1>2, <1>4, <1>5, <1>6, <1>7

LEMMA WireSent ==
    ASSUME ViewTypeOK, NEW w \in Wire, wire' = Append(wire, w)
    PROVE  /\ \A i \in DOMAIN wire : i \in Nat /\ i < Len(wire) + 1 /\ i \in DOMAIN wire' /\ wire'[i] = wire[i]
           /\ \A i \in DOMAIN wire' : i \in Nat /\ (i \in DOMAIN wire \/ i = Len(wire) + 1)
           /\ Len(wire) \in Nat /\ Len(wire) + 1 \in DOMAIN wire' /\ wire'[Len(wire) + 1] = w
           /\ \A i \in DOMAIN wire : wire[i] \in Wire
  <1>1. wire \in Seq(Wire)
    BY DEF ViewTypeOK
  <1>2. /\ Len(wire) \in Nat
        /\ \A i \in DOMAIN wire : i \in DOMAIN wire' /\ wire'[i] = wire[i]
        /\ wire'[Len(wire) + 1] = w
        /\ DOMAIN wire = 1..Len(wire) /\ DOMAIN wire' = 1..(Len(wire) + 1)
    BY <1>1, AppendIs
  <1>3. \A i \in DOMAIN wire : wire[i] \in Wire
    BY <1>1
  <1>4. /\ \A i \in DOMAIN wire : i \in Nat /\ i < Len(wire) + 1
        /\ \A i \in DOMAIN wire' : i \in Nat /\ (i \in DOMAIN wire \/ i = Len(wire) + 1)
        /\ Len(wire) + 1 \in DOMAIN wire'
    BY <1>2
  <1>. QED
    BY <1>2, <1>3, <1>4

\* What storing an event does to the log.
LEMMA IngestLog ==
    ASSUME ViewTypeOK, LogInv, NEW e \in Events, Ingest(e)
    PROVE  /\ RoomOf[e] \in Rooms /\ e \notin Stored /\ Stored' = Stored \union {e}
           /\ \A r \in Rooms : r # RoomOf[e] => log'[r] = log[r]
           /\ log'[RoomOf[e]] = Append(log[RoomOf[e]], e)
           /\ log[RoomOf[e]] \in Seq(Events)
           /\ \A r \in Rooms : Range(log[r]) \subseteq Range(log'[r])
           /\ \A r \in Rooms : \A a \in DOMAIN log[r] : a \in DOMAIN log'[r] /\ log'[r][a] = log[r][a]
           /\ \A r \in Rooms : \A a \in DOMAIN log'[r] :
                  \/ a \in DOMAIN log[r] /\ log'[r][a] = log[r][a]
                  \/ r = RoomOf[e] /\ a = Len(log[r]) + 1 /\ log'[r][a] = e
  <1> DEFINE q == RoomOf[e]
  <1>1. q \in Rooms /\ \A f \in Events : RoomOf[f] \in Rooms
    BY FrontViewAssumption
  <1>2. log[q] \in Seq(Events) /\ \A r \in Rooms : log[r] \in Seq(Events)
    BY <1>1 DEF ViewTypeOK
  <1>3. log' = [log EXCEPT ![q] = Append(log[q], e)] /\ \A r \in Rooms : e \notin Range(log[r])
    BY DEF Ingest
  <1>4. log'[q] = Append(log[q], e) /\ \A r \in Rooms : r # q => log'[r] = log[r]
    BY <1>1, <1>3 DEF ViewTypeOK
  <1>5. Range(log'[q]) = Range(log[q]) \union {e}
    BY <1>2, <1>4, AppendRange
  <1>. HIDE DEF q
  <1>6. e \notin Stored /\ Stored' = Stored \union {e}
    <2>1. ASSUME NEW f \in Events
          PROVE  f \in Range(log'[RoomOf[f]]) <=> (f \in Range(log[RoomOf[f]]) \/ f = e)
      <3>1. CASE RoomOf[f] = q
        BY <1>5, <3>1 DEF q
      <3>2. CASE RoomOf[f] # q
        BY <1>1, <1>4, <3>2 DEF q
      <3>. QED
        BY <3>1, <3>2
    <2>. QED
      BY <1>1, <1>3, <2>1 DEF Stored
  <1>7. \A a \in DOMAIN log[q] : a \in DOMAIN log'[q] /\ log'[q][a] = log[q][a]
    BY <1>2, <1>4, AppendIs
  <1>8. \A a \in DOMAIN log'[q] : a \in DOMAIN log[q] \/ a = Len(log[q]) + 1
    BY <1>2, <1>4, AppendIs
  <1>9. log'[q][Len(log[q]) + 1] = e
    BY <1>2, <1>4, AppendIs
  <1>10. \A r \in Rooms : Range(log[r]) \subseteq Range(log'[r])
    BY <1>4, <1>5
  <1>11. \A r \in Rooms : \A a \in DOMAIN log[r] : a \in DOMAIN log'[r] /\ log'[r][a] = log[r][a]
    BY <1>4, <1>7
  <1>12. ASSUME NEW r \in Rooms, NEW a \in DOMAIN log'[r]
         PROVE  \/ a \in DOMAIN log[r] /\ log'[r][a] = log[r][a]
                \/ r = q /\ a = Len(log[r]) + 1 /\ log'[r][a] = e
    BY <1>4, <1>7, <1>8, <1>9
  <1>. QED
    BY <1>1, <1>2, <1>4, <1>6, <1>10, <1>11, <1>12 DEF q

\* Events of a log are stored.
LEMMA LogStored ==
    ASSUME ViewTypeOK, LogInv
    PROVE  /\ \A r \in Rooms : \A a \in DOMAIN log[r] : log[r][a] \in Stored /\ log[r][a] \in Events
           /\ \A r \in Rooms : Range(log[r]) \subseteq Stored
           /\ \A e \in Stored : RoomOf[e] \in Rooms /\ \E a \in DOMAIN log[RoomOf[e]] : log[RoomOf[e]][a] = e
           /\ \A r \in Rooms : log[r] \in Seq(Events) /\ Len(log[r]) \in Nat /\ DOMAIN log[r] = 1..Len(log[r])
  <1>1. \A r \in Rooms : log[r] \in Seq(Events)
    BY DEF ViewTypeOK
  <1>2. \A r \in Rooms : Len(log[r]) \in Nat /\ DOMAIN log[r] = 1..Len(log[r])
    BY <1>1
  <1>3. \A r \in Rooms : \A a \in DOMAIN log[r] : log[r][a] \in Events
    BY <1>1
  <1>4. \A r \in Rooms : \A a \in DOMAIN log[r] : log[r][a] \in Stored
    BY <1>3 DEF LogInv, Stored, Range
  <1>5. \A r \in Rooms : Range(log[r]) \subseteq Stored
    BY <1>4 DEF Range
  <1>6. \A e \in Stored : RoomOf[e] \in Rooms /\ \E a \in DOMAIN log[RoomOf[e]] : log[RoomOf[e]][a] = e
    BY FrontViewAssumption DEF Stored, Range
  <1>. QED
    BY <1>1, <1>2, <1>3, <1>4, <1>5, <1>6

LEMMA LogInvStep ==
    ASSUME ViewTypeOK, LogInv, [ViewNext]_viewVars
    PROVE  LogInv'
  <1>1. CASE log' = log /\ (ingesting' = ingesting \/ ingesting' = None)
    BY <1>1 DEF LogInv
  <1>2. ASSUME NEW e \in Events, Ingest(e)
        PROVE  LogInv'
    <2> DEFINE q == RoomOf[e]
    <2>1. \A r \in Rooms : \A a \in DOMAIN log'[r] : RoomOf[log'[r][a]] = r
      BY <1>2, IngestLog DEF LogInv
    <2>2. ASSUME NEW r \in Rooms, NEW a \in DOMAIN log'[r], NEW b \in DOMAIN log'[r],
                 log'[r][a] = log'[r][b]
          PROVE  a = b
      <3>1. \A c \in DOMAIN log[r] : log[r][c] # e
        BY <1>2, IngestLog, LogStored
      <3>2. /\ (a \in DOMAIN log[r] /\ log'[r][a] = log[r][a]) \/ (a = Len(log[r]) + 1 /\ log'[r][a] = e)
            /\ (b \in DOMAIN log[r] /\ log'[r][b] = log[r][b]) \/ (b = Len(log[r]) + 1 /\ log'[r][b] = e)
        BY <1>2, IngestLog
      <3>. QED
        BY <2>2, <3>1, <3>2 DEF LogInv
    <2>3. /\ ingesting' = e /\ q \in Rooms
          /\ log'[q] # << >> /\ log'[q][Len(log'[q])] = e
      <3>1. ingesting' = e /\ q \in Rooms /\ log'[q] = Append(log[q], e) /\ log[q] \in Seq(Events)
        BY <1>2, IngestLog DEF Ingest
      <3>. QED
        BY <3>1, AppendIs
    <2>. QED
      BY <2>1, <2>2, <2>3 DEF LogInv
  <1>3. Broadcast => log' = log /\ ingesting' = None
    BY DEF Broadcast
  <1>. QED
    BY <1>1, <1>2, <1>3, ViewSteps DEF Still, Handled, Dropped, Sent

\* Messages are put on the wire by two steps only.
LEMMA NewMessages ==
    /\ \A e : ~Fresh([t |-> "ready"], e) /\ ~Again([t |-> "ready"], e)
    /\ \A e, S : LET w == [t |-> "rooms", rooms |-> S] IN ~Fresh(w, e) /\ ~Again(w, e)
    /\ \A e, r, s : LET w == [t |-> "history", room |-> r, events |-> s] IN ~Fresh(w, e) /\ ~Again(w, e)
    /\ \A e, f : LET w == [t |-> "message", event |-> f, again |-> TRUE] IN
                    ~Fresh(w, e) /\ (Again(w, e) <=> e = f)
    /\ \A e, f : LET w == [t |-> "message", event |-> f, again |-> FALSE] IN
                    (Fresh(w, e) <=> e = f) /\ ~Again(w, e)
  BY DEF Fresh, Again

\* What Broadcast does, by whether somebody is connected and gets the message.
LEMMA BroadcastIs ==
    ASSUME ViewTypeOK, Broadcast
    PROVE  /\ ingesting \in Events /\ ingesting' = None /\ log' = log /\ Stored' = Stored
           /\ asked' = asked /\ reply' = reply /\ link' = link /\ UNCHANGED view
           /\ shows' = shows /\ reborn' = reborn
           /\ LET w == [t |-> "message", event |-> ingesting, again |-> FALSE] IN
              /\ w \in Wire
              /\ \/ wire' = wire /\ (link = "down" \/ RoomOf[ingesting] \in gaps')
                 \/ link # "down" /\ wire' = Append(wire, w)
  <1>1. ingesting \in Events
    BY DEF Broadcast, ViewTypeOK
  <1>2. [t |-> "message", event |-> ingesting, again |-> FALSE] \in Wire
    BY <1>1, WireMembers
  <1>. QED
    BY <1>1, <1>2 DEF Broadcast, Stored

\* The first request stays while its reply waits.
LEMMA RepliesStep ==
    ASSUME ViewTypeOK, [ViewNext]_viewVars
    PROVE  \/ reply' = << >>
           \/ reply # << >> /\ reply' = reply /\ asked'[1] = asked[1] /\ asked' # << >>
           \/ /\ ReadHistory /\ asked' = asked /\ asked # << >> /\ asked[1] \in Rooms
              /\ reply' = <<Newest(log[asked[1]], HistoryLimit)>>
  <1>1. asked \in Seq(Rooms \union {None})
    BY DEF ViewTypeOK
  <1>2. reply # << >> => asked # << >> /\ asked[1] \in Rooms /\ Head(asked) = asked[1]
    BY <1>1 DEF ViewTypeOK
  <1>3. Stop \/ Lose \/ SendHistory => reply' = << >>
    BY DEF Stop, Lose, SendHistory
  <1>4. CASE GlanceNews \/ Look \/ HandleHistory \/ HandleMessage \/ Greet \/ SendReady
             \/ (\E e \in Events : Ingest(e) \/ IngestAgain(e)) \/ UNCHANGED viewVars
    <2>1. reply' = reply /\ asked' = asked
      BY <1>4 DEF GlanceNews, Look, HandleHistory, HandleMessage, Greet, SendReady, Ingest,
                  IngestAgain, viewVars, daemon, history
    <2>. QED
      BY <1>2, <2>1
  <1>5. CASE Broadcast
    BY <1>2, <1>5, BroadcastIs
  <1>6. CASE AnswerRooms
    <2>1. reply' = reply /\ Head(asked) = None
      BY <1>6 DEF AnswerRooms
    <2>. QED
      BY <2>1, FrontViewAssumption DEF ViewTypeOK
  <1>7. CASE HandleReady
    <2>1. reply' = reply /\ asked' = Append(asked, None)
      BY <1>7 DEF HandleReady
    <2>2. asked # << >> => 1 \in DOMAIN asked
      BY <1>1
    <2>3. asked' # << >> /\ (asked # << >> => asked'[1] = asked[1])
      BY <1>1, <2>1, <2>2, AppendIs
    <2>. QED
      BY <1>2, <2>1, <2>3
  <1>8. CASE HandleRooms
    <2>1. PICK listing \in SetToSeqs(Head(wire).rooms) : asked' = asked \o listing
      BY <1>8 DEF HandleRooms
    <2>2. reply' = reply
      BY <1>8 DEF HandleRooms
    <2>3. listing \in Seq(Rooms \union {None})
      <3>1. Head(wire).rooms \subseteq Rooms
        <4>1. Head(wire) \in Wire /\ Head(wire).t = "rooms"
          BY <1>8, TailIs DEF HandleRooms, Arrives, ViewTypeOK
        <4>. QED
          BY <4>1, WireFields
      <3>2. IsFiniteSet(Head(wire).rooms)
        BY <3>1, FS_Subset, FrontViewAssumption
      <3>. QED
        BY <3>1, <3>2, ListingIs
    <2>4. asked # << >> => asked' # << >> /\ asked'[1] = asked[1]
      BY <1>1, <2>1, <2>3
    <2>. QED
      BY <1>2, <2>2, <2>4
  <1>9. CASE ReadHistory
    <2>1. /\ asked # << >> /\ Head(asked) # None /\ asked' = asked
          /\ reply' = <<Newest(log[Head(asked)], HistoryLimit)>>
      BY <1>9 DEF ReadHistory
    <2>2. Head(asked) = asked[1] /\ asked[1] \in Rooms
      BY <1>1, <2>1, TailIs
    <2>. QED
      BY <1>9, <2>1, <2>2
  <1>. QED
    BY <1>3, <1>4, <1>5, <1>6, <1>7, <1>8, <1>9 DEF ViewNext, Frontend, Daemon

LEMMA MessagesInvStep ==
    ASSUME ViewTypeOK, LogInv, MessagesInv, [ViewNext]_viewVars
    PROVE  MessagesInv'
  <1>1. CASE Still
    BY <1>1 DEF Still, MessagesInv, Stored
  <1>2. CASE Handled
    <2>1. Stored' = Stored /\ ingesting' = ingesting
      BY <1>2 DEF Handled, Stored
    <2>. SUFFICES ASSUME NEW i \in DOMAIN wire', NEW e \in Events
                  PROVE  /\ Fresh(wire'[i], e) => e \in Stored /\ ingesting # e
                         /\ Again(wire'[i], e) =>
                               /\ e \in Stored /\ ingesting # e
                               /\ \A j \in DOMAIN wire' : i < j => ~Fresh(wire'[j], e)
      BY <2>1 DEF MessagesInv
    <2>2. i + 1 \in DOMAIN wire /\ wire'[i] = wire[i + 1]
      BY <1>2, WireHandled
    <2>3. \A j \in DOMAIN wire' : i < j => i + 1 < j + 1 /\ j + 1 \in DOMAIN wire /\ wire'[j] = wire[j + 1]
      BY <1>2, WireHandled
    <2>. QED
      BY <2>2, <2>3 DEF MessagesInv
  <1>3. CASE Dropped
    BY <1>3 DEF Dropped, MessagesInv
  <1>4. ASSUME NEW w \in Wire, Sent(w), \A e \in Events : ~Fresh(w, e),
               \A e \in Events : Again(w, e) => e \in Stored /\ ingesting # e
        PROVE  MessagesInv'
    <2>1. Stored' = Stored /\ ingesting' = ingesting /\ wire' = Append(wire, w)
      BY <1>4 DEF Sent, Stored
    <2>. SUFFICES ASSUME NEW i \in DOMAIN wire', NEW e \in Events
                  PROVE  /\ Fresh(wire'[i], e) => e \in Stored /\ ingesting # e
                         /\ Again(wire'[i], e) =>
                               /\ e \in Stored /\ ingesting # e
                               /\ \A j \in DOMAIN wire' : i < j => ~Fresh(wire'[j], e)
      BY <2>1 DEF MessagesInv
    <2>2. \A j \in DOMAIN wire' : \/ j \in DOMAIN wire /\ wire'[j] = wire[j]
                                  \/ wire'[j] = w
      BY <2>1, WireSent
    <2>3. CASE i \in DOMAIN wire
      BY <1>4, <2>1, <2>2, <2>3, WireSent DEF MessagesInv
    <2>4. CASE i = Len(wire) + 1
      BY <1>4, <2>1, <2>4, WireSent
    <2>. QED
      BY <2>1, <2>3, <2>4, WireSent
  <1>5. CASE Broadcast
    <2> DEFINE w == [t |-> "message", event |-> ingesting, again |-> FALSE]
    <2>1. /\ ingesting \in Events /\ ingesting' = None /\ Stored' = Stored /\ w \in Wire
          /\ \A e \in Events : e # None
          /\ \A e \in Events : (Fresh(w, e) <=> e = ingesting) /\ ~Again(w, e)
      BY <1>5, BroadcastIs, NewMessages, FrontViewAssumption
    <2>2. ingesting \in Stored
      <3>1. RoomOf[ingesting] \in Rooms /\ log[RoomOf[ingesting]] \in Seq(Events)
        BY <2>1, FrontViewAssumption DEF ViewTypeOK
      <3>2. Len(log[RoomOf[ingesting]]) \in DOMAIN log[RoomOf[ingesting]]
        BY <2>1, <3>1, FrontViewAssumption DEF LogInv
      <3>. QED
        BY <2>1, <3>2 DEF LogInv, Stored, Range
    <2>3. CASE wire' = wire
      BY <2>1, <2>3 DEF MessagesInv
    <2>4. CASE wire' = Append(wire, w)
      <3>. HIDE DEF w
      <3>. SUFFICES ASSUME NEW i \in DOMAIN wire', NEW e \in Events
                    PROVE  /\ Fresh(wire'[i], e) => e \in Stored
                           /\ Again(wire'[i], e) =>
                                 /\ e \in Stored
                                 /\ \A j \in DOMAIN wire' : i < j => ~Fresh(wire'[j], e)
        BY <2>1 DEF MessagesInv
      <3>1. \A j \in DOMAIN wire' : \/ j \in DOMAIN wire /\ wire'[j] = wire[j]
                                    \/ wire'[j] = w
        BY <2>1, <2>4, WireSent
      <3>2. CASE i \in DOMAIN wire
        BY <2>1, <2>2, <2>4, <3>1, <3>2, WireSent DEF MessagesInv
      <3>3. CASE i = Len(wire) + 1
        BY <2>1, <2>2, <2>4, <3>3, WireSent
      <3>. QED
        BY <2>1, <2>4, <3>2, <3>3, WireSent
    <2>. QED
      BY <1>5, <2>3, <2>4, BroadcastIs
  <1>6. ASSUME NEW e \in Events, Ingest(e)
        PROVE  MessagesInv'
    <2>1. wire' = wire /\ ingesting' = e /\ e \notin Stored /\ Stored' = Stored \union {e}
      BY <1>6, IngestLog DEF Ingest
    <2>. QED
      BY <2>1 DEF MessagesInv
  <1>7. SendReady => MessagesInv'
    BY <1>1, <1>4, NewMessages, WireMembers DEF SendReady, Enqueue, Sent, Still
  <1>8. AnswerRooms => MessagesInv'
    <2> DEFINE w == [t |-> "rooms", rooms |-> {r \in Rooms : log[r] # << >>}]
    <2>1. w \in Wire /\ \A e \in Events : ~Fresh(w, e) /\ ~Again(w, e)
      BY NewMessages, WireMembers
    <2>2. AnswerRooms => Sent(w) \/ Still
      BY DEF AnswerRooms, Enqueue, Sent, Still
    <2>. QED
      BY <1>1, <1>4, <2>1, <2>2
  <1>9. SendHistory => MessagesInv'
    <2> DEFINE w == [t |-> "history", room |-> Head(asked), events |-> reply[1]]
    <2>1. SendHistory => w \in Wire
      <3>1. SendHistory => Head(asked) \in Rooms /\ reply[1] \in History
        BY TailIs DEF SendHistory, ViewTypeOK
      <3>. QED
        BY <3>1, WireMembers
    <2>2. SendHistory => Sent(w) \/ Still
      BY DEF SendHistory, Enqueue, Sent, Still
    <2>3. \A e \in Events : ~Fresh(w, e) /\ ~Again(w, e)
      BY NewMessages
    <2>. QED
      BY <1>1, <1>4, <2>1, <2>2, <2>3
  <1>10. ASSUME NEW e \in Events, IngestAgain(e)
         PROVE  MessagesInv'
    <2> DEFINE w == [t |-> "message", event |-> e, again |-> TRUE]
    <2>1. w \in Wire /\ Sent(w) /\ \A f \in Events : ~Fresh(w, f) /\ (Again(w, f) <=> f = e)
      BY <1>10, NewMessages, WireMembers DEF IngestAgain, Sent
    <2>2. e \in Stored /\ ingesting # e
      <3>1. e \in Held(log) /\ ingesting = None
        BY <1>10 DEF IngestAgain
      <3>2. PICK r \in Rooms : e \in Range(log[r])
        BY <3>1 DEF Held
      <3>. QED
        BY <3>1, <3>2, LogStored, FrontViewAssumption
    <2>. QED
      BY <1>4, <2>1, <2>2
  <1>. QED
    BY <1>1, <1>2, <1>3, <1>5, <1>6, <1>7, <1>8, <1>9, <1>10, ViewSteps

LEMMA OrderInvStep ==
    ASSUME ViewTypeOK, LogInv, MessagesInv, OrderInv, [ViewNext]_viewVars
    PROVE  OrderInv'
  <1>1. CASE Still
    BY <1>1 DEF Still, OrderInv
  <1>2. CASE Handled
    <2>1. log' = log
      BY <1>2 DEF Handled
    <2>. SUFFICES ASSUME NEW r \in Rooms, NEW a \in DOMAIN log[r], NEW b \in DOMAIN log[r],
                         NEW i \in DOMAIN wire', NEW j \in DOMAIN wire',
                         Fresh(wire'[i], log[r][a]), Fresh(wire'[j], log[r][b]), i < j
                  PROVE  a < b
      BY <2>1 DEF OrderInv
    <2>2. /\ i + 1 \in DOMAIN wire /\ wire'[i] = wire[i + 1]
          /\ j + 1 \in DOMAIN wire /\ wire'[j] = wire[j + 1] /\ i + 1 < j + 1
      BY <1>2, WireHandled
    <2>. QED
      BY <2>2 DEF OrderInv
  <1>3. CASE Dropped
    BY <1>3 DEF Dropped, OrderInv
  <1>4. ASSUME NEW w \in Wire, wire' = Append(wire, w), log' = log,
               \A e \in Events : Fresh(w, e) =>
                  e = ingesting /\ e \in Stored
        PROVE  OrderInv'
    <2>. SUFFICES ASSUME NEW r \in Rooms, NEW a \in DOMAIN log[r], NEW b \in DOMAIN log[r],
                         NEW i \in DOMAIN wire', NEW j \in DOMAIN wire',
                         Fresh(wire'[i], log[r][a]), Fresh(wire'[j], log[r][b]), i < j
                  PROVE  a < b
      BY <1>4 DEF OrderInv
    <2>1. i \in DOMAIN wire /\ wire'[i] = wire[i]
      BY <1>4, WireSent
    <2>2. CASE j \in DOMAIN wire
      BY <1>4, <2>1, <2>2, WireSent DEF OrderInv
    <2>3. CASE j = Len(wire) + 1
      <3>1. log[r][b] \in Events /\ log[r][a] \in Events
        BY LogStored
      <3>2. log[r][b] = ingesting /\ RoomOf[ingesting] = r /\ ingesting # None
        BY <1>4, <2>3, <3>1, WireSent, FrontViewAssumption DEF LogInv
      <3>3. log[r][Len(log[r])] = log[r][b] /\ DOMAIN log[r] = 1..Len(log[r]) /\ Len(log[r]) \in Nat
        BY <3>2, LogStored DEF LogInv
      <3>4. b = Len(log[r])
        BY <3>3 DEF LogInv
      <3>5. log[r][a] # ingesting
        BY <2>1, <3>1 DEF MessagesInv
      <3>. QED
        BY <3>2, <3>3, <3>4, <3>5
    <2>. QED
      BY <1>4, <2>2, <2>3, WireSent
  <1>5. CASE Broadcast
    <2> DEFINE w == [t |-> "message", event |-> ingesting, again |-> FALSE]
    <2>1. /\ w \in Wire /\ log' = log /\ \A e \in Events : Fresh(w, e) => e = ingesting
          /\ ingesting \in Events
      BY <1>5, BroadcastIs, NewMessages
    <2>2. ingesting \in Stored
      <3>1. RoomOf[ingesting] \in Rooms /\ log[RoomOf[ingesting]] \in Seq(Events) /\ ingesting # None
        BY <2>1, FrontViewAssumption DEF ViewTypeOK
      <3>2. Len(log[RoomOf[ingesting]]) \in DOMAIN log[RoomOf[ingesting]]
        BY <3>1 DEF LogInv
      <3>. QED
        BY <2>1, <3>1, <3>2 DEF LogInv, Stored, Range
    <2>3. CASE wire' = wire
      BY <2>1, <2>3 DEF OrderInv
    <2>4. CASE wire' = Append(wire, w)
      <3>. HIDE DEF w
      <3>. QED
        BY <1>4, <2>1, <2>2, <2>4
    <2>. QED
      BY <1>5, <2>3, <2>4, BroadcastIs
  <1>6. ASSUME NEW e \in Events, Ingest(e)
        PROVE  OrderInv'
    <2>1. wire' = wire /\ e \notin Stored
      BY <1>6, IngestLog DEF Ingest
    <2>2. \A i \in DOMAIN wire : ~Fresh(wire[i], e)
      BY <2>1 DEF MessagesInv
    <2>. SUFFICES ASSUME NEW r \in Rooms, NEW a \in DOMAIN log'[r], NEW b \in DOMAIN log'[r],
                         NEW i \in DOMAIN wire, NEW j \in DOMAIN wire,
                         Fresh(wire[i], log'[r][a]), Fresh(wire[j], log'[r][b]), i < j
                  PROVE  a < b
      BY <2>1 DEF OrderInv
    <2>3. a \in DOMAIN log[r] /\ log'[r][a] = log[r][a] /\ b \in DOMAIN log[r] /\ log'[r][b] = log[r][b]
      BY <1>6, <2>2, IngestLog
    <2>. QED
      BY <2>3 DEF OrderInv
  <1>7. SendReady => OrderInv'
    BY <1>1, <1>4, NewMessages, WireMembers DEF SendReady, Enqueue, Still
  <1>8. AnswerRooms => OrderInv'
    <2> DEFINE w == [t |-> "rooms", rooms |-> {r \in Rooms : log[r] # << >>}]
    <2>1. w \in Wire /\ \A e \in Events : ~Fresh(w, e)
      BY NewMessages, WireMembers
    <2>2. AnswerRooms => (wire' = Append(wire, w) /\ log' = log) \/ Still
      BY DEF AnswerRooms, Enqueue, Still
    <2>. QED
      BY <1>1, <1>4, <2>1, <2>2
  <1>9. SendHistory => OrderInv'
    <2> DEFINE w == [t |-> "history", room |-> Head(asked), events |-> reply[1]]
    <2>1. SendHistory => w \in Wire
      <3>1. SendHistory => Head(asked) \in Rooms /\ reply[1] \in History
        BY TailIs DEF SendHistory, ViewTypeOK
      <3>. QED
        BY <3>1, WireMembers
    <2>2. SendHistory => (wire' = Append(wire, w) /\ log' = log) \/ Still
      BY DEF SendHistory, Enqueue, Still
    <2>3. \A e \in Events : ~Fresh(w, e)
      BY NewMessages
    <2>. QED
      BY <1>1, <1>4, <2>1, <2>2, <2>3
  <1>10. ASSUME NEW e \in Events, IngestAgain(e)
         PROVE  OrderInv'
    <2> DEFINE w == [t |-> "message", event |-> e, again |-> TRUE]
    <2>1. w \in Wire /\ wire' = Append(wire, w) /\ log' = log /\ \A f \in Events : ~Fresh(w, f)
      BY <1>10, NewMessages, WireMembers DEF IngestAgain
    <2>. QED
      BY <1>4, <2>1
  <1>. QED
    BY <1>1, <1>2, <1>3, <1>5, <1>6, <1>7, <1>8, <1>9, <1>10, ViewSteps

LEMMA RepliesInvStep ==
    ASSUME ViewTypeOK, LogInv, RepliesInv, [ViewNext]_viewVars
    PROVE  RepliesInv'
  <1>1. \A r \in Rooms : Range(log[r]) \subseteq Range(log'[r])
    <2>1. \A e \in Events : Ingest(e) => \A r \in Rooms : Range(log[r]) \subseteq Range(log'[r])
      BY IngestLog
    <2>. QED
      BY <2>1, ViewSteps DEF Still, Handled, Dropped, Sent, Broadcast
  <1>2. reply' # << >> => Range(reply'[1]) \subseteq Range(log'[asked'[1]])
    <2>1. reply # << >> => asked[1] \in Rooms
      BY TailIs DEF ViewTypeOK
    <2>2. CASE reply # << >> /\ reply' = reply /\ asked'[1] = asked[1]
      BY <1>1, <2>1, <2>2 DEF RepliesInv
    <2>3. CASE /\ ReadHistory /\ asked' = asked /\ asked[1] \in Rooms
               /\ reply' = <<Newest(log[asked[1]], HistoryLimit)>>
      <3>1. log[asked[1]] \in Seq(Events)
        BY <2>3 DEF ViewTypeOK
      <3>2. Range(reply'[1]) \subseteq Range(log[asked[1]])
        BY <2>3, <3>1, NewestIs, FrontViewAssumption
      <3>. QED
        BY <1>1, <2>3, <3>2
    <2>. QED
      BY <2>2, <2>3, RepliesStep
  <1> DEFINE Ok(w) == w.t = "history" => Range(w.events) \subseteq Range(log'[w.room])
  <1>3. \A i \in DOMAIN wire : Ok(wire[i])
    <2>1. \A i \in DOMAIN wire : wire[i] \in Wire
      BY DEF ViewTypeOK
    <2>2. \A i \in DOMAIN wire : wire[i].t = "history" => wire[i].room \in Rooms
      BY <2>1, WireFields
    <2>. QED
      BY <1>1, <2>2 DEF RepliesInv
  <1>4. ASSUME NEW w \in Wire, wire' = Append(wire, w), Ok(w)
        PROVE  \A i \in DOMAIN wire' : Ok(wire'[i])
    <2>1. \A i \in DOMAIN wire' : wire'[i] = w \/ \E j \in DOMAIN wire : wire'[i] = wire[j]
      BY <1>4, WireSent
    <2>. HIDE DEF Ok
    <2>. QED
      BY <1>3, <1>4, <2>1
  <1>5. \A i \in DOMAIN wire' : Ok(wire'[i])
    <2>1. CASE wire' = wire
      BY <1>3, <2>1
    <2>2. CASE Handled
      <3>1. \A i \in DOMAIN wire' : i + 1 \in DOMAIN wire /\ wire'[i] = wire[i + 1]
        BY <2>2, WireHandled
      <3>. HIDE DEF Ok
      <3>. QED
        BY <1>3, <3>1
    <2>3. CASE Dropped
      BY <2>3 DEF Dropped
    <2>4. CASE SendReady
      BY <1>4, <2>1, <2>4, WireMembers DEF SendReady, Enqueue
    <2>5. CASE AnswerRooms
      <3> DEFINE w == [t |-> "rooms", rooms |-> {r \in Rooms : log[r] # << >>}]
      <3>1. w \in Wire /\ (wire' = Append(wire, w) \/ wire' = wire) /\ w.t # "history"
        BY <2>5, WireMembers DEF AnswerRooms, Enqueue
      <3>. HIDE DEF w
      <3>. QED
        BY <1>4, <2>1, <3>1
    <2>6. CASE SendHistory
      <3> DEFINE w == [t |-> "history", room |-> Head(asked), events |-> reply[1]]
      <3>1. Head(asked) \in Rooms /\ reply[1] \in History /\ Head(asked) = asked[1] /\ reply # << >>
        BY <2>6, TailIs DEF SendHistory, ViewTypeOK
      <3>2. w \in Wire /\ (wire' = Append(wire, w) \/ wire' = wire) /\ log' = log
        BY <2>6, <3>1, WireMembers DEF SendHistory, Enqueue
      <3>3. w.room = asked[1] /\ w.events = reply[1]
        BY <3>1
      <3>. HIDE DEF w
      <3>. QED
        BY <1>4, <2>1, <3>1, <3>2, <3>3 DEF RepliesInv
    <2>7. CASE \E w \in Wire : w.t = "message" /\ wire' = Append(wire, w)
      BY <1>4, <2>7
    <2>8. Broadcast => wire' = wire \/ \E w \in Wire : w.t = "message" /\ wire' = Append(wire, w)
      BY BroadcastIs
    <2>9. \A e \in Events : Ingest(e) => wire' = wire
      BY DEF Ingest
    <2>10. \A e \in Events : IngestAgain(e) => \E w \in Wire : w.t = "message" /\ wire' = Append(wire, w)
      BY WireMembers DEF IngestAgain
    <2>. QED
      BY <2>1, <2>2, <2>3, <2>4, <2>5, <2>6, <2>7, <2>8, <2>9, <2>10, ViewSteps DEF Still
  <1>. QED
    BY <1>2, <1>5 DEF RepliesInv

\* An event whose broadcast is over stays so; what else becomes so.
LEMMA SpentStep ==
    ASSUME ViewTypeOK, LogInv, MessagesInv, OrderInv, [ViewNext]_viewVars
    PROVE  /\ Spent \subseteq Spent'
           /\ Handled => \A e \in Events : e \in Spent' <=> e \in Spent \/ Fresh(wire[1], e)
           /\ \/ HandleReady \/ HandleRooms \/ HandleHistory \/ HandleMessage
              \/ link' = "down" \/ Spent' = Spent
              \/ /\ Broadcast /\ RoomOf[ingesting] \in gaps'
                 /\ Spent' = Spent \union {ingesting}
  <1>1. Still => Spent' = Spent
    BY DEF Still, Spent, Stored
  <1>2. ASSUME Handled
        PROVE  /\ Spent \subseteq Spent'
               /\ \A e \in Events : e \in Spent' <=> e \in Spent \/ Fresh(wire[1], e)
    <2>1. /\ 1 \in DOMAIN wire
          /\ \A i \in DOMAIN wire' : i + 1 \in DOMAIN wire /\ wire'[i] = wire[i + 1] /\ 1 < i + 1
          /\ \A i \in DOMAIN wire : i = 1 \/ (i - 1 \in DOMAIN wire' /\ wire'[i - 1] = wire[i])
      <3>1. \A i \in DOMAIN wire' : 1 < i + 1
        BY <1>2, TailIs DEF Handled, ViewTypeOK
      <3>. QED
        BY <1>2, <3>1, WireHandled
    <2>2. Stored' = Stored /\ ingesting' = ingesting
      BY <1>2 DEF Handled, Stored
    <2>3. ASSUME NEW e \in Events, Fresh(wire[1], e)
          PROVE  e \in Spent'
      <3>1. e \in Stored /\ ingesting # e
        BY <2>1, <2>3 DEF MessagesInv
      <3>2. PICK a \in DOMAIN log[RoomOf[e]] : log[RoomOf[e]][a] = e
        BY <3>1, LogStored
      <3>3. RoomOf[e] \in Rooms /\ a \in Nat
        BY <3>1, <3>2, LogStored
      <3>4. ASSUME NEW j \in DOMAIN wire, 1 < j
            PROVE  ~Fresh(wire[j], e)
        BY <2>1, <2>3, <3>2, <3>3, <3>4 DEF OrderInv
      <3>. QED
        BY <2>1, <2>2, <3>1, <3>4 DEF Spent
    <2>4. ASSUME NEW e \in Events, ~Fresh(wire[1], e)
          PROVE  e \in Spent' <=> e \in Spent
      BY <2>1, <2>2, <2>4 DEF Spent
    <2>5. ASSUME NEW e \in Events, e \in Spent
          PROVE  ~Fresh(wire[1], e)
      BY <2>1, <2>5 DEF Spent
    <2>6. Spent \subseteq Events
      BY DEF Spent, Stored
    <2>. QED
      BY <1>2, <2>3, <2>4, <2>5, <2>6
  <1>3. CASE Dropped /\ (Stop \/ Lose)
    <2>1. Stored' = Stored /\ ingesting' = ingesting /\ wire' = << >> /\ link' = "down"
      BY <1>3 DEF Dropped, Stop, Lose, Stored
    <2>2. Spent \subseteq Spent'
      BY <2>1 DEF Spent
    <2>. QED
      BY <1>2, <2>1, <2>2
  <1>4. ASSUME NEW w \in Wire, Sent(w), \A e \in Events : ~Fresh(w, e)
        PROVE  Spent' = Spent
    <2>1. /\ \A i \in DOMAIN wire : i \in DOMAIN wire' /\ wire'[i] = wire[i]
          /\ \A i \in DOMAIN wire' : (i \in DOMAIN wire /\ wire'[i] = wire[i]) \/ wire'[i] = w
      BY <1>4, WireSent DEF Sent
    <2>2. Stored' = Stored /\ ingesting' = ingesting /\ Stored \subseteq Events
      BY <1>4 DEF Sent, Stored
    <2>. QED
      BY <1>4, <2>1, <2>2 DEF Spent
  <1>5. CASE Broadcast
    <2> DEFINE w == [t |-> "message", event |-> ingesting, again |-> FALSE]
    <2>1. /\ ingesting \in Events /\ ingesting' = None /\ Stored' = Stored /\ w \in Wire
          /\ \A e \in Events : Fresh(w, e) <=> e = ingesting
          /\ \A e \in Events : e # None
          /\ Stored \subseteq Events /\ link' = link
      BY <1>5, BroadcastIs, NewMessages, FrontViewAssumption DEF Stored
    <2>2. CASE wire' = wire /\ link = "down"
      <3>1. Spent \subseteq Spent'
        BY <2>1, <2>2 DEF Spent
      <3>. QED
        BY <1>2, <2>1, <2>2, <3>1
    <2>4. CASE wire' = wire /\ RoomOf[ingesting] \in gaps'
      <3>1. ingesting \in Stored
        <4>1. RoomOf[ingesting] \in Rooms /\ log[RoomOf[ingesting]] \in Seq(Events) /\ ingesting # None
          BY <2>1, FrontViewAssumption DEF ViewTypeOK
        <4>2. Len(log[RoomOf[ingesting]]) \in DOMAIN log[RoomOf[ingesting]]
          BY <4>1 DEF LogInv
        <4>. QED
          BY <2>1, <4>1, <4>2 DEF LogInv, Stored, Range
      <3>2. \A i \in DOMAIN wire : ~Fresh(wire[i], ingesting)
        BY <2>1 DEF MessagesInv
      <3>3. Spent' = Spent \union {ingesting}
        BY <2>1, <2>4, <3>1, <3>2 DEF Spent
      <3>. QED
        BY <1>2, <1>5, <2>4, <3>3
    <2>3. CASE wire' = Append(wire, w)
      <3>. HIDE DEF w
      <3>1. /\ \A i \in DOMAIN wire : i \in DOMAIN wire' /\ wire'[i] = wire[i]
            /\ \A i \in DOMAIN wire' : (i \in DOMAIN wire /\ wire'[i] = wire[i]) \/ wire'[i] = w
            /\ \E i \in DOMAIN wire' : wire'[i] = w
        BY <2>1, <2>3, WireSent
      <3>2. Spent' = Spent
        BY <2>1, <3>1 DEF Spent
      <3>. QED
        BY <1>2, <3>2
    <2>. QED
      BY <1>5, <2>2, <2>3, <2>4, BroadcastIs
  <1>6. ASSUME NEW e \in Events, Ingest(e)
        PROVE  Spent' = Spent
    <2>1. wire' = wire /\ ingesting' = e /\ ingesting = None /\ e \notin Stored /\ Stored' = Stored \union {e}
      BY <1>6, IngestLog DEF Ingest
    <2>2. \A f \in Stored : f # None /\ f # e
      BY <2>1, FrontViewAssumption DEF Stored
    <2>. QED
      BY <2>1, <2>2 DEF Spent
  <1>7. SendReady => Spent' = Spent
    BY <1>1, <1>4, NewMessages, WireMembers DEF SendReady, Enqueue, Sent, Still
  <1>8. AnswerRooms => Spent' = Spent
    <2> DEFINE w == [t |-> "rooms", rooms |-> {r \in Rooms : log[r] # << >>}]
    <2>1. w \in Wire /\ \A e \in Events : ~Fresh(w, e)
      BY NewMessages, WireMembers
    <2>2. AnswerRooms => Sent(w) \/ Still
      BY DEF AnswerRooms, Enqueue, Sent, Still
    <2>. QED
      BY <1>1, <1>4, <2>1, <2>2
  <1>9. SendHistory => Spent' = Spent
    <2> DEFINE w == [t |-> "history", room |-> Head(asked), events |-> reply[1]]
    <2>1. SendHistory => w \in Wire
      <3>1. SendHistory => Head(asked) \in Rooms /\ reply[1] \in History
        BY TailIs DEF SendHistory, ViewTypeOK
      <3>. QED
        BY <3>1, WireMembers
    <2>2. SendHistory => Sent(w) \/ Still
      BY DEF SendHistory, Enqueue, Sent, Still
    <2>3. \A e \in Events : ~Fresh(w, e)
      BY NewMessages
    <2>. QED
      BY <1>1, <1>4, <2>1, <2>2, <2>3
  <1>10. ASSUME NEW e \in Events, IngestAgain(e)
         PROVE  Spent' = Spent
    <2> DEFINE w == [t |-> "message", event |-> e, again |-> TRUE]
    <2>1. w \in Wire /\ Sent(w) /\ \A f \in Events : ~Fresh(w, f)
      BY <1>10, NewMessages, WireMembers DEF IngestAgain, Sent
    <2>. QED
      BY <1>4, <2>1
  <1>. QED
    BY <1>1, <1>2, <1>3, <1>5, <1>6, <1>7, <1>8, <1>9, <1>10, ViewSteps

-----------------------------------------------------------------------------
(* What the view holds, recognises and has shown                           *)

\* A message that is not recognised.
LEMMA MessageView ==
    ASSUME ViewTypeOK, ViewInv, NEW e \in Stored, OnMessage(e), e \notin seen
    PROVE  LET r == RoomOf[e] IN
           /\ r \in Rooms
           /\ messages[r] \in Seq(Events) /\ Append(messages[r], e) \in Seq(Events)
           /\ messages'[r] = Newest(Append(messages[r], e), HistoryLimit)
           /\ \A q \in Rooms : q # r => messages'[q] = messages[q]
           /\ Range(messages'[r]) \subseteq Range(messages[r]) \union {e}
           /\ Held(messages') \subseteq Held(messages) \union {e}
           /\ Held(messages') \subseteq seen' /\ seen' \subseteq seen \union {e}
           /\ glanced' = (glanced \union ({e} \intersect OwnEvents)) \intersect seen'
  <1> DEFINE r == RoomOf[e]
             h == Newest(Append(messages[r], e), HistoryLimit)
  <1>1. r \in Rooms /\ e \in Events
    BY FrontViewAssumption DEF Stored
  <1>2. messages[r] \in Seq(Events) /\ messages \in [Rooms -> History]
    BY <1>1 DEF ViewTypeOK, History
  <1>3. Append(messages[r], e) \in Seq(Events) /\ Range(Append(messages[r], e)) = Range(messages[r]) \union {e}
    BY <1>1, <1>2, AppendIs, AppendRange
  <1>4. Range(h) \subseteq Range(messages[r]) \union {e}
    BY <1>3, NewestIs, FrontViewAssumption
  <1>5. /\ messages' = [messages EXCEPT ![r] = h]
        /\ Prune(seen \union {e}, glanced \union ({e} \intersect OwnEvents), idCount + 1, messages')
    BY DEF OnMessage
  <1>. HIDE DEF h, r
  <1>6. messages'[r] = h /\ \A q \in Rooms : q # r => messages'[q] = messages[q]
    BY <1>1, <1>2, <1>5
  <1>7. \A q \in Rooms : Range(messages'[q]) \subseteq Range(messages[q]) \union {e}
    BY <1>4, <1>6
  <1>8. Held(messages') \subseteq Held(messages) \union {e}
    BY <1>7 DEF Held
  <1>9. Held(messages) \subseteq seen /\ glanced \subseteq seen
    BY DEF ViewInv, Held
  <1>10. /\ Held(messages') \subseteq seen' /\ seen' \subseteq seen \union {e}
         /\ glanced' = (glanced \union ({e} \intersect OwnEvents)) \intersect seen'
    BY <1>5, <1>8, <1>9 DEF Prune
  <1>. QED
    BY <1>1, <1>2, <1>3, <1>4, <1>6, <1>8, <1>10 DEF h, r

LEMMA HistoryView ==
    ASSUME ViewTypeOK, ViewInv, NEW r \in Rooms, NEW h \in History, OnHistory(r, h)
    PROVE  /\ messages'[r] = h
           /\ \A q \in Rooms : q # r => messages'[q] = messages[q]
           /\ Held(messages') \subseteq Held(messages) \union Range(h)
           /\ Held(messages') \subseteq seen' /\ seen' \subseteq seen \union Range(h)
           /\ glanced' = (glanced \union Range(h)) \intersect seen'
  <1>1. /\ messages' = [messages EXCEPT ![r] = h]
        /\ Prune(seen \union Range(h), glanced \union Range(h), idCount + Len(h), messages')
    BY DEF OnHistory
  <1>2. messages'[r] = h /\ \A q \in Rooms : q # r => messages'[q] = messages[q]
    BY <1>1 DEF ViewTypeOK
  <1>3. Held(messages') \subseteq Held(messages) \union Range(h)
    <2>1. \A q \in Rooms : Range(messages'[q]) \subseteq Range(messages[q]) \union Range(h)
      BY <1>2
    <2>. QED
      BY <2>1 DEF Held
  <1>4. Held(messages) \subseteq seen /\ glanced \subseteq seen
    BY DEF ViewInv, Held
  <1>. QED
    BY <1>1, <1>2, <1>3, <1>4 DEF Prune

\* The steps by what they do to the view.
LEMMA ViewChange ==
    ASSUME ViewTypeOK, LogInv, WireInv, ViewInv, [ViewNext]_viewVars
    PROVE  \/ UNCHANGED <<messages, seen, glanced, shows>>
           \/ (HandleReady \/ Stop) /\ Reset /\ shows' = shows
           \/ \E e \in NextUnglanced :
                  /\ glanced' = glanced \union {e} /\ e \in Held(messages)
                  /\ shows' = [shows EXCEPT ![e] = @ + 1]
                  /\ UNCHANGED <<messages, seen>>
           \/ \E r \in Rooms : /\ glanced' = glanced \union Range(messages[r])
                               /\ UNCHANGED <<messages, seen, shows>>
           \/ \E r \in Rooms, h \in History :
                  /\ HandleHistory /\ OnHistory(r, h) /\ shows' = shows
                  /\ wire[1].t = "history" /\ wire[1].room = r /\ wire[1].events = h
                  /\ Range(h) \subseteq Range(log[r])
           \/ \E e \in Stored :
                  /\ HandleMessage /\ OnMessage(e) /\ e \notin seen /\ shows' = shows
                  /\ \/ Fresh(wire[1], e) /\ reborn' = reborn
                     \/ Again(wire[1], e) /\ reborn' = reborn \union {e}
  <1>1. GlanceNews => \E e \in NextUnglanced :
                  /\ glanced' = glanced \union {e} /\ e \in Held(messages)
                  /\ shows' = [shows EXCEPT ![e] = @ + 1]
                  /\ UNCHANGED <<messages, seen>>
    <2>1. \A e \in NextUnglanced : e \in Held(messages)
      <3>. SUFFICES ASSUME NEW r \in Rooms, messages[r] # << >>
                    PROVE  Last(messages[r]) \in Range(messages[r])
        BY DEF NextUnglanced, Held
      <3>1. messages[r] \in Seq(Events)
        BY DEF ViewTypeOK, History
      <3>2. Len(messages[r]) \in DOMAIN messages[r]
        BY <3>1
      <3>. QED
        BY <3>2 DEF Last, Range
    <2>. QED
      BY <2>1 DEF GlanceNews
  <1>2. Look => \E r \in Rooms : /\ glanced' = glanced \union Range(messages[r])
                                 /\ UNCHANGED <<messages, seen, shows>>
    <2>1. Look => Head(order) \in Rooms
      BY TailIs DEF Look, ViewTypeOK
    <2>. QED
      BY <2>1 DEF Look, history
  <1>3. ASSUME HandleHistory
        PROVE  \E r \in Rooms, h \in History :
                  /\ HandleHistory /\ OnHistory(r, h) /\ shows' = shows
                  /\ wire[1].t = "history" /\ wire[1].room = r /\ wire[1].events = h
                  /\ Range(h) \subseteq Range(log[r])
    <2>1. Handled
      BY <1>3 DEF HandleHistory, Handled, Arrives
    <2>2. wire[1] \in Wire /\ Head(wire) = wire[1] /\ 1 \in DOMAIN wire
      BY <2>1, WireHandled
    <2>3. wire[1].t = "history" /\ OnHistory(wire[1].room, wire[1].events) /\ shows' = shows
      BY <1>3, <2>2 DEF HandleHistory, Arrives, history
    <2>4. wire[1].room \in Rooms /\ wire[1].events \in History
      BY <2>2, <2>3, WireFields
    <2>5. Range(wire[1].events) \subseteq Range(log[wire[1].room])
      BY <2>2, <2>3 DEF WireInv, RepliesInv
    <2>. QED
      BY <1>3, <2>3, <2>4, <2>5
  <1>4. ASSUME HandleMessage
        PROVE  \/ UNCHANGED <<messages, seen, glanced, shows>>
               \/ \E e \in Stored :
                  /\ HandleMessage /\ OnMessage(e) /\ e \notin seen /\ shows' = shows
                  /\ \/ Fresh(wire[1], e) /\ reborn' = reborn
                     \/ Again(wire[1], e) /\ reborn' = reborn \union {e}
    <2>1. Handled
      BY <1>4 DEF HandleMessage, Handled, Arrives
    <2>2. wire[1] \in Wire /\ Head(wire) = wire[1] /\ 1 \in DOMAIN wire
      BY <2>1, WireHandled
    <2> DEFINE e == wire[1].event
    <2>3. /\ wire[1].t = "message" /\ OnMessage(e) /\ shows' = shows
          /\ reborn' = IF wire[1].again /\ e \notin seen THEN reborn \union {e} ELSE reborn
      BY <1>4, <2>2 DEF HandleMessage, Arrives
    <2>4. e \in Events /\ wire[1].again \in BOOLEAN
      BY <2>2, <2>3, WireFields
    <2>5. Fresh(wire[1], e) \/ Again(wire[1], e)
      BY <2>3, <2>4 DEF Fresh, Again
    <2>6. e \in Stored
      BY <2>2, <2>4, <2>5 DEF WireInv, MessagesInv
    <2>7. e \in seen => UNCHANGED <<messages, seen, glanced, shows>>
      BY <2>3 DEF OnMessage, view
    <2>8. e \notin seen => \/ Fresh(wire[1], e) /\ reborn' = reborn
                           \/ Again(wire[1], e) /\ reborn' = reborn \union {e}
      BY <2>3, <2>5 DEF Fresh, Again
    <2>. HIDE DEF e
    <2>. QED
      BY <1>4, <2>3, <2>6, <2>7, <2>8
  <1>5. HandleReady \/ Stop => Reset /\ shows' = shows
    BY DEF HandleReady, Stop, history
  <1>6. HandleRooms => UNCHANGED <<messages, seen, glanced, idCount, shows>>
    BY DEF HandleRooms, history
  <1>7. Lose \/ Greet \/ SendReady \/ Broadcast \/ AnswerRooms \/ ReadHistory \/ SendHistory
            \/ UNCHANGED viewVars
            \/ (\E e \in Events : Ingest(e) \/ IngestAgain(e))
          => UNCHANGED <<messages, seen, glanced, shows>>
    BY DEF Lose, Greet, SendReady, Broadcast, AnswerRooms, ReadHistory, SendHistory, Ingest,
           IngestAgain, viewVars, view, history
  <1>. QED
    BY <1>1, <1>2, <1>3, <1>4, <1>5, <1>6, <1>7 DEF ViewNext, Frontend, Daemon

LEMMA LogGrows ==
    ASSUME ViewTypeOK, LogInv, [ViewNext]_viewVars
    PROVE  /\ Stored \subseteq Stored'
           /\ \A r \in Rooms : Range(log[r]) \subseteq Range(log'[r])
           /\ log' = log \/ \E e \in Events : Ingest(e)
  <1>1. \A e \in Events : Ingest(e) => /\ Stored \subseteq Stored'
                                       /\ \A r \in Rooms : Range(log[r]) \subseteq Range(log'[r])
    BY IngestLog
  <1>2. log' = log => Stored \subseteq Stored'
    BY DEF Stored
  <1>3. log' = log \/ \E e \in Events : Ingest(e)
    BY ViewSteps DEF Still, Handled, Dropped, Sent, Broadcast
  <1>. QED
    BY <1>1, <1>2, <1>3

LEMMA ViewInvStep ==
    ASSUME ViewTypeOK, LogInv, WireInv, ViewInv, [ViewNext]_viewVars
    PROVE  ViewInv'
  <1>1. Stored \subseteq Stored' /\ \A r \in Rooms : Range(log[r]) \subseteq Range(log'[r])
    BY LogGrows
  <1>2. Held(messages) \subseteq seen /\ \A r \in Rooms : Range(messages[r]) \subseteq Held(messages)
    BY DEF ViewInv, Held
  <1>3. CASE UNCHANGED <<messages, seen, glanced, shows>>
    BY <1>1, <1>3 DEF ViewInv
  <1>4. CASE Reset
    <2>1. \A r \in Rooms : messages'[r] = << >>
      BY <1>4 DEF Reset
    <2>2. Range(<< >>) = {}
      BY DEF Range
    <2>. QED
      BY <1>4, <2>1, <2>2 DEF Reset, ViewInv
  <1>5. ASSUME NEW S, S \subseteq Held(messages), glanced' = glanced \union S,
               UNCHANGED <<messages, seen>>
        PROVE  ViewInv'
    BY <1>1, <1>2, <1>5 DEF ViewInv
  <1>6. ASSUME NEW r \in Rooms, NEW h \in History, OnHistory(r, h), Range(h) \subseteq Range(log[r])
        PROVE  ViewInv'
    <2>1. /\ messages'[r] = h /\ \A q \in Rooms : q # r => messages'[q] = messages[q]
          /\ Held(messages') \subseteq seen' /\ seen' \subseteq seen \union Range(h)
          /\ glanced' \subseteq seen'
      BY <1>6, HistoryView
    <2>2. \A q \in Rooms : Range(messages'[q]) \subseteq Range(log'[q])
      BY <1>1, <1>6, <2>1 DEF ViewInv
    <2>3. \A q \in Rooms : Range(messages'[q]) \subseteq seen'
      BY <2>1 DEF Held
    <2>4. Range(h) \subseteq Stored
      BY <1>6, LogStored
    <2>. QED
      BY <1>1, <2>1, <2>2, <2>3, <2>4 DEF ViewInv
  <1>7. ASSUME NEW e \in Stored, OnMessage(e), e \notin seen
        PROVE  ViewInv'
    <2>1. /\ \A q \in Rooms : q # RoomOf[e] => messages'[q] = messages[q]
          /\ Range(messages'[RoomOf[e]]) \subseteq Range(messages[RoomOf[e]]) \union {e}
          /\ Held(messages') \subseteq seen' /\ seen' \subseteq seen \union {e}
          /\ glanced' \subseteq seen'
      BY <1>7, MessageView
    <2>2. e \in Range(log[RoomOf[e]])
      BY DEF Stored
    <2>3. \A q \in Rooms : Range(messages'[q]) \subseteq Range(log'[q])
      BY <1>1, <2>1, <2>2 DEF ViewInv
    <2>4. \A q \in Rooms : Range(messages'[q]) \subseteq seen'
      BY <2>1 DEF Held
    <2>. QED
      BY <1>1, <2>1, <2>3, <2>4 DEF ViewInv
  <1>8. ASSUME NEW r \in Rooms, glanced' = glanced \union Range(messages[r]),
               UNCHANGED <<messages, seen>>
        PROVE  ViewInv'
    BY <1>2, <1>5, <1>8
  <1>9. ASSUME NEW e, e \in Held(messages), glanced' = glanced \union {e},
               UNCHANGED <<messages, seen>>
        PROVE  ViewInv'
    BY <1>5, <1>9
  <1>. HIDE DEF ViewInv
  <1>. QED
    BY <1>3, <1>4, <1>6, <1>7, <1>8, <1>9, ViewChange

LEMMA GlanceInvStep ==
    ASSUME ViewTypeOK, LogInv, WireInv, ViewInv, GlanceInv, [ViewNext]_viewVars
    PROVE  GlanceInv'
  <1>1. Spent \subseteq Spent'
    BY SpentStep DEF WireInv
  <1>2. reborn \subseteq reborn'
    <2>1. HandleMessage => reborn \subseteq reborn'
      BY DEF HandleMessage
    <2>. QED
      BY <2>1 DEF ViewNext, Frontend, Daemon, GlanceNews, Look, Stop, Lose, HandleReady,
                  HandleRooms, HandleHistory, Greet, SendReady, Broadcast, AnswerRooms,
                  ReadHistory, SendHistory, Ingest, IngestAgain, viewVars, history
  <1>3. Held(messages) \subseteq seen
    BY DEF ViewInv, Held
  <1>. SUFFICES ASSUME NEW e \in Events, e \notin reborn'
                PROVE  /\ shows'[e] <= 1
                       /\ shows'[e] = 1 => e \in glanced' \/ e \notin Held(messages')
                       /\ shows'[e] = 1 \/ e \in Held(messages') \ glanced' => e \in Spent'
    BY DEF GlanceInv
  <1>4. /\ shows[e] <= 1 /\ shows[e] \in Nat
        /\ shows[e] = 1 => e \in glanced \/ e \notin Held(messages)
        /\ shows[e] = 1 \/ e \in Held(messages) \ glanced => e \in Spent
    BY <1>2 DEF GlanceInv, ViewTypeOK
  <1>5. CASE UNCHANGED <<messages, seen, glanced, shows>>
    BY <1>1, <1>4, <1>5
  <1>6. CASE Reset /\ shows' = shows
    <2>1. Held(messages') = {}
      <3>1. \A r \in Rooms : messages'[r] = << >>
        BY <1>6 DEF Reset
      <3>. QED
        BY <3>1 DEF Held, Range
    <2>. QED
      BY <1>1, <1>4, <1>6, <2>1
  <1>7. ASSUME NEW f \in NextUnglanced, glanced' = glanced \union {f}, f \in Held(messages),
               shows' = [shows EXCEPT ![f] = @ + 1], UNCHANGED <<messages, seen>>
        PROVE  /\ shows'[e] <= 1
               /\ shows'[e] = 1 => e \in glanced' \/ e \notin Held(messages')
               /\ shows'[e] = 1 \/ e \in Held(messages') \ glanced' => e \in Spent'
    <2>1. f \notin glanced
      BY DEF NextUnglanced
    <2>2. CASE f = e
      <3>1. shows'[e] = shows[e] + 1
        BY <1>7, <2>2 DEF ViewTypeOK
      <3>2. shows[e] # 1 /\ e \in Spent
        BY <1>4, <1>7, <2>1, <2>2
      <3>. QED
        BY <1>1, <1>4, <1>7, <2>2, <3>1, <3>2
    <2>3. CASE f # e
      <3>1. shows'[e] = shows[e]
        BY <1>7, <2>3 DEF ViewTypeOK
      <3>. QED
        BY <1>1, <1>4, <1>7, <3>1
    <2>. QED
      BY <2>2, <2>3
  <1>8. ASSUME NEW r \in Rooms, glanced' = glanced \union Range(messages[r]),
               UNCHANGED <<messages, seen, shows>>
        PROVE  /\ shows'[e] <= 1
               /\ shows'[e] = 1 => e \in glanced' \/ e \notin Held(messages')
               /\ shows'[e] = 1 \/ e \in Held(messages') \ glanced' => e \in Spent'
    BY <1>1, <1>4, <1>8
  <1>9. ASSUME NEW r \in Rooms, NEW h \in History, OnHistory(r, h), shows' = shows
        PROVE  /\ shows'[e] <= 1
               /\ shows'[e] = 1 => e \in glanced' \/ e \notin Held(messages')
               /\ shows'[e] = 1 \/ e \in Held(messages') \ glanced' => e \in Spent'
    <2>1. /\ Held(messages') \subseteq Held(messages) \union Range(h)
          /\ Held(messages') \subseteq seen'
          /\ glanced' = (glanced \union Range(h)) \intersect seen'
      BY <1>9, HistoryView
    <2>. QED
      BY <1>1, <1>4, <1>9, <2>1
  <1>10. ASSUME NEW f \in Stored, HandleMessage, OnMessage(f), f \notin seen, shows' = shows,
                Fresh(wire[1], f) \/ reborn' = reborn \union {f}
         PROVE  /\ shows'[e] <= 1
                /\ shows'[e] = 1 => e \in glanced' \/ e \notin Held(messages')
                /\ shows'[e] = 1 \/ e \in Held(messages') \ glanced' => e \in Spent'
    <2>1. /\ Held(messages') \subseteq Held(messages) \union {f}
          /\ Held(messages') \subseteq seen'
          /\ glanced' = (glanced \union ({f} \intersect OwnEvents)) \intersect seen'
      BY <1>10, MessageView
    <2>2. CASE f # e
      BY <1>1, <1>4, <1>10, <2>1, <2>2
    <2>3. CASE f = e
      <3>1. Fresh(wire[1], e)
        BY <1>10, <2>3
      <3>2. Handled
        BY <1>10 DEF HandleMessage, Handled, Arrives
      <3>3. e \in Spent'
        BY <3>1, <3>2, SpentStep DEF WireInv
      <3>4. e \notin Spent
        BY <3>1, <3>2, WireHandled DEF Spent
      <3>. QED
        BY <1>4, <1>10, <3>3, <3>4
    <2>. QED
      BY <2>2, <2>3
  <1>. QED
    BY <1>5, <1>6, <1>7, <1>8, <1>9, <1>10, ViewChange

-----------------------------------------------------------------------------
(* Requests and their answers                                              *)

LEMMA RequestInvStep ==
    ASSUME ViewTypeOK, RequestInv, [ViewNext]_viewVars
    PROVE  RequestInv'
  <1>0. /\ wire \in Seq(Wire) /\ asked \in Seq(Rooms \union {None})
        /\ \A r \in Rooms : r # None
    BY FrontViewAssumption DEF ViewTypeOK
  <1>1. CASE asked' = asked /\ wire' = wire /\ link' = link
    BY <1>1 DEF RequestInv, Live
  <1>2. CASE link' = "down" /\ wire' = << >> /\ asked' = << >>
    BY <1>2 DEF RequestInv, Live
  <1>3. ASSUME NEW w \in Wire, w.t = "message", wire' = Append(wire, w), asked' = asked,
               link' = link, link # "down"
        PROVE  RequestInv'
    <2>1. \A i \in DOMAIN wire' : (i \in DOMAIN wire /\ wire'[i] = wire[i]) \/ wire'[i].t = "message"
      BY <1>3, WireSent
    <2>2. \A i \in DOMAIN wire : i \in DOMAIN wire' /\ wire'[i] = wire[i]
      BY <1>3, WireSent
    <2>3. Live' <=> Live
      BY <1>3, <2>1, <2>2 DEF Live
    <2>. QED
      BY <1>3, <2>1, <2>2, <2>3 DEF RequestInv
  <1>4. CASE Handled /\ asked' = asked /\ link' = link /\ wire[1].t # "ready"
    <2>1. /\ 1 \in DOMAIN wire
          /\ \A i \in DOMAIN wire' : i \in Nat /\ i + 1 \in DOMAIN wire /\ wire'[i] = wire[i + 1]
          /\ \A i \in DOMAIN wire : i = 1 \/ (i - 1 \in DOMAIN wire' /\ wire'[i - 1] = wire[i])
      BY <1>4, WireHandled
    <2>2. Live' <=> Live
      BY <1>4, <2>1 DEF Live
    <2>3. \A i, j \in DOMAIN wire' : i + 1 = j + 1 => i = j
      BY <2>1
    <2>4. wire # << >>
      BY <1>4 DEF Handled
    <2>5. \A i, j \in DOMAIN wire' : wire'[i].t = "ready" /\ wire'[j].t = "ready" => i = j
      BY <2>1, <2>3 DEF RequestInv
    <2>6. ~Live' => asked' = << >> /\ \A i \in DOMAIN wire' : wire'[i].t \notin {"rooms", "history"}
      BY <1>4, <2>1, <2>2 DEF RequestInv
    <2>7. \A i \in DOMAIN asked' : asked'[i] = None =>
              /\ Len(asked') = 1
              /\ \A j \in DOMAIN wire' : wire'[j].t \notin {"rooms", "history"}
      BY <1>4, <2>1 DEF RequestInv
    <2>8. \A i \in DOMAIN wire' : wire'[i].t = "rooms" =>
              /\ asked' = << >>
              /\ \A j \in DOMAIN wire' : wire'[j].t \in {"history", "rooms"} => i = j
      BY <1>4, <2>1, <2>3 DEF RequestInv
    <2>9. \A i, j \in DOMAIN wire' :
          wire'[i].t = "history" /\ wire'[j].t = "history" /\ wire'[i].room = wire'[j].room => i = j
      BY <2>1, <2>3 DEF RequestInv
    <2>10. \A i \in DOMAIN wire', j \in DOMAIN asked' : wire'[i].t = "history" => wire'[i].room # asked'[j]
      BY <1>4, <2>1 DEF RequestInv
    <2>11. /\ link' # "down"
           /\ link' = "hello" => \A i \in DOMAIN wire' : wire'[i].t # "ready"
      BY <1>4, <2>1, <2>4 DEF RequestInv
    <2>12. \A i, j \in DOMAIN asked' : asked'[i] = asked'[j] => i = j
      BY <1>4 DEF RequestInv
    <2>. QED
      BY <2>5, <2>6, <2>7, <2>8, <2>9, <2>10, <2>11, <2>12 DEF RequestInv
  <1>5. CASE Greet
    <2>1. link = "down" /\ link' = "hello" /\ asked' = asked /\ wire' = wire
      BY <1>5 DEF Greet
    <2>. QED
      BY <2>1 DEF RequestInv, Live
  <1>6. CASE SendReady
    <2>1. /\ link = "hello" /\ link' = "ready" /\ asked' = asked
          /\ wire' = Append(wire, [t |-> "ready"]) \/ wire' = wire
      BY <1>6 DEF SendReady, Enqueue
    <2>2. \/ wire' = wire
          \/ \A i \in DOMAIN wire' : (i \in DOMAIN wire /\ wire'[i] = wire[i]) \/
                                     (i = Len(wire) + 1 /\ wire'[i].t = "ready")
      BY <2>1, WireSent, WireMembers
    <2>3. asked = << >> /\ \A i \in DOMAIN wire : wire[i].t \notin {"ready", "rooms", "history"}
      BY <2>1 DEF RequestInv, Live
    <2>4. \A i \in DOMAIN wire' : wire'[i].t \notin {"rooms", "history"}
      BY <2>2, <2>3
    <2>5. \A i, j \in DOMAIN wire' : wire'[i].t = "ready" /\ wire'[j].t = "ready" => i = j
      BY <2>2, <2>3
    <2>. QED
      BY <2>1, <2>3, <2>4, <2>5 DEF RequestInv
  <1>7. CASE HandleReady
    <2>1. Handled /\ wire[1].t = "ready" /\ asked' = Append(asked, None) /\ link' = link
      <3>1. Handled
        BY <1>7 DEF HandleReady, Handled, Arrives
      <3>. QED
        BY <1>7, <3>1, WireHandled DEF HandleReady, Arrives
    <2>2. /\ 1 \in DOMAIN wire /\ wire # << >>
          /\ \A i \in DOMAIN wire' : i \in Nat /\ i + 1 \in DOMAIN wire /\ wire'[i] = wire[i + 1] /\ i + 1 # 1
      <3>1. \A i \in DOMAIN wire' : i + 1 # 1
        BY <2>1, TailIs DEF Handled, ViewTypeOK
      <3>. QED
        BY <2>1, <3>1, WireHandled DEF Handled
    <2>3. link = "ready" /\ ~Live
      BY <2>1, <2>2 DEF RequestInv, Live, ViewTypeOK
    <2>4. asked = << >> /\ \A i \in DOMAIN wire' : wire'[i].t \notin {"ready", "rooms", "history"}
      BY <2>1, <2>2, <2>3 DEF RequestInv
    <2>5. asked' = <<None>>
      BY <2>1, <2>4
    <2>6. Live'
      BY <2>1, <2>3, <2>4 DEF Live
    <2>. QED
      BY <2>1, <2>3, <2>4, <2>5, <2>6 DEF RequestInv
  <1>8. CASE HandleRooms
    <2>1. Handled /\ wire[1].t = "rooms" /\ link' = link
      <3>1. Handled
        BY <1>8 DEF HandleRooms, Handled, Arrives
      <3>. QED
        BY <1>8, <3>1, WireHandled DEF HandleRooms, Arrives
    <2>2. /\ 1 \in DOMAIN wire /\ wire # << >> /\ wire[1] \in Wire /\ Head(wire) = wire[1]
          /\ \A i \in DOMAIN wire' : i \in Nat /\ i + 1 \in DOMAIN wire /\ wire'[i] = wire[i + 1] /\ i + 1 # 1
          /\ \A i \in DOMAIN wire : i = 1 \/ (i - 1 \in DOMAIN wire' /\ wire'[i - 1] = wire[i])
      <3>1. \A i \in DOMAIN wire' : i + 1 # 1
        BY <2>1, TailIs DEF Handled, ViewTypeOK
      <3>. QED
        BY <2>1, <3>1, WireHandled DEF Handled
    <2>3. asked = << >> /\ \A i \in DOMAIN wire' : wire'[i].t \notin {"rooms", "history"}
      BY <2>1, <2>2 DEF RequestInv
    <2>4. Live
      BY <2>1, <2>2 DEF RequestInv
    <2>5. link = "ready" /\ Live' /\ \A i \in DOMAIN wire' : wire'[i].t # "ready"
      BY <2>1, <2>2, <2>4 DEF Live
    <2>6. PICK listing \in SetToSeqs(wire[1].rooms) : asked' = asked \o listing
      BY <1>8, <2>2 DEF HandleRooms
    <2>7. listing \in Seq(Rooms) /\ IsInjective(listing)
      <3>1. wire[1].rooms \subseteq Rooms
        BY <2>1, <2>2, WireFields
      <3>2. IsFiniteSet(wire[1].rooms)
        BY <3>1, FS_Subset, FrontViewAssumption
      <3>. QED
        BY <3>1, <3>2, ListingIs
    <2>8. asked' = listing
      BY <2>3, <2>6, <2>7
    <2>9. /\ \A i \in DOMAIN asked' : asked'[i] # None
          /\ \A i, j \in DOMAIN asked' : asked'[i] = asked'[j] => i = j
      BY <1>0, <2>7, <2>8 DEF IsInjective
    <2>. QED
      BY <2>1, <2>3, <2>5, <2>9 DEF RequestInv
  <1>9. CASE AnswerRooms
    <2> DEFINE w == [t |-> "rooms", rooms |-> {r \in Rooms : log[r] # << >>}]
    <2>1. /\ asked # << >> /\ Head(asked) = None /\ asked' = Tail(asked) /\ link' = link
          /\ wire' = Append(wire, w) \/ wire' = wire
          /\ w \in Wire /\ w.t = "rooms"
      BY <1>9, WireMembers DEF AnswerRooms, Enqueue
    <2>. HIDE DEF w
    <2>2. asked[1] = None /\ 1 \in DOMAIN asked
      BY <1>0, <2>1, TailIs
    <2>3. Len(asked) = 1 /\ \A i \in DOMAIN wire : wire[i].t \notin {"rooms", "history"}
      BY <2>2 DEF RequestInv
    <2>4. asked' = << >>
      <3>1. asked' \in Seq(Rooms \union {None}) /\ Len(asked') = 0
        BY <1>0, <2>1, <2>3, TailIs
      <3>. QED
        BY <3>1
    <2>5. Live
      BY <2>1 DEF RequestInv
    <2>6. \A i \in DOMAIN wire' : (i \in DOMAIN wire /\ wire'[i] = wire[i]) \/
                                  (i = Len(wire) + 1 /\ wire'[i].t = "rooms")
      <3>1. CASE wire' = wire
        BY <3>1
      <3>2. CASE wire' = Append(wire, w)
        BY <2>1, <3>2, WireSent
      <3>. QED
        BY <2>1, <3>1, <3>2
    <2>7. link = "ready" /\ Live' /\ \A i \in DOMAIN wire' : wire'[i].t # "ready"
      BY <2>1, <2>5, <2>6 DEF Live
    <2>8. /\ \A i \in DOMAIN wire' : wire'[i].t # "history"
          /\ \A i, j \in DOMAIN wire' : wire'[i].t = "rooms" /\ wire'[j].t = "rooms" => i = j
      BY <2>3, <2>6
    <2>. QED
      BY <2>1, <2>4, <2>7, <2>8 DEF RequestInv
  <1>10. CASE SendHistory
    <2> DEFINE r == Head(asked)
               w == [t |-> "history", room |-> r, events |-> reply[1]]
    <2>1. /\ reply # << >> /\ asked' = Tail(asked) /\ link' = link
          /\ wire' = Append(wire, w) \/ wire' = wire
      BY <1>10 DEF SendHistory, Enqueue
    <2>2. /\ asked # << >> /\ r \in Rooms /\ reply[1] \in History /\ r = asked[1]
          /\ \A i \in DOMAIN asked' : i + 1 \in DOMAIN asked /\ asked'[i] = asked[i + 1] /\ i + 1 # 1
          /\ 1 \in DOMAIN asked /\ \A i, j \in DOMAIN asked' : i + 1 = j + 1 => i = j
      <3>1. asked # << >> /\ r \in Rooms /\ reply[1] \in History /\ r = asked[1]
        BY <1>10, TailIs DEF SendHistory, ViewTypeOK
      <3>2. /\ \A i \in DOMAIN asked' : i + 1 \in DOMAIN asked /\ asked'[i] = asked[i + 1]
            /\ DOMAIN asked' = 1..(Len(asked) - 1) /\ DOMAIN asked = 1..Len(asked) /\ Len(asked) \in Nat \ {0}
        BY <1>0, <2>1, <3>1, TailIs
      <3>3. 1 \in DOMAIN asked /\ \A i, j \in DOMAIN asked' : i + 1 # 1 /\ (i + 1 = j + 1 => i = j)
        BY <3>2
      <3>. QED
        BY <3>1, <3>2, <3>3
    <2>3. w \in Wire /\ w.t = "history" /\ w.room = r
      BY <2>2, WireMembers
    <2>. HIDE DEF w, r
    <2>4. \A i \in DOMAIN asked : asked[i] # None
      <3>. SUFFICES ASSUME NEW i \in DOMAIN asked, asked[i] = None PROVE FALSE
        OBVIOUS
      <3>1. Len(asked) = 1
        BY DEF RequestInv
      <3>2. i = 1
        BY <1>0, <3>1
      <3>. QED
        BY <1>0, <2>2, <3>2
    <2>5. Live
      BY <2>2 DEF RequestInv
    <2>6. \A i \in DOMAIN wire' : \/ i \in DOMAIN wire /\ wire'[i] = wire[i]
                                  \/ i = Len(wire) + 1 /\ wire'[i] = w
      <3>1. CASE wire' = wire
        BY <3>1
      <3>2. CASE wire' = Append(wire, w)
        BY <2>1, <2>3, <3>2, WireSent
      <3>. QED
        BY <2>1, <3>1, <3>2
    <2>7. \A i \in DOMAIN wire : wire[i].t # "rooms" /\ (wire[i].t = "history" => wire[i].room # r)
      BY <2>2 DEF RequestInv
    <2>8. link = "ready" /\ Live' /\ \A i \in DOMAIN wire' : wire'[i].t # "ready"
      BY <2>1, <2>3, <2>5, <2>6 DEF Live
    <2>9. \A i, j \in DOMAIN wire' :
              wire'[i].t = "history" /\ wire'[j].t = "history" /\ wire'[i].room = wire'[j].room => i = j
      BY <2>3, <2>6, <2>7 DEF RequestInv
    <2>10. \A i \in DOMAIN wire', j \in DOMAIN asked' : wire'[i].t = "history" => wire'[i].room # asked'[j]
      BY <2>2, <2>3, <2>6 DEF RequestInv
    <2>11. \A i \in DOMAIN wire' : wire'[i].t # "rooms"
      BY <2>3, <2>6, <2>7
    <2>12. /\ \A i \in DOMAIN asked' : asked'[i] # None
           /\ \A i, j \in DOMAIN asked' : asked'[i] = asked'[j] => i = j
      BY <2>2, <2>4 DEF RequestInv
    <2>. QED
      BY <2>1, <2>8, <2>9, <2>10, <2>11, <2>12 DEF RequestInv
  <1>11. HandleHistory \/ HandleMessage => Handled /\ asked' = asked /\ link' = link /\ wire[1].t # "ready"
    <2>1. HandleHistory \/ HandleMessage =>
             /\ Handled /\ asked' = asked /\ link' = link /\ Head(wire).t \in {"history", "message"}
      BY DEF HandleHistory, HandleMessage, Handled, Arrives
    <2>. QED
      BY <2>1, WireHandled
  <1>12. Broadcast => \/ asked' = asked /\ wire' = wire /\ link' = link
                      \/ \E w \in Wire : /\ w.t = "message" /\ wire' = Append(wire, w)
                                         /\ asked' = asked /\ link' = link /\ link # "down"
    BY BroadcastIs
  <1>13. ASSUME NEW e \in Events, IngestAgain(e)
         PROVE  \E w \in Wire : /\ w.t = "message" /\ wire' = Append(wire, w)
                                /\ asked' = asked /\ link' = link /\ link # "down"
    BY <1>13, WireMembers DEF IngestAgain
  <1>14. GlanceNews \/ Look \/ ReadHistory \/ (\E e \in Events : Ingest(e)) \/ UNCHANGED viewVars
            => asked' = asked /\ wire' = wire /\ link' = link
    BY DEF GlanceNews, Look, ReadHistory, Ingest, viewVars, daemon, history
  <1>15. Stop \/ Lose => link' = "down" /\ wire' = << >> /\ asked' = << >>
    BY DEF Stop, Lose
  <1>. QED
    BY <1>1, <1>2, <1>3, <1>4, <1>5, <1>6, <1>7, <1>8, <1>9, <1>10, <1>11, <1>12, <1>13, <1>14, <1>15
       DEF ViewNext, Frontend, Daemon

-----------------------------------------------------------------------------
(* Histories                                                               *)

\* The first k elements of l, once more is appended.
LEMMA HistoryIs ==
    ASSUME NEW l \in Seq(Events), NEW s, NEW k, IsHistory(s, l, k)
    PROVE  /\ k \in Nat /\ k <= Len(l) /\ s \in Seq(Events) /\ DOMAIN s = 1..Len(s) /\ Len(s) \in Nat
           /\ Len(s) = (IF k < HistoryLimit THEN k ELSE HistoryLimit)
           /\ \A j \in DOMAIN s : k + j - Len(s) \in 1..k /\ s[j] = l[k + j - Len(s)]
           /\ \A e \in Range(s) : \E a \in DOMAIN l : a <= k /\ l[a] = e
           /\ \A e \in Events : IsHistory(s, Append(l, e), k)
  <1> DEFINE t == SubSeq(l, 1, k)
  <1>1. k \in 0..Len(l) /\ s = Newest(t, HistoryLimit) /\ Len(l) \in Nat /\ DOMAIN l = 1..Len(l)
    BY DEF IsHistory
  <1>2. t \in Seq(Events) /\ Len(t) = k /\ \A i \in 1..k : t[i] = l[i]
    BY <1>1
  <1>3. HistoryLimit \in Nat \ {0}
    BY FrontViewAssumption
  <1>. HIDE DEF t
  <1>4. /\ s \in Seq(Events) /\ Len(s) = (IF k > HistoryLimit THEN HistoryLimit ELSE k)
        /\ \A j \in DOMAIN s : k + j - Len(s) \in DOMAIN t /\ s[j] = t[k + j - Len(s)]
        /\ DOMAIN s = 1..Len(s) /\ DOMAIN t = 1..k
    BY <1>1, <1>2, <1>3, NewestIs
  <1>5. \A j \in DOMAIN s : k + j - Len(s) \in 1..k /\ s[j] = l[k + j - Len(s)]
    BY <1>2, <1>4
  <1>6. \A e \in Range(s) : \E a \in DOMAIN l : a <= k /\ l[a] = e
    <2>1. \A a \in 1..k : a \in DOMAIN l /\ a <= k
      BY <1>1
    <2>. QED
      BY <1>5, <2>1 DEF Range
  <1>7. ASSUME NEW e \in Events
        PROVE  IsHistory(s, Append(l, e), k)
    <2> DEFINE u == SubSeq(Append(l, e), 1, k)
    <2>1. Len(Append(l, e)) = Len(l) + 1 /\ Append(l, e) \in Seq(Events)
          /\ \A i \in 1..Len(l) : Append(l, e)[i] = l[i]
      BY AppendIs
    <2>2. u \in Seq(Events) /\ Len(u) = k /\ \A i \in 1..k : u[i] = Append(l, e)[i]
      BY <1>1, <2>1
    <2>. HIDE DEF u
    <2>3. \A i \in 1..k : u[i] = t[i]
      BY <1>1, <1>2, <2>1, <2>2
    <2>4. u = t
      BY <1>1, <1>2, <2>2, <2>3, SeqEqual
    <2>. QED
      <3>1. k \in 0..Len(Append(l, e))
        BY <1>1, <2>1
      <3>. QED
        BY <1>1, <2>4, <3>1 DEF IsHistory, u
  <1>8. k \in Nat /\ k <= Len(l) /\ Len(s) \in Nat /\ Len(s) = (IF k < HistoryLimit THEN k ELSE HistoryLimit)
    BY <1>1, <1>3, <1>4
  <1>. QED
    BY <1>4, <1>5, <1>6, <1>7, <1>8

\* All of a log is a history of it.
LEMMA HistoryOfAll ==
    ASSUME NEW l \in Seq(Events)
    PROVE  IsHistory(Newest(l, HistoryLimit), l, Len(l))
  <1>1. SubSeq(l, 1, Len(l)) = l /\ Len(l) \in 0..Len(l)
    OBVIOUS
  <1>. QED
    BY <1>1 DEF IsHistory

\* Where the event that is being ingested stands.
LEMMA IngestingIsLast ==
    ASSUME ViewTypeOK, LogInv, NEW r \in Rooms, NEW a \in DOMAIN log[r], ingesting = log[r][a]
    PROVE  a = Len(log[r]) /\ r = RoomOf[ingesting] /\ ingesting # None
  <1>1. log[r][a] \in Events /\ RoomOf[log[r][a]] = r /\ DOMAIN log[r] = 1..Len(log[r]) /\ Len(log[r]) \in Nat
    BY LogStored DEF LogInv
  <1>2. ingesting # None /\ log[r][Len(log[r])] = ingesting
    BY <1>1, FrontViewAssumption DEF LogInv
  <1>3. Len(log[r]) \in DOMAIN log[r]
    BY <1>1
  <1>. QED
    BY <1>1, <1>2, <1>3 DEF LogInv

LEMMA ReplyInvStep ==
    ASSUME ViewTypeOK, LogInv, RequestInv, ReplyInv, [ViewNext]_viewVars
    PROVE  ReplyInv'
  <1> DEFINE r == asked[1]
  <1>1. CASE reply' = << >>
    BY <1>1 DEF ReplyInv
  <1>2. CASE /\ ReadHistory /\ asked' = asked /\ r \in Rooms
             /\ reply' = <<Newest(log[r], HistoryLimit)>>
    <2>1. log[r] \in Seq(Events) /\ log' = log /\ reply'[1] = Newest(log[r], HistoryLimit)
      BY <1>2 DEF ReadHistory, ViewTypeOK
    <2>2. IsHistory(reply'[1], log[r], Len(log[r])) /\ Len(log[r]) \in Nat
      BY <2>1, HistoryOfAll
    <2>3. \A a \in DOMAIN log[r] : ~(a > Len(log[r]))
      BY <2>1
    <2>. QED
      BY <1>2, <2>1, <2>2, <2>3 DEF ReplyInv
  <1>3. ASSUME reply # << >>, reply' = reply, asked'[1] = r, r \notin gaps'
        PROVE  \E k \in Nat :
                  /\ IsHistory(reply[1], log'[r], k)
                  /\ \A a \in DOMAIN log'[r] : a > k => ingesting' = log'[r][a]
    <2>1. r \in Rooms /\ log[r] \in Seq(Events)
      <3>1. r \in Rooms
        BY <1>3, TailIs DEF ViewTypeOK
      <3>. QED
        BY <3>1 DEF ViewTypeOK
    <2>2. r \notin gaps
      <3>1. gaps \subseteq gaps' \/ reply' = << >>
        BY DEF ViewNext, Frontend, Daemon, GlanceNews, Look, Stop, Lose, HandleReady, HandleRooms,
               HandleHistory, HandleMessage, Greet, SendReady, Broadcast, AnswerRooms, ReadHistory,
               SendHistory, Ingest, IngestAgain, Enqueue, viewVars, history
      <3>. QED
        BY <1>3, <3>1
    <2>3. PICK k \in Nat : /\ IsHistory(reply[1], log[r], k)
                           /\ \A a \in DOMAIN log[r] : a > k => ingesting = log[r][a]
      BY <1>3, <2>2 DEF ReplyInv
    <2>. HIDE DEF r
    <2>4. CASE log' = log /\ ingesting' = ingesting
      BY <2>3, <2>4
    <2>5. CASE Broadcast
      <3>1. log' = log
        BY <2>5 DEF Broadcast
      <3>2. SUFFICES ASSUME NEW a \in DOMAIN log[r], a > k PROVE FALSE
        BY <2>3, <3>1
      <3>3. ingesting = log[r][a] /\ r = RoomOf[ingesting]
        BY <2>1, <2>3, <3>2, IngestingIsLast
      <3>4. ingesting \notin Range(reply[1])
        <4>. SUFFICES ASSUME ingesting \in Range(reply[1]) PROVE FALSE
          OBVIOUS
        <4>1. PICK b \in DOMAIN log[r] : b <= k /\ log[r][b] = ingesting
          BY <2>1, <2>3, HistoryIs
        <4>2. b = a
          <5>1. \A x, y \in DOMAIN log[r] : log[r][x] = log[r][y] => x = y
            BY <2>1 DEF LogInv
          <5>2. log[r][a] = log[r][b]
            BY <3>3, <4>1
          <5>. QED
            BY <5>1, <5>2
        <4>3. a \in Nat
          BY <2>1
        <4>. QED
          BY <3>2, <4>1, <4>2, <4>3
      <3>5. Head(asked) = r
        BY <1>3, TailIs DEF ViewTypeOK, r
      <3>6. link # "down"
        <4>1. asked # << >>
          BY <1>3 DEF ViewTypeOK
        <4>. QED
          BY <4>1 DEF RequestInv, Live
      <3>7. r \in gaps'
        <4>1. RoomOf[ingesting] \in Overtaken
          BY <1>3, <3>3, <3>4, <3>5 DEF Overtaken
        <4>2. Overtaken \subseteq gaps' \/ RoomOf[ingesting] \in gaps'
          BY <2>5, <3>6 DEF Broadcast
        <4>. QED
          BY <3>3, <4>1, <4>2
      <3>. QED
        BY <1>3, <3>7
    <2>6. ASSUME NEW e \in Events, Ingest(e)
          PROVE  \E n \in Nat : /\ IsHistory(reply[1], log'[r], n)
                                /\ \A a \in DOMAIN log'[r] : a > n => ingesting' = log'[r][a]
      <3>1. ingesting = None /\ ingesting' = e
        BY <2>6 DEF Ingest
      <3>2. \A a \in DOMAIN log[r] : ~(a > k)
        <4>1. \A a \in DOMAIN log[r] : log[r][a] # None
          BY <2>1, LogStored, FrontViewAssumption
        <4>. QED
          BY <2>3, <3>1, <4>1
      <3>3. IsHistory(reply[1], log'[r], k)
        <4>1. r = RoomOf[e] => log'[r] = Append(log[r], e)
          BY <2>6, IngestLog
        <4>2. r # RoomOf[e] => log'[r] = log[r]
          BY <2>1, <2>6, IngestLog
        <4>. QED
          BY <2>1, <2>3, <4>1, <4>2, HistoryIs
      <3>4. \A a \in DOMAIN log'[r] : a \in DOMAIN log[r] \/ log'[r][a] = e
        BY <2>1, <2>6, IngestLog
      <3>. QED
        BY <3>1, <3>2, <3>3, <3>4
    <2>. QED
      BY <2>4, <2>5, <2>6, ViewSteps DEF Still, Handled, Dropped, Sent
  <1>. QED
    BY <1>1, <1>2, <1>3, RepliesStep DEF ReplyInv

LEMMA HistoryInvStep ==
    ASSUME ViewTypeOK, LogInv, WireInv, RequestInv, ReplyInv, HistoryInv, [ViewNext]_viewVars
    PROVE  HistoryInv'
  <1>1. gaps \subseteq gaps' \/ wire' = << >>
    BY DEF ViewNext, Frontend, Daemon, GlanceNews, Look, Stop, Lose, HandleReady, HandleRooms,
           HandleHistory, HandleMessage, Greet, SendReady, Broadcast, AnswerRooms, ReadHistory,
           SendHistory, Ingest, IngestAgain, Enqueue, viewVars, history
  <1>. SUFFICES ASSUME NEW i \in DOMAIN wire', NEW r \in Rooms, r \notin gaps',
                       wire'[i].t = "history", wire'[i].room = r
                PROVE  \E k \in Nat : HistoryAt(i, r, k)'
    BY DEF HistoryInv
  <1>2. r \notin gaps /\ log[r] \in Seq(Events)
    BY <1>1 DEF ViewTypeOK
  <1>3. CASE Still
    <2>1. PICK k \in Nat : HistoryAt(i, r, k)
      BY <1>2, <1>3 DEF HistoryInv, Still
    <2>2. HistoryAt(i, r, k)'
      BY <1>3, <2>1 DEF HistoryAt, Still
    <2>. QED
      BY <2>2
  <1>4. CASE Handled
    <2>1. i + 1 \in DOMAIN wire /\ wire'[i] = wire[i + 1] /\ log' = log /\ ingesting' = ingesting
      BY <1>4, WireHandled DEF Handled
    <2>2. PICK k \in Nat : HistoryAt(i + 1, r, k)
      BY <1>2, <2>1 DEF HistoryInv
    <2>3. \A j \in DOMAIN wire' : i < j => j + 1 \in DOMAIN wire /\ wire'[j] = wire[j + 1] /\ i + 1 < j + 1
      BY <1>4, WireHandled
    <2>4. \A j \in DOMAIN wire : i + 1 < j => j - 1 \in DOMAIN wire' /\ wire'[j - 1] = wire[j] /\ i < j - 1
      BY <1>4, WireHandled
    <2>5. HistoryAt(i, r, k)'
      BY <2>1, <2>2, <2>3, <2>4 DEF HistoryAt
    <2>. QED
      BY <2>5
  <1>5. CASE Dropped
    BY <1>5 DEF Dropped
  \* Something that was not broadcast is sent.
  <1>6. ASSUME NEW w \in Wire, Sent(w), \A e \in Events : ~Fresh(w, e),
               i = Len(wire) + 1 =>
                  \E k \in Nat : /\ IsHistory(w.events, log[r], k)
                                 /\ \A a \in DOMAIN log[r] : a > k => ingesting = log[r][a]
        PROVE  \E k \in Nat : HistoryAt(i, r, k)'
    <2>1. wire' = Append(wire, w) /\ log' = log /\ ingesting' = ingesting
      BY <1>6 DEF Sent
    <2>2. /\ \A j \in DOMAIN wire : j \in Nat /\ j < Len(wire) + 1 /\ j \in DOMAIN wire' /\ wire'[j] = wire[j]
          /\ \A j \in DOMAIN wire' : j \in Nat /\ (j \in DOMAIN wire \/ j = Len(wire) + 1)
          /\ wire'[Len(wire) + 1] = w /\ Len(wire) \in Nat
      BY <2>1, WireSent
    <2>3. \A a \in DOMAIN log[r] : log[r][a] \in Events
      BY LogStored
    <2>4. CASE i \in DOMAIN wire
      <3>1. PICK k \in Nat : HistoryAt(i, r, k)
        BY <1>2, <2>2, <2>4 DEF HistoryInv
      <3>2. \A a \in DOMAIN log[r], j \in DOMAIN wire' : Fresh(wire'[j], log[r][a]) => j \in DOMAIN wire
        BY <1>6, <2>2, <2>3
      <3>3. HistoryAt(i, r, k)'
        BY <2>1, <2>2, <2>4, <3>1, <3>2 DEF HistoryAt
      <3>. QED
        BY <3>3
    <2>5. CASE i = Len(wire) + 1
      <3>1. PICK k \in Nat : /\ IsHistory(w.events, log[r], k)
                             /\ \A a \in DOMAIN log[r] : a > k => ingesting = log[r][a]
        BY <1>6, <2>5
      <3>2. k <= Len(log[r]) /\ DOMAIN log[r] = 1..Len(log[r]) /\ Len(log[r]) \in Nat
        BY <1>2, <3>1, HistoryIs
      <3>3. \A a \in DOMAIN log[r] : a < k => ingesting # log[r][a]
        <4>. SUFFICES ASSUME NEW a \in DOMAIN log[r], a < k, ingesting = log[r][a] PROVE FALSE
          OBVIOUS
        <4>1. a = Len(log[r])
          BY IngestingIsLast
        <4>. QED
          BY <3>2, <4>1
      <3>4. \A j \in DOMAIN wire' : ~(i < j)
        BY <2>2, <2>5
      <3>5. HistoryAt(i, r, k)'
        BY <2>1, <2>2, <2>5, <3>1, <3>3, <3>4 DEF HistoryAt
      <3>. QED
        BY <3>5
    <2>. QED
      BY <2>2, <2>4, <2>5
  <1>7. CASE SendReady /\ Sent([t |-> "ready"])
    <2>1. [t |-> "ready"] \in Wire
      BY WireMembers
    <2>2. i # Len(wire) + 1
      BY <1>7, <2>1, WireSent DEF Sent
    <2>. QED
      BY <1>6, <1>7, <2>1, <2>2, NewMessages
  <1>8. CASE AnswerRooms /\ Sent([t |-> "rooms", rooms |-> {q \in Rooms : log[q] # << >>}])
    <2> DEFINE w == [t |-> "rooms", rooms |-> {q \in Rooms : log[q] # << >>}]
    <2>1. w \in Wire /\ w.t = "rooms" /\ \A e \in Events : ~Fresh(w, e)
      BY NewMessages, WireMembers
    <2>2. Sent(w)
      BY <1>8
    <2>. HIDE DEF w
    <2>3. i # Len(wire) + 1
      BY <2>1, <2>2, WireSent DEF Sent
    <2>. QED
      BY <1>6, <2>1, <2>2, <2>3
  <1>9. CASE /\ SendHistory
             /\ Sent([t |-> "history", room |-> Head(asked), events |-> reply[1]])
    <2> DEFINE w == [t |-> "history", room |-> Head(asked), events |-> reply[1]]
    <2>1. Head(asked) \in Rooms /\ reply[1] \in History /\ Head(asked) = asked[1] /\ reply # << >>
      BY <1>9, TailIs DEF SendHistory, ViewTypeOK
    <2>2. w \in Wire /\ Sent(w) /\ \A e \in Events : ~Fresh(w, e)
      BY <1>9, <2>1, NewMessages, WireMembers
    <2>3. w.room = asked[1] /\ w.events = reply[1]
      BY <2>1
    <2>. HIDE DEF w
    <2>4. i = Len(wire) + 1 => r = asked[1]
      BY <2>2, <2>3, WireSent DEF Sent
    <2>5. i = Len(wire) + 1 =>
                  \E k \in Nat : /\ IsHistory(w.events, log[r], k)
                                 /\ \A a \in DOMAIN log[r] : a > k => ingesting = log[r][a]
      BY <1>2, <2>1, <2>3, <2>4 DEF ReplyInv
    <2>. QED
      BY <1>6, <2>2, <2>5
  <1>10. ASSUME NEW e \in Events, IngestAgain(e)
         PROVE  \E k \in Nat : HistoryAt(i, r, k)'
    <2> DEFINE w == [t |-> "message", event |-> e, again |-> TRUE]
    <2>1. w \in Wire /\ Sent(w) /\ (\A f \in Events : ~Fresh(w, f)) /\ w.t = "message"
      BY <1>10, NewMessages, WireMembers DEF IngestAgain, Sent
    <2>. HIDE DEF w
    <2>2. i # Len(wire) + 1
      BY <2>1, WireSent DEF Sent
    <2>. QED
      BY <1>6, <2>1, <2>2
  <1>11. ASSUME NEW e \in Events, Ingest(e)
         PROVE  \E k \in Nat : HistoryAt(i, r, k)'
    <2>1. wire' = wire /\ ingesting = None /\ ingesting' = e /\ e \notin Stored
      BY <1>11, IngestLog DEF Ingest
    <2>2. PICK k \in Nat : HistoryAt(i, r, k)
      BY <1>2, <2>1 DEF HistoryInv
    <2>3. k <= Len(log[r]) /\ DOMAIN log[r] = 1..Len(log[r]) /\ Len(log[r]) \in Nat
      BY <1>2, <2>2, HistoryIs DEF HistoryAt
    <2>4. IsHistory(wire[i].events, log'[r], k)
      <3>1. r = RoomOf[e] => log'[r] = Append(log[r], e)
        BY <1>11, IngestLog
      <3>2. r # RoomOf[e] => log'[r] = log[r]
        BY <1>11, IngestLog
      <3>3. IsHistory(wire[i].events, log[r], k)
        BY <2>2 DEF HistoryAt
      <3>4. IsHistory(wire[i].events, Append(log[r], e), k)
        BY <1>2, <3>3, HistoryIs
      <3>. QED
        BY <3>1, <3>2, <3>3, <3>4
    <2>5. \A a \in DOMAIN log[r] : log[r][a] # None /\ log[r][a] # e
      BY <2>1, LogStored, FrontViewAssumption
    <2>6. \A a \in DOMAIN log'[r] : \/ a \in DOMAIN log[r] /\ log'[r][a] = log[r][a]
                                    \/ a = Len(log[r]) + 1 /\ log'[r][a] = e
      BY <1>11, IngestLog
    <2>7. ~(Len(log[r]) + 1 < k)
      BY <2>3
    <2>8. HistoryAt(i, r, k)'
      BY <2>1, <2>2, <2>4, <2>5, <2>6, <2>7 DEF HistoryAt
    <2>. QED
      BY <2>8
  <1>12. CASE /\ Broadcast
              /\ wire' = Append(wire, [t |-> "message", event |-> ingesting, again |-> FALSE])
    <2> DEFINE w == [t |-> "message", event |-> ingesting, again |-> FALSE]
    <2>1. /\ ingesting \in Events /\ ingesting' = None /\ log' = log /\ w \in Wire /\ w.t = "message"
          /\ \A e \in Events : (Fresh(w, e) <=> e = ingesting)
      BY <1>12, BroadcastIs, NewMessages
    <2>2. wire' = Append(wire, w)
      BY <1>12
    <2>. HIDE DEF w
    <2>3. /\ \A j \in DOMAIN wire : j \in Nat /\ j < Len(wire) + 1 /\ j \in DOMAIN wire' /\ wire'[j] = wire[j]
          /\ \A j \in DOMAIN wire' : j \in Nat /\ (j \in DOMAIN wire \/ j = Len(wire) + 1)
          /\ Len(wire) + 1 \in DOMAIN wire' /\ wire'[Len(wire) + 1] = w /\ Len(wire) \in Nat
      BY <2>1, <2>2, WireSent
    <2>4. i \in DOMAIN wire
      BY <2>1, <2>3
    <2>5. PICK k \in Nat : HistoryAt(i, r, k)
      BY <1>2, <2>3, <2>4 DEF HistoryInv
    <2>6. \A a \in DOMAIN log[r] : log[r][a] \in Events /\ log[r][a] # None
      BY LogStored, FrontViewAssumption
    <2>7. ASSUME NEW a \in DOMAIN log[r]
          PROVE  /\ a > k => \E j \in DOMAIN wire' : i < j /\ Fresh(wire'[j], log[r][a])
                 /\ a < k => \A j \in DOMAIN wire' : i < j => ~Fresh(wire'[j], log[r][a])
      <3>1. CASE a > k
        <4>1. a \in Nat /\ ~(a < k)
          BY <1>2, <3>1
        <4>2. CASE ingesting = log[r][a]
          BY <2>1, <2>3, <2>4, <2>6, <4>1, <4>2
        <4>3. CASE \E j \in DOMAIN wire : i < j /\ Fresh(wire[j], log[r][a])
          BY <2>3, <4>1, <4>3
        <4>. QED
          BY <2>5, <3>1, <4>2, <4>3 DEF HistoryAt
      <3>2. CASE a < k
        <4>1. ~(a > k)
          BY <1>2, <3>2
        <4>2. ingesting # log[r][a] /\ \A j \in DOMAIN wire : i < j => ~Fresh(wire[j], log[r][a])
          BY <2>5, <3>2 DEF HistoryAt
        <4>. QED
          BY <2>1, <2>3, <2>6, <4>1, <4>2
      <3>. QED
        BY <3>1, <3>2
    <2>8. HistoryAt(i, r, k)'
      BY <2>1, <2>3, <2>4, <2>5, <2>6, <2>7 DEF HistoryAt
    <2>. QED
      BY <2>8
  <1>13. CASE Broadcast /\ wire' = wire /\ (link = "down" \/ RoomOf[ingesting] \in gaps')
    <2>1. log' = log /\ ingesting' = None
      BY <1>13 DEF Broadcast
    <2>2. RoomOf[ingesting] # r
      BY <1>13 DEF RequestInv
    <2>3. PICK k \in Nat : HistoryAt(i, r, k)
      BY <1>2, <1>13 DEF HistoryInv
    <2>4. \A a \in DOMAIN log[r] : log[r][a] # None /\ log[r][a] # ingesting
      BY <2>2, LogStored, FrontViewAssumption DEF LogInv
    <2>5. HistoryAt(i, r, k)'
      BY <1>13, <2>1, <2>3, <2>4 DEF HistoryAt
    <2>. QED
      BY <2>5
  <1>. QED
    BY <1>3, <1>4, <1>5, <1>7, <1>8, <1>9, <1>10, <1>11, <1>12, <1>13, ViewSteps, BroadcastIs

-----------------------------------------------------------------------------
(* Alignment with the log                                                  *)

\* What the view holds of a room after one more message.
LEMMA NewestAppend ==
    ASSUME NEW m \in History, NEW e \in Events
    PROVE  LET n == Newest(Append(m, e), HistoryLimit) IN
           /\ Len(m) \in Nat /\ Len(m) <= HistoryLimit /\ DOMAIN m = 1..Len(m)
           /\ Len(n) = (IF Len(m) < HistoryLimit THEN Len(m) + 1 ELSE HistoryLimit)
           /\ DOMAIN n = 1..Len(n) /\ Len(n) \in Nat \ {0} /\ n[Len(n)] = e
           /\ \A j \in DOMAIN n : j # Len(n) =>
                 j + Len(m) + 1 - Len(n) \in DOMAIN m /\ n[j] = m[j + Len(m) + 1 - Len(n)]
  <1> DEFINE n == Newest(Append(m, e), HistoryLimit)
             s == Append(m, e)
  <1>1. m \in Seq(Events) /\ Len(m) <= HistoryLimit /\ HistoryLimit \in Nat \ {0}
    BY FrontViewAssumption DEF History
  <1>2. /\ s \in Seq(Events) /\ Len(m) \in Nat /\ Len(s) = Len(m) + 1 /\ DOMAIN m = 1..Len(m)
        /\ DOMAIN s = 1..Len(s)
        /\ \A i \in DOMAIN m : s[i] = m[i]
        /\ s[Len(m) + 1] = e
    BY <1>1, AppendIs
  <1>3. /\ n = Newest(s, HistoryLimit)
        /\ Len(n) = IF Len(s) > HistoryLimit THEN HistoryLimit ELSE Len(s)
        /\ \A i \in DOMAIN n : Len(s) + i - Len(n) \in DOMAIN s /\ n[i] = s[Len(s) + i - Len(n)]
        /\ DOMAIN n = 1..Len(n)
    BY <1>1, <1>2, NewestIs
  <1>. HIDE DEF n, s
  <1>4. Len(n) = (IF Len(m) < HistoryLimit THEN Len(m) + 1 ELSE HistoryLimit) /\ Len(n) \in Nat \ {0}
    BY <1>1, <1>2, <1>3
  <1>5. n[Len(n)] = e
    <2>1. Len(n) \in DOMAIN n /\ Len(s) + Len(n) - Len(n) = Len(m) + 1
      BY <1>2, <1>3, <1>4
    <2>. QED
      BY <1>2, <1>3, <2>1
  <1>6. ASSUME NEW j \in DOMAIN n, j # Len(n)
        PROVE  j + Len(m) + 1 - Len(n) \in DOMAIN m /\ n[j] = m[j + Len(m) + 1 - Len(n)]
    <2>1. Len(s) + j - Len(n) = j + Len(m) + 1 - Len(n) /\ j + Len(m) + 1 - Len(n) \in DOMAIN m
      BY <1>1, <1>2, <1>3, <1>4, <1>6
    <2>. QED
      BY <1>2, <1>3, <2>1
  <1>. QED
    BY <1>1, <1>2, <1>3, <1>4, <1>5, <1>6 DEF n

LEMMA AlignedMore ==
    ASSUME NEW m, NEW l, NEW k, NEW again, NEW more, again \subseteq more, Aligned(m, l, k, again)
    PROVE  Aligned(m, l, k, more)
  BY DEF Aligned

LEMMA AlignedLonger ==
    ASSUME NEW m \in History, NEW l \in Seq(Events), NEW k \in Nat, k <= Len(l), NEW e \in Events,
           NEW again, Aligned(m, l, k, again)
    PROVE  Aligned(m, Append(l, e), k, again)
  <1>1. /\ Len(m) \in Nat /\ DOMAIN m = 1..Len(m) /\ Len(l) \in Nat
        /\ \A i \in 1..Len(l) : Append(l, e)[i] = l[i]
    BY AppendIs DEF History
  <1>. SUFFICES ASSUME NEW i \in 1..(Len(m) + 1), \A j \in DOMAIN m : i <= j => m[j] \notin again
                PROVE  /\ Len(m) < k + i
                       /\ \A j \in DOMAIN m : i <= j => m[j] = Append(l, e)[k + j - Len(m)]
                       /\ i = 1 => Len(m) = (IF k < HistoryLimit THEN k ELSE HistoryLimit)
    BY DEF Aligned
  <1>2. /\ Len(m) < k + i
        /\ \A j \in DOMAIN m : i <= j => m[j] = l[k + j - Len(m)]
        /\ i = 1 => Len(m) = (IF k < HistoryLimit THEN k ELSE HistoryLimit)
    BY DEF Aligned
  <1>3. ASSUME NEW j \in DOMAIN m, i <= j
        PROVE  k + j - Len(m) \in 1..Len(l)
    <2> DEFINE a == Len(m)
               b == Len(l)
    <2>1. a \in Nat /\ b \in Nat /\ j \in 1..a /\ i \in Nat /\ a < k + i /\ k <= b
      BY <1>1, <1>2
    <2>. HIDE DEF a, b
    <2>2. k + j - a \in 1..b
      BY <1>3, <2>1
    <2>. QED
      BY <2>2 DEF a, b
  <1>. QED
    BY <1>1, <1>2, <1>3

LEMMA AlignedHistory ==
    ASSUME NEW h, NEW l \in Seq(Events), NEW k, NEW again, IsHistory(h, l, k)
    PROVE  Aligned(h, l, k, again)
  <1>1. /\ k \in Nat /\ DOMAIN h = 1..Len(h) /\ Len(h) \in Nat
        /\ Len(h) = (IF k < HistoryLimit THEN k ELSE HistoryLimit)
        /\ \A j \in DOMAIN h : h[j] = l[k + j - Len(h)]
    BY HistoryIs
  <1>2. HistoryLimit \in Nat
    BY FrontViewAssumption
  <1>3. \A i \in 1..(Len(h) + 1) : Len(h) < k + i
    BY <1>1, <1>2
  <1>. QED
    BY <1>1, <1>3 DEF Aligned

\* The next event of the log is added.
LEMMA AlignedNext ==
    ASSUME NEW m \in History, NEW l \in Seq(Events), NEW k \in Nat, k + 1 \in DOMAIN l,
           NEW again, Aligned(m, l, k, again)
    PROVE  Aligned(Newest(Append(m, l[k + 1]), HistoryLimit), l, k + 1, again)
  <1> DEFINE n == Newest(Append(m, l[k + 1]), HistoryLimit)
             d == Len(m) + 1 - Len(n)
  <1>1. HistoryLimit \in Nat \ {0} /\ l[k + 1] \in Events
    BY FrontViewAssumption
  <1>2. /\ Len(m) \in Nat /\ Len(m) <= HistoryLimit /\ DOMAIN m = 1..Len(m)
        /\ Len(n) = (IF Len(m) < HistoryLimit THEN Len(m) + 1 ELSE HistoryLimit)
        /\ DOMAIN n = 1..Len(n) /\ Len(n) \in Nat \ {0} /\ n[Len(n)] = l[k + 1]
        /\ \A j \in DOMAIN n : j # Len(n) =>
              j + Len(m) + 1 - Len(n) \in DOMAIN m /\ n[j] = m[j + Len(m) + 1 - Len(n)]
    BY <1>1, NewestAppend
  <1>3. d \in {0, 1} /\ Len(n) = Len(m) + 1 - d /\ (d = 1 => Len(m) = HistoryLimit)
                     /\ (d = 0 => Len(m) < HistoryLimit)
    BY <1>1, <1>2
  <1>s. \A i, j \in Nat : i <= j =>
            i + d <= j + d /\ k + (j + d) - Len(m) = k + 1 + j - Len(n)
    <2> DEFINE a == Len(m)
               b == Len(n)
    <2>1. a \in Nat /\ b \in Nat /\ d \in {0, 1} /\ b = a + 1 - d
      BY <1>2, <1>3
    <2>. HIDE DEF a, b, d
    <2>2. \A i, j \in Nat : i <= j => i + d <= j + d /\ k + (j + d) - a = k + 1 + j - b
      BY <2>1
    <2>. QED
      BY <2>2 DEF a, b
  <1>4. \A j \in DOMAIN n : j # Len(n) => j + d \in DOMAIN m /\ n[j] = m[j + d]
    <2>1. \A j \in DOMAIN n : j + d = j + Len(m) + 1 - Len(n)
      BY <1>2
    <2>. HIDE DEF d, n
    <2>. QED
      BY <1>2, <2>1
  <1>. HIDE DEF n, d
  <1>. SUFFICES ASSUME NEW i \in 1..(Len(n) + 1), \A j \in DOMAIN n : i <= j => n[j] \notin again
                PROVE  /\ Len(n) < k + 1 + i
                       /\ \A j \in DOMAIN n : i <= j => n[j] = l[k + 1 + j - Len(n)]
                       /\ i = 1 => Len(n) = (IF k + 1 < HistoryLimit THEN k + 1 ELSE HistoryLimit)
    BY DEF Aligned, n
  <1>5. CASE i = Len(n) + 1
    BY <1>2, <1>5
  <1>6. CASE i # Len(n) + 1
    <2>1. i + d \in 1..(Len(m) + 1) /\ i \in 1..Len(n)
      BY <1>2, <1>3, <1>6
    <2>2. \A j \in DOMAIN m : i + d <= j => m[j] \notin again
      <3>1. ASSUME NEW j \in DOMAIN m, i + d <= j
            PROVE  j - d \in DOMAIN n /\ i <= j - d /\ j - d # Len(n) /\ (j - d) + d = j
        BY <1>2, <1>3, <3>1
      <3>2. ASSUME NEW j \in DOMAIN m, i + d <= j
            PROVE  m[j] = n[j - d]
        BY <1>4, <3>1, <3>2
      <3>. QED
        BY <3>1, <3>2
    <2>3. /\ Len(m) < k + (i + d)
          /\ \A j \in DOMAIN m : i + d <= j => m[j] = l[k + j - Len(m)]
          /\ i + d = 1 => Len(m) = (IF k < HistoryLimit THEN k ELSE HistoryLimit)
      BY <2>1, <2>2 DEF Aligned
    <2>4. Len(n) < k + 1 + i
      <3> DEFINE a == Len(m)
                 b == Len(n)
      <3>1. a \in Nat /\ b \in Nat /\ d \in {0, 1} /\ b = a + 1 - d
        BY <1>2, <1>3
      <3>2. a < k + (i + d)
        BY <2>3
      <3>3. i \in Nat
        BY <1>2
      <3>. HIDE DEF a, b
      <3>4. b < k + 1 + i
        BY <3>1, <3>2, <3>3
      <3>. QED
        BY <3>4 DEF b
    <2>5. ASSUME NEW j \in DOMAIN n, i <= j
          PROVE  n[j] = l[k + 1 + j - Len(n)]
      <3>1. CASE j = Len(n)
        <4>1. k + 1 + j - Len(n) = k + 1
          BY <1>2, <3>1
        <4>. QED
          BY <1>2, <3>1, <4>1
      <3>2. CASE j # Len(n)
        <4>1. i + d <= j + d /\ k + (j + d) - Len(m) = k + 1 + j - Len(n)
          BY <1>2, <1>s, <2>5
        <4>2. j + d \in DOMAIN m /\ n[j] = m[j + d]
          BY <1>4, <3>2
        <4>. QED
          BY <2>3, <4>1, <4>2
      <3>. QED
        BY <3>1, <3>2
    <2>6. i = 1 => Len(n) = (IF k + 1 < HistoryLimit THEN k + 1 ELSE HistoryLimit)
      <3>. SUFFICES ASSUME i = 1
                    PROVE  Len(n) = (IF k + 1 < HistoryLimit THEN k + 1 ELSE HistoryLimit)
        OBVIOUS
      <3> DEFINE a == Len(m)
                 b == Len(n)
                 x == HistoryLimit
      <3>1. /\ a \in Nat /\ b \in Nat /\ x \in Nat \ {0} /\ b = a + 1 - d /\ a < k + (i + d)
            /\ d = 1 => a = x
            /\ d = 0 => a < x
            /\ d \in {0, 1}
            /\ i + d = 1 => a = (IF k < x THEN k ELSE x)
        BY <1>1, <1>2, <1>3, <2>3
      <3>. HIDE DEF a, b, x
      <3>2. b = (IF k + 1 < x THEN k + 1 ELSE x)
        <4>1. CASE d = 0
          BY <3>1, <4>1
        <4>2. CASE d = 1
          BY <3>1, <4>2
        <4>. QED
          BY <3>1, <4>1, <4>2
      <3>. QED
        BY <3>2 DEF b, x
    <2>. QED
      BY <2>4, <2>5, <2>6
  <1>. QED
    BY <1>5, <1>6

\* A message that is accepted again is added.
LEMMA AlignedAgain ==
    ASSUME NEW m \in History, NEW l, NEW k \in Nat, NEW e \in Events, NEW again, e \in again
    PROVE  Aligned(Newest(Append(m, e), HistoryLimit), l, k, again)
  <1> DEFINE n == Newest(Append(m, e), HistoryLimit)
  <1>1. DOMAIN n = 1..Len(n) /\ Len(n) \in Nat \ {0} /\ n[Len(n)] = e
    BY NewestAppend
  <1>. HIDE DEF n
  <1>2. \A i \in 1..(Len(n) + 1) : (\A j \in DOMAIN n : i <= j => n[j] \notin again) => i = Len(n) + 1
    <2>. SUFFICES ASSUME NEW i \in 1..(Len(n) + 1), i # Len(n) + 1,
                         \A j \in DOMAIN n : i <= j => n[j] \notin again
                  PROVE  FALSE
      OBVIOUS
    <2>1. Len(n) \in DOMAIN n /\ i <= Len(n)
      BY <1>1
    <2>. QED
      BY <1>1, <2>1
  <1>3. /\ Len(n) < k + (Len(n) + 1) /\ Len(n) + 1 # 1
        /\ \A j \in DOMAIN n : ~(Len(n) + 1 <= j)
    BY <1>1
  <1>4. Aligned(n, l, k, again)
    BY <1>2, <1>3 DEF Aligned
  <1>. QED
    BY <1>4 DEF n

\* The k-th event comes after one that was accepted again.
LEMMA AlignedLast ==
    ASSUME NEW m \in History, NEW l \in Seq(Events), NEW k \in Nat, k \in DOMAIN l, NEW again,
           m # << >>, m[Len(m)] \in again
    PROVE  Aligned(Newest(Append(m, l[k]), HistoryLimit), l, k, again)
  <1> DEFINE n == Newest(Append(m, l[k]), HistoryLimit)
  <1>1. HistoryLimit \in Nat \ {0} /\ l[k] \in Events /\ k >= 1
    BY FrontViewAssumption
  <1>2. /\ Len(m) \in Nat /\ Len(m) <= HistoryLimit /\ DOMAIN m = 1..Len(m)
        /\ Len(n) = (IF Len(m) < HistoryLimit THEN Len(m) + 1 ELSE HistoryLimit)
        /\ DOMAIN n = 1..Len(n) /\ Len(n) \in Nat \ {0} /\ n[Len(n)] = l[k]
        /\ \A j \in DOMAIN n : j # Len(n) =>
              j + Len(m) + 1 - Len(n) \in DOMAIN m /\ n[j] = m[j + Len(m) + 1 - Len(n)]
    BY <1>1, NewestAppend
  <1>3. Len(m) # 0
    BY DEF History
  <1>. HIDE DEF n
  <1>. SUFFICES ASSUME NEW i \in 1..(Len(n) + 1), \A j \in DOMAIN n : i <= j => n[j] \notin again
                PROVE  /\ Len(n) < k + i
                       /\ \A j \in DOMAIN n : i <= j => n[j] = l[k + j - Len(n)]
                       /\ i = 1 => Len(n) = (IF k < HistoryLimit THEN k ELSE HistoryLimit)
    BY DEF Aligned, n
  <1>4. i >= Len(n)
    <2>. SUFFICES ASSUME i < Len(n) PROVE FALSE
      BY <1>2
    <2>1. Len(n) - 1 \in DOMAIN n /\ i <= Len(n) - 1 /\ Len(n) - 1 # Len(n)
          /\ (Len(n) - 1) + Len(m) + 1 - Len(n) = Len(m)
      <3> DEFINE a == Len(m)
                 b == Len(n)
      <3>1. a \in Nat /\ b \in Nat \ {0} /\ DOMAIN n = 1..b /\ i \in 1..(b + 1) /\ i < b
        BY <1>2
      <3>. HIDE DEF a, b
      <3>2. b - 1 \in DOMAIN n /\ i <= b - 1 /\ b - 1 # b /\ (b - 1) + a + 1 - b = a
        BY <3>1
      <3>. QED
        BY <3>2 DEF a, b
    <2>2. n[Len(n) - 1] = m[Len(m)]
      BY <1>2, <2>1
    <2>. QED
      BY <2>1, <2>2
  <1>5. Len(n) < k + i
    BY <1>1, <1>2, <1>4
  <1>6. ASSUME NEW j \in DOMAIN n, i <= j
        PROVE  n[j] = l[k + j - Len(n)]
    <2>1. j = Len(n) /\ k + j - Len(n) = k
      BY <1>2, <1>4, <1>6
    <2>. QED
      BY <1>2, <2>1
  <1>7. i = 1 => Len(n) = (IF k < HistoryLimit THEN k ELSE HistoryLimit)
    BY <1>1, <1>2, <1>3, <1>4
  <1>. QED
    BY <1>5, <1>6, <1>7

\* A view that is wholly aligned with the k-th event holds it.
LEMMA AlignedHolds ==
    ASSUME NEW m \in History, NEW l, NEW k \in Nat \ {0}, NEW again, Aligned(m, l, k, again),
           m = << >> \/ m[Len(m)] \notin again
    PROVE  l[k] \in Range(m)
  <1>1. Len(m) \in Nat /\ DOMAIN m = 1..Len(m) /\ HistoryLimit \in Nat \ {0}
    BY FrontViewAssumption DEF History
  <1>2. CASE m = << >>
    <2>1. Len(m) = 0 /\ 1 \in 1..(Len(m) + 1) /\ \A j \in DOMAIN m : FALSE
      BY <1>2
    <2>2. Len(m) = IF k < HistoryLimit THEN k ELSE HistoryLimit
      BY <2>1 DEF Aligned
    <2>. QED
      BY <1>1, <2>1, <2>2
  <1>3. CASE m # << >> /\ m[Len(m)] \notin again
    <2>1. Len(m) # 0
      BY <1>3 DEF History
    <2>2. Len(m) \in 1..(Len(m) + 1) /\ Len(m) \in DOMAIN m
          /\ \A j \in DOMAIN m : Len(m) <= j => j = Len(m)
      BY <1>1, <2>1
    <2>3. m[Len(m)] = l[k + Len(m) - Len(m)]
      BY <1>3, <2>2 DEF Aligned
    <2>4. k + Len(m) - Len(m) = k
      BY <1>1
    <2>. QED
      BY <2>2, <2>3, <2>4 DEF Range
  <1>. QED
    BY <1>2, <1>3

-----------------------------------------------------------------------------
(* The view follows the log                                                *)

\* Which histories are still to come, after a step of a live connection.
LEMMA AwaitedStep ==
    ASSUME ViewTypeOK, RequestInv, [ViewNext]_viewVars, Live', NEW p \in Rooms, p \notin gaps'
    PROVE  /\ HandleReady \/ Live
           /\ HandleReady => p \in Awaited'
           /\ AnswerRooms => (p \in Awaited' <=> log[p] # << >>)
           /\ HandleHistory => /\ wire[1].room \in Awaited
                               /\ p \in Awaited' <=> p \in Awaited /\ p # wire[1].room
           /\ HandleReady \/ AnswerRooms \/ HandleHistory \/ (p \in Awaited' <=> p \in Awaited)
  <1>0. /\ wire \in Seq(Wire) /\ asked \in Seq(Rooms \union {None})
        /\ \A r \in Rooms : r # None
    BY FrontViewAssumption DEF ViewTypeOK
  <1>1. HandleReady => Awaited' = Rooms
    <2>. SUFFICES ASSUME HandleReady PROVE Awaited' = Rooms
      OBVIOUS
    <2>1. asked' = Append(asked, None)
      BY DEF HandleReady
    <2>2. \E i \in DOMAIN asked' : asked'[i] = None
      BY <1>0, <2>1, AppendIs
    <2>. QED
      BY <2>2 DEF Awaited
  <1>2. AnswerRooms => Awaited' = {r \in Rooms : log[r] # << >>}
    <2>. SUFFICES ASSUME AnswerRooms PROVE Awaited' = {r \in Rooms : log[r] # << >>}
      OBVIOUS
    <2> DEFINE S == {r \in Rooms : log[r] # << >>}
               w == [t |-> "rooms", rooms |-> S]
    <2>1. /\ asked # << >> /\ Head(asked) = None /\ asked' = Tail(asked)
          /\ wire' = Append(wire, w) /\ w \in Wire /\ w.t = "rooms" /\ w.rooms = S
      BY WireMembers DEF AnswerRooms, Enqueue
    <2>. HIDE DEF w, S
    <2>2. asked[1] = None /\ 1 \in DOMAIN asked
      BY <1>0, <2>1, TailIs
    <2>3. Len(asked) = 1 /\ \A i \in DOMAIN wire : wire[i].t \notin {"rooms", "history"}
      BY <2>2 DEF RequestInv
    <2>4. \A i \in DOMAIN asked' : FALSE
      BY <1>0, <2>1, <2>3, TailIs
    <2>5. /\ \A i \in DOMAIN wire' : (i \in DOMAIN wire /\ wire'[i] = wire[i]) \/ wire'[i] = w
          /\ \E i \in DOMAIN wire' : wire'[i] = w
      BY <2>1, WireSent
    <2>6. S \subseteq Rooms
      BY DEF S
    <2>7. Awaited' = {r \in Rooms : r \in S}
      BY <2>1, <2>3, <2>4, <2>5 DEF Awaited
    <2>. QED
      BY <2>6, <2>7 DEF S
  <1>3. HandleHistory => Live /\ wire[1].room \in Awaited /\ Awaited' = Awaited \ {wire[1].room}
    <2>. SUFFICES ASSUME HandleHistory
                  PROVE  Live /\ wire[1].room \in Awaited /\ Awaited' = Awaited \ {wire[1].room}
      OBVIOUS
    <2>1. Handled /\ asked' = asked /\ Head(wire).t = "history"
      BY DEF HandleHistory, Handled, Arrives
    <2>2. /\ 1 \in DOMAIN wire /\ wire[1] \in Wire /\ Head(wire) = wire[1]
          /\ \A i \in DOMAIN wire' : i \in Nat /\ i + 1 \in DOMAIN wire /\ wire'[i] = wire[i + 1]
          /\ \A i \in DOMAIN wire : i = 1 \/ (i - 1 \in DOMAIN wire' /\ wire'[i - 1] = wire[i])
      BY <2>1, WireHandled
    <2>3. \A i \in DOMAIN wire' : i + 1 # 1
      BY <2>1, TailIs DEF Handled, ViewTypeOK
    <2>4. wire[1].t = "history" /\ wire[1].room \in Rooms
      BY <2>1, <2>2, WireFields
    <2>5. Live
      BY <2>2, <2>4 DEF RequestInv
    <2>6. /\ \A i \in DOMAIN asked : asked[i] # None /\ asked[i] # wire[1].room
          /\ \A i \in DOMAIN wire : wire[i].t # "rooms"
          /\ \A i \in DOMAIN wire : i # 1 /\ wire[i].t = "history" => wire[i].room # wire[1].room
      <3>1. \A i \in DOMAIN asked : asked[i] # None /\ asked[i] # wire[1].room
        BY <2>2, <2>4 DEF RequestInv
      <3>2. \A i \in DOMAIN wire : wire[i].t # "rooms"
        <4>1. \A i \in DOMAIN wire : wire[i].t = "rooms" => i = 1
          BY <2>2, <2>4 DEF RequestInv
        <4>. QED
          BY <2>4, <4>1
      <3>3. \A i \in DOMAIN wire : i # 1 /\ wire[i].t = "history" => wire[i].room # wire[1].room
        BY <2>2, <2>4 DEF RequestInv
      <3>. QED
        BY <3>1, <3>2, <3>3
    <2>7. wire[1].room \in Awaited
      BY <2>2, <2>4 DEF Awaited
    <2>8. \A i \in DOMAIN wire' : wire'[i].t # "rooms" /\ (wire'[i].t = "history" => wire'[i].room # wire[1].room)
      BY <2>2, <2>3, <2>6
    <2>9. ASSUME NEW r \in Rooms
          PROVE  r \in Awaited' <=> r \in Awaited /\ r # wire[1].room
      <3>1. r \in Awaited' => r \in Awaited /\ r # wire[1].room
        BY <2>1, <2>2, <2>6, <2>8 DEF Awaited
      <3>2. r \in Awaited /\ r # wire[1].room => r \in Awaited'
        BY <2>1, <2>2, <2>6 DEF Awaited
      <3>. QED
        BY <3>1, <3>2
    <2>10. Awaited \subseteq Rooms /\ Awaited' \subseteq Rooms
      BY DEF Awaited
    <2>. QED
      BY <2>5, <2>7, <2>9, <2>10
  <1>4. CASE asked' = asked /\ wire' = wire /\ link' = link
    BY <1>1, <1>2, <1>3, <1>4 DEF Awaited, Live
  <1>5. ASSUME NEW w \in Wire, w.t = "message", wire' = Append(wire, w), asked' = asked, link' = link
        PROVE  Live /\ Awaited' = Awaited
    <2>1. /\ \A i \in DOMAIN wire' : (i \in DOMAIN wire /\ wire'[i] = wire[i]) \/ wire'[i].t = "message"
          /\ \A i \in DOMAIN wire : i \in DOMAIN wire' /\ wire'[i] = wire[i]
      BY <1>5, WireSent
    <2>2. Live
      BY <1>5, <2>1 DEF Live
    <2>3. Awaited' = Awaited
      BY <1>5, <2>1 DEF Awaited
    <2>. QED
      BY <2>2, <2>3
  <1>6. CASE HandleMessage
    <2>1. Handled /\ asked' = asked /\ link' = link /\ Head(wire).t = "message"
      BY <1>6 DEF HandleMessage, Handled, Arrives
    <2>2. /\ Head(wire) = wire[1]
          /\ \A i \in DOMAIN wire' : i + 1 \in DOMAIN wire /\ wire'[i] = wire[i + 1]
          /\ \A i \in DOMAIN wire : i = 1 \/ (i - 1 \in DOMAIN wire' /\ wire'[i - 1] = wire[i])
      BY <2>1, WireHandled
    <2>3. Live
      BY <2>1, <2>2 DEF Live
    <2>4. Awaited' = Awaited
      BY <2>1, <2>2 DEF Awaited
    <2>. QED
      BY <1>1, <1>2, <1>3, <2>3, <2>4
  <1>7. CASE HandleRooms
    <2>1. Handled /\ link' = link /\ Head(wire).t = "rooms"
      BY <1>7 DEF HandleRooms, Handled, Arrives
    <2>2. /\ 1 \in DOMAIN wire /\ wire[1] \in Wire /\ Head(wire) = wire[1]
          /\ \A i \in DOMAIN wire' : i \in Nat /\ i + 1 \in DOMAIN wire /\ wire'[i] = wire[i + 1]
          /\ \A i \in DOMAIN wire : i = 1 \/ (i - 1 \in DOMAIN wire' /\ wire'[i - 1] = wire[i])
      BY <2>1, WireHandled
    <2>3. \A i \in DOMAIN wire' : i + 1 # 1
      BY <2>1, TailIs DEF Handled, ViewTypeOK
    <2>4. wire[1].t = "rooms" /\ wire[1].rooms \subseteq Rooms
      BY <2>1, <2>2, WireFields
    <2>5. asked = << >> /\ Live /\ \A i \in DOMAIN wire : wire[i].t \in {"history", "rooms"} => 1 = i
      BY <2>2, <2>4 DEF RequestInv
    <2>6. \A i \in DOMAIN wire' : wire'[i].t \notin {"history", "rooms"}
      BY <2>2, <2>3, <2>5
    <2>7. PICK listing \in SetToSeqs(wire[1].rooms) : asked' = asked \o listing
      BY <1>7, <2>2 DEF HandleRooms
    <2>8. listing \in Seq(Rooms) /\ Range(listing) = wire[1].rooms
      <3>1. IsFiniteSet(wire[1].rooms)
        BY <2>4, FS_Subset, FrontViewAssumption
      <3>. QED
        BY <2>4, <3>1, ListingIs
    <2>9. asked' = listing
      BY <2>5, <2>7, <2>8
    <2>10. \A i \in DOMAIN asked' : asked'[i] # None
      BY <1>0, <2>8, <2>9
    <2>11. Awaited' = wire[1].rooms
      BY <2>4, <2>6, <2>8, <2>9, <2>10 DEF Awaited, Range
    <2>12. Awaited = wire[1].rooms
      <3>1. \A i \in DOMAIN asked : FALSE
        BY <2>5
      <3>. QED
        BY <2>2, <2>4, <2>5, <3>1 DEF Awaited
    <2>. QED
      BY <1>1, <1>2, <1>3, <2>5, <2>11, <2>12
  <1>8. CASE SendHistory
    <2> DEFINE r == Head(asked)
               w == [t |-> "history", room |-> r, events |-> reply[1]]
    <2>1. /\ reply # << >> /\ asked' = Tail(asked) /\ link' = link
          /\ wire' = Append(wire, w) \/ (wire' = wire /\ r # p)
      BY <1>8 DEF SendHistory, Enqueue
    <2>2. /\ asked # << >> /\ r \in Rooms /\ reply[1] \in History /\ r = asked[1]
          /\ \A i \in DOMAIN asked' : i + 1 \in DOMAIN asked /\ asked'[i] = asked[i + 1]
          /\ 1 \in DOMAIN asked /\ \A i \in DOMAIN asked : i = 1 \/ (i - 1 \in DOMAIN asked' /\ asked'[i - 1] = asked[i])
      <3>1. asked # << >> /\ r \in Rooms /\ reply[1] \in History /\ r = asked[1]
        BY <1>8, TailIs DEF SendHistory, ViewTypeOK
      <3>2. /\ \A i \in DOMAIN asked' : i + 1 \in DOMAIN asked /\ asked'[i] = asked[i + 1]
            /\ \A i \in DOMAIN asked : i # 1 => i - 1 \in DOMAIN asked' /\ (i - 1) + 1 = i
            /\ 1 \in DOMAIN asked
        BY <1>0, <2>1, <3>1, TailIs
      <3>3. \A i \in DOMAIN asked : i = 1 \/ (i - 1 \in DOMAIN asked' /\ asked'[i - 1] = asked[i])
        BY <3>2
      <3>. QED
        BY <3>1, <3>2, <3>3
    <2>3. w \in Wire /\ w.t = "history" /\ w.room = r
      BY <2>2, WireMembers
    <2>. HIDE DEF w, r
    <2>4. Live
      BY <2>2 DEF RequestInv
    <2>5. /\ \A i \in DOMAIN wire' : (i \in DOMAIN wire /\ wire'[i] = wire[i]) \/ wire'[i] = w
          /\ \A i \in DOMAIN wire : i \in DOMAIN wire' /\ wire'[i] = wire[i]
          /\ r # p \/ \E i \in DOMAIN wire' : wire'[i] = w
      <3>1. CASE wire' = wire /\ r # p
        BY <3>1
      <3>2. CASE wire' = Append(wire, w)
        BY <2>3, <3>2, WireSent
      <3>. QED
        BY <2>1, <3>1, <3>2
    <2>6. r # None
      BY <1>0, <2>2
    <2>7. Awaited' \subseteq Awaited
      BY <2>2, <2>3, <2>5 DEF Awaited
    <2>8. \A i \in DOMAIN asked : asked[i] # None
      <3>. SUFFICES ASSUME NEW i \in DOMAIN asked, asked[i] = None PROVE FALSE
        OBVIOUS
      <3>1. Len(asked) = 1
        BY DEF RequestInv
      <3>2. i = 1
        BY <1>0, <3>1
      <3>. QED
        BY <2>2, <2>6, <3>2
    <2>9. ASSUME p \in Awaited PROVE p \in Awaited'
      <3>1. p \in Rooms
        OBVIOUS
      <3>2. CASE \E i \in DOMAIN asked : asked[i] = p
        BY <2>2, <2>3, <2>5, <3>1, <3>2 DEF Awaited
      <3>3. CASE \E i \in DOMAIN wire : \/ wire[i].t = "rooms" /\ p \in wire[i].rooms
                                        \/ wire[i].t = "history" /\ wire[i].room = p
        BY <2>5, <3>1, <3>3 DEF Awaited
      <3>. QED
        BY <2>8, <2>9, <3>2, <3>3 DEF Awaited
    <2>. QED
      BY <1>1, <1>2, <1>3, <2>4, <2>7, <2>9
  <1>9. CASE AnswerRooms
    <2> DEFINE w == [t |-> "rooms", rooms |-> {r \in Rooms : log[r] # << >>}]
    <2>1. asked # << >> /\ Live
      BY <1>9 DEF AnswerRooms, RequestInv
    <2>. QED
      BY <1>1, <1>2, <1>3, <1>9, <2>1
  <1>10. ~(Stop \/ Lose \/ Greet)
    BY DEF Stop, Lose, Greet, Live
  <1>11. ~SendReady
    <2>. SUFFICES ASSUME SendReady PROVE FALSE
      OBVIOUS
    <2>1. wire' = Append(wire, [t |-> "ready"])
      BY DEF SendReady, Enqueue
    <2>2. \E i \in DOMAIN wire' : wire'[i].t = "ready"
      BY <2>1, WireSent, WireMembers
    <2>. QED
      BY <2>2 DEF Live
  <1>12. Broadcast => \/ asked' = asked /\ wire' = wire /\ link' = link
                      \/ \E w \in Wire : /\ w.t = "message" /\ wire' = Append(wire, w)
                                         /\ asked' = asked /\ link' = link
    BY BroadcastIs
  <1>13. ASSUME NEW e \in Events, IngestAgain(e)
         PROVE  \E w \in Wire : /\ w.t = "message" /\ wire' = Append(wire, w)
                                /\ asked' = asked /\ link' = link
    BY <1>13, WireMembers DEF IngestAgain
  <1>14. GlanceNews \/ Look \/ ReadHistory \/ (\E e \in Events : Ingest(e)) \/ UNCHANGED viewVars
            => asked' = asked /\ wire' = wire /\ link' = link
    BY DEF GlanceNews, Look, ReadHistory, Ingest, viewVars, daemon, history
  <1>. QED
    BY <1>1, <1>2, <1>3, <1>4, <1>5, <1>6, <1>7, <1>8, <1>9, <1>10, <1>11, <1>12, <1>13, <1>14
       DEF ViewNext, Frontend, Daemon

\* A message that is handled comes after those that were stored before it.
LEMMA EarlierSpent ==
    ASSUME ViewTypeOK, LogInv, WireInv, Handled, NEW r \in Rooms,
           NEW a \in DOMAIN log[r], NEW b \in DOMAIN log[r], b < a, Fresh(wire[1], log[r][a])
    PROVE  log[r][b] \in Spent
  <1>1. /\ DOMAIN log[r] = 1..Len(log[r]) /\ Len(log[r]) \in Nat
        /\ log[r][b] \in Stored /\ log[r][b] \in Events /\ log[r][a] \in Events
    BY LogStored
  <1>2. ~(a < b) /\ a # b
    BY <1>1
  <1>3. ingesting # log[r][b]
    <2>. SUFFICES ASSUME ingesting = log[r][b] PROVE FALSE
      OBVIOUS
    <2>1. b = Len(log[r])
      BY IngestingIsLast
    <2>. QED
      BY <1>1, <2>1
  <1>4. ASSUME NEW j \in DOMAIN wire, Fresh(wire[j], log[r][b])
        PROVE  FALSE
    <2>1. 1 \in DOMAIN wire /\ (j = 1 \/ 1 < j)
      BY WireHandled
    <2>2. CASE j = 1
      <3>1. log[r][a] = log[r][b]
        BY <1>4, <2>2 DEF Fresh
      <3>. QED
        BY <1>2, <3>1 DEF LogInv
    <2>3. CASE 1 < j
      BY <1>2, <1>4, <2>1, <2>3 DEF WireInv, OrderInv
    <2>. QED
      BY <2>1, <2>2, <2>3
  <1>. QED
    BY <1>1, <1>3, <1>4 DEF Spent

\* What a step that leaves r alone keeps.
LEMMA FollowsStill ==
    ASSUME NEW r \in Rooms, Follows(r), r \in Awaited' <=> r \in Awaited,
           messages'[r] = messages[r], log'[r] = log[r], reborn \subseteq reborn',
           \A e \in Range(log[r]) : e \in seen' => e \in seen,
           \A e \in Range(log[r]) : e \in Spent' <=> e \in Spent
    PROVE  Follows(r)'
  <1>1. CASE r \in Awaited
    BY <1>1 DEF Follows
  <1>2. CASE r \notin Awaited
    <2>1. PICK k \in Nat : Synced(r, k)
      BY <1>2 DEF Follows
    <2>2. Aligned(messages[r], log[r], k, reborn')
      BY <2>1, AlignedMore DEF Synced
    <2>3. \A a \in DOMAIN log[r] : log[r][a] \in Range(log[r])
      BY DEF Range
    <2>4. \A a \in DOMAIN log[r] :
              /\ a < k => log[r][a] \in Spent'
              /\ a > k => log[r][a] \notin Spent' \union seen'
      BY <2>1, <2>3 DEF Synced
    <2>5. k <= Len(log'[r]) /\ Aligned(messages'[r], log'[r], k, reborn')
      BY <2>1, <2>2 DEF Synced
    <2>6. Synced(r, k)'
      BY <2>4, <2>5 DEF Synced
    <2>. QED
      BY <1>2, <2>6 DEF Follows
  <1>. QED
    BY <1>1, <1>2

\* The history that was asked for is handled.
LEMMA FollowsHistory ==
    ASSUME ViewTypeOK, LogInv, WireInv, ViewInv, RequestInv, HistoryInv, HandleHistory,
           [ViewNext]_viewVars, Live', NEW r \in Rooms \ gaps, wire[1].room = r,
           Follows(r)
    PROVE  Follows(r)'
  <1>1. Handled /\ wire[1].t = "history" /\ 1 \in DOMAIN wire /\ wire[1] \in Wire
        /\ log' = log /\ ingesting' = ingesting /\ reborn' = reborn
    <2>1. Handled /\ Head(wire).t = "history" /\ log' = log /\ ingesting' = ingesting /\ reborn' = reborn
      BY DEF HandleHistory, Handled, Arrives, history
    <2>. QED
      BY <2>1, WireHandled
  <1>2. PICK k \in Nat : HistoryAt(1, r, k)
    BY <1>1 DEF HistoryInv
  <1> DEFINE h == wire[1].events
  <1>3. OnHistory(r, h) /\ h \in History /\ log[r] \in Seq(Events)
    BY <1>1, WireHandled, WireFields DEF HandleHistory, ViewTypeOK
  <1>4. messages'[r] = h /\ seen' \subseteq seen \union Range(h)
    BY <1>3, HistoryView
  <1>5. IsHistory(h, log[r], k)
    BY <1>2 DEF HistoryAt
  <1>. HIDE DEF h
  <1>6. /\ k <= Len(log[r]) /\ Aligned(h, log[r], k, reborn)
        /\ \A e \in Range(h) : \E a \in DOMAIN log[r] : a <= k /\ log[r][a] = e
    BY <1>3, <1>5, HistoryIs, AlignedHistory
  <1>7. r \in Awaited /\ r \notin Awaited'
    <2>1. gaps' = gaps
      BY DEF HandleHistory, history
    <2>. QED
      BY <2>1, AwaitedStep
  <1>8. \A e \in Events : ~Fresh(wire[1], e)
    BY <1>1 DEF Fresh
  <1>9. \A e \in Events : e \in Spent' <=> e \in Spent
    BY <1>1, <1>8, SpentStep DEF WireInv
  <1>10. ASSUME NEW a \in DOMAIN log[r]
         PROVE  /\ a < k => log[r][a] \in Spent
                /\ a > k => log[r][a] \notin Spent \union seen'
    <2>1. log[r][a] \in Stored /\ log[r][a] \in Events /\ a \in Nat
      BY LogStored
    <2>2. CASE a < k
      <3>1. ingesting # log[r][a] /\ \A j \in DOMAIN wire : 1 < j => ~Fresh(wire[j], log[r][a])
        BY <1>2, <2>2 DEF HistoryAt
      <3>2. \A j \in DOMAIN wire : j = 1 \/ 1 < j
        BY <1>1, WireHandled
      <3>. QED
        BY <1>8, <2>1, <2>2, <3>1, <3>2 DEF Spent
    <2>3. CASE a > k
      <3>1. \/ ingesting = log[r][a]
            \/ \E j \in DOMAIN wire : Fresh(wire[j], log[r][a])
        BY <1>2, <2>3 DEF HistoryAt
      <3>2. log[r][a] \notin Spent
        BY <3>1 DEF Spent
      <3>3. log[r][a] \notin seen
        BY <1>7, <3>2 DEF Follows, Range
      <3>4. log[r][a] \notin Range(h)
        <4>. SUFFICES ASSUME log[r][a] \in Range(h) PROVE FALSE
          OBVIOUS
        <4>1. PICK b \in DOMAIN log[r] : b <= k /\ log[r][b] = log[r][a]
          BY <1>6
        <4>2. b = a
          BY <4>1 DEF LogInv
        <4>. QED
          BY <2>1, <2>3, <4>1, <4>2
      <3>. QED
        BY <1>4, <2>1, <2>3, <3>2, <3>3, <3>4
    <2>. QED
      BY <2>1, <2>2, <2>3
  <1>11. \A a \in DOMAIN log[r] : log[r][a] \in Events
    BY LogStored
  <1>12. Synced(r, k)'
    BY <1>1, <1>4, <1>6, <1>9, <1>10, <1>11 DEF Synced
  <1>. QED
    BY <1>7, <1>12 DEF Follows

\* What handles something answers nothing.
LEMMA HandledIsNotSent ==
    ASSUME ViewTypeOK, Handled
    PROVE  ~AnswerRooms
  <1>1. wire \in Seq(Wire) /\ wire # << >> /\ wire' = Tail(wire)
    BY DEF Handled, ViewTypeOK
  <1>2. Len(wire') = Len(wire) - 1 /\ Len(wire) \in Nat
    BY <1>1, TailIs
  <1> DEFINE w == [t |-> "rooms", rooms |-> {q \in Rooms : log[q] # << >>}]
  <1>3. w \in Wire
    BY WireMembers
  <1>4. AnswerRooms => wire' = Append(wire, w) \/ wire' = wire
    BY DEF AnswerRooms, Enqueue
  <1>. HIDE DEF w
  <1>5. Len(Append(wire, w)) = Len(wire) + 1
    BY <1>1, <1>3, AppendIs
  <1>6. wire' # Append(wire, w) /\ wire' # wire
    BY <1>2, <1>5
  <1>. QED
    BY <1>4, <1>6

\* A message of r is handled.
LEMMA FollowsMessage ==
    ASSUME ViewTypeOK, LogInv, WireInv, ViewInv, RequestInv, HandleMessage, [ViewNext]_viewVars, Live',
           NEW r \in Rooms, r \notin gaps', Follows(r), NEW e \in Events, RoomOf[e] = r,
           Fresh(wire[1], e) \/ Again(wire[1], e)
    PROVE  Follows(r)'
  <1>1. /\ Handled /\ log' = log /\ 1 \in DOMAIN wire /\ wire[1].event = e
        /\ reborn' = IF wire[1].again /\ e \notin seen THEN reborn \union {e} ELSE reborn
        /\ OnMessage(e)
    <2>1. Handled /\ log' = log
      BY DEF HandleMessage, Handled, Arrives
    <2>2. 1 \in DOMAIN wire /\ Head(wire) = wire[1] /\ wire[1].event = e
      BY <2>1, WireHandled DEF Fresh, Again
    <2>. QED
      BY <2>1, <2>2 DEF HandleMessage
  <1>2. e \in Stored /\ ingesting # e
    BY <1>1 DEF WireInv, MessagesInv
  <1>3. PICK a \in DOMAIN log[r] : log[r][a] = e
    BY <1>2, LogStored
  <1>4. /\ log[r] \in Seq(Events) /\ DOMAIN log[r] = 1..Len(log[r]) /\ Len(log[r]) \in Nat
        /\ \A b \in DOMAIN log[r] : log[r][b] \in Events
        /\ \A b \in DOMAIN log[r] : log[r][b] = e => b = a
    BY <1>3, LogStored DEF LogInv
  <1>5. r \in Awaited' <=> r \in Awaited
    <2>1. ~HandleReady /\ ~AnswerRooms /\ ~HandleHistory
      <3>1. Head(wire).t = "message"
        BY DEF HandleMessage, Arrives
      <3>2. ~HandleReady /\ ~HandleHistory
        BY <3>1 DEF HandleReady, HandleHistory, Arrives
      <3>. QED
        BY <1>1, <3>2, HandledIsNotSent
    <2>. QED
      BY <2>1, AwaitedStep
  <1>6. \A f \in Events : f \in Spent' <=> f \in Spent \/ Fresh(wire[1], f)
    BY <1>1, SpentStep DEF WireInv
  <1>7. \A f \in Events : Fresh(wire[1], f) => f = e
    BY <1>1 DEF Fresh
  <1>8. Fresh(wire[1], e) => e \notin Spent /\ reborn' = reborn
    BY <1>1 DEF Spent, Fresh
  <1>9. Again(wire[1], e) => e \in Spent /\ ~Fresh(wire[1], e)
    <2>. SUFFICES ASSUME Again(wire[1], e) PROVE e \in Spent /\ ~Fresh(wire[1], e)
      OBVIOUS
    <2>1. ~Fresh(wire[1], e)
      BY DEF Fresh, Again
    <2>2. \A j \in DOMAIN wire : 1 < j => ~Fresh(wire[j], e)
      BY <1>1 DEF WireInv, MessagesInv
    <2>3. \A j \in DOMAIN wire : j = 1 \/ 1 < j
      BY <1>1, WireHandled
    <2>. QED
      BY <1>2, <2>1, <2>2, <2>3 DEF Spent
  <1>10. e \in Spent'
    BY <1>6, <1>9
  <1>11. e \in seen => UNCHANGED <<messages, seen>> /\ reborn' = reborn
    BY <1>1 DEF OnMessage, view
  <1>12. e \notin seen =>
            /\ messages'[r] = Newest(Append(messages[r], e), HistoryLimit)
            /\ seen' \subseteq seen \union {e}
    BY <1>1, <1>2, MessageView
  <1>13. seen' \subseteq seen \union {e}
    BY <1>11, <1>12
  <1>14. CASE r \in Awaited
    <2>1. \A f \in Range(log[r]) : f \in Events
      BY <1>4 DEF Range
    <2>2. \A f \in Range(log[r]) : f \in seen' => f \in Spent'
      BY <1>6, <1>10, <1>13, <1>14, <2>1 DEF Follows
    <2>. QED
      BY <1>1, <1>5, <1>14, <2>2 DEF Follows
  <1>15. CASE r \notin Awaited
    <2>1. PICK k \in Nat : Synced(r, k)
      BY <1>15 DEF Follows
    <2>2. /\ k <= Len(log[r]) /\ Aligned(messages[r], log[r], k, reborn)
          /\ \A b \in DOMAIN log[r] : b < k => log[r][b] \in Spent
          /\ \A b \in DOMAIN log[r] : b > k => log[r][b] \notin Spent /\ log[r][b] \notin seen
      BY <2>1 DEF Synced
    <2>3. messages[r] \in History /\ Range(messages[r]) \subseteq seen
      BY DEF ViewTypeOK, ViewInv
    <2>4. a \in Nat /\ k \in Nat
      BY <1>4
    \* The view is at event n, and nothing ahead of it was handled.
    <2>5. ASSUME NEW n \in Nat, n <= Len(log[r]), k <= n, a <= n,
                 Aligned(messages'[r], log[r], n, reborn'),
                 \A b \in DOMAIN log[r] : b < n => log[r][b] \in Spent'
          PROVE  Follows(r)'
      <3>1. ASSUME NEW b \in DOMAIN log[r], b > n
            PROVE  log[r][b] \notin Spent' \union seen'
        <4>1. b > k /\ b # a
          BY <1>4, <2>4, <2>5, <3>1
        <4>2. log[r][b] # e /\ log[r][b] \in Events
          BY <1>4, <4>1
        <4>. QED
          BY <1>6, <1>7, <1>13, <2>2, <4>1, <4>2
      <3>2. Synced(r, n)'
        BY <1>1, <2>5, <3>1 DEF Synced
      <3>. QED
        BY <1>5, <1>15, <3>2 DEF Follows
    <2>6. \A b \in DOMAIN log[r] : b < k => log[r][b] \in Spent'
      BY <1>4, <1>6, <2>2
    <2>7. CASE e \in seen
      <3>1. ~(a > k)
        BY <1>3, <2>2, <2>7
      <3>2. Aligned(messages'[r], log[r], k, reborn') /\ a <= k /\ k <= k
        BY <1>11, <2>2, <2>4, <2>7, <3>1
      <3>. QED
        BY <2>2, <2>5, <2>6, <3>2
    <2>8. CASE e \notin seen /\ Again(wire[1], e)
      <3>1. ~(a > k)
        BY <1>3, <1>9, <2>2, <2>8
      <3>2. e \in reborn'
        BY <1>1, <2>8 DEF Again
      <3>3. Aligned(messages'[r], log[r], k, reborn') /\ a <= k /\ k <= k
        BY <1>12, <2>3, <2>4, <2>8, <3>1, <3>2, AlignedAgain
      <3>. QED
        BY <2>2, <2>5, <2>6, <3>3
    <2>9. CASE e \notin seen /\ Fresh(wire[1], e)
      <3>1. ~(a < k)
        BY <1>3, <1>8, <2>2, <2>9
      <3>2. CASE a = k
        <4>1. k \in Nat \ {0}
          BY <1>4, <3>2
        <4>2. log[r][k] \notin Range(messages[r])
          BY <1>3, <2>3, <2>9, <3>2
        <4>3. messages[r] # << >> /\ messages[r][Len(messages[r])] \in reborn
          BY <2>2, <2>3, <4>1, <4>2, AlignedHolds
        <4>4. Aligned(Newest(Append(messages[r], log[r][k]), HistoryLimit), log[r], k, reborn)
          BY <1>4, <2>2, <2>3, <3>2, <4>3, AlignedLast
        <4>5. Aligned(messages'[r], log[r], k, reborn') /\ a <= k /\ k <= k
          BY <1>3, <1>8, <1>12, <2>4, <2>9, <3>2, <4>4
        <4>. QED
          BY <2>2, <2>5, <2>6, <4>5
      <3>3. CASE a > k
        <4>1. \A b \in DOMAIN log[r] : b < a => log[r][b] \in Spent
          BY <1>1, <1>3, <2>9, EarlierSpent
        <4>2. a = k + 1
          <5>. SUFFICES ASSUME a # k + 1 PROVE FALSE
            OBVIOUS
          <5>1. k + 1 \in DOMAIN log[r] /\ k + 1 < a /\ k + 1 > k
            BY <1>4, <2>4, <3>3
          <5>. QED
            BY <2>2, <4>1, <5>1
        <4>3. Aligned(Newest(Append(messages[r], log[r][k + 1]), HistoryLimit), log[r], k + 1, reborn)
          BY <1>4, <2>2, <2>3, <4>2, AlignedNext
        <4>4. Aligned(messages'[r], log[r], k + 1, reborn')
          BY <1>3, <1>8, <1>12, <2>9, <4>2, <4>3
        <4>5. k + 1 \in Nat /\ k + 1 <= Len(log[r]) /\ k <= k + 1 /\ a <= k + 1
          BY <1>4, <2>4, <4>2
        <4>6. \A b \in DOMAIN log[r] : b < k + 1 => log[r][b] \in Spent'
          BY <1>4, <1>6, <4>1, <4>2
        <4>. QED
          BY <2>5, <4>4, <4>5, <4>6
      <3>. QED
        BY <2>4, <3>1, <3>2, <3>3
    <2>. QED
      BY <2>7, <2>8, <2>9
  <1>. QED
    BY <1>14, <1>15

LEMMA SyncInvStep ==
    ASSUME ViewTypeOK, LogInv, WireInv, ViewInv, RequestInv, HistoryInv, SyncInv,
           [ViewNext]_viewVars
    PROVE  SyncInv'
  <1>. SUFFICES ASSUME Live', NEW r \in Rooms, r \notin gaps'
                PROVE  Follows(r)'
    BY DEF SyncInv
  <1>0. log[r] \in Seq(Events) /\ \A e \in Range(log[r]) : e \in Events /\ RoomOf[e] = r /\ e \in Stored
    BY LogStored DEF Range, LogInv
  <1>1. link' # "down" /\ link' # "hello"
    BY DEF Live
  <1>2. CASE HandleReady
    <2>1. r \in Awaited'
      BY <1>2, AwaitedStep
    <2>2. seen' = {}
      BY <1>2 DEF HandleReady, Reset
    <2>. QED
      BY <2>1, <2>2 DEF Follows
  <1>3. CASE ~HandleReady
    <2>1. Live
      BY <1>3, AwaitedStep
    <2>2. gaps \subseteq gaps'
      BY <1>1 DEF ViewNext, Frontend, Daemon, GlanceNews, Look, Stop, Lose, HandleReady, HandleRooms,
           HandleHistory, HandleMessage, Greet, SendReady, Broadcast, AnswerRooms, ReadHistory,
           SendHistory, Ingest, IngestAgain, Enqueue, viewVars, history
    <2>3. Follows(r)
      BY <2>1, <2>2 DEF SyncInv
    <2>4. ~Stop
      BY <1>1 DEF Stop
    <2>5. CASE HandleHistory
      <3>1. Handled /\ Head(wire).t = "history" /\ log' = log /\ reborn' = reborn
        BY <2>5 DEF HandleHistory, Handled, Arrives, history
      <3>2. wire[1].t = "history" /\ wire[1] \in Wire
        BY <3>1, WireHandled
      <3>3. CASE wire[1].room = r
        BY <2>2, <2>3, <2>5, <3>3, FollowsHistory
      <3>4. CASE wire[1].room # r
        <4>1. r \in Awaited' <=> r \in Awaited
          BY <2>5, <3>4, AwaitedStep
        <4> DEFINE q == wire[1].room
                   h == wire[1].events
        <4>2. q \in Rooms /\ h \in History /\ OnHistory(q, h) /\ Range(h) \subseteq Range(log[q])
          <5>1. 1 \in DOMAIN wire /\ Head(wire) = wire[1]
            BY <3>1, WireHandled
          <5>2. Range(h) \subseteq Range(log[q])
            BY <3>2, <5>1 DEF WireInv, RepliesInv
          <5>. QED
            BY <2>5, <3>2, <5>1, <5>2, WireFields DEF HandleHistory
        <4>. HIDE DEF q, h
        <4>3. messages'[r] = messages[r] /\ seen' \subseteq seen \union Range(h)
          BY <3>4, <4>2, HistoryView DEF q
        <4>4. \A e \in Range(log[r]) : e \notin Range(h)
          <5>1. \A e \in Range(log[q]) : RoomOf[e] = q
            BY <4>2 DEF LogInv, Range
          <5>. QED
            BY <1>0, <3>4, <4>2, <5>1 DEF q
        <4>5. \A e \in Events : ~Fresh(wire[1], e)
          BY <3>2 DEF Fresh
        <4>6. \A e \in Range(log[r]) : e \in Spent' <=> e \in Spent
          BY <1>0, <3>1, <4>5, SpentStep DEF WireInv
        <4>. QED
          BY <2>3, <3>1, <4>1, <4>3, <4>4, <4>6, FollowsStill
      <3>. QED
        BY <3>3, <3>4
    <2>6. CASE HandleMessage
      <3>1. Handled /\ Head(wire).t = "message" /\ log' = log /\ OnMessage(Head(wire).event)
            /\ reborn \subseteq reborn'
        BY <2>6 DEF HandleMessage, Handled, Arrives
      <3>2. 1 \in DOMAIN wire /\ wire[1].t = "message" /\ wire[1] \in Wire /\ Head(wire) = wire[1]
        BY <3>1, WireHandled
      <3> DEFINE e == wire[1].event
      <3>3. e \in Events /\ OnMessage(e) /\ (Fresh(wire[1], e) \/ Again(wire[1], e))
        <4>1. e \in Events /\ wire[1].again \in BOOLEAN
          BY <3>2, WireFields
        <4>. QED
          BY <3>1, <3>2, <4>1 DEF Fresh, Again
      <3>4. e \in Stored
        BY <3>2, <3>3 DEF WireInv, MessagesInv
      <3>5. \A f \in Events : Fresh(wire[1], f) => f = e
        BY DEF Fresh
      <3>. HIDE DEF e
      <3>6. CASE RoomOf[e] = r
        BY <2>3, <2>6, <3>3, <3>6, FollowsMessage
      <3>7. CASE RoomOf[e] # r
        <4>1. messages'[r] = messages[r] /\ seen' \subseteq seen \union {e}
          <5>1. CASE e \in seen
            BY <3>3, <5>1 DEF OnMessage, view
          <5>2. CASE e \notin seen
            BY <3>3, <3>4, <3>7, <5>2, MessageView
          <5>. QED
            BY <5>1, <5>2
        <4>2. \A f \in Range(log[r]) : f # e /\ f \in Events
          BY <1>0, <3>7
        <4>3. \A f \in Range(log[r]) : f \in Spent' <=> f \in Spent
          BY <3>1, <3>5, <4>2, SpentStep DEF WireInv
        <4>4. r \in Awaited' <=> r \in Awaited
          <5>1. ~HandleHistory
            BY <3>1 DEF HandleHistory, Arrives
          <5>2. ~AnswerRooms
            BY <3>1, HandledIsNotSent
          <5>. QED
            BY <1>3, <5>1, <5>2, AwaitedStep
        <4>. QED
          BY <2>3, <3>1, <4>1, <4>2, <4>3, <4>4, FollowsStill
      <3>. QED
        BY <3>6, <3>7
    <2>7. CASE HandleRooms
      <3>1. Handled /\ Head(wire).t = "rooms" /\ log' = log /\ reborn' = reborn
            /\ messages' = messages /\ seen' = seen
        BY <2>7 DEF HandleRooms, Handled, Arrives, history
      <3>2. \A e \in Events : ~Fresh(wire[1], e)
        BY <3>1, WireHandled DEF Fresh
      <3>3. \A e \in Range(log[r]) : e \in Spent' <=> e \in Spent
        BY <1>0, <3>1, <3>2, SpentStep DEF WireInv
      <3>4. r \in Awaited' <=> r \in Awaited
        <4>1. ~HandleHistory
          BY <3>1 DEF HandleHistory, Arrives
        <4>2. ~AnswerRooms
          BY <3>1, HandledIsNotSent
        <4>. QED
          BY <1>3, <4>1, <4>2, AwaitedStep
      <3>. QED
        BY <2>3, <3>1, <3>3, <3>4, FollowsStill
    <2>8. CASE ~(HandleHistory \/ HandleMessage \/ HandleRooms)
      <3>1. messages' = messages /\ seen' = seen /\ reborn' = reborn
        BY <1>3, <2>4, <2>8
           DEF ViewNext, Frontend, Daemon, GlanceNews, Look, Lose, Greet, SendReady, Broadcast,
               AnswerRooms, ReadHistory, SendHistory, Ingest, IngestAgain, viewVars, view, history
      <3>2. \/ Spent' = Spent
            \/ Broadcast /\ RoomOf[ingesting] # r /\ Spent' = Spent \union {ingesting}
        BY <1>1, <1>3, <2>8, SpentStep DEF WireInv
      <3>5. \A e \in Range(log[r]) : e \in Spent' <=> e \in Spent
        BY <1>0, <3>2
      <3>3. CASE AnswerRooms
        <4>1. log' = log /\ r \in Awaited
          <5>1. log' = log /\ asked # << >> /\ Head(asked) = None
            BY <3>3 DEF AnswerRooms
          <5>2. asked[1] = None /\ 1 \in DOMAIN asked
            BY <5>1, TailIs DEF ViewTypeOK
          <5>. QED
            BY <5>1, <5>2 DEF Awaited
        <4>2. CASE r \in Awaited'
          BY <2>3, <3>1, <3>5, <4>1, <4>2, FollowsStill
        <4>3. CASE r \notin Awaited'
          <5>1. log[r] = << >>
            BY <3>3, <4>3, AwaitedStep
          <5>2. messages[r] = << >>
            <6>1. Range(messages[r]) = {}
              BY <5>1 DEF ViewInv, Range
            <6>2. messages[r] \in Seq(Events)
              BY DEF ViewTypeOK, History
            <6>3. \A i \in DOMAIN messages[r] : FALSE
              BY <6>1 DEF Range
            <6>4. Len(messages[r]) \notin DOMAIN messages[r] /\ Len(messages[r]) \in Nat
                  /\ DOMAIN messages[r] = 1..Len(messages[r])
              BY <6>2, <6>3
            <6>5. Len(messages[r]) = 0
              BY <6>4
            <6>. QED
              BY <6>2, <6>5
          <5>3. Aligned(<< >>, << >>, 0, reborn)
            <6>1. HistoryLimit \in Nat \ {0} /\ Len(<< >>) = 0 /\ DOMAIN << >> = {}
              BY FrontViewAssumption
            <6>. QED
              BY <6>1 DEF Aligned
          <5>4. log'[r] = << >> /\ messages'[r] = << >>
            BY <3>1, <4>1, <5>1, <5>2
          <5>5. Synced(r, 0)'
            <6>1. 0 <= Len(<< >>) /\ DOMAIN << >> = {}
              OBVIOUS
            <6>. QED
              BY <3>1, <5>3, <5>4, <6>1 DEF Synced
          <5>. QED
            BY <4>3, <5>5 DEF Follows
        <4>. QED
          BY <4>2, <4>3
      <3>4. CASE ~AnswerRooms
        <4>1. r \in Awaited' <=> r \in Awaited
          BY <1>3, <2>8, <3>4, AwaitedStep
        <4>2. CASE log'[r] = log[r]
          BY <2>3, <3>1, <3>5, <4>1, <4>2, FollowsStill
        <4>3. ASSUME NEW e \in Events, Ingest(e), RoomOf[e] = r
              PROVE  Follows(r)'
          <5>1. /\ log'[r] = Append(log[r], e) /\ e \notin Stored
                /\ \A b \in DOMAIN log'[r] : \/ b \in DOMAIN log[r] /\ log'[r][b] = log[r][b]
                                             \/ b = Len(log[r]) + 1 /\ log'[r][b] = e
            BY <4>3, IngestLog
          <5>2. e \notin seen /\ e \notin Spent /\ Spent' = Spent
            <6>1. ~Broadcast
              BY <4>3 DEF Broadcast, Ingest
            <6>. QED
              BY <3>2, <5>1, <6>1 DEF ViewInv, Spent
          <5>3. CASE r \in Awaited
            <6>1. Range(log'[r]) = Range(log[r]) \union {e}
              BY <1>0, <5>1, AppendRange
            <6>2. \A f \in Range(log'[r]) : f \in seen' => f \in Spent'
              BY <2>3, <3>1, <5>2, <5>3, <6>1 DEF Follows
            <6>. QED
              BY <4>1, <5>3, <6>2 DEF Follows
          <5>4. CASE r \notin Awaited
            <6>1. PICK k \in Nat : Synced(r, k)
              BY <2>3, <5>4 DEF Follows
            <6>2. messages[r] \in History /\ k <= Len(log[r]) /\ Aligned(messages[r], log[r], k, reborn)
              BY <6>1 DEF Synced, ViewTypeOK
            <6>3. Aligned(messages'[r], log'[r], k, reborn')
              BY <1>0, <3>1, <5>1, <6>2, AlignedLonger
            <6>4. Len(log'[r]) = Len(log[r]) + 1 /\ Len(log[r]) \in Nat
              BY <1>0, <5>1, AppendIs
            <6>5. k <= Len(log'[r]) /\ ~(Len(log[r]) + 1 < k)
              BY <6>2, <6>4
            <6>6. \A b \in DOMAIN log'[r] :
                      /\ b < k => log'[r][b] \in Spent
                      /\ b > k => log'[r][b] \notin Spent \union seen
              BY <5>1, <5>2, <6>1, <6>5 DEF Synced
            <6>7. Synced(r, k)'
              BY <3>1, <5>2, <6>3, <6>5, <6>6 DEF Synced
            <6>. QED
              BY <4>1, <5>4, <6>7 DEF Follows
          <5>. QED
            BY <5>3, <5>4
        <4>4. log'[r] = log[r] \/ \E e \in Events : Ingest(e) /\ RoomOf[e] = r
          <5>1. \A e \in Events : Ingest(e) => (RoomOf[e] # r => log'[r] = log[r])
            BY IngestLog
          <5>. QED
            BY <5>1, LogGrows
        <4>. QED
          BY <4>2, <4>3, <4>4
      <3>. QED
        BY <3>3, <3>4
    <2>. QED
      BY <2>5, <2>6, <2>7, <2>8
  <1>. QED
    BY <1>2, <1>3

-----------------------------------------------------------------------------

\* The view's types, and what ties it to the daemon: a message that is held is
\* stored and recognised, a broadcast comes once, in the order of the log, and
\* before any repetition of it.
THEOREM ViewTypes == ViewSpec => [](ViewTypeOK /\ LogInv /\ WireInv /\ ViewInv)
  <1> DEFINE I == ViewTypeOK /\ LogInv /\ WireInv /\ ViewInv
  <1>1. ViewInit => I
    <2>. SUFFICES ASSUME ViewInit PROVE I
      OBVIOUS
    <2>1. /\ \A r \in Rooms : log[r] = << >> /\ messages[r] = << >>
          /\ seen = {} /\ glanced = {} /\ wire = << >> /\ reply = << >> /\ ingesting = None
      BY DEF ViewInit
    <2>2. Range(<< >>) = {} /\ DOMAIN << >> = {}
      BY DEF Range
    <2>. QED
      BY <2>1, <2>2, ViewTypesInit
         DEF LogInv, WireInv, MessagesInv, OrderInv, RepliesInv, ViewInv
  <1>2. I /\ [ViewNext]_viewVars => I'
    BY ViewTypesStep, LogInvStep, MessagesInvStep, OrderInvStep, RepliesInvStep, ViewInvStep
       DEF WireInv
  <1>. QED
    BY <1>1, <1>2, PTL DEF ViewSpec

\* A message is glanced at once, whatever is lost, pruned, asked for again or
\* broadcast again, unless it was broadcast again after it had been forgotten.
THEOREM GlancedAtMostOnce == ViewSpec => []GlancedOnce
  <1>1. ViewInit => GlanceInv
    <2>. SUFFICES ASSUME ViewInit PROVE GlanceInv
      OBVIOUS
    <2>1. /\ \A e \in Events : shows[e] = 0
          /\ Held(messages) = {}
      BY DEF ViewInit, Held, Range
    <2>. QED
      BY <2>1 DEF GlanceInv
  <1>2. (ViewTypeOK /\ LogInv /\ WireInv /\ ViewInv) /\ GlanceInv /\ [ViewNext]_viewVars => GlanceInv'
    BY GlanceInvStep
  <1>3. GlanceInv => GlancedOnce
    BY DEF GlanceInv, GlancedOnce
  <1>. QED
    BY <1>1, <1>2, <1>3, ViewTypes, PTL DEF ViewSpec


\* With nothing under way, what the frontend holds of a room is what the daemon
\* has stored last: after lost connections, restarts and pruning, for histories
\* that were read while messages came.  Apart are the rooms of which the daemon
\* gave up an event or a message overtook the history reply, until the view
\* starts over, and those that hold a message accepted a second time.
THEOREM ViewFollows == ViewSpec => []ViewFollowsDaemon
  <1> DEFINE I == ViewTypeOK /\ LogInv /\ WireInv /\ ViewInv
             J == RequestInv /\ ReplyInv /\ HistoryInv /\ SyncInv
  <1>1. ViewInit => J
    <2>. SUFFICES ASSUME ViewInit PROVE J
      OBVIOUS
    <2>1. link = "down" /\ asked = << >> /\ reply = << >> /\ wire = << >>
      BY DEF ViewInit
    <2>2. ~Live /\ DOMAIN << >> = {}
      BY <2>1 DEF Live
    <2>. QED
      BY <2>1, <2>2 DEF RequestInv, ReplyInv, HistoryInv, SyncInv
  <1>2. I /\ J /\ [ViewNext]_viewVars => J'
    BY RequestInvStep, ReplyInvStep, HistoryInvStep, SyncInvStep
  <1>3. I /\ J => ViewFollowsDaemon
    <2>. SUFFICES ASSUME I, J, Quiet, NEW r \in Rooms \ gaps,
                         Range(messages[r]) \intersect reborn = {}
                  PROVE  messages[r] = Newest(log[r], HistoryLimit)
      BY DEF ViewFollowsDaemon
    <2> DEFINE m == messages[r]
               l == log[r]
    <2>1. m \in Seq(Events) /\ l \in Seq(Events) /\ HistoryLimit \in Nat \ {0}
      BY FrontViewAssumption DEF ViewTypeOK, History
    <2>2. \A i \in DOMAIN wire : FALSE
      BY DEF Quiet
    <2>3. Live /\ r \notin Awaited
      <3>1. \A i \in DOMAIN asked : FALSE
        BY DEF Quiet
      <3>. QED
        BY <2>2, <3>1 DEF Quiet, Live, Awaited
    <2>4. PICK k \in Nat : Synced(r, k)
      BY <2>3 DEF SyncInv, Follows
    <2>5. \A a \in DOMAIN l : l[a] \in Spent
      <3>1. \A a \in DOMAIN l : l[a] \in Stored /\ l[a] \in Events
        BY LogStored
      <3>2. \A e \in Events : e # ingesting
        BY FrontViewAssumption DEF Quiet
      <3>. QED
        BY <2>2, <3>1, <3>2 DEF Spent
    <2>6. k = Len(l)
      <3>1. k <= Len(l) /\ \A a \in DOMAIN l : ~(a > k)
        BY <2>4, <2>5 DEF Synced
      <3>2. Len(l) \in Nat /\ DOMAIN l = 1..Len(l)
        BY <2>1
      <3>3. CASE k < Len(l)
        <4>1. Len(l) \in DOMAIN l /\ Len(l) > k
          BY <3>2, <3>3
        <4>. QED
          BY <3>1, <4>1
      <3>. QED
        BY <3>1, <3>2, <3>3
    <2>7. /\ Len(m) = (IF k < HistoryLimit THEN k ELSE HistoryLimit)
          /\ \A j \in DOMAIN m : m[j] = l[k + j - Len(m)]
      <3>1. Aligned(m, l, k, reborn) /\ Len(m) \in Nat /\ DOMAIN m = 1..Len(m)
        BY <2>1, <2>4 DEF Synced
      <3>2. \A j \in DOMAIN m : m[j] \notin reborn
        BY DEF Range
      <3>3. 1 \in 1..(Len(m) + 1) /\ \A j \in DOMAIN m : 1 <= j
        BY <3>1
      <3>. HIDE DEF m, l
      <3>. QED
        BY <3>1, <3>2, <3>3 DEF Aligned
    <2> DEFINE n == Newest(l, HistoryLimit)
    <2>8. /\ n \in Seq(Events) /\ Len(n) = (IF Len(l) > HistoryLimit THEN HistoryLimit ELSE Len(l))
          /\ \A j \in DOMAIN n : n[j] = l[Len(l) + j - Len(n)]
      BY <2>1, NewestIs
    <2>. HIDE DEF m, l, n
    <2>9. Len(m) = Len(n) /\ DOMAIN m = 1..Len(m) /\ DOMAIN n = 1..Len(n)
      <3>1. Len(l) \in Nat
        BY <2>1
      <3>. QED
        BY <2>1, <2>6, <2>7, <2>8, <3>1
    <2>10. \A j \in 1..Len(m) : m[j] = n[j]
      BY <2>6, <2>7, <2>8, <2>9
    <2>11. m = n
      BY <2>1, <2>8, <2>9, <2>10, SeqEqual
    <2>. QED
      BY <2>11 DEF m, n, l
  <1>. QED
    BY <1>1, <1>2, <1>3, ViewTypes, PTL DEF ViewSpec

=============================================================================
