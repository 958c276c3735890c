--------------------------- MODULE QuietdmdProofs ---------------------------
(***************************************************************************)
(* The two programs of the package quietdmd as they start: the daemon on   *)
(* its socket path, and the wizard that builds what the daemon runs with.  *)
(*                                                                         *)
(* Daemon: one socket path, any number of daemons, any number of starts,   *)
(* stops and kills: who is in service and met nobody on the way keeps the  *)
(* socket.  Setup: any number of runs, each cut off, failing or complete:  *)
(* one password, one account, and a bot whose lines are printed in order.  *)
(***************************************************************************)
EXTENDS Daemon, Setup, SequenceTheorems, WellFoundedInduction, TLAPS


\* The types, over every step of every process.
THEOREM DaemonTypeOK == Spec => []TypeOK
  <1>1. Init => TypeOK
    BY DaemonAssumption DEF Init, TypeOK, Starting
  <1>2. TypeOK /\ [Next]_vars => TypeOK'
    <2>. SUFFICES ASSUME TypeOK, [Next]_vars
                  PROVE  TypeOK'
      OBVIOUS
    <2>. USE DEF TypeOK, Starting, Goto
    <2>1. ASSUME NEW d \in Daemons, Start(d)
          PROVE  TypeOK'
      <3>1. met' \subseteq Daemons
        BY <2>1 DEF Start, Others
      <3>2. starts' \in 0..MaxStarts
        BY <2>1, DaemonAssumption DEF Start
      <3>. QED
        BY <2>1, <3>1, <3>2 DEF Start
    <2>2. ASSUME NEW d \in Daemons, StartUp(d)
          PROVE  TypeOK'
      BY <2>2 DEF StartUp, Stat, Dial, Remove, Bind, Listen, Chmod, Abandon
    <2>3. ASSUME NEW d \in Daemons, Stop(d)
          PROVE  TypeOK'
      BY <2>3 DEF Stop
    <2>4. ASSUME NEW d \in Daemons, ShutDown(d)
          PROVE  TypeOK'
      BY <2>4 DEF ShutDown, EnterClose, LeaveClose, Unlink, Shut, Clear, Exit, Gone
    <2>5. ASSUME NEW d \in Daemons, Kill(d)
          PROVE  TypeOK'
      BY <2>5 DEF Kill, Gone
    <2>6. CASE UNCHANGED vars
      BY <2>6 DEF vars
    <2>. QED
      BY <2>1, <2>2, <2>3, <2>4, <2>5, <2>6 DEF Next
  <1>. QED
    BY <1>1, <1>2, PTL DEF Spec

-----------------------------------------------------------------------------

\* A process that is not there listens to nothing, and only one on its way out
\* is in Close.
Gates ==
    \A d \in Daemons :
        /\ ~Lives(d) => d \notin listening
        /\ main[d] \in {"stat", "dial", "remove", "bind", "listen"} => d \notin listening
        /\ main[d] \in Starting \union {"run", "off", "killed"} => closing[d] = "no"

\* One that meets nobody is alone until it is in service, and finds at the path
\* what it left there itself.
Alone ==
    \A d \in Daemons :
        (main[d] \in Starting /\ d \notin met) =>
            /\ \A e \in Others(d) : ~Lives(e)
            /\ main[d] \in {"dial", "remove"} => path # None
            /\ main[d] = "bind" => path = None
            /\ main[d] \in {"listen", "chmod"} => path = d
            /\ main[d] = "chmod" => d \in listening
            /\ main[d] # "abandon"

\* In service, it sees others only before they are refused or just after.
Served ==
    \A d \in Daemons :
        (main[d] = "run" /\ d \notin met) =>
            /\ path = d /\ d \in listening
            /\ \A e \in Others(d) :
                /\ main[e] \in {"off", "killed", "stat", "dial", "exit"}
                /\ closing[e] = "no"

DInv == Gates /\ Alone /\ Served

\* Nobody is there yet.
LEMMA DaemonInit == Init => DInv
  BY DEF Init, DInv, Gates, Alone, Served, Starting, Lives, Others

\* A start: whoever is still starting has met somebody, and so has the new one
\* if anybody is there.
LEMMA StartKeeps ==
    ASSUME TypeOK, DInv, NEW s \in Daemons, Start(s)
    PROVE  DInv'
  <1>. USE DEF TypeOK, Starting, Others, Lives
  <1>1. /\ main' = [main EXCEPT ![s] = "stat"] /\ UNCHANGED <<path, listening, closing>>
        /\ main[s] \in {"off", "killed"}
    BY DEF Start, Goto
  <1>2. \A d \in Daemons : d \notin met' =>
            IF d = s THEN \A e \in Others(s) : ~Lives(e)
            ELSE d \notin met /\ main[d] \notin Starting
    BY DEF Start
  <1>3. Gates'
    BY <1>1 DEF DInv, Gates
  <1>4. Alone'
    BY <1>1, <1>2 DEF Alone
  <1>5. Served'
    BY <1>1, <1>2 DEF DInv, Served, Gates
  <1>. QED
    BY <1>3, <1>4, <1>5 DEF DInv

\* A step of the way into service.
LEMMA StartUpKeeps ==
    ASSUME TypeOK, DInv, NEW s \in Daemons, StartUp(s)
    PROVE  DInv'
  <1>. USE DEF TypeOK, Starting, Others, Lives, Goto
  <1>1. main[s] \in Starting /\ closing[s] = "no" /\ UNCHANGED <<closing, met>>
    BY DEF DInv, Gates, StartUp, Stat, Dial, Remove, Bind, Listen, Chmod, Abandon
  <1>2. \A e \in Others(s) : main'[e] = main[e] /\ (e \in listening' <=> e \in listening)
    BY DEF StartUp, Stat, Dial, Remove, Bind, Listen, Chmod, Abandon
  <1>3. main'[s] \in Starting \union {"run", "exit"}
    BY DEF StartUp, Stat, Dial, Remove, Bind, Listen, Chmod, Abandon
  <1>4. Gates'
    <2>1. main'[s] \in {"stat", "dial", "remove", "bind", "listen"} => s \notin listening'
      BY DEF DInv, Gates, StartUp, Stat, Dial, Remove, Bind, Listen, Chmod, Abandon
    <2>. QED
      BY <1>1, <1>2, <1>3, <2>1 DEF DInv, Gates
  <1>5. CASE s \notin met
    <2>1. \A e \in Others(s) : ~Lives(e) /\ e \notin listening /\ closing[e] = "no"
      BY <1>1, <1>5 DEF DInv, Alone, Gates
    <2>2. \/ main'[s] \in Starting \ {"abandon"}
          \/ main'[s] = "run"
      BY <1>5, <1>1, <2>1, DaemonAssumption
         DEF DInv, Alone, Gates, StartUp, Stat, Dial, Answers, Remove, Bind, Listen, Chmod, Abandon
    <2>3. /\ main'[s] \in {"dial", "remove"} => path' # None
          /\ main'[s] = "bind" => path' = None
          /\ main'[s] \in {"listen", "chmod", "run"} => path' = s
          /\ main'[s] \in {"chmod", "run"} => s \in listening'
      BY <1>5, <1>1, <2>1, DaemonAssumption
         DEF DInv, Alone, Gates, StartUp, Stat, Dial, Answers, Remove, Bind, Listen, Chmod, Abandon
    <2>4. Alone'
      BY <1>1, <1>2, <2>1, <2>2, <2>3 DEF Alone
    <2>5. Served'
      BY <1>1, <1>2, <2>1, <2>2, <2>3 DEF Served
    <2>. QED
      BY <1>4, <2>4, <2>5 DEF DInv
  <1>6. CASE s \in met
    <2>1. Alone'
      BY <1>1, <1>2, <1>6 DEF DInv, Alone
    <2>2. ASSUME NEW d \in Daemons, main'[d] = "run", d \notin met'
          PROVE  /\ path' = d /\ d \in listening'
                 /\ \A e \in Others(d) :
                     /\ main'[e] \in {"off", "killed", "stat", "dial", "exit"}
                     /\ closing'[e] = "no"
      <3>1. d # s /\ main[d] = "run" /\ d \notin met
        BY <1>1, <1>2, <1>6, <2>2
      <3>2. main[s] \in {"stat", "dial"} /\ path = d /\ d \in listening
        BY <1>1, <3>1 DEF DInv, Served
      <3>3. path' = path /\ listening' = listening /\ main'[s] \in {"dial", "exit"}
        BY <3>1, <3>2, DaemonAssumption
           DEF StartUp, Stat, Dial, Answers, Remove, Bind, Listen, Chmod, Abandon
      <3>. QED
        BY <1>1, <1>2, <3>1, <3>2, <3>3 DEF DInv, Served
    <2>3. Served'
      BY <2>2 DEF Served
    <2>. QED
      BY <1>4, <2>1, <2>3 DEF DInv
  <1>. QED
    BY <1>5, <1>6

\* A step of the way out: nobody who is alone or in service is in the way.
LEMMA ShutDownKeeps ==
    ASSUME TypeOK, DInv, NEW s \in Daemons, Stop(s) \/ ShutDown(s) \/ Kill(s)
    PROVE  DInv'
  <1>. USE DEF TypeOK, Starting, Others, Lives, Goto
  <1>. DEFINE Leaves == Stop(s) \/ EnterClose(s) \/ LeaveClose(s) \/ Exit(s) \/ Kill(s)
              Clears == Unlink(s) \/ Shut(s) \/ Clear(s)
  <1>1. CASE Leaves
    <2>1. UNCHANGED <<path, met>> /\ listening' \in {listening, listening \ {s}}
      BY <1>1 DEF Stop, EnterClose, LeaveClose, Exit, Kill, Gone
    <2>2. /\ \A e \in Others(s) : main'[e] = main[e] /\ closing'[e] = closing[e]
          /\ main'[s] \notin Starting \union {"run"}
          /\ ~Lives(s)' => s \notin listening' /\ closing'[s] = "no"
          /\ Lives(s)
      BY <1>1 DEF DInv, Gates, Stop, EnterClose, LeaveClose, Exit, Kill, Gone
    <2>3. \A d \in Others(s) : (main[d] = "run" /\ d \notin met) =>
              main'[s] \in {"off", "killed"} /\ closing'[s] = "no"
      BY <1>1 DEF DInv, Served, Stop, EnterClose, LeaveClose, Exit, Kill, Gone
    <2>4. Gates'
      BY <2>1, <2>2 DEF DInv, Gates
    <2>5. Alone'
      BY <2>1, <2>2 DEF DInv, Alone
    <2>6. Served'
      BY <2>1, <2>2, <2>3 DEF DInv, Served
    <2>. QED
      BY <2>4, <2>5, <2>6 DEF DInv
  <1>2. CASE Clears
    <2>1. UNCHANGED <<main, met>> /\ Lives(s) /\ main[s] \notin Starting \union {"run"}
      BY <1>2 DEF DInv, Gates, Unlink, Shut, Clear
    <2>2. /\ closing[s] # "no" /\ listening' \in {listening, listening \ {s}}
          /\ \A e \in Others(s) : closing'[e] = closing[e]
      BY <1>2 DEF Unlink, Shut, Clear
    <2>3. Gates'
      BY <2>1, <2>2 DEF DInv, Gates
    <2>4. Alone'
      BY <2>1, <2>2 DEF DInv, Alone
    <2>5. Served'
      BY <2>1, <2>2 DEF DInv, Served
    <2>. QED
      BY <2>3, <2>4, <2>5 DEF DInv
  <1>. QED
    BY <1>1, <1>2 DEF ShutDown

\* The invariant of all daemons together.
LEMMA DaemonInvariant == Spec => [](TypeOK /\ DInv)
  <1>1. TypeOK /\ DInv /\ [Next]_vars => DInv'
    <2>. SUFFICES ASSUME TypeOK, DInv, [Next]_vars
                  PROVE  DInv'
      OBVIOUS
    <2>1. CASE UNCHANGED vars
      BY <2>1 DEF vars, DInv, Gates, Alone, Served, Lives, Others
    <2>2. CASE Next
      BY <2>2, StartKeeps, StartUpKeeps, ShutDownKeeps DEF Next
    <2>. QED
      BY <2>1, <2>2
  <1>. QED
    BY <1>1, DaemonInit, DaemonTypeOK, PTL DEF Spec

-----------------------------------------------------------------------------

\* Whoever met no other daemon on its way into service stays reachable.
THEOREM DaemonReachable == Spec => []ServiceIsReachable
  <1>1. DInv => ServiceIsReachable
    BY DEF DInv, Served, ServiceIsReachable
  <1>. QED
    BY <1>1, DaemonInvariant, PTL

\* Two daemons are in service together only if each met another on its way.
THEOREM DaemonRefuses == Spec => []RefusesToTakeOver
  <1>1. DInv => RefusesToTakeOver
    BY DEF DInv, Served, RefusesToTakeOver, Others
  <1>. QED
    BY <1>1, DaemonInvariant, PTL


-----------------------------------------------------------------------------
(* Lines of the conversation                                               *)

\* Every set of natural numbers but the empty one has a least element: what
\* induction is done with here.
LEMMA LeastNatural ==
    ASSUME NEW T, T \subseteq Nat, T # {}
    PROVE  \E m \in T : \A k \in T : m <= k
<1> DEFINE Less == {p \in Nat \X Nat : p[1] < p[2]}
<1>1. IsWellFoundedOn(Less, Nat)
  BY NatLessThanWellFounded DEF OpToRel
<1>2. \E m \in T : \A k \in T : <<k, m>> \notin Less
  <2>. HIDE DEF Less
  <2>. QED
    BY <1>1, WFMin
<1>3. PICK m \in T : \A k \in T : <<k, m>> \notin Less
  BY <1>2
<1>4. \A k \in T : ~(k < m)
  BY <1>3
<1>. QED
  BY <1>4

\* The lines of the bot in s that come after the first, one by one.
LinesOf(s, first, n, f) ==
    f = [i \in 0..n |->
            IF i <= first THEN << >>
            ELSE IF s[i] = "bot" THEN Append(f[i - 1], i) ELSE f[i - 1]]

\* The definition of BotLines has a value for every i.
LEMMA LinesExist ==
    ASSUME NEW s, NEW first \in Nat, NEW n \in Nat
    PROVE  \E f : LinesOf(s, first, n, f)
<1> DEFINE T == {k \in Nat : ~ \E f : LinesOf(s, first, k, f)}
<1> SUFFICES T = {}
  OBVIOUS
<1>1. SUFFICES ASSUME T # {} PROVE FALSE
  OBVIOUS
<1>2. PICK m \in T : \A k \in T : m <= k
  <2>1. T \subseteq Nat
    OBVIOUS
  <2>. QED
    BY <1>1, <2>1, LeastNatural
<1>3. m # 0
  <2>1. LinesOf(s, first, 0, [i \in 0..0 |-> << >>])
    BY DEF LinesOf
  <2>. QED
    BY <2>1
<1>4. m - 1 \in Nat /\ m - 1 \notin T
  BY <1>2, <1>3
<1>5. PICK g : LinesOf(s, first, m - 1, g)
  BY <1>4
<1> DEFINE f == [i \in 0..m |->
                    IF i <= first THEN << >>
                    ELSE IF s[i] = "bot" THEN Append(g[i - 1], i) ELSE g[i - 1]]
<1>6. \A i \in 0..(m - 1) :
        g[i] = IF i <= first THEN << >>
               ELSE IF s[i] = "bot" THEN Append(g[i - 1], i) ELSE g[i - 1]
  BY <1>5 DEF LinesOf
<1>7. \A i \in 0..m : i \in Nat /\ (i # m => i \in 0..(m - 1)) /\ (~(i <= first) => i - 1 \in 0..m /\ i - 1 # m)
  BY <1>2
<1>8. \A i \in 0..m : i # m => f[i] = g[i]
  BY <1>6, <1>7
<1>9. \A i \in 0..m : ~(i <= first) => f[i - 1] = g[i - 1]
  <2>. HIDE DEF f
  <2>. QED
    BY <1>7, <1>8
<1>10. f = [i \in 0..m |->
               IF i <= first THEN << >>
               ELSE IF s[i] = "bot" THEN Append(f[i - 1], i) ELSE f[i - 1]]
  <2>1. \A i \in 0..m :
          (IF i <= first THEN << >>
           ELSE IF s[i] = "bot" THEN Append(g[i - 1], i) ELSE g[i - 1])
          = (IF i <= first THEN << >>
             ELSE IF s[i] = "bot" THEN Append(f[i - 1], i) ELSE f[i - 1])
    <3>. HIDE DEF f
    <3>. QED
      BY <1>9
  <2>2. \A i \in 0..m :
          f[i] = (IF i <= first THEN << >>
                  ELSE IF s[i] = "bot" THEN Append(f[i - 1], i) ELSE f[i - 1])
    <3>1. \A i \in 0..m :
            f[i] = (IF i <= first THEN << >>
                    ELSE IF s[i] = "bot" THEN Append(g[i - 1], i) ELSE g[i - 1])
      OBVIOUS
    <3>. HIDE DEF f
    <3>. QED
      BY <2>1, <3>1
  <2>3. f = [i \in 0..m |-> f[i]]
    OBVIOUS
  <2>. HIDE DEF f
  <2>. QED
    BY <2>2, <2>3
<1>. QED
  <2>. HIDE DEF f
  <2>1. LinesOf(s, first, m, f)
    BY <1>10 DEF LinesOf
  <2>. QED
    BY <1>2, <2>1

\* BotLines as a function of what was said.
Lines(s, first, last) == (CHOOSE f : LinesOf(s, first, last, f))[last]

LEMMA LinesAre ==
    ASSUME NEW s, NEW first \in Nat, NEW last \in Nat
    PROVE  \E f : LinesOf(s, first, last, f) /\ Lines(s, first, last) = f[last]
<1> DEFINE f == CHOOSE f : LinesOf(s, first, last, f)
<1>1. LinesOf(s, first, last, f)
  BY LinesExist
<1>2. Lines(s, first, last) = f[last]
  BY DEF Lines
<1>. QED
  BY <1>1, <1>2

LEMMA BotLinesAre ==
    ASSUME NEW first, NEW last
    PROVE  BotLines(first, last) = Lines(said, first, last)
BY DEF BotLines, Lines, LinesOf

LEMMA LineAt ==
    ASSUME NEW s, NEW first, NEW n, NEW f, LinesOf(s, first, n, f), NEW i \in 0..n
    PROVE  f[i] = IF i <= first THEN << >>
                  ELSE IF s[i] = "bot" THEN Append(f[i - 1], i) ELSE f[i - 1]
BY DEF LinesOf

\* Two such lists agree up to a line as far as what was said does.
LEMMA LinesAgree ==
    ASSUME NEW s, NEW t, NEW first \in Nat, NEW m \in Nat, NEW n \in Nat, NEW f, NEW g,
           LinesOf(s, first, m, f), LinesOf(t, first, n, g),
           NEW last \in Nat, last <= m, last <= n,
           \A k \in 1..last : s[k] = t[k]
    PROVE  f[last] = g[last]
<1> DEFINE T == {k \in 0..last : f[k] # g[k]}
<1>1. SUFFICES ASSUME T # {} PROVE FALSE
  OBVIOUS
<1>2. PICK k \in T : \A j \in T : k <= j
  <2>1. T \subseteq Nat
    OBVIOUS
  <2>. QED
    BY <1>1, <2>1, LeastNatural
<1> k \in 0..last /\ k \in 0..m /\ k \in 0..n /\ f[k] # g[k]
  OBVIOUS
<1>3. f[k] = IF k <= first THEN << >>
             ELSE IF s[k] = "bot" THEN Append(f[k - 1], k) ELSE f[k - 1]
  BY LineAt
<1>4. g[k] = IF k <= first THEN << >>
             ELSE IF t[k] = "bot" THEN Append(g[k - 1], k) ELSE g[k - 1]
  BY LineAt
<1>5. CASE k <= first
  BY <1>3, <1>4, <1>5
<1>6. CASE ~(k <= first)
  <2>1. k - 1 \in 0..last /\ ~(k <= k - 1) /\ k \in 1..last
    BY <1>6
  <2>2. f[k - 1] = g[k - 1]
    BY <1>2, <2>1
  <2>. QED
    BY <1>3, <1>4, <1>6, <2>1, <2>2
<1>. QED
  BY <1>5, <1>6

LEMMA LinesLonger ==
    ASSUME NEW s, NEW first \in Nat, NEW last \in Nat, NEW f, NEW g,
           LinesOf(s, first, last, f), LinesOf(s, first, last + 1, g)
    PROVE  f[last] = g[last]
<1>1. last + 1 \in Nat /\ last <= last /\ last <= last + 1
  OBVIOUS
<1>2. \A k \in 1..last : s[k] = s[k]
  OBVIOUS
<1>. QED
  BY <1>1, <1>2, LinesAgree, SMTT(30)

\* The lines one line further.
LEMMA LinesNext ==
    ASSUME NEW s, NEW first \in Nat, NEW last \in Nat
    PROVE  /\ last <= first => Lines(s, first, last) = << >>
           /\ first <= last =>
                Lines(s, first, last + 1) = IF s[last + 1] = "bot"
                                            THEN Append(Lines(s, first, last), last + 1)
                                            ELSE Lines(s, first, last)
<1>1. PICK f : LinesOf(s, first, last, f) /\ Lines(s, first, last) = f[last]
  BY LinesAre
<1>2. last + 1 \in Nat
  OBVIOUS
<1>3. PICK g : LinesOf(s, first, last + 1, g) /\ Lines(s, first, last + 1) = g[last + 1]
  BY <1>2, LinesAre
<1>4. last <= first => f[last] = << >>
  BY <1>1 DEF LinesOf
<1>5. f[last] = g[last]
  BY <1>1, <1>3, LinesLonger
<1>6. first <= last =>
        g[last + 1] = IF s[last + 1] = "bot" THEN Append(g[last], last + 1) ELSE g[last]
  <2>1. g[last + 1] = IF last + 1 <= first THEN << >>
                      ELSE IF s[last + 1] = "bot" THEN Append(g[(last + 1) - 1], last + 1)
                      ELSE g[(last + 1) - 1]
    BY <1>2, <1>3, LineAt
  <2>2. (last + 1) - 1 = last
    OBVIOUS
  <2>. QED
    BY <2>1, <2>2
<1>. QED
  BY <1>1, <1>3, <1>4, <1>5, <1>6

\* What was said up to a line settles the lines up to it.
LEMMA LinesKept ==
    ASSUME NEW s, NEW t, NEW first \in Nat, NEW last \in Nat, \A k \in 1..last : s[k] = t[k]
    PROVE  Lines(s, first, last) = Lines(t, first, last)
<1>1. PICK f : LinesOf(s, first, last, f) /\ Lines(s, first, last) = f[last]
  BY LinesAre
<1>2. PICK g : LinesOf(t, first, last, g) /\ Lines(t, first, last) = g[last]
  BY LinesAre
<1>3. last <= last
  OBVIOUS
<1>4. LinesOf(s, first, last, f) /\ LinesOf(t, first, last, g)
  BY <1>1, <1>2
<1>5. f[last] = g[last]
  BY <1>3, <1>4, LinesAgree, SMTT(60)
<1>. QED
  BY <1>1, <1>2, <1>5

LEMMA AppendOfConcat ==
    \A s, t \in Seq(Nat), x \in Nat : s \o Append(t, x) = Append(s \o t, x)
<1>. SUFFICES ASSUME NEW s \in Seq(Nat), NEW t \in Seq(Nat), NEW x \in Nat
              PROVE  s \o Append(t, x) = Append(s \o t, x)
  OBVIOUS
<1>1. s \o t \in Seq(Nat) /\ <<x>> \in Seq(Nat)
  BY ConcatProperties
<1>2. Append(t, x) = t \o <<x>> /\ Append(s \o t, x) = (s \o t) \o <<x>>
  BY <1>1, AppendIsConcat
<1>3. (s \o t) \o <<x>> = s \o (t \o <<x>>)
  BY <1>1, ConcatAssociative
<1>. QED
  BY <1>2, <1>3

\* Two stretches printed one after the other are the stretch from the first
\* line to the last.
LEMMA LinesJoin ==
    ASSUME NEW s, NEW a \in Nat, NEW b \in Nat, NEW c \in Nat, a <= b, b <= c
    PROVE  /\ Lines(s, a, c) \in Seq(Nat)
           /\ Lines(s, a, b) \o Lines(s, b, c) = Lines(s, a, c)
<1> DEFINE Good(n) == /\ Lines(s, a, n) \in Seq(Nat) /\ Lines(s, b, n) \in Seq(Nat)
                      /\ b <= n => Lines(s, a, b) \o Lines(s, b, n) = Lines(s, a, n)
           T == {n \in Nat : ~Good(n)}
<1>1. SUFFICES ASSUME T # {} PROVE FALSE
  <2>1. Good(c)
    BY <1>1
  <2>. QED
    BY <2>1
<1>2. PICK m \in T : \A k \in T : m <= k
  <2>1. T \subseteq Nat
    OBVIOUS
  <2>. QED
    BY <1>1, <2>1, LeastNatural
<1>3. m # 0
  <2>1. 0 <= a /\ 0 <= b /\ (b <= 0 => a <= 0 /\ b = 0)
    OBVIOUS
  <2>2. 0 <= a => Lines(s, a, 0) = << >>
    BY LinesNext, Zenon
  <2>3. 0 <= b => Lines(s, b, 0) = << >>
    BY LinesNext, Zenon
  <2>4. Good(0)
    <3>1. Lines(s, a, 0) = << >> /\ Lines(s, b, 0) = << >>
      BY <2>1, <2>2, <2>3
    <3>2. b <= 0 => Lines(s, a, b) = << >>
      BY <2>1, <3>1
    <3>3. << >> \in Seq(Nat) /\ << >> \o << >> = << >>
      OBVIOUS
    <3>. QED
      BY <3>1, <3>2, <3>3
  <2>. QED
    BY <2>4
<1>4. PICK n \in Nat : m = n + 1
  BY <1>3
<1>5. Good(n)
  BY <1>2, <1>4
<1>6. Good(n + 1)
  <2>1. ASSUME NEW x \in Nat, Lines(s, x, n) \in Seq(Nat)
        PROVE  /\ n + 1 <= x => Lines(s, x, n + 1) = << >>
               /\ x <= n => Lines(s, x, n + 1) = IF s[n + 1] = "bot"
                                                 THEN Append(Lines(s, x, n), n + 1)
                                                 ELSE Lines(s, x, n)
               /\ Lines(s, x, n + 1) \in Seq(Nat)
    <3>1. n + 1 \in Nat /\ (n + 1 <= x \/ x <= n)
      OBVIOUS
    <3>2. n + 1 <= x => Lines(s, x, n + 1) = << >>
      BY <3>1, LinesNext
    <3>3. x <= n => Lines(s, x, n + 1) = IF s[n + 1] = "bot"
                                         THEN Append(Lines(s, x, n), n + 1)
                                         ELSE Lines(s, x, n)
      BY LinesNext
    <3>4. Lines(s, x, n + 1) \in Seq(Nat)
      <4>1. << >> \in Seq(Nat) /\ Append(Lines(s, x, n), n + 1) \in Seq(Nat)
        BY <2>1
      <4>. QED
        BY <2>1, <3>1, <3>2, <3>3, <4>1
    <3>. QED
      BY <3>2, <3>3, <3>4
  <2>2. CASE b <= n
    <3>1. a <= n /\ Lines(s, a, b) \o Lines(s, b, n) = Lines(s, a, n)
      BY <1>5, <2>2
    <3>2. Lines(s, a, b) \in Seq(Nat)
      BY <1>2, <1>4, <2>2
    <3>3. Lines(s, a, b) \o Append(Lines(s, b, n), n + 1)
            = Append(Lines(s, a, b) \o Lines(s, b, n), n + 1)
      <4>1. Lines(s, b, n) \in Seq(Nat) /\ n + 1 \in Nat
        BY <1>5
      <4>. QED
        BY <3>2, <4>1, AppendOfConcat, Zenon
    <3>. QED
      BY <1>5, <2>1, <2>2, <3>1, <3>3
  <2>3. CASE ~(b <= n)
    <3>1. b <= n + 1 => b = n + 1
      BY <2>3
    <3>2. Lines(s, b, n + 1) = << >>
      BY <1>5, <2>1, <2>3
    <3>3. Lines(s, a, n + 1) \o << >> = Lines(s, a, n + 1)
      BY <1>5, <2>1
    <3>. QED
      BY <1>5, <2>1, <3>1, <3>2, <3>3
  <2>. QED
    BY <2>2, <2>3
<1>. QED
  BY <1>2, <1>4, <1>6

LEMMA LinesType ==
    ASSUME NEW s, NEW a \in Nat, NEW b \in Nat, a <= b
    PROVE  Lines(s, a, b) \in Seq(Nat)
<1>1. a <= a
  OBVIOUS
<1>. QED
  BY <1>1, LinesJoin

LEMMA LinesNone ==
    ASSUME NEW s, NEW a \in Nat
    PROVE  Lines(s, a, a) = << >>
<1>1. a <= a
  OBVIOUS
<1>. QED
  BY <1>1, LinesNext

-----------------------------------------------------------------------------
(* What a run of the wizard has done when it is past a step                *)

Chatting   == {"room", "greet", "baseline", "poll", "ask", "config", "done"}
Restarted  == {"back", "bridge"} \union Chatting
Registered == {"restart"} \union Restarted
Permitted  == {"registration", "second"} \union Registered
SignedIn   == {"bridgeYaml", "first", "permit"} \union Permitted
Started    == {"ready", "whoami", "register", "login"} \union SignedIn
Patched    == {"up"} \union Started

\* One password: what is written of it is the one in .env.
SecretInv ==
    /\ db # Absent => db = env
    /\ hs > Made => hs = env

ServerInv ==
    /\ pc \in Patched => hs = env
    /\ pc \in Started => synapse /\ db = env
    /\ pc \in Registered => registration
    /\ pc \in Restarted => loaded

AccountInv ==
    /\ pc = "login" => acct # Absent
    /\ pc \in SignedIn => acct # Absent /\ token = acct
    /\ pc \in Permitted => bridgeYaml # Torn /\ acct \in admits

\* Until a good token is given up, a container that may run admits the account
\* of the token or nobody, and a bridge that runs knows that account.
BridgeInv ==
    /\ bridge => container
    /\ bridgeYaml = Absent => admits = {} /\ pc # "permit"
    /\ (pc \in {"register", "login"} /\ container) => dropped
    /\ pc \in Chatting => bridge /\ (acct \in knows \/ dropped)
    /\ (container /\ ~dropped) =>
            /\ token # Absent
            /\ bridgeYaml # Torn => admits = {} \/ token \in admits
            /\ (bridgeYaml # Torn /\ bridge) => token \in admits /\ token \in knows

ConfigInv ==
    /\ force => forced
    /\ (hadOwn /\ ~forced) => config = Mine
    /\ pc = "done" => named = acct

\* Before the first poll of a run, nothing has been printed in it.
RelayInv == pc \notin {"off", "poll", "ask", "config", "done"} => shown = << >>

WizardInv == ServerInv /\ AccountInv /\ BridgeInv /\ ConfigInv

-----------------------------------------------------------------------------
(* The wizard's invariants, action by action                               *)

\* A container that ends takes the bridge with it.
LEMMA Detached ==
    ASSUME {bridge, container} \subseteq BOOLEAN,
           Detach \/ UNCHANGED <<bridge, container>>
    PROVE  /\ {bridge', container'} \subseteq BOOLEAN
           /\ container' => container
           /\ bridge' => bridge
           /\ (bridge => container) => (bridge' => container')
<1>1. CASE UNCHANGED <<bridge, container>>
  BY <1>1
<1>2. CASE container' \in {container, FALSE} /\ bridge' = (bridge /\ container')
  <2>1. container' \in BOOLEAN /\ (container' => container)
    <3>1. CASE container' = FALSE
      BY <3>1
    <3>2. CASE container' = container
      BY <3>2
    <3>. QED
      BY <1>2, <3>1, <3>2
  <2>2. bridge' \in BOOLEAN /\ (bridge' => bridge) /\ (bridge' => container')
    BY <1>2, Zenon
  <2>. QED
    BY <2>1, <2>2
<1>. QED
  BY <1>1, <1>2 DEF Detach

LEMMA TypesStep ==
    ASSUME SetupTypeOK, AccountInv, [SetupNext]_setupVars
    PROVE  SetupTypeOK'
<1>. USE DEF SetupTypeOK, Run, Then, Fault, UpBridge, Attached, Detach, Say, Absent, Torn, Mine, Made,
            wizard, server, user, secret, meta, chat, bound, past
<1>1. CASE StartSetup
  BY <1>1 DEF StartSetup
<1>2. CASE MaterializeStack
  BY <1>2 DEF MaterializeStack
<1>3. CASE GenerateSynapse
  BY <1>3 DEF GenerateSynapse
<1>4. CASE PatchSynapse
  BY <1>4 DEF PatchSynapse
<1>5. CASE StartSynapse
  BY <1>5 DEF StartSynapse
<1>6. CASE Ready("ready", "whoami")
  BY <1>6 DEF Ready
<1>7. CASE Ready("back", "bridge")
  BY <1>7 DEF Ready
<1>8. CASE Whoami
  BY <1>8 DEF Whoami
<1>9. CASE RegisterAdmin
  BY <1>9 DEF RegisterAdmin
<1>10. CASE Login
  BY <1>10 DEF Login
<1>11. CASE GenerateBridge
  BY <1>11 DEF GenerateBridge
<1>12. CASE PatchBridge
  BY <1>12 DEF PatchBridge, AccountInv, Chatting, Restarted, Registered, Permitted, SignedIn, Started, Patched
<1>13. CASE RegisterBridge
  BY <1>13 DEF RegisterBridge
<1>14. CASE RestartSynapse
  BY <1>14 DEF RestartSynapse
<1>15. CASE StartBridge
  BY <1>15 DEF StartBridge
<1>16. CASE FindRoom
  <2>1. acct \in 1..accounts
    BY <1>16 DEF FindRoom, AccountInv, Chatting, Restarted, Registered, Permitted, SignedIn, Started, Patched
  <2>2. Append(rooms, acct) \in Seq(1..accounts) /\ Len(Append(rooms, acct)) = Len(rooms) + 1
    BY <2>1
  <2>3. CASE room' \in Mates /\ rooms' = rooms
    BY <1>16, <2>3 DEF FindRoom, Mates
  <2>4. CASE rooms' = Append(rooms, acct) /\ room' = Len(rooms')
    <3>1. room' \in 1..Len(rooms') /\ 1..Len(rooms) \subseteq 1..Len(rooms')
      BY <2>2, <2>4
    <3>. QED
      BY <1>16, <2>2, <2>4, <3>1 DEF FindRoom
  <2>. QED
    BY <1>16, <2>3, <2>4 DEF FindRoom
<1>17. CASE Greet
  BY <1>17 DEF Greet
<1>18. CASE Baseline
  <2>1. Len(said) \in Nat
    OBVIOUS
  <2>. QED
    BY <1>18, <2>1 DEF Baseline
<1>19. CASE Poll
  <2>1. since \in Nat /\ Len(said) \in Nat /\ since <= Len(said)
    BY <1>19 DEF Poll
  <2>2. Lines(said, since, Len(said)) \in Seq(Nat)
    BY <2>1, LinesType
  <2>3. shown' \in Seq(Nat)
    BY <1>19, <2>2, BotLinesAre DEF Poll
  <2>4. since' \in 0..Len(said') /\ base' \in 0..since'
    BY <1>19, <2>1 DEF Poll
  <2>. QED
    BY <1>19, <2>3, <2>4 DEF Poll
<1>20. CASE Ask
  <2>1. said' = said \/ said' = Append(said, "me")
    BY <1>20 DEF Ask
  <2>2. said' \in Seq({"me", "bot"}) /\ Len(said') \in Nat /\ Len(said) <= Len(said')
    <3>1. /\ Append(said, "me") \in Seq({"me", "bot"})
          /\ Len(Append(said, "me")) = Len(said) + 1
      OBVIOUS
    <3>2. said \in Seq({"me", "bot"}) /\ Len(said) \in Nat
      OBVIOUS
    <3>. HIDE DEF SetupTypeOK
    <3>. QED
      BY <2>1, <3>1, <3>2
  <2>3. since' \in 0..Len(said') /\ base' \in 0..since'
    BY <1>20, <2>2 DEF Ask
  <2>. QED
    BY <1>20, <2>2, <2>3 DEF Ask
<1>21. CASE WriteConfig
  BY <1>21 DEF WriteConfig
<1>22. CASE BotJoins
  <2>1. joined' \subseteq 1..Len(rooms)
    BY <1>22 DEF BotJoins
  <2>2. /\ pc' = pc /\ passwords' = passwords /\ env' = env /\ db' = db /\ hs' = hs
        /\ accounts' = accounts /\ acct' = acct /\ token' = token /\ named' = named
        /\ bridgeYaml' = bridgeYaml /\ admits' = admits /\ knows' = knows
        /\ rooms' = rooms /\ room' = room /\ said' = said /\ since' = since /\ base' = base
        /\ shown' = shown /\ config' = config /\ synapse' = synapse /\ loaded' = loaded
        /\ registration' = registration /\ bridge' = bridge /\ container' = container
        /\ force' = force
        /\ hadOwn' = hadOwn /\ forced' = forced /\ dropped' = dropped
    BY <1>22 DEF BotJoins
  <2>3. joined' \subseteq 1..Len(rooms') /\ rooms' \in Seq(1..accounts')
    BY <2>1, <2>2
  <2>. QED
    BY <2>2, <2>3
<1>23. CASE BotSpeaks
  BY <1>23 DEF BotSpeaks
<1>24. CASE Interrupt
  <2>1. {bridge', container'} \subseteq BOOLEAN
    BY <1>24, Detached DEF Interrupt
  <2>2. UNCHANGED <<wizard, server, user, secret, bridgeYaml, admits, registration, knows, chat, config, past>>
    BY <1>24 DEF Interrupt
  <2>3. pc' = "off"
    BY <1>24 DEF Interrupt
  <2>. QED
    BY <2>1, <2>2, <2>3
<1>25. CASE Reboot
  BY <1>25 DEF Reboot
<1>27. CASE UpBridgeReturns
  <2>1. {bridge', container'} \subseteq BOOLEAN
    BY <1>27, Detached DEF UpBridgeReturns
  <2>2. UNCHANGED <<wizard, server, user, secret, bridgeYaml, admits, registration, knows, chat, config, past>>
    BY <1>27 DEF UpBridgeReturns
  <2>3. pc' \in {"permit", "restart"}
    BY <1>27 DEF UpBridgeReturns
  <2>. QED
    BY <2>1, <2>2, <2>3
<1>28. CASE BridgePass
  <2>1. knows' \in {knows, admits} /\ bridgeYaml' \in {bridgeYaml, Made} /\ admits' = admits
    BY <1>28 DEF BridgePass
  <2>2. registration' \in {registration, TRUE} /\ bridge' \in {bridge, TRUE} /\ container' = container
    BY <1>28 DEF BridgePass
  <2>3. UNCHANGED <<pc, wizard, server, user, secret, chat, config, bound, past>>
    BY <1>28 DEF BridgePass
  <2>4. admits' \union knows' \subseteq 1..accounts' /\ bridgeYaml' \in {Absent, Torn, Made}
    BY <2>1, <2>3
  <2>5. {registration', bridge', container'} \subseteq BOOLEAN
    BY <2>2
  <2>. QED
    BY <2>3, <2>4, <2>5
<1>26. CASE UNCHANGED setupVars
  BY <1>26 DEF setupVars
<1>. QED
  BY <1>1, <1>2, <1>3, <1>4, <1>5, <1>6, <1>7, <1>8, <1>9, <1>10, <1>11, <1>12, <1>13, <1>14, <1>15,
     <1>16, <1>17, <1>18, <1>19, <1>20, <1>21, <1>22, <1>23, <1>24, <1>25, <1>26, <1>27, <1>28
  DEF SetupNext, Steps

LEMMA AccountInvStep ==
    ASSUME SetupTypeOK, AccountInv, [SetupNext]_setupVars
    PROVE  AccountInv'
<1>. USE DEF SetupTypeOK, AccountInv,
            Chatting, Restarted, Registered, Permitted, SignedIn, Started, Patched,
            Run, Then, Fault, UpBridge, Attached, Detach, Say, Absent, Torn, Mine, Made,
            wizard, server, user, secret, meta, chat, bound, past
<1>1. CASE StartSetup
  BY <1>1 DEF StartSetup
<1>2. CASE MaterializeStack
  BY <1>2 DEF MaterializeStack
<1>3. CASE GenerateSynapse
  BY <1>3 DEF GenerateSynapse
<1>4. CASE PatchSynapse
  BY <1>4 DEF PatchSynapse
<1>5. CASE StartSynapse
  BY <1>5 DEF StartSynapse
<1>6. CASE Ready("ready", "whoami")
  BY <1>6 DEF Ready
<1>7. CASE Ready("back", "bridge")
  BY <1>7 DEF Ready
<1>8. CASE Whoami
  BY <1>8 DEF Whoami
<1>9. CASE RegisterAdmin
  BY <1>9 DEF RegisterAdmin
<1>10. CASE Login
  BY <1>10 DEF Login
<1>11. CASE GenerateBridge
  BY <1>11 DEF GenerateBridge
<1>12. CASE PatchBridge
  BY <1>12 DEF PatchBridge
<1>13. CASE RegisterBridge
  BY <1>13 DEF RegisterBridge
<1>14. CASE RestartSynapse
  BY <1>14 DEF RestartSynapse
<1>15. CASE StartBridge
  BY <1>15 DEF StartBridge
<1>16. CASE FindRoom
  BY <1>16 DEF FindRoom
<1>17. CASE Greet
  BY <1>17 DEF Greet
<1>18. CASE Baseline
  BY <1>18 DEF Baseline
<1>19. CASE Poll
  BY <1>19 DEF Poll
<1>20. CASE Ask
  BY <1>20 DEF Ask
<1>21. CASE WriteConfig
  BY <1>21 DEF WriteConfig
<1>22. CASE BotJoins
  BY <1>22 DEF BotJoins
<1>23. CASE BotSpeaks
  BY <1>23 DEF BotSpeaks
<1>24. CASE Interrupt
  BY <1>24 DEF Interrupt
<1>25. CASE Reboot
  BY <1>25 DEF Reboot
<1>27. CASE UpBridgeReturns
  BY <1>27 DEF UpBridgeReturns
<1>28. CASE BridgePass
  BY <1>28 DEF BridgePass
<1>26. CASE UNCHANGED setupVars
  BY <1>26 DEF setupVars
<1>. QED
  BY <1>1, <1>2, <1>3, <1>4, <1>5, <1>6, <1>7, <1>8, <1>9, <1>10, <1>11, <1>12, <1>13, <1>14, <1>15,
     <1>16, <1>17, <1>18, <1>19, <1>20, <1>21, <1>22, <1>23, <1>24, <1>25, <1>26, <1>27, <1>28
  DEF SetupNext, Steps

LEMMA ServerInvStep ==
    ASSUME SetupTypeOK, SecretInv, ServerInv, [SetupNext]_setupVars
    PROVE  ServerInv'
<1>. USE DEF SetupTypeOK, SecretInv, ServerInv,
            Chatting, Restarted, Registered, Permitted, SignedIn, Started, Patched,
            Run, Then, Fault, UpBridge, Attached, Detach, Say, Absent, Torn, Mine, Made,
            wizard, server, user, secret, meta, chat, bound, past
<1>1. CASE StartSetup
  BY <1>1 DEF StartSetup
<1>2. CASE MaterializeStack
  BY <1>2 DEF MaterializeStack
<1>3. CASE GenerateSynapse
  BY <1>3 DEF GenerateSynapse
<1>4. CASE PatchSynapse
  BY <1>4 DEF PatchSynapse
<1>5. CASE StartSynapse
  BY <1>5 DEF StartSynapse
<1>6. CASE Ready("ready", "whoami")
  BY <1>6 DEF Ready
<1>7. CASE Ready("back", "bridge")
  BY <1>7 DEF Ready
<1>8. CASE Whoami
  BY <1>8 DEF Whoami
<1>9. CASE RegisterAdmin
  BY <1>9 DEF RegisterAdmin
<1>10. CASE Login
  BY <1>10 DEF Login
<1>11. CASE GenerateBridge
  BY <1>11 DEF GenerateBridge
<1>12. CASE PatchBridge
  BY <1>12 DEF PatchBridge
<1>13. CASE RegisterBridge
  BY <1>13 DEF RegisterBridge
<1>14. CASE RestartSynapse
  BY <1>14 DEF RestartSynapse
<1>15. CASE StartBridge
  BY <1>15 DEF StartBridge
<1>16. CASE FindRoom
  BY <1>16 DEF FindRoom
<1>17. CASE Greet
  BY <1>17 DEF Greet
<1>18. CASE Baseline
  BY <1>18 DEF Baseline
<1>19. CASE Poll
  BY <1>19 DEF Poll
<1>20. CASE Ask
  BY <1>20 DEF Ask
<1>21. CASE WriteConfig
  BY <1>21 DEF WriteConfig
<1>22. CASE BotJoins
  BY <1>22 DEF BotJoins
<1>23. CASE BotSpeaks
  BY <1>23 DEF BotSpeaks
<1>24. CASE Interrupt
  BY <1>24 DEF Interrupt
<1>25. CASE Reboot
  BY <1>25 DEF Reboot
<1>27. CASE UpBridgeReturns
  BY <1>27 DEF UpBridgeReturns
<1>28. CASE BridgePass
  BY <1>28 DEF BridgePass
<1>26. CASE UNCHANGED setupVars
  BY <1>26 DEF setupVars
<1>. QED
  BY <1>1, <1>2, <1>3, <1>4, <1>5, <1>6, <1>7, <1>8, <1>9, <1>10, <1>11, <1>12, <1>13, <1>14, <1>15,
     <1>16, <1>17, <1>18, <1>19, <1>20, <1>21, <1>22, <1>23, <1>24, <1>25, <1>26, <1>27, <1>28
  DEF SetupNext, Steps

LEMMA BridgeInvStep ==
    ASSUME SetupTypeOK, AccountInv, BridgeInv, [SetupNext]_setupVars
    PROVE  BridgeInv'
<1>. USE DEF SetupTypeOK, AccountInv, BridgeInv,
            Chatting, Restarted, Registered, Permitted, SignedIn, Started, Patched,
            Run, Then, Fault, UpBridge, Attached, Detach, Say, Absent, Torn, Mine, Made,
            wizard, server, user, secret, meta, chat, bound, past
<1>1. CASE StartSetup
  BY <1>1 DEF StartSetup
<1>2. CASE MaterializeStack
  BY <1>2 DEF MaterializeStack
<1>3. CASE GenerateSynapse
  BY <1>3 DEF GenerateSynapse
<1>4. CASE PatchSynapse
  BY <1>4 DEF PatchSynapse
<1>5. CASE StartSynapse
  BY <1>5 DEF StartSynapse
<1>6. CASE Ready("ready", "whoami")
  BY <1>6 DEF Ready
<1>7. CASE Ready("back", "bridge")
  BY <1>7 DEF Ready
<1>8. CASE Whoami
  BY <1>8 DEF Whoami
<1>9. CASE RegisterAdmin
  BY <1>9 DEF RegisterAdmin
<1>10. CASE Login
  BY <1>10 DEF Login
<1>11. CASE GenerateBridge
  BY <1>11 DEF GenerateBridge
<1>12. CASE PatchBridge
  BY <1>12 DEF PatchBridge
<1>13. CASE RegisterBridge
  BY <1>13 DEF RegisterBridge
<1>14. CASE RestartSynapse
  BY <1>14 DEF RestartSynapse
<1>15. CASE StartBridge
  BY <1>15 DEF StartBridge
<1>16. CASE FindRoom
  BY <1>16 DEF FindRoom
<1>17. CASE Greet
  BY <1>17 DEF Greet
<1>18. CASE Baseline
  BY <1>18 DEF Baseline
<1>19. CASE Poll
  BY <1>19 DEF Poll
<1>20. CASE Ask
  BY <1>20 DEF Ask
<1>21. CASE WriteConfig
  BY <1>21 DEF WriteConfig
<1>22. CASE BotJoins
  BY <1>22 DEF BotJoins
<1>23. CASE BotSpeaks
  BY <1>23 DEF BotSpeaks
<1>24. CASE Interrupt
  BY <1>24 DEF Interrupt
<1>25. CASE Reboot
  BY <1>25 DEF Reboot
<1>27. CASE UpBridgeReturns
  <2>1. /\ UNCHANGED <<acct, token, bridgeYaml, admits, knows, dropped>>
        /\ pc' \in {"permit", "restart"} /\ (pc' = "permit" => bridgeYaml # Absent)
    BY <1>27 DEF UpBridgeReturns
  <2>2. (container' => container) /\ (bridge' => bridge) /\ (bridge' => container')
    BY <1>27, Detached DEF UpBridgeReturns
  <2>. QED
    BY <2>1, <2>2
<1>28. CASE BridgePass
  BY <1>28 DEF BridgePass
<1>26. CASE UNCHANGED setupVars
  BY <1>26 DEF setupVars
<1>. QED
  BY <1>1, <1>2, <1>3, <1>4, <1>5, <1>6, <1>7, <1>8, <1>9, <1>10, <1>11, <1>12, <1>13, <1>14, <1>15,
     <1>16, <1>17, <1>18, <1>19, <1>20, <1>21, <1>22, <1>23, <1>24, <1>25, <1>26, <1>27, <1>28
  DEF SetupNext, Steps

LEMMA ConfigInvStep ==
    ASSUME SetupTypeOK, ConfigInv, [SetupNext]_setupVars
    PROVE  ConfigInv'
<1>. USE DEF SetupTypeOK, ConfigInv,
            Run, Then, Fault, UpBridge, Attached, Detach, Say, Absent, Torn, Mine, Made,
            wizard, server, user, secret, meta, chat, bound, past
<1>1. CASE StartSetup
  BY <1>1 DEF StartSetup
<1>2. CASE MaterializeStack
  BY <1>2 DEF MaterializeStack
<1>3. CASE GenerateSynapse
  BY <1>3 DEF GenerateSynapse
<1>4. CASE PatchSynapse
  BY <1>4 DEF PatchSynapse
<1>5. CASE StartSynapse
  BY <1>5 DEF StartSynapse
<1>6. CASE Ready("ready", "whoami")
  BY <1>6 DEF Ready
<1>7. CASE Ready("back", "bridge")
  BY <1>7 DEF Ready
<1>8. CASE Whoami
  BY <1>8 DEF Whoami
<1>9. CASE RegisterAdmin
  BY <1>9 DEF RegisterAdmin
<1>10. CASE Login
  BY <1>10 DEF Login
<1>11. CASE GenerateBridge
  BY <1>11 DEF GenerateBridge
<1>12. CASE PatchBridge
  BY <1>12 DEF PatchBridge
<1>13. CASE RegisterBridge
  BY <1>13 DEF RegisterBridge
<1>14. CASE RestartSynapse
  BY <1>14 DEF RestartSynapse
<1>15. CASE StartBridge
  BY <1>15 DEF StartBridge
<1>16. CASE FindRoom
  BY <1>16 DEF FindRoom
<1>17. CASE Greet
  BY <1>17 DEF Greet
<1>18. CASE Baseline
  BY <1>18 DEF Baseline
<1>19. CASE Poll
  BY <1>19 DEF Poll
<1>20. CASE Ask
  BY <1>20 DEF Ask
<1>21. CASE WriteConfig
  BY <1>21 DEF WriteConfig
<1>22. CASE BotJoins
  BY <1>22 DEF BotJoins
<1>23. CASE BotSpeaks
  BY <1>23 DEF BotSpeaks
<1>24. CASE Interrupt
  BY <1>24 DEF Interrupt
<1>25. CASE Reboot
  BY <1>25 DEF Reboot
<1>27. CASE UpBridgeReturns
  BY <1>27 DEF UpBridgeReturns
<1>28. CASE BridgePass
  BY <1>28 DEF BridgePass
<1>26. CASE UNCHANGED setupVars
  BY <1>26 DEF setupVars
<1>. QED
  BY <1>1, <1>2, <1>3, <1>4, <1>5, <1>6, <1>7, <1>8, <1>9, <1>10, <1>11, <1>12, <1>13, <1>14, <1>15,
     <1>16, <1>17, <1>18, <1>19, <1>20, <1>21, <1>22, <1>23, <1>24, <1>25, <1>26, <1>27, <1>28
  DEF SetupNext, Steps

LEMMA SecretInvStep ==
    ASSUME SetupTypeOK, SecretInv, [SetupNext]_setupVars
    PROVE  SecretInv'
<1>. USE DEF SetupTypeOK, SecretInv,
            Run, Then, Fault, UpBridge, Attached, Detach, Say, Absent, Torn, Mine, Made,
            wizard, server, user, secret, meta, chat, bound, past
<1>1. CASE StartSetup
  BY <1>1 DEF StartSetup
<1>2. CASE MaterializeStack
  BY <1>2 DEF MaterializeStack
<1>3. CASE GenerateSynapse
  BY <1>3 DEF GenerateSynapse
<1>4. CASE PatchSynapse
  BY <1>4 DEF PatchSynapse
<1>5. CASE StartSynapse
  BY <1>5 DEF StartSynapse
<1>6. CASE Ready("ready", "whoami")
  BY <1>6 DEF Ready
<1>7. CASE Ready("back", "bridge")
  BY <1>7 DEF Ready
<1>8. CASE Whoami
  BY <1>8 DEF Whoami
<1>9. CASE RegisterAdmin
  BY <1>9 DEF RegisterAdmin
<1>10. CASE Login
  BY <1>10 DEF Login
<1>11. CASE GenerateBridge
  BY <1>11 DEF GenerateBridge
<1>12. CASE PatchBridge
  BY <1>12 DEF PatchBridge
<1>13. CASE RegisterBridge
  BY <1>13 DEF RegisterBridge
<1>14. CASE RestartSynapse
  BY <1>14 DEF RestartSynapse
<1>15. CASE StartBridge
  BY <1>15 DEF StartBridge
<1>16. CASE FindRoom
  BY <1>16 DEF FindRoom
<1>17. CASE Greet
  BY <1>17 DEF Greet
<1>18. CASE Baseline
  BY <1>18 DEF Baseline
<1>19. CASE Poll
  BY <1>19 DEF Poll
<1>20. CASE Ask
  BY <1>20 DEF Ask
<1>21. CASE WriteConfig
  BY <1>21 DEF WriteConfig
<1>22. CASE BotJoins
  BY <1>22 DEF BotJoins
<1>23. CASE BotSpeaks
  BY <1>23 DEF BotSpeaks
<1>24. CASE Interrupt
  BY <1>24 DEF Interrupt
<1>25. CASE Reboot
  BY <1>25 DEF Reboot
<1>27. CASE UpBridgeReturns
  BY <1>27 DEF UpBridgeReturns
<1>28. CASE BridgePass
  BY <1>28 DEF BridgePass
<1>26. CASE UNCHANGED setupVars
  BY <1>26 DEF setupVars
<1>. QED
  BY <1>1, <1>2, <1>3, <1>4, <1>5, <1>6, <1>7, <1>8, <1>9, <1>10, <1>11, <1>12, <1>13, <1>14, <1>15,
     <1>16, <1>17, <1>18, <1>19, <1>20, <1>21, <1>22, <1>23, <1>24, <1>25, <1>26, <1>27, <1>28
  DEF SetupNext, Steps

LEMMA RelayInvStep ==
    ASSUME RelayInv, [SetupNext]_setupVars
    PROVE  RelayInv'
<1>. USE DEF RelayInv, Run, Then, Fault, UpBridge, Attached, Detach, Say, Absent, Torn, Mine, Made,
            wizard, server, user, secret, meta, chat, bound, past
<1>1. CASE StartSetup
  BY <1>1 DEF StartSetup
<1>2. CASE MaterializeStack
  BY <1>2 DEF MaterializeStack
<1>3. CASE GenerateSynapse
  BY <1>3 DEF GenerateSynapse
<1>4. CASE PatchSynapse
  BY <1>4 DEF PatchSynapse
<1>5. CASE StartSynapse
  BY <1>5 DEF StartSynapse
<1>6. CASE Ready("ready", "whoami")
  BY <1>6 DEF Ready
<1>7. CASE Ready("back", "bridge")
  BY <1>7 DEF Ready
<1>8. CASE Whoami
  BY <1>8 DEF Whoami
<1>9. CASE RegisterAdmin
  BY <1>9 DEF RegisterAdmin
<1>10. CASE Login
  BY <1>10 DEF Login
<1>11. CASE GenerateBridge
  BY <1>11 DEF GenerateBridge
<1>12. CASE PatchBridge
  BY <1>12 DEF PatchBridge
<1>13. CASE RegisterBridge
  BY <1>13 DEF RegisterBridge
<1>14. CASE RestartSynapse
  BY <1>14 DEF RestartSynapse
<1>15. CASE StartBridge
  BY <1>15 DEF StartBridge
<1>16. CASE FindRoom
  BY <1>16 DEF FindRoom
<1>17. CASE Greet
  BY <1>17 DEF Greet
<1>18. CASE Baseline
  BY <1>18 DEF Baseline
<1>19. CASE Poll
  BY <1>19 DEF Poll
<1>20. CASE Ask
  BY <1>20 DEF Ask
<1>21. CASE WriteConfig
  BY <1>21 DEF WriteConfig
<1>22. CASE BotJoins
  BY <1>22 DEF BotJoins
<1>23. CASE BotSpeaks
  BY <1>23 DEF BotSpeaks
<1>24. CASE Interrupt
  BY <1>24 DEF Interrupt
<1>25. CASE Reboot
  BY <1>25 DEF Reboot
<1>27. CASE UpBridgeReturns
  BY <1>27 DEF UpBridgeReturns
<1>28. CASE BridgePass
  BY <1>28 DEF BridgePass
<1>26. CASE UNCHANGED setupVars
  BY <1>26 DEF setupVars
<1>. QED
  BY <1>1, <1>2, <1>3, <1>4, <1>5, <1>6, <1>7, <1>8, <1>9, <1>10, <1>11, <1>12, <1>13, <1>14, <1>15,
     <1>16, <1>17, <1>18, <1>19, <1>20, <1>21, <1>22, <1>23, <1>24, <1>25, <1>26, <1>27, <1>28
  DEF SetupNext, Steps

LEMMA RelayStep ==
    ASSUME SetupTypeOK, RelayInv, BotIsRelayed, [SetupNext]_setupVars
    PROVE  BotIsRelayed'
<1>. USE DEF SetupTypeOK
<1>1. BotIsRelayed' <=> shown' = Lines(said', base', since')
  BY DEF BotIsRelayed, BotLines, Lines, LinesOf
<1>2. shown = Lines(said, base, since) /\ base \in Nat /\ since \in Nat /\ base <= since
  BY BotLinesAre DEF BotIsRelayed
<1>3. CASE StartSetup
  <2>1. Lines(said', 0, 0) = << >>
    BY LinesNone
  <2>. QED
    BY <1>1, <1>3, <2>1 DEF StartSetup
<1>4. CASE Poll
  <2>1. since' = Len(said) /\ since' \in Nat /\ since <= since'
    BY <1>4 DEF Poll, Run
  <2>2. shown' = shown \o Lines(said, since, since') /\ base' = base /\ said' = said
    BY <1>4, BotLinesAre DEF Poll
  <2>. QED
    <3>. HIDE DEF SetupTypeOK
    <3>1. Lines(said, base, since) \o Lines(said, since, since') = Lines(said, base, since')
      BY <1>2, <2>1, LinesJoin
    <3>. QED
      BY <1>1, <1>2, <2>2, <3>1
<1>5. CASE Baseline /\ since' = Len(said) /\ base' = since'
  <2>1. shown' = << >>
    BY <1>5 DEF Baseline, RelayInv, Run
  <2>2. since' \in Nat
    BY <1>5
  <2>3. Lines(said', since', since') = << >>
    BY <2>2, LinesNone
  <2>. QED
    BY <1>1, <1>5, <2>1, <2>3
<1>6. CASE /\ UNCHANGED <<base, since, shown>>
           /\ said' = said \/ \E w : said' = Append(said, w)
  <2>1. \A k \in 1..since : said[k] = said'[k]
    <3>1. CASE said' = said
      BY <3>1
    <3>2. ASSUME NEW w, said' = Append(said, w)
          PROVE  \A k \in 1..since : said[k] = said'[k]
      BY <3>2
    <3>. QED
      BY <1>6, <3>1, <3>2
  <2>. QED
    BY <1>1, <1>2, <1>6, <2>1, LinesKept
<1>7. StartSetup \/ Poll \/ (Baseline /\ since' = Len(said) /\ base' = since')
        \/ (/\ UNCHANGED <<base, since, shown>>
            /\ said' = said \/ \E w : said' = Append(said, w))
  <2>. USE DEF Say, chat, wizard
<2>1. CASE StartSetup
    BY <2>1 DEF StartSetup
<2>2. CASE MaterializeStack
    BY <2>2 DEF MaterializeStack
<2>3. CASE GenerateSynapse
    BY <2>3 DEF GenerateSynapse
<2>4. CASE PatchSynapse
    BY <2>4 DEF PatchSynapse
<2>5. CASE StartSynapse
    BY <2>5 DEF StartSynapse
<2>6. CASE Ready("ready", "whoami")
    BY <2>6 DEF Ready
<2>7. CASE Ready("back", "bridge")
    BY <2>7 DEF Ready
<2>8. CASE Whoami
    BY <2>8 DEF Whoami
<2>9. CASE RegisterAdmin
    BY <2>9 DEF RegisterAdmin
<2>10. CASE Login
    BY <2>10 DEF Login
<2>11. CASE GenerateBridge
    BY <2>11 DEF GenerateBridge
<2>12. CASE PatchBridge
    BY <2>12 DEF PatchBridge
<2>13. CASE RegisterBridge
    BY <2>13 DEF RegisterBridge
<2>14. CASE RestartSynapse
    BY <2>14 DEF RestartSynapse
<2>15. CASE StartBridge
    BY <2>15 DEF StartBridge
<2>16. CASE FindRoom
    BY <2>16 DEF FindRoom
<2>17. CASE Greet
    BY <2>17 DEF Greet
<2>18. CASE Baseline
    BY <2>18 DEF Baseline
<2>19. CASE Poll
    BY <2>19 DEF Poll
<2>20. CASE Ask
    BY <2>20 DEF Ask
<2>21. CASE WriteConfig
    BY <2>21 DEF WriteConfig
<2>22. CASE BotJoins
    BY <2>22 DEF BotJoins
<2>23. CASE BotSpeaks
    BY <2>23 DEF BotSpeaks
<2>24. CASE Interrupt
    BY <2>24 DEF Interrupt
<2>25. CASE Reboot
    BY <2>25 DEF Reboot
<2>27. CASE UpBridgeReturns
    BY <2>27 DEF UpBridgeReturns
<2>28. CASE BridgePass
    BY <2>28 DEF BridgePass
<2>26. CASE UNCHANGED setupVars
    BY <2>26 DEF setupVars
<2>. QED
    BY <2>1, <2>2, <2>3, <2>4, <2>5, <2>6, <2>7, <2>8, <2>9, <2>10, <2>11, <2>12, <2>13, <2>14, <2>15,
       <2>16, <2>17, <2>18, <2>19, <2>20, <2>21, <2>22, <2>23, <2>24, <2>25, <2>26, <2>27, <2>28
    DEF SetupNext, Steps
<1>. QED
  BY <1>3, <1>4, <1>5, <1>6, <1>7

-----------------------------------------------------------------------------
(* What the wizard promises                                                *)

\* Every file, account and step of the wizard, and the state of the containers,
\* keep their types through any number of runs, failures and restarts; a wizard
\* past its login has an account (setup.go:144-192).
THEOREM SetupTypes == SetupSpec => [](SetupTypeOK /\ AccountInv)
<1>1. SetupInit => SetupTypeOK /\ AccountInv
  <2>. SUFFICES ASSUME SetupInit PROVE SetupTypeOK /\ AccountInv
    OBVIOUS
  <2>1. /\ rooms \in Seq(1..accounts) /\ joined \subseteq 1..Len(rooms)
        /\ said \in Seq({"me", "bot"}) /\ Len(said) = 0 /\ shown \in Seq(Nat)
    BY DEF SetupInit
  <2>2. admits \union knows \subseteq 1..accounts
    BY DEF SetupInit
  <2>3. SetupTypeOK
    <3>1. {env, db} \subseteq {Absent} /\ {acct, token, named} \subseteq {Absent}
            /\ hs = Absent /\ bridgeYaml = Absent /\ room = Absent /\ config \in {Absent, Mine}
      BY DEF SetupInit
    <3>2. since \in 0..Len(said) /\ base \in 0..since /\ passwords \in Nat /\ accounts \in Nat
      BY <2>1 DEF SetupInit
    <3>3. {synapse, loaded, registration, bridge, container, force, hadOwn, forced, dropped} \subseteq BOOLEAN
      BY DEF SetupInit
    <3>4. pc = "off"
      BY DEF SetupInit
    <3>. QED
      BY <2>1, <2>2, <3>1, <3>2, <3>3, <3>4 DEF SetupTypeOK
  <2>4. AccountInv
    BY DEF SetupInit, AccountInv, Chatting, Restarted, Registered, Permitted, SignedIn, Started, Patched
  <2>. QED
    BY <2>3, <2>4
<1>2. SetupTypeOK /\ AccountInv /\ [SetupNext]_setupVars => SetupTypeOK' /\ AccountInv'
  BY TypesStep, AccountInvStep
<1>. QED
  BY <1>1, <1>2, PTL DEF SetupSpec

\* However often runs are cut off and repeated, .env, the database and a patched
\* homeserver.yaml have one password (synapse.go:25-78, 99-137).
THEOREM OnePassword == SetupSpec => []PasswordAgrees
<1>1. SetupInit => SecretInv
  BY DEF SetupInit, SecretInv, Absent, Made
<1>2. SetupTypeOK /\ SecretInv /\ [SetupNext]_setupVars => SecretInv'
  BY SecretInvStep
<1>3. SecretInv => PasswordAgrees
  BY DEF SecretInv, PasswordAgrees
<1>. QED
  BY <1>1, <1>2, <1>3, SetupTypes, PTL DEF SetupSpec

\* A run that is completed leaves homeserver, bridge, token and files wired to
\* one account and one database, whatever earlier runs, of any number and cut
\* off anywhere, left undone (setup.go:66-142).
THEOREM DoneIsWired == SetupSpec => []DoneMeansWired
<1>1. SetupInit => SecretInv /\ WizardInv
  BY DEF SetupInit, SecretInv, WizardInv, ServerInv, AccountInv, BridgeInv, ConfigInv,
         Chatting, Restarted, Registered, Permitted, SignedIn, Started, Patched, Absent, Made, Mine
<1>2. SetupTypeOK /\ SecretInv /\ WizardInv /\ [SetupNext]_setupVars => SecretInv' /\ WizardInv'
  BY SecretInvStep, ServerInvStep, AccountInvStep, BridgeInvStep, ConfigInvStep DEF WizardInv
<1>3. WizardInv => DoneMeansWired
  <2>. SUFFICES ASSUME WizardInv, Run("done")
                PROVE  DoneMeansWired
    BY DEF DoneMeansWired
  <2>1. pc \in Chatting /\ pc \in Restarted /\ pc \in Permitted /\ pc \in SignedIn
          /\ pc \in Started /\ pc \in Patched
    BY DEF Run, Chatting, Restarted, Registered, Permitted, SignedIn, Started, Patched
  <2>. QED
    BY <2>1 DEF DoneMeansWired, WizardInv, ServerInv, AccountInv, BridgeInv, ConfigInv, Run
<1>. QED
  BY <1>1, <1>2, <1>3, SetupTypes, PTL DEF SetupSpec

\* What the bot has said after the wizard's first sync is printed once and in
\* order, in conversations of any length, however its lines fall into batches
\* (chat.go:62-91).
THEOREM LinesArePrinted == SetupSpec => []BotIsRelayed
<1>1. SetupInit => RelayInv /\ BotIsRelayed
  <2>1. SetupInit => BotLines(0, 0) = << >>
    BY BotLinesAre, LinesNone
  <2>. QED
    BY <2>1 DEF SetupInit, RelayInv, BotIsRelayed
<1>2. SetupTypeOK /\ RelayInv /\ BotIsRelayed /\ [SetupNext]_setupVars => RelayInv' /\ BotIsRelayed'
  BY RelayInvStep, RelayStep
<1>. QED
  BY <1>1, <1>2, SetupTypes, PTL DEF SetupSpec
=============================================================================
