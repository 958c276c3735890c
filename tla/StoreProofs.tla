----------------------------- MODULE StoreProofs -----------------------------
(***************************************************************************)
(* Both stores, for any rooms, events, capacity and number of arrivals,    *)
(* callers and interruptions.  In the in-memory store LogIsTailOfArrivals  *)
(* carries the argument: it is inductive together with the types and       *)
(* NoDuplicates, and what the unread count means after a trim follows from *)
(* it alone.  SQLite keeps the promise of the in-memory store: the rows a  *)
(* trim will keep are Trim(rows[r]), and trimming commutes with appending  *)
(* (TailOfAppend), so a trim that is late or never runs is invisible       *)
(* through that mapping, and only the types are needed.                    *)
(***************************************************************************)
EXTENDS MemoryStore, SQLiteStore, SequenceTheorems, FiniteSetTheorems, TLAPS

-----------------------------------------------------------------------------
(* The log operators both stores are built from                            *)

\* What trimming a sequence of events returns.
LEMMA TrimProperties ==
    ASSUME NEW s \in Seq(Events)
    PROVE  /\ Trim(s) \in Seq(Events)
           /\ Len(s) > Capacity => Len(Trim(s)) = Capacity
           /\ Len(s) <= Capacity => Len(Trim(s)) = Len(s)
           /\ Len(s) - Len(Trim(s)) \in Nat
           /\ \A i \in 1..Len(Trim(s)) : Trim(s)[i] = s[i + (Len(s) - Len(Trim(s)))]
<1>1. Capacity \in Nat \ {0}
  BY MessageLogAssumption
<1>2. CASE Len(s) > Capacity
  BY <1>1, <1>2 DEF Trim, LastN
<1>3. CASE ~(Len(s) > Capacity)
  BY <1>1, <1>3 DEF Trim
<1>. QED
  BY <1>2, <1>3

\* A trimmed sequence is within the capacity.
LEMMA TrimBounded ==
    ASSUME NEW s \in Seq(Events)
    PROVE  Trim(s) \in Seq(Events) /\ Len(Trim(s)) <= Capacity
<1>1. Capacity \in Nat
  BY MessageLogAssumption
<1>2. Len(s) \in Nat
  OBVIOUS
<1>3. /\ Trim(s) \in Seq(Events)
      /\ Len(s) > Capacity => Len(Trim(s)) = Capacity
      /\ Len(s) <= Capacity => Len(Trim(s)) = Len(s)
  BY TrimProperties
<1>. QED
  BY <1>1, <1>2, <1>3

\* Appending one event to the tail of a history and trimming gives the tail of
\* the longer history.
LEMMA TailOfAppend ==
    ASSUME NEW a \in Seq(Events), NEW e \in Events
    PROVE  Trim(Append(Trim(a), e)) = Trim(Append(a, e))
<1>. DEFINE t == Trim(a)
<1>1. Capacity \in Nat \ {0}
  BY MessageLogAssumption
<1>2. /\ t \in Seq(Events)
      /\ Len(a) > Capacity => Len(t) = Capacity
      /\ \A i \in 1..Len(t) : t[i] = a[i + (Len(a) - Len(t))]
  BY TrimProperties
<1>3. CASE ~(Len(a) > Capacity)
  BY <1>3 DEF Trim
<1>4. CASE Len(a) > Capacity
  <2>. HIDE DEF t
  <2>. DEFINE u == Append(t, e)
              v == Append(a, e)
  <2>1. /\ u \in Seq(Events)
        /\ Len(u) = Capacity + 1
        /\ \A i \in 1..Capacity : u[i] = a[i + (Len(a) - Capacity)]
        /\ u[Capacity + 1] = e
    BY <1>1, <1>2, <1>4
  <2>2. /\ v \in Seq(Events)
        /\ Len(v) = Len(a) + 1
        /\ \A i \in 1..Len(a) : v[i] = a[i]
        /\ v[Len(a) + 1] = e
    BY <1>1, <1>4
  <2>3. \A i \in 1..Capacity : u[i + 1] = v[i + (Len(a) + 1 - Capacity)]
    <3>. SUFFICES ASSUME NEW i \in 1..Capacity
                  PROVE  u[i + 1] = v[i + (Len(a) + 1 - Capacity)]
      OBVIOUS
    <3>. HIDE DEF u, v
    <3>1. CASE i = Capacity
      <4>1. i + (Len(a) + 1 - Capacity) = Len(a) + 1
        BY <1>1, <3>1
      <4>. QED
        BY <2>1, <2>2, <3>1, <4>1
    <3>2. CASE i < Capacity
      <4>1. i + 1 \in 1..Capacity
        BY <1>1, <3>2
      <4>2. (i + 1) + (Len(a) - Capacity) = i + (Len(a) + 1 - Capacity)
        BY <1>1
      <4>3. i + (Len(a) + 1 - Capacity) \in 1..Len(a)
        BY <1>1, <1>4, <3>2
      <4>. QED
        BY <2>1, <2>2, <4>1, <4>2, <4>3
    <3>. QED
      BY <1>1, <3>1, <3>2
  <2>. HIDE DEF u, v
  <2>4. /\ Trim(u) \in Seq(Events) /\ Len(Trim(u)) = Capacity
        /\ \A i \in 1..Capacity : Trim(u)[i] = u[i + 1]
    <3>1. Len(u) > Capacity /\ Len(u) - Capacity = 1
      BY <1>1, <2>1
    <3>2. Len(Trim(u)) = Capacity /\ Trim(u) \in Seq(Events)
      BY <2>1, <3>1, TrimProperties
    <3>3. \A i \in 1..Len(Trim(u)) : Trim(u)[i] = u[i + (Len(u) - Len(Trim(u)))]
      BY <2>1, TrimProperties
    <3>. QED
      BY <3>1, <3>2, <3>3
  <2>5. /\ Trim(v) \in Seq(Events) /\ Len(Trim(v)) = Capacity
        /\ \A i \in 1..Capacity : Trim(v)[i] = v[i + (Len(a) + 1 - Capacity)]
    <3>1. Len(v) > Capacity
      BY <1>1, <1>4, <2>2
    <3>2. Len(Trim(v)) = Capacity /\ Trim(v) \in Seq(Events)
      BY <2>2, <3>1, TrimProperties
    <3>3. \A i \in 1..Len(Trim(v)) : Trim(v)[i] = v[i + (Len(v) - Len(Trim(v)))]
      BY <2>2, TrimProperties
    <3>4. Len(v) - Len(Trim(v)) = Len(a) + 1 - Capacity
      BY <2>2, <3>2
    <3>. QED
      BY <3>2, <3>3, <3>4
  <2>6. Trim(u) = Trim(v)
    <3>1. \A i \in 1..Capacity : Trim(u)[i] = Trim(v)[i]
      BY <2>3, <2>4, <2>5
    <3>. QED
      BY <2>4, <2>5, <3>1, SeqEqual
  <2>. QED
    BY <2>6 DEF t, u, v
<1>. QED
  BY <1>3, <1>4

\* Appending an event keeps a log free of duplicates.
LEMMA AppendedNoDuplicates ==
    ASSUME NEW s \in Seq(Events), NEW e \in Events,
           \A i, j \in DOMAIN s : s[i] = s[j] => i = j
    PROVE  \A i, j \in DOMAIN Appended(s, e) :
               Appended(s, e)[i] = Appended(s, e)[j] => i = j
<1>1. CASE Has(s, e)
  BY <1>1 DEF Appended
<1>2. CASE ~Has(s, e)
  <2>. DEFINE u == Append(s, e)
  <2>1. u \in Seq(Events) /\ \A i, j \in DOMAIN u : u[i] = u[j] => i = j
    BY <1>2 DEF Has
  <2>2. Appended(s, e) = Trim(u)
    BY <1>2 DEF Appended
  <2>. HIDE DEF u
  <2>3. /\ Trim(u) \in Seq(Events)
        /\ Len(u) - Len(Trim(u)) \in Nat
        /\ \A i \in 1..Len(Trim(u)) : Trim(u)[i] = u[i + (Len(u) - Len(Trim(u)))]
    BY <2>1, TrimProperties, MessageLogAssumption
  <2>. DEFINE d == Len(u) - Len(Trim(u))
  <2>4. d \in Nat /\ \A i \in 1..Len(Trim(u)) : i + d \in DOMAIN u
    BY <2>1, <2>3
  <2>. HIDE DEF d
  <2>5. ASSUME NEW i \in 1..Len(Trim(u)), NEW j \in 1..Len(Trim(u)), Trim(u)[i] = Trim(u)[j]
        PROVE  i = j
    <3>1. Trim(u)[i] = u[i + d] /\ Trim(u)[j] = u[j + d]
      BY <2>3 DEF d
    <3>2. i + d = j + d
      BY <2>1, <2>4, <2>5, <3>1
    <3>. QED
      BY <2>4, <3>2
  <2>6. DOMAIN Trim(u) = 1..Len(Trim(u))
    BY <2>3
  <2>. QED
    BY <2>2, <2>5, <2>6
<1>. QED
  BY <1>1, <1>2

\* Trimming a history a keeps exactly the unread events of the part it keeps.
LEMMA UnreadOfTrim ==
    ASSUME NEW a \in Seq(Events), NEW t \in Seq(Events), NEW m,
           Len(a) - Len(t) \in Nat,
           \A i \in 1..Len(t) : t[i] = a[i + (Len(a) - Len(t))]
    PROVE  {t[i] : i \in UnreadPositions(t, m)}
             = {a[k] : k \in {k \in {k \in DOMAIN a :
                                        \A j \in DOMAIN a : a[j] = m => j < k} :
                                 k > Len(a) - Len(t) /\ a[k] \notin OwnEvents}}
<1>. DEFINE first == Len(a) - Len(t)
            Old == UnreadPositions(t, m)
            All == {k \in {k \in DOMAIN a : \A j \in DOMAIN a : a[j] = m => j < k} :
                       k > first /\ a[k] \notin OwnEvents}
<1>0. /\ first \in Nat /\ Len(a) \in Nat /\ Len(t) \in Nat
      /\ DOMAIN a = 1..Len(a) /\ DOMAIN t = 1..Len(t)
      /\ Len(a) = first + Len(t)
      /\ \A i \in 1..Len(t) : t[i] = a[i + first]
  OBVIOUS
<1>. HIDE DEF first
<1>1. ASSUME NEW i \in Old
      PROVE  i + first \in All /\ t[i] = a[i + first]
  <2>1. /\ i \in 1..Len(t) /\ t[i] \notin OwnEvents
        /\ \A j \in 1..Len(t) : t[j] = m => j < i
    BY <1>0, <1>1 DEF UnreadPositions
  <2>2. ASSUME NEW j \in 1..Len(a), a[j] = m
        PROVE  j < i + first
    <3>1. CASE j <= first
      BY <1>0, <2>1, <3>1
    <3>2. CASE j > first
      <4>1. j - first \in 1..Len(t) /\ (j - first) + first = j
        BY <1>0, <3>2
      <4>2. t[j - first] = m
        BY <1>0, <2>2, <4>1
      <4>. QED
        BY <1>0, <2>1, <4>1, <4>2
    <3>. QED
      BY <1>0, <3>1, <3>2
  <2>3. i + first \in 1..Len(a) /\ i + first > first
    BY <1>0, <2>1
  <2>. QED
    BY <1>0, <2>1, <2>2, <2>3
<1>2. ASSUME NEW k \in All
      PROVE  k - first \in Old /\ t[k - first] = a[k]
  <2>1. /\ k \in 1..Len(a) /\ k > first /\ a[k] \notin OwnEvents
        /\ \A j \in 1..Len(a) : a[j] = m => j < k
    BY <1>0, <1>2
  <2>2. k - first \in 1..Len(t) /\ (k - first) + first = k
    BY <1>0, <2>1
  <2>3. t[k - first] = a[k]
    BY <1>0, <2>2
  <2>4. ASSUME NEW j \in 1..Len(t), t[j] = m
        PROVE  j < k - first
    <3>1. j + first \in 1..Len(a)
      BY <1>0
    <3>2. a[j + first] = m
      BY <1>0, <2>4
    <3>3. j + first < k
      BY <2>1, <3>1, <3>2
    <3>. QED
      BY <1>0, <2>1, <3>3
  <2>. QED
    BY <1>0, <2>1, <2>2, <2>3, <2>4 DEF UnreadPositions
<1>. HIDE DEF Old, All
<1>3. {t[i] : i \in Old} = {a[k] : k \in All}
  BY <1>1, <1>2
<1>. QED
  BY <1>3 DEF Old, All, first

-----------------------------------------------------------------------------
(* The in-memory store                                                     *)

\* Every variable keeps its type, whatever is appended or marked.
THEOREM MemoryStoreTypeOK == Spec => []TypeOK
<1>1. Init => TypeOK
  BY MessageLogAssumption DEF Init, TypeOK, Markers
<1>2. TypeOK /\ [Next]_vars => TypeOK'
  <2>. SUFFICES ASSUME TypeOK, [Next]_vars
                PROVE  TypeOK'
    OBVIOUS
  <2>1. ASSUME NEW r \in Rooms, NEW e \in Events, AppendMessage(r, e)
        PROVE  TypeOK'
    <3>1. Append(log[r], e) \in Seq(Events)
      BY DEF TypeOK
    <3>2. /\ Trim(Append(log[r], e)) \in Seq(Events)
          /\ Len(Trim(Append(log[r], e))) <= Capacity
      BY <3>1, TrimBounded
    <3>3. Appended(log[r], e) \in Seq(Events) /\ Len(Appended(log[r], e)) <= Capacity
      BY <3>2 DEF Appended, TypeOK
    <3>. QED
      BY <2>1, <3>3 DEF AppendMessage, TypeOK
  <2>2. ASSUME NEW r \in Rooms, NEW e \in Markers, SetReadMarker(r, e)
        PROVE  TypeOK'
    <3>1. Marked(log[r], marker[r], e) \in Markers
      BY DEF Marked, TypeOK, Markers
    <3>. QED
      BY <2>2, <3>1 DEF SetReadMarker, TypeOK
  <2>3. CASE UNCHANGED vars
    BY <2>3 DEF vars, TypeOK
  <2>. QED
    BY <2>1, <2>2, <2>3 DEF Next
<1>. QED
  BY <1>1, <1>2, PTL DEF Spec

\* The trimmed log is the newest part of all arrivals, and holds no event
\* twice: the two facts are inductive given the types.
THEOREM MemoryStoreLog == Spec => [](LogIsTailOfArrivals /\ NoDuplicates)
<1>. DEFINE Inv == /\ \A r \in Rooms : log[r] = Trim(arrivals[r])
                   /\ NoDuplicates
<1>1. Init => Inv
  BY MessageLogAssumption DEF Init, NoDuplicates, Trim
<1>2. TypeOK /\ Inv /\ [Next]_vars => Inv'
  <2>. SUFFICES ASSUME TypeOK, Inv, [Next]_vars
                PROVE  Inv'
    OBVIOUS
  <2>1. ASSUME NEW r \in Rooms, NEW e \in Events, AppendMessage(r, e)
        PROVE  Inv'
    <3>1. log'[r] = Appended(log[r], e) /\ \A q \in Rooms \ {r} : log'[q] = log[q]
      BY <2>1 DEF AppendMessage, TypeOK
    <3>2. log'[r] = Trim(arrivals'[r])
      <4>1. CASE Has(log[r], e)
        BY <2>1, <3>1, <4>1 DEF AppendMessage, TypeOK, Appended
      <4>2. CASE ~Has(log[r], e)
        <5>1. arrivals'[r] = Append(arrivals[r], e)
          BY <2>1, <4>2 DEF AppendMessage, TypeOK
        <5>2. arrivals[r] \in Seq(Events)
          BY DEF TypeOK
        <5>3. Trim(Append(Trim(arrivals[r]), e)) = Trim(Append(arrivals[r], e))
          BY <5>2, TailOfAppend
        <5>. QED
          BY <3>1, <4>2, <5>1, <5>3 DEF Appended
      <4>. QED
        BY <4>1, <4>2
    <3>3. \A q \in Rooms \ {r} : log'[q] = Trim(arrivals'[q])
      BY <2>1, <3>1 DEF AppendMessage, TypeOK
    <3>4. \A i, j \in DOMAIN log'[r] : log'[r][i] = log'[r][j] => i = j
      BY <3>1, AppendedNoDuplicates DEF TypeOK, NoDuplicates
    <3>. QED
      BY <3>1, <3>2, <3>3, <3>4 DEF NoDuplicates
  <2>2. ASSUME NEW r \in Rooms, NEW e \in Markers, SetReadMarker(r, e)
        PROVE  Inv'
    BY <2>2 DEF SetReadMarker, NoDuplicates
  <2>3. CASE UNCHANGED vars
    BY <2>3 DEF vars, NoDuplicates
  <2>. QED
    BY <2>1, <2>2, <2>3 DEF Next
<1>3. Inv => LogIsTailOfArrivals /\ NoDuplicates
  BY DEF Trim, LogIsTailOfArrivals
<1>. QED
  BY <1>1, <1>2, <1>3, MemoryStoreTypeOK, PTL DEF Spec

\* Trimming never turns a read message unread or an unread one read: what the
\* count is taken from is what a store without a capacity would report for the
\* messages still held, even when the marker itself was trimmed away.
THEOREM MemoryStoreUnread == Spec => []UnreadSurvivesTrimming
<1>1. TypeOK /\ LogIsTailOfArrivals => UnreadSurvivesTrimming
  <2>. SUFFICES ASSUME TypeOK, LogIsTailOfArrivals, NEW r \in Rooms
                PROVE  {log[r][i] : i \in UnreadPositions(log[r], marker[r])}
                         = {arrivals[r][k] : k \in {k \in AfterMarker(r) :
                              /\ k > Len(arrivals[r]) - Len(log[r])
                              /\ arrivals[r][k] \notin OwnEvents}}
    BY DEF UnreadSurvivesTrimming
  <2>1. log[r] = Trim(arrivals[r]) /\ arrivals[r] \in Seq(Events) /\ log[r] \in Seq(Events)
    BY DEF TypeOK, LogIsTailOfArrivals, Trim
  <2>2. /\ Len(arrivals[r]) - Len(log[r]) \in Nat
        /\ \A i \in 1..Len(log[r]) :
              log[r][i] = arrivals[r][i + (Len(arrivals[r]) - Len(log[r]))]
    BY <2>1, TrimProperties
  <2>. QED
    BY <2>1, <2>2, UnreadOfTrim DEF AfterMarker
<1>. QED
  BY <1>1, MemoryStoreTypeOK, MemoryStoreLog, PTL

-----------------------------------------------------------------------------
(* The SQLite store                                                        *)

\* Every variable keeps its type, whatever is interrupted.
THEOREM SQLiteTypeOK == SQLiteSpec => []RowsOK
<1>1. SQLiteInit => RowsOK
  BY DEF SQLiteInit, RowsOK, Markers
<1>2. RowsOK /\ [SQLiteNext]_sqliteVars => RowsOK'
  <2>. SUFFICES ASSUME RowsOK, [SQLiteNext]_sqliteVars
                PROVE  RowsOK'
    OBVIOUS
  <2>1. ASSUME NEW r \in Rooms, NEW e \in Events, InsertRow(r, e)
        PROVE  RowsOK'
    <3>1. Append(rows[r], e) \in Seq(Events) /\ Append(inserted[r], e) \in Seq(Events)
      BY DEF RowsOK
    <3>2. rows' \in [Rooms -> Seq(Events)] /\ inserted' \in [Rooms -> Seq(Events)]
      BY <2>1, <3>1 DEF InsertRow, RowsOK
    <3>. QED
      BY <2>1, <3>2 DEF InsertRow, RowsOK
  <2>2. ASSUME NEW r \in Rooms, TrimRoom(r)
        PROVE  RowsOK'
    <3>1. Trim(rows[r]) \in Seq(Events)
      BY TrimProperties DEF RowsOK
    <3>. QED
      BY <2>2, <3>1 DEF TrimRoom, RowsOK
  <2>3. ASSUME NEW r \in Rooms, TrimInterrupted(r)
        PROVE  RowsOK'
    <3>1. interrupts' \in Nat
      BY <2>3 DEF TrimInterrupted, RowsOK
    <3>. QED
      BY <2>3, <3>1 DEF TrimInterrupted, RowsOK
  <2>4. ASSUME NEW c \in Callers, NEW r \in Rooms, NEW e \in Events, UpsertMarker(c, r, e)
        PROVE  RowsOK'
    BY <2>4 DEF UpsertMarker, RowsOK, Markers
  <2>5. ASSUME NEW c \in Callers, NEW r \in Rooms, ReadNewest(c, r)
        PROVE  RowsOK'
    <3>1. rows[r][Len(rows[r])] \in Events
      BY <2>5 DEF ReadNewest, RowsOK
    <3>2. [room |-> r, event |-> rows[r][Len(rows[r])]] \in Pending
      BY <3>1 DEF Pending
    <3>. QED
      BY <2>5, <3>2 DEF ReadNewest, RowsOK
  <2>6. ASSUME NEW c \in Callers, WriteMarker(c)
        PROVE  RowsOK'
    <3>1. PICK p \in marking[c] : read_markers' = [read_markers EXCEPT ![p.room] = p.event]
      BY <2>6 DEF WriteMarker
    <3>2. p \in Pending
      BY <3>1 DEF RowsOK
    <3>3. p.event \in Markers
      BY <3>2 DEF Pending, Markers
    <3>. QED
      BY <2>6, <3>1, <3>3 DEF WriteMarker, RowsOK
  <2>7. ASSUME NEW c \in Callers, MarkInterrupted(c)
        PROVE  RowsOK'
    BY <2>7 DEF MarkInterrupted, RowsOK
  <2>8. CASE Crash
    BY <2>8 DEF Crash, RowsOK
  <2>9. CASE UNCHANGED sqliteVars
    BY <2>9 DEF sqliteVars, RowsOK
  <2>. QED
    BY <2>1, <2>2, <2>3, <2>4, <2>5, <2>6, <2>7, <2>8, <2>9 DEF SQLiteNext
<1>. QED
  BY <1>1, <1>2, PTL DEF SQLiteSpec

\* The mapped log is the trimmed rows.
LEMMA KeptIsTrim == ASSUME NEW r PROVE Kept(r) = Trim(rows[r])
  BY DEF Kept, Trim

\* Trimming twice is trimming once.
LEMMA TrimIdempotent == ASSUME NEW s \in Seq(Events) PROVE Trim(Trim(s)) = Trim(s)
<1>1. Len(Trim(s)) <= Capacity
  BY TrimProperties, MessageLogAssumption
<1>. QED
  BY <1>1, TrimProperties, MessageLogAssumption DEF Trim

\* A row that no event of the table equals is appended to the kept rows too.
LEMMA KeptHasOnlyRows ==
    ASSUME NEW s \in Seq(Events), NEW e, ~Has(s, e)
    PROVE  ~Has(Trim(s), e)
<1>1. /\ Trim(s) \in Seq(Events)
      /\ Len(s) - Len(Trim(s)) \in Nat
      /\ \A i \in 1..Len(Trim(s)) : Trim(s)[i] = s[i + (Len(s) - Len(Trim(s)))]
  BY TrimProperties
<1>. DEFINE d == Len(s) - Len(Trim(s))
<1>2. \A i \in 1..Len(Trim(s)) : i + d \in 1..Len(s)
  BY <1>1
<1>3. ASSUME NEW i \in 1..Len(Trim(s)) PROVE Trim(s)[i] # e
  <2>1. s[i + d] # e
    BY <1>2 DEF Has
  <2>. QED
    BY <1>1, <2>1
<1>. QED
  BY <1>1, <1>3 DEF Has

\* A late, interrupted or crashed trim and a SetReadMarker("") cut in two are
\* invisible to a reader of the rows the next trim keeps: every step of
\* sqlite.go is a step of the in-memory store or changes nothing it shows.
THEOREM SQLiteImplementsStore == SQLiteSpec => ImplementsStore
<1>1. SQLiteInit => Store!Init
  <2>1. ASSUME SQLiteInit PROVE [r \in Rooms |-> Kept(r)] = [r \in Rooms |-> << >>]
    BY <2>1, MessageLogAssumption DEF SQLiteInit, Kept
  <2>. QED
    BY <2>1 DEF SQLiteInit, Store!Init
<1>2. RowsOK /\ [SQLiteNext]_sqliteVars => [Store!Next]_(Store!vars)
  <2>. SUFFICES ASSUME RowsOK, [SQLiteNext]_sqliteVars
                PROVE  Store!Next \/ UNCHANGED Store!vars
    OBVIOUS
  <2>1. ASSUME NEW r \in Rooms, NEW e \in Events, InsertRow(r, e)
        PROVE  Store!AppendMessage(r, e)
    <3>1. /\ rows[r] \in Seq(Events)
          /\ rows'[r] = Append(rows[r], e)
          /\ \A q \in Rooms \ {r} : rows'[q] = rows[q]
      BY <2>1 DEF InsertRow, RowsOK
    <3>2. ~Has(Kept(r), e)
      BY <2>1, <3>1, KeptHasOnlyRows, KeptIsTrim DEF InsertRow
    <3>3. Kept(r)' = Trim(Append(Kept(r), e))
      <4>1. Kept(r)' = Trim(Append(rows[r], e))
        BY <3>1 DEF Kept, Trim
      <4>. QED
        BY <3>1, <4>1, TailOfAppend, KeptIsTrim
    <3>4. \A q \in Rooms \ {r} : Kept(q)' = Kept(q)
      BY <3>1 DEF Kept
    <3>. DEFINE L == [q \in Rooms |-> Kept(q)]
    <3>5. L' = [L EXCEPT ![r] = Appended(L[r], e)]
      BY <3>2, <3>3, <3>4 DEF Appended
    <3>6. /\ Len(inserted[r]) < MaxInserts /\ read_markers' = read_markers
          /\ inserted' = [inserted EXCEPT ![r] = IF Has(L[r], e) THEN @ ELSE Append(@, e)]
      BY <2>1, <3>2 DEF InsertRow
    <3>. QED
      BY <3>5, <3>6 DEF Store!AppendMessage, Store!Appended, Store!Trim, Store!Has, Store!LastN,
                        Appended, Trim, Has, LastN
  <2>2. ASSUME NEW r \in Rooms, TrimRoom(r)
        PROVE  UNCHANGED Store!vars
    <3>1. \A q \in Rooms : Kept(q)' = Kept(q)
      <4>1. /\ rows[r] \in Seq(Events)
            /\ rows'[r] = Trim(rows[r])
            /\ \A q \in Rooms \ {r} : rows'[q] = rows[q]
        BY <2>2 DEF TrimRoom, RowsOK
      <4>2. Kept(r)' = Trim(Trim(rows[r]))
        BY <4>1 DEF Kept, Trim
      <4>. QED
        BY <4>1, <4>2, TrimIdempotent, KeptIsTrim DEF Kept
    <3>. QED
      BY <2>2, <3>1 DEF TrimRoom, Store!vars
  <2>3. ASSUME UNCHANGED <<rows, read_markers, inserted>>
        PROVE  UNCHANGED Store!vars
    BY <2>3 DEF Store!vars, Kept
  <2>4. ASSUME NEW c \in Callers, NEW r \in Rooms, NEW e \in Events, UpsertMarker(c, r, e)
        PROVE  Store!SetReadMarker(r, e)
    <3>1. [q \in Rooms |-> Kept(q)]' = [q \in Rooms |-> Kept(q)]
      BY <2>4 DEF UpsertMarker, Kept
    <3>2. e # NoEvent
      BY MessageLogAssumption
    <3>. QED
      BY <2>4, <3>1, <3>2 DEF UpsertMarker, Store!SetReadMarker, Store!Marked
  <2>5. ASSUME NEW c \in Callers, WriteMarker(c)
        PROVE  \E r \in Rooms, e \in Events : Store!SetReadMarker(r, e)
    <3>1. PICK p \in marking[c] : read_markers' = [read_markers EXCEPT ![p.room] = p.event]
      BY <2>5 DEF WriteMarker
    <3>2. p.room \in Rooms /\ p.event \in Events
      BY <3>1 DEF RowsOK, Pending
    <3>3. [q \in Rooms |-> Kept(q)]' = [q \in Rooms |-> Kept(q)]
      BY <2>5 DEF WriteMarker, Kept
    <3>4. p.event # NoEvent
      BY <3>2, MessageLogAssumption
    <3>5. Store!SetReadMarker(p.room, p.event)
      BY <2>5, <3>1, <3>2, <3>3, <3>4 DEF WriteMarker, Store!SetReadMarker, Store!Marked
    <3>. QED
      BY <3>2, <3>5
  <2>. QED
    <3>1. \A e \in Events : e \in Markers
      BY DEF Markers
    <3>2. ASSUME NEW c \in Callers, NEW r \in Rooms, ReadNewest(c, r)
          PROVE  UNCHANGED <<rows, read_markers, inserted>>
      BY <3>2 DEF ReadNewest
    <3>3. ASSUME NEW r \in Rooms, TrimInterrupted(r)
          PROVE  UNCHANGED <<rows, read_markers, inserted>>
      BY <3>3 DEF TrimInterrupted
    <3>4. ASSUME NEW c \in Callers, MarkInterrupted(c)
          PROVE  UNCHANGED <<rows, read_markers, inserted>>
      BY <3>4 DEF MarkInterrupted
    <3>5. Crash => UNCHANGED <<rows, read_markers, inserted>>
      BY DEF Crash
    <3>6. UNCHANGED sqliteVars => UNCHANGED <<rows, read_markers, inserted>>
      BY DEF sqliteVars
    <3>. QED
      BY <2>1, <2>2, <2>3, <2>4, <2>5, <3>1, <3>2, <3>3, <3>4, <3>5, <3>6 DEF SQLiteNext, Store!Next, Store!Markers, Markers
<1>. QED
  BY <1>1, <1>2, SQLiteTypeOK, PTL DEF SQLiteSpec, ImplementsStore, Store!Spec

\* The unread positions of a trimmed log are those of the whole one beyond the
\* rows cut off, shifted by their number; so there are as many of them.
LEMMA UnreadOfKept ==
    ASSUME NEW s \in Seq(Events), NEW m, NEW d \in Nat,
           d = Len(s) - Len(Trim(s))
    PROVE  LET beyond == {k \in UnreadPositions(s, m) : k > d}
           IN  IsFiniteSet(beyond) /\ Cardinality(beyond) = UnreadCount(Trim(s), m)
<1>. DEFINE t == Trim(s)
            kept == UnreadPositions(t, m)
            beyond == {k \in UnreadPositions(s, m) : k > d}
            shift == [i \in kept |-> i + d]
<1>1. /\ t \in Seq(Events) /\ Len(t) \in Nat /\ Len(s) = Len(t) + d
      /\ DOMAIN t = 1..Len(t) /\ DOMAIN s = 1..Len(s)
      /\ \A i \in 1..Len(t) : t[i] = s[i + d]
  <2>1. t \in Seq(Events) /\ \A i \in 1..Len(t) : t[i] = s[i + (Len(s) - Len(t))]
    BY TrimProperties
  <2>. HIDE DEF t
  <2>2. Len(s) \in Nat /\ Len(t) \in Nat /\ DOMAIN t = 1..Len(t) /\ DOMAIN s = 1..Len(s)
    BY <2>1
  <2>3. d = Len(s) - Len(t)
    BY DEF t
  <2>4. Len(s) = Len(t) + d
    BY <2>2, <2>3
  <2>5. \A i \in 1..Len(t) : t[i] = s[i + d]
    BY <2>1, <2>3, Zenon
  <2>. QED
    BY <2>1, <2>2, <2>4, <2>5, Zenon
<1>. HIDE DEF t
<1>2. ASSUME NEW i \in kept
      PROVE  i \in Nat /\ i + d \in beyond
  <2>1. /\ i \in 1..Len(t) /\ t[i] \notin OwnEvents
        /\ \A j \in 1..Len(t) : t[j] = m => j < i
    BY <1>1, <1>2 DEF UnreadPositions
  <2>2. i + d \in 1..Len(s) /\ i + d > d /\ s[i + d] \notin OwnEvents
    BY <1>1, <2>1
  <2>3. ASSUME NEW j \in 1..Len(s), s[j] = m
        PROVE  j < i + d
    <3>1. CASE j <= d
      BY <2>2, <3>1
    <3>2. CASE j > d
      <4>1. j - d \in 1..Len(t) /\ (j - d) + d = j
        BY <1>1, <3>2
      <4>2. t[j - d] = m
        BY <1>1, <2>3, <4>1
      <4>3. j - d < i
        BY <2>1, <4>1, <4>2
      <4>. QED
        BY <2>1, <4>3
    <3>. QED
      BY <3>1, <3>2
  <2>. QED
    BY <1>1, <2>1, <2>2, <2>3 DEF UnreadPositions
<1>3. ASSUME NEW k \in beyond
      PROVE  k - d \in kept /\ (k - d) + d = k
  <2>1. /\ k \in 1..Len(s) /\ k > d /\ s[k] \notin OwnEvents
        /\ \A j \in 1..Len(s) : s[j] = m => j < k
    BY <1>1, <1>3 DEF UnreadPositions
  <2>2. k - d \in 1..Len(t) /\ (k - d) + d = k
    BY <1>1, <2>1
  <2>3. t[k - d] = s[k]
    BY <1>1, <2>2
  <2>4. ASSUME NEW j \in 1..Len(t), t[j] = m
        PROVE  j < k - d
    <3>1. j + d \in 1..Len(s)
      BY <1>1
    <3>2. s[j + d] = m
      BY <1>1, <2>4
    <3>3. j + d < k
      BY <2>1, <3>1, <3>2
    <3>. QED
      BY <2>1, <3>3
  <2>. QED
    BY <1>1, <2>1, <2>2, <2>3, <2>4 DEF UnreadPositions
<1>4. shift \in Bijection(kept, beyond)
  <2>. HIDE DEF kept, beyond
  <2>1. shift \in [kept -> beyond]
    BY <1>2
  <2>2. \A i, j \in kept : shift[i] = shift[j] => i = j
    BY <1>2
  <2>3. \A k \in beyond : \E i \in kept : shift[i] = k
    BY <1>3
  <2>. QED
    BY <2>1, <2>2, <2>3 DEF Bijection, Injection, Surjection, IsInjective
<1>5. IsFiniteSet(kept)
  <2>1. IsFiniteSet(1..Len(t))
    BY <1>1, FS_Interval
  <2>2. kept \in SUBSET (1..Len(t))
    BY <1>1 DEF UnreadPositions
  <2>. QED
    BY <2>1, <2>2, FS_Subset
<1>6. IsFiniteSet(beyond) /\ Cardinality(beyond) = Cardinality(kept)
  <2>. HIDE DEF kept, beyond, shift
  <2>1. ExistsBijection(kept, beyond)
    BY <1>4 DEF ExistsBijection
  <2>. QED
    BY <1>5, <2>1, FS_Bijection
<1>. QED
  BY <1>6 DEF UnreadCount, t

\* Rows that wait for a trim add at most their number to the unread count.
LEMMA OvershootOfTrim ==
    ASSUME NEW s \in Seq(Events), NEW m
    PROVE  /\ UnreadCount(Trim(s), m) <= UnreadCount(s, m)
           /\ UnreadCount(s, m) <= UnreadCount(Trim(s), m) + (Len(s) - Len(Trim(s)))
<1>. DEFINE d == Len(s) - Len(Trim(s))
            all == UnreadPositions(s, m)
            beyond == {k \in all : k > d}
            before == {k \in all : k <= d}
<1>1. d \in Nat
  BY TrimProperties
<1>. HIDE DEF d
<1>2. \A k \in all : k \in Nat /\ k >= 1
  <2>1. DOMAIN s = 1..Len(s)
    OBVIOUS
  <2>. QED
    BY <2>1 DEF UnreadPositions
<1>3. IsFiniteSet(beyond) /\ Cardinality(beyond) = UnreadCount(Trim(s), m)
  BY <1>1, UnreadOfKept DEF d
<1>. HIDE DEF all
<1>4. IsFiniteSet(before) /\ Cardinality(before) \in Nat /\ Cardinality(before) <= d
  <2>1. IsFiniteSet(1..d) /\ Cardinality(1..d) <= d
    BY <1>1, FS_Interval
  <2>2. before \in SUBSET (1..d)
    <3>1. ASSUME NEW k \in before PROVE k \in 1..d
      BY <1>1, <1>2
    <3>. QED
      BY <3>1
  <2>3. IsFiniteSet(before) /\ Cardinality(before) <= Cardinality(1..d)
    BY <2>1, <2>2, FS_Subset
  <2>4. Cardinality(before) \in Nat /\ Cardinality(1..d) \in Nat
    BY <2>1, <2>3, FS_CardinalityType
  <2>. QED
    BY <1>1, <2>1, <2>3, <2>4
<1>5. all = beyond \cup before /\ beyond \cap before = {}
  <2>1. \A k \in all : ~(k > d) <=> k <= d
    BY <1>1, <1>2
  <2>. QED
    BY <2>1
<1>. HIDE DEF beyond, before
<1>6. Cardinality(all) = Cardinality(beyond) + Cardinality(before)
  <2>1. Cardinality(all) = Cardinality(beyond) + Cardinality(before) - Cardinality({})
    BY <1>3, <1>4, <1>5, FS_Union
  <2>2. Cardinality({}) = 0 /\ Cardinality(beyond) \in Nat
    BY <1>3, FS_EmptySet, FS_CardinalityType
  <2>. QED
    BY <1>4, <2>1, <2>2
<1>7. Cardinality(beyond) \in Nat
  BY <1>3, FS_CardinalityType
<1>8. UnreadCount(s, m) = UnreadCount(Trim(s), m) + Cardinality(before)
  BY <1>3, <1>6 DEF UnreadCount, all
<1>. QED
  BY <1>1, <1>3, <1>4, <1>7, <1>8 DEF d

\* However many trims were cut off, the unread count of a room is never below
\* that of the rows the next trim keeps, and above it by at most the rows that
\* wait for it.
THEOREM SQLiteOvershoot == SQLiteSpec => []OvershootNeverHidesUnread
<1>1. RowsOK => OvershootNeverHidesUnread
  <2>. SUFFICES ASSUME RowsOK, NEW r \in Rooms
                PROVE  /\ UnreadCount(Kept(r), read_markers[r]) <= UnreadCount(rows[r], read_markers[r])
                       /\ UnreadCount(rows[r], read_markers[r])
                            <= UnreadCount(Kept(r), read_markers[r]) + (Len(rows[r]) - Len(Kept(r)))
    BY DEF OvershootNeverHidesUnread
  <2>1. rows[r] \in Seq(Events)
    BY DEF RowsOK
  <2>. QED
    BY <2>1, KeptIsTrim, OvershootOfTrim
<1>. QED
  BY <1>1, SQLiteTypeOK, PTL

=============================================================================
