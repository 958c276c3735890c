----------------------------- MODULE SQLiteStore -----------------------------
(***************************************************************************)
(* The file-backed Store (internal/store/sqlite.go).  AppendMessage and    *)
(* SetReadMarker("") are two SQL statements each, run outside any          *)
(* transaction: other callers, a cancelled context or a crash of the       *)
(* daemon can come between them.                                           *)
(*                                                                         *)
(* rows[r] stands for the rows of room r ordered by seq.  seq is an        *)
(* AUTOINCREMENT key, so a new row is always the last one and "seq > the   *)
(* marker's seq" is "further right"; the numbers themselves are left out.  *)
(* One goroutine appends (Session.Run); every caller may mark.             *)
(***************************************************************************)
EXTENDS MessageLog

CONSTANTS
    Callers,        \* goroutines that call SetReadMarker
    MaxInserts,     \* bound on the rows ever inserted into one room
    MaxInterrupts   \* bound on trims that a crash or cancellation cut off

VARIABLES
    rows,         \* durable: messages table
    read_markers, \* durable: read_markers table
    appending,    \* {} or {r}: AppendMessage inserted into r, trim still to run
    marking,      \* marking[c]: {} or {[room, event]} read by the first statement
    inserted,     \* history: rows ever inserted, per room
    interrupts    \* history: how many trims never ran

sqliteVars == <<rows, read_markers, appending, marking, inserted, interrupts>>

Pending == [room : Rooms, event : Events]

RowsOK ==
    /\ rows \in [Rooms -> Seq(Events)]
    /\ read_markers \in [Rooms -> Markers]
    /\ appending \in {{}} \union {{r} : r \in Rooms}
    /\ marking \in [Callers -> {{}} \union {{p} : p \in Pending}]
    /\ inserted \in [Rooms -> Seq(Events)]
    /\ interrupts \in Nat

SQLiteInit ==
    /\ rows = [r \in Rooms |-> << >>]
    /\ read_markers = [r \in Rooms |-> NoEvent]
    /\ appending = {}
    /\ marking = [c \in Callers |-> {}]
    /\ inserted = [r \in Rooms |-> << >>]
    /\ interrupts = 0

-----------------------------------------------------------------------------

\* INSERT OR IGNORE.  A duplicate affects no row and returns without a trim.
InsertRow(r, e) ==
    /\ appending = {}
    /\ ~Has(rows[r], e)
    /\ Len(inserted[r]) < MaxInserts
    /\ rows' = [rows EXCEPT ![r] = Append(@, e)]
    /\ inserted' = [inserted EXCEPT ![r] = Append(@, e)]
    /\ appending' = {r}
    /\ UNCHANGED <<read_markers, marking, interrupts>>

\* Mutant: the trim deletes the newest rows (ORDER BY seq ASC).
TrimRoomNewest(r) ==
    /\ appending = {r}
    /\ rows' = [rows EXCEPT ![r] = TrimKeepsOldest(@)]
    /\ appending' = {}
    /\ UNCHANGED <<read_markers, marking, inserted, interrupts>>

\* DELETE of everything older than the capacity-th newest row.
TrimRoom(r) ==
    /\ appending = {r}
    /\ rows' = [rows EXCEPT ![r] = Trim(@)]
    /\ appending' = {}
    /\ UNCHANGED <<read_markers, marking, inserted, interrupts>>

\* The context ended between the two statements: "trim room" error.
TrimInterrupted(r) ==
    /\ appending = {r}
    /\ interrupts < MaxInterrupts
    /\ interrupts' = interrupts + 1
    /\ appending' = {}
    /\ UNCHANGED <<rows, read_markers, marking, inserted>>

\* SetReadMarker with an explicit event: one statement.
UpsertMarker(c, r, e) ==
    /\ marking[c] = {}
    /\ read_markers' = [read_markers EXCEPT ![r] = e]
    /\ UNCHANGED <<rows, appending, marking, inserted, interrupts>>

\* SetReadMarker(""), first statement: the newest row; none is ErrNoRows.
ReadNewest(c, r) ==
    /\ marking[c] = {}
    /\ rows[r] # << >>
    /\ marking' = [marking EXCEPT ![c] = {[room |-> r, event |-> rows[r][Len(rows[r])]]}]
    /\ UNCHANGED <<rows, read_markers, appending, inserted, interrupts>>

\* SetReadMarker(""), second statement.
WriteMarker(c) ==
    /\ \E p \in marking[c] : read_markers' = [read_markers EXCEPT ![p.room] = p.event]
    /\ marking' = [marking EXCEPT ![c] = {}]
    /\ UNCHANGED <<rows, appending, inserted, interrupts>>

\* The context ended between the two statements of SetReadMarker("").
MarkInterrupted(c) ==
    /\ marking[c] # {}
    /\ marking' = [marking EXCEPT ![c] = {}]
    /\ UNCHANGED <<rows, read_markers, appending, inserted, interrupts>>

\* The daemon dies and a new one opens the same file.
Crash ==
    /\ appending # {} => interrupts < MaxInterrupts
    /\ interrupts' = IF appending # {} THEN interrupts + 1 ELSE interrupts
    /\ appending' = {}
    /\ marking' = [c \in Callers |-> {}]
    /\ UNCHANGED <<rows, read_markers, inserted>>

SQLiteNext ==
    \/ \E r \in Rooms :
        \/ \E e \in Events : InsertRow(r, e)
        \/ TrimRoom(r)
        \/ TrimInterrupted(r)
    \/ \E c \in Callers :
        \/ \E r \in Rooms :
            \/ \E e \in Events : UpsertMarker(c, r, e)
            \/ ReadNewest(c, r)
        \/ WriteMarker(c)
        \/ MarkInterrupted(c)
    \/ Crash

SQLiteSpec == SQLiteInit /\ [][SQLiteNext]_sqliteVars

-----------------------------------------------------------------------------

\* The part of a room's rows the next trim will keep.
Kept(r) == IF Len(rows[r]) > Capacity THEN LastN(rows[r], Capacity) ELSE rows[r]

\* Rows waiting for a trim can make the unread count too high by at most their
\* number; they can never hide an unread message (sqlite.go:152-165).
OvershootNeverHidesUnread ==
    \A r \in Rooms :
        LET shown == UnreadCount(rows[r], read_markers[r])
            kept  == UnreadCount(Kept(r), read_markers[r])
        IN  kept <= shown /\ shown <= kept + (Len(rows[r]) - Len(Kept(r)))

\* Trimming, however often it was cut off, never touches a message inside the
\* capacity and never disturbs the arrival order, and SetReadMarker("") split in
\* two still only ever marks an event: SQLite keeps the promise of the
\* in-memory store, read through the rows the next trim will keep.
Store == INSTANCE MemoryStore
            WITH log <- [r \in Rooms |-> Kept(r)], marker <- read_markers,
                 arrivals <- inserted, MaxArrivals <- MaxInserts
ImplementsStore == Store!Spec

=============================================================================
