------------------------------ MODULE MatrixLink ------------------------------
(***************************************************************************)
(* The Matrix transport (internal/transport/matrix.go, matrix_session.go)  *)
(* from the homeserver to the message store, over the lives of a daemon    *)
(* that is stopped or killed and started again: setup with its retries,    *)
(* the sync loop, the connected flag, both backoffs, and what is on disk   *)
(* (pickle key, sync position, messages).                                  *)
(*                                                                         *)
(* SyncWithContext is the library's, modelled from what the hooks given to *)
(* it rely on: it loads the position, asks for what came after it, SAVES   *)
(* THE NEW POSITION FIRST, then calls the OnSync listener and hands out    *)
(* the events; a failed request goes to OnFailedSync, whose delay it waits *)
(* for or whose error it returns.  No filter is set, so the homeserver     *)
(* limits what a response holds, and nobody asks for the rest.             *)
(*                                                                         *)
(* The message events, of one room, are numbered as the homeserver orders  *)
(* them; a position is the number of the last event before it.  The sink   *)
(* is a bounded channel (EventSink is its inside), Session.Run its reader, *)
(* the store the set of messages it accepted (Session and SQLiteStore are  *)
(* the rest).                                                              *)
(***************************************************************************)
EXTENDS Integers, Sequences, SequencesExt

CONSTANTS
    Encrypt,     \* MatrixOptions.Encrypt
    Buffer,      \* capacity of the sink, 16 in the code
    MaxBackoff,  \* MaxBackoff in units of MinBackoff
    TimelineLimit,  \* events of a room in one response, the homeserver's default
    MaxEvents,   \* bound on the events of the account
    MaxFaults,   \* bound on failing calls and a rejected token, per life
    MaxLives     \* bound on the times the daemon is started

ASSUME MatrixLinkAssumption ==
    /\ Encrypt \in BOOLEAN
    /\ Buffer \in Nat \ {0} /\ MaxBackoff \in Nat \ {0} /\ TimelineLimit \in Nat \ {0}
    /\ MaxEvents \in Nat /\ MaxFaults \in Nat /\ MaxLives \in Nat \ {0}

VARIABLES
    posted,     \* events the homeserver has
    tokenOK,    \* the homeserver accepts the access token
    lives, running, ctxDone,    \* the daemon process and its context
    keyFile,    \* the pickle key on disk: None, Torn or the number of a key
    sessions,   \* the key the crypto store on disk is encrypted with, or None
    position,   \* next_batch in quietdm_sync, None before the first sync
    stored,     \* messages in the store
    at,         \* where the goroutine of Matrix.run is
    after,      \* where it goes on once it has reported a change of the link
    device, crypto,   \* cli.DeviceID is known; Matrix.crypto is set
    since,      \* nextBatch of SyncWithContext
    todo,       \* events of the response still to be handed out
    late,       \* events whose decryption waits for a key, each in a goroutine
    connected, saw,   \* Matrix.connected, Matrix.sawConnected
    backoff,    \* backoff of run
    pause,      \* quietSyncer.backoff
    delay,      \* the delay being waited for
    refused,    \* the error on its way to run is MUnknownToken
    ch,         \* the sink's channel
    flag,       \* Session.connected
    faults,     \* faults of this life, for MaxFaults
    keys,       \* history: keys made so far
    down,       \* history: attempts of run that failed since the link was up,
    misses,     \* history: requests that failed since then, each up to MaxBackoff
    entered,    \* history: entered[e], times e was put on the channel
    old,        \* history: events of a first sync: history, not news
    gone,       \* history: events in flight when a daemon ended, that could
                \* not be decrypted, or that the store refused
    cut         \* history: events the position has passed that no response held

outside == <<posted, tokenOK, lives, running, ctxDone, stored, flag>>
files   == <<keyFile, sessions, keys>>
setup   == <<device, crypto>>
batch   == <<position, since, todo, late>>
link    == <<connected, saw>>
delays  == <<backoff, pause, delay, down, misses>>
events  == <<ch, entered, old, gone, cut>>
trouble == <<faults, refused>>
vars    == <<outside, files, setup, batch, link, delays, events, at, after, trouble>>

None   == -1
Torn   == -2    \* an empty key file
Events == 1..MaxEvents

Item == [t : {"message"}, e : Events] \union [t : {"connected"}, up : BOOLEAN]

FlagsOK ==
    /\ tokenOK \in BOOLEAN /\ running \in BOOLEAN /\ ctxDone \in BOOLEAN
    /\ device \in BOOLEAN /\ crypto \in BOOLEAN /\ refused \in BOOLEAN
    /\ connected \in BOOLEAN /\ saw \in BOOLEAN /\ flag \in BOOLEAN

PlacesOK ==
    /\ at \in {"top", "device", "key", "write", "init", "load", "request", "save",
               "listen", "deliver", "report", "failed", "wait", "err", "judge",
               "sleep", "ended"}
    /\ after \in {"deliver", "failed", "judge"}
    /\ lives \in 1..MaxLives /\ faults \in 0..MaxFaults

FilesOK ==
    /\ keys \in Nat
    /\ keyFile \in {None, Torn} \union 1..keys /\ sessions \in {None} \union 1..keys

PositionsOK ==
    /\ posted \in 0..MaxEvents
    /\ position \in {None} \union 0..posted /\ since \in {None} \union 0..posted
    /\ todo \in Seq(1..posted)

EventsOK ==
    /\ stored \subseteq Events /\ late \subseteq Events
    /\ old \subseteq Events /\ gone \subseteq Events /\ cut \subseteq Events
    /\ entered \in [Events -> Nat]
    /\ ch \in Seq(Item) /\ Len(ch) <= Buffer

DelaysOK ==
    /\ backoff \in 1..MaxBackoff /\ pause \in 1..MaxBackoff /\ delay \in 1..MaxBackoff
    /\ down \in Nat /\ misses \in Nat

TypeOK == FlagsOK /\ PlacesOK /\ FilesOK /\ PositionsOK /\ EventsOK /\ DelaysOK

Init ==
    /\ posted \in 0..MaxEvents /\ tokenOK = TRUE
    /\ lives = 1 /\ running = TRUE /\ ctxDone = FALSE
    /\ keyFile = None /\ sessions = None /\ position = None /\ stored = {}
    /\ at = "top" /\ after = "judge"
    /\ device = FALSE /\ crypto = FALSE
    /\ since = None /\ todo = << >> /\ late = {}
    /\ connected = FALSE /\ saw = FALSE
    /\ backoff = 1 /\ pause = 1 /\ delay = 1
    /\ ch = << >> /\ flag = FALSE
    /\ faults = 0 /\ refused = FALSE /\ keys = 0 /\ down = 0 /\ misses = 0
    /\ entered = [e \in Events |-> 0] /\ old = {} /\ gone = {} /\ cut = {}

-----------------------------------------------------------------------------
(* run and connect                                                         *)

At(place)   == running /\ at = place
Goto(place) == at' = place /\ UNCHANGED after

\* A call to the homeserver succeeds, or fails: by a fault, because the token
\* is rejected, or because the context has ended.
Answers == tokenOK /\ ~ctxDone /\ UNCHANGED trouble
Fails   ==
    /\ IF tokenOK /\ ~ctxDone THEN faults < MaxFaults /\ faults' = faults + 1
       ELSE UNCHANGED faults
    /\ refused' = (~tokenOK /\ ~ctxDone)

\* Something on this machine fails: a file, a database, or its context has ended.
Breaks ==
    /\ IF ctxDone THEN UNCHANGED faults ELSE faults < MaxFaults /\ faults' = faults + 1
    /\ UNCHANGED refused

\* Mutant: every change of the flag is forgotten when the channel is full.
SetConnectedIfRoom(up, place) ==
    /\ connected' = up /\ saw' = (saw \/ up)
    /\ IF up # connected /\ Len(ch) < Buffer THEN at' = "report" /\ after' = place
       ELSE Goto(place)

\* setConnected: only a change is reported, once there is room in the channel.
SetConnected(up, place) ==
    /\ connected' = up /\ saw' = (saw \/ up)
    /\ IF up # connected THEN at' = "report" /\ after' = place ELSE Goto(place)

Report ==
    /\ At("report")
    /\ Len(ch) < Buffer
    /\ ch' = Append(ch, [t |-> "connected", up |-> connected])
    /\ Goto(after)
    /\ UNCHANGED <<outside, files, setup, batch, link, delays, entered, old, gone, cut, trouble>>

\* The send gives up with the context, except that of OnFailedSync.
ReportGivesUp ==
    /\ At("report")
    /\ ctxDone /\ after # "failed"
    /\ Goto(after)
    /\ UNCHANGED <<outside, files, setup, batch, link, delays, events, trouble>>

\* A failure more in a history, and the next delay.
More(n) == IF n < MaxBackoff THEN n + 1 ELSE n
Double(d) == IF 2 * d < MaxBackoff THEN 2 * d ELSE MaxBackoff

\* The head of run's loop; "ended" includes the deferred close of the sink.
Top ==
    /\ At("top")
    /\ Goto(IF ctxDone THEN "ended" ELSE "device")
    /\ UNCHANGED <<outside, files, setup, batch, link, delays, events, trouble>>

\* connect: ask for the device of the token, unless it is known.
Discover ==
    /\ At("device")
    /\ \/ /\ IF device THEN UNCHANGED trouble ELSE Answers
          /\ device' = TRUE
          /\ Goto(IF Encrypt /\ ~crypto THEN "key" ELSE "load")
       \/ ~device /\ Fails /\ Goto("err") /\ UNCHANGED device
    /\ UNCHANGED <<outside, files, crypto, batch, link, delays, events>>

\* Mutant: a key is made whenever the crypto layer is not up.
ReadKeyNever ==
    /\ At("key")
    /\ keyFile' = Torn
    /\ Goto("write")
    /\ UNCHANGED <<outside, sessions, keys, setup, batch, link, delays, events, trouble>>

\* loadOrCreatePickleKey: a good key is used, a bad file is an error and stays,
\* a missing one is created ...
ReadKey ==
    /\ At("key")
    /\ \/ keyFile \in Nat /\ Goto("init") /\ UNCHANGED keyFile
       \/ keyFile = Torn /\ Goto("err") /\ UNCHANGED keyFile
       \/ keyFile = None /\ Goto("write") /\ keyFile' = Torn
    /\ UNCHANGED <<outside, sessions, keys, setup, batch, link, delays, events, trouble>>

\* ... and then written.
WriteKey ==
    /\ At("write")
    /\ \/ /\ keys' = keys + 1 /\ keyFile' = keys + 1
          /\ Goto("init") /\ UNCHANGED trouble
       \/ Breaks /\ Goto("err") /\ UNCHANGED <<keys, keyFile>>
    /\ UNCHANGED <<outside, sessions, setup, batch, link, delays, events>>

\* The crypto helper opens or makes its store and uploads the device's keys.
InitCrypto ==
    /\ At("init")
    /\ sessions' = (IF sessions = None THEN keyFile ELSE sessions)
    /\ \/ Answers /\ crypto' = TRUE /\ Goto("load")
       \/ Fails /\ Goto("err") /\ UNCHANGED crypto
    /\ UNCHANGED <<outside, keyFile, keys, device, batch, link, delays, events>>

\* connect has failed: run returns with the context, or reports the outage.
ConnectFails ==
    /\ At("err")
    /\ IF ctxDone THEN Goto("ended") /\ UNCHANGED link ELSE SetConnected(FALSE, "judge")
    /\ UNCHANGED <<outside, files, setup, batch, delays, events, trouble>>

\* Mutant: the backoff is not reset after the link was up.
JudgeNeverResets ==
    /\ At("judge") /\ ~refused
    /\ Goto("sleep")
    /\ saw' = FALSE
    /\ delay' = backoff /\ backoff' = Double(backoff) /\ down' = More(down)
    /\ UNCHANGED <<outside, files, setup, batch, connected, pause, misses, events, trouble>>

\* Mutant: only a link that was up is brought up again.
JudgeGivesUp ==
    /\ At("judge")
    /\ IF saw /\ ~refused
       THEN Goto("sleep") /\ saw' = FALSE /\ delay' = 1 /\ backoff' = Double(1) /\ down' = More(down)
       ELSE Goto("ended") /\ UNCHANGED <<saw, backoff, delay, down>>
    /\ UNCHANGED <<outside, files, setup, batch, connected, pause, misses, events, trouble>>

\* A rejected token ends the loop, anything else is tried again later.
Judge ==
    /\ At("judge")
    /\ IF ~refused
       THEN /\ Goto("sleep")
            /\ saw' = FALSE
            /\ delay' = (IF saw THEN 1 ELSE backoff)
            /\ backoff' = Double(delay') /\ down' = More(down)
       ELSE Goto("ended") /\ UNCHANGED <<saw, backoff, delay, down>>
    /\ UNCHANGED <<outside, files, setup, batch, connected, pause, misses, events, trouble>>

Sleep ==
    /\ At("sleep")
    /\ Goto(IF ctxDone THEN "ended" ELSE "top")
    /\ UNCHANGED <<outside, files, setup, batch, link, delays, events, trouble>>

-----------------------------------------------------------------------------
(* SyncWithContext, its store and its hooks                                *)

\* LoadNextBatch, and the filter, made on first use.
Load ==
    /\ At("load")
    /\ since' = position
    /\ \/ Answers /\ Goto("request")
       \/ Fails /\ Goto("err")
    /\ UNCHANGED <<outside, files, setup, position, todo, late, link, delays, events>>

\* The last event before the next response.
From == IF since = None THEN 0 ELSE since

\* A response holds what came after since, the first one what there is, but no
\* more than the newest TimelineLimit events.  A failure is reported by
\* OnFailedSync, with a context of its own.
Request ==
    LET skip == IF posted - From > TimelineLimit THEN posted - TimelineLimit ELSE From IN
    /\ At("request")
    /\ \/ /\ Answers
          /\ todo' = [i \in 1..(posted - skip) |-> skip + i]
          /\ old' = (IF since = None THEN old \union 1..posted ELSE old)
          /\ Goto("save") /\ UNCHANGED link
       \/ /\ Fails /\ UNCHANGED <<todo, old>>
          /\ IF ctxDone THEN Goto("err") /\ UNCHANGED link ELSE SetConnected(FALSE, "failed")
    /\ UNCHANGED <<outside, files, setup, position, since, late, delays, ch, entered, gone, cut>>

\* OnFailedSync goes on: a rejected token ends SyncWithContext.
FailedSync ==
    /\ At("failed")
    /\ IF ~refused
       THEN /\ Goto("wait")
            /\ delay' = pause /\ pause' = Double(pause) /\ misses' = More(misses)
       ELSE Goto("err") /\ UNCHANGED <<delay, pause, misses>>
    /\ UNCHANGED <<outside, files, setup, batch, link, backoff, down, events, trouble>>

Wait ==
    /\ At("wait")
    /\ Goto(IF ctxDone THEN "err" ELSE "request")
    /\ UNCHANGED <<outside, files, setup, batch, link, delays, events, trouble>>

\* Mutant: the position of now, not that of the response.
NextBatchOfNow == posted

\* next_batch of the response.
NextBatch == IF todo # << >> THEN Last(todo) ELSE From

\* The events after since that a limited response leaves out: prev_batch, where
\* they could be asked for, is not read.
LeftOut == IF todo # << >> THEN (From + 1)..(Head(todo) - 1) ELSE {}

\* SaveNextBatch, or its failure: the response is thrown away.
Save ==
    /\ At("save")
    /\ \/ /\ ~ctxDone /\ position' = NextBatch
          /\ cut' = cut \union LeftOut
          /\ Goto("listen") /\ UNCHANGED <<todo, trouble>>
       \/ Breaks /\ todo' = << >> /\ Goto("err") /\ UNCHANGED <<position, cut>>
    /\ UNCHANGED <<outside, files, setup, since, late, link, delays, ch, entered, old, gone>>

\* The OnSync listener.
Listen ==
    /\ At("listen")
    /\ pause' = 1 /\ misses' = 0 /\ down' = 0
    /\ SetConnected(TRUE, "deliver")
    /\ UNCHANGED <<outside, files, setup, batch, backoff, delay, events, trouble>>

\* e is put on the channel when there is room, or given up with the context.
Send(e) ==
    \/ /\ Len(ch) < Buffer
       /\ ch' = Append(ch, [t |-> "message", e |-> e])
       /\ entered' = [entered EXCEPT ![e] = @ + 1]
       /\ UNCHANGED gone
    \/ /\ ctxDone
       /\ gone' = gone \union {e}
       /\ UNCHANGED <<ch, entered>>

Handout(news) ==
    /\ At("deliver") /\ todo # << >>
    /\ todo' = Tail(todo)
    /\ LET e == Head(todo) IN
        \/ ~news /\ UNCHANGED <<events, late>>
        \/ news /\ Send(e) /\ UNCHANGED <<old, cut, late>>
        \/ news /\ Encrypt /\ late' = late \union {e} /\ UNCHANGED events
    /\ UNCHANGED <<outside, files, setup, position, since, link, delays, at, after, trouble>>

\* Mutant: a first sync is news too.
DeliverHistory == Handout(TRUE)

\* The next event of the response, by onMessage: dropped in a first sync, sent,
\* or left to the crypto layer until its key comes.
Deliver == Handout(since # None)

Delivered ==
    /\ At("deliver") /\ todo = << >>
    /\ since' = position
    /\ Goto("request")
    /\ UNCHANGED <<outside, files, setup, position, todo, late, link, delays, events, trouble>>

\* The key of a late event has come: onMessage in a goroutine of its own.
SendLate(e) ==
    /\ running /\ e \in late
    /\ late' = late \ {e}
    /\ Send(e)
    /\ UNCHANGED <<outside, files, setup, position, since, todo, link, delays, at, after,
                   old, cut, trouble>>

Undecryptable(e) ==
    /\ running /\ e \in late
    /\ late' = late \ {e}
    /\ gone' = gone \union {e}
    /\ UNCHANGED <<outside, files, setup, position, since, todo, link, delays, at, after,
                   ch, entered, old, cut, trouble>>

-----------------------------------------------------------------------------
(* The reader, the homeserver and the process                              *)

\* Session.Run takes an event; the store may refuse a message, and is closed
\* while the daemon shuts down.
Receive ==
    /\ running /\ ch # << >>
    /\ ch' = Tail(ch)
    /\ IF Head(ch).t = "connected"
       THEN flag' = Head(ch).up /\ UNCHANGED <<stored, gone, trouble>>
       ELSE /\ UNCHANGED flag
            /\ \/ stored' = stored \union {Head(ch).e} /\ UNCHANGED <<gone, trouble>>
               \/ Breaks /\ gone' = gone \union {Head(ch).e} /\ UNCHANGED stored
    /\ UNCHANGED <<posted, tokenOK, lives, running, ctxDone, files, setup, batch, link,
                   delays, at, after, entered, old, cut>>

Post ==
    /\ posted < MaxEvents
    /\ posted' = posted + 1
    /\ UNCHANGED <<tokenOK, lives, running, ctxDone, stored, flag, files, setup, batch,
                   link, delays, events, at, after, trouble>>

RejectToken ==
    /\ running /\ tokenOK /\ faults < MaxFaults
    /\ faults' = faults + 1
    /\ tokenOK' = FALSE
    /\ UNCHANGED <<refused, posted, lives, running, ctxDone, stored, flag, files, setup, batch,
                   link, delays, events, at, after>>

Cancel ==
    /\ running /\ ~ctxDone
    /\ ctxDone' = TRUE
    /\ UNCHANGED <<posted, tokenOK, lives, running, stored, flag, files, setup, batch,
                   link, delays, events, at, after, trouble>>

InFlight ==
    late \union {e \in Events : [t |-> "message", e |-> e] \in Range(ch)}
         \union (IF at = "save" THEN {} ELSE Range(todo))

\* The daemon is killed, or exits after its context has ended, which waits for
\* no goroutine.  The next one begins anew, with what is on disk.
End ==
    /\ running
    /\ running' = FALSE /\ ctxDone' = FALSE
    /\ gone' = gone \union InFlight
    /\ at' = "top" /\ after' = "judge"
    /\ device' = FALSE /\ crypto' = FALSE
    /\ since' = None /\ todo' = << >> /\ late' = {}
    /\ connected' = FALSE /\ saw' = FALSE
    /\ backoff' = 1 /\ pause' = 1 /\ delay' = 1
    /\ ch' = << >> /\ flag' = FALSE
    /\ faults' = 0 /\ refused' = FALSE /\ down' = 0 /\ misses' = 0
    /\ UNCHANGED <<posted, tokenOK, lives, files, position, stored, entered, old, cut>>

Start ==
    /\ ~running /\ lives < MaxLives
    /\ lives' = lives + 1
    /\ running' = TRUE
    /\ tokenOK' \in {tokenOK, TRUE}
    /\ UNCHANGED <<posted, ctxDone, stored, flag, files, setup, batch, link, delays,
                   events, at, after, trouble>>

-----------------------------------------------------------------------------

Loop ==
    \/ Report \/ ReportGivesUp \/ Top \/ Discover \/ ReadKey \/ WriteKey \/ InitCrypto
    \/ ConnectFails \/ Judge \/ Sleep
    \/ Load \/ Request \/ FailedSync \/ Wait \/ Save \/ Listen \/ Deliver \/ Delivered

Next ==
    \/ Loop \/ Receive
    \/ \E e \in Events : SendLate(e) \/ Undecryptable(e)
    \/ Post \/ RejectToken \/ Cancel \/ End \/ Start

Spec == Init /\ [][Next]_vars

\* A goroutine that can go on does; a delay passes; the session takes what is
\* on the channel; a missing key comes or is given up after a while.
FairSpec ==
    /\ Spec
    /\ WF_vars(Loop) /\ WF_vars(Receive)
    /\ \A e \in Events : WF_vars(SendLate(e) \/ Undecryptable(e))

-----------------------------------------------------------------------------

\* A message is news once: whatever fails, is retried, decrypted late or cut
\* short by a restart, no event enters the daemon a second time, and none of a
\* first sync enters at all (matrix.go:323-328, matrix_session.go:60-61).
NewsOnce ==
    \A e \in Events : entered[e] <= IF e \in old THEN 0 ELSE 1

\* No event the homeserver handed over falls between the saved position and
\* the store: every event the position has passed is stored, on its way, history
\* of a first sync, lost with a daemon that ended, a key or a failing store, or
\* was left out of a limited response (matrix.go:395-404).
NothingSkipped ==
    \A e \in Events :
        (position # None /\ e <= position) =>
            e \in stored \union old \union gone \union cut \union InFlight

\* What the session will have seen of the link once it has drained the channel.
Edge(i) == ch[i].t = "connected"
LastEdge(i) == i \in DOMAIN ch /\ Edge(i) /\ \A j \in DOMAIN ch : Edge(j) => j <= i
Sees(up) ==
    \/ flag = up /\ \A i \in DOMAIN ch : ~Edge(i)
    \/ \E i \in DOMAIN ch : LastEdge(i) /\ ch[i].up = up

\* Edges are reported once and in order: except while one is about to be sent,
\* the session's flag is to become the transport's, and that is FALSE whenever
\* the loop waits to try again or has given up (matrix.go:166-187, 365-376).
SessionFollowsLink ==
    (running /\ ~ctxDone) =>
        /\ at # "report" => Sees(connected)
        /\ at \in {"sleep", "wait", "ended"} => Sees(FALSE)

\* The delay after n failures in a row: 1, 2, 4 and so on, up to the maximum.
Power[n \in 0..MaxBackoff] == IF n = 0 THEN 1 ELSE 2 * Power[n - 1]
Capped(n) == IF Power[n - 1] < MaxBackoff THEN Power[n - 1] ELSE MaxBackoff

\* "A homeserver that is down comes back on its own schedule ... but the user
\* must not wait minutes for messages once it does" (matrix.go:24-26): in both
\* loops the delay is the one of this outage, however long earlier ones were.
DelayFollowsOutage ==
    /\ At("sleep") => delay = Capped(down)
    /\ At("wait") => delay = Capped(misses)

\* The key file is never replaced while sessions depend on it, over restarts
\* and a crash between its creation and its writing (matrix.go:430-457).
PickleKeyKept == sessions # None => keyFile = sessions

\* Whatever fails on the way, a message sent to a daemon that stays up with a
\* good token and a readable key reaches the store, or was accounted for: it is
\* history, lost on its way, or older than the limit of the response that passed it.
NewsArrives ==
    \A e \in Events :
        (running /\ e <= posted) ~>
            \/ e \in stored \union old \union gone \union cut
            \/ ~running \/ ctxDone \/ ~tokenOK \/ keyFile = Torn

=============================================================================
