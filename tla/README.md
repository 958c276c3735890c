# Verification of quietdm.nvim

quietdm shows chat messages inside Neovim as if they were something else. A daemon (`quietdmd`, Go)
keeps the connection to the chat network and a store of messages, and serves any number of editors
over a Unix socket with newline-delimited JSON. A plugin (Lua) keeps a view of the rooms and shows
as little of it as possible, for as short as possible.

This directory holds TLA+ models of the parts where order, concurrency, failure or time matter,
the TLC configurations that check them on small instances, and proofs checked by TLAPS that hold
for every instance. Paths are relative to the repository (`src/`).

Contents: [Inventory](#inventory), [Modules](#modules), [Runs](#runs), [Fairness](#fairness),
[Proofs](#proofs), [Findings](#findings), [Not modelled](#not-modelled), [Plan](#plan),
[Running the checks](#running-the-checks).

## Inventory

How the parts interact:

    Matrix / mock transport --send--> event sink --channel--> Session.Run --> store
                                                                  |
                                                     BroadcastMessage, BroadcastRoom
                                                                  v
    Session <--Handler calls-- ipc hub <--socket--> frontend link --> frontend view --> levels
                                                                      ^ commands, autocommands, timers

| Component | State it keeps | Operations | What is hard about it | What makes it correct |
|---|---|---|---|---|
| Store, in memory (`internal/store/memory.go`) | per room: a bounded log, a read marker | AppendMessage, RecentMessages, SetReadMarker, UnreadCount | the marker can be trimmed out of the log; replayed events | the log is the newest messages accepted; unread counts survive trimming |
| Store, SQLite (`internal/store/sqlite.go`) | two tables on disk | the same | two statements without a transaction: other callers, cancellation or a crash in between | it keeps the promise of the in-memory store |
| Event sink (`internal/transport/sink.go`) | a buffered channel, a stop channel, an RWMutex, a Once | send, close | Go panics on a send on a closed channel and on a double close; a full buffer nobody reads | no panic; order kept; send and close return |
| Session (`internal/session/session.go`) | known rooms, their newest timestamp, the connected flag | Run, ingest, MarkRead, History, Rooms, Send | the event loop and the command handlers interleave with no lock over a whole operation; store and transport calls fail | frontends end up with the truth; nothing is shown that was not stored |
| IPC hub (`internal/ipc/server.go`) | clients, their hello flag, a bounded queue each, the listener, the socket file | Listen, Accept, serve (reader, writer), broadcast, enqueue, Close | three kinds of goroutine per connection, drop-oldest, shutdown from three sides, a frontend that does not read; several daemons at one socket path | handshake order, order of events, protocol errors delivered, no goroutine and no client left behind; one daemon at the path, and no leftover that keeps the next one out |
| IPC messages, sanitising (`internal/ipc/proto.go`, `internal/sanitize`, `internal/model`) | none | encode, decode, strip | lines over the limit | - |
| Mock transport (`internal/transport/mock.go`) | a script position | run, Send, Close | sends from several goroutines into a sink that closes | the sink's |
| Matrix transport (`internal/transport/matrix.go`, `matrix_session.go`) | sync position and pickle key on disk, crypto store, connected flag, two backoffs | run, connect, sync loop and its hooks, Send, MarkRead, Rooms | two nested retry loops, a rejected token, late decryption, a position saved before its events are consumed, a kill anywhere | no event lost or repeated, edges reported once, delays that follow the outage, the key kept |
| Daemon process (`cmd/quietdmd/main.go`, `internal/config`) | configuration, the life of the process | start, signals, deferred calls | shutdown from two sides at once; a kill between two system calls | the hub's and the sink's |
| Setup tool (`internal/setup`, `cmd/quietdmd/setup.go`) | files and containers on disk | a sequence of idempotent steps, a conversation with a bot | a run cut off anywhere, run again over what the earlier one left; containers that read files when they start only | a completed run leaves everything wired; no leftover stops later runs; one database password |
| Frontend link (`lua/quietdm/ipc.lua`) | one pipe, pending requests, receive buffer, retry timer | start, stop, send, consume, retry | libuv callbacks are queued and run later, after a stop, a restart or a new connection | every request answered once, no socket left behind, the link comes back |
| Frontend view (`state.lua`, `init.lua`) | rooms in order, their last messages, tables of seen and shown ids | on_message, on_history, on_room, reset, pruning | replies overtaken by broadcasts, replays, pruned tables, reconnects | shown once; the view is the daemon's |
| Exposure levels (`level.lua`, `guard.lua`, `ctx.lua`, renderers) | the level, two timers, what is on the screen, silence | glance, read, panorama, clear, silence, panic | late timer callbacks, one level for three renderers | blank when silenced; what is raised comes down |
| Composers (`composers/*.lua`) | the open reply, its window and its generation | open, finish, close | nested and late callbacks of an abandoned reply | a reply is sent at most once, and never after a cancel |
| Toolbox (`config.lua`, `registry.lua`, `log.lua`, ...) | tables | lookups | - | - |

`PROJECT.json` lists the same components with their status and, under `hazards`, every place in
this code that is hard to test with the properties that watch it.

## Modules

| Module | Models | Proofs |
|---|---|---|
| `MessageLog` | the pure part of every store: append, trim, recent, unread, mark | `StoreProofs` |
| `MemoryStore` | `memory.go`; also the abstract specification of a store | `StoreProofs` |
| `SQLiteStore` | `sqlite.go`, statement by statement; implements `MemoryStore` | `StoreProofs` |
| `EventSink` | `sink.go`, lock by lock, with its callers | `EventSinkProofs` |
| `Hub` | `server.go`: accept loop, reader and writer, broadcast, queues, Close | `HubProofs` |
| `Daemon` | `run` of `main.go`, `Listen`, `clearStale`, `Close`: several daemons at one socket path, system call by system call | `QuietdmdProofs` |
| `MatrixLink` | `matrix.go`, `matrix_session.go` from the homeserver to the store, over restarts | `MatrixLinkProofs` |
| `Session` | `session.go` over `MessageLog` and a reduced hub | `SessionProofs` |
| `FrontLink` | `ipc.lua`, start and stop | `FrontLinkProofs` |
| `FrontView` | `state.lua` and the handlers of `init.lua`, with a cut-down daemon | `FrontProofs` |
| `FrontLevel` | `level.lua`, `guard.lua`, the built-in renderers, the hint of `init.lua` | `FrontProofs` |
| `Composer` | `composers/*.lua`, `reply` and `clear_all` of `init.lua`, in the frontend of `FrontLevel`, which it extends and implements | `FrontProofs` |
| `Setup` | `internal/setup`, file by file and call by call, with its containers | `QuietdmdProofs` |

`MCxxx.tla` modules only give constants and symmetry to TLC. In each module, definitions under the
comment *Mutant* are broken variants of the definition that follows them. No specification uses
them; putting one in the place of the real definition must make TLC report a named property, which
is how each property was shown to be able to fail (`PROJECT.json`, `mutants`).

### Stores

A message is its event id; whose it is, is a fixed set (`OwnEvents`). Every operation of the memory
store holds one mutex from entry to return, so it is one action. `arrivals` is a history variable:
all that a room ever accepted. The properties say the log is the tail of `arrivals`, and that
the unread messages are those an unbounded store would give for the messages still held.

`AppendMessage` of SQLite is an INSERT and then a DELETE, `SetReadMarker("")` a SELECT and then an
INSERT, outside any transaction. `InsertRow`, `TrimRoom`, `ReadNewest`, `WriteMarker` are those
statements; `TrimInterrupted` and `MarkInterrupted` a context that ends between two of them;
`Crash` a daemon that dies and opens the file again. The autoincrement key is left out: rows are
kept in its order. `ImplementsStore` reads the memory store's log as *the rows the next trim will
keep*: an untrimmed row is invisible in it, so the insertion is the step that counts and the trim a
stutter, whenever or if ever it runs.

### Event sink

`spc` and `cpc` are the program counters of `send` and `close`. The RWMutex is Go's: a writer that
has announced itself (`AnnounceLock`) keeps new readers out. A send on a closed channel and a
second close are steps into a state `panicked`, not missing steps. Senders and closers are called at
any time: they stand for the mock's script, echoes of `Send`, the Matrix sync loop and its
decryption goroutine, and `Close` from `main`.

### Hub

One action per atomic step of a goroutine. The acceptor: `Accept`, `AddClient`, `SpawnServe`,
`ServeReturns`. `Server.Close`: `CloseServer` (map taken away under the lock), `CloseListener`,
`CloseClientFlag`, `CloseClientConn`, `CloseDone`. The reader of a connection: `ReadHello`,
`ReadFatal`, `ReadCommand`, `ReadMarkRead`, `ReadOversizeHistory`, `ScanEnds`, then `StopWriting`,
`WriterStopped` or `WaitTimesOut`, `EndServe`. Its writer: `WriteLine`, `WriteFails`,
`WriterShutdown`, `WriterExits`. A broadcast or a reply is a job of the goroutine that sends it:
`TakeSnapshot`, then per client `NextTarget` (the hello flag), `TryEnqueue`, `DropOldest`. The
content of an event is reduced to its kind, its sender and its number there; session calls are
reduced to whether they broadcast. `faults` bounds disconnects, failed writes, five-second timeouts
and shutdowns together.

### Daemon

`path` is whose socket the file is, `main[d]` where `run` is between two system calls, `closing[d]`
how far `Server.Close` is; `Close` is called by `run`'s defer and by the goroutine of `Serve`, and the
second caller does not wait for the first (`LeaveClose`), so the process may exit in the middle of it.
`Kill` is possible everywhere. Removing the path takes away whatever is there by then, as `os.Remove`
does. `met` is a history variable: the daemons that were alive together while one of them was
starting. For a daemon that met nobody the promise holds without an exception; for the others the
code promises nothing (see [Findings](#findings)).

### Matrix transport

`at` is the goroutine of `run`: `connect` (device, pickle key, crypto), then the library's
`SyncWithContext` with the hooks the daemon gives it, then the judgement of the error. The library is
modelled from what those hooks rely on: it saves the new position first, then calls the listener and
hands out the events. `setConnected` may have to wait for room in the channel (`Report`), and its
caller goes on to `after`. `late` are messages whose decryption waits for a key, each in a goroutine of
its own. A process ends at any point (`End`), with or without a signal before it, and the next one
begins with the position, the key and the stored messages. A response (`Request`) holds the newest
`TimelineLimit` events after the position, as a homeserver limits the timeline of a client that sends no
filter; where the rest could be had (`prev_batch`) is not read, so the saved position passes over what the
response leaves out (`LeftOut`). History variables: `entered` counts how often an event was put on the
channel, `old` what a first sync held, `cut` what limited responses left out, `gone` what was lost with the
end of a process, a key that never came, or a failing store, `down` and `misses` the failures in a row of
the two loops. The session is a reader of the channel (`Receive`); the rest of it is `Session`.

### Session

`task[p]` is where the handler of goroutine p (a frontend's reader, or Run) is, with its local
variables; a step is one call into the store, the transport, or a critical section of `Session.mu`.
`feed[c]` is what frontend c was sent, without drops (those are the hub's business). Every store and
transport call may fail (`...Fails`). The daemon starts over whatever an earlier life left in the store (`Stored`, and
any marker), knows no room of it until Run has listed them, and has every `lastTS` at 0: `LastTSIsNewest`
compares it with what this life has been handed (`heard`, a history variable). The history variable
`raced` marks a room for a frontend when two handlers of the room ran at once or one failed, until a
handler has had the room to itself again: `AgreesUnlessRaced` says everything else is consistent, and the
run `session_race` shows that the exception is needed.

### Frontend link

Neovim's main loop runs commands and the callbacks of `vim.schedule` one at a time; libuv callbacks
only append to `queue`. `RunLost`, `RunHello`, `RunFail`, `RunConsume`, `RunOverlong` run the head
of the queue. A queued callback carries no connection, as in the code. A socket is a slot that is
reused when nothing refers to it any more. The retry timer may fire at any time after it was armed:
the delays of the backoff are left out. The daemon answers in order, whole or in two chunks (`Answers`),
and drops a connection that does not greet first. It may also drop an answer, one over the line limit or
the oldest of a full queue: the request is then in `lost`, a history variable, and `RequestsAnswered` and
`Reconnects` promise nothing of it. Everything else has to be answered, by the daemon or by the end of the
connection.

### Frontend view

The view (`order`, `messages`, `seen`, `glanced`, `idCount`) with one action per handler, against a
daemon that stores before it broadcasts, reads a history before it sends it, may deliver a stored
event again, may drop any event it queues (`Enqueue`, `Broadcast`: the oldest of a full queue, or a history
over the line limit), and may go away with everything that is under way. `gaps` and `reborn` are history
variables for the ways in which the code as it is loses track: `gaps` are the rooms about which an event was
dropped, or whose history was read before a message was stored and will be handled after it (`Overtaken`),
`reborn` the events replayed after their id had been pruned.

### Exposure levels

What each renderer has on the screen (`mark`, `float`, `list`, `hint`), the level, the armed
timers, and the timer callbacks that are due in the main loop's queue. The renderers are
operators of their own (`BlameRender`, `BlameClear`, ...). Timeouts are positive (zero disables
them in the configuration) and a timer may fire whenever it is armed. The conversation is two flags, which change
at any time.

`Levels` are the actions that leave the composer alone; `Silence` and `LookAway` clear everything.

### Composers

A reply is numbered by its open. `current_gen` is the reply whose generation is the composer's,
`reading` those whose input or window is still there (a command line cannot be closed from Lua, and
Neovim may refuse to close a window: `close_window` uses `pcall`), `winid` the window the composer knows.
`Open` replaces the reply before it; `InputEnds`, `Finish` and `UserCloses` are the callbacks, each with the
generation check of the code. Everything of `FrontLevel` runs beside it: clearing the screen abandons
the reply, a failed send draws the hint. `answers` counts how often submit or cancel was called, `dropped`
are the replies abandoned before.

### Setup

One action per file written and per docker or HTTP call; `pc` is the wizard, everything else is what
is on the machine and stays when the wizard ends. `Interrupt` ends it between any two steps, which is also
what a call does that fails before or after its effect; torn writes and failures the wizard goes on
after are disjuncts of their own steps. `Reboot` restarts the containers that run. Postgres keeps the
password of its first start, Synapse loads the registration when it starts, a running container is left
alone by `up -d`, the bridge admits the accounts its file named when it started. `said` is the room of
the login conversation and `shown` what the wizard has printed of it.

`docker compose up bridge` attaches the wizard to a container with `restart: unless-stopped`
(`compose.yaml:61`): `container` says that it is up or about to restart, `BridgePass` is a pass of it, which may
come at any time, and the wizard is at `first` or `second` until the call returns (`UpBridgeReturns`), which it
need not. Whether Synapse starts while its configuration names a registration file which is not there yet is
left open: `Ready` may go either way until the file exists. `SetupCompletes` therefore speaks of runs that
find the bridge's files, and do not hang on an attached call.

## Runs

| Run | Instance | Shows |
|---|---|---|
| `memory_store` | 2 rooms, 3 events, capacity 2, 4 arrivals | the log, unread counts across trimming |
| `sqlite_store` | 1 room, 2 callers, 4 events, capacity 2, 5 arrivals, 2 interruptions | unread never hidden, refinement of `MemoryStore` |
| `event_sink` | 2 senders with 2 sends, 2 closers, buffer 2, with fairness | no panic, FIFO per sender, send and close return |
| `hub` | 1 frontend, queue 2, 2 broadcasts, 2 commands, 1 fault, with fairness | nothing before hello, an ended client is forgotten, order per sender, protocol error delivered, broadcasts not blocked, connections end |
| `daemon` | 3 daemons, 4 starts, with fairness | reachable while serving, no second daemon, no leftover keeps one out |
| `matrix_link` | 3 events, 2 in a response, channel of 1, longest delay 3, 2 faults in each of 2 lives, encryption, with fairness | news once, nothing skipped but what a response leaves out, the session's flag follows the link, delays follow the outage, the key is kept, news arrives |
| `session` | 2 frontends, 1 room, 2 events out of timestamp order, capacity 1, any store to start from, 3 deliveries, commands and failures together | agreement unless raced, only stored messages are seen, newest timestamp |
| `front_link` | 3 slots, 1 request, 1 stop, 1 outage, with fairness | answered at most once, one socket, quiet after stop, requests answered unless dropped, reconnects |
| `front_view` | 2 rooms, 3 events, lists of 1, id limit 1, 2 replays, 1 lost connection or stop | glanced once, the view follows the daemon where nothing was dropped or overtaken |
| `front_level` | module `Composer`: 2 callbacks due, 3 replies | blank when silenced, a raised level is watched, a dropped reply is never sent |
| `setup` | 3 faults, 1 run after a completed one, 4 lines of conversation, with fairness | one password, done means wired, the bot is relayed, a rerun over the bridge's files completes |
| `session_race` | 1 frontend, 1 event, 3 deliveries and commands together | *violated*: a stale unread count can be the last one told |

Why the bounds are enough to be interesting:

- Stores: capacity 2 with 4 or 5 arrivals trims several times, evicts the marker, and lets an evicted
  event come back. Two interruptions leave two rows too many. Two callers are enough for a
  mark-read that straddles another one and an insert. Rooms do not interact, the second room of
  `memory_store` is there to show it.
- Event sink: two closers are what the transports have; two senders with two sends fill the buffer
  with one of them blocked inside the lock.
- Hub: with a queue of two, two broadcasts and the replies and broadcasts of two commands, two events of one
  goroutine can be queued when another one drops the oldest, and the drop can take away a reply, a broadcast or
  an error. Connections meet only in `broadcast`'s loop over its snapshot and in the map, so one connection with
  broadcasts and its own reader, which replies and broadcasts as well, has every race a connection can have
  with itself. One fault in any step of any goroutine is where every shutdown path starts.
- Daemon: the bad orders need a daemon that serves, one that starts and one that ends; the fourth start
  lets one of them come back over what its earlier life left.
- Matrix link: a channel of one makes the second event, and every edge behind an event, wait. With three events
  and two in a response, a response can leave one out, and what it left out lie before or after others that
  are stored, under way or lost. Two faults are one outage, whose second failure doubles the delay to 2 and
  whose next delay is capped (1, 2, 3), or two with a recovery between them; longer ones are the theorem's. The
  second life starts with every combination of position, key and store the first one can leave.
- Session: `MaxWork` bounds deliveries, commands and failures together: three of them are three handlers at
  once (Run and two frontends) on one room, which is what can race, or two and a failure of one; one
  event is the user's own (marks itself read), and its timestamp is the older one. Capacity 1 makes
  the second message evict the first one. What the store holds and marks at the start is any message or
  none, so the first arrival may be one it has, or evict one. Commands before Run has listed the room, or
  been handed a message of it, are refused.
- Frontend link: three slots let a cancelled, a closed and a current socket exist together; one
  outage and one stop cover every order of the two, before, within and after a request. Requests meet only
  in the order of their answers, which the theorem covers for any number.
- Frontend view: with lists of one and an id limit of one, every second message trims and prunes, so that a
  replay can meet an id that is known, held only by its list, or forgotten; two replays make a forgotten
  message come back and then again. The second room makes pruning and the choice of the next glance a
  question of more than one list. Longer lists, where a reply may be right in part, are the theorems'.
- Levels and composers: two callbacks due let a stale one wait with a fresh one (the theorems hold for
  every queue); three replies let a leftover input, a leftover window and the current reply exist
  together.
- Setup: three faults are two runs that are cut off and a failure or restart in the third; each promise
  needs at most two of them to break in a wrong version. Four lines are the greeting, an answer, a line
  of the user and an answer to that.

## Fairness

- `EventSink`: weak fairness of the steps inside `send` and `close`. Go's scheduler runs a runnable
  goroutine; a ready `select` takes a ready case. None for the receiver: Session.Run may be busy or
  gone, and `CloseReturns` and `SendReturns` hold all the same.
- `Hub`: weak fairness of a goroutine that is delivering, of a reader on its way out (`Closing`, whose wait has
  a timeout), and of a writer whose connection is shutting down: a write ends within its five-second
  deadline, by success or failure. None for a writer in normal service, since a frontend may
  never read.
- `Daemon`: a process that is starting or shutting down goes on, its system calls return. Nobody has to
  start, stop or kill one.
- `MatrixLink`: the goroutine of `run` goes on (an HTTP call returns or fails, a delay passes), the session
  takes what is on the channel, and a missing key comes or is given up. None for the homeserver's answers
  to be good: the number of faults in a life is bounded, so that an outage ends.
- `FrontLink`: weak fairness of the main loop's queue, of an armed timer, of libuv's report of what has
  happened on a socket, and of a running daemon's reading: it answers, or drops the answer. None for the
  daemon's start and end, nor for the user.
- `Setup`: the wizard goes on (its calls return, the user answers what he is asked), and a user whose run was
  cut off runs it again; that is what the wizard's own comments count on, and without it nothing is
  promised. None for the return of an attached `up bridge`, whose container restarts by itself, nor for the
  bridge and its bot.
- The other modules state safety only and need none.

## Proofs

Proved for all values of the constants that satisfy the modules' `ASSUME`s:

| Theorem | Says | Argument |
|---|---|---|
| `MemoryStoreTypeOK` | types, logs within capacity | `TrimBounded` |
| `MemoryStoreLog` | the log is the tail of what arrived, no repetitions | inductive together; `TailOfAppend`: trimming after an append keeps a tail a tail; `AppendedNoDuplicates` |
| `MemoryStoreUnread` | unread counts survive trimming | follows from `MemoryStoreLog` by `UnreadOfTrim`: positions of the log are positions of `arrivals` shifted by a constant |
| `SQLiteTypeOK` | types | directly |
| `SQLiteOvershoot` | rows waiting for a trim never hide an unread message, and add at most their number | from the types; `UnreadOfKept`: the unread positions beyond the rows cut off and those of the trimmed rows correspond one to one |
| `SQLiteImplementsStore` | SQLite implements the memory store, whatever is interrupted, however often | each step maps to a step or a stutter under `log <- Kept`; `KeptIsTrim`, `TrimIdempotent` (a trim does not change what the next trim keeps), `TailOfAppend` (a late trim commutes with an append), `KeptHasOnlyRows` |
| `EventSinkTypeOK` | types, buffer within capacity | directly |
| `EventSinkNoPanic` | no send on a closed channel, no double close | inductive invariant `LockInv` (also a run's invariant): a sender past the lock is in `readers`; the Once admits one closer; it closes with no reader inside; hence no sender is at its `select` when the channel is closed |
| `EventSinkFifo` | FIFO and nothing lost or invented | inductive: what was received followed by what is buffered is what was reported; the number in a sender's latest event is at most the number of its calls |
| `HubTypeOK` | types, queues within capacity | directly, in four groups of variables |
| `EndedIsForgotten` | an ended connection is not a broadcast target | inductive with `LifeInv`: a connection the acceptor has in hand has no reader yet, and only a busy reader has jobs of its own |
| `HelloComesFirst` | before hello nothing but a protocol error | inductive (`JobsInv`, `HelloInv`): a job in hand for a connection is an error of its own reader, or the connection has greeted, which is never undone |
| `SendersKeepOrder` | order and no repetition per sender, through drop-oldest | inductive (`JobsInv`, `OrderInv`): what was queued for a connection belongs to jobs that are over, or to the current one once it is past that connection (`Before`), so the next event its sender queues has a greater number; dropping the head keeps order (`TailStands`) |
| `OwedErrorArrives` | an owed protocol error is written before the reader closes | inductive (`ClosedInv`, `DebtInv`): an owed error is written, queued or about to be; the writer is not done while it is queued; a reader past its wait saw the writer done |
| `MatrixLinkTypeOK` | types | directly, in groups of variables |
| `MessagesAreNewsOnce` | each event enters once, history never | inductive (`BatchInv`, `NewsInv`): a response holds the newest of the events after the saved position in order, and what is left of it lies before the position once that is saved; what has entered or waits for its key lies before the position too and is not left in the response |
| `NothingIsSkipped` | no gap behind the saved position | inductive with `BatchInv`: saving the position moves it over the response in hand and what that leaves out (`LeftOut`, which is counted), and every later step of an event is from one of the named places to another |
| `SessionSeesTheLink` | the session's flag follows the link | inductive with `LinkInv`: the last edge on the channel, or the flag if there is none, is the flag of the transport, and the link is down wherever the loop has seen a failure |
| `PickleKeyIsKept` | sessions never lose their key | inductive with `KeyInv`: the file is empty only between its creation and its writing, and the crypto store opens with a key that is on disk |
| `DelaysFollowOutages` | the delay of each loop is 1, 2, 4, ... with the failures of this outage, up to the longest | inductive (`DelayInv`): the next delay is the one for one failure more than were counted, and a link that was seen up has none counted; `CappedNext`: doubling a delay is one failure more, since a power of two exceeds its exponent (`PowerGrows`) |
| `SessionTypeOK` | types, and what a handler at a step may be doing | directly, with `ShapeInv` and `GreetInv`: a handler goes through the steps of its command, for a room it has, and only a frontend that greeted gives commands or is told anything |
| `SeenWasStored` | a frontend sees only what was stored | inductive with `StoredInv`: the log holds only what was accepted, and so do the local variables of a handler past its append or its read; nothing accepted is forgotten (`ArrivalsGrow`) |
| `NewestIsKept` | lastTS is the newest timestamp this life has heard, over any store | `NewestInv`: an event may be newer only between its append and the next step of `ingest`, which is Run's alone |
| `RoomsAreToldAsTheyAre` | unless raced, the last word on a room is what is stored | inductive (`RaceInv`): a room that is not raced for a frontend is at rest and told, or exactly one handler is at it, whose view so far is the room's and which has told it to the frontends it is past; the others have no way to change that room (`RaceMove`, one lemma per kind of step) |
| `FrontLinkTypeOK` | types | directly, in four groups of variables |
| `NoSocketIsLeft` | no live socket but the current one | inductive with the types: whoever opens a socket has closed the one before |
| `StopIsQuiet` | nothing runs after a stop | inductive with the types and the above |
| `CallbackRunsOnce` | a request is answered at most once | inductive (`AnswerInv`): a request is yet to come, outstanding, or awaited by one queued error answer, and only one of these; taking the head of the queue or appending to it keeps that (`AwaitsTail`, `FailPendingQueued`) |
| `DaemonTypeOK` | types | directly |
| `DaemonReachable` | a daemon that met no other stays reachable while it serves | inductive (`Gates`, `Alone`, `Served`): while such a daemon starts, every other one is gone; while it serves, every other one is gone, at `stat` or `dial`, or leaving with nothing to close, and a dial is answered; so nobody is left who could take the path away |
| `DaemonRefuses` | two serve side by side only if both met another | from the same invariant |
| `SetupTypes` | types: every account named in a file, a variable or the bridge was made, every room too | inductive with `AccountInv`: past signing in, the token is the account's, and past the patch of the bridge's file it is admitted there |
| `OnePassword` | one database password | inductive (`SecretInv`): the database and a patched `homeserver.yaml` got the password of `.env`, which no later run replaces |
| `DoneIsWired` | a completed run leaves homeserver, bridge, token and config wired | inductive, one part per kind of file (`ServerInv`, `BridgeInv`, `ConfigInv`, with `AccountInv`): past a step of the wizard, what this step makes sure of is there; interruptions, failures, reboots and passes of the bridge's container take nothing of it away (`Detached`: a bridge that is up has its container up) |
| `LinesArePrinted` | the bot's lines are printed once and in order | inductive with `RelayInv` (nothing is printed before the first batch); `LinesJoin`: the lines up to one place, followed by those from there to the next, are the lines up to the next |
| `ViewTypes` | types; what is on its way is stored, a repetition follows the one first broadcast, what is held is recognised | inductive (`LogInv`, `WireInv`, `ViewInv`) |
| `GlancedAtMostOnce` | a message is glanced at once, unless replayed after it was forgotten | inductive (`GlanceInv`): a message that was shown, or is held and may still be, has had its one broadcast (`Spent`), so it can come back only as a replay; one that was shown is in the table or no longer held |
| `ViewFollows` | at rest the view is what the daemon stored last, in rooms with no gap and no event reborn | inductive (`RequestInv`, `ReplyInv`, `HistoryInv`, `SyncInv`), about rooms that are not in `gaps`: each room is asked for once; a history under way is the log as it was when what precedes it had been broadcast and what follows it had not (`HistoryAt`); a room past its history is at some place in its log, with all before it broadcast and all after it still to come (`Synced`), and holds the events up to that place as far back as its last message accepted twice (`Aligned`) |
| `FrontLevelTypeOK` | types; the glance timer runs at a raised level only | directly, screen and timers apart |
| `FrontLevelSilence` | silenced means blank | inductive with the types |
| `FrontLevelTimed`, `FrontLevelMark`, `FrontLevelWatched` | a raised level has its timer armed or its callback due, and a mark goes with its level | inductive; `QueueMembers`: a queue loses its head only, and the head either was stale or lowers the level |
| `ComposerKeepsLevels` | the frontend with composers implements the frontend without | every step is a step of `FrontLevel` or a stutter; so the theorems above hold for it (`ComposerSilence`) |
| `ComposerDropped` | a dropped reply is never sent, and none twice | inductive: only the reply whose generation is current may still be answered, and it is neither dropped nor answered (`CurrentIsOpen`) |

The inductive invariant of the sink, `LockInv`, rests on three lemmas about who moves: a sender's step
leaves the closers where they are (`SenderMoves`), and a closer's step the other closers
(`CloserElsewhere`, `CloserMoves`).

The hub's proof looks at a step in one of three ways (`QueueMoves`): it puts the event of a job into a queue
(`Queues`), takes the head of a queue, written or dropped (`Leaves`), or leaves queues and lines alone. The
strengthenings of `Hub`, `MatrixLink`, `FrontLink`, `Session`, `Setup` and `FrontView` were checked as
invariants of their runs' instances before they were proved, the hub's with two frontends and the session's
with two rooms as well.

Induction is over steps (PTL), and over numbers where a recursive function is met (`Power` of `MatrixLink`,
`BotLines` of `Setup`, the loop of `HandleRooms`): of the numbers for which a fact fails there would be a
least one (`LeastNatural`), and it is not zero and not the successor of one for which the fact holds. This
also shows that the function the definition speaks of exists (`PowerExists`, `LinesExist`,
`TouchedListExists`).

Assumptions: positive capacity, `OwnEvents` a set of events, the empty id no event
(`MessageLogAssumption`), Run no frontend, every event in a room and with a timestamp (`SessionAssumption`),
`None` no daemon (`DaemonAssumption`), finitely many rooms and a history of at least one message
(`FrontViewAssumption`), natural numbers for the bounds (`HubAssumption`,
`MatrixLinkAssumption`, ...). They are ASSUMEs of the modules, and TLC evaluates them in the runs.

Every safety invariant of the passing runs and both refinements are proved. Only model-checked:

- liveness (`CloseReturns`, `SendReturns`, `SlowClientNeverBlocks`, `ServeGoroutinesEnd`, `StaleNeverBlocks`,
  `NewsArrives`, `RequestsAnswered`, `Reconnects`, `SetupCompletes`): fairness and ENABLED are outside
  what TLAPS can do here;
- that the exception of `AgreesUnlessRaced` is needed is a counterexample (`session_race`), not a theorem.

## Findings

Shown by a run:

- `session_race`: `ingest` and `MarkRead` count unread messages and broadcast the count later, with no
  lock over both. A stale count can be told last, to every frontend, and stays until the next event
  of the room. The protocol document promises that every client receives the updated room event.

Met while modelling, without a run of their own:

- A broadcast can come between setting the hello flag and queueing `ready` (`server.go:403-407`), though
  `docs/design/03-ipc-protocol.md:85` says `ready` is first. The frontend starts over on `ready`, so it
  loses nothing; the order is in `Hub` and in `FrontView` (`Greet`, `SendReady`).
- No sync filter is set and `timeline.limited` and `prev_batch` are not read (`matrix.go:395-404`), so after a
  long outage or absence a response holds only the newest messages of a room, and the position moves over
  the others for good. `matrix_session.go:60-61` says that a restarted daemon picks up the messages it missed.
  `NothingSkipped` and `NewsArrives` name them `cut`.
- A connection accepted just before `Close` takes the clients away is added to the map afterwards
  (`server.go:132-141`, `:145`) and closed by nobody but the end of the process.
- A history reply over the line limit is dropped (`server.go:487-492`): the command is never
  answered, against `docs/design/03-ipc-protocol.md:71`. So is a reply that is the oldest event of a full
  queue (`server.go:269-280`). The frontend's request stays pending until the connection ends (`lost` in
  `FrontLink`), and a room whose history or message was dropped stays incomplete in the view until the next
  `ready` (`gaps` in `FrontView`).
- After a restart over a persistent store every `lastTS` is 0 until a message arrives in the room
  (`session.go:52-60`), so the rooms are not in the order of their newest messages before that.
- A read marker can move back: `SetReadMarker` takes any event id (`memory.go:126`), an older one
  as well, and the own message of a replay sets it back too (`session.go:136`).
- `MarkRead` moves the marker in the store and then fails in the transport (`session.go:202`): half of it
  is done and no frontend is told.
- An event the store has already is broadcast again (`session.go:125-141`); `state.lua:50` relies on
  the daemon not replaying, and after pruning the frontend takes it as new (`reborn` in `FrontView`).
- A history reply overtaken by a message removes that message from the view (`state.lua:136`;
  `Overtaken` in `FrontView`).
- A glance followed by `:QuietdmRead` sets L2, and the glance's text then stays when the cursor moves,
  since `hide_glance` acts at L1 only (`level.lua:104-107`); the idle timer takes it away.
- A chunk still queued when the plugin is stopped and started again is appended to the new connection's
  buffer (`ipc.lua:256`). The `ready` line becomes malformed and is dropped, and the open connection is
  never counted as connected and never retried. `Reconnects` promises nothing after a stop for this reason.
- A glance beside an open conversation list replaces level L3 by L1; the next cursor movement hides
  the glance, sets L0 and stops the idle timer. The list stays, with no timer.
- A reply's window that Neovim refuses to close (`pcall` in `close_window`) stays on the screen after a
  panic, and the composer has forgotten its `winid`. Its text is never sent all the same.
- `clearStale` and `Close` remove whatever is at the path (`server.go:113`, `:166`). Two daemons that start at
  once, or one that starts while another ends, can remove each other's socket, and the one that goes
  on serving is reached by nobody. This is why the properties of `Daemon` except those that `met`.
- What is on its way through the sink when the daemon is killed, or ends, is lost: the sync position is
  saved before (`matrix_session.go:85`). `NothingSkipped` names it `gone`.
- `OnFailedSync` sends the edge with a context of its own; the comment there says that the stop of
  the sink bounds it, but the sink is closed by the same goroutine's defer. In fact it is bounded by the
  end of the process, which waits for no goroutine.
- A pickle key file, `homeserver.yaml` or the bridge's `config.yaml` that was cut off in a write is refused by
  every later run, until someone removes it by hand.
- `ensureDaemonAccount` passes over a good token when `Whoami` fails for any reason (`setup.go:152-158`) and
  registers another account; `up -d bridge` then leaves a running bridge with the permissions it has
  read before. `DoneMeansWired` excuses it until the bridge's next start.
- `ensureBridgeConfig` and `ensureBridgeRegistration` wait for an attached `docker compose up bridge` to return
  (`bridge.go:21`, `:60`) and call these passes self-terminating, but the service has
  `restart: unless-stopped` (`compose.yaml:61`). If Docker restarts the container, the wizard stays attached until
  it is interrupted, and the second pass may run before `config.yaml` was patched; what the registration then
  says is not modelled.
- Synapse is started with a configuration that names a registration file the bridge has not written yet
  (`synapse.go:139`); should it refuse, no run gets as far as writing one.
- `findOrCreateBridgeDM` opens another room when the bot has not joined the first one yet or its members
  cannot be read.
- An answer of the bot that is there before `runBridgeLogin`'s first sync is passed over; and the wizard
  waits for a line of the user after each batch, its own echo included. It can wait for a bot that
  waits for the user (`Waiting`).

## Not modelled

- Types, JSON, sanitising, wording, layout, colours, logs, option files and their checks: no behaviour
  over time. Of the protocol's records the models keep the fields their properties need.
- The library behind the Matrix transport, Docker, Postgres, Synapse, the bridge and Neovim: modelled from
  how the code uses them.
- Send, MarkRead and Rooms of the transports, which hand on one call: in `Session` they are calls that may
  fail. The Matrix name cache and the mock's script are data.
- The inside of the YAML patches of the setup tool, and the checks before its first step.
- Two frontends in the run of `Hub` at once: their connections share the map and the broadcast loop
  only. `Session` has two, with unbounded queues.
- Unread totals, the statusline notifier and `mark_read` in `FrontView`: `Session` has `mark_read`
  on the daemon's side.
- The window conditions of the guard (file type, focus of a window that shows code): one constant
  situation, in which a glance is allowed unless silenced or typing.
- The store in `FrontView` holds every event of an instance; trimming by the daemon is in `Session`.
- Liveness of the levels: timers are libuv's, and `RaisedLevelIsWatched` says one is always there.
- `lua/quietdm/config.lua`, `registry.lua`, `log.lua`, the diagnostic renderer, the statusline notifier and
  `plugin/quietdm.lua`: tables filled once, and a ring of log lines.

## Plan

Done in this order: stores, event sink, hub, session, frontend link, frontend view, exposure levels;
then the Matrix link, the socket file, setup, and the composers on top of the levels. Proofs for the
stores, the sink, the levels, the composers and the daemon, then for the hub, the Matrix link, the frontend
link and the session, and last for setup, the view and the delays.

Proof modules of neighbouring components are kept together, so that there stay few of them: `StoreProofs`
has the theorems of both stores, `QuietdmdProofs` those of the daemon process and of its setup command,
`FrontProofs` those of the levels, the composers and the view.

Model next, if the code grows that way: an abstract `Outbox` (what the hub promises one frontend),
implemented by `Hub` and composed with `Session`, so that drops reach the session's properties; unread
totals and the notifier in `FrontView`.

The number of runs is kept at a dozen, so that checking everything stays a matter of minutes.

## Running the checks

In this directory, with TLC and the community modules on the path:

    tlc -workers 2 -config Hub.cfg Hub.tla
    tlapm HubProofs.tla

`PROJECT.json` names the module and configuration of each run and the mutants of each property. The
largest runs are `front_view` with 3.1 million states and `matrix_link`, whose liveness takes longest; each
run takes less than two minutes on two cores. The longest proof is `FrontProofs`, some minutes.
