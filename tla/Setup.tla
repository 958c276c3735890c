-------------------------------- MODULE Setup --------------------------------
(***************************************************************************)
(* `quietdmd setup` (internal/setup): one step for each file it writes and *)
(* each docker or HTTP call it makes, on a machine where everything it has *)
(* done so far is still there.  A call that fails, with or without its     *)
(* effect, Ctrl-C and a kill all end the wizard between two steps; the     *)
(* user runs it again.  Failures the wizard goes on after, and writes that *)
(* break off, are steps of their own.                                      *)
(*                                                                         *)
(* The containers are modelled from how the wizard uses them: Postgres     *)
(* keeps the password of its first start, Synapse comes up only with that  *)
(* password and loads the registration file when it starts, `up -d` leaves *)
(* a running container alone, and the bridge writes its config.yaml on its *)
(* first pass, its registration.yaml on the second, and admits the         *)
(* accounts that its config names when it starts.  Its container restarts  *)
(* by itself (compose.yaml:61), so a pass may follow the other at any time *)
(* and `up bridge`, which stays attached to it, may return or not.         *)
(***************************************************************************)
EXTENDS Integers, Sequences, FiniteSets

CONSTANTS
    MaxFaults,  \* bound on failures, interruptions and restarts of containers
    MaxAgain,   \* bound on runs after one that was completed
    MaxLines    \* bound on the lines of one login conversation

ASSUME SetupAssumption == MaxFaults \in Nat /\ MaxAgain \in Nat /\ MaxLines \in Nat

VARIABLES
    pc, acct,           \* the wizard: where it is, adminMXID,
    room,               \*   roomID,
    since,              \*   since of runBridgeLogin
    force, named,       \*   -force, and the account in the file it wrote
    env,                \* POSTGRES_PASSWORD in .env, or Absent
    hs,                 \* homeserver.yaml: Absent, Torn, Made, or its password
    db,                 \* the password of the database, Absent before its start
    synapse, loaded,    \* Synapse runs; it has loaded the registration
    token,              \* account of the token file, or Absent
    accounts, passwords,        \* how many have been made
    bridgeYaml, admits,         \* config.yaml: Absent, Torn or Made; its admins
    registration,               \* registration.yaml exists
    bridge, knows,              \* the bridge runs, with these admins
    container,                  \* its container is up, or about to restart
    rooms, joined,              \* rooms opened with the bot; those it is in
    said, base,         \* lines of the login room, and how many the first sync had
    shown,              \* history: bot lines printed, by their position
    config,             \* config.toml: Absent, Mine (the user's) or an account
    faults, again,      \* counters for MaxFaults and MaxAgain
    hadOwn, forced,     \* history: Mine existed before; some run had -force
    dropped             \* history: a good token was given up, the container up

wizard == <<acct, room, since, force, named>>
server == <<hs, db, synapse, loaded>>
user   == <<token, accounts>>
secret == <<env, passwords>>
meta   == <<bridgeYaml, admits, registration, bridge, knows, container>>
chat   == <<rooms, joined, said, base, shown>>
bound  == <<faults, again>>
past   == <<hadOwn, forced, dropped>>
setupVars   == <<pc, wizard, server, user, secret, meta, chat, config, bound, past>>

Absent == -1
Torn == -2
Mine == -3
Made == 0       \* as its container generated it

Run(step)  == pc = step
Then(step) == pc' = step
Fault      == faults < MaxFaults /\ faults' = faults + 1 /\ UNCHANGED again

SetupInit ==
    /\ pc = "off" /\ acct = Absent /\ room = Absent /\ since = 0
    /\ force = FALSE /\ named = Absent
    /\ env = Absent /\ hs = Absent /\ db = Absent /\ synapse = FALSE /\ loaded = FALSE
    /\ token = Absent /\ accounts = 0 /\ passwords = 0
    /\ bridgeYaml = Absent /\ admits = {} /\ registration = FALSE
    /\ bridge = FALSE /\ knows = {} /\ container = FALSE
    /\ rooms = << >> /\ joined = {} /\ said = << >> /\ base = 0 /\ shown = << >>
    /\ config \in {Absent, Mine}
    /\ faults = 0 /\ again = 0
    /\ hadOwn = (config = Mine) /\ forced = FALSE /\ dropped = FALSE

-----------------------------------------------------------------------------
(* The wizard's files and the homeserver                                   *)

StartSetup ==
    /\ pc \in {"off", "done"}
    /\ again' = (IF pc = "done" THEN again + 1 ELSE again) /\ again' <= MaxAgain
    /\ Then("env")
    /\ force' \in BOOLEAN /\ forced' = (forced \/ force')
    /\ acct' = Absent /\ room' = Absent /\ since' = 0 /\ named' = Absent
    /\ said' = << >> /\ base' = 0 /\ shown' = << >>
    /\ UNCHANGED <<server, user, secret, meta, rooms, joined, config, faults, hadOwn, dropped>>

\* Mutant: the second run still makes a password of its own.
FreshPassword ==
    /\ Run("env") /\ Then("generate")
    /\ IF passwords < 2 THEN passwords' = passwords + 1 /\ env' = passwords'
       ELSE UNCHANGED secret
    /\ UNCHANGED <<wizard, server, user, meta, chat, config, bound, past>>

\* materializeStack: the password in .env is used again, if there is one.
MaterializeStack ==
    /\ Run("env") /\ Then("generate")
    /\ IF env = Absent THEN passwords' = passwords + 1 /\ env' = passwords'
       ELSE UNCHANGED secret
    /\ UNCHANGED <<wizard, server, user, meta, chat, config, bound, past>>

\* ensureSynapseConfig: generate, if there is no homeserver.yaml, for which
\* Postgres is started, too (depends_on) ...
GenerateSynapse ==
    /\ Run("generate") /\ Then("patch")
    /\ hs' = (IF hs = Absent THEN Made ELSE hs)
    /\ db' = (IF hs = Absent /\ db = Absent THEN env ELSE db)
    /\ UNCHANGED <<wizard, synapse, loaded, user, secret, meta, chat, config, bound, past>>

\* ... and patch it in any case.  An empty file is refused and stays.
PatchSynapse ==
    /\ Run("patch")
    /\ \/ hs # Torn /\ hs' = env /\ Then("up") /\ UNCHANGED bound
       \/ hs # Torn /\ hs' = Torn /\ Then("off") /\ Fault
       \/ hs = Torn /\ hs' = Torn /\ Then("off") /\ UNCHANGED bound
    /\ UNCHANGED <<wizard, db, synapse, loaded, user, secret, meta, chat, config, past>>

\* startSynapse: up -d postgres synapse.
StartSynapse ==
    /\ Run("up") /\ Then("ready")
    /\ db' = (IF db = Absent THEN env ELSE db)
    /\ synapse' = TRUE
    /\ loaded' = (IF synapse THEN loaded ELSE registration)
    /\ UNCHANGED <<wizard, hs, user, secret, meta, chat, config, bound, past>>

\* waitHTTPReady: it answers, or the wizard gives up in the end.  Whether Synapse
\* starts without the registration file that its configuration names is open.
Ready(step, next) ==
    /\ Run(step)
    /\ \/ hs = db /\ Then(next)
       \/ (hs # db \/ ~registration) /\ Then("off")
    /\ UNCHANGED <<wizard, server, user, secret, meta, chat, config, bound, past>>

\* ensureDaemonAccount: Whoami tells whose token it is.  If it fails for any
\* reason, the token is passed over.
Whoami ==
    /\ Run("whoami")
    /\ \/ /\ token # Absent
          /\ acct' = token /\ Then("bridgeYaml")
          /\ UNCHANGED <<bound, dropped>>
       \/ /\ token = Absent
          /\ Then("register") /\ UNCHANGED <<acct, bound, dropped>>
       \/ /\ token # Absent /\ Fault
          /\ dropped' = (dropped \/ container)
          /\ Then("register") /\ UNCHANGED acct
    /\ UNCHANGED <<room, since, force, named, server, user, secret, meta, chat, config,
                   hadOwn, forced>>

RegisterAdmin ==
    /\ Run("register") /\ Then("login")
    /\ accounts' = accounts + 1 /\ acct' = accounts'
    /\ UNCHANGED <<room, since, force, named, server, token, secret, meta, chat, config, bound, past>>

\* Login and writeTokenFile.  A token file that is cut off is as good as none.
Login ==
    /\ Run("login")
    /\ \/ token' = acct /\ Then("bridgeYaml") /\ UNCHANGED bound
       \/ token' = Absent /\ Then("off") /\ Fault
    /\ UNCHANGED <<wizard, server, accounts, secret, meta, chat, config, past>>

-----------------------------------------------------------------------------
(* The bridge                                                              *)

Attached == pc \in {"first", "second"}

\* `up bridge`: the container is started, and the wizard attached to it.
UpBridge(pass) == container' = TRUE /\ Then(pass)

\* ensureBridgeConfig: the first pass of the container, if there is no
\* config.yaml ...
GenerateBridge ==
    /\ Run("bridgeYaml")
    /\ IF bridgeYaml = Absent THEN UpBridge("first") ELSE Then("permit") /\ UNCHANGED container
    /\ UNCHANGED <<wizard, server, user, secret, bridgeYaml, admits, registration, bridge, knows,
                   chat, config, bound, past>>

\* The container ends, for good or to be restarted.
Detach ==
    /\ container' \in {container, FALSE}
    /\ bridge' = (bridge /\ container')

\* If `up bridge` returns, its pass is over.
UpBridgeReturns ==
    /\ \/ Run("first") /\ bridgeYaml # Absent /\ Then("permit")
       \/ Run("second") /\ registration /\ Then("restart")
    /\ Detach
    /\ UNCHANGED <<wizard, server, user, secret, bridgeYaml, admits, registration, knows, chat,
                   config, bound, past>>

\* ... and the account added to its permissions in any case.
PatchBridge ==
    /\ Run("permit")
    /\ \/ /\ bridgeYaml # Torn
          /\ admits' = admits \union {acct}
          /\ Then("registration") /\ UNCHANGED <<bridgeYaml, bound>>
       \/ /\ bridgeYaml # Torn /\ Fault
          /\ bridgeYaml' = Torn /\ admits' = {}
          /\ Then("off")
       \/ /\ bridgeYaml = Torn
          /\ Then("off") /\ UNCHANGED <<bridgeYaml, admits, bound>>
    /\ UNCHANGED <<wizard, server, user, secret, registration, bridge, knows, container, chat,
                   config, past>>

\* Mutant: Synapse is restarted by the run that made the registration only.
RegisterBridgeOnce ==
    /\ Run("registration")
    /\ IF registration THEN Then("bridge") /\ UNCHANGED container ELSE UpBridge("second")
    /\ UNCHANGED <<wizard, server, user, secret, bridgeYaml, admits, registration, bridge, knows,
                   chat, config, bound, past>>

\* ensureBridgeRegistration: the second pass, if there is no registration ...
RegisterBridge ==
    /\ Run("registration")
    /\ IF registration THEN Then("restart") /\ UNCHANGED container ELSE UpBridge("second")
    /\ UNCHANGED <<wizard, server, user, secret, bridgeYaml, admits, registration, bridge, knows,
                   chat, config, bound, past>>

\* ... and Synapse restarted in any case, to load it.
RestartSynapse ==
    /\ Run("restart") /\ Then("back")
    /\ synapse' = TRUE /\ loaded' = registration
    /\ UNCHANGED <<wizard, hs, db, user, secret, meta, chat, config, bound, past>>

\* startBridge: up -d bridge.
StartBridge ==
    /\ Run("bridge") /\ Then("room")
    /\ bridge' = TRUE /\ container' = TRUE
    /\ knows' = (IF bridge THEN knows ELSE admits)
    /\ UNCHANGED <<wizard, server, user, secret, bridgeYaml, admits, registration, chat,
                   config, bound, past>>

-----------------------------------------------------------------------------
(* The login conversation and config.toml                                  *)

Mates == {r \in joined : rooms[r] = acct}

\* findOrCreateBridgeDM: a room with the bot in it is used again.  One that the
\* bot has not joined yet, or whose members cannot be read, is not.
FindRoom ==
    /\ Run("room") /\ Then("greet")
    /\ \/ room' \in Mates /\ UNCHANGED <<rooms, bound>>
       \/ /\ IF Mates = {} THEN UNCHANGED bound ELSE Fault
          /\ rooms' = Append(rooms, acct) /\ room' = Len(rooms')
    /\ UNCHANGED <<acct, since, force, named, server, user, secret, meta, joined, said, base,
                   shown, config, past>>

Say(who, next) == said' = Append(said, who) /\ Then(next)

\* runBridgeLogin sends "login" ...
Greet ==
    /\ Run("greet") /\ Say("me", "baseline")
    /\ UNCHANGED <<wizard, server, user, secret, meta, rooms, joined, base, shown, config,
                   bound, past>>

\* ... passes over everything up to a first sync; if that fails, over nothing ...
Baseline ==
    /\ Run("baseline") /\ Then("poll")
    /\ \/ since' = Len(said) /\ base' = since' /\ UNCHANGED bound
       \/ Fault /\ UNCHANGED <<since, base>>
    /\ UNCHANGED <<acct, room, force, named, server, user, secret, meta, rooms, joined, said,
                   shown, config, past>>

\* The lines of the bot among those after the first up to the last.
BotLines(first, last) ==
    LET lines[i \in 0..last] ==
            IF i <= first THEN << >>
            ELSE IF said[i] = "bot" THEN Append(lines[i - 1], i) ELSE lines[i - 1]
    IN  lines[last]

\* Mutant: only the newest event of a batch is printed.
PollLast ==
    /\ Run("poll") /\ Then("ask") /\ Len(said) > since
    /\ since' = Len(said)
    /\ shown' = shown \o BotLines(since' - 1, since')
    /\ UNCHANGED <<acct, room, force, named, server, user, secret, meta, rooms, joined, said,
                   base, config, bound, past>>

\* ... and prints what the bot says in each batch of events, the user's own too.
Poll ==
    /\ Run("poll") /\ Then("ask") /\ Len(said) > since
    /\ since' = Len(said)
    /\ shown' = shown \o BotLines(since, since')
    /\ UNCHANGED <<acct, room, force, named, server, user, secret, meta, rooms, joined, said,
                   base, config, bound, past>>

\* After each batch it waits for a line of the user, who ends the conversation
\* with a blank one, or answers.
Ask ==
    /\ Run("ask")
    /\ \/ Then("config") /\ UNCHANGED said
       \/ Len(said) < MaxLines /\ Say("me", "poll")
    /\ UNCHANGED <<wizard, server, user, secret, meta, rooms, joined, base, shown, config,
                   bound, past>>

\* writeConfigFile: a file of its own beside one that exists, unless forced.
WriteConfig ==
    /\ Run("config")
    /\ \/ /\ named' = acct /\ Then("done") /\ UNCHANGED bound
          /\ config' = (IF config = Absent \/ force THEN acct ELSE config)
       \/ /\ UNCHANGED named /\ Then("off") /\ Fault
          /\ config' = (IF config = Absent \/ force THEN Torn ELSE config)
    /\ UNCHANGED <<acct, room, since, force, server, user, secret, meta, chat, past>>

-----------------------------------------------------------------------------
(* The rest of the world                                                   *)

AllUp == synapse /\ hs = db /\ loaded /\ bridge

\* A pass of the bridge's container: it writes its config.yaml, then its
\* registration.yaml, and then runs, once somebody is named to it.
BridgePass ==
    /\ container /\ ~bridge
    /\ \/ bridgeYaml = Absent /\ bridgeYaml' = Made /\ UNCHANGED <<registration, bridge, knows>>
       \/ /\ bridgeYaml # Absent /\ ~registration
          /\ registration' = TRUE /\ UNCHANGED <<bridgeYaml, bridge, knows>>
       \/ /\ bridgeYaml = Made /\ admits # {} /\ registration
          /\ bridge' = TRUE /\ knows' = admits /\ UNCHANGED <<bridgeYaml, registration>>
    /\ UNCHANGED <<pc, wizard, server, user, secret, admits, container, chat, config, bound, past>>

BotJoins ==
    /\ AllUp
    /\ joined' \in {joined \union {r} : r \in {r \in 1..Len(rooms) : rooms[r] \in knows}}
    /\ UNCHANGED <<pc, wizard, server, user, secret, meta, rooms, said, base, shown, config,
                   bound, past>>

\* The bot says something to an account it admits.
BotSpeaks ==
    /\ AllUp /\ pc \in {"baseline", "poll", "ask"}
    /\ room \in joined /\ acct \in knows /\ Len(said) < MaxLines
    /\ said' = Append(said, "bot")
    /\ UNCHANGED <<pc, wizard, server, user, secret, meta, rooms, joined, base, shown, config,
                   bound, past>>

\* The wizard ends: a call of it has failed, before or after it had its effect,
\* or it was interrupted, which stops a container it is attached to or does not.
Interrupt ==
    /\ pc \notin {"off", "done"} /\ Then("off") /\ Fault
    /\ IF Attached THEN Detach ELSE UNCHANGED <<container, bridge>>
    /\ UNCHANGED <<wizard, server, user, secret, bridgeYaml, admits, registration, knows, chat,
                   config, past>>

\* The machine or Docker restarts what was running (unless-stopped).
Reboot ==
    /\ Fault
    /\ loaded' = (IF synapse THEN registration ELSE loaded)
    /\ knows' = (IF bridge THEN admits ELSE knows)
    /\ UNCHANGED <<pc, wizard, hs, db, synapse, user, secret, bridgeYaml, admits, registration,
                   bridge, container, chat, config, past>>

-----------------------------------------------------------------------------

Steps ==
    \/ MaterializeStack \/ GenerateSynapse \/ PatchSynapse \/ StartSynapse
    \/ Ready("ready", "whoami") \/ Whoami \/ RegisterAdmin \/ Login
    \/ GenerateBridge \/ PatchBridge \/ RegisterBridge \/ RestartSynapse
    \/ Ready("back", "bridge") \/ StartBridge
    \/ FindRoom \/ Greet \/ Baseline \/ Poll \/ Ask \/ WriteConfig

SetupNext ==
    \/ StartSetup \/ Steps \/ UpBridgeReturns
    \/ BridgePass \/ BotJoins \/ BotSpeaks \/ Interrupt \/ Reboot

SetupSpec == SetupInit /\ [][SetupNext]_setupVars

\* The wizard goes on, unless it is attached to the bridge's container, and a
\* user whom it left off runs it again.
SetupFairSpec == SetupSpec /\ WF_setupVars(Steps) /\ WF_setupVars(pc = "off" /\ StartSetup)

-----------------------------------------------------------------------------

SetupTypeOK ==
    /\ pc \in {"off", "env", "generate", "patch", "up", "ready", "whoami", "register",
               "login", "bridgeYaml", "first", "permit", "registration", "second", "restart", "back", "bridge",
               "room", "greet", "baseline", "poll", "ask", "config", "done"}
    /\ passwords \in Nat /\ {env, db} \subseteq {Absent} \union 1..passwords
    /\ hs \in {Absent, Torn, Made} \union 1..passwords
    /\ accounts \in Nat /\ {acct, token, named} \subseteq {Absent} \union 1..accounts
    /\ bridgeYaml \in {Absent, Torn, Made}
    /\ admits \union knows \subseteq 1..accounts
    /\ rooms \in Seq(1..accounts) /\ joined \subseteq 1..Len(rooms)
    /\ room \in {Absent} \union 1..Len(rooms)
    /\ said \in Seq({"me", "bot"}) /\ since \in 0..Len(said) /\ base \in 0..since
    /\ shown \in Seq(Nat)
    /\ config \in {Absent, Torn, Mine} \union 1..accounts
    /\ {synapse, loaded, registration, bridge, container, force, hadOwn, forced, dropped} \subseteq BOOLEAN

\* "generated once and reused on every later run so re-running `quietdmd setup`
\* does not orphan the first database" (synapse.go:27-28): wherever runs were cut
\* off, .env, the database and a patched homeserver.yaml have one password.
PasswordAgrees ==
    /\ db # Absent => env = db
    /\ (db # Absent /\ hs > Made) => hs = db

\* "re-running resumes rather than starts over" (setup.go:68-70): a run that is
\* completed leaves everything wired, whatever earlier runs left undone.  Synapse
\* runs on the one database and has loaded the registration; the bridge runs and
\* admits the account; the token is that account's, and so is the file that the
\* summary names; and a config.toml of the user's own is still there unless some
\* run was forced.  A bridge that runs is not told of a new account, so if a good
\* token was given up while its container was up, the account may not be admitted
\* before the next restart.
DoneMeansWired ==
    Run("done") =>
        /\ synapse /\ loaded /\ hs = env /\ db = env
        /\ bridge /\ acct \in admits /\ (acct \in knows \/ dropped)
        /\ token = acct /\ named = acct
        /\ (hadOwn /\ ~forced) => config = Mine

\* "whatever the bot says is printed verbatim" (chat.go:46-49): what the wizard
\* has read past its first sync, it has printed once and in order.
BotIsRelayed == shown = BotLines(base, since)

\* The first sync had the bot's answer already, and the bot waits for the user
\* while the wizard waits for the bot; or the bot has said all it can here.
Waiting == Run("poll") /\ Len(said) = since

\* Once the bridge has written both its files, a user who runs the wizard again
\* whenever it was cut off gets to the end of it, or to where it waits for the
\* bot: nothing that a run left behind stops all later ones, except a file that
\* was cut off in a write (setup.go:66-70).  Before that it may wait forever for
\* an `up bridge`, or find no Synapse.
SetupCompletes ==
    (pc # "off" /\ ~Attached /\ registration /\ bridgeYaml # Absent)
        ~> Run("done") \/ Waiting \/ hs = Torn \/ bridgeYaml = Torn

=============================================================================
