-------------------------------- MODULE Daemon --------------------------------
(***************************************************************************)
(* Daemon processes that share one socket path: main.go's run from Listen  *)
(* to its deferred calls, and Listen, clearStale, Serve and Close of       *)
(* internal/ipc/server.go, one system call a step, with a kill at any of   *)
(* them.  The path holds the socket of the process that bound it last; a   *)
(* connection to it is answered as long as that process listens.           *)
(*                                                                         *)
(* net.UnixListener.Close unlinks the path first and closes the listener   *)
(* second, whoever the file at the path belongs to by then.                *)
(***************************************************************************)
EXTENDS Naturals

CONSTANTS
    Daemons,    \* daemon processes; each may be started again and again
    None,
    MaxStarts   \* bound on all starts together

ASSUME DaemonAssumption == None \notin Daemons /\ MaxStarts \in Nat

VARIABLES
    path,       \* whose socket is at the socket path, or None
    listening,  \* the daemons whose listener is open
    main,       \* where run is in each daemon
    closing,    \* how far Server.Close is: "no" until Server.closed is set
    starts,     \* starts so far, for MaxStarts
    met         \* history: another daemon existed while this one was starting

vars == <<path, listening, main, closing, starts, met>>

Starting == {"stat", "dial", "remove", "bind", "listen", "chmod", "abandon"}

TypeOK ==
    /\ path \in Daemons \union {None}
    /\ listening \subseteq Daemons /\ met \subseteq Daemons
    /\ main \in [Daemons -> Starting \union {"off", "run", "close", "own", "exit", "killed"}]
    /\ closing \in [Daemons -> {"no", "unlink", "shut", "clear", "done"}]
    /\ starts \in 0..MaxStarts

Init ==
    /\ path \in Daemons \union {None}       \* a socket left by an earlier run
    /\ listening = {} /\ met = {}
    /\ main = [d \in Daemons |-> "off"] /\ closing = [d \in Daemons |-> "no"]
    /\ starts = 0

Others(d)   == Daemons \ {d}
Answers     == path \in listening
Lives(d)    == main[d] \notin {"off", "killed"}
Goto(d, pc) == main' = [main EXCEPT ![d] = pc]

-----------------------------------------------------------------------------
(* run up to Serve: Listen and clearStale                                  *)

Start(d) ==
    /\ ~Lives(d) /\ starts < MaxStarts
    /\ starts' = starts + 1
    /\ Goto(d, "stat")
    /\ met' = {e \in Others(d) : e \in met \/ main[e] \in Starting}
              \union {e \in {d} : \E f \in Others(d) : Lives(f)}
    /\ UNCHANGED <<path, listening, closing>>

\* Mutant: whatever is at the path is removed, as if it were stale.
StatNoDial(d) ==
    /\ main[d] = "stat"
    /\ Goto(d, IF path = None THEN "bind" ELSE "remove")
    /\ UNCHANGED <<path, listening, closing, starts, met>>

\* os.Stat of the path.
Stat(d) ==
    /\ main[d] = "stat"
    /\ Goto(d, IF path = None THEN "bind" ELSE "dial")
    /\ UNCHANGED <<path, listening, closing, starts, met>>

\* Mutant: a daemon that is refused runs its deferred Close.
DialThenClose(d) ==
    /\ main[d] = "dial"
    /\ Goto(d, IF Answers THEN "close" ELSE "remove")
    /\ UNCHANGED <<path, listening, closing, starts, met>>

\* DialTimeout: an answer is another daemon, and this one does not start.
Dial(d) ==
    /\ main[d] = "dial"
    /\ Goto(d, IF Answers THEN "exit" ELSE "remove")
    /\ UNCHANGED <<path, listening, closing, starts, met>>

\* Mutant: a file that nobody answers at is an error and stays.
RemoveRefuses(d) ==
    /\ main[d] = "remove"
    /\ Goto(d, "exit")
    /\ UNCHANGED <<path, listening, closing, starts, met>>

\* os.Remove of what is at the path now; it is an error if nothing is.
Remove(d) ==
    /\ main[d] = "remove"
    /\ path' = None
    /\ Goto(d, IF path = None THEN "exit" ELSE "bind")
    /\ UNCHANGED <<listening, closing, starts, met>>

\* net.Listen, first half: bind fails if the path exists.
Bind(d) ==
    /\ main[d] = "bind"
    /\ IF path = None
       THEN path' = d /\ Goto(d, "listen")
       ELSE Goto(d, "exit") /\ UNCHANGED path
    /\ UNCHANGED <<listening, closing, starts, met>>

Listen(d) ==
    /\ main[d] = "listen"
    /\ listening' = listening \union {d}
    /\ Goto(d, "chmod")
    /\ UNCHANGED <<path, closing, starts, met>>

\* The socket's permissions, of whatever is at the path; then run goes on to
\* Serve, whose goroutine waits for the context.
Chmod(d) ==
    /\ main[d] = "chmod"
    /\ Goto(d, IF path = None THEN "abandon" ELSE "run")
    /\ UNCHANGED <<path, listening, closing, starts, met>>

\* ln.Close of a Listen that failed.
Abandon(d) ==
    /\ main[d] = "abandon"
    /\ path' = None /\ listening' = listening \ {d}
    /\ Goto(d, "exit")
    /\ UNCHANGED <<closing, starts, met>>

-----------------------------------------------------------------------------
(* The end of run: both its deferred calls and Serve's goroutine Close     *)

\* A signal, or an error of Serve or of the session: run returns and stop ends
\* the context, which wakes the goroutine.
Stop(d) ==
    /\ main[d] = "run"
    /\ Goto(d, "close")
    /\ UNCHANGED <<path, listening, closing, starts, met>>

\* Close is for the first who comes, main or the goroutine ...
EnterClose(d) ==
    /\ main[d] = "close" /\ closing[d] = "no"
    /\ closing' = [closing EXCEPT ![d] = "unlink"]
    /\ main' \in {main, [main EXCEPT ![d] = "own"]}
    /\ UNCHANGED <<path, listening, starts, met>>

\* ... so main does not wait for a Close that the goroutine is in.
LeaveClose(d) ==
    /\ \/ main[d] = "close" /\ closing[d] # "no"
       \/ main[d] = "own" /\ closing[d] = "done"
    /\ Goto(d, "exit")
    /\ UNCHANGED <<path, listening, closing, starts, met>>

\* ln.Close, the unlink ...
Unlink(d) ==
    /\ closing[d] = "unlink"
    /\ path' = None
    /\ closing' = [closing EXCEPT ![d] = "shut"]
    /\ UNCHANGED <<listening, main, starts, met>>

\* ... and the descriptor; the clients are closed as well.
Shut(d) ==
    /\ closing[d] = "shut"
    /\ listening' = listening \ {d}
    /\ closing' = [closing EXCEPT ![d] = "clear"]
    /\ UNCHANGED <<path, main, starts, met>>

\* os.Remove of the path, once more.
Clear(d) ==
    /\ closing[d] = "clear"
    /\ path' = None
    /\ closing' = [closing EXCEPT ![d] = "done"]
    /\ UNCHANGED <<listening, main, starts, met>>

\* The process is gone: at the end of main, or killed anywhere.
Gone(d, how) ==
    /\ Goto(d, how)
    /\ listening' = listening \ {d}
    /\ closing' = [closing EXCEPT ![d] = "no"]
    /\ UNCHANGED <<path, starts, met>>

Exit(d) == main[d] = "exit" /\ Gone(d, "off")
Kill(d) == Lives(d) /\ Gone(d, "killed")

-----------------------------------------------------------------------------

StartUp(d) == Stat(d) \/ Dial(d) \/ Remove(d) \/ Bind(d) \/ Listen(d) \/ Chmod(d) \/ Abandon(d)
ShutDown(d) == EnterClose(d) \/ LeaveClose(d) \/ Unlink(d) \/ Shut(d) \/ Clear(d) \/ Exit(d)

Next == \E d \in Daemons : Start(d) \/ StartUp(d) \/ Stop(d) \/ ShutDown(d) \/ Kill(d)

Spec == Init /\ [][Next]_vars

\* A process that can go on does; nobody has to start, stop or kill one.
FairSpec == Spec /\ \A d \in Daemons : WF_vars(StartUp(d)) /\ WF_vars(ShutDown(d))

-----------------------------------------------------------------------------

\* A daemon that met no other while it started stays reachable in its service,
\* whoever is started, refused, stopped or killed beside it later: its socket is
\* neither taken for a stale one nor removed (server.go:64-65, 99-117).
ServiceIsReachable ==
    \A d \in Daemons : (main[d] = "run" /\ d \notin met) => path = d /\ d \in listening

\* "If something does answer, another daemon is already running and we refuse to
\* take over" (server.go:99-100): two are in service side by side only if each
\* of them met another as it started.
RefusesToTakeOver ==
    \A d, e \in Daemons :
        (d # e /\ main[d] = "run" /\ main[e] = "run") => {d, e} \subseteq met

\* What a kill or a stop at any step leaves at the path never keeps the next
\* daemon out: one that meets no other comes into service, unless it is killed
\* (server.go:101-116, 145-167).
StaleNeverBlocks ==
    \A d \in Daemons :
        main[d] = "stat" ~> main[d] \in {"run", "killed"} \/ d \in met

=============================================================================
