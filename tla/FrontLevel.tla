------------------------------ MODULE FrontLevel ------------------------------
(***************************************************************************)
(* What the frontend shows: the exposure levels L0 to L3 (level.lua), the  *)
(* guard (guard.lua), the failed-send hint (init.lua) and the built-in     *)
(* renderers, each with what it has on the screen: a mark, a window, a     *)
(* list.  The editor is single-threaded: a command, an autocommand or a    *)
(* queued callback is one step.  A libuv timer that fires only queues its  *)
(* callback (vim.schedule), which runs later, cannot be called back, and   *)
(* does not know which start of the timer it belongs to.                   *)
(*                                                                         *)
(* The conversation is FrontView's: here it only has something new, or     *)
(* something to read, and that changes at any time.                        *)
(***************************************************************************)
EXTENDS Naturals, Sequences, SequencesExt

CONSTANT MaxQueued    \* bound on the timer callbacks that are due

ASSUME FrontLevelAssumption == MaxQueued \in Nat

VARIABLES
    news,       \* state.next_unglanced() has a message
    talk,       \* the active room has messages
    current,    \* level.current
    mark,       \* renderers/blame: its extmark is drawn
    float,      \* renderers/float: its window is open
    list,       \* renderers/quickfix: its window is open
    hint,       \* the failed-send hint is drawn
    armed,      \* armed timers, out of "glance" and "idle"
    due,        \* their callbacks in vim.schedule's queue
    silent,     \* guard.silenced()
    typing      \* insert mode

conversation == <<news, talk>>
screen       == <<mark, float, list>>
vars == <<conversation, current, screen, hint, armed, due, silent, typing>>

Timer == {"glance", "idle"}

Flags ==
    /\ news \in BOOLEAN /\ talk \in BOOLEAN /\ (talk = FALSE => news = FALSE)
    /\ mark \in BOOLEAN /\ float \in BOOLEAN /\ list \in BOOLEAN /\ hint \in BOOLEAN
    /\ silent \in BOOLEAN /\ typing \in BOOLEAN

\* The glance timer runs at a raised level only.
Timers ==
    /\ current \in {"L0", "L1", "L2", "L3"}
    /\ armed \subseteq Timer /\ due \in Seq(Timer) /\ Len(due) <= MaxQueued
    /\ "glance" \in armed => current # "L0"

TypeOK == Flags /\ Timers

Init ==
    /\ news = FALSE /\ talk = FALSE
    /\ current = "L0" /\ mark = FALSE /\ float = FALSE /\ list = FALSE /\ hint = FALSE
    /\ armed = {} /\ due = << >>
    /\ silent = FALSE /\ typing = FALSE

-----------------------------------------------------------------------------

\* guard.allow in a window that shows code, and guard.allow_explicit.
Allow == ~silent /\ ~typing
AllowExplicit == ~silent

\* The built-in renderers.  A mark or a hover window may fail to appear, which
\* only the log hears of.
BlameRender    == mark' \in BOOLEAN
BlameClear     == mark' = FALSE
FloatRender    == float' \in BOOLEAN
FloatClear     == float' = FALSE
QuickfixRender == list' = TRUE
QuickfixClear  == list' = FALSE

\* The hover window closes by itself when the cursor moves or leaves.
HoverCloses == float' = FALSE

\* level.clear
Clear ==
    /\ armed' = {}
    /\ BlameClear /\ FloatClear /\ QuickfixClear
    /\ current' = "L0"

\* clear_all: the levels, and the whole namespace.
ClearAll == Clear /\ hint' = FALSE

\* Mutant: the idle countdown is stopped and not started again.
TouchStops(level) == armed' = armed \ {"idle"}

\* touch: the idle countdown starts again, at L0 it stops.
Touch(level) == armed' = IF level = "L0" THEN armed \ {"idle"} ELSE armed \union {"idle"}

\* CursorHold.  What is shown is news no more; there may be other news.
Glance ==
    /\ Allow /\ news
    /\ news' \in BOOLEAN
    /\ BlameRender
    /\ current' = "L1"
    /\ armed' = armed \union {"glance"}
    /\ UNCHANGED <<talk, float, list, hint, due, silent, typing>>

\* read and panorama, which show all there is.
Explicit(level) ==
    /\ AllowExplicit /\ talk
    /\ news' \in BOOLEAN
    /\ current' = level
    /\ Touch(level)
    /\ UNCHANGED <<talk, mark, hint, due, silent, typing>>

Read == Explicit("L2") /\ FloatRender /\ UNCHANGED list

\* Opening the list leaves the window, which closes the float.
Panorama == Explicit("L3") /\ QuickfixRender /\ HoverCloses

\* The cursor moves: hide_glance, then touch.
CursorMoved ==
    /\ IF current = "L1"
       THEN /\ BlameClear
            /\ current' = "L0"
            /\ armed' = armed \ Timer
       ELSE /\ Touch(current)
            /\ UNCHANGED <<mark, current>>
    /\ HoverCloses
    /\ UNCHANGED <<conversation, list, hint, due, silent, typing>>

\* Insert mode: hide_glance alone.
InsertEnter ==
    /\ ~typing
    /\ typing' = TRUE
    /\ IF current = "L1"
       THEN /\ BlameClear
            /\ current' = "L0"
            /\ armed' = armed \ {"glance"}
       ELSE UNCHANGED <<mark, current, armed>>
    /\ HoverCloses
    /\ UNCHANGED <<conversation, list, hint, due, silent>>

InsertLeave ==
    /\ typing
    /\ typing' = FALSE
    /\ UNCHANGED <<conversation, current, screen, hint, armed, due, silent>>

\* :QuietdmSilence, and panic, which clears everything once more before.
Silence ==
    /\ silent' = TRUE
    /\ ClearAll
    /\ UNCHANGED <<conversation, due, typing>>

SilenceEnds ==
    /\ silent
    /\ silent' = FALSE
    /\ UNCHANGED <<conversation, current, screen, hint, armed, due, typing>>

\* FocusLost, VimLeavePre, VimResized.
LookAway ==
    /\ ClearAll
    /\ UNCHANGED <<conversation, due, silent, typing>>

\* Mutant: a failed send is shown whatever the guard says.
SendFailedAlways ==
    /\ ~hint
    /\ hint' = TRUE
    /\ UNCHANGED <<conversation, current, screen, armed, due, silent, typing>>

\* The answer to a send is an error, at any later time.  One hint at once.
SendFailed ==
    /\ Allow /\ ~hint
    /\ hint' = TRUE
    /\ UNCHANGED <<conversation, current, screen, armed, due, silent, typing>>

HintExpires ==
    /\ hint
    /\ hint' = FALSE
    /\ UNCHANGED <<conversation, current, screen, armed, due, silent, typing>>

\* The user closes a window himself: the level does not hear of it.
CloseWindow ==
    /\ float' \in {float, FALSE} /\ list' \in {list, FALSE}
    /\ UNCHANGED <<conversation, current, mark, hint, armed, due, silent, typing>>

\* Messages arrive, are pruned, replaced, or forgotten by a stop.
ConversationChanges ==
    /\ talk' \in BOOLEAN
    /\ news' \in {talk', FALSE}
    /\ UNCHANGED <<current, screen, hint, armed, due, silent, typing>>

TimerFires(timer) ==
    /\ timer \in armed /\ Len(due) < MaxQueued
    /\ armed' = armed \ {timer}
    /\ due' = Append(due, timer)
    /\ UNCHANGED <<conversation, current, screen, hint, silent, typing>>

\* The callback of the glance timer acts at L1 only.
GlanceDue ==
    /\ due # << >> /\ Head(due) = "glance"
    /\ due' = Tail(due)
    /\ IF current = "L1" THEN Clear ELSE UNCHANGED <<armed, screen, current>>
    /\ UNCHANGED <<conversation, hint, silent, typing>>

IdleDue ==
    /\ due # << >> /\ Head(due) = "idle"
    /\ due' = Tail(due)
    /\ Clear
    /\ UNCHANGED <<conversation, hint, silent, typing>>

\* What leaves a reply that is being typed alone.
Levels ==
    \/ Glance \/ Read \/ Panorama
    \/ CursorMoved \/ InsertEnter \/ InsertLeave
    \/ SilenceEnds \/ HintExpires
    \/ CloseWindow \/ ConversationChanges
    \/ \E timer \in Timer : TimerFires(timer)
    \/ GlanceDue \/ IdleDue

Next == Levels \/ Silence \/ LookAway \/ SendFailed

Spec == Init /\ [][Next]_vars

-----------------------------------------------------------------------------

\* While the guard is silenced nothing is on the screen, whatever messages,
\* failed sends and late timer callbacks arrive (guard.lua:26-31,
\* init.lua:42-49, 201-204).
SilencedIsBlank == silent => ~mark /\ ~float /\ ~list /\ ~hint

\* At L1 the glance timer is armed or its callback is due, above it the idle one.
\* (A timeout the user configures to zero starts no timer: not modelled.)
LevelIsTimed ==
    current # "L0" =>
        (IF current = "L1" THEN "glance" ELSE "idle") \in armed \union Range(due)

\* A mark is drawn at a raised level only.
MarkHasLevel == mark => current # "L0"

\* Whatever commands, cursor movements and stale callbacks come in between, a
\* raised level comes down by itself, and a mark with it (level.lua:28-36, 61-71,
\* 94-114, 179-189).
RaisedLevelIsWatched == LevelIsTimed /\ MarkHasLevel

=============================================================================
