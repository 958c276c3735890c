------------------------------ MODULE Composer ------------------------------
(***************************************************************************)
(* The reply that is being typed (composers/cmdline.lua, prompt.lua,       *)
(* gitcommit.lua; reply, clear_all and send_failed of init.lua), in the    *)
(* frontend of FrontLevel: what clears the screen there abandons it here.  *)
(*                                                                         *)
(* A reply is numbered by its open.  The callbacks of one stay alive as    *)
(* long as its input reads or its window is there, and each of them asks   *)
(* whether the composer's generation is still the one it was opened with.  *)
(* Closing a window runs its own callback inside the function that closes  *)
(* it; at that point the generation has moved on, and it does nothing.     *)
(***************************************************************************)
EXTENDS FrontLevel

CONSTANT MaxReplies     \* bound on the replies that are opened

ASSUME ComposerAssumption == MaxReplies \in Nat

VARIABLES
    kind,       \* M.config.composer: "window" is prompt or gitcommit
    opens,      \* replies opened so far
    current_gen,\* the reply whose generation is the composer's, or 0
    reading,    \* replies whose input still reads or whose window is there
    winid,      \* the reply whose window the composer has in winid, or 0
    answers,    \* history: how often submit or cancel was called for each reply
    dropped,    \* history: replies abandoned before that
    unanswered  \* sends that the daemon has not answered

composer == <<kind, opens, current_gen, reading, winid, answers, dropped, unanswered>>

ComposerTypeOK ==
    /\ TypeOK
    /\ kind \in {"cmdline", "window"}
    /\ opens \in 0..MaxReplies /\ {current_gen, winid} \subseteq 0..opens
    /\ reading \union dropped \subseteq 1..opens
    /\ answers \in [1..MaxReplies -> Nat] /\ unanswered \in 0..opens

ComposerInit ==
    /\ Init
    /\ kind \in {"cmdline", "window"}
    /\ opens = 0 /\ current_gen = 0 /\ reading = {} /\ winid = 0
    /\ answers = [k \in 1..MaxReplies |-> 0] /\ dropped = {} /\ unanswered = 0

Unanswered == {k \in 1..opens : answers[k] = 0}

\* close_window: the window closes, unless Neovim forbids it just now (pcall).
CloseWinid ==
    /\ reading' \in {reading, reading \ {winid}}
    /\ winid' = 0

\* The input of the cmdline cannot be closed: its result is waited for.
CloseNothing == UNCHANGED <<reading, winid>>

\* Mutant: the window is closed and the generation stays.
CloseWindowOnly ==
    /\ IF kind = "cmdline" THEN CloseNothing ELSE CloseWinid
    /\ dropped' = dropped \union Unanswered
    /\ UNCHANGED <<kind, opens, current_gen, answers, unanswered>>

\* close
Close ==
    /\ current_gen' = 0
    /\ IF kind = "cmdline" THEN CloseNothing ELSE CloseWinid
    /\ dropped' = dropped \union Unanswered
    /\ UNCHANGED <<kind, opens, answers, unanswered>>

\* submit, which sends to the daemon, or cancel, which does nothing.
Answer(k, send) ==
    /\ answers' = [answers EXCEPT ![k] = @ + 1]
    /\ unanswered' = (IF send THEN unanswered + 1 ELSE unanswered)

\* The new window takes the place of the composer's old one and of a hover
\* window, or does not appear, which cancels.
OpenWindow(k) ==
    \/ /\ reading' \in {(reading \ old) \union {k} : old \in {{}, {winid}}}
       /\ winid' = k
       /\ HoverCloses /\ UNCHANGED <<answers, unanswered>>
    \/ /\ CloseWinid /\ Answer(k, FALSE)
       /\ UNCHANGED float

\* reply opens the composer; a reply before it is abandoned.
Open ==
    /\ opens < MaxReplies
    /\ opens' = opens + 1 /\ current_gen' = opens'
    /\ dropped' = dropped \union Unanswered
    /\ IF kind = "cmdline"
       THEN reading' = reading \union {opens'} /\ UNCHANGED <<winid, answers, unanswered, float>>
       ELSE OpenWindow(opens')
    /\ UNCHANGED <<kind, conversation, current, mark, list, hint, armed, due, silent, typing>>

\* The input of the cmdline ends, with a text or without.
InputEnds(k, send) ==
    /\ kind = "cmdline" /\ k \in reading
    /\ reading' = reading \ {k}
    /\ IF current_gen = k THEN Answer(k, send) ELSE UNCHANGED <<answers, unanswered>>
    /\ UNCHANGED <<vars, kind, opens, current_gen, winid, dropped>>

\* finish: enter or :w with a text, or one of the ways to give up in the window.
Finish(k, send) ==
    /\ kind = "window" /\ k \in reading /\ current_gen = k
    /\ current_gen' = 0
    /\ CloseWinid
    /\ Answer(k, send)
    /\ UNCHANGED <<vars, kind, opens, dropped>>

\* The user closes the window himself, which gives up.
UserCloses(k) ==
    /\ kind = "window" /\ k \in reading
    /\ reading' = reading \ {k}
    /\ IF current_gen = k
       THEN current_gen' = 0 /\ winid' = 0 /\ Answer(k, FALSE)
       ELSE UNCHANGED <<current_gen, winid, answers, unanswered>>
    /\ UNCHANGED <<vars, kind, opens, dropped>>

\* The daemon's answer to a send: an ack, or an error that is shown or not.
Acked ==
    /\ unanswered > 0 /\ unanswered' = unanswered - 1
    /\ UNCHANGED <<vars, kind, opens, current_gen, reading, winid, answers, dropped>>

Failed ==
    /\ unanswered > 0 /\ unanswered' = unanswered - 1
    /\ SendFailed \/ (~Allow /\ UNCHANGED vars)
    /\ UNCHANGED <<kind, opens, current_gen, reading, winid, answers, dropped>>

ComposerNext ==
    \/ Levels /\ UNCHANGED composer
    \/ (Silence \/ LookAway) /\ Close
    \/ Open
    \/ \E k \in reading, send \in BOOLEAN : InputEnds(k, send) \/ Finish(k, send)
    \/ \E k \in reading : UserCloses(k)
    \/ Acked \/ Failed

ComposerSpec == ComposerInit /\ [][ComposerNext]_<<vars, composer>>

-----------------------------------------------------------------------------

\* "A panic or a FocusLost during composition bumps the generation, and the text
\* the user had typed is dropped on the floor rather than sent" (cmdline.lua:21-22,
\* prompt.lua:55-56), and so is one that another reply has replaced: whatever
\* inputs and windows are left over and whatever callbacks of theirs still run, a
\* reply is submitted or cancelled once, and never after it was dropped.
DroppedIsNeverSent ==
    \A k \in 1..opens : answers[k] <= (IF k \in dropped THEN 0 ELSE 1)

=============================================================================
