----------------------------- MODULE MCFrontView -----------------------------
(***************************************************************************)
(* Two rooms; e3 is alone in the second and the newest by its timestamp,   *)
(* although it need not arrive last; e2 is the user's own.                 *)
(***************************************************************************)
EXTENDS FrontView

CONSTANTS r1, r2, e1, e2, e3

MCRoomOf == [e \in Events |-> IF e = e3 THEN r2 ELSE r1]
MCTs == [e \in Events |-> CASE e = e1 -> 1 [] e = e2 -> 2 [] OTHER -> 3]

=============================================================================
