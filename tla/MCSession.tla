------------------------------ MODULE MCSession ------------------------------
(* Events e1 and e2 of the contact and e3 of the user in one room; e2 and e3 *)
(* carry older timestamps than e1.                                           *)
EXTENDS Session, TLC

CONSTANTS e1, e2, e3, r1

MCRoomOf == [e \in Events |-> r1]
MCTs == [e \in Events |-> IF e = e1 THEN 2 ELSE 1]

Symmetry == Permutations(Clients)
=============================================================================
