---------------------------- MODULE MCMemoryStore ----------------------------
(* Two rooms, three events of which one is the user's own, capacity two: the *)
(* marker can be trimmed away and a trimmed event can come back.             *)
EXTENDS MemoryStore, TLC

Symmetry == Permutations(Rooms)
=============================================================================
