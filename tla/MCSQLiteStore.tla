---------------------------- MODULE MCSQLiteStore ----------------------------
(* One room at capacity two and two callers: enough for a mark_read whose two *)
(* statements straddle an insert and for two interrupted trims in a row.      *)
EXTENDS SQLiteStore, TLC

Symmetry == Permutations(Callers)
=============================================================================
