---------------------------- MODULE MCTaskLedger ----------------------------
(* Instances of TaskLedger for TLC. *)
EXTENDS TaskLedger, TLC

Symmetry == Permutations(Callers) \cup Permutations(Runs)
=============================================================================
