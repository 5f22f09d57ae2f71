-------------------------- MODULE MCMorningRoutine --------------------------
(* Small instances of MorningRoutine for TLC. *)
EXTENDS MorningRoutine, TLC

Ids == Permutations(Run)
=============================================================================
