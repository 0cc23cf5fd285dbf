-------------------------- MODULE SessionLoadingMC --------------------------
(* A small instance of SessionLoading for TLC.                             *)
EXTENDS SessionLoading, TLC

ThreadSymmetry == Permutations(Threads)
=============================================================================
