----------------------------- MODULE TimeUtilMC -----------------------------
(* A small instance of TimeUtil for TLC.                                   *)
EXTENDS TimeUtil, TLC

\* Realtime behind the QTimer by one, or ahead of it by two.
SkewValues == {-1, 2}

ThreadSymmetry == Permutations(Threads)
=============================================================================
