---------------------------- MODULE WakelockMC ----------------------------
(* Two threads and an unsigned int of two bits, for TLC. *)
EXTENDS Wakelock

CONSTANTS t1, t2

TwoThreads == {t1, t2}
=============================================================================
