--------------------------- MODULE QshWorkerMC ---------------------------
(* Two clients and the worker's thread, for TLC. *)
EXTENDS QshWorker

CONSTANTS c1, c2

TwoClients == {c1, c2}
EveryThread == TwoClients \cup {WorkerThread}
=============================================================================
