---------------------------- MODULE MCWorkerJoin -----------------------------
(* Instances of the worker's join for TLC. *)
EXTENDS WorkerJoin
=============================================================================
