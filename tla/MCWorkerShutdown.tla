-------------------------- MODULE MCWorkerShutdown --------------------------
(* Bounds for model-checking WorkerShutdown: see the README for each run. *)
EXTENDS WorkerShutdown, TLC

ShutdownSymmetry == Permutations(Slots) \cup Permutations(Tasks)
=============================================================================
