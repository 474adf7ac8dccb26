----------------------------- MODULE MCWorkerPool -----------------------------
(* Bounds for model-checking WorkerPool: see the README. *)
EXTENDS WorkerPool

Weights == [q \in Names |-> IF q = "critical" THEN 2 ELSE 1]

(* Combinations of unset, zero and positive, misspelt and negative: sums    *)
(* below one, queues that are off, all off, and fewer slots than queues.    *)
Environments == [Names -> {Unset, 0, 1}] \cup [Names -> {Malformed, -3}]
=============================================================================
