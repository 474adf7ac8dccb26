--------------------------- MODULE MCTaskLifecycle ---------------------------
(* Bounds for model-checking TaskLifecycle: see the README for each run. *)
EXTENDS TaskLifecycle

CONSTANTS t1, t2

OneFails == [t \in Tasks |-> IF t = t1 THEN "ordinary" ELSE "test-permanent"]
TwoQueues == [t \in Tasks |-> IF t = t1 THEN "default" ELSE "low"]
=============================================================================
