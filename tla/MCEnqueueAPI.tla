---------------------------- MODULE MCEnqueueAPI ----------------------------
(* Bounds for model-checking EnqueueAPI: see the README for each run. *)
EXTENDS EnqueueAPI

CONSTANT k1

QueueNames == {"critical", "default", "low"}

(* A well-formed submission under key k. *)
Submission(k, valid) ==
  [route |-> "enqueue", task |-> TRUE, body |-> TRUE, valid |-> valid, key |-> k,
   queue |-> Unset, delay |-> Unset, unique |-> Unset, retry |-> Unset]

(* Retries of one submission, one of them with a bad payload, and an order *)
(* whose client sends the header too.                                      *)
OneKeyInputs ==
  {Submission(k1, TRUE), Submission(k1, FALSE), [Submission(k1, TRUE) EXCEPT !.route = "orders"]}
=============================================================================
