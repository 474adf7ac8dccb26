------------------------------ MODULE MCProducer ------------------------------
(* Bounds for model-checking Producer: see the README for each run. *)
EXTENDS Producer

CONSTANT k1

QueueNames == {"critical", "default", "low"}

(* A well-formed submission under key k. *)
Submission(k) ==
  [route |-> "enqueue", task |-> TRUE, body |-> TRUE, valid |-> TRUE, key |-> k,
   queue |-> Unset, delay |-> Unset, unique |-> Unset, retry |-> Unset]

(* Retries of one submission, a bad payload without a key, an order whose   *)
(* client sends the header too, and a request that is turned down before    *)
(* Redis is asked.                                                          *)
MixedInputs ==
  {Submission(k1), [Submission(Unset) EXCEPT !.valid = FALSE],
   [Submission(k1) EXCEPT !.route = "orders"], [Submission(Unset) EXCEPT !.retry = 51]}

(* Bound: a key expires only while the process serves, or has crashed.      *)
ExpiryWhileServing ==
  (\E k \in Keys : life[k] > 0) =>
    (server = "listening" /\ main = "waiting" /\ ~signalled) \/ main = "crashed"
=============================================================================
