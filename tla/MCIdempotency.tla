---------------------------- MODULE MCIdempotency ----------------------------
(* Bounds for model-checking Idempotency: see the README for each run. *)
EXTENDS Idempotency
=============================================================================
