----------------------------- MODULE MCTaskClient -----------------------------
(* Bounds for model-checking TaskClient: see the README for each run. *)
EXTENDS TaskClient, TLC

(* A time that has passed and one that lies ahead. *)
DurationsAsked == {-1, 1}

(* Options with a delay; those without come from calls that pass none. *)
OptionsGiven == {[NoOptions EXCEPT !.delay = 1]}

CallSymmetry == Permutations(Calls)
=============================================================================
