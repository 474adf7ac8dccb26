----------------------------- MODULE TaskPromise -----------------------------
(***************************************************************************)
(* What the queue promises of a task that was submitted: it stays open     *)
(* until a handler is done with it or it is dead-lettered; a permanent     *)
(* failure is a strike; only a task that has used up its retries is        *)
(* dead-lettered (README.md: "after max retries"; the worker's log says    *)
(* otherwise of permanent failures, see PermanentNotRetried); and only a   *)
(* replay reopens it, with its strikes kept.                               *)
(*                                                                         *)
(* TaskLifecycle.tla, the model of the worker, implements this.            *)
(***************************************************************************)
EXTENDS Naturals

CONSTANTS Tasks, MaxRetry

VARIABLES
  status,  \* Tasks -> "absent", "open", "done", "dead"
  strikes  \* Tasks -> how often it failed for good

vars == <<status, strikes>>

Init ==
  /\ status = [t \in Tasks |-> "absent"]
  /\ strikes = [t \in Tasks |-> 0]

Move(t, from, to) ==
  /\ status[t] = from
  /\ status' = [status EXCEPT ![t] = to]
  /\ UNCHANGED strikes

Open(t) == Move(t, "absent", "open")

Finish(t) == Move(t, "open", "done")

Strike(t) ==
  /\ status[t] = "open"
  /\ strikes[t] < MaxRetry
  /\ strikes' = [strikes EXCEPT ![t] = @ + 1]
  /\ UNCHANGED status

Bury(t) == strikes[t] = MaxRetry /\ Move(t, "open", "dead")

Reopen(S) ==
  /\ \A t \in S : status[t] = "dead"
  /\ status' = [t \in Tasks |-> IF t \in S THEN "open" ELSE status[t]]
  /\ UNCHANGED strikes

Next ==
  \/ \E t \in Tasks : Open(t) \/ Finish(t) \/ Strike(t) \/ Bury(t)
  \/ \E S \in SUBSET Tasks : Reopen(S)

Spec == Init /\ [][Next]_vars
=============================================================================
