---------------------------- MODULE TaskLifecycle ----------------------------
(***************************************************************************)
(* The life of a task from its submission to its end: the worker process   *)
(* (cmd/worker/main.go), its handlers (internal/handlers) and the dead-    *)
(* letter replay (scripts/dlq_replay), over asynq and Redis.               *)
(*                                                                         *)
(* A worker is one processing slot of a replica.  It takes a task with a   *)
(* lease, runs the handler, and writes the verdict if its lease is still   *)
(* good; asynq retries or archives a failed task, and recovers a task      *)
(* whose lease ran out.  What counts as a failure is the worker's own      *)
(* choice (IsFailure), and so is the verdict (the handlers).  asynq's part *)
(* is external code, modelled from how the worker configures it: each of   *)
(* its Redis scripts is one step, and it waits long enough after the end   *)
(* of a lease for its holder to know of it (30 s) before it recovers.      *)
(***************************************************************************)
EXTENDS Integers

CONSTANTS
  Workers,     \* processing slots, of one replica or of several
  Tasks,
  Kind,        \* Tasks -> Kinds: what the handler makes of the payload
  QueueOf,     \* Tasks -> the queue the task was submitted to
  MaxRetry,    \* the tasks' retry limit
  MaxFaults,   \* bound: crashes, aborts and lost leases
  MaxReplays,  \* bound: runs of the dead-letter replay
  NoTask

Kinds == {"ordinary", "test-permanent", "test-retryable", "malformed"}

ASSUME TaskAssumption ==
  /\ Kind \in [Tasks -> Kinds]
  /\ MaxRetry \in Nat
  /\ MaxFaults \in Nat
  /\ MaxReplays \in Nat
  /\ NoTask \notin Tasks

VARIABLES
  place,     \* Tasks -> the asynq queue state of the task
  retried,   \* Tasks -> Retried in the message stored in Redis
  lastErr,   \* Tasks -> the class of LastErr in that message
  run,       \* Workers -> what the slot is doing, or Idle
  failures,  \* history: Tasks -> failed attempts, counted to MaxRetry + 1
  faults,    \* how many faults have happened
  replays    \* how many replays have been run

vars == <<place, retried, lastErr, run, failures, faults, replays>>

Idle == [task |-> NoTask, retried |-> 0, lease |-> FALSE, verdict |-> "none"]

Init ==
  /\ place = [t \in Tasks |-> "absent"]
  /\ retried = [t \in Tasks |-> 0]
  /\ lastErr = [t \in Tasks |-> "none"]
  /\ run = [w \in Workers |-> Idle]
  /\ failures = [t \in Tasks |-> 0]
  /\ faults = 0
  /\ replays = 0

-----------------------------------------------------------------------------
(* What ProcessTask may return.  The handlers draw a permanent and then a   *)
(* retryable failure at random before they look at the payload's test       *)
(* values; a payload that does not decode or validate fails for good.       *)
Outcomes(kind) ==
  CASE kind = "ordinary" -> {"ok", "permanent", "retryable"}
    [] kind \in {"test-permanent", "test-retryable"} -> {"permanent", "retryable"}
    [] kind = "malformed" -> {"permanent"}

(* A timeout, a cancelled context or a panic is none of the two error       *)
(* classes of the handlers.                                                 *)
Unexpected == "unexpected"

(* Mutant: no error counts as a failure. *)
IsFailureNever(verdict) == FALSE

(* Mutant: without an IsFailure of its own, asynq counts every error. *)
IsFailureAlways(verdict) == TRUE

IsFailure(verdict) == verdict = "permanent"

Move(t, to) == place' = [place EXCEPT ![t] = to]

(* A client submits the task, with or without a delay. *)
Submit(t) ==
  /\ place[t] = "absent"
  /\ \E to \in {"pending", "scheduled"} : Move(t, to)
  /\ UNCHANGED <<retried, lastErr, run, failures, faults, replays>>

(* The delay of a scheduled task, or the backoff of a retry, is over. *)
Forward(t) ==
  /\ place[t] \in {"scheduled", "retry"}
  /\ Move(t, "pending")
  /\ UNCHANGED <<retried, lastErr, run, failures, faults, replays>>

(* Mutant: the message is read without its retry count. *)
DequeueForgetsCount(w, t) ==
  /\ run[w] = Idle
  /\ place[t] = "pending"
  /\ Move(t, "active")
  /\ run' = [run EXCEPT ![w] =
               [task |-> t, retried |-> 0, lease |-> TRUE, verdict |-> "none"]]
  /\ UNCHANGED <<retried, lastErr, failures, faults, replays>>

Dequeue(w, t) ==
  /\ run[w] = Idle
  /\ place[t] = "pending"
  /\ Move(t, "active")
  /\ run' = [run EXCEPT ![w] =
               [task |-> t, retried |-> retried[t], lease |-> TRUE, verdict |-> "none"]]
  /\ UNCHANGED <<retried, lastErr, failures, faults, replays>>

Handling(w, t) == run[w].task = t /\ run[w].verdict = "none"

HandlerReturns(w, t, verdict) ==
  /\ Handling(w, t)
  /\ verdict \in Outcomes(Kind[t]) \cup {Unexpected}
  /\ run' = [run EXCEPT ![w].verdict = verdict]
  /\ UNCHANGED <<place, retried, lastErr, failures, faults, replays>>

Count(t) ==
  failures' = [failures EXCEPT ![t] = IF @ > MaxRetry THEN @ ELSE @ + 1]

(* How asynq treats an error: what IsFailure disowns is retried without     *)
(* being counted, the rest is retried until the message's limit is used up. *)
Retry(t, count, err) ==
  /\ Move(t, "retry")
  /\ retried' = [retried EXCEPT ![t] = count]
  /\ lastErr' = [lastErr EXCEPT ![t] = err]

CountAfter(count, err) == IF IsFailure(err) THEN count + 1 ELSE count

Archive(t, err) ==
  /\ Move(t, "archived")
  /\ lastErr' = [lastErr EXCEPT ![t] = err]
  /\ UNCHANGED retried

Succeeded(w, t) ==
  /\ run[w].verdict = "ok"
  /\ Move(t, "done")
  /\ UNCHANGED <<retried, lastErr, failures>>

(* Mutant: one retry more than the limit. *)
FailedCountsPastLimit(w, t) ==
  LET err == run[w].verdict
      count == run[w].retried
  IN  /\ err \in {"permanent", "retryable", Unexpected}
      /\ Count(t)
      /\ \/ ~IsFailure(err) /\ Retry(t, count, err)
         \/ IsFailure(err) /\ count <= MaxRetry /\ Retry(t, count + 1, err)
         \/ IsFailure(err) /\ count > MaxRetry /\ Archive(t, err)

Failed(w, t) ==
  LET err == run[w].verdict
      count == run[w].retried
  IN  /\ err \in {"permanent", "retryable", Unexpected}
      /\ Count(t)
      /\ \/ ~IsFailure(err) /\ Retry(t, count, err)
         \/ IsFailure(err) /\ count < MaxRetry /\ Retry(t, count + 1, err)
         \/ IsFailure(err) /\ count >= MaxRetry /\ Archive(t, err)

Release(w) == run' = [run EXCEPT ![w] = Idle]

(* The worker writes the verdict: only with a good lease, and Redis refuses *)
(* it if the task is not active any more.                                   *)
Holds(w, t) == run[w].lease /\ place[t] = "active"

Report(w, t) ==
  /\ run[w].task = t
  /\ run[w].verdict # "none"
  /\ \/ Holds(w, t) /\ (Succeeded(w, t) \/ Failed(w, t))
     \/ ~Holds(w, t) /\ UNCHANGED <<place, retried, lastErr, failures>>
  /\ Release(w)
  /\ UNCHANGED <<faults, replays>>

Fault == faults < MaxFaults /\ faults' = faults + 1

(* The replica dies: its slot forgets the task, which stays active. *)
Crash(w) ==
  /\ run[w] # Idle
  /\ Fault
  /\ Release(w)
  /\ UNCHANGED <<place, retried, lastErr, failures, replays>>

(* Shutdown gives up waiting for the handler and puts the task back. *)
Abort(w, t) ==
  /\ Handling(w, t)
  /\ Fault
  /\ IF Holds(w, t) THEN Move(t, "pending") ELSE UNCHANGED place
  /\ Release(w)
  /\ UNCHANGED <<retried, lastErr, failures, replays>>

(* Heartbeats stop reaching Redis in time; the handler runs on. *)
LeaseLapses(w) ==
  /\ run[w].lease
  /\ Fault
  /\ run' = [run EXCEPT ![w].lease = FALSE]
  /\ UNCHANGED <<place, retried, lastErr, failures, replays>>

(* Mutant: an active task is recovered while its lease is good. *)
RecoverIgnoresLease(t) ==
  /\ place[t] = "active"
  /\ \/ retried[t] >= MaxRetry /\ Archive(t, Unexpected)
     \/ retried[t] < MaxRetry /\ Retry(t, CountAfter(retried[t], Unexpected), Unexpected)
  /\ UNCHANGED <<run, failures, faults, replays>>

(* A lease that ran out is an error IsFailure disowns as well. *)
Recover(t) ==
  /\ place[t] = "active"
  /\ \A w \in Workers : run[w].task = t => ~run[w].lease
  /\ \/ retried[t] >= MaxRetry /\ Archive(t, Unexpected)
     \/ retried[t] < MaxRetry /\ Retry(t, CountAfter(retried[t], Unexpected), Unexpected)
  /\ UNCHANGED <<run, failures, faults, replays>>

Archived(q) == {t \in Tasks : place[t] = "archived" /\ QueueOf[t] = q}

(* Mutant: a replayed task starts with a clean record. *)
ReplayResetsCount(q) ==
  /\ replays < MaxReplays
  /\ Archived(q) # {}
  /\ place' = [t \in Tasks |-> IF t \in Archived(q) THEN "pending" ELSE place[t]]
  /\ retried' = [t \in Tasks |-> IF t \in Archived(q) THEN 0 ELSE retried[t]]
  /\ replays' = replays + 1
  /\ UNCHANGED <<lastErr, run, failures, faults>>

(* dlq_replay -queue=q: every archived task of one queue is pending again. *)
Replay(q) ==
  /\ replays < MaxReplays
  /\ Archived(q) # {}
  /\ place' = [t \in Tasks |-> IF t \in Archived(q) THEN "pending" ELSE place[t]]
  /\ replays' = replays + 1
  /\ UNCHANGED <<retried, lastErr, run, failures, faults>>

Queues == {QueueOf[t] : t \in Tasks}

Verdicts == {"ok", "permanent", "retryable", Unexpected}

Next ==
  \/ \E t \in Tasks : Submit(t) \/ Forward(t) \/ Recover(t)
  \/ \E w \in Workers, t \in Tasks : Dequeue(w, t) \/ Report(w, t) \/ Abort(w, t)
  \/ \E w \in Workers, t \in Tasks, v \in Verdicts : HandlerReturns(w, t, v)
  \/ \E w \in Workers : Crash(w) \/ LeaseLapses(w)
  \/ \E q \in Queues : Replay(q)

Spec == Init /\ [][Next]_vars

(* asynq's forwarder, recoverer and processors keep running, a queue is     *)
(* first in first out, and the handlers return: every outcome they draw at  *)
(* random comes up again and again if the task is tried again and again.    *)
Fairness ==
  /\ \A t \in Tasks :
       /\ WF_vars(Forward(t)) /\ WF_vars(Recover(t))
       /\ SF_vars(\E w \in Workers : Dequeue(w, t))
       /\ SF_vars(\E w \in Workers : HandlerReturns(w, t, "permanent"))
  /\ \A w \in Workers :
       WF_vars(\E t \in Tasks : Report(w, t) \/ \E v \in Verdicts : HandlerReturns(w, t, v))

FairSpec == Spec /\ Fairness

-----------------------------------------------------------------------------
Places == {"absent", "pending", "scheduled", "active", "retry", "archived", "done"}
Errors == {"none", "permanent", "retryable", Unexpected}
Runs == [task : Tasks, retried : 0..MaxRetry, lease : BOOLEAN, verdict : Verdicts \cup {"none"}]

(* Types; a message never counts more retries than it is allowed. *)
TypeOK ==
  /\ place \in [Tasks -> Places]
  /\ retried \in [Tasks -> 0..MaxRetry]
  /\ lastErr \in [Tasks -> Errors]
  /\ run \in [Workers -> Runs \cup {Idle}]
  /\ failures \in [Tasks -> 0..(MaxRetry + 1)]
  /\ faults \in 0..MaxFaults
  /\ replays \in 0..MaxReplays

Holding(w, t) == run[w].task = t /\ run[w].lease

(* A task is held by at most one worker whose lease is good, and it is then *)
(* active: recovery, replay and requeue never hand it to a second one while *)
(* the first may still write a verdict.                                     *)
SingleHolder ==
  \A t \in Tasks, w \in Workers : Holding(w, t) =>
    /\ place[t] = "active"
    /\ \A v \in Workers : Holding(v, t) => v = w

(* The retry count a worker took along with the task, and from which it     *)
(* computes the next one, is the one in Redis for as long as it may write.  *)
CountIsFresh ==
  \A t \in Tasks, w \in Workers : Holding(w, t) => run[w].retried = retried[t]

(* Each retry that is counted stands for an attempt that failed, and a dead *)
(* letter for one more, that was not given another try; unless its worker   *)
(* was lost, and then only with its retries used up.  None is invented when *)
(* workers, recovery and replay handle the same message in turn.            *)
DeadLettersEarned ==
  \A t \in Tasks :
    /\ retried[t] <= failures[t]
    /\ place[t] = "archived" =>
         IF lastErr[t] = Unexpected THEN retried[t] = MaxRetry ELSE retried[t] < failures[t]

(* No task gets stuck: whatever crashes, lapses and aborts happen, every    *)
(* submitted task is done or in the dead-letter queue in the end.           *)
Settled ==
  \A t \in Tasks : place[t] # "absent" ~> place[t] \in {"done", "archived"}

(* The queue's promise to whoever submitted a task; see TaskPromise. *)
Status(t) ==
  CASE place[t] = "absent" -> "absent"
    [] place[t] = "done" -> "done"
    [] place[t] = "archived" -> "dead"
    [] OTHER -> "open"

Promise == INSTANCE TaskPromise WITH
  status <- [t \in Tasks |-> Status(t)],
  strikes <- retried

KeepsPromise == Promise!Spec

-----------------------------------------------------------------------------
(* What the repository says and the code does not do.                       *)

(* README: failed tasks move to the DLQ after max retries.  A task that     *)
(* waits for another try has failed at most MaxRetry times.                 *)
RetriesBounded == \A t \in Tasks : place[t] = "retry" => failures[t] <= MaxRetry

(* The worker's log, at each permanent failure: "will not retry".  A task   *)
(* that waits for another try did not fail permanently the last time.       *)
PermanentNotRetried == \A t \in Tasks : place[t] = "retry" => lastErr[t] # "permanent"
=============================================================================
