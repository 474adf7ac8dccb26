------------------------------ MODULE WorkerPool ------------------------------
(***************************************************************************)
(* What a worker makes of its environment, internal/config/config.go and   *)
(* cmd/worker/main.go: one pool of goroutines for all queues, and the      *)
(* queues it consumes.                                                     *)
(*                                                                         *)
(* The three ASYNQ_CONCURRENCY_* settings are added up to the size of the  *)
(* pool and serve as the weights of the queues as well.  asynq replaces a  *)
(* pool below one, skips queues whose weight is not positive, and consumes *)
(* only "default" when none is left.  Tasks fail, time out and come back.  *)
(***************************************************************************)
EXTENDS Integers, Sequences, FiniteSets

CONSTANTS
  Tasks,
  Unset, Malformed,   \* a variable that is empty, or no number
  DefaultWeight,      \* Names -> the defaults of config.Load: 20, 10, 5
  ClientQueueDefault, \* ASYNQ_CLIENT_QUEUE_DEFAULT, which may be any name
  CPUs,               \* runtime.NumCPU
  Envs                \* bound: the environments looked at

Names == {"critical", "default", "low"}
Homes == Names \cup {ClientQueueDefault}

ASSUME PoolAssumption ==
  /\ Envs \subseteq [Names -> Int \cup {Unset, Malformed}]
  /\ DefaultWeight \in [Names -> Nat \ {0}]
  /\ CPUs \in Nat \ {0}
  /\ {Unset, Malformed} \cap Int = {}

VARIABLES
  env,      \* Names -> the setting of the queue's variable
  place,    \* Tasks -> where the task is
  home,     \* Tasks -> its queue
  pending   \* Homes -> the list asynq:{queue}:pending

vars == <<env, place, home, pending>>

Init ==
  /\ env \in Envs
  /\ place = [t \in Tasks |-> "absent"]
  /\ home \in [Tasks -> {"default"}]
  /\ pending = [q \in Homes |-> <<>>]

-----------------------------------------------------------------------------
(* Mutant: the error of Atoi is ignored. *)
getEnvIntIgnoresError(value, default) ==
  IF value = Unset THEN default ELSE IF value = Malformed THEN 0 ELSE value

getEnvInt(value, default) == IF value \in {Unset, Malformed} THEN default ELSE value

Concurrency(q) == getEnvInt(env[q], DefaultWeight[q])

(* Mutant: a pool that is asked to be empty is. *)
PoolSizeAsAsked == Concurrency("critical") + Concurrency("default") + Concurrency("low")

PoolSize ==
  LET sum == Concurrency("critical") + Concurrency("default") + Concurrency("low")
  IN  IF sum < 1 THEN CPUs ELSE sum

Consumed ==
  LET weighted == {q \in Names : Concurrency(q) > 0}
  IN  IF weighted = {} THEN {"default"} ELSE weighted

Active == {t \in Tasks : place[t] = "active"}

Move(t, to) == place' = [place EXCEPT ![t] = to]
Push(t, q) == pending' = [pending EXCEPT ![q] = Append(@, t)]

(* Into one of the queues, or without WithQueue into the client's own. *)
Submit(t, q) ==
  /\ place[t] = "absent"
  /\ Move(t, "pending") /\ Push(t, q)
  /\ home' = [home EXCEPT ![t] = q]
  /\ UNCHANGED env

(* Mutant: the queues are asked in a fixed order. *)
DequeueStrictly(q) ==
  /\ q \in Consumed
  /\ Cardinality(Active) < PoolSize
  /\ pending[q] # <<>>
  /\ "critical" \in Consumed \ {q} => pending["critical"] = <<>>
  /\ Move(Head(pending[q]), "active")
  /\ pending' = [pending EXCEPT ![q] = Tail(@)]
  /\ UNCHANGED <<env, home>>

(* Mutant: a task is read but not taken off the list. *)
DequeuePeeks(q) ==
  /\ q \in Consumed
  /\ Cardinality(Active) < PoolSize
  /\ pending[q] # <<>>
  /\ Move(Head(pending[q]), "active")
  /\ UNCHANGED <<env, home, pending>>

(* A free goroutine asks the queues in a random order drawn from the        *)
(* weights and takes the oldest task of the first that has one.             *)
Dequeue(q) ==
  /\ q \in Consumed
  /\ Cardinality(Active) < PoolSize
  /\ pending[q] # <<>>
  /\ Move(Head(pending[q]), "active")
  /\ pending' = [pending EXCEPT ![q] = Tail(@)]
  /\ UNCHANGED <<env, home>>

(* The handler is done for good; the name is free for another task. *)
Return(t) ==
  /\ place[t] = "active"
  /\ Move(t, "absent")
  /\ UNCHANGED <<env, home, pending>>

(* The handler failed, or did not return within the task's timeout: its     *)
(* goroutine is free all the same.                                          *)
GiveUp(t) ==
  /\ place[t] = "active"
  /\ Move(t, "retry")
  /\ UNCHANGED <<env, home, pending>>

(* The backoff is over.  A worker forwards for the queues it consumes. *)
Forward(t) ==
  /\ place[t] = "retry" /\ home[t] \in Consumed
  /\ Move(t, "pending") /\ Push(t, home[t])
  /\ UNCHANGED <<env, home>>

Next ==
  \/ \E t \in Tasks, q \in Homes : Submit(t, q)
  \/ \E q \in Homes : Dequeue(q)
  \/ \E t \in Tasks : Return(t) \/ GiveUp(t) \/ Forward(t)

Spec == Init /\ [][Next]_vars

(* Every draw puts each weighted queue first with a positive probability,   *)
(* and every task has a timeout; that handlers return is not assumed.       *)
FairSpec ==
  /\ Spec
  /\ \A q \in Homes : SF_vars(Dequeue(q))
  /\ \A t \in Tasks : WF_vars(GiveUp(t)) /\ WF_vars(Forward(t))

-----------------------------------------------------------------------------
(* A task is on one list, its own, exactly once while it is pending, and on *)
(* none otherwise.                                                          *)
OnList(t, q) == \E i \in DOMAIN pending[q] : pending[q][i] = t

TypeOK ==
  /\ env \in Envs
  /\ place \in [Tasks -> {"absent", "pending", "active", "retry"}]
  /\ home \in [Tasks -> Homes]
  /\ pending \in [Homes -> Seq(Tasks)]
  /\ \A q \in Homes, t \in Tasks : OnList(t, q) <=> place[t] = "pending" /\ home[t] = q
  /\ \A q \in Homes : \A i, j \in DOMAIN pending[q] : pending[q][i] = pending[q][j] => i = j

(* What the settings ask for: a queue is on unless its setting is a number  *)
(* that is not positive, and "default" is on when all of them are off.      *)
Off(q) == env[q] \in Int /\ env[q] <= 0
SwitchedOn(q) ==
  \/ q \in Names /\ ~Off(q)
  \/ q = "default" /\ \A n \in Names : Off(n)

(* The pool never runs more handlers than it has slots, and a pending task  *)
(* of a queue that is on is never waiting for nothing: the worker consumes  *)
(* its queue, and a slot is free or an active task will free one, whatever  *)
(* numbers and misspellings the settings hold.                              *)
SlotsServe ==
  /\ Cardinality(Active) <= PoolSize
  /\ \A t \in Tasks : place[t] = "pending" /\ SwitchedOn(home[t]) =>
       /\ home[t] \in Consumed
       /\ Cardinality(Active) < PoolSize \/ Active # {}

(* No queue starves: a pending task of a queue that is on is taken, however *)
(* much work the other queues have, whatever numbers and misspellings the   *)
(* settings hold, and even if no handler ever returns.                      *)
NoStarvation ==
  \A t \in Tasks : place[t] = "pending" /\ SwitchedOn(home[t]) ~> place[t] # "pending"
=============================================================================
