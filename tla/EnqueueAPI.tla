------------------------------ MODULE EnqueueAPI ------------------------------
(***************************************************************************)
(* The producer's submission handlers, internal/web/routes.go, over the    *)
(* idempotency manager and the task client, internal/tasks/client.go.      *)
(*                                                                         *)
(* A request is served by one goroutine of one producer replica; all of    *)
(* them share Redis.  POST /enqueue/{task} validates, claims the           *)
(* idempotency key if the client sent one, enqueues, and calls CheckOrSet  *)
(* again to put the task's identifier under the key.  POST /v1/orders      *)
(* enqueues straight away.  The commands of CheckOrSet are those of module *)
(* Idempotency, whose callers are the requests.                            *)
(***************************************************************************)
EXTENDS Integers

CONSTANTS
  Requests,        \* HTTP requests; a client that tries again sends another one
  Keys,            \* values of the X-Idempotency-Key header
  Inputs,          \* what clients send; a subset of Input
  Queues,          \* critical, default, low
  DefaultQueue,    \* ASYNQ_CLIENT_QUEUE_DEFAULT
  DefaultMaxRetry, \* DEFAULT_MAX_RETRY
  IdempotencyTTL,  \* IDEMPOTENCY_TTL; 0 gives keys without expiry
  MaxLapses,       \* bound: how often one key may expire
  Unset,           \* a header or query parameter that is not there
  NoID,            \* the empty task identifier
  Absent, Unknown  \* see Idempotency

Durations == {"malformed", "negative", "positive"}

Input == [route    : {"enqueue", "orders"},
          task     : BOOLEAN,                     \* a known task type
          body     : BOOLEAN,                     \* the body decodes
          valid    : BOOLEAN,                     \* the payload passes validation
          key      : Keys \cup {Unset},
          queue    : Queues \cup {Unset, "other"},
          delay    : Durations \cup {Unset},
          unique   : Durations \cup {Unset},
          retry    : Int \cup {Unset}]

ASSUME EnqueueAssumption ==
  /\ Inputs \subseteq Input
  /\ IdempotencyTTL \in Nat
  /\ MaxLapses \in Nat
  /\ Absent \notin Requests \cup {NoID}
  /\ Unknown \notin Requests \cup {NoID, Absent}
  /\ NoID \notin Requests
  /\ Unset \notin Keys

VARIABLES
  store, volatile, stray, at, arg, res, granted,  \* the idempotency manager
  pc,       \* Requests -> where the handler is
  input,    \* Requests -> what the client sent
  reply,    \* Requests -> the HTTP reply
  created,  \* the tasks asynq accepted; a task bears its request's name
  life,     \* history: Keys -> how often the key has expired
  won       \* history: Requests -> the life of its key it claimed, or NoLife

idemVars == <<store, volatile, stray, at, arg, res, granted>>
vars == <<store, volatile, stray, at, arg, res, granted, pc, input, reply, created, life, won>>

Idem == INSTANCE Idempotency WITH
  Callers <- Requests,
  TaskIDs <- Requests \cup {NoID},
  TTLs <- {IdempotencyTTL},
  DefaultTTL <- IdempotencyTTL

NoLife == -1
NoInput == [route |-> "none", key |-> Unset]
Reply(status, id) == [status |-> status, id |-> id]
NoReply == Reply("none", NoID)

Init ==
  /\ Idem!Init
  /\ pc = [r \in Requests |-> "idle"]
  /\ input = [r \in Requests |-> NoInput]
  /\ reply = [r \in Requests |-> NoReply]
  /\ created = {}
  /\ life = [k \in Keys |-> 0]
  /\ won = [r \in Requests |-> NoLife]

(* The places in which a handler works on a request. *)
Running == {"check", "enqueue", "update", "reply"}

-----------------------------------------------------------------------------
(* parseEnqueueOptions accepts the query parameters. *)
OptionsParse(in) ==
  /\ in.delay # "malformed"
  /\ in.queue # "other"
  /\ in.unique # "malformed"
  /\ in.retry \in 0..50 \cup {Unset}

Acceptable(in) ==
  CASE in.route = "enqueue" -> in.task /\ in.body /\ OptionsParse(in)
    [] in.route = "orders"  -> in.body

(* The task that enqueue hands to asynq; handleOrders fills in options of   *)
(* its own.  A retry limit of zero reads as "not given", and so do delays   *)
(* and unique_ttl values that are not positive.                             *)
OrderOptions(in) ==
  [in EXCEPT !.queue = "default", !.delay = Unset, !.unique = Unset, !.retry = Unset]

Options(in) == IF in.route = "orders" THEN OrderOptions(in) ELSE in

Task(r) ==
  LET opts == Options(input[r])
  IN  [id      |-> r,
       queue   |-> IF opts.queue = Unset THEN DefaultQueue ELSE opts.queue,
       retry   |-> IF opts.retry \in {Unset, 0} THEN DefaultMaxRetry ELSE opts.retry,
       delayed |-> opts.delay = "positive",
       unique  |-> opts.unique = "positive"]

HasKey(r) == input[r].key # Unset /\ input[r].route = "enqueue"

Goto(r, label) == pc' = [pc EXCEPT ![r] = label]

Answer(r, status, id) ==
  /\ Goto(r, "done")
  /\ reply' = [reply EXCEPT ![r] = Reply(status, id)]

CheckOrSet(r, k, id) == Idem!CheckOrSet(r, k, id, IdempotencyTTL)

-----------------------------------------------------------------------------
Reject(r, in) ==
  /\ ~Acceptable(in)
  /\ Answer(r, "bad request", NoID)
  /\ UNCHANGED idemVars

(* Mutant: orders are checked for an idempotency key as well. *)
AcceptChecksOrders(r, in) ==
  /\ Acceptable(in)
  /\ UNCHANGED reply
  /\ \/ /\ in.key # Unset
        /\ CheckOrSet(r, in.key, NoID)
        /\ Goto(r, "check")
     \/ /\ in.key = Unset
        /\ Goto(r, "enqueue")
        /\ UNCHANGED idemVars

Accept(r, in) ==
  /\ Acceptable(in)
  /\ UNCHANGED reply
  /\ \/ /\ in.route = "enqueue"
        /\ in.key # Unset
        /\ CheckOrSet(r, in.key, NoID)
        /\ Goto(r, "check")
     \/ /\ in.route = "orders" \/ in.key = Unset
        /\ Goto(r, "enqueue")
        /\ UNCHANGED idemVars

Receive(r, in) ==
  /\ pc[r] = "idle"
  /\ input' = [input EXCEPT ![r] = in]
  /\ Reject(r, in) \/ Accept(r, in)
  /\ UNCHANGED <<created, life, won>>

(* One command of the CheckOrSet the handler is in.  History: a request     *)
(* told IsNew by its first call claims the life of the key that now runs.   *)
ToldNew(r) == at'[r] = "done" /\ res'[r].kind = "new"

Command(r) ==
  /\ pc[r] \in {"check", "update"}
  /\ Idem!Step(r)
  /\ won' = IF pc[r] = "check" /\ ToldNew(r)
            THEN [won EXCEPT ![r] = life[input[r].key]]
            ELSE won
  /\ UNCHANGED <<pc, input, reply, created, life>>

(* Mutant: the handler goes on when the key exists. *)
CheckedIgnoresExisting(r) ==
  /\ pc[r] = "check"
  /\ Idem!Return(r)
  /\ \/ /\ res[r].kind = "error"
        /\ Answer(r, "internal error", NoID)
     \/ /\ res[r].kind \in {"existing", "new"}
        /\ Goto(r, "enqueue")
        /\ UNCHANGED reply
  /\ UNCHANGED <<input, created, life, won>>

(* Mutant: an error of CheckOrSet is not answered. *)
CheckedDropsError(r) ==
  /\ pc[r] = "check"
  /\ Idem!Return(r)
  /\ \/ /\ res[r].kind = "existing"
        /\ Answer(r, "existing", res[r].id)
     \/ /\ res[r].kind = "new"
        /\ Goto(r, "enqueue")
        /\ UNCHANGED reply
  /\ UNCHANGED <<input, created, life, won>>

Checked(r) ==
  /\ pc[r] = "check"
  /\ Idem!Return(r)
  /\ \/ /\ res[r].kind = "error"
        /\ Answer(r, "internal error", NoID)
     \/ /\ res[r].kind = "existing"
        /\ Answer(r, "existing", res[r].id)
     \/ /\ res[r].kind = "new"
        /\ Goto(r, "enqueue")
        /\ UNCHANGED reply
  /\ UNCHANGED <<input, created, life, won>>

Failure(r) == IF input[r].route = "orders" THEN "internal error" ELSE "bad request"

Create(r) == created' = created \cup {Task(r)}

(* asynq accepted the task and said so. *)
Enqueued(r) ==
  /\ input[r].valid
  /\ Create(r)
  /\ UNCHANGED reply
  /\ \/ /\ HasKey(r)
        /\ CheckOrSet(r, input[r].key, r)
        /\ Goto(r, "update")
     \/ /\ ~HasKey(r)
        /\ Goto(r, "reply")
        /\ UNCHANGED idemVars

(* Mutant: a failed submission gives its key back, so that the client may   *)
(* try again, although the task may be in Redis.                            *)
NotEnqueuedFreesKey(r) ==
  /\ \/ UNCHANGED created
     \/ input[r].valid /\ Create(r)
  /\ Answer(r, Failure(r), NoID)
  /\ IF HasKey(r) /\ store[input[r].key] # Absent
     THEN Idem!Delete(input[r].key)
     ELSE UNCHANGED idemVars

(* Mutant: the error of EnqueueNow is overlooked. *)
NotEnqueuedSaysEnqueued(r) ==
  /\ \/ UNCHANGED created
     \/ input[r].valid /\ Create(r)
  /\ Answer(r, "enqueued", r)
  /\ UNCHANGED idemVars

(* The payload is invalid, or asynq reports an error: a duplicate of a      *)
(* unique task, a lost connection, or a conflict with its own first attempt *)
(* when the reply to that was lost and the task is in Redis already.        *)
NotEnqueued(r) ==
  /\ \/ UNCHANGED created
     \/ input[r].valid /\ Create(r)
  /\ Answer(r, Failure(r), NoID)
  /\ UNCHANGED idemVars

EnqueueNow(r) ==
  /\ pc[r] = "enqueue"
  /\ Enqueued(r) \/ NotEnqueued(r)
  /\ UNCHANGED <<input, life, won>>

(* The result of the second CheckOrSet is only logged. *)
Updated(r) ==
  /\ pc[r] = "update"
  /\ Idem!Return(r)
  /\ Answer(r, "enqueued", r)
  /\ UNCHANGED <<input, created, life, won>>

Replied(r) ==
  /\ pc[r] = "reply"
  /\ Answer(r, "enqueued", r)
  /\ UNCHANGED <<idemVars, input, created, life, won>>

(* The replica crashes, or the handler panics, and nobody answers; a SETNX  *)
(* that is under way may still reach Redis.                                 *)
Die(r) ==
  /\ pc[r] \in Running
  /\ Goto(r, "dead")
  /\ \/ UNCHANGED idemVars
     \/ Idem!GivenUp(r) /\ UNCHANGED <<at, arg, res>>
  /\ UNCHANGED <<input, reply, created, life, won>>

Expire(k) ==
  /\ life[k] < MaxLapses
  /\ Idem!Expire(k)
  /\ life' = [life EXCEPT ![k] = @ + 1]
  /\ UNCHANGED <<pc, input, reply, created, won>>

LateSetNX(cmd) ==
  /\ Idem!LateSetNX(cmd)
  /\ UNCHANGED <<pc, input, reply, created, life, won>>

Handle(r) == Command(r) \/ Checked(r) \/ EnqueueNow(r) \/ Updated(r) \/ Replied(r)

Next ==
  \/ \E r \in Requests, in \in Inputs : Receive(r, in)
  \/ \E r \in Requests : Handle(r) \/ Die(r)
  \/ \E k \in Keys : Expire(k)
  \/ \E cmd \in stray : LateSetNX(cmd)

Spec == Init /\ [][Next]_vars

-----------------------------------------------------------------------------
KeyOf(t) == input[t.id].key
Keyed(t) == HasKey(t.id)

Labels == {"idle", "done", "dead"} \cup Running
Statuses == {"none", "bad request", "internal error", "existing", "enqueued"}

(* Types, and the calls of the manager that a handler's place allows. *)
TypeOK ==
  /\ Idem!TypeOK
  /\ pc \in [Requests -> Labels]
  /\ input \in [Requests -> Inputs \cup {NoInput}]
  /\ \A r \in Requests : pc[r] # "idle" => input[r] \in Inputs
  /\ reply \in [Requests -> [status : Statuses, id : Requests \cup {NoID, Absent, Unknown}]]
  /\ \A t \in created :
       t.id \in Requests /\ t = Task(t.id) /\ pc[t.id] \in {"update", "reply", "done", "dead"}
  /\ life \in [Keys -> Nat]
  /\ won \in [Requests -> Nat \cup {NoLife}]
  /\ \A r \in Requests :
       /\ pc[r] \in {"idle", "enqueue", "reply", "done"} => at[r] = "idle"
       /\ pc[r] \in {"check", "update"} => at[r] # "idle" /\ HasKey(r) /\ arg[r].key = input[r].key

(* X-Idempotency-Key prevents duplicates: of the requests that meet one     *)
(* life of a key, from the SETNX that creates it to its expiry, at most one *)
(* queues a task, however they interleave, die, lose replies and are sent   *)
(* again.  A request that claimed the key and then takes longer than the    *)
(* key lives may still queue its task when another has claimed the next     *)
(* life: a task counts for the life that its request claimed.               *)
OneTaskPerLife ==
  \A t, u \in created :
    Keyed(t) /\ Keyed(u) /\ KeyOf(t) = KeyOf(u) /\ won[t.id] = won[u.id] => t = u

(* The key of a task that was queued stays taken until it expires, so no    *)
(* later request with that key gets as far as queueing a second task.       *)
KeyGuardsTask ==
  \A t \in created :
    Keyed(t) /\ won[t.id] = life[KeyOf(t)] => store[KeyOf(t)] # Absent

(* "enqueued" is said only of a task that is in Redis, and a request that   *)
(* is told "existing" has not queued anything itself.                       *)
ReplyHonest ==
  \A r \in Requests :
    /\ reply[r].status = "enqueued" => reply[r].id = r /\ Task(r) \in created
    /\ reply[r].status = "existing" => \A t \in created : t.id # r

(* Every request is answered, whatever Redis and the other requests do,     *)
(* unless the process that serves it dies.                                  *)
Answered == \A r \in Requests : pc[r] # "idle" ~> pc[r] \in {"done", "dead"}

(* How far along a handler is, and in CheckOrSet the command it is at. *)
Rank(command) ==
  CASE command = "idle" -> 0
    [] command = "setnx" -> 1
    [] command = "get" -> 2
    [] command = "setnx again" -> 3
    [] OTHER -> 4

Progress(r) ==
  CASE pc[r] = "idle" -> 0
    [] pc[r] = "check" -> 1 + Rank(at[r])
    [] pc[r] = "enqueue" -> 6
    [] pc[r] = "update" -> 7 + Rank(at[r])
    [] pc[r] = "reply" -> 7
    [] OTHER -> 12

(* No handler turns back, however often its key expires or is taken under   *)
(* it: whatever a step changes of where a request is takes it further, so   *)
(* that all Answered needs besides is that handlers are scheduled.          *)
NoWayBack ==
  [][\A r \in Requests :
       pc'[r] # pc[r] \/ at'[r] # at[r] => Progress(r) < Progress(r)']_vars

(* How far the handler has come, as SubmissionSpec counts: it is permitted  *)
(* from the moment Redis created the key for it, and knows of a duplicate   *)
(* from the moment a command found one.                                     *)
Decided(r) ==
  CASE res[r].kind = "new" -> "permitted"
    [] res[r].kind = "existing" -> "duplicate"
    [] OTHER -> "open"

HasTask(r) == \E t \in created : t.id = r
KeyGiven(r) == IF HasKey(r) THEN input[r].key ELSE Unset
TakenKeys == {k \in Keys : store[k] # Absent}

Stage(r) ==
  CASE pc[r] = "idle" -> "idle"
    [] pc[r] = "check" -> IF at[r] = "done" THEN Decided(r) ELSE "open"
    [] pc[r] = "enqueue" -> "permitted"
    [] OTHER -> IF HasTask(r) THEN "queued" ELSE "over"

Promise == INSTANCE SubmissionSpec WITH
  NoKey <- Unset,
  taken <- TakenKeys,
  key <- [r \in Requests |-> KeyGiven(r)],
  stage <- [r \in Requests |-> Stage(r)],
  said <- [r \in Requests |-> reply[r].status]

(* The handlers keep the promise made to submitters: with its commands, its *)
(* races and its failures, a submission is one permit and at most one task. *)
KeepsPromise == Promise!Spec

-----------------------------------------------------------------------------
(* What the repository says and the code does not do.                       *)

(* routes.go:137 speaks of updating the key with the actual task ID, and    *)
(* k6/enqueue_load_test.js expects a task_id in every 200 reply: once the   *)
(* update went through, the key names the submitted task while it lives.    *)
KeyNamesTask ==
  \A r \in Requests :
    /\ reply[r].status = "enqueued" /\ HasKey(r) /\ res[r].kind # "error"
    /\ won[r] = life[input[r].key]
    => store[input[r].key] = r

(* README: X-Idempotency-Key prevents duplicate submissions.  A request     *)
(* answered "existing" is a duplicate: another request with its key queued  *)
(* a task or is still on its way to.                                        *)
ExistingMeansSubmitted ==
  \A r \in Requests :
    reply[r].status = "existing" =>
      \E s \in Requests \ {r} :
        /\ input[s].key = input[r].key
        /\ pc[s] \in Running \/ \E t \in created : t.id = s
=============================================================================
