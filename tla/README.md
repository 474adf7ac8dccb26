# AtlasQ: a TLA+ verification project

TLA+ models of the AtlasQ queue platform, the TLC runs that check them on small
instances, and TLAPS proofs of the properties that matter most. Paths such as
`routes.go` are those of the repository (`src/internal/web/routes.go`); every
model was translated from that source.

## 1. The system

| Component | State | Operations | Talks to |
|---|---|---|---|
| Idempotency manager, `internal/tasks/idempotency.go` | Redis strings `idem:<key>` with a TTL | `CheckOrSet`, `Delete` | Redis |
| HTTP handlers, `internal/web/routes.go` | none of their own; one goroutine per request | `POST /enqueue/{task}`, `POST /v1/orders`, health | manager, client |
| Task client, `internal/tasks/client.go` | none; writes into its callers' options | `EnqueueNow`, `EnqueueDelayed`, `EnqueueUnique` | asynq, which locks unique tasks |
| Payloads, `internal/tasks/types.go` | none | `ValidateTaskPayload`, `Validate` | client and handlers |
| Worker, `cmd/worker/main.go`, and handlers, `internal/handlers` | asynq's queues in Redis, leases, slots | take, run, report, retry, archive, recover | asynq |
| Worker shutdown, second half of `cmd/worker/main.go` | goroutines, channels, server state | signal, stop, drain, exit | asynq, scheduler |
| Scheduler, `internal/tasks/scheduler.go` | one periodic entry | `Start`, `Stop`, `ScheduleOneTime` (unused) | asynq, client |
| Dead-letter replay, `scripts/dlq_replay` | none | `RunAllArchivedTasks` of one queue | asynq |
| Producer process, `cmd/producer`, `internal/web/server.go` | `s.server`, the Redis clients | start, shutdown | HTTP handlers |
| Worker pool: `internal/config`, first half of `cmd/worker/main.go` | settings, pending lists | take, give up, forward | asynq |
| Seed script, `scripts/seed` | none | a task per loop turn | client |
| Metrics, queue monitor, logger, middleware, load tests, deployment | see section 8 | | |

A client posts a task to any producer replica. The handler validates the
request; with an `X-Idempotency-Key` it first claims the key in Redis
(`CheckOrSet` with a blank value), then enqueues, then calls `CheckOrSet` again
to put the task's identifier under the key. A worker replica takes the task
under a lease, runs its handler and reports. asynq retries or archives what
failed; which errors count is decided by the worker's `IsFailure`. Archived
tasks come back by hand with `dlq_replay`.

What is hard: handlers of several replicas interleave between any two Redis
commands; keys expire meanwhile; a command may be applied and its reply lost, and
go-redis then sends it again; a command that was given up may still reach Redis much
later; a producer may die between claim and enqueue; a
worker may die, or lose its lease while its handler runs on; recovery, replay and
late verdicts meet on one message; two goroutines shut the same asynq server
down; a producer may be told to stop before it has a server, or closes its clients
under handlers that are late; the lock of a unique task lapses while the task lives
on; options are passed by reference, written by one call and read by another; and the worker adds its queues' settings up into one pool. The `hazards` of `PROJECT.json` list these at their lines with the
properties that cover them, or a note where none does yet.

What makes each component correct:

- manager: a call is one decision about the key, taken at one moment;
- handlers: of the requests that meet one life of a key at most one queues a task, replies
  are true, everyone gets an answer;
- payloads: producer and worker agree on what is well-formed;
- worker: one holder per task, true retry counts, nothing stuck, no dead letter without the failures it stands for;
- worker shutdown: it ends, and it does not leave running handlers or reports behind;
- producer: it ends, and within its deadline cuts no request off;
- client: equal unique tasks exclude each other, and options meet only in calls that share them;
- pool: no queue that is switched on starves, whatever the settings hold.

## 2. Modules

| Module | Models | Role |
|---|---|---|
| `IdempotencySpec` | what `CheckOrSet` promises | abstract specification |
| `Idempotency` | `CheckOrSet` command by command, `Delete` | implements `IdempotencySpec` (`AtomicDecision`) |
| `SubmissionSpec` | what the producer promises to those who submit | abstract specification |
| `EnqueueAPI` | the submission handlers and the client | composes `Idempotency` (its callers are the requests), implements `SubmissionSpec` (`KeepsPromise`) |
| `Producer` | `main`, `Server.Start` and `Server.Shutdown` | composes the process with `EnqueueAPI`, which it implements |
| `TaskClient` | the client's entry points, `ScheduleOneTime`, the seed script, unique locks | composes with `TaskPromise`, the life of the tasks |
| `Payloads` | validation on both sides of the queue | pure functions and a two-step path |
| `TaskPromise` | what the queue promises of a task | abstract specification |
| `TaskLifecycle` | worker, handlers, replay over asynq | implements `TaskPromise` (`KeepsPromise`) |
| `WorkerPool` | the concurrency settings, the pool and the queues | on its own |
| `WorkerShutdown` | `main`, `srv.Run` and the scheduler at the end of a worker | on its own |
| `IdempotencyProofs`, `EnqueueProofs`, `ProducerProofs`, `ClientProofs`, `PayloadProofs`, `TaskProofs`, `PoolProofs`, `ShutdownProofs` | | theorems |
| `MC*` | | bounds for TLC |

How the models correspond to the code, where it is not obvious from `map`:

**Idempotency.** One action per Redis command (`SetNX`, `GetKey`, `SetNXAgain`);
`at` is the command a caller is about to issue. `RedisError` is any command that
ends in an error, and `ResendSetNX` a `SETNX` whose reply did not come and which go-redis
sends again (its default, three attempts). In both cases the `SETNX` may have been applied
(`Unheard`), or not have reached Redis yet (`GivenUp`): it is then one of the `stray`
commands, and `LateSetNX` applies it at any later time, when its caller has long been
answered. A late `SETNX` on a taken key changes nothing and is no action. TTLs are numbers of which only zero and positive
are told apart. `granted` is a history variable: who was told `IsNew` since the
key was created.

**EnqueueAPI.** `Receive` is the handler up to its first command, `Command` one
command of the `CheckOrSet` it is in, and `Checked`, `EnqueueNow`, `Updated`
and `Replied` are the handler after each call; a request without a key may die between
its enqueue and its reply (`pc` is "reply"). A task bears the name of the request that made
it. `NotEnqueued` covers an invalid payload, a refusal by asynq and a lost reply;
in the last case the task is queued although the client is told it is not.
`Die` ends one request; a process that dies ends several, one after the other,
which differs for nobody else; a `SETNX` of its may be left under way. Durations are abstracted to malformed, negative
(or zero) and positive. `life` and `won` are history variables: how often a
key has expired, and in which of its lives a request claimed it. A request that claimed a key and then takes
longer than the key lives may still queue its task while the next life runs, beside the
task of whoever claimed that life: `OneTaskPerLife` counts a task for the life that was
claimed, and the code promises no more. Whether the
payload is valid is an input here and is decided in `Payloads`.

`SubmissionSpec` knows nothing of commands: a request is permitted when it takes its
key, knows that it is a duplicate when it finds the key taken, and a permit is good for
one task. The refinement mapping (`Stage`) puts these decisions where Redis makes them: a
request inside its first `CheckOrSet` is "open" until a command has answered, and then
permitted or a duplicate, before the handler has seen the answer. After the enqueue
its stage says whether its task is in Redis, whatever its client was told. `Block` in the
abstract specification is the `SETNX` that was applied although its caller was told
nothing, or was told by its own resend that the key exists, or that came late.

`Progress` numbers the places of a handler with the commands of its two calls between
them; `NoWayBack` says that no step leads to a smaller number.

**Producer.** `main` and `starter` are where `main` and the goroutine of `Start` are,
`server` is `s.server`. Nothing orders the assignment in `Start` before the read in
`Shutdown`, so until `Start` has got to `ListenAndServe` the read may see nil, and
`main` panics. The channel `done` holds one signal; `starter` blocks on a full one.
`Deadline` is the end of the 30 seconds. Once `RedisClosed`, a command of this process
fails. `End` is the end of the process: its requests cannot go on and `DieHere` takes
them away one by one. Requests outside `Here` are those of other replicas, about
whose processes nothing is said. A request counts as received when its connection is
accepted.

**TaskClient.** `options` are the `EnqueueOptions` values, those that callers keep
(`Objects`) and those that a call makes for itself; `Given` is what callers put into them.
A call is two steps, since options are passed by reference. `Begin` is the entry point,
which may write a delay or a `unique_ttl` into them (`client.go:72-88`); `Send` is
`enqueue`, which reads them (`client.go:109-136`; its reads are taken as one step) and
sends the task, or fails. Between the two another call that was passed the same value may
write. At this commit no caller in the repository shares a value between calls: the
handlers and the seed script make one for each (`CallWithOwn`), so the shared ones are
those of a future caller of the exported entry points. `asked` is history: the value a
call was passed, and what it meant to ask for. `made` is what a call put into Redis: the
task's unique name (`fp`), when it was accepted and is due, and when its lock ends
(0 without one). asynq sets the lock to last from the submission until `unique_ttl` after
the task is due, and the script that completes a task deletes the lock if it still is the
task's own. Tasks then live as `TaskPromise` says, by construction: the client conjoins
its actions, and `TaskLifecycle` implements them. Time is a clock of a few ticks.

**WorkerPool.** `env` are the three `ASYNQ_CONCURRENCY_*` variables, each unset, no
number, or a number. `PoolSize` and `Consumed` are what `main` and then asynq make of
them: a sum below one is replaced by the number of CPUs, queues without a positive
weight are skipped, and without any queue asynq consumes "default". `pending` are
asynq's lists. A task that is done gives its name back, so that work never ends and
queues really compete.

**Payloads.** A text is a sequence of characters with a width in bytes, for Go
measures and indexes strings in bytes. Texts decode from JSON or they do not.
The three `ProcessTask` have the same shape; their opening checks are one operator.

**TaskLifecycle.** A worker is one slot of asynq's pool. `place` is the asynq
state of the task, `run` what a slot holds: the task, the retry count it read with
it, whether its lease is good, and the handler's verdict. `Outcomes` is what the
handlers return (they draw failures at random, and the payload may ask for
one); any attempt may also time out or panic, which is `Unexpected`. asynq is
external (v0.25.1): each of its Redis scripts is one step, its recoverer acts only
after a lease has ended and its holder knows (asynq leaves 30 s for this), and the
rules of retry and archive follow from the options the worker passes: `IsFailure`
and the message's retry limit. `failures` counts attempts that failed, up to one
past the limit.

**WorkerShutdown.** `jobs` counts the runs of the scheduler's entry that are sending a
report; `Stop` waits for them (`quieting`), but does nothing to a scheduler that has
not started, which may start afterwards. `step` says where `main` and the goroutine of `srv.Run`
are. `done` is the channel of `main`, `woken` the one inside `srv.Run`. asynq's
`Shutdown` returns at once unless the server is active; else it waits for the
handlers and, after its own timeout, puts their tasks back. A slot is free again even when
Redis did not take its report, or the task back, or the lease was lost (`Finish`,
`PutBack`); the task then stays active. When `main` returns the
process and its handlers are gone, and what they ran stays active in Redis, where
`TaskLifecycle` goes on (`Crash`, `Recover`).

## 3. Runs that pass

| Run | Question | Bounds | Why they are enough |
|---|---|---|---|
| `idempotency` | one decision per call, one winner per life, calls end, keys have a TTL and lapse | 2 callers, 1 key, 2 identifiers, ttl 0 and 1 | keys do not interact, and callers call again and again: one may create a key, find it, lose it to expiry and race the other for it, with commands of either that come late |
| `enqueue` | one task per life of a key, honest replies, the promise to submitters, no way back, everybody is answered; the process stops, and gracefully | 2 requests, one of them at the process, 1 key, 1 expiry (`ExpiryWhileServing`, see below); keyed submissions, an invalid one without a key (asynq's refusals reach the keyed ones), an order with the header, and a refused one | a submission and its retry at another replica: in the same life of the key with every stage of the process, and in the next while the process serves or when it has crashed |
| `payloads` | addresses are found, producer and worker agree | every `to` of up to 6 characters of `@ . a` and a two-byte letter; limits 5..7 bytes, subject 2, body 3 | both limits, and every position of `@` and `.`, come up; the code uses the limits only in comparisons |
| `client` | no equal unique tasks at a time, options stay apart | 3 calls, 1 kept options value, 1 queue and payload, options given with a delay of 1, durations -1 and 1, clock to 2, no retry | a lock, its successor and a third; a lock may lapse before, while and after its task runs, and be replayed beside; two calls meet in one value and a third has its own; other queues and payloads have other locks, and a retry leaves the lock alone |
| `pool` | handlers within the pool, nobody waits for nothing, no queue starves | 3 tasks, 3 queues and one nobody consumes, 35 settings of unset, no number, -3, 0 and 1; defaults 2, 1, 1 | two tasks may take turns before a third; pools of one to four slots; sums below one; all off |
| `tasks` | one holder, true counts, dead letters, the promise, nothing is stuck | 2 workers, 2 tasks in 2 queues, retry limit 1, 1 fault, 1 replay | two workers on one message in turn, with a crash, a lapse or an abort, recovery and replay between them; tasks share only slots. The theorems about the safety properties hold for any number of faults, and the violation runs use 2 |
| `shutdown` | the wait for handlers and reports, no call to stop is lost, the end of the process | 2 slots, 3 tasks, 2 signals, 2 reports at a time | more tasks than slots, a signal to each goroutine |

`MaxLapses`, `MaxFaults`, `MaxReplays`, `MaxSignals`, `MaxJobs` and `MaxTime` bound what
the environment does and occur only in guards; `Envs` and `Given` bound the settings and
options looked at. `ExpiryWhileServing` is a state constraint of the `enqueue` run: in what
it looks at, a key expires only while the process serves or after it has crashed, so that an
expiry is not combined with every stage of a shutdown. It cuts off only `Signal` and
`Expire`, of which no fairness is asked, and `ProducerImplementsAPI` proves for all
instances that the process only restricts the handlers. The runs `client` and
`shutdown_complete`, which check invariants alone, use symmetry. Deadlock is checked in the
`idempotency` run, where callers go on calling; elsewhere requests, tasks and processes come
to an end.

**Fairness.** `Idempotency`: each command of a caller is weakly fair (goroutines run,
and go-redis gives up after its attempts), and Redis expires a key with a TTL.
`Producer`: weak fairness of what a handler does next, errors included, of the two
goroutines and of the 30 s timer; nothing is asked of clients, signals, crashes or
expiry. `WorkerPool`: a free goroutine asks the queues in a random order drawn from
the weights, so a queue that is asked again and again comes first again and again
(strong fairness of `Dequeue` per queue); every task has a timeout (`GiveUp`) and the
forwarder runs; handlers need not return. `TaskLifecycle`: weak fairness of asynq's
forwarder and recoverer per task, and of every worker going on with the task it has (the
handler returns, or the report is made; handlers of this program end, see section 8); strong
fairness of taking a given task, by whatever worker, since queues are first in first out
and the other tasks take turns for the slots; and strong fairness of the outcome
"permanent" of a given task, which the handlers draw at random with a fixed probability in
every attempt, whoever runs it.
Without the last, `Settled` is false: see `tasks_retry_limit`. `WorkerShutdown`:
goroutines, asynq's timer and the end of a report's command; handlers need not return.

## 4. Runs that show a disagreement

| Run | What the repository says | What the code does |
|---|---|---|
| `enqueue_key_names_task` | the second `CheckOrSet` puts the task ID under the key (`routes.go:134-141`) and replies carry a `task_id` (`k6/enqueue_load_test.js:134`) | it is a `SETNX` and never changes the blank value |
| `enqueue_existing` | the key prevents duplicate submissions (`README.md:113`) | after a failed or half-applied attempt it prevents the only one |
| `tasks_retry_limit` | dead-lettered after max retries (`README.md:419`) | what `IsFailure` disowns is retried for ever |
| `tasks_permanent_retry` | "Task permanent failure - will not retry" (`main.go:65`) | `IsFailure` is true of it (`main.go:78-81`), so it is counted and retried up to the limit |
| `shutdown_complete` | "Worker service shutdown complete" (`main.go:173`) | said while handlers run, if `srv.Run` shut the server down first or has not started it yet |

More are plain from the text and have no run: `max_retry=0`, which `README.md:109`
offers, becomes the default (`client.go:115`); `unique_ttl` (`README.md:110`) ends with
the task's completion if that is earlier; `README.md:239-241` gives the queues weights
5, 3 and 1 and a concurrency each, while `main.go:47-57` uses 20, 10 and 5 as weights and
one pool of 35; the subject limit of "200 chars" (`types.go:77`) counts bytes; the
`dlq_replay` options `-target-queue` and `-max-tasks` do not exist; and the queue monitor
reads `asynq:queue:<q>` and the like, keys that asynq does not write.

## 5. Proofs

All theorems hold for every value of the constants that meets the named assumptions
(`IdempotencyAssumption`, `EnqueueAssumption`, `ProducerAssumption`, `ClientAssumption`,
`PayloadAssumption`, `PoolAssumption`, `TaskAssumption`, `ShutdownAssumption`: special
values differ from ordinary ones, counters and limits are numbers, characters have one to
four bytes and `@` and `.` one, default weights and the CPUs are positive). No number of
requests, callers, workers, tasks, characters or signals is bounded in them. Every safety
invariant and every action property of a passing run is the subject of a theorem.

- `IdempotencyProofs`: `TypeCorrect`; `WinnerIsUnique` (OneWinner): only a creation adds
  a winner, and it starts a new record; `ValuesAreKept` (NeverOverwritten); `KeysEnd`
  (KeysCarryTTL) needs that a call in progress, and a command that may come late, asks for a
  positive TTL, its own or the default; `DecidesAtomically`, step
  simulation under the refinement mapping of `Promise`: `SetNX` on a free key is
  `DecideNew`, on a taken key a stutter; `GetKey` decides; and so on.
- `EnqueueProofs`: `UsesManager` shows that every step of the handlers is a step or a
  stutter of `Idempotency`, whose theorems thus hold here too (`OneRequestIsNew`,
  `ValuesStay`, `RequestKeysEnd`). `AtMostOneTask` and
  `TaskKeepsKey` need more than they state: that each life of a key has one request that
  claimed it and that the key is taken while that life goes on, and that only a request
  that claimed gets to enqueue. `RepliesAreHonest` needs that a request on its way to its
  second `CheckOrSet` has its task queued, and one that was not answered has no reply
  (`HonestInv`). `SubmissionsAsPromised` is the refinement of `SubmissionSpec`, a lemma per
  action: `CommandMaps` tells apart the creation that answers (`Permit`), the one that does
  not (`Block`), the key that is found (`Duplicate`) and the command that decides nothing;
  the second call and a late `SETNX` only block keys, and a death after the enqueue is a stutter. It rests on
  `TypeOK` and `HonestInv`: without the latter a reply could be written twice. `HandlersAdvance`
  (NoWayBack) shows of each command that it leads to a later one or to the answer, or stays
  (`RankGrows`), and of each step of the handler that it passes all the ranks before it.
- `ProducerProofs`: `ProducerImplementsAPI` shows that the process only restricts the
  handlers, so the theorems of `EnqueueProofs` carry over. `StopsGracefully` needs
  two facts: no request is there before the server listens, so a panic in `Shutdown`
  loses none, and in time `main` leaves `draining` only when no handler runs.
- `ClientProofs`: `UniqueTasks` needs that an open unique task whose time has not run
  out holds the lock of its name, and that no task was accepted in the future.
  `OptionsApart` (OptionsStayApart) needs what a value holds while calls that were
  passed it are still to send: what one of them asked for (`HeldOptions`); that a value of a
  call's own is passed to no other (`PassedOwn`); and that a call which has sent has asked
  (`MadeWereAsked`).
- `PayloadProofs`: `AddressesAreFound` is about texts of any length, so it needs induction
  along the text. The library states induction for a predicate, which the provers cannot
  instantiate; `IntervalInduction` states it for a set and is proved from the
  well-foundedness of the numbers. By it the recursive functions `Begins` and `Scans` exist and
  are what their equations say (`Recursion`), later characters begin at later bytes, and
  after n characters the scan knows where the only `@` among them begins or that there
  are two (`ScanKnows`). `SidesAgree` compares the switch with the handlers' checks.
- `TaskProofs`: the invariant is the conjunction of `TypeOK`, `SingleHolder`,
  `CountIsFresh` and `DeadLettersEarned`. They need each other: how many failures a dead
  letter stands for is seen from the count the worker carries, which is the one in
  Redis because no second worker held the task meanwhile. `PromiseIsKept` is the
  refinement of `TaskPromise`.
- `PoolProofs`: `TypeCorrect` includes that a task is on its queue's list, once, just while
  it is pending: were it there twice, one that was taken could be taken again. `SlotsAlwaysServe` needs that the active tasks are finitely
  many, counted one up and one down, and that whatever the settings hold the pool has a slot.
- `ShutdownProofs`: `ClosingDrains` needs that a closed server is not started again and that
  its closer has waited until the slots were free; `StoppedIsQuiet`,
  that a closed scheduler starts no more runs; `StopsAreHeard`, that `srv.Run` wakes only
  for a signal that `main` was sent too.

Only model-checked: liveness (`CallsAnswered`, `KeysLapse`, `Answered`, `ProducerStops`,
`Settled`, `Stops`, `NoStarvation`), which is out of the prover's reach. What it rests on
besides fairness is proved where it could be stated as safety: a call and a handler
never turn back (`NoWayBack`, for `CallsAnswered` and `Answered`), keys have a TTL
(`KeysCarryTTL`, for `KeysLapse`), no call to stop is lost (`StopHeard`, for `Stops`), and
a waiting task waits for something (`SlotsServe`, for `NoStarvation`).

## 6. Plan

Done: the components of section 1, and theorems for all that can be proved of the runs'
properties. What is left:

1. proofs: the safety that `Settled` and `ProducerStops` rest on, as `NoWayBack` does for
   `Answered`;
2. `AtlasQ`: `TaskClient` over `TaskLifecycle` instead of `TaskPromise`, end to end.
   The client takes the life of its tasks from the actions of `TaskPromise`, and `PromiseIsKept`
   proves that `TaskLifecycle` implements them, so nothing would change for the client;
3. `Metrics`, once something calls it.

## 7. Running

    tlc -config MCProducer.cfg MCProducer
    tlapm ProducerProofs.tla

## 8. Not modelled, and why

- Metrics: at this commit `NewMetrics` is called and its result dropped, so no counter
  changes. (Each increment is an add and then a set of a fresh load: two of them may
  publish their values in the wrong order.)
- Queue monitor: only reads, from keys that asynq does not write. The logging middleware's
  task identifiers are in the log only.
- Logger, middleware, health: context values, log lines and constant replies. The settings
  besides concurrency are read once and are CONSTANTS of the modules.
  `handleStocks` is registered (`routes.go:59`) and defined nowhere, so the web package
  does not build as committed; the models take the other routes as they are.
- Load tests, deployment: clients and configuration.
- How many replicas register the scheduler's entry, and the time its payload bears.
- A handler that ignores its context runs on after a timeout, an abort or a lost
  lease (`email.go:58`, `order.go:58`): its slot is free while it still works. Handlers only
  log, so the overlap changes no modelled state.
- An enqueue that Redis applies after its caller gave it up: in `NotEnqueued` the task is
  queued at or before the error. Nothing tells the caller either way.
- A `DEFAULT_TASK_TIMEOUT` below the handlers' sleeps (`email.go:57`, `order.go:57`): every
  attempt would then time out, no outcome would be "permanent", and `Settled` would not hold,
  for the reason that `tasks_retry_limit` shows.
- asynq's retention of completed tasks, its aggregation groups and its pause of queues:
  not used.
