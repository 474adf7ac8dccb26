------------------------------ MODULE TaskClient ------------------------------
(***************************************************************************)
(* The task client, internal/tasks/client.go, with its callers beside the  *)
(* HTTP handlers: ScheduleOneTime and the seed script.  Its options are    *)
(* passed by reference.  Two entry points write into them, and enqueue     *)
(* reads them again later: callers that pass one value meet in it.         *)
(*                                                                         *)
(* asynq takes a lock for a unique task, named after its queue, type and   *)
(* payload: from the submission until unique_ttl after the task is due, or *)
(* until the task is done.  Each of its scripts is one step.  What becomes *)
(* of a task once it is queued is taken from TaskPromise.                  *)
(***************************************************************************)
EXTENDS Integers

CONSTANTS
  Calls,         \* calls of the client; a task bears the name of its call
  Objects,       \* EnqueueOptions values that a caller keeps and passes again
  Nil,           \* no options
  Payloads,      \* task types with their payloads
  Queues, DefaultQueue,
  Unset,         \* the empty queue name
  Durations,     \* delays and TTLs callers ask for; may be zero or negative
  Given,         \* what callers put into the options they make
  MaxRetry,
  MaxTime,       \* bound on the clock
  NoTask

Options == [queue : Queues \cup {Unset}, delay : Durations \cup {0}, unique : Durations \cup {0}]

ASSUME ClientAssumption ==
  /\ Durations \subseteq Int /\ Given \subseteq Options
  /\ Nil \notin Objects \cup Calls /\ NoTask \notin Objects \cup Calls \cup {Nil}
  /\ Objects \cap Calls = {}
  /\ DefaultQueue \in Queues /\ Unset \notin Queues
  /\ MaxRetry \in Nat /\ MaxTime \in Nat

VARIABLES
  now,
  options,          \* Values -> what the EnqueueOptions of callers hold
  sending,          \* calls that have written and not yet sent
  asked,            \* Calls -> history: the options passed, and what they meant
  made,             \* Calls -> the task the call put into Redis, and when
  lock,             \* Fingerprints -> the holder and the end of the lock
  status, strikes   \* the life of the tasks; see TaskPromise

vars == <<now, options, sending, asked, made, lock, status, strikes>>

Life == INSTANCE TaskPromise WITH Tasks <- Calls

NoOptions == [queue |-> Unset, delay |-> 0, unique |-> 0]

(* A call that is given no options makes new ones, and so do callers for    *)
(* each task they send: a value of one call bears the name of the call.     *)
Values == Objects \cup Calls

Fingerprints == Queues \X Payloads
Fingerprint(queue, payload) == <<queue, payload>>

NotAsked == [passed |-> NoTask, opts |-> NoOptions]
NotMade == [fp |-> <<>>, at |-> 0, due |-> 0, until |-> 0]
Free == [task |-> NoTask, until |-> 0]

Init ==
  /\ now = 0
  /\ options \in {f \in [Values -> Given \cup {NoOptions}] : \A c \in Calls : f[c] = NoOptions}
  /\ sending = {}
  /\ asked = [c \in Calls |-> NotAsked]
  /\ made = [c \in Calls |-> NotMade]
  /\ lock = [fp \in Fingerprints |-> Free]
  /\ Life!Init

-----------------------------------------------------------------------------
(* Mutant: a delay that is not positive is passed on. *)
AnyDelay(d) == d

AtLeastZero(d) == IF d > 0 THEN d ELSE 0

Entries == {"now", "delayed", "unique", "at"}

(* What an entry point writes into the options: EnqueueDelayed the delay,   *)
(* ScheduleOneTime the time that is left, EnqueueUnique the TTL.            *)
Written(entry, opts, d) ==
  CASE entry = "now" -> opts
    [] entry = "delayed" -> [opts EXCEPT !.delay = d]
    [] entry = "at" -> [opts EXCEPT !.delay = AtLeastZero(d)]
    [] entry = "unique" -> [opts EXCEPT !.unique = d]

Queue(opts) == IF opts.queue = Unset THEN DefaultQueue ELSE opts.queue

(* The task that enqueue hands to asynq: options that are not positive are  *)
(* left out, and the lock of a scheduled task runs from when it is due.     *)
Make(opts, payload) ==
  LET due == now + AtLeastZero(opts.delay)
  IN  [fp    |-> Fingerprint(Queue(opts), payload),
       at    |-> now,
       due   |-> due,
       until |-> IF opts.unique > 0 THEN due + opts.unique ELSE 0]

IsUnique(task) == task.until > 0
Locked(fp) == lock[fp].task # NoTask /\ now < lock[fp].until

(* asynq takes the lock and the task in one script. *)
Accept(c, task) ==
  /\ IsUnique(task) => ~Locked(task.fp)
  /\ Life!Open(c)
  /\ made' = [made EXCEPT ![c] = task]
  /\ lock' = IF IsUnique(task)
             THEN [lock EXCEPT ![task.fp] = [task |-> c, until |-> task.until]]
             ELSE lock

(* Mutant: a call without options clears and fills a value kept for them all. *)
ValueKept(c, o) == IF o = Nil THEN CHOOSE kept \in Objects : TRUE ELSE o

(* The options a call works on: the ones it was passed, or new ones. *)
Value(c, o) == IF o = Nil THEN c ELSE o

(* The first half of EnqueueNow, EnqueueDelayed, EnqueueUnique and          *)
(* ScheduleOneTime: the entry point writes into the options.  History: what *)
(* it was passed, and what that means together with what it writes.         *)
Begin(c, entry, o, given, d) ==
  LET opts == Written(entry, given, d)
  IN  /\ asked[c] = NotAsked
      /\ options' = [options EXCEPT ![Value(c, o)] = opts]
      /\ asked' = [asked EXCEPT ![c] = [passed |-> o, opts |-> opts]]
      /\ sending' = sending \cup {c}
      /\ UNCHANGED <<now, made, lock, status, strikes>>

(* A call with no options, or with a value that its caller keeps. *)
Call(c, entry, o, d) == Begin(c, entry, o, IF o = Nil THEN NoOptions ELSE options[o], d)

(* The HTTP handlers and the seed script make new options for each task,    *)
(* with a queue and perhaps a delay; the seed script then passes the delay  *)
(* a second time.                                                           *)
CallWithOwn(c, entry, opts, d) == Begin(c, entry, c, opts, d)

(* The second half, enqueue: it validates the payload, reads the options,   *)
(* which another call may have written since, and EnqueueContext puts the   *)
(* task into Redis or not, for an invalid payload, the lock of another task *)
(* or a lost connection.  Its reads are one step.  Whether the caller hears *)
(* of the task makes no difference here: see EnqueueAPI.                    *)
Send(c, payload) ==
  /\ c \in sending
  /\ sending' = sending \ {c}
  /\ \/ Accept(c, Make(options[Value(c, asked[c].passed)], payload))
     \/ UNCHANGED <<made, lock, status, strikes>>
  /\ UNCHANGED <<now, options, asked>>

-----------------------------------------------------------------------------
(* Mutant: the lock goes whoever holds it. *)
ReleaseAny(t) == lock' = [lock EXCEPT ![made[t].fp] = Free]

(* A task that is done gives its lock back, if it still is its own. *)
Release(t) ==
  lock' = IF lock[made[t].fp].task = t /\ IsUnique(made[t])
          THEN [lock EXCEPT ![made[t].fp] = Free]
          ELSE lock

Done(t) ==
  /\ made[t].due <= now
  /\ Life!Finish(t)
  /\ Release(t)
  /\ UNCHANGED <<now, options, sending, asked, made>>

(* A failure keeps the lock, and so does the dead-letter queue. *)
Fail(t) ==
  /\ made[t].due <= now
  /\ Life!Strike(t) \/ Life!Bury(t)
  /\ UNCHANGED <<now, options, sending, asked, made, lock>>

Replay ==
  /\ \E S \in SUBSET Calls : S # {} /\ Life!Reopen(S)
  /\ UNCHANGED <<now, options, sending, asked, made, lock>>

Tick ==
  /\ now < MaxTime
  /\ now' = now + 1
  /\ UNCHANGED <<options, sending, asked, made, lock, status, strikes>>

Next ==
  \/ \E c \in Calls, e \in Entries, o \in Objects \cup {Nil}, d \in Durations : Call(c, e, o, d)
  \/ \E c \in Calls, e \in Entries, opts \in Given, d \in Durations : CallWithOwn(c, e, opts, d)
  \/ \E c \in Calls, p \in Payloads : Send(c, p)
  \/ \E c \in Calls : Done(c) \/ Fail(c)
  \/ Replay
  \/ Tick

Spec == Init /\ [][Next]_vars

-----------------------------------------------------------------------------
MadeTasks ==
  [fp : Fingerprints, at : Nat, due : Nat, until : Nat]

(* Types; a lock belongs to a unique task of its name. *)
TypeOK ==
  /\ now \in 0..MaxTime
  /\ options \in [Values -> Options]
  /\ asked \in [Calls -> [passed : Values \cup {Nil}, opts : Options] \cup {NotAsked}]
  /\ sending \subseteq {c \in Calls : asked[c] # NotAsked /\ status[c] = "absent"}
  /\ made \in [Calls -> MadeTasks \cup {NotMade}]
  /\ status \in [Calls -> {"absent", "open", "done", "dead"}]
  /\ strikes \in [Calls -> 0..MaxRetry]
  /\ lock \in [Fingerprints -> [task : Calls \cup {NoTask}, until : Nat]]
  /\ \A c \in Calls : status[c] = "absent" <=> made[c] = NotMade
  /\ \A fp \in Fingerprints : lock[fp].task # NoTask =>
       LET t == lock[fp].task
       IN  made[t] # NotMade /\ made[t].fp = fp /\ lock[fp].until = made[t].until

Twins(t, u) == IsUnique(made[t]) /\ IsUnique(made[u]) /\ made[t].fp = made[u].fp

(* unique_ttl prevents duplicates for as long as the first task is not      *)
(* done: of two equal unique tasks that are both queued, dead-lettered or   *)
(* replayed, one was accepted after the other's time had run out.  A task   *)
(* that outlives its lock must not give back the lock of its successor.     *)
NoTwinBeforeEnd ==
  \A t, u \in Calls :
    t # u /\ Twins(t, u) /\ status[t] # "done" /\ status[u] # "done"
      => made[t].until <= made[u].at \/ made[u].until <= made[t].at

(* The calls whose options are the same value: only these may meet. *)
Sharing(c) ==
  {c} \cup {u \in Calls : asked[u].passed = asked[c].passed /\ asked[c].passed # Nil}

(* Calls do not reach into each other's options: a task goes to the queue,  *)
(* and is sent with the delay and the TTL, that its own call asked for, or  *)
(* that another call asked for that was passed the same value, whatever     *)
(* order they write and send in.  So a call with options of its own, or     *)
(* none, gets exactly what it asked for.                                    *)
OptionsStayApart ==
  \A c \in Calls : made[c] # NotMade =>
    \E u \in Sharing(c) :
      LET opts == asked[u].opts
      IN  /\ made[c].fp[1] = Queue(opts)
          /\ made[c].due = made[c].at + AtLeastZero(opts.delay)
          /\ made[c].until = IF opts.unique > 0 THEN made[c].due + opts.unique ELSE 0
=============================================================================
