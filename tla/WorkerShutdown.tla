---------------------------- MODULE WorkerShutdown ----------------------------
(***************************************************************************)
(* How a worker process stops, the second half of cmd/worker/main.go.      *)
(*                                                                         *)
(* Two goroutines react to the same signal: main, which waits on its own   *)
(* channel and then stops the scheduler and the asynq server, and the one  *)
(* in srv.Run, where asynq waits for signals too and shuts the same server *)
(* down.  Only the first Shutdown waits for the handlers, the other one    *)
(* returns at once, and the process is gone when main returns.  The server *)
(* is external code, modelled from how main uses it: Shutdown on a server  *)
(* that is not active does nothing; otherwise it takes no more tasks and   *)
(* waits for the slots, which after a while put their tasks back if Redis  *)
(* lets them.                                                              *)
(***************************************************************************)
EXTENDS Integers

CONSTANTS
  Slots,       \* handlers that may run at a time
  Tasks,
  NoTask,
  MaxSignals,  \* bound: how many SIGINT and SIGTERM are sent
  MaxJobs      \* bound: scheduled reports on their way to Redis at a time

ASSUME ShutdownAssumption == NoTask \notin Tasks /\ MaxSignals \in Nat /\ MaxJobs \in Nat

Closers == {"main", "run"}
Nobody == "nobody"

VARIABLES
  sent,       \* how many signals have been sent
  done,       \* how many wait in main's channel, of capacity one
  woken,      \* how many wait for srv.Run, likewise
  step,       \* Closers -> where the goroutine is
  scheduler,  \* "new", "active", "closed"
  jobs,       \* reports the scheduler is about to enqueue
  server,     \* "new", "active", "closed"
  closer,     \* history: whose Shutdown closed the server
  late,       \* the server has waited for as long as it is willing to
  place,      \* Tasks -> "pending", "active", "done"
  slot,       \* Slots -> the task its handler runs, or ran when main returned
  said        \* main's last words

taskVars == <<place, slot>>
stopVars == <<scheduler, jobs, server, closer, late, said>>
vars == <<sent, done, woken, step, scheduler, jobs, server, closer, late, place, slot, said>>

Init ==
  /\ sent = 0 /\ done = 0 /\ woken = 0
  /\ step = [c \in Closers |-> IF c = "main" THEN "waiting" ELSE "starting"]
  /\ scheduler = "new" /\ jobs = 0 /\ server = "new" /\ closer = Nobody
  /\ late = FALSE
  /\ place = [t \in Tasks |-> "pending"]
  /\ slot = [s \in Slots |-> NoTask]
  /\ said = "nothing"

Alive == step["main"] # "exited"
Goto(c, label) == step' = [step EXCEPT ![c] = label]

-----------------------------------------------------------------------------
(* Mutant: a signal is queued behind one that waits already. *)
SignalQueued ==
  /\ Alive /\ sent < MaxSignals
  /\ sent' = sent + 1
  /\ done' = done + 1
  /\ woken' = IF step["run"] = "serving" THEN 1 ELSE woken
  /\ UNCHANGED <<step, stopVars, taskVars>>

(* The signal goes to every channel that is registered and has room. *)
Signal ==
  /\ Alive /\ sent < MaxSignals
  /\ sent' = sent + 1
  /\ done' = 1
  /\ woken' = IF step["run"] = "serving" THEN 1 ELSE woken
  /\ UNCHANGED <<step, stopVars, taskVars>>

StartScheduler ==
  /\ Alive /\ scheduler = "new"
  /\ scheduler' = "active"
  /\ UNCHANGED <<sent, done, woken, step, jobs, server, closer, late, said, taskVars>>

(* The entry that Start registered is due: a report goes to Redis, or is    *)
(* lost with an error that is only logged.                                  *)
Fire ==
  /\ Alive /\ scheduler = "active" /\ jobs < MaxJobs
  /\ jobs' = jobs + 1
  /\ UNCHANGED <<sent, done, woken, step, scheduler, server, closer, late, said, taskVars>>

JobEnds ==
  /\ Alive /\ jobs > 0
  /\ jobs' = jobs - 1
  /\ UNCHANGED <<sent, done, woken, step, scheduler, server, closer, late, said, taskVars>>

(* srv.Run starts the server, or reports that it could not. *)
RunStarts ==
  /\ Alive /\ step["run"] = "starting"
  /\ \/ server' = "active" /\ Goto("run", "serving")
     \/ UNCHANGED server /\ Goto("run", "failed")
  /\ UNCHANGED <<sent, done, woken, scheduler, jobs, closer, late, said, taskVars>>

(* Mutant: the error of srv.Run is only logged. *)
RunFailedSilently ==
  /\ Alive /\ step["run"] = "failed"
  /\ Goto("run", "returned")
  /\ UNCHANGED <<sent, done, woken, stopVars, taskVars>>

(* done <- syscall.SIGTERM blocks while the channel is full. *)
RunFailed ==
  /\ Alive /\ step["run"] = "failed"
  /\ done = 0
  /\ done' = 1
  /\ Goto("run", "returned")
  /\ UNCHANGED <<sent, woken, stopVars, taskVars>>

RunWakes ==
  /\ Alive /\ step["run"] = "serving" /\ woken = 1
  /\ woken' = 0
  /\ Goto("run", "shutdown")
  /\ UNCHANGED <<sent, done, stopVars, taskVars>>

MainWakes ==
  /\ step["main"] = "waiting" /\ done > 0
  /\ done' = done - 1
  /\ Goto("main", "stopping")
  /\ UNCHANGED <<sent, woken, stopVars, taskVars>>

(* Stop closes a scheduler that runs and does nothing to one that has not   *)
(* started yet, which may still start afterwards.                           *)
StopScheduler ==
  /\ step["main"] = "stopping"
  /\ \/ scheduler = "active" /\ scheduler' = "closed" /\ Goto("main", "quieting")
     \/ scheduler # "active" /\ UNCHANGED scheduler /\ Goto("main", "shutdown")
  /\ UNCHANGED <<sent, done, woken, jobs, server, closer, late, said, taskVars>>

(* Mutant: Stop does not wait for the reports on their way. *)
QuietAtOnce ==
  /\ step["main"] = "quieting"
  /\ Goto("main", "shutdown")
  /\ UNCHANGED <<sent, done, woken, stopVars, taskVars>>

(* Stop returns when the last report is on its way no longer. *)
Quiet ==
  /\ step["main"] = "quieting" /\ jobs = 0
  /\ Goto("main", "shutdown")
  /\ UNCHANGED <<sent, done, woken, stopVars, taskVars>>

(* srv.Shutdown, by main or by srv.Run. *)
Shutdown(c) ==
  /\ Alive /\ step[c] = "shutdown"
  /\ \/ /\ server = "active"
        /\ server' = "closed" /\ closer' = c
        /\ Goto(c, "draining")
     \/ /\ server # "active"
        /\ Goto(c, "returned")
        /\ UNCHANGED <<server, closer>>
  /\ UNCHANGED <<sent, done, woken, scheduler, jobs, late, said, taskVars>>

(* Mutant: Shutdown does not wait for the slots. *)
DrainedEarly(c) ==
  /\ Alive /\ step[c] = "draining"
  /\ Goto(c, "returned")
  /\ UNCHANGED <<sent, done, woken, stopVars, taskVars>>

Drained(c) ==
  /\ Alive /\ step[c] = "draining"
  /\ \A s \in Slots : slot[s] = NoTask
  /\ Goto(c, "returned")
  /\ UNCHANGED <<sent, done, woken, stopVars, taskVars>>

(* The server's own shutdown timeout. *)
GivesUpWaiting ==
  /\ Alive /\ server = "closed" /\ ~late
  /\ late' = TRUE
  /\ UNCHANGED <<sent, done, woken, step, scheduler, jobs, server, closer, said, taskVars>>

(* main looks at its 30 s only now, and returns: the process is gone, and   *)
(* with it every handler; the tasks they ran stay active in Redis, where    *)
(* another worker's recoverer finds them.                                   *)
Exit ==
  /\ step["main"] = "returned"
  /\ said' \in {"shutdown complete", "timed out"}
  /\ Goto("main", "exited")
  /\ UNCHANGED <<sent, done, woken, scheduler, jobs, server, closer, late, taskVars>>

-----------------------------------------------------------------------------
Take(s, t) ==
  /\ Alive /\ server = "active"
  /\ slot[s] = NoTask /\ place[t] = "pending"
  /\ place' = [place EXCEPT ![t] = "active"]
  /\ slot' = [slot EXCEPT ![s] = t]
  /\ UNCHANGED <<sent, done, woken, step, stopVars>>

Leave(s, to) ==
  /\ Alive /\ slot[s] # NoTask
  /\ place' = [place EXCEPT ![slot[s]] = to]
  /\ slot' = [slot EXCEPT ![s] = NoTask]
  /\ UNCHANGED <<sent, done, woken, step, stopVars>>

(* A slot is free again even if Redis did not take its report, or the task  *)
(* back, or the lease was lost: then the task stays active.                 *)
Finish(s) == \E to \in {"done", "active"} : Leave(s, to)

PutBack(s) == late /\ \E to \in {"pending", "active"} : Leave(s, to)

RunSteps == RunStarts \/ RunFailed \/ RunWakes \/ Shutdown("run") \/ Drained("run")
MainSteps == MainWakes \/ StopScheduler \/ Quiet \/ Shutdown("main") \/ Drained("main") \/ Exit

Next ==
  \/ Signal \/ GivesUpWaiting
  \/ StartScheduler \/ Fire \/ JobEnds
  \/ RunSteps \/ MainSteps
  \/ \E s \in Slots : Finish(s) \/ PutBack(s)
  \/ \E s \in Slots, t \in Tasks : Take(s, t)

Spec == Init /\ [][Next]_vars

(* Goroutines run, timers fire and go-redis answers or gives up in bounded  *)
(* time; a handler need not return.                                         *)
FairSpec ==
  /\ Spec
  /\ WF_vars(RunSteps) /\ WF_vars(MainSteps) /\ WF_vars(GivesUpWaiting) /\ WF_vars(JobEnds)
  /\ \A s \in Slots : WF_vars(PutBack(s))

-----------------------------------------------------------------------------
MainLabels == {"waiting", "stopping", "quieting", "shutdown", "draining", "returned", "exited"}
RunLabels == {"starting", "serving", "failed", "shutdown", "draining", "returned"}

StepType ==
  /\ step \in [Closers -> MainLabels \cup RunLabels]
  /\ step["main"] \in MainLabels /\ step["run"] \in RunLabels

SignalType == sent \in 0..MaxSignals /\ done \in 0..1 /\ woken \in 0..1

StopType ==
  /\ scheduler \in {"new", "active", "closed"} /\ jobs \in 0..MaxJobs
  /\ server \in {"new", "active", "closed"}
  /\ closer \in Closers \cup {Nobody}
  /\ late \in BOOLEAN
  /\ said \in {"nothing", "shutdown complete", "timed out"}

TaskType ==
  /\ place \in [Tasks -> {"pending", "active", "done"}]
  /\ slot \in [Slots -> Tasks \cup {NoTask}]

(* A slot holds an active task, and no other slot holds it as well. *)
Accounted ==
  \A s \in Slots : slot[s] # NoTask =>
    /\ place[slot[s]] = "active"
    /\ \A z \in Slots : slot[z] = slot[s] => z = s

(* Types; the handlers of the process work on active tasks of their own. *)
TypeOK == SignalType /\ StepType /\ StopType /\ TaskType /\ Accounted

(* Whichever goroutine closes the server, once its Shutdown has returned no *)
(* handler of the process runs, and none is started any more.               *)
CloserDrains ==
  closer # Nobody /\ step[closer] \in {"returned", "exited"}
    => \A s \in Slots : slot[s] = NoTask

(* A scheduler that was stopped while it ran has no report on its way once  *)
(* Stop has returned, so none is queued behind the server's shutdown.       *)
SchedulerQuiet == scheduler = "closed" /\ step["main"] # "quieting" => jobs = 0

(* No call to stop is lost: a signal that finds a full channel, one that    *)
(* only srv.Run takes, and a failed start all leave one waiting for main,   *)
(* for as long as it waits itself.                                          *)
StopHeard ==
  /\ step["main"] = "waiting"
  /\ sent > 0 \/ step["run"] \in {"shutdown", "draining", "returned"}
  => done = 1

(* A signal, or a server that could not start, ends the process, whatever   *)
(* the other goroutine does and even if no handler ever returns.            *)
Stops == (done > 0 /\ step["main"] = "waiting") \/ step["run"] = "failed" ~> ~Alive

-----------------------------------------------------------------------------
(* What the program says and does not do: main.go:173 "Worker service       *)
(* shutdown complete".                                                      *)
CompleteMeansDrained ==
  said = "shutdown complete" => \A s \in Slots : slot[s] = NoTask
=============================================================================
