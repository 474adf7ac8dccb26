---------------------------- MODULE ShutdownProofs ----------------------------
(***************************************************************************)
(* Theorems about the end of a worker process, for any number of handlers, *)
(* tasks and signals.                                                      *)
(***************************************************************************)
EXTENDS WorkerShutdown, TLAPS

(* The goroutine that closed the server waits, or has waited. *)
ClosedBy ==
  closer # Nobody =>
    server = "closed" /\ step[closer] \in {"draining", "returned", "exited"}

(* Only srv.Run starts the server, and only a started one is closed. *)
NotStarted == step["run"] = "starting" => server = "new"

(* CloserDrains by itself is not inductive: a server must not start again   *)
(* once it was closed, and the goroutine that closed it must have waited.   *)
StopInv == ClosedBy /\ NotStarted /\ CloserDrains
Inv == TypeOK /\ StopInv

LEMMA InitInv == Init => Inv
<1> SUFFICES ASSUME Init PROVE Inv
  OBVIOUS
<1>1. SignalType /\ StopType
  <2>1. 0 \in 0..MaxSignals /\ 0 \in 0..MaxJobs
    BY ShutdownAssumption
  <2>2. SignalType
    BY <2>1 DEF Init, SignalType
  <2>3. StopType
    BY <2>1 DEF Init, StopType
  <2>4. QED
    BY <2>2, <2>3
<1>2. StepType
  BY DEF Init, StepType, Closers, MainLabels, RunLabels
<1>3. TaskType /\ Accounted
  <2>1. \A s \in Slots : slot[s] = NoTask
    BY DEF Init
  <2>2. \A t \in Tasks : t # NoTask /\ place[t] = "pending"
    BY ShutdownAssumption DEF Init
  <2>3. TaskType
    BY DEF Init, TaskType
  <2>4. QED
    BY <2>1, <2>2, <2>3 DEF Accounted
<1>4. StopInv
  BY DEF Init, StopInv, ClosedBy, NotStarted, CloserDrains, Nobody
<1>5. QED
  BY <1>1, <1>2, <1>3, <1>4 DEF Inv, TypeOK

(* Moving one goroutine leaves the other where it is. *)
LEMMA GotoTypes ==
  ASSUME TypeOK
  PROVE  /\ \A l \in MainLabels : Goto("main", l) =>
              StepType' /\ step'["main"] = l /\ step'["run"] = step["run"]
         /\ \A l \in RunLabels : Goto("run", l) =>
              StepType' /\ step'["run"] = l /\ step'["main"] = step["main"]
<1>1. ASSUME NEW l \in MainLabels, Goto("main", l)
      PROVE  StepType' /\ step'["main"] = l /\ step'["run"] = step["run"]
  BY <1>1 DEF TypeOK, StepType, Goto, Closers
<1>2. ASSUME NEW l \in RunLabels, Goto("run", l)
      PROVE  StepType' /\ step'["run"] = l /\ step'["main"] = step["main"]
  BY <1>2 DEF TypeOK, StepType, Goto, Closers
<1>3. QED
  BY <1>1, <1>2

(* The tasks and the slots stay as they are. *)
LEMMA TasksAlone ==
  ASSUME Inv, UNCHANGED <<place, slot>>
  PROVE  TaskType' /\ Accounted'
  BY DEF Inv, TypeOK, TaskType, Accounted

(* The server stays as it is, and no goroutine comes out of a wait.  *)
LEMMA ServerAlone ==
  ASSUME Inv, UNCHANGED <<slot, server, closer>>,
         step'["run"] = "starting" => step["run"] = "starting",
         \A c \in Closers :
           step'[c] = step[c] \/ step[c] \notin {"draining", "returned", "exited"}
  PROVE  StopInv'
  BY DEF Inv, TypeOK, StopType, StopInv, ClosedBy, NotStarted, CloserDrains, Nobody

(* The channels keep their one place. *)
LEMMA SignalTypes ==
  ASSUME SignalType, Signal \/ RunFailed \/ RunWakes \/ MainWakes
  PROVE  SignalType'
<1>1. /\ sent \in 0..MaxSignals /\ done \in 0..1 /\ woken \in 0..1
      /\ done > 0 => done - 1 \in 0..1
      /\ sent < MaxSignals => sent + 1 \in 0..MaxSignals
  BY ShutdownAssumption DEF SignalType
<1>2. QED
  BY <1>1 DEF SignalType, Signal, RunFailed, RunWakes, MainWakes

(* Signals, the scheduler and the way to Shutdown. *)
LEMMA QuietStep ==
  ASSUME Inv,
         \/ Signal \/ StartScheduler \/ Fire \/ JobEnds \/ GivesUpWaiting
         \/ RunFailed \/ RunWakes \/ MainWakes \/ StopScheduler \/ Quiet
  PROVE  Inv'
<1> USE DEF stopVars, taskVars
<1>1. SignalType'
  <2>1. SignalType
    BY DEF Inv, TypeOK
  <2>2. CASE UNCHANGED <<sent, done, woken>>
    BY <2>1, <2>2 DEF SignalType
  <2>3. CASE StartScheduler \/ Fire \/ JobEnds \/ GivesUpWaiting \/ StopScheduler \/ Quiet
    BY <2>2, <2>3 DEF StartScheduler, Fire, JobEnds, GivesUpWaiting, StopScheduler, Quiet
  <2>4. QED
    BY <2>1, <2>3, SignalTypes
<1>2. StopType'
  <2>1. StopType
    BY DEF Inv, TypeOK
  <2>2. CASE Fire \/ JobEnds
    <3>1. jobs' \in 0..MaxJobs
      <4>1. jobs \in 0..MaxJobs /\ MaxJobs \in Nat
        BY <2>1, ShutdownAssumption DEF StopType
      <4>2. (jobs < MaxJobs /\ jobs' = jobs + 1) \/ (jobs > 0 /\ jobs' = jobs - 1)
        BY <2>2 DEF Fire, JobEnds
      <4>3. QED
        BY ONLY <4>1, <4>2
    <3>2. QED
      BY <2>1, <2>2, <3>1 DEF StopType, Fire, JobEnds
  <2>3. CASE ~(Fire \/ JobEnds)
    BY <2>1, <2>3 DEF StopType, Signal, StartScheduler, GivesUpWaiting, RunFailed, RunWakes,
                      MainWakes, StopScheduler, Quiet
  <2>4. QED
    BY <2>2, <2>3
<1>3. /\ StepType' /\ Alive /\ Alive'
      /\ step'["run"] = "starting" => step["run"] = "starting"
      /\ \A c \in Closers :
           step'[c] = step[c] \/ step[c] \notin {"draining", "returned", "exited"}
  <2>1. CASE UNCHANGED step /\ Alive
    BY <2>1 DEF Inv, TypeOK, StepType, Alive
  <2>2. CASE RunFailed \/ RunWakes
    BY <2>2, GotoTypes DEF RunFailed, RunWakes, Inv, Alive, Closers, RunLabels
  <2>3. CASE MainWakes \/ StopScheduler \/ Quiet
    BY <2>3, GotoTypes DEF MainWakes, StopScheduler, Quiet, Inv, Alive, Closers, MainLabels
  <2>4. QED
    BY <2>1, <2>2, <2>3 DEF Signal, StartScheduler, Fire, JobEnds, GivesUpWaiting
<1>4. UNCHANGED <<place, slot, server, closer>>
  BY DEF Signal, StartScheduler, Fire, JobEnds, GivesUpWaiting, RunFailed, RunWakes, MainWakes,
         StopScheduler, Quiet
<1>5. QED
  BY <1>1, <1>2, <1>3, <1>4, TasksAlone, ServerAlone DEF Inv, TypeOK

(* srv.Run starts the server, which nobody can have closed before. *)
LEMMA RunStartsStep ==
  ASSUME Inv, RunStarts
  PROVE  Inv'
<1>1. /\ StepType' /\ Alive /\ Alive'
      /\ step'["run"] # "starting" /\ step'["main"] = step["main"]
  BY GotoTypes DEF RunStarts, Inv, Alive, RunLabels
<1>2. server = "new" /\ closer = Nobody /\ closer' = Nobody
  BY DEF RunStarts, Inv, StopInv, ClosedBy, NotStarted
<1>3. SignalType' /\ StopType'
  BY DEF RunStarts, Inv, TypeOK, SignalType, StopType
<1>4. StopInv'
  BY <1>1, <1>2 DEF StopInv, ClosedBy, NotStarted, CloserDrains
<1>5. QED
  BY <1>1, <1>3, <1>4, TasksAlone DEF RunStarts, Inv, TypeOK, taskVars

(* A call of Shutdown: the first one closes the server, the other returns.  *)
LEMMA ShutdownStep ==
  ASSUME Inv, NEW c \in Closers, Shutdown(c)
  PROVE  Inv'
<1>1. /\ StepType' /\ Alive /\ Alive'
      /\ step'["run"] = "starting" => step["run"] = "starting"
      /\ step[c] = "shutdown" /\ step'[c] \in {"draining", "returned"}
      /\ \A d \in Closers \ {c} : step'[d] = step[d]
  BY GotoTypes DEF Shutdown, Inv, Alive, Closers, MainLabels, RunLabels
<1>2. SignalType' /\ StopType'
  BY DEF Shutdown, Inv, TypeOK, SignalType, StopType
<1>3. StopInv'
  <2>1. CASE server = "active"
    <3>1. closer' = c /\ server' = "closed" /\ step'[c] = "draining"
      BY <2>1, GotoTypes DEF Shutdown, Inv, Closers, MainLabels, RunLabels
    <3>2. step'["run"] # "starting"
      BY <1>1, <2>1 DEF Inv, StopInv, NotStarted
    <3>3. QED
      BY <3>1, <3>2 DEF StopInv, ClosedBy, NotStarted, CloserDrains
  <2>2. CASE server # "active"
    BY <1>1, <2>2, ServerAlone DEF Shutdown, taskVars
  <2>3. QED
    BY <2>1, <2>2
<1>4. QED
  BY <1>1, <1>2, <1>3, TasksAlone DEF Shutdown, Inv, TypeOK, taskVars

(* A wait for the slots ends when all are free. *)
LEMMA DrainedStep ==
  ASSUME Inv, NEW c \in Closers, Drained(c)
  PROVE  Inv'
<1>1. \A s \in Slots : slot[s] = NoTask
  BY DEF Drained
<1>2. /\ StepType' /\ Alive /\ Alive'
      /\ \A d \in Closers : step'[d] = step[d] \/ step'[d] = "returned"
      /\ step'["run"] = "starting" => step["run"] = "starting"
  BY GotoTypes DEF Drained, Inv, Alive, Closers, MainLabels, RunLabels
<1>3. SignalType' /\ StopType' /\ UNCHANGED <<server, closer, place, slot>>
  BY DEF Drained, Inv, TypeOK, SignalType, StopType, stopVars, taskVars
<1>4. StopInv'
  BY <1>1, <1>2, <1>3
  DEF Inv, TypeOK, StopType, StopInv, ClosedBy, NotStarted, CloserDrains, Nobody
<1>5. QED
  BY <1>2, <1>3, <1>4, TasksAlone DEF Inv, TypeOK

(* The process ends, and its handlers with it. *)
LEMMA ExitStep ==
  ASSUME Inv, Exit
  PROVE  Inv'
<1>1. StepType' /\ step'["main"] = "exited" /\ step'["run"] = step["run"] /\ ~Alive'
  BY GotoTypes DEF Exit, Inv, Alive, MainLabels
<1>2. SignalType' /\ StopType'
  BY DEF Exit, Inv, TypeOK, SignalType, StopType
<1>3. TaskType' /\ Accounted'
  BY TasksAlone DEF Exit, taskVars
<1>4. StopInv'
  BY <1>1 DEF Exit, taskVars, Inv, TypeOK, StopType, StopInv, ClosedBy, NotStarted, CloserDrains,
              Closers, Nobody
<1>5. QED
  BY <1>1, <1>2, <1>3, <1>4 DEF Inv, TypeOK

(* A slot takes a task that waits, while the server is open. *)
LEMMA TakeStep ==
  ASSUME Inv, NEW s \in Slots, NEW t \in Tasks, Take(s, t)
  PROVE  Inv'
<1>1. \A z \in Slots : slot[z] # t
  BY ShutdownAssumption DEF Take, Inv, TypeOK, Accounted
<1>2. SignalType' /\ StepType' /\ StopType'
  BY DEF Take, Inv, TypeOK, SignalType, StepType, StopType, stopVars
<1>3. TaskType' /\ Accounted'
  <2>1. /\ TaskType'
        /\ slot'[s] = t /\ \A z \in Slots \ {s} : slot'[z] = slot[z]
        /\ place'[t] = "active" /\ \A u \in Tasks \ {t} : place'[u] = place[u]
    BY DEF Take, Inv, TypeOK, TaskType
  <2>2. slot[s] = NoTask /\ t # NoTask /\ \A u \in Tasks : u # NoTask
    BY ShutdownAssumption DEF Take
  <2>3. Accounted'
    BY <1>1, <2>1, <2>2 DEF Inv, TypeOK, TaskType, Accounted
  <2>4. QED
    BY <2>1, <2>3
<1>4. StopInv'
  <2>1. closer = Nobody /\ closer' = Nobody
    BY DEF Take, Inv, StopInv, ClosedBy, stopVars
  <2>2. QED
    BY <2>1 DEF Take, Inv, StopInv, ClosedBy, NotStarted, CloserDrains, stopVars
<1>5. QED
  BY <1>2, <1>3, <1>4 DEF Inv, TypeOK

(* A handler ends, or its task is put back. *)
LEMMA LeaveStep ==
  ASSUME Inv, NEW s \in Slots, NEW to \in {"pending", "active", "done"}, Leave(s, to)
  PROVE  Inv'
<1>1. /\ slot[s] \in Tasks /\ \A z \in Slots \ {s} : slot[z] # slot[s]
      /\ slot'[s] = NoTask /\ \A z \in Slots \ {s} : slot'[z] = slot[z]
      /\ \A t \in Tasks \ {slot[s]} : place'[t] = place[t]
  BY DEF Leave, Inv, TypeOK, TaskType, Accounted
<1>2. TaskType'
  BY <1>1 DEF Leave, Inv, TypeOK, TaskType
<1>3. Accounted'
  BY <1>1 DEF Inv, TypeOK, TaskType, Accounted
<1>4. SignalType' /\ StepType' /\ StopType'
  BY DEF Leave, Inv, TypeOK, SignalType, StepType, StopType, stopVars
<1>5. StopInv'
  BY <1>1 DEF Leave, Inv, StopInv, ClosedBy, NotStarted, CloserDrains, stopVars
<1>6. QED
  BY <1>2, <1>3, <1>4, <1>5 DEF Inv, TypeOK

THEOREM InvAlways == Spec => []Inv
<1>1. Inv /\ [Next]_vars => Inv'
  <2> SUFFICES ASSUME Inv, [Next]_vars PROVE Inv'
    OBVIOUS
  <2>1. CASE Next
    <3>1. ASSUME NEW s \in Slots, Finish(s) \/ PutBack(s) PROVE Inv'
      BY <3>1, LeaveStep DEF Finish, PutBack
    <3>2. QED
      BY <2>1, <3>1, QuietStep, RunStartsStep, ShutdownStep, DrainedStep, ExitStep, TakeStep
      DEF Next, RunSteps, MainSteps, Closers
  <2>2. CASE UNCHANGED vars
    BY <2>2
    DEF vars, Inv, TypeOK, SignalType, StepType, StopType, TaskType, Accounted,
        StopInv, ClosedBy, NotStarted, CloserDrains, Alive
  <2>3. QED
    BY <2>1, <2>2
<1>2. QED
  BY <1>1, InitInv, PTL DEF Spec

(* Every reachable state has the stated types, and handlers work on active  *)
(* tasks of their own.                                                      *)
THEOREM TypeCorrect == Spec => []TypeOK
<1>1. Inv => TypeOK
  BY DEF Inv
<1>2. QED
  BY <1>1, InvAlways, PTL

(* Whichever goroutine closes the server leaves no handler at work behind.  *)
THEOREM ClosingDrains == Spec => []CloserDrains
<1>1. Inv => CloserDrains
  BY DEF Inv, StopInv
<1>2. QED
  BY <1>1, InvAlways, PTL

(* No report is on its way once Stop of a running scheduler has returned.   *)
(* Nothing fires after the stop, and only Quiet leaves the wait.            *)
THEOREM StoppedIsQuiet == Spec => []SchedulerQuiet
<1>1. Init => SchedulerQuiet
  BY DEF Init, SchedulerQuiet
<1>2. SchedulerQuiet /\ TypeOK /\ [Next]_vars => SchedulerQuiet'
  <2> SUFFICES ASSUME SchedulerQuiet, TypeOK, [Next]_vars PROVE SchedulerQuiet'
    OBVIOUS
  <2>1. CASE /\ scheduler' = "closed" => scheduler = "closed"
             /\ jobs' = jobs
             /\ step["main"] = "quieting" => step'["main"] = "quieting"
    BY <2>1 DEF SchedulerQuiet
  <2>2. CASE Fire
    BY <2>2 DEF Fire, SchedulerQuiet
  <2>3. CASE JobEnds
    <3>1. jobs # 0 /\ scheduler' = scheduler /\ step' = step
      <4>1. jobs \in 0..MaxJobs /\ MaxJobs \in Nat
        BY ShutdownAssumption DEF TypeOK, StopType
      <4>2. jobs > 0 /\ scheduler' = scheduler /\ step' = step
        BY <2>3 DEF JobEnds
      <4>3. QED
        BY ONLY <4>1, <4>2
    <3>2. QED
      BY <3>1 DEF SchedulerQuiet
  <2>4. CASE StopScheduler
    <3>1. CASE scheduler = "active"
      <4>1. step'["main"] = "quieting"
        BY <2>4, <3>1, GotoTypes DEF StopScheduler, MainLabels
      <4>2. QED
        BY <4>1 DEF SchedulerQuiet
    <3>2. CASE scheduler # "active"
      BY <2>4, <3>2 DEF StopScheduler, SchedulerQuiet
    <3>3. QED
      BY <3>1, <3>2
  <2>5. CASE Quiet
    BY <2>5 DEF Quiet, SchedulerQuiet, stopVars
  <2>6. ASSUME NEW l \in MainLabels \cup RunLabels, NEW c \in Closers, Goto(c, l),
               c = "main" => step["main"] # "quieting"
        PROVE  step["main"] = "quieting" => step'["main"] = "quieting"
    BY <2>6 DEF Goto, TypeOK, StepType, Closers
  <2>7. CASE RunStarts \/ RunFailed \/ RunWakes \/ MainWakes
    <3>1. scheduler' = scheduler /\ jobs' = jobs
      BY <2>7 DEF RunStarts, RunFailed, RunWakes, MainWakes, stopVars
    <3>2. step["main"] = "quieting" => step'["main"] = "quieting"
      BY <2>7, <2>6 DEF RunStarts, RunFailed, RunWakes, MainWakes, Closers, MainLabels, RunLabels
    <3>3. QED
      BY <3>1, <3>2, <2>1
  <2>8. ASSUME NEW c \in Closers, Shutdown(c) \/ Drained(c) PROVE SchedulerQuiet'
    <3>1. scheduler' = scheduler /\ jobs' = jobs
      BY <2>8 DEF Shutdown, Drained, stopVars
    <3>2. step["main"] = "quieting" => step'["main"] = "quieting"
      BY <2>8, <2>6 DEF Shutdown, Drained, MainLabels, RunLabels
    <3>3. QED
      BY <3>1, <3>2, <2>1
  <2>9. CASE Exit
    BY <2>9 DEF Exit, SchedulerQuiet
  <2>10. CASE UNCHANGED <<scheduler, jobs, step>>
    BY <2>10, <2>1
  <2>11. CASE StartScheduler
    BY <2>11 DEF StartScheduler, SchedulerQuiet
  <2>12. QED
    BY <2>2, <2>3, <2>4, <2>5, <2>7, <2>8, <2>9, <2>10, <2>11
    DEF Next, RunSteps, MainSteps, Closers, Signal, GivesUpWaiting, Take, Leave, Finish, PutBack,
        vars, stopVars
<1>3. QED
  BY <1>1, <1>2, TypeCorrect, PTL DEF Spec

-----------------------------------------------------------------------------
(* srv.Run wakes for a signal that main's channel has got as well. *)
WokenBySignal == woken = 1 => sent > 0

LEMMA NextHeard ==
  ASSUME TypeOK, StopHeard, WokenBySignal, [Next]_vars
  PROVE  StopHeard' /\ WokenBySignal'
<1>1. /\ sent \in 0..MaxSignals /\ done \in 0..1 /\ woken \in 0..1 /\ StepType
      /\ MaxSignals \in Nat
  BY ShutdownAssumption DEF TypeOK, SignalType
<1>2. CASE /\ UNCHANGED <<sent, done>> /\ woken' \in {0, woken}
           /\ step'["main"] = "waiting" => step["main"] = "waiting"
           /\ step'["run"] \in {"shutdown", "draining", "returned"}
                => \/ step["run"] \in {"shutdown", "draining", "returned"}
                   \/ sent > 0
  BY <1>1, <1>2 DEF StopHeard, WokenBySignal
<1>3. CASE Signal
  BY <1>1, <1>3 DEF Signal, StopHeard, WokenBySignal
<1>4. CASE RunFailed
  BY <1>1, <1>4, GotoTypes DEF RunFailed, StopHeard, WokenBySignal, RunLabels
<1>5. ASSUME NEW l \in MainLabels \ {"waiting"}, Goto("main", l)
      PROVE  step'["main"] # "waiting"
  BY <1>5, GotoTypes
<1>6. CASE MainWakes
  <2>1. step'["main"] # "waiting" /\ UNCHANGED <<sent, woken>>
    BY <1>5, <1>6 DEF MainWakes, MainLabels
  <2>2. QED
    BY <2>1 DEF StopHeard, WokenBySignal
<1>7. CASE StopScheduler \/ Quiet \/ Shutdown("main") \/ Drained("main") \/ Exit
  <2>1. step'["main"] # "waiting" /\ UNCHANGED <<sent, done, woken>>
    BY <1>5, <1>7 DEF StopScheduler, Quiet, Shutdown, Drained, Exit, MainLabels
  <2>2. QED
    BY <2>1 DEF StopHeard, WokenBySignal
<1>8. CASE RunStarts
  BY <1>2, <1>8, GotoTypes DEF RunStarts, RunLabels
<1>9. CASE RunWakes
  BY <1>1, <1>2, <1>9, GotoTypes DEF RunWakes, WokenBySignal, RunLabels
<1>10. CASE Shutdown("run") \/ Drained("run")
  BY <1>2, <1>10, GotoTypes DEF Shutdown, Drained, RunLabels
<1>11. CASE UNCHANGED <<sent, done, woken, step>>
  BY <1>2, <1>11
<1>12. QED
  BY <1>3, <1>4, <1>6, <1>7, <1>8, <1>9, <1>10, <1>11
  DEF Next, RunSteps, MainSteps, StartScheduler, Fire, JobEnds, GivesUpWaiting, Take, Leave,
      Finish, PutBack, vars

(* No call to stop is lost, however many signals come and whichever         *)
(* goroutine meets them: main has one waiting until it wakes.               *)
THEOREM StopsAreHeard == Spec => []StopHeard
<1>1. Init => StopHeard /\ WokenBySignal
  BY DEF Init, StopHeard, WokenBySignal, Closers
<1>2. QED
  BY <1>1, NextHeard, TypeCorrect, PTL DEF Spec
=============================================================================
