------------------------------ MODULE TaskProofs ------------------------------
(***************************************************************************)
(* Theorems about the life of tasks, for any number of workers, tasks,     *)
(* kinds of payload, retries and faults.                                   *)
(***************************************************************************)
EXTENDS TaskLifecycle, TLAPS

(* The inductive invariant.  What a dead letter has behind it is seen from  *)
(* the count the worker carries, so that count must be the one in Redis,    *)
(* and it is only if no second worker held the task meanwhile.              *)
Inv == TypeOK /\ SingleHolder /\ CountIsFresh /\ DeadLettersEarned

LEMMA InitInv == Init => Inv
  BY TaskAssumption
  DEF Init, Inv, TypeOK, SingleHolder, CountIsFresh, DeadLettersEarned, Holding, Idle, Places,
      Errors

(* The type of one slot that is taken, answers, loses its lease or is freed. *)
LEMMA RunTypes ==
  ASSUME TypeOK, NEW w \in Workers
  PROVE  /\ DOMAIN run = Workers
         /\ Release(w) => run' \in [Workers -> Runs \cup {Idle}]
         /\ run[w].task \in Tasks => run[w] \in Runs
         /\ run[w].lease => run[w] \in Runs
         /\ run[w].task \in Tasks \cup {NoTask}
  BY TaskAssumption DEF TypeOK, Release, Runs, Idle

(* A step that moves only tasks nobody holds, and makes no dead letters.    *)
LEMMA MovesUnheld ==
  ASSUME Inv, place' \in [Tasks -> Places],
         \A t \in Tasks : place'[t] = place[t] \/ (place[t] # "active" /\ place'[t] # "archived"),
         UNCHANGED <<retried, lastErr, run, failures>>
  PROVE  SingleHolder' /\ CountIsFresh' /\ DeadLettersEarned'
  BY DEF Inv, SingleHolder, CountIsFresh, DeadLettersEarned, Holding

(* A step that frees slots or takes leases away and leaves the tasks alone. *)
LEMMA LosesLease ==
  ASSUME Inv,
         \A w \in Workers : run'[w] = run[w] \/ ~run'[w].lease,
         UNCHANGED <<place, retried, lastErr, failures>>
  PROVE  SingleHolder' /\ CountIsFresh' /\ DeadLettersEarned'
  BY DEF Inv, SingleHolder, CountIsFresh, DeadLettersEarned, Holding

(* One task t changes while nobody holds it afterwards. *)
LEMMA EndsHold ==
  ASSUME Inv, NEW t \in Tasks,
         \A u \in Tasks \ {t} : /\ place'[u] = place[u] /\ retried'[u] = retried[u]
                                /\ failures'[u] = failures[u] /\ lastErr'[u] = lastErr[u],
         \A w \in Workers : ~Holding(w, t)',
         \A w \in Workers : run'[w] = run[w] \/ ~run'[w].lease,
         retried'[t] <= failures'[t],
         place'[t] = "archived" =>
           IF lastErr'[t] = Unexpected THEN retried'[t] = MaxRetry ELSE retried'[t] < failures'[t]
  PROVE  SingleHolder' /\ CountIsFresh' /\ DeadLettersEarned'
<1>1. \A u \in Tasks, w \in Workers : Holding(w, u)' => u # t /\ run'[w] = run[w] /\ Holding(w, u)
  BY DEF Holding
<1>2. SingleHolder'
  BY <1>1 DEF Inv, SingleHolder
<1>3. CountIsFresh'
  BY <1>1 DEF Inv, CountIsFresh
<1>4. DeadLettersEarned'
  BY DEF Inv, DeadLettersEarned
<1>5. QED
  BY <1>2, <1>3, <1>4

LEMMA SubmitStep ==
  ASSUME Inv, NEW t \in Tasks, Submit(t) \/ Forward(t)
  PROVE  Inv'
<1>1. TypeOK'
  BY DEF Inv, TypeOK, Submit, Forward, Move, Places
<1>2. \A u \in Tasks : place'[u] = place[u] \/ (place[u] # "active" /\ place'[u] # "archived")
  BY DEF Inv, TypeOK, Submit, Forward, Move
<1>3. QED
  BY <1>1, <1>2, MovesUnheld DEF Inv, Submit, Forward, TypeOK

LEMMA DequeueStep ==
  ASSUME Inv, NEW w \in Workers, NEW t \in Tasks, Dequeue(w, t)
  PROVE  Inv'
<1> DEFINE taken == [task |-> t, retried |-> retried[t], lease |-> TRUE, verdict |-> "none"]
<1>1. /\ place[t] = "pending" /\ place' = [place EXCEPT ![t] = "active"]
      /\ run' = [run EXCEPT ![w] = taken]
      /\ UNCHANGED <<retried, lastErr, failures, faults, replays>>
  BY DEF Dequeue, Move
<1>2. taken \in Runs
  BY DEF Inv, TypeOK, Runs
<1>3. TypeOK'
  <2>1. run' \in [Workers -> Runs \cup {Idle}]
    BY <1>1, <1>2 DEF Inv, TypeOK
  <2>2. place' \in [Tasks -> Places]
    BY <1>1 DEF Inv, TypeOK, Places
  <2>3. QED
    BY <1>1, <2>1, <2>2 DEF Inv, TypeOK
<1>4. \A v \in Workers, u \in Tasks :
        Holding(v, u)' <=> IF v = w THEN u = t ELSE Holding(v, u)
  BY <1>1 DEF Inv, TypeOK, Holding
<1>5. \A v \in Workers : ~Holding(v, t)
  BY <1>1 DEF Inv, SingleHolder
<1>6. Idle.task \notin Tasks
  BY TaskAssumption DEF Idle
<1>7. \A u \in Tasks : ~Holding(w, u)
  BY <1>6 DEF Dequeue, Holding
<1>8. SingleHolder'
  <2>1. \A v \in Workers, u \in Tasks : Holding(v, u) => place'[u] = "active"
    BY <1>1, <1>5 DEF Inv, SingleHolder, TypeOK
  <2>2. place'[t] = "active"
    BY <1>1 DEF Inv, TypeOK
  <2>3. QED
    BY <1>4, <1>5, <2>1, <2>2 DEF Inv, SingleHolder
<1>9. CountIsFresh'
  <2>1. run'[w].retried = retried[t] /\ \A v \in Workers \ {w} : run'[v] = run[v]
    BY <1>1 DEF Inv, TypeOK
  <2>2. QED
    BY <1>1, <1>4, <2>1 DEF Inv, CountIsFresh
<1>10. DeadLettersEarned'
  BY <1>1 DEF Inv, DeadLettersEarned, TypeOK
<1>11. QED
  BY <1>3, <1>8, <1>9, <1>10 DEF Inv

LEMMA ReturnStep ==
  ASSUME Inv, NEW w \in Workers, NEW t \in Tasks, NEW v \in Verdicts, HandlerReturns(w, t, v)
  PROVE  Inv'
<1>1. /\ run[w].task = t
      /\ run' = [run EXCEPT ![w].verdict = v]
      /\ UNCHANGED <<place, retried, lastErr, failures, faults, replays>>
  BY DEF HandlerReturns, Handling
<1>2. run[w] \in Runs
  BY <1>1, RunTypes DEF Inv
<1>3. TypeOK'
  <2>1. [run[w] EXCEPT !.verdict = v] \in Runs
    BY <1>2 DEF Runs
  <2>2. QED
    BY <1>1, <2>1 DEF Inv, TypeOK
<1>4. \A x \in Workers : /\ run'[x].task = run[x].task
                         /\ run'[x].lease = run[x].lease
                         /\ run'[x].retried = run[x].retried
  BY <1>1, <1>2 DEF Inv, TypeOK, Runs
<1>5. QED
  BY <1>1, <1>3, <1>4
  DEF Inv, SingleHolder, CountIsFresh, DeadLettersEarned, Holding

LEMMA CrashStep ==
  ASSUME Inv, NEW w \in Workers, Crash(w) \/ LeaseLapses(w)
  PROVE  Inv'
<1>1. faults' \in 0..MaxFaults
  BY TaskAssumption DEF Inv, TypeOK, Crash, LeaseLapses, Fault
<1>2. run' \in [Workers -> Runs \cup {Idle}]
  <2>1. CASE Release(w)
    BY <2>1, RunTypes DEF Inv
  <2>2. CASE run[w].lease /\ run' = [run EXCEPT ![w].lease = FALSE]
    <3>1. [run[w] EXCEPT !.lease = FALSE] \in Runs
      BY <2>2, RunTypes DEF Inv, Runs
    <3>2. QED
      BY <2>2, <3>1 DEF Inv, TypeOK
  <2>3. QED
    BY <2>1, <2>2 DEF Crash, LeaseLapses
<1>3. TypeOK'
  BY <1>1, <1>2 DEF Inv, TypeOK, Crash, LeaseLapses
<1>4. \A v \in Workers : run'[v] = run[v] \/ ~run'[v].lease
  <2>1. run[w].lease => run[w] \in Runs
    BY RunTypes DEF Inv
  <2>2. QED
    BY <2>1 DEF Inv, TypeOK, Crash, LeaseLapses, Release, Idle, Runs
<1>5. QED
  BY <1>3, <1>4, LosesLease DEF Inv, Crash, LeaseLapses

(* After a worker that holds a task lets go of it, nobody holds it. *)
LEMMA LetGo ==
  ASSUME Inv, NEW w \in Workers, NEW t \in Tasks, run[w].task = t, Release(w)
  PROVE  /\ \A v \in Workers : run'[v] = run[v] \/ ~run'[v].lease
         /\ Holds(w, t) => \A v \in Workers : ~Holding(v, t)'
<1>1. DOMAIN run = Workers /\ ~Idle.lease
  BY RunTypes DEF Inv, Idle
<1>2. run'[w] = Idle /\ \A v \in Workers \ {w} : run'[v] = run[v]
  BY <1>1 DEF Release
<1>3. Holds(w, t) => \A v \in Workers \ {w} : ~Holding(v, t)
  BY DEF Inv, SingleHolder, Holding, Holds
<1>4. QED
  BY <1>1, <1>2, <1>3 DEF Holding

LEMMA AbortStep ==
  ASSUME Inv, NEW w \in Workers, NEW t \in Tasks, Abort(w, t)
  PROVE  Inv'
<1>1. /\ run[w].task = t /\ Release(w)
      /\ UNCHANGED <<retried, lastErr, failures, replays>>
  BY DEF Abort, Handling
<1>2. TypeOK'
  <2>1. run' \in [Workers -> Runs \cup {Idle}]
    BY <1>1, RunTypes DEF Inv
  <2>2. faults' \in 0..MaxFaults
    BY TaskAssumption DEF Inv, TypeOK, Abort, Fault
  <2>3. place' \in [Tasks -> Places]
    BY DEF Inv, TypeOK, Abort, Move, Places
  <2>4. QED
    BY <1>1, <2>1, <2>2, <2>3 DEF Inv, TypeOK
<1>3. CASE Holds(w, t)
  <2>1. place' = [place EXCEPT ![t] = "pending"]
    BY <1>3 DEF Abort, Move
  <2>2. /\ \A u \in Tasks \ {t} : place'[u] = place[u]
        /\ place'[t] # "archived"
    BY <2>1 DEF Inv, TypeOK
  <2>3. retried'[t] <= failures'[t]
    BY <1>1 DEF Inv, DeadLettersEarned
  <2>4. QED
    BY <1>1, <1>2, <1>3, <2>2, <2>3, LetGo, EndsHold DEF Inv
<1>4. CASE ~Holds(w, t)
  <2>1. place' = place
    BY <1>4 DEF Abort
  <2>2. QED
    BY <1>1, <1>2, <2>1, LetGo, LosesLease DEF Inv
<1>5. QED
  BY <1>3, <1>4

(* The verdict is written by the one worker that holds the task. *)
LEMMA ReportStep ==
  ASSUME Inv, NEW w \in Workers, NEW t \in Tasks, Report(w, t)
  PROVE  Inv'
<1>1. /\ run[w].task = t /\ Release(w)
      /\ UNCHANGED <<faults, replays>>
  BY DEF Report
<1>2. run' \in [Workers -> Runs \cup {Idle}]
  BY <1>1, RunTypes DEF Inv
<1>3. /\ MaxRetry \in Nat
      /\ retried[t] \in 0..MaxRetry
      /\ failures[t] \in 0..(MaxRetry + 1)
      /\ retried[t] <= failures[t]
  BY TaskAssumption DEF Inv, TypeOK, DeadLettersEarned
<1>4. CASE ~Holds(w, t) /\ UNCHANGED <<place, retried, lastErr, failures>>
  <2>1. TypeOK'
    BY <1>1, <1>2, <1>4 DEF Inv, TypeOK
  <2>2. QED
    BY <1>1, <1>4, <2>1, LetGo, LosesLease DEF Inv
<1>5. CASE Holds(w, t) /\ Succeeded(w, t)
  <2>1. /\ place' = [place EXCEPT ![t] = "done"]
        /\ UNCHANGED <<retried, lastErr, failures>>
    BY <1>5 DEF Succeeded, Move
  <2>2. TypeOK'
    BY <1>1, <1>2, <2>1 DEF Inv, TypeOK, Places
  <2>3. /\ \A u \in Tasks \ {t} : place'[u] = place[u]
        /\ place'[t] # "archived"
    BY <2>1 DEF Inv, TypeOK
  <2>4. QED
    BY <1>1, <1>3, <1>5, <2>1, <2>2, <2>3, LetGo, EndsHold DEF Inv
<1>6. CASE Holds(w, t) /\ Failed(w, t)
  <2>1. run[w].retried = retried[t]
    BY <1>1, <1>6 DEF Holds, Holding, Inv, CountIsFresh
  <2>2. failures' = [failures EXCEPT ![t] = IF @ > MaxRetry THEN @ ELSE @ + 1]
    BY <1>6 DEF Failed, Count
  <2>3. /\ failures' \in [Tasks -> 0..(MaxRetry + 1)]
        /\ retried[t] < failures'[t]
        /\ \A u \in Tasks \ {t} : failures'[u] = failures[u]
    BY <1>3, <2>2 DEF Inv, TypeOK
  <2>4. run[w].verdict \in Errors
    BY <1>6 DEF Failed, Errors
  <2>5. \/ Retry(t, retried[t], run[w].verdict)
        \/ retried[t] < MaxRetry /\ Retry(t, retried[t] + 1, run[w].verdict)
        \/ /\ retried[t] >= MaxRetry /\ run[w].verdict = "permanent"
           /\ Archive(t, run[w].verdict)
    BY <1>6, <2>1 DEF Failed, IsFailure
  <2>6. CASE \E n \in 0..MaxRetry : n <= failures'[t] /\ Retry(t, n, run[w].verdict)
    <3>1. PICK n \in 0..MaxRetry : n <= failures'[t] /\ Retry(t, n, run[w].verdict)
      BY <2>6
    <3>2. TypeOK'
      BY <1>1, <1>2, <2>3, <2>4, <3>1 DEF Inv, TypeOK, Retry, Move, Places
    <3>3. /\ \A u \in Tasks \ {t} :
               place'[u] = place[u] /\ retried'[u] = retried[u] /\ lastErr'[u] = lastErr[u]
          /\ place'[t] # "archived"
          /\ retried'[t] <= failures'[t]
      BY <3>1 DEF Inv, TypeOK, Retry, Move
    <3>4. QED
      BY <1>1, <1>6, <2>3, <3>2, <3>3, LetGo, EndsHold DEF Inv
  <2>7. CASE /\ retried[t] >= MaxRetry /\ run[w].verdict = "permanent"
             /\ Archive(t, run[w].verdict)
    <3>1. TypeOK'
      BY <1>1, <1>2, <2>3, <2>4, <2>7 DEF Inv, TypeOK, Archive, Move, Places
    <3>2. /\ \A u \in Tasks \ {t} : place'[u] = place[u] /\ lastErr'[u] = lastErr[u]
          /\ lastErr'[t] # Unexpected
          /\ retried' = retried
          /\ retried[t] < failures'[t]
      BY <1>3, <2>3, <2>7 DEF Inv, TypeOK, Archive, Move, Unexpected
    <3>3. /\ retried'[t] < failures'[t]
          /\ IF lastErr'[t] = Unexpected THEN retried'[t] = MaxRetry ELSE retried'[t] < failures'[t]
          /\ \A u \in Tasks \ {t} : retried'[u] = retried[u]
      BY <3>2
    <3>4. retried'[t] <= failures'[t]
      BY <1>3, <2>3, <3>2 DEF TypeOK
    <3>5. QED
      BY <1>1, <1>6, <2>3, <3>1, <3>2, <3>3, <3>4, LetGo, EndsHold DEF Inv
  <2>8. QED
    <3>1. retried[t] < MaxRetry => retried[t] + 1 \in 0..MaxRetry
      BY <1>3
    <3>2. retried[t] <= failures'[t] /\ retried[t] + 1 <= failures'[t]
      BY <1>3, <2>3 DEF TypeOK
    <3>3. QED
      BY <1>3, <2>5, <2>6, <2>7, <3>1, <3>2
<1>7. QED
  BY <1>4, <1>5, <1>6 DEF Report

(* The recoverer writes only when nobody holds the task. *)
LEMMA RecoverStep ==
  ASSUME Inv, NEW t \in Tasks, Recover(t)
  PROVE  Inv'
<1>1. /\ MaxRetry \in Nat
      /\ retried[t] \in 0..MaxRetry
      /\ retried[t] <= failures[t]
      /\ UNCHANGED <<run, failures, faults, replays>>
  BY TaskAssumption DEF Inv, TypeOK, DeadLettersEarned, Recover
<1>2. /\ retried' = retried
      /\ \/ place' = [place EXCEPT ![t] = "retry"]
         \/ retried[t] = MaxRetry /\ place' = [place EXCEPT ![t] = "archived"]
      /\ lastErr' = [lastErr EXCEPT ![t] = Unexpected]
  BY <1>1 DEF Recover, Retry, Archive, Move, Inv, TypeOK, CountAfter, IsFailure, Unexpected
<1>3. TypeOK'
  <2>1. place' \in [Tasks -> Places]
    BY <1>2 DEF Inv, TypeOK, Places
  <2>2. lastErr' \in [Tasks -> Errors]
    BY <1>2 DEF Inv, TypeOK, Errors
  <2>3. QED
    BY <1>1, <1>2, <2>1, <2>2 DEF Inv, TypeOK
<1>4. \A w \in Workers : ~Holding(w, t)'
  BY <1>1 DEF Recover, Holding
<1>5. /\ \A u \in Tasks \ {t} : place'[u] = place[u] /\ lastErr'[u] = lastErr[u]
      /\ lastErr'[t] = Unexpected
      /\ place'[t] = "archived" => retried[t] = MaxRetry
  BY <1>2 DEF Inv, TypeOK
<1>6. QED
  BY <1>1, <1>2, <1>3, <1>4, <1>5, EndsHold DEF Inv

LEMMA ReplayStep ==
  ASSUME Inv, NEW q \in Queues, Replay(q)
  PROVE  Inv'
<1>1. place' \in [Tasks -> Places]
  BY DEF Replay, Inv, TypeOK, Places
<1>2. TypeOK'
  <2>1. replays' \in 0..MaxReplays
    BY TaskAssumption DEF Replay, Inv, TypeOK
  <2>2. QED
    BY <1>1, <2>1 DEF Replay, Inv, TypeOK
<1>3. \A t \in Tasks : place'[t] = place[t] \/ (place[t] # "active" /\ place'[t] # "archived")
  BY DEF Replay, Archived
<1>4. QED
  BY <1>1, <1>2, <1>3, MovesUnheld DEF Inv, Replay

(* Inv is inductive. *)
LEMMA NextInv == Inv /\ [Next]_vars => Inv'
<1> SUFFICES ASSUME Inv, [Next]_vars PROVE Inv'
  OBVIOUS
<1>1. CASE UNCHANGED vars
  BY <1>1 DEF vars, Inv, TypeOK, SingleHolder, CountIsFresh, DeadLettersEarned, Holding
<1>2. CASE Next
  BY <1>2, SubmitStep, DequeueStep, ReturnStep, CrashStep, AbortStep, ReportStep, RecoverStep,
     ReplayStep DEF Next
<1>3. QED
  BY <1>1, <1>2

THEOREM InvAlways == Spec => []Inv
  BY InitInv, NextInv, PTL DEF Spec

(* Types, and retry counts within the limit, in every reachable state. *)
THEOREM TypeCorrect == Spec => []TypeOK
  BY InvAlways, PTL DEF Inv

(* At most one worker with a good lease holds a task, and it is active then. *)
THEOREM HolderIsSingle == Spec => []SingleHolder
  BY InvAlways, PTL DEF Inv

(* The count a worker computes the next one from is never out of date. *)
THEOREM CountStaysFresh == Spec => []CountIsFresh
  BY InvAlways, PTL DEF Inv

(* Each retry counted stands for a failed attempt, and a dead letter for    *)
(* one more, or for a lost worker with the retries used up.                 *)
THEOREM DeadLettersAreEarned == Spec => []DeadLettersEarned
  BY InvAlways, PTL DEF Inv

-----------------------------------------------------------------------------
(* One task moves from one place to another, seen from the promise. *)
LEMMA MoveMaps ==
  ASSUME Inv, NEW t \in Tasks, NEW to, Move(t, to)
  PROVE  /\ \A u \in Tasks \ {t} : Status(u)' = Status(u)
         /\ Status(t)' = CASE to = "absent" -> "absent"
                           [] to = "done" -> "done"
                           [] to = "archived" -> "dead"
                           [] OTHER -> "open"
<1>1. place'[t] = to /\ \A u \in Tasks \ {t} : place'[u] = place[u]
  BY DEF Inv, TypeOK, Move
<1>2. QED
  BY <1>1 DEF Status

(* Every step of the worker, of Redis or of the replay is one step of the   *)
(* promise, or none.                                                        *)
LEMMA StepMaps == Inv /\ [Next]_vars => [Promise!Next]_Promise!vars
<1> SUFFICES ASSUME Inv, [Next]_vars PROVE [Promise!Next]_Promise!vars
  OBVIOUS
<1> DEFINE St == [t \in Tasks |-> Status(t)]
<1>1. ASSUME NEW t \in Tasks, \A u \in Tasks : Status(u)' = Status(u), UNCHANGED retried
      PROVE  UNCHANGED Promise!vars
  BY <1>1 DEF Promise!vars
<1>2. ASSUME NEW t \in Tasks, NEW from, NEW to, Status(t) = from, Status(t)' = to,
             \A u \in Tasks \ {t} : Status(u)' = Status(u), UNCHANGED retried
      PROVE  Promise!Move(t, from, to)
  <2>1. St' = [St EXCEPT ![t] = to]
    BY <1>2
  <2>2. QED
    BY <1>2, <2>1 DEF Promise!Move
<1>3. ASSUME NEW t \in Tasks, Submit(t) PROVE Promise!Open(t)
  BY <1>2, <1>3, MoveMaps DEF Submit, Status, Promise!Open
<1>4. ASSUME NEW t \in Tasks, Forward(t) PROVE UNCHANGED Promise!vars
  <2>1. Status(t) = "open"
    BY <1>4 DEF Forward, Status
  <2>2. QED
    BY <1>1, <1>4, <2>1, MoveMaps DEF Forward
<1>5. ASSUME NEW t \in Tasks, place[t] = "active", NEW n, NEW err,
             \/ n = retried[t] /\ Retry(t, n, err)
             \/ retried[t] < MaxRetry /\ n = retried[t] + 1 /\ Retry(t, n, err)
             \/ retried[t] >= MaxRetry /\ Archive(t, err)
      PROVE  [Promise!Next]_Promise!vars
  <2>1. Status(t) = "open"
    BY <1>5 DEF Status
  <2>2. MaxRetry \in Nat /\ retried[t] \in 0..MaxRetry /\ DOMAIN retried = Tasks
    BY TaskAssumption DEF Inv, TypeOK
  <2>3. CASE n = retried[t] /\ Retry(t, n, err)
    <3>1. retried' = retried
      BY <2>2, <2>3 DEF Inv, TypeOK, Retry
    <3>2. QED
      BY <1>1, <2>1, <2>3, <3>1, MoveMaps DEF Retry
  <2>4. CASE retried[t] < MaxRetry /\ Retry(t, retried[t] + 1, err)
    <3>1. \A u \in Tasks : Status(u)' = Status(u)
      BY <2>1, <2>4, MoveMaps DEF Retry
    <3>2. retried' = [retried EXCEPT ![t] = @ + 1]
      BY <2>4 DEF Retry
    <3>3. Promise!Strike(t)
      BY <2>1, <2>4, <3>1, <3>2 DEF Promise!Strike
    <3>4. QED
      BY <3>3 DEF Promise!Next
  <2>5. CASE retried[t] >= MaxRetry /\ Archive(t, err)
    <3>1. /\ Status(t)' = "dead"
          /\ \A u \in Tasks \ {t} : Status(u)' = Status(u)
          /\ UNCHANGED retried
      BY <2>5, MoveMaps DEF Archive
    <3>2. Promise!Bury(t)
      BY <1>2, <2>1, <2>2, <2>5, <3>1 DEF Promise!Bury
    <3>3. QED
      BY <3>2 DEF Promise!Next
  <2>6. QED
    BY <1>5, <2>3, <2>4, <2>5
<1>6. ASSUME NEW w \in Workers, NEW t \in Tasks, Dequeue(w, t) PROVE UNCHANGED Promise!vars
  <2>1. Status(t) = "open"
    BY <1>6 DEF Dequeue, Status
  <2>2. QED
    BY <1>1, <1>6, <2>1, MoveMaps DEF Dequeue
<1>7. ASSUME NEW w \in Workers, NEW t \in Tasks, Abort(w, t) PROVE UNCHANGED Promise!vars
  <2>1. CASE Holds(w, t)
    <3>1. Status(t) = "open"
      BY <2>1 DEF Holds, Status
    <3>2. QED
      BY <1>1, <1>7, <2>1, <3>1, MoveMaps DEF Abort
  <2>2. CASE ~Holds(w, t)
    BY <1>7, <2>2 DEF Abort, Promise!vars, Status
  <2>3. QED
    BY <2>1, <2>2
<1>8. ASSUME NEW w \in Workers, NEW t \in Tasks, Report(w, t)
      PROVE  [Promise!Next]_Promise!vars
  <2>1. CASE Holds(w, t) /\ Succeeded(w, t)
    <3>1. /\ Status(t) = "open" /\ Status(t)' = "done"
          /\ \A u \in Tasks \ {t} : Status(u)' = Status(u)
          /\ UNCHANGED retried
      <4>1. Status(t) = "open"
        BY <2>1 DEF Holds, Status
      <4>2. QED
        BY <2>1, <4>1, MoveMaps DEF Succeeded
    <3>2. Promise!Finish(t)
      BY <1>2, <3>1 DEF Promise!Finish
    <3>3. QED
      BY <3>2 DEF Promise!Next
  <2>2. CASE Holds(w, t) /\ Failed(w, t)
    <3>1. run[w].retried = retried[t] /\ place[t] = "active"
      BY <1>8, <2>2 DEF Report, Holds, Holding, Inv, CountIsFresh
    <3>2. QED
      BY <1>5, <2>2, <3>1 DEF Failed
  <2>3. CASE UNCHANGED <<place, retried>>
    BY <2>3 DEF Promise!vars, Status
  <2>4. QED
    BY <1>8, <2>1, <2>2, <2>3 DEF Report
<1>9. ASSUME NEW t \in Tasks, Recover(t) PROVE [Promise!Next]_Promise!vars
  BY <1>5, <1>9 DEF Recover, CountAfter
<1>10. ASSUME NEW q \in Queues, Replay(q) PROVE Promise!Reopen(Archived(q))
  <2>1. \A t \in Tasks : Status(t)' = IF t \in Archived(q) THEN "open" ELSE Status(t)
    BY <1>10 DEF Replay, Status, Archived
  <2>2. \A t \in Archived(q) : t \in Tasks /\ Status(t) = "dead"
    BY DEF Archived, Status
  <2>3. UNCHANGED retried
    BY <1>10 DEF Replay
  <2>4. QED
    BY <2>1, <2>2, <2>3 DEF Promise!Reopen
<1>11. ASSUME NEW q \in Queues, Replay(q) PROVE Promise!Next
  <2>1. Archived(q) \in SUBSET Tasks
    BY DEF Archived
  <2>2. QED
    BY <1>10, <1>11, <2>1 DEF Promise!Next
<1>12. ASSUME UNCHANGED <<place, retried>> PROVE UNCHANGED Promise!vars
  BY <1>12 DEF Promise!vars, Status
<1>13. QED
  <2>1. CASE UNCHANGED vars
    BY <1>12, <2>1 DEF vars
  <2>2. ASSUME NEW t \in Tasks, Submit(t) PROVE Promise!Next
    BY <1>3, <2>2 DEF Promise!Next
  <2>3. ASSUME NEW w \in Workers, NEW t \in Tasks, NEW v \in Verdicts, HandlerReturns(w, t, v)
        PROVE  UNCHANGED Promise!vars
    BY <1>12, <2>3 DEF HandlerReturns
  <2>4. ASSUME NEW w \in Workers, Crash(w) \/ LeaseLapses(w) PROVE UNCHANGED Promise!vars
    BY <1>12, <2>4 DEF Crash, LeaseLapses
  <2>5. QED
    BY <1>4, <1>6, <1>7, <1>8, <1>9, <1>11, <2>1, <2>2, <2>3, <2>4 DEF Next

(* The worker keeps the queue's promise: a submitted task is open until it  *)
(* is done or, with its retries used up, dead; only a replay reopens it.    *)
THEOREM PromiseIsKept == Spec => KeepsPromise
<1>1. Init => Promise!Init
  BY DEF Init, Status, Promise!Init
<1>2. QED
  BY <1>1, StepMaps, InvAlways, PTL DEF Spec, KeepsPromise, Promise!Spec
=============================================================================
