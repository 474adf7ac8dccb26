---------------------------- MODULE EnqueueProofs ----------------------------
(***************************************************************************)
(* Theorems about the submission handlers for any set of requests, keys,   *)
(* inputs and options: at most one task per life of an idempotency key.    *)
(***************************************************************************)
EXTENDS EnqueueAPI, TLAPS

(* The theorems about the manager, for the requests as its callers. *)
Manager == INSTANCE IdempotencyProofs WITH
  Callers <- Requests,
  TaskIDs <- Requests \cup {NoID},
  TTLs <- {IdempotencyTTL},
  DefaultTTL <- IdempotencyTTL

(* The manager's assumptions hold of the handlers' constants. *)
LEMMA ManagerAssumption == Idem!IdempotencyAssumption
  BY EnqueueAssumption DEF Idem!IdempotencyAssumption

(* Idem and Manager instance the same module: their definitions agree. *)
LEMMA SameType == Idem!TypeOK <=> Manager!TypeOK
  BY DEF Idem!TypeOK, Manager!TypeOK, Idem!Steps, Manager!Steps,
         Idem!ResultKinds, Manager!ResultKinds, Idem!Call, Manager!Call,
         Idem!NoCall, Manager!NoCall

LEMMA SameNext == Idem!Next <=> Manager!Next
  BY DEF Idem!Next, Manager!Next, Idem!Step, Manager!Step,
         Idem!CheckOrSet, Manager!CheckOrSet, Idem!SetNX, Manager!SetNX,
         Idem!GetKey, Manager!GetKey, Idem!SetNXAgain, Manager!SetNXAgain,
         Idem!RedisError, Manager!RedisError, Idem!ResendSetNX, Manager!ResendSetNX,
         Idem!Unheard, Manager!Unheard, Idem!GivenUp, Manager!GivenUp,
         Idem!LateSetNX, Manager!LateSetNX, Idem!Put, Manager!Put,
         Idem!Return, Manager!Return, Idem!Expire, Manager!Expire,
         Idem!Delete, Manager!Delete, Idem!Remove, Manager!Remove,
         Idem!Create, Manager!Create, Idem!Taken, Manager!Taken,
         Idem!Record, Manager!Record, Idem!Answer, Manager!Answer,
         Idem!Continue, Manager!Continue, Idem!Setting, Manager!Setting,
         Idem!Key, Manager!Key, Idem!Result, Manager!Result,
         Idem!NoResult, Manager!NoResult, Idem!EffectiveTTL, Manager!EffectiveTTL

(* Every step of the manager keeps its types. *)
LEMMA ManagerType == Idem!TypeOK /\ [Idem!Next]_idemVars => Idem!TypeOK'
<1>1. Idem!TypeOK' <=> Manager!TypeOK'
  BY SameType, PTL
<1>2. Manager!IdempotencyAssumption
  BY EnqueueAssumption DEF Manager!IdempotencyAssumption
<1>3. Manager!TypeOK /\ [Manager!Next]_Manager!idemVars => Manager!TypeOK'
  BY <1>2, Manager!NextType
<1>4. QED
  BY <1>1, <1>3, SameType, SameNext DEF idemVars, Manager!idemVars

-----------------------------------------------------------------------------
(* A well-formed input has fields of the right kind. *)
LEMMA InputFields ==
  ASSUME NEW in \in Inputs
  PROVE  /\ in.route \in {"enqueue", "orders"}
         /\ in.key # Unset => in.key \in Keys
  BY EnqueueAssumption DEF Input

(* Every step of a handler is a step of the manager, or leaves it alone. *)
LEMMA ManagerStep == TypeOK /\ [Next]_vars => [Idem!Next]_idemVars
<1> SUFFICES ASSUME TypeOK, [Next]_vars PROVE [Idem!Next]_idemVars
  OBVIOUS
<1>1. ASSUME NEW r \in Requests, NEW k \in Keys, NEW id \in Requests \cup {NoID},
             CheckOrSet(r, k, id)
      PROVE  Idem!Next
  BY <1>1 DEF CheckOrSet, Idem!Next
<1>2. ASSUME NEW r \in Requests, NEW in \in Inputs, Receive(r, in)
      PROVE  [Idem!Next]_idemVars
  BY <1>1, <1>2, InputFields DEF Receive, Reject, Accept
<1>3. ASSUME NEW r \in Requests, EnqueueNow(r) PROVE [Idem!Next]_idemVars
  <2>1. input[r] \in Inputs
    BY <1>3 DEF EnqueueNow, TypeOK
  <2>2. HasKey(r) => input[r].key \in Keys
    BY <2>1, InputFields DEF HasKey
  <2>3. QED
    BY <1>1, <1>3, <2>2 DEF EnqueueNow, Enqueued, NotEnqueued
<1>4. ASSUME NEW r \in Requests, Command(r) \/ Checked(r) \/ Updated(r)
      PROVE  Idem!Next
  BY <1>4 DEF Command, Checked, Updated, Idem!Next
<1>7. ASSUME NEW r \in Requests, Die(r) PROVE [Idem!Next]_idemVars
  BY <1>7 DEF Die, Idem!ResendSetNX, Idem!Step, Idem!Next
<1>8. ASSUME NEW cmd \in stray, LateSetNX(cmd) PROVE Idem!Next
  BY <1>8 DEF LateSetNX, Idem!Next
<1>5. ASSUME NEW k \in Keys, Expire(k) PROVE Idem!Next
  BY <1>5 DEF Expire, Idem!Next
<1>6. QED
  BY <1>2, <1>3, <1>4, <1>5, <1>7, <1>8 DEF Next, Handle, Replied, vars, idemVars

(* What one command of a handler's CheckOrSet does: a key that is there     *)
(* keeps its value, other requests' calls are left alone, and "new" is      *)
(* answered only by creating a key that was not there.                      *)
LEMMA CommandFacts ==
  ASSUME TypeOK, NEW r \in Requests, pc[r] \in {"check", "update"}, Idem!Step(r)
  PROVE  /\ \A k \in Keys : store[k] # Absent => store'[k] = store[k]
         /\ \A s \in Requests \ {r} : at'[s] = at[s] /\ res'[s] = res[s]
         /\ ToldNew(r) => store[input[r].key] = Absent /\ store'[input[r].key] # Absent
         /\ at'[r] # "idle"
         /\ arg' = arg
<1> DEFINE key == input[r].key
<1>1. /\ Idem!Key(r) = key
      /\ key \in Keys
      /\ arg[r].id \in Requests \cup {NoID}
      /\ at[r] # "idle"
      /\ store \in [Keys -> Requests \cup {NoID, Absent}]
      /\ at \in [Requests -> Idem!Steps]
      /\ DOMAIN res = Requests
  <2>1. arg[r] \in Idem!Call
    BY DEF TypeOK, Idem!TypeOK
  <2>2. /\ store \in [Keys -> Requests \cup {NoID, Absent}]
        /\ at \in [Requests -> Idem!Steps]
        /\ DOMAIN res = Requests
    BY DEF TypeOK, Idem!TypeOK
  <2>3. arg[r].key = key /\ at[r] # "idle"
    BY DEF TypeOK
  <2>4. key \in Keys /\ arg[r].id \in Requests \cup {NoID}
    BY <2>1, <2>3 DEF Idem!Call
  <2> HIDE DEF key
  <2>5. QED
    BY <2>2, <2>3, <2>4 DEF Idem!Key
<1>2. ASSUME Idem!Create(r)
      PROVE  /\ \A k \in Keys : store[k] # Absent => store'[k] = store[k]
             /\ store[key] = Absent
             /\ store'[key] # Absent
  <2>1. store[key] = Absent
    BY <1>1, <1>2 DEF Idem!Create, Idem!Put, Idem!Key
  <2>2. store' = [store EXCEPT ![key] = arg[r].id]
    BY <1>1, <1>2 DEF Idem!Create, Idem!Put, Idem!Key
  <2>3. key \in Keys /\ arg[r].id # Absent
    BY <1>1, EnqueueAssumption
  <2> HIDE DEF key
  <2>4. QED
    BY <1>1, <2>1, <2>2, <2>3
<1>3. ASSUME NEW kind, NEW id, Idem!Answer(r, kind, id)
      PROVE  /\ \A s \in Requests \ {r} : at'[s] = at[s] /\ res'[s] = res[s]
             /\ at'[r] = "done"
             /\ res'[r].kind = kind
             /\ arg' = arg
  BY <1>1, <1>3 DEF Idem!Answer, Idem!Result
<1>4. ASSUME NEW step \in {"get", "setnx again"}, Idem!Continue(r, step)
      PROVE  /\ \A s \in Requests \ {r} : at'[s] = at[s] /\ res'[s] = res[s]
             /\ at'[r] = step
             /\ arg' = arg
  BY <1>1, <1>4 DEF Idem!Continue
<1> HIDE DEF key
<1>5. CASE Idem!SetNX(r)
  BY <1>2, <1>3, <1>4, <1>5 DEF Idem!SetNX, Idem!Taken, ToldNew, key
<1>6. CASE Idem!GetKey(r)
  <2>1. store' = store
    BY <1>6 DEF Idem!GetKey
  <2>2. CASE Idem!Answer(r, "existing", store[Idem!Key(r)])
    BY <1>3, <2>1, <2>2 DEF ToldNew
  <2>3. CASE Idem!Continue(r, "setnx again")
    BY <1>4, <2>1, <2>3 DEF ToldNew
  <2>4. QED
    BY <1>6, <2>2, <2>3 DEF Idem!GetKey
<1>7. CASE Idem!SetNXAgain(r)
  <2>1. CASE Idem!Create(r) /\ Idem!Answer(r, "new", Absent)
    BY <1>2, <1>3, <2>1 DEF key
  <2>2. CASE store' = store /\ Idem!Answer(r, "existing", Unknown)
    BY <1>3, <2>2 DEF ToldNew
  <2>3. QED
    BY <1>7, <2>1, <2>2 DEF Idem!SetNXAgain, Idem!Taken
<1>8. CASE Idem!RedisError(r)
  BY <1>2, <1>3, <1>8 DEF Idem!RedisError, Idem!Unheard, Idem!GivenUp, ToldNew, key
<1>9. CASE Idem!ResendSetNX(r)
  BY <1>1, <1>2, <1>9
  DEF Idem!ResendSetNX, Idem!Unheard, Idem!GivenUp, Idem!Setting, ToldNew, key
<1>10. QED
  BY <1>5, <1>6, <1>7, <1>8, <1>9 DEF Idem!Step

(* A handler that dies takes nothing from the store.                        *)
LEMMA DieFacts ==
  ASSUME NEW r \in Requests, Die(r)
  PROVE  UNCHANGED <<store, at, arg, res, input, reply, created, life, won>>
  BY DEF Die, idemVars, Idem!GivenUp

(* A SETNX that comes late creates a key for nobody, and does nothing else. *)
LEMMA LateFacts ==
  ASSUME TypeOK, NEW cmd \in stray, LateSetNX(cmd)
  PROVE  /\ cmd.key \in Keys
         /\ store[cmd.key] = Absent /\ store'[cmd.key] # Absent
         /\ \A k \in Keys \ {cmd.key} : store'[k] = store[k]
         /\ UNCHANGED <<at, arg, res, pc, input, reply, created, life, won>>
<1>1. cmd \in Idem!Call /\ store \in [Keys -> Requests \cup {NoID, Absent}]
  BY DEF TypeOK, Idem!TypeOK
<1>2. cmd.key \in Keys /\ cmd.id # Absent
  BY <1>1, EnqueueAssumption DEF Idem!Call
<1>3. QED
  BY <1>1, <1>2 DEF LateSetNX, Idem!LateSetNX, Idem!Put

-----------------------------------------------------------------------------
(* A task and its key depend only on what its client sent. *)
LEMMA SameInput ==
  ASSUME NEW r \in Requests, input'[r] = input[r]
  PROVE  Task(r)' = Task(r) /\ HasKey(r)' = HasKey(r)
  BY DEF Task, Options, HasKey

(* A task of a request, whatever its options, bears the request's name. *)
LEMMA TaskName == \A r \in Requests : Task(r).id = r
  BY DEF Task

(* The part of TypeOK that is the handlers' own. *)
HandlerType ==
  /\ pc \in [Requests -> Labels]
  /\ input \in [Requests -> Inputs \cup {NoInput}]
  /\ \A r \in Requests : pc[r] # "idle" => input[r] \in Inputs
  /\ reply \in [Requests -> [status : Statuses, id : Requests \cup {NoID, Absent, Unknown}]]
  /\ life \in [Keys -> Nat]
  /\ won \in [Requests -> Nat \cup {NoLife}]

TasksType ==
  \A t \in created :
    t.id \in Requests /\ t = Task(t.id) /\ pc[t.id] \in {"update", "reply", "done", "dead"}

CallsType ==
  \A r \in Requests :
    /\ pc[r] \in {"idle", "enqueue", "reply", "done"} => at[r] = "idle"
    /\ pc[r] \in {"check", "update"} => at[r] # "idle" /\ HasKey(r) /\ arg[r].key = input[r].key

LEMMA TypeParts == TypeOK <=> Idem!TypeOK /\ HandlerType /\ TasksType /\ CallsType
  BY DEF TypeOK, HandlerType, TasksType, CallsType

LEMMA InitType == Init => TypeOK
<1> SUFFICES ASSUME Init PROVE TypeOK
  OBVIOUS
<1>1. Idem!TypeOK
  <2>1. Manager!IdempotencyAssumption
    BY EnqueueAssumption DEF Manager!IdempotencyAssumption
  <2>2. Idem!Init
    BY DEF Init
  <2>3. QED
    BY <2>1, <2>2, Manager!InitType, SameType
    DEF Idem!Init, Manager!Init, Idem!NoCall, Manager!NoCall, Idem!NoResult, Manager!NoResult,
        Idem!Result, Manager!Result
<1>2. HandlerType
  BY DEF Init, HandlerType, Labels, Running, Statuses, NoReply, Reply, NoLife
<1>3. TasksType /\ CallsType
  BY DEF Init, Idem!Init, TasksType, CallsType
<1>4. QED
  BY <1>1, <1>2, <1>3, TypeParts

(* The answers of the manager that a handler passes on. *)
LEMMA ResultType ==
  ASSUME TypeOK, NEW r \in Requests
  PROVE  res[r].id \in Requests \cup {NoID, Absent, Unknown}
  BY DEF TypeOK, Idem!TypeOK

(* What the calls of the manager do to the call of request r and of others. *)
LEMMA CallMoves ==
  ASSUME TypeOK, NEW r \in Requests
  PROVE  /\ \A k, id : CheckOrSet(r, k, id) =>
              /\ at'[r] # "idle"
              /\ arg'[r].key = k
              /\ \A s \in Requests \ {r} : at'[s] = at[s] /\ arg'[s] = arg[s]
         /\ Idem!Return(r) =>
              /\ at'[r] = "idle"
              /\ arg' = arg
              /\ \A s \in Requests \ {r} : at'[s] = at[s]
<1>1. DOMAIN at = Requests /\ DOMAIN arg = Requests
  BY DEF TypeOK, Idem!TypeOK
<1>2. QED
  BY <1>1 DEF CheckOrSet, Idem!CheckOrSet, Idem!Return

(* Every step keeps the handlers' own types. *)
LEMMA NextHandlerType == TypeOK /\ [Next]_vars => HandlerType'
<1> SUFFICES ASSUME TypeOK, [Next]_vars PROVE HandlerType'
  OBVIOUS
<1>0. HandlerType
  BY TypeParts
<1> USE DEF HandlerType
<1>1. ASSUME NEW r \in Requests, NEW status \in Statuses,
             NEW id \in Requests \cup {NoID, Absent, Unknown}, Answer(r, status, id)
      PROVE  /\ pc' \in [Requests -> Labels]
             /\ reply' \in [Requests -> [status : Statuses, id : Requests \cup {NoID, Absent, Unknown}]]
             /\ \A s \in Requests : pc'[s] # "idle" => s = r \/ pc[s] # "idle"
  BY <1>0, <1>1 DEF Answer, Goto, Reply, Labels, Running
<1>2. ASSUME NEW r \in Requests, NEW label \in Labels, Goto(r, label)
      PROVE  /\ pc' \in [Requests -> Labels]
             /\ \A s \in Requests : pc'[s] # "idle" => s = r \/ pc[s] # "idle"
  BY <1>0, <1>2 DEF Goto
<1>3. ASSUME NEW r \in Requests, NEW in \in Inputs, Receive(r, in) PROVE HandlerType'
  <2>1. /\ input' \in [Requests -> Inputs \cup {NoInput}]
        /\ input'[r] = in
        /\ \A s \in Requests \ {r} : input'[s] = input[s]
        /\ UNCHANGED <<life, won>>
    BY <1>0, <1>3 DEF Receive
  <2>2. CASE Reject(r, in)
    BY <1>0, <1>1, <2>1, <2>2 DEF Reject, Statuses
  <2>3. CASE Accept(r, in)
    BY <1>0, <1>2, <2>1, <2>3 DEF Accept, Labels, Running
  <2>4. QED
    BY <1>3, <2>2, <2>3 DEF Receive
<1>4. ASSUME NEW r \in Requests, Command(r) PROVE HandlerType'
  <2>1. pc[r] = "check" => life[input[r].key] \in Nat
    <3>1. pc[r] = "check" => input[r] \in Inputs /\ HasKey(r)
      BY <1>0, TypeParts DEF CallsType
    <3>2. QED
      BY <1>0, <3>1, InputFields DEF HasKey
  <2>2. won' \in [Requests -> Nat \cup {NoLife}]
    BY <1>0, <1>4, <2>1 DEF Command
  <2>3. QED
    BY <1>0, <1>4, <2>2 DEF Command
<1>5. ASSUME NEW r \in Requests, Checked(r) PROVE HandlerType'
  <2>1. CASE Answer(r, "internal error", NoID)
    BY <1>0, <1>1, <1>5, <2>1 DEF Checked, Statuses
  <2>2. CASE Answer(r, "existing", res[r].id)
    BY <1>0, <1>1, <1>5, <2>2, ResultType DEF Checked, Statuses
  <2>3. CASE Goto(r, "enqueue") /\ UNCHANGED reply
    BY <1>0, <1>2, <1>5, <2>3 DEF Checked, Labels, Running
  <2>4. QED
    BY <1>5, <2>1, <2>2, <2>3 DEF Checked
<1>6. ASSUME NEW r \in Requests, EnqueueNow(r) PROVE HandlerType'
  <2>1. CASE Enqueued(r)
    <3>1. \E label \in {"update", "reply"} : Goto(r, label) /\ UNCHANGED reply
      BY <2>1 DEF Enqueued
    <3>2. QED
      BY <1>0, <1>2, <1>6, <3>1 DEF EnqueueNow, Labels, Running
  <2>2. CASE NotEnqueued(r)
    <3>1. Failure(r) \in Statuses
      BY DEF Failure, Statuses
    <3>2. QED
      BY <1>0, <1>1, <1>6, <2>2, <3>1 DEF EnqueueNow, NotEnqueued
  <2>3. QED
    BY <1>6, <2>1, <2>2 DEF EnqueueNow
<1>7. ASSUME NEW r \in Requests, Updated(r) \/ Replied(r) PROVE HandlerType'
  BY <1>0, <1>1, <1>7 DEF Updated, Replied, Statuses
<1>8. ASSUME NEW r \in Requests, Die(r) PROVE HandlerType'
  BY <1>0, <1>2, <1>8, DieFacts DEF Die, Labels, Running
<1>9. ASSUME NEW k \in Keys, Expire(k) PROVE HandlerType'
  BY <1>0, <1>9 DEF Expire
<1>12. ASSUME NEW cmd \in stray, LateSetNX(cmd) PROVE HandlerType'
  BY <1>0, <1>12 DEF LateSetNX
<1>10. CASE UNCHANGED vars
  BY <1>0, <1>10 DEF vars
<1>11. QED
  BY <1>3, <1>4, <1>5, <1>6, <1>7, <1>8, <1>9, <1>10, <1>12 DEF Next, Handle

(* Every step keeps the tasks those of their requests. *)
LEMMA NextTasksType == TypeOK /\ [Next]_vars => TasksType'
<1> SUFFICES ASSUME TypeOK, [Next]_vars PROVE TasksType'
  OBVIOUS
<1>0. HandlerType /\ TasksType
  BY TypeParts
<1>1. ASSUME UNCHANGED <<input, created>>, NEW r \in Requests,
             \A s \in Requests \ {r} : pc'[s] = pc[s],
             pc'[r] \in {"update", "reply", "done", "dead", pc[r]} \/ pc[r] \in {"check", "enqueue"}
      PROVE  TasksType'
  BY <1>0, <1>1, SameInput DEF TasksType
<1>2. ASSUME NEW r \in Requests, NEW label, Goto(r, label)
      PROVE  pc'[r] = label /\ \A s \in Requests \ {r} : pc'[s] = pc[s]
  BY <1>0, <1>2 DEF Goto, HandlerType
<1>3. ASSUME NEW r \in Requests, NEW in \in Inputs, Receive(r, in) PROVE TasksType'
  <2>1. \A s \in Requests \ {r} : input'[s] = input[s] /\ pc'[s] = pc[s]
    <3>1. \A s \in Requests \ {r} : input'[s] = input[s]
      BY <1>0, <1>3 DEF Receive, HandlerType
    <3>2. \A s \in Requests \ {r} : pc'[s] = pc[s]
      BY <1>2, <1>3 DEF Receive, Reject, Accept, Answer
    <3>3. QED
      BY <3>1, <3>2
  <2>2. pc[r] = "idle" /\ created' = created
    BY <1>3 DEF Receive
  <2>3. QED
    BY <1>0, <2>1, <2>2, SameInput DEF TasksType
<1>4. ASSUME NEW r \in Requests, Command(r) PROVE TasksType'
  BY <1>1, <1>4 DEF Command
<1>5. ASSUME NEW r \in Requests, Checked(r) PROVE TasksType'
  BY <1>1, <1>2, <1>5 DEF Checked, Answer
<1>6. ASSUME NEW r \in Requests, EnqueueNow(r) PROVE TasksType'
  <2>1. /\ pc'[r] \in {"update", "reply", "done"}
        /\ \A s \in Requests \ {r} : pc'[s] = pc[s]
    BY <1>2, <1>6 DEF EnqueueNow, Enqueued, NotEnqueued, Answer
  <2>2. created' \in {created, created \cup {Task(r)}}
    BY <1>6 DEF EnqueueNow, Enqueued, NotEnqueued, Create
  <2>3. input' = input
    BY <1>6 DEF EnqueueNow
  <2>4. QED
    BY <1>0, <2>1, <2>2, <2>3, SameInput, TaskName DEF TasksType
<1>7. ASSUME NEW r \in Requests, Updated(r) \/ Replied(r) PROVE TasksType'
  BY <1>1, <1>2, <1>7 DEF Updated, Replied, Answer
<1>8. ASSUME NEW r \in Requests, Die(r) PROVE TasksType'
  BY <1>1, <1>2, <1>8 DEF Die
<1>9. ASSUME UNCHANGED <<pc, input, created>> PROVE TasksType'
  BY <1>0, <1>9, SameInput DEF TasksType
<1>10. QED
  BY <1>3, <1>4, <1>5, <1>6, <1>7, <1>8, <1>9 DEF Next, Handle, Expire, LateSetNX, vars

(* Every step keeps a handler's place and its call of the manager in tune. *)
LEMMA NextCallsType == TypeOK /\ [Next]_vars => CallsType'
<1> SUFFICES ASSUME TypeOK, [Next]_vars PROVE CallsType'
  OBVIOUS
<1>0. HandlerType /\ CallsType
  BY TypeParts
<1>1. ASSUME NEW r \in Requests, NEW label, Goto(r, label)
      PROVE  pc'[r] = label /\ \A s \in Requests \ {r} : pc'[s] = pc[s]
  BY <1>0, <1>1 DEF Goto, HandlerType
<1>2. ASSUME NEW r \in Requests,
             \A s \in Requests \ {r} : /\ pc'[s] = pc[s] /\ input'[s] = input[s]
                                       /\ at'[s] = at[s] /\ arg'[s] = arg[s],
             \/ pc'[r] \in {"enqueue", "reply", "done"} /\ at'[r] = "idle"
             \/ pc'[r] = "dead"
             \/ /\ pc'[r] \in {"check", "update"} /\ at'[r] # "idle"
                /\ HasKey(r)' /\ arg'[r].key = input'[r].key
      PROVE  CallsType'
  BY <1>0, <1>2, SameInput DEF CallsType
<1>3. ASSUME NEW r \in Requests, NEW in \in Inputs, Receive(r, in) PROVE CallsType'
  <2>1. /\ at[r] = "idle"
        /\ input'[r] = in
        /\ \A s \in Requests \ {r} : input'[s] = input[s]
    BY <1>0, <1>3 DEF Receive, CallsType, HandlerType
  <2>2. CASE Answer(r, "bad request", NoID) /\ UNCHANGED idemVars
    BY <1>1, <1>2, <2>1, <2>2 DEF Answer, idemVars
  <2>3. CASE Goto(r, "enqueue") /\ UNCHANGED idemVars
    BY <1>1, <1>2, <2>1, <2>3 DEF idemVars
  <2>4. CASE /\ in.route = "enqueue"
             /\ in.key # Unset
             /\ CheckOrSet(r, in.key, NoID)
             /\ Goto(r, "check")
    <3>1. HasKey(r)'
      BY <2>1, <2>4 DEF HasKey
    <3>2. QED
      BY <1>1, <1>2, <2>1, <2>4, <3>1, CallMoves
  <2>5. QED
    BY <1>3, <2>2, <2>3, <2>4 DEF Receive, Reject, Accept
<1>4. ASSUME NEW r \in Requests, Command(r) PROVE CallsType'
  <2>1. /\ pc[r] \in {"check", "update"}
        /\ Idem!Step(r)
        /\ UNCHANGED <<pc, input>>
    BY <1>4 DEF Command
  <2>2. HasKey(r) /\ arg[r].key = input[r].key
    BY <1>0, <2>1 DEF CallsType
  <2>3. QED
    BY <1>2, <2>1, <2>2, CommandFacts, SameInput
<1>5. ASSUME NEW r \in Requests, Checked(r) PROVE CallsType'
  <2>1. Idem!Return(r) /\ UNCHANGED input
    BY <1>5 DEF Checked
  <2>2. /\ pc'[r] \in {"enqueue", "done"}
        /\ \A s \in Requests \ {r} : pc'[s] = pc[s]
    BY <1>1, <1>5 DEF Checked, Answer
  <2>3. QED
    BY <1>2, <2>1, <2>2, CallMoves
<1>6. ASSUME NEW r \in Requests, EnqueueNow(r) PROVE CallsType'
  <2>1. UNCHANGED input /\ at[r] = "idle"
    BY <1>0, <1>6 DEF EnqueueNow, CallsType
  <2>2. CASE Goto(r, "update") /\ HasKey(r) /\ CheckOrSet(r, input[r].key, r)
    BY <1>1, <1>2, <2>1, <2>2, CallMoves, SameInput
  <2>3. CASE UNCHANGED idemVars /\ (Goto(r, "reply") \/ \E status, id : Answer(r, status, id))
    BY <1>1, <1>2, <2>1, <2>3 DEF Answer, idemVars
  <2>4. QED
    BY <1>6, <2>2, <2>3 DEF EnqueueNow, Enqueued, NotEnqueued
<1>7. ASSUME NEW r \in Requests, Updated(r) PROVE CallsType'
  <2>1. Idem!Return(r) /\ UNCHANGED input
    BY <1>7 DEF Updated
  <2>2. /\ pc'[r] = "done"
        /\ \A s \in Requests \ {r} : pc'[s] = pc[s]
    BY <1>1, <1>7 DEF Updated, Answer
  <2>3. QED
    BY <1>2, <2>1, <2>2, CallMoves
<1>8. ASSUME NEW r \in Requests, Die(r) PROVE CallsType'
  BY <1>1, <1>2, <1>8, DieFacts DEF Die
<1>11. ASSUME NEW r \in Requests, Replied(r) PROVE CallsType'
  <2>1. at[r] = "idle"
    BY <1>0, <1>11 DEF Replied, CallsType
  <2>2. QED
    BY <1>1, <1>2, <1>11, <2>1 DEF Replied, Answer, idemVars
<1>9. ASSUME UNCHANGED <<pc, input, at, arg>> PROVE CallsType'
  BY <1>0, <1>9, SameInput DEF CallsType
<1>10. QED
  BY <1>3, <1>4, <1>5, <1>6, <1>7, <1>8, <1>9, <1>11
  DEF Next, Handle, Expire, LateSetNX, Idem!LateSetNX, Idem!Expire, Idem!Remove, vars

(* Types, and the calls of the manager that a handler's place allows, in    *)
(* every reachable state.                                                   *)
THEOREM TypeCorrect == Spec => []TypeOK
<1>1. TypeOK /\ [Next]_vars => TypeOK'
  <2> SUFFICES ASSUME TypeOK, [Next]_vars PROVE TypeOK'
    OBVIOUS
  <2>1. Idem!TypeOK'
    BY TypeParts, ManagerStep, ManagerType
  <2>2. QED
    BY <2>1, NextHandlerType, NextTasksType, NextCallsType
    DEF TypeOK, HandlerType, TasksType, CallsType
<1>2. QED
  BY <1>1, InitType, PTL DEF Spec

(* The handlers use the manager as its own specification allows: one call   *)
(* at a time per request, and the keys are touched by nothing else.         *)
THEOREM UsesManager == Spec => Idem!Spec
<1>1. Init => Idem!Init
  BY DEF Init
<1>2. QED
  BY <1>1, ManagerStep, TypeCorrect, PTL DEF Spec, Idem!Spec, Idem!idemVars, idemVars

(* What IdempotencyProofs shows of the manager thus holds of its use here.  *)
LEMMA ManagerSpec == Spec => Manager!Spec
<1>1. Idem!Init => Manager!Init
  BY DEF Idem!Init, Manager!Init, Idem!NoCall, Manager!NoCall, Idem!NoResult, Manager!NoResult,
         Idem!Result, Manager!Result
<1>2. [Idem!Next]_Idem!idemVars => [Manager!Next]_Manager!idemVars
  BY SameNext DEF Idem!idemVars, Manager!idemVars
<1>3. QED
  BY <1>1, <1>2, UsesManager, PTL DEF Idem!Spec, Manager!Spec

(* Of all requests that race for a key at most one is told in a life of the *)
(* key that it is new.                                                      *)
THEOREM OneRequestIsNew == Spec => []Idem!OneWinner
<1>1. Manager!IdempotencyAssumption
  BY EnqueueAssumption DEF Manager!IdempotencyAssumption
<1>2. Manager!Spec => []Manager!OneWinner
  BY <1>1, Manager!WinnerIsUnique
<1>3. Manager!OneWinner => Idem!OneWinner
  BY DEF Manager!OneWinner, Idem!OneWinner
<1>4. QED
  BY <1>2, <1>3, ManagerSpec, PTL

(* No step of a handler replaces the value under a key that is taken, the   *)
(* second CheckOrSet with the task's identifier included.                   *)
THEOREM ValuesStay == Spec => Idem!NeverOverwritten
<1>1. Manager!IdempotencyAssumption
  BY EnqueueAssumption DEF Manager!IdempotencyAssumption
<1>2. Manager!Spec => Manager!NeverOverwritten
  BY <1>1, Manager!ValuesAreKept
<1>3. [\A k \in Keys : store[k] # Absent => store'[k] \in {store[k], Absent}]_Manager!idemVars
        => [\A k \in Keys : store[k] # Absent => store'[k] \in {store[k], Absent}]_Idem!idemVars
  BY DEF Manager!idemVars, Idem!idemVars
<1>4. QED
  BY <1>2, <1>3, ManagerSpec, PTL DEF Manager!NeverOverwritten, Idem!NeverOverwritten

(* A key that a failed or dead submission leaves behind is not lost for     *)
(* good: with a positive IDEMPOTENCY_TTL it carries a TTL.                  *)
THEOREM RequestKeysEnd == Spec => []Idem!KeysCarryTTL
<1>1. Manager!IdempotencyAssumption
  BY EnqueueAssumption DEF Manager!IdempotencyAssumption
<1>2. Manager!Spec => []Manager!KeysCarryTTL
  BY <1>1, Manager!KeysEnd
<1>3. Manager!KeysCarryTTL => Idem!KeysCarryTTL
  BY DEF Manager!KeysCarryTTL, Idem!KeysCarryTTL
<1>4. QED
  BY <1>2, <1>3, ManagerSpec, PTL

-----------------------------------------------------------------------------
(* Why at most one task is queued in one life of a key.  A request that     *)
(* claimed a life of its key holds a claim; OneTaskPerLife alone says       *)
(* nothing of a claim whose task is still to be queued, and nothing of the  *)
(* key, without which a second claim could not be ruled out.                *)
Claimed(r) == won[r] # NoLife

ClaimHeld ==
  \A r \in Requests : Claimed(r) =>
    /\ pc[r] # "idle"
    /\ HasKey(r)
    /\ won[r] <= life[input[r].key]
    /\ won[r] = life[input[r].key] => store[input[r].key] # Absent

ClaimsDiffer ==
  \A r, s \in Requests :
    Claimed(r) /\ Claimed(s) /\ input[r].key = input[s].key /\ won[r] = won[s] => r = s

ClaimNeeded ==
  /\ \A r \in Requests : pc[r] = "check" /\ at[r] = "done" /\ res[r].kind = "new" => Claimed(r)
  /\ \A r \in Requests : pc[r] \in {"enqueue", "update"} /\ HasKey(r) => Claimed(r)
  /\ \A t \in created : HasKey(t.id) => Claimed(t.id)

Claims == ClaimHeld /\ ClaimsDiffer /\ ClaimNeeded

LEMMA InitClaims == Init => Claims
  BY DEF Init, Idem!Init, Claims, ClaimHeld, ClaimsDiffer, ClaimNeeded, Claimed

(* A step that leaves the claims, the keys and the lives alone.             *)
LEMMA QuietStep ==
  ASSUME TypeOK, Claims,
         UNCHANGED <<won, life>>,
         \A k \in Keys : store[k] # Absent => store'[k] = store[k],
         \A r \in Requests : Claimed(r) => input'[r] = input[r] /\ pc'[r] # "idle"
  PROVE  ClaimHeld' /\ ClaimsDiffer'
<1>1. \A r \in Requests : Claimed(r)' = Claimed(r)
  BY DEF Claimed
<1>2. \A r \in Requests : Claimed(r) => input[r].key \in Keys
  <2>1. \A r \in Requests : Claimed(r) => input[r] \in Inputs /\ HasKey(r)
    BY DEF Claims, ClaimHeld, TypeOK
  <2>2. QED
    BY <2>1, InputFields DEF HasKey
<1>3. ClaimHeld'
  BY <1>1, <1>2, SameInput DEF Claims, ClaimHeld
<1>4. ClaimsDiffer'
  BY <1>1, <1>2 DEF Claims, ClaimsDiffer
<1>5. QED
  BY <1>3, <1>4

(* A step of request r that keeps what the others need.                     *)
LEMMA NeedsKept ==
  ASSUME TypeOK, Claims, NEW r \in Requests,
         won' = won,
         \A s \in Requests \ {r} :
           /\ pc'[s] = pc[s] /\ input'[s] = input[s]
           /\ at'[s] = at[s] /\ res'[s] = res[s],
         \A t \in created' : t \in created \/ t.id = r,
         pc'[r] = "check" => at'[r] # "done",
         HasKey(r)' /\ (pc'[r] \in {"enqueue", "update"} \/ \E t \in created' : t.id = r)
           => Claimed(r)
  PROVE  ClaimNeeded'
<1>1. \A s \in Requests : Claimed(s)' = Claimed(s)
  BY DEF Claimed
<1>2. \A s \in Requests \ {r} : HasKey(s)' = HasKey(s)
  BY SameInput
<1>3. \A t \in created : t.id \in Requests
  BY DEF TypeOK
<1>4. QED
  BY <1>1, <1>2, <1>3 DEF Claims, ClaimNeeded

(* The one step that makes a claim finds the key free, and so no claim to   *)
(* the life that now runs.                                                  *)
LEMMA CommandClaims ==
  ASSUME TypeOK, Claims, NEW r \in Requests, Command(r)
  PROVE  Claims'
<1> DEFINE key == input[r].key
<1>0. /\ HandlerType /\ TasksType /\ CallsType
      /\ pc[r] \in {"check", "update"}
      /\ Idem!Step(r)
      /\ UNCHANGED <<pc, input, reply, created, life>>
  BY TypeParts DEF Command
<1>1. /\ \A k \in Keys : store[k] # Absent => store'[k] = store[k]
      /\ \A s \in Requests \ {r} : at'[s] = at[s] /\ res'[s] = res[s]
      /\ ToldNew(r) => store[key] = Absent /\ store'[key] # Absent
  BY <1>0, CommandFacts
<1>2. HasKey(r) /\ key \in Keys /\ life[key] \in Nat
  <2>1. HasKey(r) /\ input[r] \in Inputs
    BY <1>0 DEF CallsType, HandlerType
  <2>2. QED
    BY <1>0, <2>1, InputFields DEF HasKey, HandlerType
<1>3. \A s \in Requests : Task(s)' = Task(s) /\ HasKey(s)' = HasKey(s)
  BY <1>0, SameInput
<1>4. CASE pc[r] = "check" /\ ToldNew(r)
  <2>1. /\ won'[r] = life[key]
        /\ \A s \in Requests \ {r} : won'[s] = won[s]
    BY <1>0, <1>4 DEF Command, HandlerType
  <2>2. \A s \in Requests : Claimed(s)' <=> s = r \/ Claimed(s)
    BY <1>2, <2>1 DEF Claimed, NoLife
  <2>3. \A s \in Requests : Claimed(s) /\ input[s].key = key => won[s] # life[key]
    BY <1>1, <1>4 DEF Claims, ClaimHeld
  <2>4. \A s \in Requests : Claimed(s) => input[s].key \in Keys
    <3>1. \A s \in Requests : Claimed(s) => input[s] \in Inputs /\ HasKey(s)
      BY <1>0 DEF Claims, ClaimHeld, HandlerType
    <3>2. QED
      BY <3>1, InputFields DEF HasKey
  <2>5. ClaimHeld'
    <3>1. \A s \in Requests \ {r} : Claimed(s) /\ won[s] = life[input[s].key]
            => store'[input[s].key] # Absent
      BY <1>1, <2>4 DEF Claims, ClaimHeld
    <3>2. QED
      BY <1>0, <1>1, <1>2, <1>3, <1>4, <2>1, <2>2, <3>1 DEF Claims, ClaimHeld
  <2>6. ClaimsDiffer'
    BY <1>0, <2>1, <2>2, <2>3 DEF Claims, ClaimsDiffer
  <2>7. ClaimNeeded'
    BY <1>0, <1>1, <1>3, <2>2 DEF Claims, ClaimNeeded, TasksType
  <2>8. QED
    BY <2>5, <2>6, <2>7 DEF Claims
<1>5. CASE ~(pc[r] = "check" /\ ToldNew(r))
  <2>1. won' = won
    BY <1>5 DEF Command
  <2>2. \A s \in Requests : Claimed(s)' = Claimed(s)
    BY <2>1 DEF Claimed
  <2>3. ClaimHeld' /\ ClaimsDiffer'
    BY <1>0, <1>1, <2>1, QuietStep DEF Claims, ClaimHeld
  <2>4. ClaimNeeded'
    BY <1>0, <1>1, <1>3, <1>5, <2>2 DEF Claims, ClaimNeeded, ToldNew, TasksType
  <2>5. QED
    BY <2>3, <2>4 DEF Claims
<1>6. QED
  BY <1>4, <1>5

(* Claims is inductive. *)
LEMMA NextClaims == TypeOK /\ Claims /\ [Next]_vars => Claims'
<1> SUFFICES ASSUME TypeOK, Claims, [Next]_vars PROVE Claims'
  OBVIOUS
<1>0. HandlerType /\ TasksType /\ CallsType
  BY TypeParts
<1>1. ASSUME NEW r \in Requests, NEW label, Goto(r, label)
      PROVE  pc'[r] = label /\ \A s \in Requests \ {r} : pc'[s] = pc[s]
  BY <1>0, <1>1 DEF Goto, HandlerType
<1>2. ASSUME NEW r \in Requests, NEW in \in Inputs, Receive(r, in) PROVE Claims'
  <2>1. /\ pc[r] = "idle" /\ at[r] = "idle"
        /\ UNCHANGED <<created, life, won, store>>
        /\ \A s \in Requests \ {r} : input'[s] = input[s]
        /\ input'[r] = in
    BY <1>0, <1>2
    DEF Receive, Reject, Accept, HandlerType, CallsType, idemVars, CheckOrSet, Idem!CheckOrSet
  <2>2. \A s \in Requests \ {r} : at'[s] = at[s] /\ res'[s] = res[s]
    <3>1. DOMAIN res = Requests /\ DOMAIN at = Requests
      BY DEF TypeOK, Idem!TypeOK
    <3>2. QED
      BY <1>2, <3>1 DEF Receive, Reject, Accept, idemVars, CheckOrSet, Idem!CheckOrSet
  <2>3. /\ \A s \in Requests \ {r} : pc'[s] = pc[s]
        /\ pc'[r] = "done" \/ (pc'[r] = "check" /\ at'[r] = "setnx") \/ (pc'[r] = "enqueue" /\ ~HasKey(r)')
    <3>1. DOMAIN at = Requests
      BY DEF TypeOK, Idem!TypeOK
    <3>2. in.route = "orders" \/ in.key = Unset => ~HasKey(r)'
      BY <2>1 DEF HasKey
    <3>3. QED
      BY <1>1, <1>2, <3>1, <3>2
      DEF Receive, Reject, Accept, Answer, CheckOrSet, Idem!CheckOrSet
  <2>4. ~Claimed(r) /\ \A t \in created : t.id # r
    BY <1>0, <2>1 DEF Claims, ClaimHeld, TasksType
  <2>5. ClaimHeld' /\ ClaimsDiffer'
    BY <2>1, <2>3, <2>4, QuietStep DEF Claims, ClaimHeld
  <2>6. ClaimNeeded'
    BY <2>1, <2>2, <2>3, <2>4, NeedsKept
  <2>7. QED
    BY <2>5, <2>6 DEF Claims
<1>3. ASSUME NEW r \in Requests, Command(r) PROVE Claims'
  BY <1>3, CommandClaims
<1>4. ASSUME NEW r \in Requests, UNCHANGED <<won, life, input, store, res>>,
             NEW label \in Labels \ {"idle"}, Goto(r, label),
             \A s \in Requests \ {r} : at'[s] = at[s],
             label # "check",
             \A t \in created' : t \in created \/ t.id = r,
             HasKey(r) /\ (label \in {"enqueue", "update"} \/ \E t \in created' : t.id = r)
               => Claimed(r)
      PROVE  Claims'
  <2>1. pc'[r] = label /\ \A s \in Requests \ {r} : pc'[s] = pc[s]
    BY <1>1, <1>4
  <2>2. ClaimHeld' /\ ClaimsDiffer'
    BY <1>4, <2>1, QuietStep DEF Claims, ClaimHeld
  <2>3. HasKey(r)' = HasKey(r)
    BY <1>4, SameInput
  <2>4. ClaimNeeded'
    BY <1>4, <2>1, <2>3, NeedsKept
  <2>5. QED
    BY <2>2, <2>4 DEF Claims
<1>5. ASSUME NEW r \in Requests, Checked(r) PROVE Claims'
  <2>1. /\ UNCHANGED <<won, life, input, store, res, created>>
        /\ pc[r] = "check" /\ at[r] = "done"
        /\ \A s \in Requests \ {r} : at'[s] = at[s]
    BY <1>5, CallMoves DEF Checked, Idem!Return
  <2>2. \A t \in created : t.id # r
    BY <1>0, <2>1 DEF TasksType
  <2>3. CASE Goto(r, "done")
    BY <1>4, <2>1, <2>2, <2>3 DEF Labels, Running
  <2>4. CASE Goto(r, "enqueue") /\ res[r].kind = "new"
    BY <1>4, <2>1, <2>2, <2>4 DEF Labels, Running, Claims, ClaimNeeded
  <2>5. QED
    BY <1>5, <2>3, <2>4 DEF Checked, Answer
<1>6. ASSUME NEW r \in Requests, EnqueueNow(r) PROVE Claims'
  <2>1. /\ UNCHANGED <<won, life, input, store>>
        /\ pc[r] = "enqueue"
        /\ HasKey(r) => Claimed(r)
        /\ \A t \in created' : t \in created \/ t.id = r
    BY <1>6, TaskName
    DEF EnqueueNow, Enqueued, NotEnqueued, Create, CheckOrSet, Idem!CheckOrSet, idemVars,
        Claims, ClaimNeeded
  <2>2. /\ \A s \in Requests \ {r} : at'[s] = at[s] /\ res'[s] = res[s] /\ pc'[s] = pc[s]
        /\ pc'[r] \in {"update", "reply", "done"}
    <3>1. DOMAIN res = Requests /\ DOMAIN at = Requests
      BY DEF TypeOK, Idem!TypeOK
    <3>2. QED
      BY <1>1, <1>6, <3>1
      DEF EnqueueNow, Enqueued, NotEnqueued, Answer, CheckOrSet, Idem!CheckOrSet, idemVars
  <2>3. ClaimHeld' /\ ClaimsDiffer'
    BY <2>1, <2>2, QuietStep DEF Claims, ClaimHeld
  <2>4. HasKey(r)' = HasKey(r)
    BY <2>1, SameInput
  <2>5. ClaimNeeded'
    BY <2>1, <2>2, <2>4, NeedsKept
  <2>6. QED
    BY <2>3, <2>5 DEF Claims
<1>7. ASSUME NEW r \in Requests, Updated(r) \/ Replied(r) \/ Die(r) PROVE Claims'
  <2>1. /\ UNCHANGED <<won, life, input, store, res, created>>
        /\ Goto(r, "done") \/ Goto(r, "dead")
        /\ \A s \in Requests \ {r} : at'[s] = at[s]
    BY <1>7, CallMoves, DieFacts DEF Updated, Replied, Die, Answer, Idem!Return, idemVars
  <2>2. (\E t \in created : t.id = r) /\ HasKey(r) => Claimed(r)
    BY DEF Claims, ClaimNeeded
  <2>3. QED
    BY <1>4, <2>1, <2>2 DEF Labels, Running
<1>8. ASSUME NEW k \in Keys, Expire(k) PROVE Claims'
  <2>1. /\ life'[k] = life[k] + 1
        /\ \A j \in Keys \ {k} : life'[j] = life[j] /\ store'[j] = store[j]
        /\ UNCHANGED <<pc, input, created, won, at, res>>
        /\ \A j \in Keys : life[j] \in Nat
    BY <1>0, <1>8 DEF Expire, Idem!Expire, Idem!Remove, HandlerType, TypeOK, Idem!TypeOK
  <2>2. \A r \in Requests : Claimed(r)' = Claimed(r) /\ HasKey(r)' = HasKey(r)
    BY <2>1, SameInput DEF Claimed
  <2>3. \A r \in Requests : Claimed(r) =>
          input[r].key \in Keys /\ won[r] \in Nat /\ won[r] <= life[input[r].key]
    <3>1. \A r \in Requests : Claimed(r) => input[r] \in Inputs /\ HasKey(r)
      BY <1>0 DEF Claims, ClaimHeld, HandlerType
    <3>2. \A r \in Requests : Claimed(r) => won[r] \in Nat /\ won[r] <= life[input[r].key]
      BY <1>0 DEF Claims, ClaimHeld, HandlerType, Claimed
    <3>3. QED
      BY <3>1, <3>2, InputFields DEF HasKey
  <2>4. ClaimHeld'
    BY <2>1, <2>2, <2>3 DEF Claims, ClaimHeld
  <2>5. ClaimsDiffer'
    BY <2>1, <2>2 DEF Claims, ClaimsDiffer
  <2>6. ClaimNeeded'
    BY <1>0, <2>1, <2>2 DEF Claims, ClaimNeeded, TasksType
  <2>7. QED
    BY <2>4, <2>5, <2>6 DEF Claims
<1>9. CASE UNCHANGED vars
  <2>1. \A r \in Requests : Claimed(r)' = Claimed(r) /\ HasKey(r)' = HasKey(r)
    BY <1>9, SameInput DEF Claimed, vars
  <2>2. QED
    BY <1>0, <1>9, <2>1 DEF Claims, ClaimHeld, ClaimsDiffer, ClaimNeeded, TasksType, vars
<1>11. ASSUME NEW cmd \in stray, LateSetNX(cmd) PROVE Claims'
  <2>1. \A r \in Requests : Claimed(r)' = Claimed(r) /\ HasKey(r)' = HasKey(r)
    BY <1>11, LateFacts, SameInput DEF Claimed
  <2>2. ClaimHeld' /\ ClaimsDiffer'
    BY <1>11, LateFacts, QuietStep DEF Claims, ClaimHeld
  <2>3. ClaimNeeded'
    BY <1>0, <1>11, <2>1, LateFacts DEF Claims, ClaimNeeded, TasksType
  <2>4. QED
    BY <2>2, <2>3 DEF Claims
<1>10. QED
  BY <1>2, <1>3, <1>5, <1>6, <1>7, <1>8, <1>9, <1>11 DEF Next, Handle

LEMMA ClaimsAlways == Spec => []Claims
  BY InitClaims, NextClaims, TypeCorrect, PTL DEF Spec

(* In one life of an idempotency key at most one task is queued under it.   *)
THEOREM AtMostOneTask == Spec => []OneTaskPerLife
<1>1. TypeOK /\ Claims => OneTaskPerLife
  BY DEF TypeOK, Claims, ClaimsDiffer, ClaimNeeded, OneTaskPerLife, Keyed, KeyOf
<1>2. QED
  BY <1>1, TypeCorrect, ClaimsAlways, PTL

(* The key under which a task was queued stays taken until it expires.      *)
THEOREM TaskKeepsKey == Spec => []KeyGuardsTask
<1>1. TypeOK /\ Claims => KeyGuardsTask
  BY DEF TypeOK, Claims, ClaimHeld, ClaimNeeded, KeyGuardsTask, Keyed, KeyOf
<1>2. QED
  BY <1>1, TypeCorrect, ClaimsAlways, PTL

-----------------------------------------------------------------------------
(* Why replies are honest.  A request that has not been answered has no     *)
(* reply, one that is on its way to the second CheckOrSet has its task      *)
(* queued, and only requests in the enqueue step queue a task.              *)
Unanswered(r) == pc[r] \in {"idle"} \cup Running => reply[r] = NoReply
UpdateQueued(r) == pc[r] \in {"update", "reply"} => Task(r) \in created
Honest(r) ==
  /\ reply[r].status = "enqueued" => reply[r].id = r /\ Task(r) \in created
  /\ reply[r].status = "existing" => \A t \in created : t.id # r

HonestInv == \A r \in Requests : Unanswered(r) /\ UpdateQueued(r) /\ Honest(r)

(* What a step of request r leaves alone of the others.                     *)
LEMMA OthersKeep ==
  ASSUME TypeOK, HonestInv, NEW r \in Requests,
         \A s \in Requests \ {r} :
           pc'[s] = pc[s] /\ reply'[s] = reply[s] /\ input'[s] = input[s],
         created' \in {created, created \cup {Task(r)}},
         (Unanswered(r) /\ UpdateQueued(r) /\ Honest(r))'
  PROVE  HonestInv'
<1>1. ASSUME NEW s \in Requests \ {r}
      PROVE  (Unanswered(s) /\ UpdateQueued(s) /\ Honest(s))'
  <2>1. Task(s)' = Task(s)
    BY SameInput
  <2>2. \A t \in created' : t \in created \/ t.id # s
    BY TaskName
  <2>3. QED
    BY <2>1, <2>2 DEF HonestInv, Unanswered, UpdateQueued, Honest
<1>2. QED
  BY <1>1 DEF HonestInv

LEMMA AnswerFacts ==
  ASSUME TypeOK, NEW r \in Requests
  PROVE  /\ \A status, id : Answer(r, status, id) =>
              /\ pc'[r] = "done" /\ reply'[r].status = status /\ reply'[r].id = id
              /\ \A s \in Requests \ {r} : pc'[s] = pc[s] /\ reply'[s] = reply[s]
         /\ \A label : Goto(r, label) =>
              pc'[r] = label /\ \A s \in Requests \ {r} : pc'[s] = pc[s]
  BY DEF TypeOK, Answer, Goto, Reply

LEMMA NextHonest == TypeOK /\ HonestInv /\ [Next]_vars => HonestInv'
<1> SUFFICES ASSUME TypeOK, HonestInv, [Next]_vars PROVE HonestInv'
  OBVIOUS
<1> USE DEF Unanswered, UpdateQueued, Honest, Running
<1>1. \A r \in Requests : Unanswered(r) /\ UpdateQueued(r) /\ Honest(r)
  BY DEF HonestInv
<1>2. NoReply.status = "none"
  BY DEF NoReply, Reply
<1>3. \A r \in Requests : pc[r] \in {"idle", "check", "enqueue"} => \A t \in created : t.id # r
  BY DEF TypeOK
<1>4. ASSUME NEW r \in Requests, NEW in \in Inputs, Receive(r, in) PROVE HonestInv'
  <2>1. /\ pc[r] = "idle" /\ created' = created
        /\ \A s \in Requests \ {r} : input'[s] = input[s]
    BY <1>4 DEF Receive, TypeOK
  <2>2. CASE Answer(r, "bad request", NoID)
    <3>1. reply'[r].status = "bad request" /\ pc'[r] = "done"
      BY <2>2, AnswerFacts
    <3>2. \A s \in Requests \ {r} : pc'[s] = pc[s] /\ reply'[s] = reply[s]
      BY <2>2, AnswerFacts
    <3>3. (Unanswered(r) /\ UpdateQueued(r) /\ Honest(r))'
      BY <3>1
    <3>4. QED
      BY <2>1, <3>2, <3>3, OthersKeep
  <2>3. ASSUME NEW label \in {"check", "enqueue"}, Goto(r, label), UNCHANGED reply PROVE HonestInv'
    BY <1>1, <1>2, <2>1, <2>3, AnswerFacts, OthersKeep
  <2>4. QED
    BY <1>4, <2>2, <2>3 DEF Receive, Reject, Accept
<1>5. ASSUME NEW r \in Requests, Checked(r) PROVE HonestInv'
  <2>1. pc[r] = "check" /\ created' = created /\ input' = input
    BY <1>5 DEF Checked
  <2>2. CASE Answer(r, "internal error", NoID) \/ Answer(r, "existing", res[r].id)
    <3>1. reply'[r].status \in {"internal error", "existing"} /\ pc'[r] = "done"
      BY <2>2, AnswerFacts
    <3>2. \A s \in Requests \ {r} : pc'[s] = pc[s] /\ reply'[s] = reply[s]
      BY <2>2, AnswerFacts
    <3>3. \A t \in created' : t.id # r
      BY <1>3, <2>1
    <3>4. (Unanswered(r) /\ UpdateQueued(r) /\ Honest(r))'
      BY <3>1, <3>3
    <3>5. QED
      BY <2>1, <3>2, <3>4, OthersKeep
  <2>3. CASE Goto(r, "enqueue") /\ UNCHANGED reply
    BY <1>1, <1>2, <2>1, <2>3, AnswerFacts, OthersKeep
  <2>4. QED
    BY <1>5, <2>2, <2>3 DEF Checked
<1>6. ASSUME NEW r \in Requests, EnqueueNow(r) PROVE HonestInv'
  <2>1. pc[r] = "enqueue" /\ input' = input /\ Task(r)' = Task(r)
    BY <1>6, SameInput DEF EnqueueNow
  <2>2. CASE Enqueued(r)
    <3>1. created' = created \cup {Task(r)}
      BY <2>2 DEF Enqueued, Create
    <3>2. \E label \in {"update", "reply"} : Goto(r, label) /\ UNCHANGED reply
      BY <2>2 DEF Enqueued
    <3>3. QED
      BY <1>1, <1>2, <2>1, <3>1, <3>2, AnswerFacts, OthersKeep
  <2>3. CASE NotEnqueued(r)
    <3>1. created' \in {created, created \cup {Task(r)}}
      BY <2>3 DEF NotEnqueued, Create
    <3>2. Failure(r) \notin {"enqueued", "existing"}
      BY DEF Failure
    <3>3. QED
      BY <1>2, <2>1, <2>3, <3>1, <3>2, AnswerFacts, OthersKeep DEF NotEnqueued
  <2>4. QED
    BY <1>6, <2>2, <2>3 DEF EnqueueNow
<1>7. ASSUME NEW r \in Requests, Updated(r) \/ Replied(r) PROVE HonestInv'
  <2>1. /\ pc[r] \in {"update", "reply"} /\ UNCHANGED <<input, created>> /\ Task(r)' = Task(r)
        /\ Answer(r, "enqueued", r)
    BY <1>7, SameInput DEF Updated, Replied
  <2>2. QED
    BY <1>1, <1>2, <2>1, AnswerFacts, OthersKeep
<1>8. ASSUME NEW r \in Requests, Die(r) PROVE HonestInv'
  <2>1. UNCHANGED <<input, reply, created>> /\ Task(r)' = Task(r)
    BY <1>8, SameInput, DieFacts
  <2>2. QED
    BY <1>1, <1>8, <2>1, AnswerFacts, OthersKeep DEF Die
<1>9. ASSUME UNCHANGED <<pc, input, reply, created>> PROVE HonestInv'
  BY <1>1, <1>9, SameInput DEF HonestInv
<1>10. QED
  <2>1. CASE \E r \in Requests, in \in Inputs : Receive(r, in)
    BY <1>4, <2>1
  <2>2. ASSUME NEW r \in Requests, Handle(r) \/ Die(r) PROVE HonestInv'
    BY <1>5, <1>6, <1>7, <1>8, <1>9, <2>2 DEF Handle, Command
  <2>3. ASSUME NEW k \in Keys, Expire(k) PROVE HonestInv'
    BY <1>9, <2>3 DEF Expire
  <2>4. ASSUME NEW cmd \in stray, LateSetNX(cmd) PROVE HonestInv'
    BY <1>9, <2>4 DEF LateSetNX
  <2>5. CASE UNCHANGED vars
    BY <1>9, <2>5 DEF vars
  <2>6. QED
    BY <2>1, <2>2, <2>3, <2>4, <2>5 DEF Next

LEMMA InitHonest == Init => HonestInv
<1>1. NoReply.status = "none"
  BY DEF NoReply, Reply
<1>2. Init => \A r \in Requests : pc[r] = "idle" /\ reply[r] = NoReply
  BY DEF Init
<1>3. QED
  BY <1>1, <1>2 DEF HonestInv, Unanswered, UpdateQueued, Honest

(* "enqueued" is said of tasks that are in Redis, "existing" only to        *)
(* requests that queued nothing.                                            *)
THEOREM RepliesAreHonest == Spec => []ReplyHonest
<1>1. HonestInv => ReplyHonest
  BY DEF HonestInv, Honest, ReplyHonest
<1>2. QED
  BY <1>1, InitHonest, NextHonest, TypeCorrect, PTL DEF Spec

-----------------------------------------------------------------------------
(* The handlers implement SubmissionSpec.  First what of a step the         *)
(* abstract state shows.                                                    *)
LEMMA OthersStay ==
  ASSUME TypeOK, NEW r \in Requests,
         \A s \in Requests \ {r} : /\ pc'[s] = pc[s] /\ at'[s] = at[s]
                                   /\ res'[s] = res[s] /\ input'[s] = input[s],
         created' \in {created, created \cup {Task(r)}}
  PROVE  \A s \in Requests \ {r} : Stage(s)' = Stage(s) /\ KeyGiven(s)' = KeyGiven(s)
<1> SUFFICES ASSUME NEW s \in Requests \ {r}
             PROVE  Stage(s)' = Stage(s) /\ KeyGiven(s)' = KeyGiven(s)
  OBVIOUS
<1>1. HasTask(s)' <=> HasTask(s)
  BY TaskName DEF HasTask
<1>2. Decided(s)' = Decided(s)
  BY DEF Decided
<1>3. Stage(s)' = Stage(s)
  BY <1>1, <1>2 DEF Stage
<1>4. KeyGiven(s)' = KeyGiven(s)
  BY SameInput DEF KeyGiven
<1>5. QED
  BY <1>3, <1>4

LEMMA Moves ==
  ASSUME NEW r \in Requests, NEW to, Stage(r)' = to,
         \A s \in Requests \ {r} : Stage(s)' = Stage(s)
  PROVE  Promise!Move(r, Stage(r), to)
<1>1. [s \in Requests |-> Stage(s)]' = [[s \in Requests |-> Stage(s)] EXCEPT ![r] = to]
  OBVIOUS
<1>2. QED
  BY <1>1 DEF Promise!Move

LEMMA Tells ==
  ASSUME TypeOK, NEW r \in Requests, NEW status, NEW id,
         reply[r] = NoReply, Answer(r, status, id)
  PROVE  Promise!Tell(r, status)
<1>1. reply'[r].status = status /\ \A s \in Requests \ {r} : reply'[s] = reply[s]
  BY AnswerFacts
<1>2. [s \in Requests |-> reply[s].status]'
        = [[s \in Requests |-> reply[s].status] EXCEPT ![r] = status]
  BY <1>1
<1>3. reply[r].status = "none"
  BY DEF NoReply, Reply
<1>4. QED
  BY <1>2, <1>3 DEF Promise!Tell

(* A request that is not answered, and how far it has come. *)
LEMMA StageFacts ==
  ASSUME TypeOK, HonestInv, NEW r \in Requests
  PROVE  /\ pc[r] \in {"idle"} \cup Running => reply[r] = NoReply
         /\ pc[r] = "idle" => Stage(r) = "idle"
         /\ pc[r] = "check" => Stage(r) = IF at[r] = "done" THEN Decided(r) ELSE "open"
         /\ pc[r] = "enqueue" => Stage(r) = "permitted"
         /\ pc[r] \in {"update", "reply"} => Stage(r) = "queued"
         /\ pc[r] \in {"idle", "check", "enqueue"} => ~HasTask(r)
<1>1. pc[r] \in {"idle", "check", "enqueue"} => ~HasTask(r)
  BY DEF TypeOK, HasTask
<1>2. pc[r] \in {"update", "reply"} => HasTask(r)
  BY TaskName DEF HonestInv, UpdateQueued, HasTask
<1>3. QED
  BY <1>1, <1>2 DEF Stage, HonestInv, Unanswered

(* What a command may do, as far as the abstract state shows it. *)
LEMMA CommandOutcomes ==
  ASSUME TypeOK, NEW r \in Requests, pc[r] \in {"check", "update"}, Idem!Step(r)
  PROVE  /\ at[r] \notin {"idle", "done"}
         /\ input[r].key \in Keys
         /\ LET key == input[r].key
                makes == key \notin TakenKeys /\ TakenKeys' = TakenKeys \cup {key}
            IN  \/ makes /\ ToldNew(r)
                \/ /\ key \in TakenKeys /\ TakenKeys' = TakenKeys
                   /\ at'[r] = "done" /\ res'[r].kind = "existing"
                \/ /\ makes \/ TakenKeys' = TakenKeys
                   /\ at'[r] = "done" => res'[r].kind = "error"
<1> DEFINE key == input[r].key
<1> DEFINE makes == key \notin TakenKeys /\ TakenKeys' = TakenKeys \cup {key}
<1>1. at[r] \notin {"idle", "done"}
  BY DEF Idem!Step, Idem!SetNX, Idem!GetKey, Idem!SetNXAgain, Idem!RedisError,
         Idem!ResendSetNX, Idem!Unheard, Idem!GivenUp, Idem!Setting
<1>2. /\ Idem!Key(r) = key
      /\ key \in Keys
      /\ arg[r].id \in Requests \cup {NoID}
      /\ store \in [Keys -> Requests \cup {NoID, Absent}]
      /\ DOMAIN at = Requests /\ DOMAIN res = Requests
  <2>1. arg[r] \in Idem!Call
    BY <1>1 DEF TypeOK, Idem!TypeOK
  <2>2. arg[r].key = key
    BY DEF TypeOK
  <2>3. key \in Keys /\ arg[r].id \in Requests \cup {NoID}
    BY <2>1, <2>2 DEF Idem!Call
  <2>4. /\ store \in [Keys -> Requests \cup {NoID, Absent}]
        /\ DOMAIN at = Requests /\ DOMAIN res = Requests
    BY DEF TypeOK, Idem!TypeOK
  <2> HIDE DEF key
  <2>5. QED
    BY <2>2, <2>3, <2>4 DEF Idem!Key
<1> HIDE DEF key
<1>3. ASSUME Idem!Create(r) PROVE makes
  <2>1. store[key] = Absent /\ store' = [store EXCEPT ![key] = arg[r].id]
    BY <1>2, <1>3 DEF Idem!Create, Idem!Put, Idem!Key
  <2>2. arg[r].id # Absent
    BY <1>2, EnqueueAssumption
  <2>3. QED
    BY <1>2, <2>1, <2>2 DEF TakenKeys
<1>4. ASSUME NEW kind, NEW id, Idem!Answer(r, kind, id)
      PROVE  at'[r] = "done" /\ res'[r].kind = kind
  BY <1>2, <1>4 DEF Idem!Answer, Idem!Result
<1>5. ASSUME NEW step, Idem!Continue(r, step) PROVE at'[r] = step
  BY <1>2, <1>5 DEF Idem!Continue
<1>6. ASSUME store' = store PROVE TakenKeys' = TakenKeys
  BY <1>6 DEF TakenKeys
<1>7. ASSUME store[key] # Absent PROVE key \in TakenKeys
  BY <1>2, <1>7 DEF TakenKeys
<1> HIDE DEF makes
<1> DEFINE new == makes /\ ToldNew(r)
           existing == /\ key \in TakenKeys /\ TakenKeys' = TakenKeys
                       /\ at'[r] = "done" /\ res'[r].kind = "existing"
           other == /\ makes \/ TakenKeys' = TakenKeys
                    /\ at'[r] = "done" => res'[r].kind = "error"
<1>8. new \/ existing \/ other
  <2>1. CASE Idem!SetNX(r)
    <3>1. CASE Idem!Create(r) /\ Idem!Answer(r, "new", Absent)
      BY <1>3, <1>4, <3>1 DEF ToldNew
    <3>2. CASE store' = store /\ Idem!Continue(r, "get")
      BY <1>5, <1>6, <3>2
    <3>3. QED
      BY <2>1, <3>1, <3>2 DEF Idem!SetNX, Idem!Taken
  <2>2. CASE Idem!GetKey(r)
    <3>1. store' = store
      BY <2>2 DEF Idem!GetKey
    <3>2. CASE store[key] # Absent /\ Idem!Answer(r, "existing", store[key])
      BY <1>4, <1>6, <1>7, <3>1, <3>2
    <3>3. CASE Idem!Continue(r, "setnx again")
      BY <1>5, <1>6, <3>1, <3>3
    <3>4. QED
      BY <1>2, <2>2, <3>2, <3>3 DEF Idem!GetKey
  <2>3. CASE Idem!SetNXAgain(r)
    <3>1. CASE Idem!Create(r) /\ Idem!Answer(r, "new", Absent)
      BY <1>3, <1>4, <3>1 DEF ToldNew
    <3>2. CASE store[key] # Absent /\ store' = store /\ Idem!Answer(r, "existing", Unknown)
      BY <1>4, <1>6, <1>7, <3>2
    <3>3. QED
      BY <1>2, <2>3, <3>1, <3>2 DEF Idem!SetNXAgain, Idem!Taken
  <2>4. CASE Idem!RedisError(r)
    BY <1>3, <1>4, <1>6, <2>4 DEF Idem!RedisError, Idem!Unheard, Idem!GivenUp
  <2>5. CASE Idem!ResendSetNX(r)
    <3>1. (makes \/ TakenKeys' = TakenKeys) /\ at' = at
      BY <1>3, <1>6, <2>5 DEF Idem!ResendSetNX, Idem!Unheard, Idem!GivenUp
    <3>2. QED
      BY <1>1, <3>1
  <2>6. QED
    BY <2>1, <2>2, <2>3, <2>4, <2>5 DEF Idem!Step
<1>9. QED
  BY <1>1, <1>2, <1>8 DEF key, makes

-----------------------------------------------------------------------------
(* Each step of the handlers is one of the abstract specification's, or     *)
(* none.                                                                    *)
LEMMA ReceiveMaps ==
  ASSUME TypeOK, HonestInv, NEW r \in Requests, NEW in \in Inputs, Receive(r, in)
  PROVE  Promise!Next
<1> DEFINE k == IF in.route = "enqueue" THEN in.key ELSE Unset
<1>1. /\ pc[r] = "idle" /\ created' = created
      /\ input'[r] = in /\ \A s \in Requests \ {r} : input'[s] = input[s]
  BY DEF Receive, TypeOK
<1>2. Stage(r) = "idle" /\ ~HasTask(r)' /\ reply[r] = NoReply
  BY <1>1, StageFacts DEF HasTask, Running
<1>3. KeyGiven(r)' = k /\ k \in Keys \cup {Unset}
  BY <1>1, InputFields DEF KeyGiven, HasKey
<1> HIDE DEF k
<1>4. /\ store' = store
      /\ \A s \in Requests \ {r} : pc'[s] = pc[s] /\ at'[s] = at[s] /\ res'[s] = res[s]
  <2>1. DOMAIN res = Requests /\ DOMAIN at = Requests /\ DOMAIN pc = Requests
    BY DEF TypeOK, Idem!TypeOK
  <2>2. QED
    BY <2>1 DEF Receive, Reject, Accept, Answer, Goto, idemVars, CheckOrSet, Idem!CheckOrSet
<1>5. \A s \in Requests \ {r} : Stage(s)' = Stage(s) /\ KeyGiven(s)' = KeyGiven(s)
  BY <1>1, <1>4, OthersStay
<1>6. /\ [s \in Requests |-> KeyGiven(s)]'
           = [[s \in Requests |-> KeyGiven(s)] EXCEPT ![r] = k]
      /\ TakenKeys' = TakenKeys
  BY <1>3, <1>4, <1>5 DEF TakenKeys
<1>7. \/ Promise!Move(r, "idle", IF k = Unset THEN "permitted" ELSE "open") /\ UNCHANGED reply
      \/ Promise!Move(r, "idle", "over") /\ Promise!Tell(r, "bad request")
  <2>1. CASE Reject(r, in)
    <3>1. Answer(r, "bad request", NoID)
      BY <2>1 DEF Reject
    <3>2. Stage(r)' = "over"
      BY <1>2, <3>1, AnswerFacts DEF Stage
    <3>3. QED
      BY <1>2, <1>5, <3>1, <3>2, Moves, Tells
  <2>2. CASE Accept(r, in)
    <3>1. CASE in.route = "enqueue" /\ in.key # Unset /\ CheckOrSet(r, in.key, NoID) /\ Goto(r, "check")
      <4>1. k # Unset
        BY <3>1 DEF k
      <4>2. at'[r] = "setnx" /\ pc'[r] = "check"
        BY <3>1, AnswerFacts DEF CheckOrSet, Idem!CheckOrSet, TypeOK, Idem!TypeOK
      <4>3. Stage(r)' = "open"
        BY <4>2 DEF Stage
      <4>4. QED
        BY <1>2, <1>5, <2>2, <4>1, <4>3, Moves DEF Accept
    <3>2. CASE (in.route = "orders" \/ in.key = Unset) /\ Goto(r, "enqueue")
      <4>1. k = Unset
        BY <3>2 DEF k
      <4>2. Stage(r)' = "permitted"
        BY <3>2, AnswerFacts DEF Stage
      <4>3. QED
        BY <1>2, <1>5, <2>2, <4>1, <4>2, Moves DEF Accept
    <3>3. QED
      BY <2>2, <3>1, <3>2 DEF Accept
  <2>3. QED
    BY <2>1, <2>2 DEF Receive
<1>8. Promise!Submit(r, k)
  BY <1>6, <1>7 DEF Promise!Submit
<1>9. QED
  BY <1>3, <1>8 DEF Promise!Next

LEMMA CommandMaps ==
  ASSUME TypeOK, HonestInv, NEW r \in Requests, Command(r)
  PROVE  [Promise!Next]_Promise!vars
<1> DEFINE key == input[r].key
<1>1. /\ pc[r] \in {"check", "update"}
      /\ Idem!Step(r)
      /\ UNCHANGED <<pc, input, reply, created>>
  BY DEF Command
<1>2. \A s \in Requests \ {r} : at'[s] = at[s] /\ res'[s] = res[s]
  BY <1>1, CommandFacts
<1>3. \A s \in Requests \ {r} : Stage(s)' = Stage(s)
  BY <1>1, <1>2, OthersStay
<1>4. /\ \A s \in Requests : KeyGiven(s)' = KeyGiven(s)
      /\ KeyGiven(r) = key
  <2>1. HasKey(r)
    BY <1>1 DEF TypeOK
  <2>2. QED
    BY <1>1, <2>1, SameInput DEF KeyGiven
<1>5. /\ at[r] \notin {"idle", "done"} /\ key \in Keys
      /\ LET makes == key \notin TakenKeys /\ TakenKeys' = TakenKeys \cup {key}
         IN  \/ makes /\ ToldNew(r)
             \/ /\ key \in TakenKeys /\ TakenKeys' = TakenKeys
                /\ at'[r] = "done" /\ res'[r].kind = "existing"
             \/ /\ makes \/ TakenKeys' = TakenKeys
                /\ at'[r] = "done" => res'[r].kind = "error"
  BY <1>1, CommandOutcomes
<1>6. [s \in Requests |-> KeyGiven(s)]' = [s \in Requests |-> KeyGiven(s)]
  BY <1>4
<1> HIDE DEF key
<1>7. ASSUME Stage(r)' = Stage(r), TakenKeys' = TakenKeys \/ TakenKeys' = TakenKeys \cup {key}
      PROVE  [Promise!Next]_Promise!vars
  <2>1. [s \in Requests |-> Stage(s)]' = [s \in Requests |-> Stage(s)]
    BY <1>3, <1>7
  <2>2. CASE TakenKeys' = TakenKeys
    BY <1>1, <1>6, <2>1, <2>2 DEF Promise!vars
  <2>3. CASE TakenKeys' = TakenKeys \cup {key}
    <3>1. Promise!Block(key)
      BY <1>1, <1>6, <2>1, <2>3 DEF Promise!Block
    <3>2. QED
      BY <1>5, <3>1 DEF Promise!Next
  <2>4. QED
    BY <1>7, <2>2, <2>3
<1>8. CASE pc[r] = "update"
  <2>1. Stage(r)' = Stage(r)
    BY <1>1, <1>8 DEF Stage, HasTask
  <2>2. QED
    BY <1>5, <1>7, <2>1
<1>9. CASE pc[r] = "check"
  <2>1. Stage(r) = "open"
    BY <1>5, <1>9, StageFacts
  <2>2. Stage(r)' = IF at'[r] = "done" THEN Decided(r)' ELSE "open"
    BY <1>1, <1>9 DEF Stage
  <2>3. CASE key \notin TakenKeys /\ TakenKeys' = TakenKeys \cup {key} /\ ToldNew(r)
    <3>1. Stage(r)' = "permitted"
      BY <2>2, <2>3 DEF Decided, ToldNew
    <3>2. Promise!Permit(r)
      BY <1>1, <1>3, <1>4, <1>6, <2>1, <2>3, <3>1, Moves DEF Promise!Permit
    <3>3. QED
      BY <3>2 DEF Promise!Next
  <2>4. CASE /\ key \in TakenKeys /\ TakenKeys' = TakenKeys
             /\ at'[r] = "done" /\ res'[r].kind = "existing"
    <3>1. Stage(r)' = "duplicate"
      BY <2>2, <2>4 DEF Decided
    <3>2. Promise!Duplicate(r)
      BY <1>1, <1>3, <1>4, <1>6, <2>1, <2>4, <3>1, Moves DEF Promise!Duplicate
    <3>3. QED
      BY <3>2 DEF Promise!Next
  <2>5. CASE /\ TakenKeys' = TakenKeys \/ TakenKeys' = TakenKeys \cup {key}
             /\ at'[r] = "done" => res'[r].kind = "error"
    <3>1. Stage(r)' = Stage(r)
      BY <2>1, <2>2, <2>5 DEF Decided
    <3>2. QED
      BY <1>7, <2>5, <3>1
  <2>6. QED
    BY <1>5, <2>3, <2>4, <2>5
<1>10. QED
  BY <1>1, <1>8, <1>9

(* What the steps after a command have in common: they leave the keys and   *)
(* the inputs alone, and the calls of other requests.                       *)
Later(r) ==
  /\ UNCHANGED <<store, input>>
  /\ \A s \in Requests \ {r} : pc'[s] = pc[s] /\ at'[s] = at[s] /\ res'[s] = res[s]
  /\ created' \in {created, created \cup {Task(r)}}

LEMMA LaterMaps ==
  ASSUME TypeOK, NEW r \in Requests, Later(r)
  PROVE  /\ TakenKeys' = TakenKeys
         /\ [s \in Requests |-> KeyGiven(s)]' = [s \in Requests |-> KeyGiven(s)]
         /\ \A to : Stage(r)' = to => Promise!Move(r, Stage(r), to)
         /\ Stage(r)' = Stage(r) =>
              [s \in Requests |-> Stage(s)]' = [s \in Requests |-> Stage(s)]
<1>1. \A s \in Requests \ {r} : Stage(s)' = Stage(s)
  BY OthersStay DEF Later
<1>2. \A s \in Requests : KeyGiven(s)' = KeyGiven(s)
  BY SameInput DEF Later, KeyGiven
<1>3. ASSUME NEW to, Stage(r)' = to PROVE Promise!Move(r, Stage(r), to)
  BY <1>1, <1>3, Moves
<1>4. TakenKeys' = TakenKeys
  BY DEF Later, TakenKeys
<1>5. QED
  BY <1>1, <1>2, <1>3, <1>4

LEMMA CheckedMaps ==
  ASSUME TypeOK, HonestInv, NEW r \in Requests, Checked(r)
  PROVE  [Promise!Next]_Promise!vars
<1>1. /\ pc[r] = "check" /\ at[r] = "done" /\ res' = res /\ created' = created
      /\ Later(r)
  <2>1. \A s \in Requests \ {r} : pc'[s] = pc[s] /\ at'[s] = at[s]
    BY AnswerFacts, CallMoves DEF Checked
  <2>2. QED
    BY <2>1 DEF Checked, Idem!Return, Later
<1>2. Stage(r) = Decided(r) /\ reply[r] = NoReply /\ ~HasTask(r)'
  BY <1>1, StageFacts DEF HasTask, Running
<1>3. CASE res[r].kind = "error" /\ Answer(r, "internal error", NoID)
  <2>1. Stage(r) = "open"
    BY <1>2, <1>3 DEF Decided
  <2>2. Stage(r)' = "over"
    BY <1>2, <1>3, AnswerFacts DEF Stage
  <2>3. Promise!TurnAway(r)
    BY <1>1, <1>2, <1>3, <2>1, <2>2, LaterMaps, Tells DEF Promise!TurnAway
  <2>4. QED
    BY <2>3 DEF Promise!Next
<1>4. CASE res[r].kind = "existing" /\ Answer(r, "existing", res[r].id)
  <2>1. Stage(r) = "duplicate"
    BY <1>2, <1>4 DEF Decided
  <2>2. Stage(r)' = "over"
    BY <1>2, <1>4, AnswerFacts DEF Stage
  <2>3. Promise!TurnAway(r)
    BY <1>1, <1>2, <1>4, <2>1, <2>2, LaterMaps, Tells DEF Promise!TurnAway
  <2>4. QED
    BY <2>3 DEF Promise!Next
<1>5. CASE res[r].kind = "new" /\ Goto(r, "enqueue") /\ UNCHANGED reply
  <2>1. Stage(r) = "permitted"
    BY <1>2, <1>5 DEF Decided
  <2>2. Stage(r)' = "permitted"
    BY <1>5, AnswerFacts DEF Stage
  <2>3. QED
    BY <1>1, <1>5, <2>1, <2>2, LaterMaps DEF Promise!vars
<1>6. QED
  BY <1>3, <1>4, <1>5 DEF Checked

LEMMA EnqueueMaps ==
  ASSUME TypeOK, HonestInv, NEW r \in Requests, EnqueueNow(r)
  PROVE  Promise!Next
<1>1. pc[r] = "enqueue" /\ Later(r)
  <2>1. DOMAIN res = Requests /\ DOMAIN at = Requests /\ DOMAIN pc = Requests
    BY DEF TypeOK, Idem!TypeOK
  <2>2. QED
    BY <2>1 DEF EnqueueNow, Enqueued, NotEnqueued, Create, Answer, Goto, idemVars,
                CheckOrSet, Idem!CheckOrSet, Later
<1>2. Stage(r) = "permitted" /\ reply[r] = NoReply /\ ~HasTask(r)
  BY <1>1, StageFacts DEF Running
<1>3. Create(r) => HasTask(r)'
  BY TaskName DEF Create, HasTask
<1>4. created' = created => ~HasTask(r)'
  BY <1>2 DEF HasTask
<1>5. CASE Enqueued(r)
  <2>1. pc'[r] \in {"update", "reply"}
    BY <1>5, AnswerFacts DEF Enqueued
  <2>2. Stage(r)' = "queued"
    BY <1>3, <1>5, <2>1 DEF Enqueued, Stage
  <2>3. UNCHANGED reply
    BY <1>5 DEF Enqueued
  <2>4. Promise!Queue(r)
    BY <1>1, <1>2, <2>2, <2>3, LaterMaps DEF Promise!Queue
  <2>5. QED
    BY <2>4 DEF Promise!Next
<1>6. CASE NotEnqueued(r)
  <2>1. PICK what \in Promise!Failures : Answer(r, what, NoID)
    BY <1>6 DEF NotEnqueued, Failure, Promise!Failures
  <2>2. pc'[r] = "done" /\ Promise!Tell(r, what)
    BY <1>2, <2>1, AnswerFacts, Tells
  <2>3. Stage(r)' = IF HasTask(r)' THEN "queued" ELSE "over"
    BY <2>2 DEF Stage
  <2>4. CASE Create(r)
    <3>1. Promise!Move(r, "permitted", "queued")
      BY <1>1, <1>2, <1>3, <2>3, <2>4, LaterMaps
    <3>2. \E w \in {"enqueued"} \cup Promise!Failures : Promise!Tell(r, w)
      BY <2>2
    <3>3. Promise!Queue(r)
      BY <1>1, <3>1, <3>2, LaterMaps DEF Promise!Queue
    <3>4. QED
      BY <3>3 DEF Promise!Next
  <2>5. CASE created' = created
    <3>1. Promise!Move(r, "permitted", "over")
      BY <1>1, <1>2, <1>4, <2>3, <2>5, LaterMaps
    <3>2. \E w \in Promise!Failures : Promise!Tell(r, w)
      BY <2>2
    <3>3. Promise!Fail(r)
      BY <1>1, <3>1, <3>2, LaterMaps DEF Promise!Fail
    <3>4. QED
      BY <3>3 DEF Promise!Next
  <2>6. QED
    BY <1>6, <2>4, <2>5 DEF NotEnqueued
<1>7. QED
  BY <1>5, <1>6 DEF EnqueueNow

LEMMA RepliedMaps ==
  ASSUME TypeOK, HonestInv, NEW r \in Requests, Updated(r) \/ Replied(r)
  PROVE  Promise!Next
<1>1. /\ pc[r] \in {"update", "reply"} /\ pc'[r] = "done" /\ created' = created
      /\ Answer(r, "enqueued", r) /\ Later(r)
  <2>1. /\ pc'[r] = "done"
        /\ \A s \in Requests \ {r} : pc'[s] = pc[s] /\ at'[s] = at[s]
    BY AnswerFacts, CallMoves DEF Updated, Replied, idemVars
  <2>2. QED
    BY <2>1 DEF Updated, Replied, Idem!Return, Later, idemVars
<1>2. Stage(r) = "queued" /\ reply[r] = NoReply
  BY <1>1, StageFacts DEF Running
<1>3. HasTask(r)'
  BY <1>1, TaskName DEF HonestInv, UpdateQueued, HasTask
<1>4. Stage(r)' = "queued"
  BY <1>1, <1>3 DEF Stage
<1>5. Promise!Confirm(r)
  BY <1>1, <1>2, <1>4, LaterMaps, Tells DEF Promise!Confirm
<1>6. QED
  BY <1>5 DEF Promise!Next

LEMMA DieMaps ==
  ASSUME TypeOK, HonestInv, NEW r \in Requests, Die(r)
  PROVE  [Promise!Next]_Promise!vars
<1>1. /\ pc[r] \in Running /\ pc'[r] = "dead"
      /\ UNCHANGED <<created, reply>> /\ Later(r)
  BY AnswerFacts, DieFacts DEF Die, Later
<1>2. HasTask(r)' <=> HasTask(r)
  BY <1>1 DEF HasTask
<1>3. Stage(r)' = IF HasTask(r) THEN "queued" ELSE "over"
  BY <1>1, <1>2 DEF Stage
<1>4. CASE pc[r] \in {"check", "enqueue"}
  <2>1. Stage(r) \in {"open", "duplicate", "permitted"} /\ Stage(r)' = "over"
    BY <1>3, <1>4, StageFacts DEF Decided
  <2>2. Promise!Abandon(r)
    BY <1>1, <2>1, LaterMaps DEF Promise!Abandon
  <2>3. QED
    BY <2>2 DEF Promise!Next
<1>5. CASE pc[r] \in {"update", "reply"}
  <2>1. HasTask(r)
    BY <1>5, TaskName DEF HonestInv, UpdateQueued, HasTask
  <2>2. Stage(r)' = Stage(r)
    BY <1>3, <1>5, <2>1, StageFacts
  <2>3. QED
    BY <1>1, <2>2, LaterMaps DEF Promise!vars
<1>6. QED
  BY <1>1, <1>4, <1>5 DEF Running

LEMMA LateMaps ==
  ASSUME TypeOK, NEW cmd \in stray, LateSetNX(cmd)
  PROVE  Promise!Next
<1>1. \A r \in Requests : Stage(r)' = Stage(r) /\ KeyGiven(r)' = KeyGiven(r)
  BY LateFacts DEF Stage, Decided, HasTask, KeyGiven, HasKey
<1>2. cmd.key \in Keys /\ TakenKeys' = TakenKeys \cup {cmd.key}
  BY LateFacts DEF TakenKeys
<1>3. Promise!Block(cmd.key)
  BY <1>1, <1>2, LateFacts DEF Promise!Block
<1>4. QED
  BY <1>2, <1>3 DEF Promise!Next

LEMMA ExpireMaps ==
  ASSUME TypeOK, NEW k \in Keys, Expire(k)
  PROVE  Promise!Next
<1>1. /\ UNCHANGED <<pc, input, reply, created, at, res>>
      /\ store' = [store EXCEPT ![k] = Absent]
  BY DEF Expire, Idem!Expire, Idem!Remove
<1>2. \A r \in Requests : Stage(r)' = Stage(r) /\ KeyGiven(r)' = KeyGiven(r)
  BY <1>1 DEF Stage, Decided, HasTask, KeyGiven, HasKey
<1>3. TakenKeys' = TakenKeys \ {k}
  BY <1>1 DEF TypeOK, Idem!TypeOK, TakenKeys
<1>4. Promise!Free(k)
  BY <1>1, <1>2, <1>3 DEF Promise!Free
<1>5. QED
  BY <1>4 DEF Promise!Next

LEMMA InitMaps == Init => Promise!Init
<1> SUFFICES ASSUME Init PROVE Promise!Init
  OBVIOUS
<1>1. TakenKeys = {}
  BY DEF Init, Idem!Init, TakenKeys
<1>2. \A r \in Requests : Stage(r) = "idle" /\ reply[r].status = "none"
  BY DEF Init, Stage, NoReply, Reply
<1>3. \A r \in Requests : KeyGiven(r) = Unset
  BY DEF Init, KeyGiven, HasKey, NoInput
<1>4. QED
  BY <1>1, <1>2, <1>3 DEF Promise!Init

(* The handlers implement SubmissionSpec, whatever the commands of their    *)
(* calls meet: a submission is one permit of its key and at most one task.  *)
THEOREM SubmissionsAsPromised == Spec => KeepsPromise
<1>1. TypeOK /\ HonestInv /\ [Next]_vars => [Promise!Next]_Promise!vars
  <2> SUFFICES ASSUME TypeOK, HonestInv, [Next]_vars PROVE [Promise!Next]_Promise!vars
    OBVIOUS
  <2>1. ASSUME NEW r \in Requests, Handle(r) PROVE [Promise!Next]_Promise!vars
    BY <2>1, CommandMaps, CheckedMaps, EnqueueMaps, RepliedMaps DEF Handle
  <2>2. CASE UNCHANGED vars
    <3>1. \A r \in Requests : Stage(r)' = Stage(r) /\ KeyGiven(r)' = KeyGiven(r)
      BY <2>2 DEF vars, Stage, Decided, HasTask, KeyGiven, HasKey
    <3>2. TakenKeys' = TakenKeys /\ reply' = reply
      BY <2>2 DEF vars, TakenKeys
    <3>3. QED
      BY <3>1, <3>2 DEF Promise!vars
  <2>3. QED
    BY <2>1, <2>2, ReceiveMaps, DieMaps, ExpireMaps, LateMaps DEF Next
<1>2. QED
  BY <1>1, InitMaps, InitHonest, NextHonest, TypeCorrect, PTL DEF Spec, KeepsPromise, Promise!Spec

-----------------------------------------------------------------------------
(* The order of the places of a call and of a handler.  A rank is at most   *)
(* 4, so that the ranks of the first call stay below the enqueueing and     *)
(* those of the second below the end.                                       *)
LEMMA RankValues ==
  ASSUME NEW command
  PROVE  /\ command = "idle" => Rank(command) = 0
         /\ command = "setnx" => Rank(command) = 1
         /\ command = "get" => Rank(command) = 2
         /\ command = "setnx again" => Rank(command) = 3
         /\ command = "done" => Rank(command) = 4
  BY Zenon DEF Rank

LEMMA RankBounds ==
  ASSUME NEW command \in Idem!Steps
  PROVE  Rank(command) \in 0..4
<1>1. \/ Rank(command) = 0 \/ Rank(command) = 1 \/ Rank(command) = 2
      \/ Rank(command) = 3 \/ Rank(command) = 4
  BY RankValues, Zenon DEF Idem!Steps
<1>2. QED
  BY <1>1

LEMMA Above == 1 < 2 /\ 1 < 4 /\ 2 < 3 /\ 2 < 4 /\ 3 < 4
  OBVIOUS

(* The moves that the commands make. *)
LEMMA RankGrows ==
  ASSUME NEW from, NEW to,
         \/ from = "setnx" /\ (to = "get" \/ to = "done")
         \/ from = "get" /\ (to = "setnx again" \/ to = "done")
         \/ from = "setnx again" /\ to = "done"
  PROVE  Rank(from) < Rank(to)
<1>1. \/ Rank(from) = 1 /\ (Rank(to) = 2 \/ Rank(to) = 4)
      \/ Rank(from) = 2 /\ (Rank(to) = 3 \/ Rank(to) = 4)
      \/ Rank(from) = 3 /\ Rank(to) = 4
  BY RankValues, Zenon
<1>2. QED
  BY <1>1, Above, Zenon

(* No handler turns back.  A command of CheckOrSet leads to a later one or  *)
(* to the answer, except a SETNX that go-redis resends, which stays.        *)
LEMMA CommandAdvances ==
  ASSUME TypeOK, NEW r \in Requests, Idem!Step(r)
  PROVE  at'[r] = at[r] \/ Rank(at[r]) < Rank(at'[r])
<1>1. at \in [Requests -> Idem!Steps]
  BY DEF TypeOK, Idem!TypeOK
<1>2. ASSUME NEW to, at' = [at EXCEPT ![r] = to] PROVE at'[r] = to
  BY <1>1, <1>2
<1>3. \A kind, id : Idem!Answer(r, kind, id) => at'[r] = "done"
  BY <1>2 DEF Idem!Answer
<1>4. \A to : Idem!Continue(r, to) => at'[r] = to
  BY <1>2 DEF Idem!Continue
<1>5. \/ at'[r] = at[r]
      \/ at[r] = "setnx" /\ (at'[r] = "get" \/ at'[r] = "done")
      \/ at[r] = "get" /\ (at'[r] = "setnx again" \/ at'[r] = "done")
      \/ at[r] = "setnx again" /\ at'[r] = "done"
  <2>1. CASE Idem!SetNX(r)
    BY <1>3, <1>4, <2>1 DEF Idem!SetNX
  <2>2. CASE Idem!GetKey(r)
    BY <1>3, <1>4, <2>2 DEF Idem!GetKey
  <2>3. CASE Idem!SetNXAgain(r)
    BY <1>3, <2>3 DEF Idem!SetNXAgain
  <2>4. CASE Idem!RedisError(r)
    BY <1>1, <1>3, <2>4 DEF Idem!RedisError, Idem!Steps
  <2>5. CASE Idem!ResendSetNX(r)
    BY <2>5 DEF Idem!ResendSetNX
  <2>6. QED
    BY <2>1, <2>2, <2>3, <2>4, <2>5 DEF Idem!Step
<1>6. QED
  BY <1>5, RankGrows

Changes(r) == pc'[r] # pc[r] \/ at'[r] # at[r]
Further(r) == Changes(r) => Progress(r) < Progress(r)'

LEMMA NextFurther ==
  ASSUME TypeOK, [Next]_vars
  PROVE  \A s \in Requests : Further(s)
<1>1. /\ pc \in [Requests -> Labels] /\ at \in [Requests -> Idem!Steps]
      /\ \A s \in Requests : pc[s] \in {"idle", "enqueue", "reply", "done"} => at[s] = "idle"
  BY DEF TypeOK, Idem!TypeOK
<1>2. ASSUME NEW r \in Requests, Further(r),
             \A s \in Requests \ {r} : pc'[s] = pc[s] /\ at'[s] = at[s]
      PROVE  \A s \in Requests : Further(s)
  BY <1>2 DEF Further, Changes
<1>3. ASSUME NEW r \in Requests, NEW label, Goto(r, label)
      PROVE  pc'[r] = label /\ \A s \in Requests \ {r} : pc'[s] = pc[s]
  BY <1>1, <1>3 DEF Goto
<1>4. ASSUME NEW r \in Requests, NEW k, NEW id, CheckOrSet(r, k, id)
      PROVE  at'[r] = "setnx" /\ \A s \in Requests \ {r} : at'[s] = at[s]
  BY <1>1, <1>4 DEF CheckOrSet, Idem!CheckOrSet
<1>5. ASSUME NEW r \in Requests, NEW in \in Inputs, Receive(r, in)
      PROVE  \A s \in Requests : Further(s)
  <2>1. pc[r] = "idle"
    BY <1>5 DEF Receive
  <2>2. CASE Goto(r, "check") /\ CheckOrSet(r, in.key, NoID)
    <3>1. Progress(r) = 0 /\ Progress(r)' = 1 + Rank(at'[r])
      BY <1>3, <2>1, <2>2 DEF Progress
    <3>2. Rank(at'[r]) = 1
      BY <1>4, <2>2, RankValues
    <3>3. QED
      BY <1>2, <1>3, <1>4, <2>2, <3>1, <3>2 DEF Further
  <2>3. CASE (Goto(r, "enqueue") \/ Goto(r, "done")) /\ at' = at
    <3>1. Progress(r) = 0 /\ Progress(r)' \in {6, 12}
      BY <1>3, <2>1, <2>3 DEF Progress
    <3>2. QED
      BY <1>2, <1>3, <2>3, <3>1 DEF Further
  <2>4. QED
    BY <1>5, <2>2, <2>3 DEF Receive, Reject, Accept, Answer, idemVars
<1>6. ASSUME NEW r \in Requests, Command(r)
      PROVE  \A s \in Requests : Further(s)
  <2>1. pc[r] \in {"check", "update"} /\ pc' = pc /\ Idem!Step(r)
    BY <1>6 DEF Command
  <2>2. at'[r] = at[r] \/ Rank(at[r]) < Rank(at'[r])
    BY <2>1, CommandAdvances
  <2>3. at'[r] # at[r] => Progress(r) < Progress(r)'
    <3>1. Rank(at[r])' = Rank(at'[r])
      OBVIOUS
    <3>2. Idem!TypeOK'
      BY ManagerStep, ManagerType, Zenon DEF TypeOK
    <3>3. at'[r] \in Idem!Steps /\ at[r] \in Idem!Steps
      BY <1>1, <3>2 DEF Idem!TypeOK, Idem!Steps
    <3>4. Rank(at[r]) \in 0..4 /\ Rank(at'[r]) \in 0..4
      BY <3>3, RankBounds
    <3>5. CASE pc[r] = "check"
      <4>1. Progress(r) = 1 + Rank(at[r]) /\ Progress(r)' = 1 + Rank(at'[r])
        BY <2>1, <3>1, <3>5 DEF Progress
      <4>2. QED
        BY <2>2, <3>4, <4>1
    <3>6. CASE pc[r] = "update"
      <4>1. Progress(r) = 7 + Rank(at[r]) /\ Progress(r)' = 7 + Rank(at'[r])
        BY <2>1, <3>1, <3>6 DEF Progress
      <4>2. QED
        BY <2>2, <3>4, <4>1
    <3>7. QED
      BY <2>1, <3>5, <3>6
  <2>4. \A s \in Requests \ {r} : at'[s] = at[s]
    BY <2>1, CommandFacts
  <2>5. QED
    BY <1>2, <2>1, <2>3, <2>4 DEF Further, Changes
<1>7. ASSUME NEW r \in Requests, Idem!Return(r),
             pc[r] \in {"check", "update"}, NEW label \in {"enqueue", "done"}, Goto(r, label),
             pc[r] = "update" => label = "done"
      PROVE  \A s \in Requests : Further(s)
  <2>1. at[r] = "done" /\ \A s \in Requests \ {r} : at'[s] = at[s]
    BY <1>7, CallMoves DEF Idem!Return
  <2>2. Rank(at[r]) = 4
    BY <2>1, RankValues
  <2>3. \/ Progress(r) = 1 + Rank(at[r]) /\ (Progress(r)' = 6 \/ Progress(r)' = 12)
        \/ Progress(r) = 7 + Rank(at[r]) /\ Progress(r)' = 12
    BY <1>3, <1>7 DEF Progress
  <2>4. QED
    BY <1>2, <1>3, <1>7, <2>1, <2>2, <2>3 DEF Further
<1>8. ASSUME NEW r \in Requests, EnqueueNow(r)
      PROVE  \A s \in Requests : Further(s)
  <2>1. pc[r] = "enqueue" /\ Progress(r) = 6
    BY <1>8 DEF EnqueueNow, Progress
  <2>2. CASE Goto(r, "update") /\ CheckOrSet(r, input[r].key, r)
    <3>1. Progress(r)' = 7 + Rank(at'[r])
      BY <1>3, <2>2 DEF Progress
    <3>2. Rank(at'[r]) = 1
      BY <1>4, <2>2, RankValues
    <3>3. QED
      BY <1>2, <1>3, <1>4, <2>1, <2>2, <3>1, <3>2 DEF Further
  <2>3. CASE (Goto(r, "reply") \/ Goto(r, "done")) /\ at' = at
    <3>1. Progress(r)' \in {7, 12}
      BY <1>3, <2>3 DEF Progress
    <3>2. QED
      BY <1>2, <1>3, <2>1, <2>3, <3>1 DEF Further
  <2>4. QED
    BY <1>8, <2>2, <2>3 DEF EnqueueNow, Enqueued, NotEnqueued, Answer, idemVars
<1>9. ASSUME NEW r \in Requests, Die(r)
      PROVE  \A s \in Requests : Further(s)
  <2>1. pc[r] \in Running /\ pc'[r] = "dead" /\ at' = at
    BY <1>3, <1>9, DieFacts DEF Die
  <2>2. Progress(r) \in 0..11
    BY <1>1, <2>1, RankBounds DEF Progress, Running
  <2>3. Progress(r)' = 12
    BY <2>1 DEF Progress
  <2>4. QED
    BY <1>2, <1>3, <1>9, <2>1, <2>2, <2>3 DEF Die, Further
<1>10. CASE UNCHANGED <<pc, at>>
  BY <1>10 DEF Further, Changes
<1>11. ASSUME NEW r \in Requests, Checked(r) \/ Updated(r)
       PROVE  \A s \in Requests : Further(s)
  BY <1>7, <1>11 DEF Checked, Updated, Answer
<1>12. ASSUME NEW k \in Keys, Expire(k) PROVE UNCHANGED <<pc, at>>
  BY <1>12 DEF Expire, Idem!Expire, Idem!Remove
<1>13. ASSUME NEW r \in Requests, Replied(r)
       PROVE  \A s \in Requests : Further(s)
  <2>1. Progress(r) = 7 /\ Progress(r)' = 12
    BY <1>3, <1>13 DEF Replied, Answer, Progress
  <2>2. QED
    BY <1>2, <1>3, <1>13, <2>1 DEF Replied, Answer, Further, idemVars
<1>14. ASSUME NEW cmd \in stray, LateSetNX(cmd) PROVE UNCHANGED <<pc, at>>
  BY <1>14 DEF LateSetNX, Idem!LateSetNX
<1>15. QED
  BY <1>5, <1>6, <1>8, <1>9, <1>10, <1>11, <1>12, <1>13, <1>14 DEF Next, Handle, vars

(* Every step of a handler, and of CheckOrSet in it, takes it further: no   *)
(* expiry, rival or resend can send it round again, for any number of       *)
(* requests.                                                                *)
THEOREM HandlersAdvance == Spec => NoWayBack
<1>1. TypeOK /\ [Next]_vars
        => [\A r \in Requests :
              pc'[r] # pc[r] \/ at'[r] # at[r] => Progress(r) < Progress(r)']_vars
  BY NextFurther DEF Further, Changes
<1>2. QED
  BY <1>1, TypeCorrect, PTL DEF Spec, NoWayBack
=============================================================================
