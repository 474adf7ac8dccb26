---------------------------- MODULE ProducerProofs ----------------------------
(* Theorems of Producer: a producer process adds nothing to what the       *)
(* handlers may do, so what EnqueueProofs shows carries over, and it stops *)
(* gracefully.                                                             *)
EXTENDS Producer, EnqueueProofs

-----------------------------------------------------------------------------
(* The process implements EnqueueAPI.                                       *)
LEMMA HandlersOnly == ProducerNext => [Next]_vars
<1> SUFFICES ASSUME ProducerNext PROVE [Next]_vars
  OBVIOUS
<1>1. Here \subseteq Requests
  BY ProducerAssumption
<1>2. ASSUME NEW r \in Here, NEW in \in Inputs, ReceiveHere(r, in) PROVE Next
  BY <1>1, <1>2 DEF ReceiveHere, Next
<1>3. ASSUME NEW r \in Here, ServeHere(r) PROVE Next
  BY <1>1, <1>3 DEF ServeHere, HandleHere, DieHere, Next
<1>4. ASSUME NEW r \in Requests \ Here, ServeElsewhere(r) PROVE Next
  BY <1>4 DEF ServeElsewhere, Next
<1>5. QED
  BY <1>2, <1>3, <1>4 DEF ProducerNext, Next

(* Every behaviour of a producer process, next to other replicas, is one of *)
(* the handlers of EnqueueAPI.                                              *)
THEOREM ProducerImplementsAPI == ProducerSpec => Spec
<1>1. ProducerInit => Init
  BY DEF ProducerInit
<1>2. [ProducerNext]_producerVars => [Next]_vars
  BY HandlersOnly DEF producerVars
<1>3. QED
  BY <1>1, <1>2, PTL DEF ProducerSpec, Spec

(* With the process around them the handlers still queue one task at most   *)
(* in a life of a key.                                                      *)
THEOREM ProducerAtMostOneTask == ProducerSpec => []OneTaskPerLife
  BY ProducerImplementsAPI, AtMostOneTask, PTL

(* ... and tell the truth, with a closed client as well.                    *)
THEOREM ProducerIsHonest == ProducerSpec => []ReplyHonest
  BY ProducerImplementsAPI, RepliesAreHonest, PTL

(* ... and leave the keys of their tasks taken.                             *)
THEOREM ProducerTaskKeepsKey == ProducerSpec => []KeyGuardsTask
  BY ProducerImplementsAPI, TaskKeepsKey, PTL

(* Starts, stops and crashes of the process take nothing from the promise   *)
(* made to submitters.                                                      *)
THEOREM ProducerKeepsPromise == ProducerSpec => KeepsPromise
  BY ProducerImplementsAPI, SubmissionsAsPromised, PTL

(* ... and none of them sends a handler back to where it has been.          *)
THEOREM ProducerHandlersAdvance == ProducerSpec => NoWayBack
  BY ProducerImplementsAPI, HandlersAdvance, PTL

-----------------------------------------------------------------------------
LEMMA ProcessStep ==
  ASSUME ProducerTypeOK,
         Signal \/ MainSteps \/ StarterSteps \/ Deadline \/ Crash \/ UNCHANGED procVars
  PROVE  ProducerTypeOK'
<1> USE DEF ProducerTypeOK, Ended, Alive
<1>1. CASE Signal \/ Deadline \/ Crash
  BY <1>1 DEF Signal, Deadline, Crash, End
<1>2. CASE StarterSteps
  BY <1>2 DEF StarterSteps, Assign, Listen, ServeReturns, StartFailed
<1>3. CASE MainSteps
  BY <1>3 DEF MainSteps, MainWakes, Shutdown, Drained, CloseRedis, Exit, End
<1>4. CASE UNCHANGED procVars
  BY <1>4 DEF procVars
<1>5. QED
  BY <1>1, <1>2, <1>3, <1>4

(* The two goroutines of main and Start agree on the server.                *)
THEOREM ProcessTypes == ProducerSpec => []ProducerTypeOK
<1>1. ProducerInit => ProducerTypeOK
  BY DEF ProducerInit, ProducerTypeOK, Ended
<1>2. ProducerTypeOK /\ [ProducerNext]_producerVars => ProducerTypeOK'
  BY ProcessStep DEF ProducerNext, producerVars
<1>3. QED
  BY <1>1, <1>2, PTL DEF ProducerSpec

-----------------------------------------------------------------------------
(* Why a stop in time loses no request: before the server listens there is  *)
(* none, and main leaves "draining" in time only when none is served.       *)
NoneYet == server \in {"nil", "assigned"} => \A r \in Here : pc[r] = "idle"

InTime == ~late /\ main # "crashed"
Past == {"closing", "leaving", "exited", "panicked"}

NoneLost ==
  InTime => \A r \in Here : pc[r] # "dead" /\ (main \in Past => ~Busy(r))

(* Steps of the process itself. *)
LEMMA ProcessKeeps ==
  ASSUME NoneYet, NoneLost, UNCHANGED pc,
         Signal \/ MainSteps \/ StarterSteps \/ Deadline \/ Crash \/ UNCHANGED procVars
  PROVE  NoneYet' /\ NoneLost'
<1>1. /\ server' \in {"nil", "assigned"} => server \in {"nil", "assigned"}
      /\ InTime' => InTime
      /\ main' \in Past => \/ main \in Past
                           \/ main' = "panicked" /\ server \in {"nil", "assigned"}
                           \/ main = "draining" /\ (late \/ \A r \in Here : ~Busy(r))
                                                /\ UNCHANGED late
  <2> USE DEF InTime, Past, Alive, Ended
  <2>1. CASE Signal \/ Deadline \/ Crash
    BY <2>1 DEF Signal, Deadline, Crash, End
  <2>2. CASE StarterSteps
    BY <2>2 DEF StarterSteps, Assign, Listen, ServeReturns, StartFailed
  <2>3. CASE MainSteps
    BY <2>3 DEF MainSteps, MainWakes, Shutdown, Drained, CloseRedis, Exit, End
  <2>4. CASE UNCHANGED procVars
    BY <2>4 DEF procVars
  <2>5. QED
    BY <2>1, <2>2, <2>3, <2>4
<1>2. \A r \in Here : Busy(r)' = Busy(r) /\ (pc[r] = "idle" => ~Busy(r))
  BY DEF Busy, Running
<1>3. NoneYet'
  BY <1>1 DEF NoneYet
<1>4. ASSUME InTime', NEW r \in Here PROVE (pc[r] # "dead" /\ (main \in Past => ~Busy(r)))'
  <2>1. pc'[r] # "dead"
    BY <1>1, <1>4 DEF NoneLost
  <2>2. ASSUME main' \in Past PROVE ~Busy(r)'
    BY <1>1, <1>2, <1>4, <2>2 DEF NoneLost, NoneYet, InTime
  <2>3. QED
    BY <2>1, <2>2
<1>5. QED
  BY <1>3, <1>4 DEF NoneLost

(* Where a step of a handler takes it. *)
LEMMA HandlerMoves ==
  ASSUME TypeOK, NEW r \in Requests
  PROVE  /\ \A in \in Inputs : Receive(r, in) =>
              /\ pc'[r] \in {"check", "enqueue", "done"}
              /\ \A s \in Requests \ {r} : pc'[s] = pc[s]
         /\ Handle(r) \/ Die(r) =>
              /\ Busy(r)
              /\ \A s \in Requests \ {r} : pc'[s] = pc[s]
         /\ Handle(r) => pc'[r] # "dead"
<1> USE DEF Goto, Answer, Busy, Running
<1>1. pc \in [Requests -> Labels]
  BY DEF TypeOK
<1>2. ASSUME NEW in \in Inputs, Receive(r, in)
      PROVE  /\ pc'[r] \in {"check", "enqueue", "done"}
             /\ \A s \in Requests \ {r} : pc'[s] = pc[s]
  BY <1>1, <1>2 DEF Receive, Accept, Reject
<1>3. ASSUME Handle(r)
      PROVE  /\ Busy(r) /\ pc'[r] # "dead"
             /\ \A s \in Requests \ {r} : pc'[s] = pc[s]
  <2>1. CASE Command(r)
    BY <2>1 DEF Command
  <2>2. CASE Checked(r)
    BY <1>1, <2>2 DEF Checked
  <2>3. CASE EnqueueNow(r)
    BY <1>1, <2>3 DEF EnqueueNow, Enqueued, NotEnqueued
  <2>4. CASE Updated(r)
    BY <1>1, <2>4 DEF Updated
  <2>5. CASE Replied(r)
    BY <1>1, <2>5 DEF Replied
  <2>6. QED
    BY <1>3, <2>1, <2>2, <2>3, <2>4, <2>5 DEF Handle
<1>4. ASSUME Die(r)
      PROVE  Busy(r) /\ \A s \in Requests \ {r} : pc'[s] = pc[s]
  BY <1>1, <1>4 DEF Die
<1>5. QED
  BY <1>2, <1>3, <1>4

(* Steps of the handlers. *)
LEMMA HandlersKeep ==
  ASSUME TypeOK, ProducerTypeOK, NoneYet, NoneLost, ProducerNext, UNCHANGED procVars
  PROVE  NoneYet' /\ NoneLost'
<1>1. /\ UNCHANGED <<server, late, main>>
      /\ InTime' = InTime
  BY DEF procVars, InTime
<1>2. Here \subseteq Requests
  BY ProducerAssumption
<1>3. ASSUME \A s \in Here : pc'[s] = pc[s] PROVE NoneYet' /\ NoneLost'
  BY <1>1, <1>3 DEF NoneYet, NoneLost, Busy, Running
<1>4. ASSUME NEW r \in Here, \A s \in Here \ {r} : pc'[s] = pc[s],
             server \notin {"nil", "assigned"},
             InTime => pc'[r] # "dead" /\ main \notin Past
      PROVE  NoneYet' /\ NoneLost'
  BY <1>1, <1>4 DEF NoneYet, NoneLost
<1>5. ASSUME NEW r \in Here, NEW in \in Inputs, ReceiveHere(r, in) PROVE NoneYet' /\ NoneLost'
  <2>1. server = "listening" /\ main \notin Past
    BY <1>5 DEF ReceiveHere, Alive, Ended, ProducerTypeOK, Past
  <2>2. pc'[r] # "dead" /\ \A s \in Here \ {r} : pc'[s] = pc[s]
    BY <1>2, <1>5, HandlerMoves DEF ReceiveHere
  <2>3. QED
    BY <1>4, <2>1, <2>2
<1>6. ASSUME NEW r \in Here, ServeHere(r) PROVE NoneYet' /\ NoneLost'
  <2>1. Busy(r) /\ \A s \in Here \ {r} : pc'[s] = pc[s]
    BY <1>2, <1>6, HandlerMoves DEF ServeHere, HandleHere, DieHere
  <2>2. server \notin {"nil", "assigned"}
    BY <2>1 DEF NoneYet, Busy, Running
  <2>3. InTime => main \notin Past
    BY <2>1 DEF NoneLost
  <2>4. InTime => pc'[r] # "dead"
    <3>1. CASE HandleHere(r)
      BY <1>2, <3>1, HandlerMoves DEF HandleHere
    <3>2. CASE DieHere(r)
      BY <2>3, <3>2 DEF DieHere, Alive, Ended, InTime, Past
    <3>3. QED
      BY <1>6, <3>1, <3>2 DEF ServeHere
  <2>5. QED
    BY <1>4, <2>1, <2>2, <2>3, <2>4
<1>7. ASSUME NEW r \in Requests \ Here, NEW in \in Inputs, Receive(r, in) PROVE NoneYet' /\ NoneLost'
  BY <1>2, <1>3, <1>7, HandlerMoves
<1>8. ASSUME NEW r \in Requests \ Here, ServeElsewhere(r) PROVE NoneYet' /\ NoneLost'
  BY <1>2, <1>3, <1>8, HandlerMoves DEF ServeElsewhere
<1>9. CASE UNCHANGED pc
  BY <1>3, <1>9
<1>10. QED
  BY <1>5, <1>6, <1>7, <1>8, <1>9 DEF ProducerNext, vars, Expire, LateSetNX

(* A signal, a failed start or a second signal: within the 30 seconds no    *)
(* request of the process is cut off.                                       *)
THEOREM StopsGracefully == ProducerSpec => []GracefulStop
<1>1. ProducerInit => NoneYet /\ NoneLost
  BY ProducerAssumption DEF ProducerInit, Init, NoneYet, NoneLost, Busy, Running
<1>2. ASSUME TypeOK, ProducerTypeOK, NoneYet, NoneLost, [ProducerNext]_producerVars
      PROVE  NoneYet' /\ NoneLost'
  <2>1. CASE UNCHANGED vars /\ (\/ Signal \/ MainSteps \/ StarterSteps \/ Deadline \/ Crash
                                \/ UNCHANGED procVars)
    BY <1>2, <2>1, ProcessKeeps DEF vars
  <2>2. CASE ProducerNext /\ UNCHANGED procVars
    BY <1>2, <2>2, HandlersKeep
  <2>3. QED
    BY <1>2, <2>1, <2>2 DEF ProducerNext, producerVars
<1>3. NoneLost => GracefulStop
  BY DEF NoneLost, GracefulStop, InTime, Past, RedisClosed, Alive, Ended
<1>4. QED
  BY <1>1, <1>2, <1>3, ProcessTypes, ProducerImplementsAPI, TypeCorrect, PTL DEF ProducerSpec
=============================================================================
