-------------------------- MODULE IdempotencyProofs --------------------------
(***************************************************************************)
(* Theorems about CheckOrSet for every set of callers, keys and values.    *)
(***************************************************************************)
EXTENDS Idempotency, TLAPS

(* Initially nobody has called and no key is stored. *)
LEMMA InitType == Init => TypeOK
  BY IdempotencyAssumption DEF Init, TypeOK, NoResult, Result, NoCall, Call, Steps, ResultKinds

(* One SETNX on a key, applied or not, and the history it records. *)
LEMMA SettingType ==
  ASSUME TypeOK, NEW c \in Callers, at[c] # "idle", NEW told \in SUBSET {c},
         Create(c) \/ Taken(c), Record(c, told)
  PROVE  /\ store' \in [Keys -> TaskIDs \cup {Absent}]
         /\ volatile' \subseteq Keys
         /\ granted' \in [Keys -> SUBSET Callers]
  BY DEF TypeOK, Create, Put, Taken, Record, Key, Call

(* A SETNX whose reply is lost, or that is given up. *)
LEMMA LostType ==
  ASSUME TypeOK, NEW c \in Callers, Unheard(c) \/ GivenUp(c)
  PROVE  /\ store' \in [Keys -> TaskIDs \cup {Absent}]
         /\ volatile' \subseteq Keys
         /\ stray' \subseteq Call
         /\ granted' \in [Keys -> SUBSET Callers]
<1>1. Setting(c) /\ at[c] # "idle"
  BY DEF Unheard, GivenUp, Setting
<1>2. CASE Unheard(c)
  BY <1>1, <1>2, SettingType DEF Unheard, TypeOK
<1>3. CASE GivenUp(c)
  <2>1. arg[c] \in Call
    BY <1>1 DEF TypeOK
  <2>2. QED
    BY <1>3, <2>1 DEF GivenUp, TypeOK
<1>4. QED
  BY <1>2, <1>3

(* Moving on, with or without an answer, keeps the caller's types. *)
LEMMA MovingType ==
  ASSUME TypeOK, NEW c \in Callers, at[c] # "idle",
         \/ \E kind \in ResultKinds, id \in TaskIDs \cup {Absent, Unknown} : Answer(c, kind, id)
         \/ \E s \in Steps : Continue(c, s)
         \/ UNCHANGED <<at, arg, res>>
  PROVE  /\ at' \in [Callers -> Steps]
         /\ arg' \in [Callers -> Call \cup {NoCall}]
         /\ \A d \in Callers : at'[d] # "idle" => arg'[d] \in Call
         /\ res' \in [Callers -> [kind : ResultKinds, id : TaskIDs \cup {Absent, Unknown}]]
<1> DEFINE Results == [kind : ResultKinds, id : TaskIDs \cup {Absent, Unknown}]
<1>1. ASSUME NEW kind \in ResultKinds, NEW id \in TaskIDs \cup {Absent, Unknown}
      PROVE  Result(kind, id) \in Results
  BY DEF Result
<1>2. /\ at \in [Callers -> Steps]
      /\ arg \in [Callers -> Call \cup {NoCall}]
      /\ \A d \in Callers : at[d] # "idle" => arg[d] \in Call
      /\ res \in [Callers -> Results]
  BY DEF TypeOK
<1>3. "done" \in Steps
  BY DEF Steps
<1> HIDE DEF Results
<1>4. /\ at' \in [Callers -> Steps]
      /\ \A d \in Callers \ {c} : at'[d] = at[d]
      /\ arg' = arg
      /\ res' \in [Callers -> Results]
  <2>1. CASE \E kind \in ResultKinds, id \in TaskIDs \cup {Absent, Unknown} : Answer(c, kind, id)
    BY <1>1, <1>2, <1>3, <2>1 DEF Answer
  <2>2. CASE \E s \in Steps : Continue(c, s)
    BY <1>2, <2>2 DEF Continue
  <2>3. CASE UNCHANGED <<at, arg, res>>
    BY <1>2, <2>3
  <2>4. QED
    BY <2>1, <2>2, <2>3
<1>5. QED
  BY <1>2, <1>4 DEF Results

(* Every step of the manager keeps the types. *)
LEMMA NextType == TypeOK /\ [Next]_idemVars => TypeOK'
<1> SUFFICES ASSUME TypeOK, [Next]_idemVars PROVE TypeOK'
  OBVIOUS
<1>1. ASSUME NEW c \in Callers, NEW k \in Keys, NEW id \in TaskIDs, NEW ttl \in TTLs,
             CheckOrSet(c, k, id, ttl)
      PROVE  TypeOK'
  <2>1. EffectiveTTL(ttl) \in Nat
    BY IdempotencyAssumption DEF EffectiveTTL
  <2>2. [key |-> k, id |-> id, ttl |-> EffectiveTTL(ttl)] \in Call
    BY <2>1 DEF Call
  <2>3. NoResult \in [kind : ResultKinds, id : TaskIDs \cup {Absent, Unknown}]
    BY DEF NoResult, Result, ResultKinds
  <2> HIDE DEF Call, NoResult
  <2>4. QED
    BY <1>1, <2>2, <2>3 DEF TypeOK, CheckOrSet, Steps
<1>2. ASSUME NEW c \in Callers, SetNX(c) PROVE TypeOK'
  <2>1. at[c] # "idle" /\ (Create(c) \/ Taken(c)) /\ UNCHANGED stray
    BY <1>2 DEF SetNX
  <2>2. Record(c, {c}) \/ Record(c, {})
    BY <1>2 DEF SetNX
  <2>3. Answer(c, "new", Absent) \/ Continue(c, "get")
    BY <1>2 DEF SetNX
  <2>4. QED
    BY <2>1, <2>2, <2>3, SettingType, MovingType DEF TypeOK, ResultKinds, Steps
<1>3. ASSUME NEW c \in Callers, GetKey(c) PROVE TypeOK'
  <2>1. store[Key(c)] \in TaskIDs \cup {Absent}
    BY <1>3 DEF TypeOK, GetKey, Key, Call
  <2>2. Answer(c, "existing", store[Key(c)]) \/ Continue(c, "setnx again")
    BY <1>3 DEF GetKey
  <2>3. QED
    BY <1>3, <2>1, <2>2, MovingType DEF TypeOK, GetKey, ResultKinds, Steps
<1>4. ASSUME NEW c \in Callers, SetNXAgain(c) PROVE TypeOK'
  <2>1. at[c] # "idle" /\ (Create(c) \/ Taken(c)) /\ UNCHANGED stray
    BY <1>4 DEF SetNXAgain
  <2>2. Record(c, {c}) \/ Record(c, {})
    BY <1>4 DEF SetNXAgain
  <2>3. Answer(c, "new", Absent) \/ Answer(c, "existing", Unknown)
    BY <1>4 DEF SetNXAgain
  <2>4. QED
    BY <2>1, <2>2, <2>3, SettingType, MovingType DEF TypeOK, ResultKinds
<1>5. ASSUME NEW c \in Callers, RedisError(c) PROVE TypeOK'
  <2>1. at[c] # "idle" /\ Answer(c, "error", Absent)
    BY <1>5 DEF RedisError
  <2>2. UNCHANGED <<store, volatile, stray, granted>> \/ Unheard(c) \/ GivenUp(c)
    BY <1>5 DEF RedisError
  <2>3. QED
    BY <2>1, <2>2, LostType, MovingType DEF TypeOK, ResultKinds
<1>6. ASSUME NEW c \in Callers, ResendSetNX(c) PROVE TypeOK'
  BY <1>6, LostType DEF TypeOK, ResendSetNX
<1>11. ASSUME NEW cmd \in stray, LateSetNX(cmd) PROVE TypeOK'
  BY <1>11 DEF TypeOK, LateSetNX, Put, Call
<1>7. ASSUME NEW c \in Callers, Return(c) PROVE TypeOK'
  BY <1>7 DEF TypeOK, Return, Steps
<1>8. ASSUME NEW k \in Keys, Remove(k) PROVE TypeOK'
  BY <1>8 DEF TypeOK, Remove
<1>9. CASE UNCHANGED idemVars
  BY <1>9 DEF TypeOK, idemVars
<1>10. QED
  BY <1>1, <1>2, <1>3, <1>4, <1>5, <1>6, <1>7, <1>8, <1>9, <1>11
  DEF Next, Step, Expire, Delete

(* The manager's variables keep their types in every reachable state. *)
THEOREM TypeCorrect == Spec => []TypeOK
  BY InitType, NextType, PTL DEF Spec

-----------------------------------------------------------------------------
(* What any step may do to a key and to the history of its winners: nobody *)
(* is added to the winners of a key that was there, and a key that is      *)
(* created starts with at most one.                                        *)
LEMMA SettingWinners ==
  ASSUME TypeOK, OneWinner, NEW c \in Callers, at[c] # "idle",
         \/ Create(c) /\ (Record(c, {c}) \/ Record(c, {}))
         \/ Taken(c) /\ Record(c, {})
  PROVE  OneWinner'
  BY DEF TypeOK, OneWinner, Create, Put, Taken, Record, Key, Call

(* In one life of a key at most one caller is told IsNew: only the SETNX   *)
(* that creates the key answers so, on either of the two paths.            *)
THEOREM WinnerIsUnique == Spec => []OneWinner
<1>1. Init => OneWinner
  BY DEF Init, OneWinner
<1>2. TypeOK /\ OneWinner /\ [Next]_idemVars => OneWinner'
  <2> SUFFICES ASSUME TypeOK, OneWinner, [Next]_idemVars PROVE OneWinner'
    OBVIOUS
  <2>1. ASSUME NEW c \in Callers, SetNX(c) PROVE OneWinner'
    BY <2>1, SettingWinners DEF SetNX
  <2>2. ASSUME NEW c \in Callers, SetNXAgain(c) PROVE OneWinner'
    BY <2>2, SettingWinners DEF SetNXAgain
  <2>3. ASSUME NEW c \in Callers, RedisError(c) PROVE OneWinner'
    <3>1. CASE UNCHANGED granted
      BY <3>1 DEF OneWinner
    <3>2. CASE Unheard(c)
      BY <2>3, <3>2, SettingWinners DEF RedisError, Unheard
    <3>3. QED
      BY <2>3, <3>1, <3>2 DEF RedisError, GivenUp
  <2>4. ASSUME NEW c \in Callers, ResendSetNX(c) PROVE OneWinner'
    BY <2>4, SettingWinners DEF ResendSetNX, Unheard, GivenUp, Setting, OneWinner
  <2>7. ASSUME NEW cmd \in stray, LateSetNX(cmd) PROVE OneWinner'
    BY <2>7 DEF LateSetNX, OneWinner, TypeOK, Call
  <2>5. ASSUME UNCHANGED granted PROVE OneWinner'
    BY <2>5 DEF OneWinner
  <2>6. QED
    BY <2>1, <2>2, <2>3, <2>4, <2>5, <2>7
    DEF Next, Step, CheckOrSet, GetKey, Return, Expire, Delete, Remove, idemVars
<1>3. QED
  BY <1>1, <1>2, TypeCorrect, PTL DEF Spec

(* A stored value is never replaced, only removed. *)
THEOREM ValuesAreKept == Spec => NeverOverwritten
<1>1. TypeOK /\ [Next]_idemVars
        => [\A k \in Keys : store[k] # Absent => store'[k] \in {store[k], Absent}]_idemVars
  <2> SUFFICES ASSUME TypeOK, [Next]_idemVars, NEW k \in Keys, store[k] # Absent
               PROVE  store'[k] \in {store[k], Absent}
    OBVIOUS
  <2>1. ASSUME NEW cmd, Put(cmd) PROVE store'[k] = store[k]
    BY <2>1 DEF Put, TypeOK
  <2>2. ASSUME NEW j \in Keys, Remove(j) PROVE store'[k] \in {store[k], Absent}
    BY <2>2 DEF Remove, TypeOK
  <2>3. QED
    BY <2>1, <2>2
    DEF Next, Step, CheckOrSet, SetNX, GetKey, SetNXAgain, RedisError, ResendSetNX,
        Unheard, GivenUp, LateSetNX, Create, Taken, Return, Expire, Delete, idemVars
<1>2. QED
  BY <1>1, TypeCorrect, PTL DEF Spec, NeverOverwritten

-----------------------------------------------------------------------------
(* A call in progress asks for a positive TTL, its own or the default, and *)
(* so does a command that is under way for nobody.                         *)
CallsAskTTL == DefaultTTL > 0 => \A c \in Callers : at[c] # "idle" => arg[c].ttl > 0
StraysAskTTL == DefaultTTL > 0 => \A cmd \in stray : cmd.ttl > 0

LEMMA NextCallsAskTTL ==
  ASSUME TypeOK, CallsAskTTL, [Next]_idemVars
  PROVE  CallsAskTTL'
<1> USE DEF CallsAskTTL
<1>1. ASSUME NEW c \in Callers, NEW k \in Keys, NEW id \in TaskIDs, NEW ttl \in TTLs,
             CheckOrSet(c, k, id, ttl), DefaultTTL > 0, NEW d \in Callers, at'[d] # "idle"
      PROVE  arg'[d].ttl > 0
  <2>1. EffectiveTTL(ttl) > 0
    BY <1>1, IdempotencyAssumption DEF EffectiveTTL
  <2>2. arg' = [arg EXCEPT ![c] = [key |-> k, id |-> id, ttl |-> EffectiveTTL(ttl)]]
    BY <1>1 DEF CheckOrSet
  <2>3. CASE d = c
    BY <2>1, <2>2, <2>3 DEF TypeOK
  <2>4. CASE d # c
    <3>1. arg'[d] = arg[d] /\ at'[d] = at[d]
      BY <1>1, <2>2, <2>4 DEF CheckOrSet, TypeOK
    <3>2. QED
      BY <1>1, <3>1
  <2>5. QED
    BY <2>3, <2>4
<1>2. ASSUME NEW c \in Callers, at[c] # "idle", NEW to, at' = [at EXCEPT ![c] = to], arg' = arg
      PROVE  CallsAskTTL'
  BY <1>2 DEF TypeOK
<1>3. ASSUME NEW c \in Callers, at[c] # "idle",
             (\E kind, id : Answer(c, kind, id)) \/ (\E to : Continue(c, to))
      PROVE  CallsAskTTL'
  BY <1>2, <1>3 DEF Answer, Continue
<1>4. ASSUME NEW c \in Callers, Step(c) PROVE CallsAskTTL'
  <2>1. CASE SetNX(c) \/ GetKey(c) \/ SetNXAgain(c) \/ RedisError(c)
    BY <1>3, <2>1 DEF SetNX, GetKey, SetNXAgain, RedisError
  <2>2. CASE ResendSetNX(c)
    BY <2>2 DEF ResendSetNX
  <2>3. QED
    BY <1>4, <2>1, <2>2 DEF Step
<1>5. ASSUME NEW c \in Callers, Return(c) PROVE CallsAskTTL'
  BY <1>2, <1>5 DEF Return
<1>6. CASE UNCHANGED <<at, arg>>
  BY <1>6
<1>7. QED
  BY <1>1, <1>4, <1>5, <1>6 DEF Next, Expire, Delete, Remove, LateSetNX, idemVars

LEMMA NextStraysAskTTL ==
  ASSUME TypeOK, CallsAskTTL, StraysAskTTL, [Next]_idemVars
  PROVE  StraysAskTTL'
<1>1. stray' \subseteq stray \cup {arg[c] : c \in {d \in Callers : at[d] # "idle"}}
  BY DEF Next, Step, CheckOrSet, SetNX, GetKey, SetNXAgain, RedisError, ResendSetNX, Unheard,
         GivenUp, Setting, LateSetNX, Return, Expire, Delete, Remove, idemVars
<1>2. QED
  BY <1>1 DEF CallsAskTTL, StraysAskTTL

(* No key that is there is there for good: whatever ttl was asked for, the  *)
(* SETNX that created it, answered or not, set the TTL with it.             *)
THEOREM KeysEnd == Spec => []KeysCarryTTL
<1>1. Init => KeysCarryTTL /\ CallsAskTTL /\ StraysAskTTL
  BY DEF Init, KeysCarryTTL, CallsAskTTL, StraysAskTTL
<1>2. TypeOK /\ KeysCarryTTL /\ CallsAskTTL /\ StraysAskTTL /\ [Next]_idemVars => KeysCarryTTL'
  <2> SUFFICES ASSUME TypeOK, KeysCarryTTL, CallsAskTTL, StraysAskTTL, [Next]_idemVars
               PROVE  KeysCarryTTL'
    OBVIOUS
  <2>1. ASSUME NEW cmd, DefaultTTL > 0 => cmd.ttl > 0, Put(cmd) PROVE KeysCarryTTL'
    <3>1. DefaultTTL > 0 => volatile' = volatile \cup {cmd.key}
      BY <2>1 DEF Put
    <3>2. \A k \in Keys \ {cmd.key} : store'[k] = store[k]
      BY <2>1 DEF Put, TypeOK
    <3>3. QED
      BY <3>1, <3>2 DEF KeysCarryTTL
  <2>2. ASSUME NEW c \in Callers, at[c] # "idle", Create(c) PROVE KeysCarryTTL'
    BY <2>1, <2>2 DEF Create, CallsAskTTL
  <2>3. ASSUME NEW cmd \in stray, LateSetNX(cmd) PROVE KeysCarryTTL'
    BY <2>1, <2>3 DEF LateSetNX, StraysAskTTL
  <2>4. ASSUME NEW k \in Keys, Remove(k) PROVE KeysCarryTTL'
    BY <2>4 DEF Remove, KeysCarryTTL, TypeOK
  <2>5. CASE UNCHANGED <<store, volatile>>
    BY <2>5 DEF KeysCarryTTL
  <2>6. QED
    BY <2>2, <2>3, <2>4, <2>5
    DEF Next, Step, CheckOrSet, SetNX, GetKey, SetNXAgain, RedisError, ResendSetNX, Unheard,
        GivenUp, Setting, Taken, Return, Expire, Delete, idemVars
<1>3. QED
  BY <1>1, <1>2, NextCallsAskTTL, NextStraysAskTTL, TypeCorrect, PTL DEF Spec

-----------------------------------------------------------------------------
(* A command that answers, creates the key or moves on, seen from the      *)
(* abstract decision: Answer, Take, and nothing.                           *)
LEMMA AnswerMaps ==
  ASSUME TypeOK, NEW c \in Callers, NEW kind, NEW id, Answer(c, kind, id)
  PROVE  Promise!Answer(c, kind, id)
<1>1. /\ DOMAIN at = Callers
      /\ at' = [at EXCEPT ![c] = "done"]
  BY DEF TypeOK, Answer
<1>2. \A d \in Callers : Phase(d)' = IF d = c THEN "answered" ELSE Phase(d)
  BY <1>1 DEF Phase
<1>3. [d \in Callers |-> Phase(d)]' = [[d \in Callers |-> Phase(d)] EXCEPT ![c] = "answered"]
  BY <1>2
<1>4. QED
  BY <1>3 DEF Answer, Result, Key, Promise!Answer

LEMMA CreateMaps ==
  ASSUME TypeOK, NEW c \in Callers, at[c] \notin {"idle", "done"}, Create(c)
  PROVE  Promise!Take(c)
  BY DEF Create, Put, Key, Phase, Promise!Take

(* The commands under way for nobody, as IdempotencySpec sees them. *)
Loose == {<<cmd.key, cmd.id>> : cmd \in stray}

LEMMA GivenUpMaps ==
  ASSUME TypeOK, NEW c \in Callers, GivenUp(c)
  PROVE  Promise!Loosen(c) /\ UNCHANGED store
<1>1. stray' = stray \cup {arg[c]} /\ UNCHANGED store
  BY DEF GivenUp
<1>2. {<<cmd.key, cmd.id>> : cmd \in stray'} = Loose \cup {<<arg[c].key, arg[c].id>>}
  BY <1>1 DEF Loose
<1>3. QED
  BY <1>1, <1>2 DEF Loose, Promise!Loosen, Key

(* A SETNX that comes late. *)
LEMMA LateMaps ==
  ASSUME TypeOK, NEW cmd \in stray, LateSetNX(cmd)
  PROVE  Promise!Late(cmd.key, cmd.id)
<1>1. <<cmd.key, cmd.id>> \in Loose
  BY DEF Loose
<1>2. store[cmd.key] = Absent /\ store' = [store EXCEPT ![cmd.key] = cmd.id]
  BY DEF LateSetNX, Put
<1>3. {<<e.key, e.id>> : e \in stray'} \in {Loose, Loose \ {<<cmd.key, cmd.id>>}}
  <2>1. CASE stray' = stray
    BY <2>1 DEF Loose
  <2>2. CASE stray' = stray \ {cmd}
    <3>1. CASE \E e \in stray \ {cmd} : <<e.key, e.id>> = <<cmd.key, cmd.id>>
      <4>1. {<<e.key, e.id>> : e \in stray'} = Loose
        BY <2>2, <3>1 DEF Loose
      <4>2. QED
        BY <4>1
    <3>2. CASE \A e \in stray \ {cmd} : <<e.key, e.id>> # <<cmd.key, cmd.id>>
      <4>1. {<<e.key, e.id>> : e \in stray'} = Loose \ {<<cmd.key, cmd.id>>}
        BY <2>2, <3>2 DEF Loose
      <4>2. QED
        BY <4>1
    <3>3. QED
      BY <3>1, <3>2
  <2>3. QED
    BY <2>1, <2>2 DEF LateSetNX
<1>4. UNCHANGED <<at, arg, res>>
  BY DEF LateSetNX
<1>5. \A d \in Callers : Phase(d)' = Phase(d)
  BY <1>4 DEF Phase
<1>6. QED
  BY <1>1, <1>2, <1>3, <1>4, <1>5 DEF Loose, Promise!Late, Key

LEMMA ContinueMaps ==
  ASSUME TypeOK, NEW c \in Callers, NEW step, Continue(c, step),
         at[c] \notin {"idle", "done"}, step \notin {"idle", "done"}
  PROVE  /\ [d \in Callers |-> Phase(d)]' = [d \in Callers |-> Phase(d)]
         /\ UNCHANGED <<arg, res>>
<1>1. \A d \in Callers : Phase(d)' = Phase(d)
  BY DEF TypeOK, Continue, Phase
<1>2. QED
  BY <1>1 DEF Continue

(* One command of CheckOrSet is one abstract step, or none. *)
LEMMA CommandMaps ==
  ASSUME TypeOK, NEW c \in Callers, Step(c)
  PROVE  [Promise!Next]_Promise!vars
<1> USE DEF Promise!Next
<1>0. at[c] \notin {"idle", "done"}
  BY DEF Step, SetNX, GetKey, SetNXAgain, RedisError, ResendSetNX, Unheard, GivenUp, Setting
<1>1. ASSUME Create(c), Answer(c, "new", Absent), UNCHANGED stray PROVE Promise!DecideNew(c)
  BY <1>0, <1>1, AnswerMaps, CreateMaps DEF Promise!DecideNew
<1>2. ASSUME store[Key(c)] # Absent, UNCHANGED <<store, stray>>,
             NEW id \in {store[Key(c)], Unknown}, Answer(c, "existing", id)
      PROVE  Promise!DecideExisting(c)
  BY <1>0, <1>2, AnswerMaps DEF Promise!DecideExisting, Key, Phase
<1>3. ASSUME NEW step \in {"get", "setnx again"}, Continue(c, step), UNCHANGED <<store, stray>>
      PROVE  UNCHANGED Promise!vars
  BY <1>0, <1>3, ContinueMaps DEF Promise!vars, Key
<1>4. CASE SetNX(c)
  BY <1>1, <1>3, <1>4 DEF SetNX, Taken
<1>5. CASE GetKey(c)
  BY <1>2, <1>3, <1>5 DEF GetKey
<1>6. CASE SetNXAgain(c)
  BY <1>1, <1>2, <1>6 DEF SetNXAgain, Taken
<1>7. CASE RedisError(c)
  <2>1. Promise!Answer(c, "error", Absent)
    BY <1>7, AnswerMaps DEF RedisError
  <2>2. \/ UNCHANGED <<store, stray>>
        \/ Create(c) /\ UNCHANGED stray
        \/ GivenUp(c)
    BY <1>7 DEF RedisError, Unheard
  <2>3. /\ Promise!Take(c) \/ UNCHANGED store
        /\ Promise!Loosen(c) \/ UNCHANGED Loose
    BY <1>0, <2>2, CreateMaps, GivenUpMaps DEF Loose
  <2>4. Promise!DecideError(c)
    BY <1>0, <2>1, <2>3 DEF Promise!DecideError, Phase, Loose
  <2>5. QED
    BY <2>4
<1>8. CASE ResendSetNX(c)
  <2>1. UNCHANGED <<at, arg, res>>
    BY <1>8 DEF ResendSetNX
  <2>2. \A d \in Callers : Phase(d)' = Phase(d)
    BY <2>1 DEF Phase
  <2>3. CASE Unheard(c)
    <3>1. Promise!Take(c) /\ UNCHANGED Loose
      BY <1>0, <2>3, CreateMaps DEF Unheard, Loose
    <3>2. Promise!Orphan(c)
      BY <2>1, <2>2, <3>1 DEF Promise!Orphan, Key, Loose
    <3>3. QED
      BY <3>2
  <2>4. CASE GivenUp(c)
    <3>1. Promise!Loosen(c) /\ UNCHANGED store
      BY <2>4, GivenUpMaps
    <3>2. Phase(c) = "called"
      BY <1>0 DEF Phase
    <3>3. Promise!Lose(c)
      BY <2>1, <2>2, <3>1, <3>2 DEF Promise!Lose, Key
    <3>4. QED
      BY <3>3
  <2>5. QED
    BY <1>8, <2>3, <2>4 DEF ResendSetNX
<1>9. QED
  BY <1>4, <1>5, <1>6, <1>7, <1>8 DEF Step

(* CheckOrSet implements IdempotencySpec: each call is one atomic decision *)
(* about its key, for every set of callers, keys, values and TTLs.         *)
THEOREM DecidesAtomically == Spec => AtomicDecision
<1>1. Init => Promise!Init
  BY DEF Init, Phase, Key, Promise!Init, Promise!NoAnswer, NoResult, Result, NoCall
<1>2. TypeOK /\ [Next]_idemVars => [Promise!Next]_Promise!vars
  <2> SUFFICES ASSUME TypeOK, [Next]_idemVars PROVE [Promise!Next]_Promise!vars
    OBVIOUS
  <2>1. ASSUME NEW c \in Callers, NEW k \in Keys, NEW id \in TaskIDs, NEW ttl \in TTLs,
               CheckOrSet(c, k, id, ttl)
        PROVE  Promise!Begin(c, k, id)
    <3>1. \A d \in Callers : Phase(d)' = IF d = c THEN "called" ELSE Phase(d)
      BY <2>1 DEF CheckOrSet, TypeOK, Phase
    <3>2. \A d \in Callers : /\ Key(d)' = IF d = c THEN k ELSE Key(d)
                            /\ arg'[d].id = IF d = c THEN id ELSE arg[d].id
      BY <2>1 DEF CheckOrSet, TypeOK, Key
    <3>3. Phase(c) = "idle" /\ UNCHANGED <<store, stray>>
      BY <2>1 DEF CheckOrSet, Phase
    <3>4. [d \in Callers |-> Phase(d)]' = [[d \in Callers |-> Phase(d)] EXCEPT ![c] = "called"]
      BY <3>1
    <3>5. [d \in Callers |-> Key(d)]' = [[d \in Callers |-> Key(d)] EXCEPT ![c] = k]
      BY <3>2
    <3>6. [d \in Callers |-> arg[d].id]' = [[d \in Callers |-> arg[d].id] EXCEPT ![c] = id]
      BY <3>2
    <3>7. res' = [res EXCEPT ![c] = Promise!NoAnswer]
      BY <2>1 DEF CheckOrSet, NoResult, Result, Promise!NoAnswer
    <3>8. QED
      BY <3>3, <3>4, <3>5, <3>6, <3>7 DEF Promise!Begin
  <2>2. ASSUME NEW c \in Callers, Return(c) PROVE Promise!End(c)
    <3>1. \A d \in Callers : Phase(d)' = IF d = c THEN "idle" ELSE Phase(d)
      BY <2>2 DEF Return, TypeOK, Phase
    <3>2. QED
      BY <2>2, <3>1 DEF Return, Phase, Key, Promise!End
  <2>3. ASSUME NEW k \in Keys, Remove(k) PROVE Promise!Free(k)
    <3>1. \A d \in Callers : Phase(d)' = Phase(d)
      BY <2>3 DEF Remove, Phase
    <3>2. QED
      BY <2>3, <3>1 DEF Remove, Key, Promise!Free
  <2>4. CASE UNCHANGED idemVars
    <3>1. \A d \in Callers : Phase(d)' = Phase(d)
      BY <2>4 DEF idemVars, Phase
    <3>2. QED
      BY <2>4, <3>1 DEF idemVars, Key, Promise!vars
  <2>5. ASSUME NEW cmd \in stray, LateSetNX(cmd) PROVE Promise!Next
    <3>1. cmd.key \in Keys /\ cmd.id \in TaskIDs
      BY DEF TypeOK, Call
    <3>2. QED
      BY <2>5, <3>1, LateMaps DEF Promise!Next
  <2>6. QED
    BY <2>1, <2>2, <2>3, <2>4, <2>5, CommandMaps DEF Next, Expire, Delete, Promise!Next
<1>3. QED
  BY <1>1, <1>2, TypeCorrect, PTL DEF Spec, AtomicDecision, Promise!Spec
=============================================================================
