----------------------------- MODULE Idempotency -----------------------------
(***************************************************************************)
(* The idempotency manager, internal/tasks/idempotency.go.                 *)
(*                                                                         *)
(* CheckOrSet is up to three Redis commands on one key "idem:<key>":       *)
(* SETNX, GET when the SETNX lost, and a second SETNX when the key expired *)
(* between the two.  Each command is one atomic step; other callers, the   *)
(* expiry of the key and Delete interleave between them.  A command may    *)
(* fail before or after Redis applied it, and go-redis resends a command   *)
(* whose reply was lost, so a caller may meet its own first SETNX.  A      *)
(* SETNX that was given up or sent again may still reach Redis, at any     *)
(* time, when its caller has long been answered.                           *)
(***************************************************************************)
EXTENDS Integers, FiniteSets

CONSTANTS
  Callers,     \* concurrent callers of CheckOrSet
  Keys,        \* idempotency keys
  TaskIDs,     \* values callers store under a key
  TTLs,        \* the ttl arguments callers pass; 0 asks for the default
  DefaultTTL,  \* IdempotencyManager.defaultTTL; 0 gives keys without expiry
  Absent,      \* no value under the key
  Unknown      \* the ExistingID "unknown"

ASSUME IdempotencyAssumption ==
  /\ TTLs \subseteq Nat
  /\ DefaultTTL \in Nat
  /\ Absent \notin TaskIDs
  /\ Unknown \notin TaskIDs \cup {Absent}

VARIABLES
  store,     \* Keys -> TaskIDs \cup {Absent}: the Redis string idem:<key>
  volatile,  \* the keys that carry a TTL
  stray,     \* SETNX commands under way whose reply nobody waits for
  at,        \* Callers -> the command the caller is about to issue
  arg,       \* Callers -> the arguments of the latest call
  res,       \* Callers -> the result of the latest call
  granted    \* history: Keys -> the callers told IsNew since it was created

idemVars == <<store, volatile, stray, at, arg, res, granted>>

Key(c) == arg[c].key
Result(kind, id) == [kind |-> kind, id |-> id]
NoResult == Result("none", Absent)
Call == [key : Keys, id : TaskIDs, ttl : Nat]
NoCall == [key |-> Absent, id |-> Absent, ttl |-> 0]

Init ==
  /\ store = [k \in Keys |-> Absent]
  /\ volatile = {}
  /\ stray = {}
  /\ at = [c \in Callers |-> "idle"]
  /\ arg = [c \in Callers |-> NoCall]
  /\ res = [c \in Callers |-> NoResult]
  /\ granted = [k \in Keys |-> {}]

(* Mutant: the default is forgotten. *)
EffectiveTTLWithoutDefault(ttl) == ttl

(* A ttl of zero is replaced by the manager's default. *)
EffectiveTTL(ttl) == IF ttl = 0 THEN DefaultTTL ELSE ttl

(* Mutant: the arguments of the call before are used again. *)
CheckOrSetStaleArguments(c, k, id, ttl) ==
  /\ at[c] = "idle"
  /\ at' = [at EXCEPT ![c] = "setnx"]
  /\ res' = [res EXCEPT ![c] = NoResult]
  /\ UNCHANGED <<store, volatile, stray, arg, granted>>

CheckOrSet(c, k, id, ttl) ==
  /\ at[c] = "idle"
  /\ at' = [at EXCEPT ![c] = "setnx"]
  /\ arg' = [arg EXCEPT ![c] = [key |-> k, id |-> id, ttl |-> EffectiveTTL(ttl)]]
  /\ res' = [res EXCEPT ![c] = NoResult]
  /\ UNCHANGED <<store, volatile, stray, granted>>

(* Mutant: SET in place of SETNX. *)
PutOverwriting(cmd) ==
  /\ store' = [store EXCEPT ![cmd.key] = cmd.id]
  /\ volatile' = IF cmd.ttl > 0 THEN volatile \cup {cmd.key} ELSE volatile \ {cmd.key}

(* SETNX on a free key: Redis creates it. *)
Put(cmd) ==
  /\ store[cmd.key] = Absent
  /\ store' = [store EXCEPT ![cmd.key] = cmd.id]
  /\ volatile' = IF cmd.ttl > 0 THEN volatile \cup {cmd.key} ELSE volatile \ {cmd.key}

Create(c) == Put(arg[c])

Taken(c) == store[Key(c)] # Absent /\ UNCHANGED <<store, volatile>>

(* History: who was told IsNew in the life of the key that now runs. *)
Record(c, told) ==
  granted' = [granted EXCEPT ![Key(c)] =
                (IF store[Key(c)] = Absent THEN {} ELSE @) \cup told]

Answer(c, kind, id) ==
  /\ at' = [at EXCEPT ![c] = "done"]
  /\ res' = [res EXCEPT ![c] = Result(kind, id)]
  /\ UNCHANGED arg

Continue(c, step) ==
  /\ at' = [at EXCEPT ![c] = step]
  /\ UNCHANGED <<arg, res>>

SetNX(c) ==
  /\ at[c] = "setnx"
  /\ \/ Create(c) /\ Answer(c, "new", Absent) /\ Record(c, {c})
     \/ Taken(c) /\ Continue(c, "get") /\ Record(c, {})
  /\ UNCHANGED stray

(* Mutant: redis.Nil is taken for a value. *)
GetKeyMissIsExisting(c) ==
  /\ at[c] = "get"
  /\ Answer(c, "existing", store[Key(c)])
  /\ UNCHANGED <<store, volatile, stray, granted>>

GetKey(c) ==
  /\ at[c] = "get"
  /\ \/ store[Key(c)] # Absent /\ Answer(c, "existing", store[Key(c)])
     \/ store[Key(c)] = Absent /\ Continue(c, "setnx again")
  /\ UNCHANGED <<store, volatile, stray, granted>>

(* Mutant: IsNew whatever the second SETNX replies. *)
SetNXAgainAlwaysNew(c) ==
  /\ at[c] = "setnx again"
  /\ Create(c) \/ Taken(c)
  /\ Answer(c, "new", Absent)
  /\ Record(c, {c})
  /\ UNCHANGED stray

(* Mutant: back to GET when the second SETNX loses as well. *)
SetNXAgainLoops(c) ==
  /\ at[c] = "setnx again"
  /\ \/ Create(c) /\ Answer(c, "new", Absent) /\ Record(c, {c})
     \/ Taken(c) /\ Continue(c, "get") /\ Record(c, {})
  /\ UNCHANGED stray

SetNXAgain(c) ==
  /\ at[c] = "setnx again"
  /\ \/ Create(c) /\ Answer(c, "new", Absent) /\ Record(c, {c})
     \/ Taken(c) /\ Answer(c, "existing", Unknown) /\ Record(c, {})
  /\ UNCHANGED stray

Setting(c) == at[c] \in {"setnx", "setnx again"}

(* Redis applies the SETNX, and its reply is lost. *)
Unheard(c) == Setting(c) /\ Create(c) /\ Record(c, {}) /\ UNCHANGED stray

(* The SETNX has not reached Redis when its caller gives it up. *)
GivenUp(c) == Setting(c) /\ stray' = stray \cup {arg[c]} /\ UNCHANGED <<store, volatile, granted>>

(* A command ends in an error; a SETNX may have been applied all the same,  *)
(* or may be later.                                                         *)
RedisError(c) ==
  /\ at[c] \notin {"idle", "done"}
  /\ Answer(c, "error", Absent)
  /\ \/ UNCHANGED <<store, volatile, stray, granted>>
     \/ Unheard(c)
     \/ GivenUp(c)

(* go-redis sends a SETNX again whose reply did not come. *)
ResendSetNX(c) ==
  /\ Unheard(c) \/ GivenUp(c)
  /\ UNCHANGED <<at, arg, res>>

(* A SETNX comes late to a free key; on a taken key it does nothing.  It is *)
(* still under way afterwards if there was a second one like it.            *)
LateSetNX(cmd) ==
  /\ cmd \in stray
  /\ Put(cmd)
  /\ stray' \in {stray, stray \ {cmd}}
  /\ granted' = [granted EXCEPT ![cmd.key] = {}]
  /\ UNCHANGED <<at, arg, res>>

Return(c) ==
  /\ at[c] = "done"
  /\ at' = [at EXCEPT ![c] = "idle"]
  /\ UNCHANGED <<store, volatile, stray, arg, res, granted>>

Remove(k) ==
  /\ store[k] # Absent
  /\ store' = [store EXCEPT ![k] = Absent]
  /\ volatile' = volatile \ {k}
  /\ UNCHANGED <<stray, at, arg, res, granted>>

Expire(k) == k \in volatile /\ Remove(k)

(* IdempotencyManager.Delete: one DEL, a no-op on a key that is not there. *)
Delete(k) == Remove(k)

Step(c) == SetNX(c) \/ GetKey(c) \/ SetNXAgain(c) \/ RedisError(c) \/ ResendSetNX(c)

Next ==
  \/ \E c \in Callers, k \in Keys, id \in TaskIDs, ttl \in TTLs : CheckOrSet(c, k, id, ttl)
  \/ \E c \in Callers : Step(c) \/ Return(c)
  \/ \E k \in Keys : Expire(k) \/ Delete(k)
  \/ \E cmd \in stray : LateSetNX(cmd)

Spec == Init /\ [][Next]_idemVars

(* A caller's goroutine keeps running, every command ends (go-redis stops   *)
(* resending after three attempts) and Redis drops a key when its TTL ends. *)
Fairness ==
  /\ \A c \in Callers :
       WF_idemVars(SetNX(c)) /\ WF_idemVars(GetKey(c)) /\ WF_idemVars(SetNXAgain(c))
  /\ \A k \in Keys : WF_idemVars(Expire(k))

FairSpec == Spec /\ Fairness

-----------------------------------------------------------------------------
ResultKinds == {"none", "new", "existing", "error"}
Steps == {"idle", "setnx", "get", "setnx again", "done"}

(* Types; a caller inside a call has arguments. *)
TypeOK ==
  /\ store \in [Keys -> TaskIDs \cup {Absent}]
  /\ volatile \subseteq Keys
  /\ stray \subseteq Call
  /\ at \in [Callers -> Steps]
  /\ arg \in [Callers -> Call \cup {NoCall}]
  /\ \A c \in Callers : at[c] # "idle" => arg[c] \in Call
  /\ res \in [Callers -> [kind : ResultKinds, id : TaskIDs \cup {Absent, Unknown}]]
  /\ granted \in [Keys -> SUBSET Callers]

(* In one life of a key, from its creation to its expiry or deletion, at    *)
(* most one caller of CheckOrSet is told IsNew, however the SETNX, GET and  *)
(* second SETNX of concurrent callers interleave with expiry and resends.   *)
OneWinner == \A k \in Keys : \A c, d \in granted[k] : c = d

(* CheckOrSet never overwrites a value: a key that is there keeps its value *)
(* until it expires or is deleted.                                          *)
NeverOverwritten ==
  [][\A k \in Keys : store[k] # Absent => store'[k] \in {store[k], Absent}]_idemVars

(* No call of CheckOrSet loops: GET and the second SETNX are tried once,    *)
(* so every call is answered whatever other callers and expiry do.          *)
CallsAnswered == \A c \in Callers : at[c] = "setnx" ~> at[c] = "done"

(* With a positive default TTL every key that is there carries a TTL, also  *)
(* one that a caller left behind when it failed or was told nothing.        *)
KeysCarryTTL ==
  DefaultTTL > 0 => \A k \in Keys : store[k] # Absent => k \in volatile

(* With a positive default TTL no key stays for ever, whatever ttl the      *)
(* caller passed: a key whose owner died is free again one day.             *)
KeysLapse ==
  DefaultTTL > 0 => \A k \in Keys : store[k] # Absent ~> store[k] = Absent

(* The phase of a caller as IdempotencySpec counts them. *)
Phase(c) == CASE at[c] = "idle" -> "idle"
              [] at[c] = "done" -> "answered"
              [] OTHER -> "called"

(* CheckOrSet is one atomic decision per call; see IdempotencySpec. *)
Promise == INSTANCE IdempotencySpec WITH
  held <- store,
  phase <- [c \in Callers |-> Phase(c)],
  key <- [c \in Callers |-> Key(c)],
  mine <- [c \in Callers |-> arg[c].id],
  loose <- {<<cmd.key, cmd.id>> : cmd \in stray},
  outcome <- res

AtomicDecision == Promise!Spec
=============================================================================
