------------------------------ MODULE PoolProofs ------------------------------
(***************************************************************************)
(* Theorems about the worker's pool and queues, for any settings, tasks    *)
(* and number of CPUs.                                                     *)
(***************************************************************************)
EXTENDS WorkerPool, FiniteSetTheorems, SequenceTheorems, TLAPS

(* Whatever the settings hold, the pool has a slot. *)
LEMMA PoolIsPositive ==
  ASSUME env \in Envs
  PROVE  PoolSize \in Nat /\ PoolSize > 0
<1>1. ASSUME NEW q \in Names PROVE Concurrency(q) \in Int
  BY <1>1, PoolAssumption DEF Concurrency, getEnvInt
<1>2. /\ Concurrency("critical") \in Int
      /\ Concurrency("default") \in Int
      /\ Concurrency("low") \in Int
  BY <1>1 DEF Names
<1>3. QED
  BY <1>2, PoolAssumption DEF PoolSize

(* A queue that is on has a positive weight, or stands in for all.          *)
LEMMA OnIsConsumed ==
  ASSUME env \in Envs, NEW q, SwitchedOn(q)
  PROVE  q \in Consumed
<1>1. \A n \in Names : Concurrency(n) > 0 <=> ~Off(n)
  <2>1. ASSUME NEW n \in Names PROVE Concurrency(n) > 0 <=> ~Off(n)
    <3>1. env[n] \in Int \cup {Unset, Malformed} /\ DefaultWeight[n] \in Nat \ {0}
      BY <2>1, PoolAssumption
    <3>2. CASE env[n] \in Int
      <4>1. env[n] \notin {Unset, Malformed}
        BY <3>2, PoolAssumption
      <4>2. Concurrency(n) = env[n]
        BY <4>1 DEF Concurrency, getEnvInt
      <4>3. QED
        BY <3>2, <4>2 DEF Off
    <3>3. CASE env[n] \in {Unset, Malformed}
      <4>1. env[n] \notin Int
        BY <3>3, PoolAssumption
      <4>2. Concurrency(n) = DefaultWeight[n]
        BY <3>3 DEF Concurrency, getEnvInt
      <4>3. QED
        BY <3>1, <4>1, <4>2 DEF Off
    <3>4. QED
      BY <3>1, <3>2, <3>3
  <2>2. QED
    BY <2>1
<1>2. Consumed = IF {n \in Names : ~Off(n)} = {} THEN {"default"} ELSE {n \in Names : ~Off(n)}
  BY <1>1 DEF Consumed
<1>3. QED
  BY <1>2 DEF SwitchedOn

-----------------------------------------------------------------------------
(* The types, in the parts that a step keeps for reasons of their own. *)
Simple ==
  /\ env \in Envs
  /\ place \in [Tasks -> {"absent", "pending", "active", "retry"}]
  /\ home \in [Tasks -> Homes]
  /\ pending \in [Homes -> Seq(Tasks)]

Listed == \A q \in Homes, t \in Tasks : OnList(t, q) <=> place[t] = "pending" /\ home[t] = q

Once == \A q \in Homes : \A i, j \in DOMAIN pending[q] : pending[q][i] = pending[q][j] => i = j

LEMMA TypeParts == TypeOK <=> Simple /\ Listed /\ Once
  BY DEF TypeOK, Simple, Listed, Once

LEMMA InitType == Init => TypeOK
<1> SUFFICES ASSUME Init PROVE TypeOK
  OBVIOUS
<1>1. "default" \in Homes
  BY DEF Homes, Names
<1>2. \A q \in Homes : pending[q] = <<>>
  BY DEF Init
<1>3. Simple
  BY <1>1, EmptySeq DEF Init, Simple
<1>4. Listed /\ Once
  BY <1>2 DEF Init, Listed, Once, OnList
<1>5. QED
  BY <1>3, <1>4, TypeParts

(* A list with a task at its end has the tasks it had and that one. *)
LEMMA Appended ==
  ASSUME NEW list \in Seq(Tasks), NEW t \in Tasks
  PROVE  /\ Append(list, t) \in Seq(Tasks)
         /\ DOMAIN Append(list, t) = DOMAIN list \cup {Len(list) + 1}
         /\ Len(list) + 1 \notin DOMAIN list
         /\ \A i \in DOMAIN list : Append(list, t)[i] = list[i]
         /\ Append(list, t)[Len(list) + 1] = t
<1>1. Len(list) \in Nat /\ DOMAIN list = 1..Len(list)
  BY LenProperties
<1>2. DOMAIN Append(list, t) = 1..(Len(list) + 1)
  BY <1>1
<1>3. QED
  BY <1>1, <1>2

(* A task is put on the list of its queue: Submit and Forward. *)
LEMMA PushKeeps ==
  ASSUME TypeOK, NEW t \in Tasks, NEW q \in Homes,
         place[t] # "pending", Move(t, "pending"), Push(t, q),
         home' \in [Tasks -> Homes], home'[t] = q,
         \A u \in Tasks \ {t} : home'[u] = home[u],
         UNCHANGED env
  PROVE  TypeOK'
<1>0. Simple /\ Listed /\ Once
  BY TypeParts
<1> DEFINE list == pending[q]
<1>1. list \in Seq(Tasks) /\ pending'[q] = Append(list, t)
  BY <1>0 DEF Simple, Push
<1>2. \A r \in Homes \ {q} : pending'[r] = pending[r]
  BY <1>0 DEF Simple, Push
<1>3. place'[t] = "pending" /\ \A u \in Tasks \ {t} : place'[u] = place[u]
  BY <1>0 DEF Simple, Move
<1> HIDE DEF list
<1>4. Simple'
  <2>1. Append(list, t) \in Seq(Tasks)
    BY <1>1, Appended
  <2>2. pending' \in [Homes -> Seq(Tasks)]
    BY <1>0, <2>1 DEF Simple, Push, list
  <2>3. QED
    BY <1>0, <2>2 DEF Simple, Move
<1>5. \A u \in Tasks : OnList(u, q)' <=> u = t \/ OnList(u, q)
  <2>1. \A u \in Tasks : OnList(u, q) <=> \E i \in DOMAIN list : list[i] = u
    BY DEF OnList, list
  <2>2. \A u \in Tasks : OnList(u, q)' <=> \E i \in DOMAIN Append(list, t) : Append(list, t)[i] = u
    BY <1>1 DEF OnList
  <2>3. QED
    BY <1>1, <2>1, <2>2, Appended
<1>6. Listed'
  <2>1. \A u \in Tasks, r \in Homes \ {q} : OnList(u, r)' <=> OnList(u, r)
    BY <1>2 DEF OnList
  <2>2. \A r \in Homes : ~OnList(t, r)
    BY <1>0 DEF Listed
  <2>3. QED
    BY <1>0, <1>3, <1>5, <2>1, <2>2 DEF Listed
<1>7. Once'
  <2>1. \A i \in DOMAIN list : list[i] # t
    BY <1>0 DEF Listed, OnList, list
  <2>2. \A i, j \in DOMAIN Append(list, t) : Append(list, t)[i] = Append(list, t)[j] => i = j
    BY <1>0, <1>1, <2>1, Appended DEF Once, list
  <2>3. QED
    BY <1>0, <1>1, <1>2, <2>2 DEF Once
<1>8. QED
  <2>1. TypeOK' <=> (Simple /\ Listed /\ Once)'
    BY TypeParts, PTL
  <2>2. QED
    BY <1>4, <1>6, <1>7, <2>1

(* What is left of a list is the list from its second place on. *)
LEMMA Taken ==
  ASSUME NEW list \in Seq(Tasks), list # <<>>
  PROVE  /\ Head(list) \in Tasks /\ Tail(list) \in Seq(Tasks)
         /\ 1 \in DOMAIN list /\ list[1] = Head(list)
         /\ \A i \in DOMAIN list : i # 1 => i - 1 \in DOMAIN Tail(list)
         /\ \A i \in DOMAIN Tail(list) : /\ i + 1 \in DOMAIN list /\ i + 1 # 1
                                         /\ Tail(list)[i] = list[i + 1]
<1>1. Len(list) \in Nat \ {0} /\ DOMAIN list = 1..Len(list)
  BY EmptySeq, LenProperties
<1>2. Head(list) = list[1] /\ Head(list) \in Tasks
  BY <1>1
<1>3. /\ Tail(list) \in Seq(Tasks)
      /\ Len(Tail(list)) = Len(list) - 1
      /\ \A i \in 1..Len(Tail(list)) : Tail(list)[i] = list[i + 1]
  BY HeadTailProperties
<1>4. DOMAIN Tail(list) = 1..(Len(list) - 1)
  BY <1>3, LenProperties
<1>5. QED
  BY <1>1, <1>2, <1>3, <1>4

(* The oldest task of a list is taken off it. *)
LEMMA DequeueKeeps ==
  ASSUME TypeOK, NEW q \in Homes, Dequeue(q)
  PROVE  TypeOK'
<1>0. Simple /\ Listed /\ Once
  BY TypeParts
<1> DEFINE list == pending[q]
<1> DEFINE t == Head(list)
<1>1. list \in Seq(Tasks) /\ list # <<>> /\ pending'[q] = Tail(list)
  BY <1>0 DEF Simple, Dequeue
<1>2. \A r \in Homes \ {q} : pending'[r] = pending[r]
  BY <1>0 DEF Simple, Dequeue
<1>3. t \in Tasks
  BY <1>1, Taken
<1>4. place'[t] = "active" /\ \A u \in Tasks \ {t} : place'[u] = place[u]
  BY <1>0, <1>3 DEF Simple, Move, Dequeue
<1>5. home' = home
  BY DEF Dequeue
<1>6. \A u \in Tasks : OnList(u, q) <=> \E i \in DOMAIN list : list[i] = u
  BY DEF OnList
<1>7. \A u \in Tasks : OnList(u, q)' <=> \E i \in DOMAIN Tail(list) : Tail(list)[i] = u
  BY <1>1 DEF OnList
<1>8. \A i, j \in DOMAIN list : list[i] = list[j] => i = j
  BY <1>0 DEF Once
<1>9. list[1] = t /\ 1 \in DOMAIN list
  BY <1>1, Taken
<1>10. /\ Tail(list) \in Seq(Tasks)
       /\ \A i \in DOMAIN list : i # 1 => i - 1 \in DOMAIN Tail(list) /\ i \in Int
       /\ \A i \in DOMAIN Tail(list) : /\ i + 1 \in DOMAIN list /\ i + 1 # 1 /\ i \in Int
                                       /\ Tail(list)[i] = list[i + 1]
  BY <1>1, Taken, LenProperties
<1>11. Simple'
  <2>1. pending' \in [Homes -> Seq(Tasks)]
    BY <1>0, <1>10 DEF Simple, Dequeue
  <2>2. QED
    BY <1>0, <1>3, <2>1 DEF Simple, Dequeue, Move
<1> HIDE DEF t, list
<1>12. \A u \in Tasks : OnList(u, q)' <=> u # t /\ OnList(u, q)
  <2>1. ASSUME NEW u \in Tasks, OnList(u, q)' PROVE u # t /\ OnList(u, q)
    <3>1. PICK i \in DOMAIN Tail(list) : Tail(list)[i] = u
      BY <1>7, <2>1
    <3>2. i + 1 \in DOMAIN list /\ i + 1 # 1 /\ list[i + 1] = u
      BY <1>10, <3>1
    <3>3. QED
      BY <1>6, <1>8, <1>9, <3>2
  <2>2. ASSUME NEW u \in Tasks, u # t, OnList(u, q) PROVE OnList(u, q)'
    <3>1. PICK i \in DOMAIN list : list[i] = u
      BY <1>6, <2>2
    <3>2. i # 1
      BY <1>9, <2>2, <3>1
    <3>3. i - 1 \in DOMAIN Tail(list) /\ Tail(list)[i - 1] = u
      BY <1>10, <3>1, <3>2
    <3>4. QED
      BY <1>7, <3>3
  <2>3. QED
    BY <2>1, <2>2
<1>13. Listed'
  <2>1. \A u \in Tasks, r \in Homes \ {q} : OnList(u, r)' <=> OnList(u, r)
    BY <1>2 DEF OnList
  <2>2. OnList(t, q)
    BY <1>3, <1>6, <1>9
  <2>3. place[t] = "pending" /\ home[t] = q
    BY <1>0, <1>3, <2>2 DEF Listed
  <2>4. QED
    BY <1>0, <1>3, <1>4, <1>5, <1>12, <2>1, <2>3 DEF Listed
<1>14. Once'
  <2>1. \A i, j \in DOMAIN Tail(list) : Tail(list)[i] = Tail(list)[j] => i = j
    BY <1>8, <1>10
  <2>2. QED
    BY <1>0, <1>1, <1>2, <2>1 DEF Once
<1>15. QED
  <2>1. TypeOK' <=> (Simple /\ Listed /\ Once)'
    BY TypeParts, PTL
  <2>2. QED
    BY <1>11, <1>13, <1>14, <2>1

(* A handler that is through changes no list: Return and GiveUp. *)
LEMMA EndKeeps ==
  ASSUME TypeOK, NEW t \in Tasks, NEW to \in {"absent", "retry"},
         place[t] = "active", Move(t, to), UNCHANGED <<env, home, pending>>
  PROVE  TypeOK'
<1>0. Simple /\ Listed /\ Once
  BY TypeParts
<1>1. place'[t] = to /\ \A u \in Tasks \ {t} : place'[u] = place[u]
  BY <1>0 DEF Simple, Move
<1>2. Simple'
  BY <1>0 DEF Simple, Move
<1>3. \A u \in Tasks, q \in Homes : OnList(u, q)' <=> OnList(u, q)
  BY DEF OnList
<1>4. Listed'
  BY <1>0, <1>1, <1>3 DEF Listed
<1>5. Once'
  BY <1>0 DEF Once
<1>6. QED
  <2>1. TypeOK' <=> (Simple /\ Listed /\ Once)'
    BY TypeParts, PTL
  <2>2. QED
    BY <1>2, <1>4, <1>5, <2>1

LEMMA NextType == TypeOK /\ [Next]_vars => TypeOK'
<1> SUFFICES ASSUME TypeOK, [Next]_vars PROVE TypeOK'
  OBVIOUS
<1>0. Simple
  BY TypeParts
<1>1. ASSUME NEW t \in Tasks, NEW q \in Homes, Submit(t, q) PROVE TypeOK'
  <2>1. place[t] # "pending" /\ Move(t, "pending") /\ Push(t, q) /\ UNCHANGED env
    BY <1>1 DEF Submit
  <2>2. /\ home' \in [Tasks -> Homes] /\ home'[t] = q
        /\ \A u \in Tasks \ {t} : home'[u] = home[u]
    BY <1>0, <1>1 DEF Submit, Simple
  <2>3. QED
    BY <2>1, <2>2, PushKeeps
<1>2. ASSUME NEW q \in Homes, Dequeue(q) PROVE TypeOK'
  BY <1>2, DequeueKeeps
<1>3. ASSUME NEW t \in Tasks, Return(t) \/ GiveUp(t) PROVE TypeOK'
  <2>1. place[t] = "active" /\ UNCHANGED <<env, home, pending>>
    BY <1>3 DEF Return, GiveUp
  <2>2. Move(t, "absent") \/ Move(t, "retry")
    BY <1>3 DEF Return, GiveUp
  <2>3. QED
    BY <2>1, <2>2, EndKeeps
<1>4. ASSUME NEW t \in Tasks, Forward(t) PROVE TypeOK'
  <2>1. /\ place[t] # "pending" /\ Move(t, "pending") /\ Push(t, home[t])
        /\ UNCHANGED <<env, home>>
    BY <1>4 DEF Forward
  <2>2. home[t] \in Homes /\ home' \in [Tasks -> Homes] /\ home'[t] = home[t]
    BY <1>0, <2>1 DEF Simple
  <2>3. QED
    BY <2>1, <2>2, PushKeeps
<1>5. CASE UNCHANGED vars
  BY <1>5 DEF vars, TypeOK, OnList
<1>6. QED
  BY <1>1, <1>2, <1>3, <1>4, <1>5 DEF Next

(* The types: a task is on its queue's list, once, just while it is         *)
(* pending, so that a goroutine never takes one that another runs.          *)
THEOREM TypeCorrect == Spec => []TypeOK
<1>1. QED
  BY InitType, NextType, PTL DEF Spec

-----------------------------------------------------------------------------
(* As many handlers as slots, at the most; and they are finitely many. *)
Slots == IsFiniteSet(Active) /\ Cardinality(Active) <= PoolSize

LEMMA InitSlots == Init => Slots
<1> SUFFICES ASSUME Init PROVE Slots
  OBVIOUS
<1>1. Active = {}
  BY DEF Active, Init
<1>2. env \in Envs
  BY DEF Init
<1>3. QED
  BY <1>1, <1>2, PoolIsPositive, FS_EmptySet DEF Slots

LEMMA NextSlots == TypeOK /\ Slots /\ [Next]_vars => Slots'
<1> SUFFICES ASSUME TypeOK, Slots, [Next]_vars PROVE Slots'
  OBVIOUS
<1>0. Simple
  BY TypeParts
<1>1. PoolSize' = PoolSize /\ PoolSize \in Nat
  <2>1. env' = env
    BY DEF Next, vars, Submit, Dequeue, Return, GiveUp, Forward
  <2>2. QED
    BY <1>0, <2>1, PoolIsPositive DEF Simple, PoolSize, Concurrency
<1>2. Cardinality(Active) \in Nat
  BY FS_CardinalityType DEF Slots
<1>3. CASE Active' = Active
  BY <1>1, <1>3 DEF Slots
<1>4. ASSUME NEW q \in Homes, Dequeue(q) PROVE Slots'
  <2> DEFINE t == Head(pending[q])
  <2>1. t \in Tasks
    BY <1>0, <1>4, Taken DEF Dequeue, Simple
  <2>2. Active' = Active \cup {t}
    BY <1>0, <1>4, <2>1 DEF Dequeue, Move, Simple, Active
  <2>3. Cardinality(Active) < PoolSize
    BY <1>4 DEF Dequeue
  <2>4. IsFiniteSet(Active \cup {t}) /\ Cardinality(Active \cup {t}) <= Cardinality(Active) + 1
    BY FS_AddElement, <1>2 DEF Slots
  <2>5. Cardinality(Active \cup {t}) \in Nat
    BY <2>4, FS_CardinalityType
  <2> HIDE DEF t
  <2>6. QED
    BY <1>1, <1>2, <2>2, <2>3, <2>4, <2>5 DEF Slots
<1>5. ASSUME NEW t \in Tasks, Return(t) \/ GiveUp(t) PROVE Slots'
  <2>1. Active' = Active \ {t}
    BY <1>0, <1>5 DEF Return, GiveUp, Move, Simple, Active
  <2>2. IsFiniteSet(Active \ {t}) /\ Cardinality(Active \ {t}) <= Cardinality(Active)
    BY FS_RemoveElement, <1>2 DEF Slots
  <2>3. Cardinality(Active \ {t}) \in Nat
    BY <2>2, FS_CardinalityType
  <2>4. QED
    BY <1>1, <1>2, <2>1, <2>2, <2>3 DEF Slots
<1>6. ASSUME NEW t \in Tasks, NEW q \in Homes, Submit(t, q) PROVE Active' = Active
  BY <1>0, <1>6 DEF Submit, Move, Simple, Active
<1>7. ASSUME NEW t \in Tasks, Forward(t) PROVE Active' = Active
  BY <1>0, <1>7 DEF Forward, Move, Simple, Active
<1>8. CASE UNCHANGED vars
  <2>1. Active' = Active
    BY <1>8 DEF vars, Active
  <2>2. QED
    BY <1>3, <2>1
<1>9. QED
  BY <1>3, <1>4, <1>5, <1>6, <1>7, <1>8 DEF Next

(* The pool runs no more handlers than it has slots, and a pending task of  *)
(* a queue that is on waits for a free slot or for an active task.          *)
THEOREM SlotsAlwaysServe == Spec => []SlotsServe
<1>1. TypeOK /\ Slots => SlotsServe
  <2> SUFFICES ASSUME TypeOK, Slots PROVE SlotsServe
    OBVIOUS
  <2>1. env \in Envs
    BY DEF TypeOK
  <2>2. Active = {} => Cardinality(Active) < PoolSize
    BY <2>1, PoolIsPositive, FS_EmptySet
  <2>3. \A t \in Tasks : SwitchedOn(home[t]) => home[t] \in Consumed
    BY <2>1, OnIsConsumed
  <2>4. QED
    BY <2>2, <2>3 DEF SlotsServe, Slots
<1>2. QED
  BY <1>1, InitType, NextType, InitSlots, NextSlots, PTL DEF Spec
=============================================================================
