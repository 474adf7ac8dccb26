----------------------------- MODULE ClientProofs -----------------------------
(***************************************************************************)
(* Theorems about TaskClient, for every set of calls, options, payloads and *)
(* durations and however far the clock runs.                                *)
(***************************************************************************)
EXTENDS TaskClient, TLAPS

-----------------------------------------------------------------------------
(* The options, and the task that is made from them. *)

LEMMA AtLeastZeroNat == ASSUME NEW d \in Int PROVE AtLeastZero(d) \in Nat
  BY DEF AtLeastZero

LEMMA DurationInt == ASSUME NEW d \in Durations \cup {0} PROVE d \in Int
  BY ClientAssumption

LEMMA WrittenType ==
  ASSUME NEW entry \in Entries, NEW opts \in Options, NEW d \in Durations
  PROVE  Written(entry, opts, d) \in Options
  <1>1. AtLeastZero(d) \in Durations \cup {0}
    BY DEF AtLeastZero
  <1> QED BY <1>1 DEF Written, Options, Entries

LEMMA NotMadeApart == NotMade \notin MadeTasks /\ ~IsUnique(NotMade)
  BY DEF NotMade, MadeTasks, Fingerprints, IsUnique

LEMMA MakeType ==
  ASSUME now \in Nat, NEW opts \in Options, NEW p \in Payloads
  PROVE  /\ Make(opts, p) \in MadeTasks
         /\ Make(opts, p).at = now
         /\ Make(opts, p) # NotMade
  <1> DEFINE m == Make(opts, p)
  <1>1. opts.delay \in Int /\ opts.unique \in Int /\ Queue(opts) \in Queues
    <2>1. opts.delay \in Durations \cup {0} /\ opts.unique \in Durations \cup {0}
      BY DEF Options
    <2>2. opts.queue \in Queues \cup {Unset}
      BY DEF Options
    <2>3. opts.delay \in Int /\ opts.unique \in Int
      BY <2>1, DurationInt
    <2>4. Queue(opts) \in Queues
      BY <2>2, ClientAssumption DEF Queue
    <2> QED BY <2>3, <2>4
  <1>2. AtLeastZero(opts.delay) \in Nat
    BY <1>1, AtLeastZeroNat
  <1>3. m.fp \in Fingerprints
    BY <1>1 DEF Make, Fingerprint, Fingerprints
  <1>4. m \in MadeTasks
    BY <1>1, <1>2, <1>3 DEF Make, MadeTasks
  <1> QED BY <1>4, NotMadeApart DEF Make

(* What OptionsStayApart says of a task and the options of one call. *)
SentAs(task, opts) ==
  /\ task.fp[1] = Queue(opts)
  /\ task.due = task.at + AtLeastZero(opts.delay)
  /\ task.until = IF opts.unique > 0 THEN task.due + opts.unique ELSE 0

-----------------------------------------------------------------------------
(* The invariant.  A unique task that is not done holds the lock of its     *)
(* name until its time has run out, so an equal task can only be accepted   *)
(* afterwards.                                                              *)
HoldsLock ==
  \A t \in Calls :
    IsUnique(made[t]) /\ status[t] # "done" /\ now < made[t].until
      => lock[made[t].fp].task = t

MadeInThePast == \A t \in Calls : made[t].at <= now

LockInv == HoldsLock /\ MadeInThePast /\ NoTwinBeforeEnd

(* A call is passed nobody else's own options, and until it sends, they     *)
(* hold what it wrote or what a call that shares them wrote later.          *)
PassedOwn ==
  \A c \in Calls : asked[c] # NotAsked => asked[c].passed \in Objects \cup {Nil, c}

MadeWereAsked == \A c \in Calls : made[c] # NotMade => asked[c] # NotAsked

HeldOptions ==
  \A c \in sending : \E u \in Sharing(c) :
    options[Value(c, asked[c].passed)] = asked[u].opts

OptionsInv == PassedOwn /\ MadeWereAsked /\ HeldOptions /\ OptionsStayApart

ClientInv == TypeOK /\ LockInv /\ OptionsInv

LEMMA ValuesApart ==
  ASSUME NEW c \in Calls, NEW o \in Objects \cup {Nil, c}
  PROVE  /\ o \in Values \cup {Nil} /\ o # NoTask
         /\ o \in Objects => o \notin Calls /\ o # Nil /\ Value(c, o) = o
         /\ o \notin Objects => Value(c, o) = c
         /\ Value(c, o) \in Values
  BY ClientAssumption DEF Value, Values

LEMMA InitHolds == Init => ClientInv
  <1> SUFFICES ASSUME Init PROVE ClientInv
    OBVIOUS
  <1> USE ClientAssumption DEF Init, Life!Init
  <1>1. TypeOK
    <2>1. 0 \in 0..MaxTime /\ 0 \in 0..MaxRetry
      OBVIOUS
    <2>2. lock \in [Fingerprints -> [task : Calls \cup {NoTask}, until : Nat]]
      BY DEF Free
    <2>3. options \in [Values -> Options]
      BY DEF Options, NoOptions
    <2> QED BY <2>1, <2>2, <2>3 DEF TypeOK, Free
  <1>2. \A t \in Calls : ~IsUnique(made[t]) /\ made[t].at = 0
    <2>1. ~IsUnique(NotMade) /\ NotMade.at = 0
      BY NotMadeApart DEF NotMade
    <2>2. \A t \in Calls : made[t] = NotMade
      BY Zenon
    <2> QED BY ONLY <2>1, <2>2, Zenon
  <1>3. HoldsLock /\ NoTwinBeforeEnd
    BY <1>2 DEF HoldsLock, NoTwinBeforeEnd, Twins
  <1>4. now = 0
    OBVIOUS
  <1>5. MadeInThePast
    <2>1. ASSUME NEW t \in Calls PROVE made[t].at <= now
      <3>1. made[t].at = 0 /\ now = 0
        BY <1>2, <1>4
      <3> QED BY ONLY <3>1
    <2> QED BY <2>1 DEF MadeInThePast
  <1>6. OptionsInv
    <2>1. \A c \in Calls : made[c] = NotMade /\ asked[c] = NotAsked
      BY Zenon
    <2>2. sending = {}
      OBVIOUS
    <2> QED BY ONLY <2>1, <2>2
            DEF OptionsInv, PassedOwn, MadeWereAsked, HeldOptions, OptionsStayApart
  <1> QED BY <1>1, <1>3, <1>5, <1>6 DEF ClientInv, LockInv

(* A step that neither sends nor moves a task leaves the locks right. *)
LEMMA NothingMade ==
  ASSUME LockInv, UNCHANGED <<now, made, lock, status>>
  PROVE  LockInv'
  BY DEF LockInv, HoldsLock, MadeInThePast, NoTwinBeforeEnd, Twins, IsUnique

LEMMA NothingAsked ==
  ASSUME OptionsInv, UNCHANGED <<options, sending, asked, made>>
  PROVE  OptionsInv'
  BY DEF OptionsInv, PassedOwn, MadeWereAsked, HeldOptions, OptionsStayApart, Sharing

(* A call writes into its own options, or into those of calls that share    *)
(* them, and then it is the last that wrote there.                          *)
LEMMA BeginKeeps ==
  ASSUME ClientInv, NEW c \in Calls, NEW e \in Entries, NEW o \in Objects \cup {Nil, c},
         NEW given \in Options, NEW d \in Durations, Begin(c, e, o, given, d)
  PROVE  ClientInv'
  <1> USE DEF ClientInv
  <1> DEFINE opts == Written(e, given, d)
             mine == [passed |-> o, opts |-> opts]
  <1>1. opts \in Options
    BY WrittenType
  <1> HIDE DEF opts
  <1>2. /\ asked[c] = NotAsked /\ sending' = sending \cup {c}
        /\ options' = [options EXCEPT ![Value(c, o)] = opts]
        /\ asked' = [asked EXCEPT ![c] = mine]
        /\ UNCHANGED <<now, made, lock, status, strikes>>
    BY DEF Begin, opts
  <1>3. mine # NotAsked /\ mine \in [passed : Values \cup {Nil}, opts : Options]
    BY <1>1, ValuesApart DEF NotAsked
  <1>4. /\ asked'[c] = mine /\ \A u \in Calls \ {c} : asked'[u] = asked[u]
        /\ options'[Value(c, o)] = opts
        /\ \A v \in Values \ {Value(c, o)} : options'[v] = options[v]
    BY <1>2, ValuesApart DEF TypeOK
  <1>5. made[c] = NotMade /\ status[c] = "absent" /\ c \notin sending
    <2>1. made[c] = NotMade
      BY <1>2 DEF OptionsInv, MadeWereAsked
    <2> QED BY <2>1, <1>2 DEF TypeOK
  <1>6. TypeOK'
    <2>1. options' \in [Values -> Options]
      BY <1>1, <1>2, ValuesApart DEF TypeOK
    <2>2. asked' \in [Calls -> [passed : Values \cup {Nil}, opts : Options] \cup {NotAsked}]
      BY <1>2, <1>3 DEF TypeOK
    <2>3. sending' \subseteq {u \in Calls : asked'[u] # NotAsked /\ status'[u] = "absent"}
      BY <1>2, <1>3, <1>4, <1>5 DEF TypeOK
    <2> QED BY <2>1, <2>2, <2>3, <1>2 DEF TypeOK
  <1>7. LockInv'
    BY <1>2, NothingMade
  <1>8. PassedOwn' /\ MadeWereAsked'
    BY <1>2, <1>3, <1>4 DEF OptionsInv, PassedOwn, MadeWereAsked
  <1>9. ASSUME NEW u \in Calls \ {c}, asked[u] # NotAsked
        PROVE  Sharing(u) \ {c} \subseteq Sharing(u)' \ {c} /\ c \notin Sharing(u)
    <2>1. asked[u].passed # NoTask /\ asked[c].passed = NoTask
      BY <1>2, <1>9, ClientAssumption DEF OptionsInv, PassedOwn, NotAsked
    <2> QED BY <2>1, <1>4 DEF Sharing
  <1>10. HeldOptions'
    <2> SUFFICES ASSUME NEW w \in sending'
                 PROVE  \E u \in Sharing(w)' : options'[Value(w, asked'[w].passed)] = asked'[u].opts
      BY DEF HeldOptions
    <2>1. CASE w = c
      BY <2>1, <1>4 DEF Sharing
    <2>2. CASE w # c
      <3>1. /\ w \in sending /\ w \in Calls /\ asked[w] # NotAsked /\ asked'[w] = asked[w]
            /\ asked[w].passed \in Objects \cup {Nil, w}
        BY <2>2, <1>2, <1>4 DEF TypeOK, OptionsInv, PassedOwn
      <3> DEFINE v == Value(w, asked[w].passed)
      <3>2. CASE v = Value(c, o)
        <4>1. o \in Objects /\ asked[w].passed = o /\ o # Nil
          BY <3>1, <3>2, <2>2, ValuesApart
        <4>2. c \in Sharing(w)'
          BY <4>1, <3>1, <1>4 DEF Sharing
        <4> QED BY <4>2, <3>1, <3>2, <1>4
      <3>3. CASE v # Value(c, o)
        <4>1. PICK u \in Sharing(w) : options[v] = asked[u].opts
          BY <3>1 DEF OptionsInv, HeldOptions
        <4>2. u \in Sharing(w)' /\ u # c /\ u \in Calls
          BY <3>1, <1>9, <2>2 DEF Sharing
        <4>3. options'[v] = options[v]
          BY <3>1, <3>3, <1>4, ValuesApart
        <4> QED BY <4>1, <4>2, <4>3, <3>1, <1>4
      <3> QED BY <3>2, <3>3
    <2> QED BY <2>1, <2>2
  <1>11. OptionsStayApart'
    <2> SUFFICES ASSUME NEW w \in Calls, made[w] # NotMade
                 PROVE  \E u \in Sharing(w)' : SentAs(made[w], asked'[u].opts)
      BY <1>2 DEF OptionsStayApart, SentAs
    <2>1. w # c /\ asked[w] # NotAsked
      BY <1>5 DEF OptionsInv, MadeWereAsked
    <2>2. PICK u \in Sharing(w) : SentAs(made[w], asked[u].opts)
      BY DEF OptionsInv, OptionsStayApart, SentAs
    <2>3. u \in Sharing(w)' /\ u \in Calls \ {c}
      BY <1>9, <2>1 DEF Sharing
    <2> QED BY <2>2, <2>3, <1>4
  <1> QED BY <1>6, <1>7, <1>8, <1>10, <1>11 DEF OptionsInv

(* No equal task that is not done still has time left when one is accepted. *)
LEMMA AcceptedAlone ==
  ASSUME ClientInv, NEW c \in Calls, NEW task \in MadeTasks, IsUnique(task), Accept(c, task),
         NEW t \in Calls, IsUnique(made[t]), made[t].fp = task.fp, status[t] # "done"
  PROVE  made[t].until <= now
  <1> SUFFICES ASSUME ~(made[t].until <= now) PROVE FALSE
    OBVIOUS
  <1>1. now \in Nat /\ made[t].until \in Nat
    BY ClientAssumption DEF ClientInv, TypeOK, MadeTasks, NotMade
  <1>2. lock[task.fp].task = t
    BY <1>1 DEF ClientInv, LockInv, HoldsLock
  <1>3. t # NoTask /\ task.fp \in Fingerprints
    BY ClientAssumption DEF MadeTasks
  <1>4. lock[task.fp].until = made[t].until
    BY <1>2, <1>3 DEF ClientInv, TypeOK
  <1>5. Locked(task.fp)
    BY <1>1, <1>2, <1>3, <1>4 DEF Locked
  <1> QED BY <1>5 DEF Accept

LEMMA AcceptKeeps ==
  ASSUME ClientInv, NEW c \in Calls, NEW task \in MadeTasks, task # NotMade, task.at = now,
         Accept(c, task), UNCHANGED <<now, options, asked>>, sending' = sending \ {c}
  PROVE  TypeOK' /\ LockInv'
  <1> USE DEF ClientInv, LockInv
  <1>1. /\ status[c] = "absent" /\ status' = [status EXCEPT ![c] = "open"]
        /\ strikes' = strikes /\ made' = [made EXCEPT ![c] = task]
        /\ lock' = IF IsUnique(task)
                   THEN [lock EXCEPT ![task.fp] = [task |-> c, until |-> task.until]]
                   ELSE lock
    BY DEF Accept, Life!Open, Life!Move
  <1>2. made[c] = NotMade /\ c # NoTask /\ task.fp \in Fingerprints /\ task.until \in Nat
    BY <1>1, ClientAssumption DEF TypeOK, MadeTasks
  <1>3. made' \in [Calls -> MadeTasks \cup {NotMade}] /\ made'[c] = task
    BY <1>1 DEF TypeOK
  <1>4. \A t \in Calls \ {c} : made'[t] = made[t] /\ status'[t] = status[t]
    BY <1>1 DEF TypeOK
  <1>5. status' \in [Calls -> {"absent", "open", "done", "dead"}] /\ status'[c] = "open"
    BY <1>1 DEF TypeOK
  <1>6. lock' \in [Fingerprints -> [task : Calls \cup {NoTask}, until : Nat]]
    BY <1>1, <1>2 DEF TypeOK
  <1>7. ASSUME NEW fp \in Fingerprints, lock'[fp].task # NoTask
        PROVE  /\ made'[lock'[fp].task] # NotMade /\ made'[lock'[fp].task].fp = fp
               /\ lock'[fp].until = made'[lock'[fp].task].until
    <2>1. CASE IsUnique(task) /\ fp = task.fp
      <3>1. lock'[fp] = [task |-> c, until |-> task.until]
        BY <2>1, <1>1, <1>2 DEF TypeOK
      <3> QED BY <3>1, <2>1, <1>3
    <2>2. CASE ~(IsUnique(task) /\ fp = task.fp)
      <3>1. lock'[fp] = lock[fp]
        BY <2>2, <1>1, <1>2 DEF TypeOK
      <3>2. lock[fp].task \in Calls /\ made[lock[fp].task] # NotMade
        BY <3>1, <1>7 DEF TypeOK
      <3>3. lock[fp].task # c
        BY <3>2, <1>2
      <3> QED BY <3>1, <3>2, <3>3, <1>4, <1>7 DEF TypeOK
    <2> QED BY <2>1, <2>2
  <1>8. TypeOK'
    <2>1. \A t \in Calls : status'[t] = "absent" <=> made'[t] = NotMade
      BY <1>3, <1>4, <1>5 DEF TypeOK
    <2>2. now' \in 0..MaxTime /\ strikes' \in [Calls -> 0..MaxRetry]
      BY <1>1 DEF TypeOK
    <2>3. sending' \subseteq {u \in Calls : asked'[u] # NotAsked /\ status'[u] = "absent"}
      BY <1>4 DEF TypeOK
    <2> QED BY <2>1, <2>2, <2>3, <1>3, <1>5, <1>6, <1>7 DEF TypeOK
  <1>9. ASSUME NEW t \in Calls, t # c, IsUnique(task), IsUnique(made[t]),
               made[t].fp = task.fp, status[t] # "done"
        PROVE  made[t].until <= now
    BY <1>9, AcceptedAlone
  <1>10. HoldsLock'
    <2> SUFFICES ASSUME NEW t \in Calls, IsUnique(made'[t]), status'[t] # "done",
                        now < made'[t].until
                 PROVE  lock'[made'[t].fp].task = t
      BY DEF HoldsLock, IsUnique
    <2>1. CASE t = c
      BY <2>1, <1>1, <1>2, <1>3 DEF TypeOK
    <2>2. CASE t # c
      <3>1. made'[t] = made[t] /\ status[t] # "done" /\ IsUnique(made[t])
        BY <2>2, <1>4
      <3>2. lock[made[t].fp].task = t
        BY <3>1 DEF HoldsLock
      <3>3. now \in Nat /\ made[t].until \in Nat
        BY ClientAssumption DEF TypeOK, MadeTasks, NotMade
      <3>4. ~(IsUnique(task) /\ made[t].fp = task.fp)
        BY <3>1, <3>3, <2>2, <1>9
      <3>5. lock'[made[t].fp] = lock[made[t].fp]
        BY <3>4, <1>1, <1>2 DEF TypeOK
      <3> QED BY <3>1, <3>2, <3>5
    <2> QED BY <2>1, <2>2
  <1>11. NoTwinBeforeEnd'
    <2>1. ASSUME NEW t \in Calls \ {c}, Twins(t, c)', status'[t] # "done"
          PROVE  made'[t].until <= made'[c].at
      BY <2>1, <1>3, <1>4, <1>9 DEF Twins, IsUnique
    <2>2. ASSUME NEW t \in Calls \ {c}, NEW u \in Calls \ {c}, t # u, Twins(t, u)',
                 status'[t] # "done", status'[u] # "done"
          PROVE  made'[t].until <= made'[u].at \/ made'[u].until <= made'[t].at
      BY <2>2, <1>4 DEF NoTwinBeforeEnd, Twins, IsUnique
    <2>3. \A t, u : Twins(t, u)' <=> Twins(u, t)'
      BY DEF Twins
    <2> QED BY <2>1, <2>2, <2>3 DEF NoTwinBeforeEnd
  <1>12. MadeInThePast'
    <2>1. now \in Nat
      BY ClientAssumption DEF TypeOK
    <2> QED BY <2>1, <1>3, <1>4 DEF MadeInThePast
  <1> QED BY <1>8, <1>10, <1>11, <1>12

(* The task is made from what a call that shares the options wrote. *)
LEMMA SendKeeps ==
  ASSUME ClientInv, NEW c \in Calls, NEW p \in Payloads, Send(c, p)
  PROVE  ClientInv'
  <1> USE DEF ClientInv
  <1> DEFINE held == options[Value(c, asked[c].passed)]
             task == Make(held, p)
  <1>1. /\ c \in sending /\ sending' = sending \ {c} /\ UNCHANGED <<now, options, asked>>
        /\ Accept(c, task) \/ UNCHANGED <<made, lock, status, strikes>>
    BY DEF Send
  <1>2. asked[c] # NotAsked /\ asked[c].passed \in Objects \cup {Nil, c}
    BY <1>1 DEF TypeOK, OptionsInv, PassedOwn
  <1>3. held \in Options /\ now \in Nat
    BY <1>2, ValuesApart, ClientAssumption DEF TypeOK
  <1> HIDE DEF held
  <1>4. task \in MadeTasks /\ task.at = now /\ task # NotMade
    BY <1>3, MakeType
  <1>5. SentAs(task, held)
    BY DEF SentAs, Make, Fingerprint
  <1> HIDE DEF task
  <1>6. PassedOwn' /\ HeldOptions'
    BY <1>1 DEF OptionsInv, PassedOwn, HeldOptions, Sharing
  <1>7. CASE Accept(c, task)
    <2>1. TypeOK' /\ LockInv'
      BY <1>1, <1>4, <1>7, AcceptKeeps
    <2>2. made' = [made EXCEPT ![c] = task]
      BY <1>7 DEF Accept
    <2>3. MadeWereAsked'
      BY <2>2, <1>1, <1>2 DEF OptionsInv, MadeWereAsked, TypeOK
    <2>4. OptionsStayApart'
      <3> SUFFICES ASSUME NEW w \in Calls, made'[w] # NotMade
                   PROVE  \E u \in Sharing(w) : SentAs(made'[w], asked[u].opts)
        BY <1>1 DEF OptionsStayApart, SentAs, Sharing
      <3>1. CASE w = c
        <4>1. PICK u \in Sharing(c) : held = asked[u].opts
          BY <1>1 DEF OptionsInv, HeldOptions, held
        <4> QED BY <3>1, <4>1, <1>5, <2>2 DEF TypeOK
      <3>2. CASE w # c
        BY <3>2, <2>2 DEF OptionsInv, OptionsStayApart, SentAs, TypeOK
      <3> QED BY <3>1, <3>2
    <2> QED BY <2>1, <2>3, <2>4, <1>6 DEF OptionsInv
  <1>8. CASE UNCHANGED <<made, lock, status, strikes>>
    <2>1. TypeOK'
      BY <1>1, <1>8 DEF TypeOK
    <2>2. LockInv'
      BY <1>1, <1>8, NothingMade
    <2>3. MadeWereAsked' /\ OptionsStayApart'
      BY <1>1, <1>8 DEF OptionsInv, MadeWereAsked, OptionsStayApart, Sharing
    <2> QED BY <2>1, <2>2, <2>3, <1>6 DEF OptionsInv
  <1> QED BY <1>1, <1>7, <1>8

(* What the steps that make no task have in common: the status of a task    *)
(* only moves on, and the locks stay, but for the own lock of a task that   *)
(* is done.                                                                 *)
LEMMA StatusMoves ==
  ASSUME ClientInv, UNCHANGED <<now, options, sending, asked, made>>,
         status' \in [Calls -> {"absent", "open", "done", "dead"}],
         strikes' \in [Calls -> 0..MaxRetry],
         \A t \in Calls : /\ status[t] = "done" => status'[t] = "done"
                          /\ status[t] = "absent" <=> status'[t] = "absent",
         lock' \in [Fingerprints -> [task : Calls \cup {NoTask}, until : Nat]],
         \A fp \in Fingerprints :
           \/ lock'[fp] = lock[fp]
           \/ lock'[fp] = Free /\ (lock[fp].task \in Calls => status'[lock[fp].task] = "done")
  PROVE  ClientInv'
  <1> USE DEF ClientInv, LockInv
  <1>1. TypeOK'
    <2>1. ASSUME NEW fp \in Fingerprints, lock'[fp].task # NoTask
          PROVE  lock'[fp] = lock[fp]
      BY <2>1 DEF Free
    <2> QED BY <2>1 DEF TypeOK
  <1>2. HoldsLock'
    <2> SUFFICES ASSUME NEW t \in Calls, IsUnique(made[t]), status'[t] # "done",
                        now < made[t].until
                 PROVE  lock'[made[t].fp].task = t
      BY DEF HoldsLock
    <2>1. lock[made[t].fp].task = t
      BY DEF HoldsLock
    <2>2. made[t] # NotMade
      BY DEF IsUnique, NotMade
    <2>3. made[t] \in MadeTasks
      BY <2>2 DEF TypeOK
    <2>4. made[t].fp \in Fingerprints
      BY <2>3 DEF MadeTasks
    <2> QED BY <2>1, <2>4
  <1>3. NoTwinBeforeEnd'
    BY DEF NoTwinBeforeEnd, Twins
  <1>4. OptionsInv'
    BY NothingAsked
  <1> QED BY <1>1, <1>2, <1>3, <1>4 DEF MadeInThePast

LEMMA DoneKeeps ==
  ASSUME ClientInv, NEW t \in Calls, Done(t) PROVE ClientInv'
  <1> USE DEF ClientInv
  <1>1. /\ UNCHANGED <<now, options, sending, asked, made, strikes>> /\ Release(t)
        /\ status[t] = "open" /\ status' = [status EXCEPT ![t] = "done"]
    BY DEF Done, Life!Finish, Life!Move
  <1>2. lock' \in [Fingerprints -> [task : Calls \cup {NoTask}, until : Nat]]
    BY <1>1 DEF Release, TypeOK, Free
  <1>3. ASSUME NEW fp \in Fingerprints, lock'[fp] # lock[fp]
        PROVE  lock'[fp] = Free /\ lock[fp].task = t
    BY <1>1, <1>3 DEF Release, TypeOK
  <1>4. status' \in [Calls -> {"absent", "open", "done", "dead"}] /\ status'[t] = "done"
    BY <1>1 DEF TypeOK
  <1>5. \A u \in Calls : /\ status[u] = "done" => status'[u] = "done"
                         /\ status[u] = "absent" <=> status'[u] = "absent"
    BY <1>1 DEF TypeOK
  <1>6. strikes' \in [Calls -> 0..MaxRetry]
    BY <1>1 DEF TypeOK
  <1> QED BY <1>1, <1>2, <1>3, <1>4, <1>5, <1>6, StatusMoves

LEMMA FailKeeps ==
  ASSUME ClientInv, NEW t \in Calls, Fail(t) PROVE ClientInv'
  <1> USE DEF ClientInv
  <1>1. /\ UNCHANGED <<now, options, sending, asked, made, lock>> /\ status[t] = "open"
        /\ \/ strikes[t] < MaxRetry /\ strikes' = [strikes EXCEPT ![t] = @ + 1] /\ status' = status
           \/ strikes' = strikes /\ status' = [status EXCEPT ![t] = "dead"]
    BY DEF Fail, Life!Strike, Life!Bury, Life!Move
  <1>2. strikes' \in [Calls -> 0..MaxRetry]
    BY <1>1, ClientAssumption DEF TypeOK
  <1>3. status' \in [Calls -> {"absent", "open", "done", "dead"}]
    BY <1>1 DEF TypeOK
  <1>4. \A u \in Calls : /\ status[u] = "done" => status'[u] = "done"
                         /\ status[u] = "absent" <=> status'[u] = "absent"
    BY <1>1 DEF TypeOK
  <1>5. lock' \in [Fingerprints -> [task : Calls \cup {NoTask}, until : Nat]]
    BY <1>1 DEF TypeOK
  <1> QED BY <1>1, <1>2, <1>3, <1>4, <1>5, StatusMoves

LEMMA ReplayKeeps ==
  ASSUME ClientInv, Replay PROVE ClientInv'
  <1> USE DEF ClientInv
  <1>1. PICK S \in SUBSET Calls :
          /\ \A t \in S : status[t] = "dead"
          /\ status' = [t \in Calls |-> IF t \in S THEN "open" ELSE status[t]]
    BY DEF Replay, Life!Reopen
  <1>2. UNCHANGED <<now, options, sending, asked, made, lock, strikes>>
    BY DEF Replay, Life!Reopen
  <1>3. status' \in [Calls -> {"absent", "open", "done", "dead"}]
    BY <1>1 DEF TypeOK
  <1>4. \A u \in Calls : /\ status[u] = "done" => status'[u] = "done"
                         /\ status[u] = "absent" <=> status'[u] = "absent"
    BY <1>1 DEF TypeOK
  <1>5. /\ lock' \in [Fingerprints -> [task : Calls \cup {NoTask}, until : Nat]]
        /\ strikes' \in [Calls -> 0..MaxRetry]
    BY <1>2 DEF TypeOK
  <1> QED BY <1>2, <1>3, <1>4, <1>5, StatusMoves

LEMMA TickKeeps ==
  ASSUME ClientInv, Tick PROVE ClientInv'
  <1> USE DEF ClientInv, LockInv
  <1>1. /\ now \in Nat /\ now' = now + 1 /\ now' \in 0..MaxTime
        /\ UNCHANGED <<options, sending, asked, made, lock, status, strikes>>
    BY ClientAssumption DEF Tick, TypeOK
  <1>2. \A t \in Calls : made[t].at \in Nat /\ made[t].until \in Nat
    BY DEF TypeOK, MadeTasks, NotMade
  <1>3. TypeOK'
    BY <1>1 DEF TypeOK
  <1>4. HoldsLock' /\ MadeInThePast'
    BY <1>1, <1>2 DEF HoldsLock, MadeInThePast
  <1>5. NoTwinBeforeEnd' /\ OptionsInv'
    BY <1>1, NothingAsked DEF NoTwinBeforeEnd, Twins
  <1> QED BY <1>3, <1>4, <1>5

LEMMA StepKeeps == ClientInv /\ [Next]_vars => ClientInv'
  <1> SUFFICES ASSUME ClientInv, [Next]_vars PROVE ClientInv'
    OBVIOUS
  <1>1. ASSUME NEW c \in Calls, NEW e \in Entries, NEW d \in Durations,
               \/ \E o \in Objects \cup {Nil} : Call(c, e, o, d)
               \/ \E opts \in Given : CallWithOwn(c, e, opts, d)
        PROVE  ClientInv'
    <2>1. ASSUME NEW o \in Objects \cup {Nil}, Call(c, e, o, d) PROVE ClientInv'
      <3>1. (IF o = Nil THEN NoOptions ELSE options[o]) \in Options
        BY DEF ClientInv, TypeOK, Values, NoOptions, Options
      <3> QED BY <2>1, <3>1, BeginKeeps DEF Call
    <2>2. ASSUME NEW opts \in Given, CallWithOwn(c, e, opts, d) PROVE ClientInv'
      BY <2>2, BeginKeeps, ClientAssumption DEF CallWithOwn
    <2> QED BY <1>1, <2>1, <2>2
  <1>2. ASSUME NEW c \in Calls, NEW p \in Payloads, Send(c, p)
        PROVE  ClientInv'
    BY <1>2, SendKeeps
  <1>3. ASSUME NEW c \in Calls, Done(c) \/ Fail(c) PROVE ClientInv'
    BY <1>3, DoneKeeps, FailKeeps
  <1>4. CASE Replay
    BY <1>4, ReplayKeeps
  <1>5. CASE Tick
    BY <1>5, TickKeeps
  <1>6. CASE UNCHANGED vars
    BY <1>6, NothingMade, NothingAsked DEF vars, ClientInv, TypeOK
  <1> QED BY <1>1, <1>2, <1>3, <1>4, <1>5, <1>6 DEF Next

LEMMA Inductive == Spec => []ClientInv
  BY InitHolds, StepKeeps, PTL DEF Spec

(* The options, tasks and locks of the client keep their types. *)
THEOREM TypeCorrect == Spec => []TypeOK
  BY Inductive, PTL DEF ClientInv

(* Two equal unique tasks that are not done: one was accepted after the     *)
(* other's lock had run out, whatever completed, failed or was replayed.    *)
THEOREM UniqueTasks == Spec => []NoTwinBeforeEnd
  BY Inductive, PTL DEF ClientInv, LockInv

(* However the calls of concurrent callers interleave between writing and   *)
(* reading their options, what reaches a task is what its own call asked    *)
(* for, or a call that was passed the same value.                           *)
THEOREM OptionsApart == Spec => []OptionsStayApart
  BY Inductive, PTL DEF ClientInv, OptionsInv
=============================================================================
