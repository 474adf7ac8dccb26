--------------------------- MODULE IdempotencySpec ---------------------------
(***************************************************************************)
(* What CheckOrSet promises its callers: every call takes one atomic       *)
(* decision about its key.  A caller told "new" found the key free and     *)
(* took it in that very step; a caller told "existing" saw the key taken,  *)
(* and the identifier it is given is the one the key held, or Unknown.     *)
(* A call that ends in an error, or whose first attempt was lost on the    *)
(* wire, may take the key without knowing it, at once (Orphan) or later    *)
(* (Late).                                                                 *)
(*                                                                         *)
(* Idempotency.tla, the model of the code, implements this specification.  *)
(***************************************************************************)
CONSTANTS Callers, Keys, TaskIDs, Absent, Unknown

VARIABLES
  held,     \* Keys -> the identifier the key holds, or Absent
  phase,    \* Callers -> "idle", "called", "answered"
  key,      \* Callers -> the key of the latest call, Absent before the first
  mine,     \* Callers -> the identifier it wants to store there
  loose,    \* keys and identifiers that may still be stored for nobody
  outcome   \* Callers -> the answer of the latest call

vars == <<held, phase, key, mine, loose, outcome>>

NoAnswer == [kind |-> "none", id |-> Absent]

Init ==
  /\ held = [k \in Keys |-> Absent]
  /\ phase = [c \in Callers |-> "idle"]
  /\ outcome = [c \in Callers |-> NoAnswer]
  /\ key = [c \in Callers |-> Absent]
  /\ mine = [c \in Callers |-> Absent]
  /\ loose = {}

Answer(c, kind, id) ==
  /\ phase' = [phase EXCEPT ![c] = "answered"]
  /\ outcome' = [outcome EXCEPT ![c] = [kind |-> kind, id |-> id]]
  /\ UNCHANGED <<key, mine>>

Take(c) ==
  /\ phase[c] = "called"
  /\ held[key[c]] = Absent
  /\ held' = [held EXCEPT ![key[c]] = mine[c]]

Begin(c, k, id) ==
  /\ phase[c] = "idle"
  /\ phase' = [phase EXCEPT ![c] = "called"]
  /\ key' = [key EXCEPT ![c] = k]
  /\ mine' = [mine EXCEPT ![c] = id]
  /\ outcome' = [outcome EXCEPT ![c] = NoAnswer]
  /\ UNCHANGED <<held, loose>>

DecideNew(c) == Take(c) /\ Answer(c, "new", Absent) /\ UNCHANGED loose

DecideExisting(c) ==
  /\ phase[c] = "called"
  /\ held[key[c]] # Absent
  /\ \E id \in {held[key[c]], Unknown} : Answer(c, "existing", id)
  /\ UNCHANGED <<held, loose>>

Loosen(c) == loose' = loose \cup {<<key[c], mine[c]>>}

DecideError(c) ==
  /\ phase[c] = "called"
  /\ Answer(c, "error", Absent)
  /\ Take(c) \/ UNCHANGED held
  /\ Loosen(c) \/ UNCHANGED loose

Orphan(c) ==
  /\ Take(c)
  /\ UNCHANGED <<phase, key, mine, loose, outcome>>

Lose(c) ==
  /\ phase[c] = "called"
  /\ Loosen(c)
  /\ UNCHANGED <<held, phase, key, mine, outcome>>

Late(k, id) ==
  /\ <<k, id>> \in loose
  /\ held[k] = Absent
  /\ held' = [held EXCEPT ![k] = id]
  /\ loose' \in {loose, loose \ {<<k, id>>}}
  /\ UNCHANGED <<phase, key, mine, outcome>>

End(c) ==
  /\ phase[c] = "answered"
  /\ phase' = [phase EXCEPT ![c] = "idle"]
  /\ UNCHANGED <<held, key, mine, loose, outcome>>

Free(k) ==
  /\ held[k] # Absent
  /\ held' = [held EXCEPT ![k] = Absent]
  /\ UNCHANGED <<phase, key, mine, loose, outcome>>

Next ==
  \/ \E c \in Callers, k \in Keys, id \in TaskIDs : Begin(c, k, id)
  \/ \E c \in Callers :
       DecideNew(c) \/ DecideExisting(c) \/ DecideError(c) \/ Orphan(c) \/ Lose(c) \/ End(c)
  \/ \E k \in Keys, id \in TaskIDs : Late(k, id)
  \/ \E k \in Keys : Free(k)

Spec == Init /\ [][Next]_vars
=============================================================================
