---------------------------- MODULE SubmissionSpec ----------------------------
(***************************************************************************)
(* What the producer promises to those who submit tasks, with nothing of   *)
(* how it talks to Redis: a key gives one permit while it is taken, a      *)
(* permit gives one task, and what a submitter is told of either is true.  *)
(*                                                                         *)
(* EnqueueAPI.tla, the model of the handlers, implements this.             *)
(***************************************************************************)
CONSTANTS
  Requests,
  Keys,
  NoKey     \* the key of a request that comes without one

VARIABLES
  taken,    \* the keys that give no permit
  key,      \* Requests -> the key the request came with
  stage,    \* Requests -> how far the request has come
  said      \* Requests -> what its client was told

vars == <<taken, key, stage, said>>

Failures == {"bad request", "internal error"}

Init ==
  /\ taken = {}
  /\ key = [r \in Requests |-> NoKey]
  /\ stage = [r \in Requests |-> "idle"]
  /\ said = [r \in Requests |-> "none"]

Move(r, from, to) ==
  /\ stage[r] = from
  /\ stage' = [stage EXCEPT ![r] = to]

Tell(r, what) ==
  /\ said[r] = "none"
  /\ said' = [said EXCEPT ![r] = what]

(* Without a key there is nothing to wait for. *)
Submit(r, k) ==
  /\ \/ Move(r, "idle", IF k = NoKey THEN "permitted" ELSE "open") /\ UNCHANGED said
     \/ Move(r, "idle", "over") /\ Tell(r, "bad request")
  /\ key' = [key EXCEPT ![r] = k]
  /\ UNCHANGED taken

Permit(r) ==
  /\ Move(r, "open", "permitted")
  /\ key[r] \notin taken
  /\ taken' = taken \cup {key[r]}
  /\ UNCHANGED <<key, said>>

(* The key is taken: by another request, or by an earlier try of this one. *)
Duplicate(r) ==
  /\ Move(r, "open", "duplicate")
  /\ key[r] \in taken
  /\ UNCHANGED <<taken, key, said>>

TurnAway(r) ==
  /\ \/ Move(r, "duplicate", "over") /\ Tell(r, "existing")
     \/ Move(r, "open", "over") /\ Tell(r, "internal error")
  /\ UNCHANGED <<taken, key>>

(* The permit is used up; a task may be queued and its client told it is not. *)
Queue(r) ==
  /\ Move(r, "permitted", "queued")
  /\ UNCHANGED said \/ \E what \in {"enqueued"} \cup Failures : Tell(r, what)
  /\ UNCHANGED <<taken, key>>

Confirm(r) ==
  /\ stage[r] = "queued"
  /\ Tell(r, "enqueued")
  /\ UNCHANGED <<taken, key, stage>>

(* A permit is lost, it does not pass to another request. *)
Fail(r) ==
  /\ Move(r, "permitted", "over")
  /\ \E what \in Failures : Tell(r, what)
  /\ UNCHANGED <<taken, key>>

(* Nobody is left to answer. *)
Abandon(r) ==
  /\ \E from \in {"open", "duplicate", "permitted"} : Move(r, from, "over")
  /\ UNCHANGED <<taken, key, said>>

(* A key may be taken without a permit, when a reply of Redis is lost. *)
Block(k) ==
  /\ taken' = taken \cup {k}
  /\ UNCHANGED <<key, stage, said>>

Free(k) ==
  /\ taken' = taken \ {k}
  /\ UNCHANGED <<key, stage, said>>

Next ==
  \/ \E r \in Requests, k \in Keys \cup {NoKey} : Submit(r, k)
  \/ \E r \in Requests :
       \/ Permit(r) \/ Duplicate(r) \/ TurnAway(r)
       \/ Queue(r) \/ Confirm(r) \/ Fail(r) \/ Abandon(r)
  \/ \E k \in Keys : Block(k) \/ Free(k)

Spec == Init /\ [][Next]_vars
=============================================================================
