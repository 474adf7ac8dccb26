------------------------------- MODULE Producer -------------------------------
(***************************************************************************)
(* A producer process, cmd/producer/main.go and internal/web/server.go,    *)
(* around the handlers of EnqueueAPI.                                      *)
(*                                                                         *)
(* main waits for a signal while a goroutine runs Start, which assigns     *)
(* s.server and listens.  Shutdown closes the listener and waits for the   *)
(* handlers, 30 seconds at most; then main closes the Redis client of the  *)
(* idempotency manager and returns.  The requests in Here reach this       *)
(* process, the others another replica on the same Redis.                  *)
(***************************************************************************)
EXTENDS EnqueueAPI

CONSTANT Here   \* the requests this process is sent

ASSUME ProducerAssumption == Here \subseteq Requests

VARIABLES
  signalled, \* a signal waits in the channel done, of capacity one
  main,      \* where main is
  starter,   \* where the goroutine of Start is
  server,    \* s.server: "nil", "assigned", "listening", "closed"
  late       \* the 30 seconds of shutdownCtx are over

procVars == <<signalled, main, starter, server, late>>
producerVars == <<vars, procVars>>

ProducerInit ==
  /\ Init
  /\ signalled = FALSE
  /\ main = "waiting" /\ starter = "starting"
  /\ server = "nil" /\ late = FALSE

Ended == {"exited", "panicked", "crashed"}
Alive == main \notin Ended
Busy(r) == pc[r] \in Running

(* Once redisClient.Close has been called. *)
RedisClosed == main = "leaving"

-----------------------------------------------------------------------------
(* A signal on a full channel is dropped. *)
Signal ==
  /\ Alive /\ ~signalled
  /\ signalled' = TRUE
  /\ UNCHANGED <<main, starter, server, late>>

Assign ==
  /\ Alive /\ starter = "starting" /\ server = "nil"
  /\ server' = "assigned"
  /\ UNCHANGED <<signalled, main, starter, late>>

(* Mutant: ListenAndServe after Shutdown listens all the same. *)
ListenReopens ==
  /\ Alive /\ starter = "starting"
  /\ \/ server \in {"assigned", "closed"} /\ server' = "listening" /\ starter' = "serving"
     \/ server = "assigned" /\ UNCHANGED server /\ starter' = "failed"
  /\ UNCHANGED <<signalled, main, late>>

(* ListenAndServe serves, fails to bind, or finds the server shut down.     *)
Listen ==
  /\ Alive /\ starter = "starting"
  /\ \/ server = "assigned" /\ server' = "listening" /\ starter' = "serving"
     \/ server \in {"assigned", "closed"} /\ UNCHANGED server /\ starter' = "failed"
  /\ UNCHANGED <<signalled, main, late>>

(* ErrServerClosed is an error like any other to the goroutine. *)
ServeReturns ==
  /\ Alive /\ starter = "serving" /\ server = "closed"
  /\ starter' = "failed"
  /\ UNCHANGED <<signalled, main, server, late>>

(* Mutant: the error of Start is only logged. *)
StartFailedSilently ==
  /\ Alive /\ starter = "failed" /\ ~signalled
  /\ starter' = "returned"
  /\ UNCHANGED <<signalled, main, server, late>>

(* done <- syscall.SIGTERM blocks while the channel is full. *)
StartFailed ==
  /\ Alive /\ starter = "failed" /\ ~signalled
  /\ signalled' = TRUE
  /\ starter' = "returned"
  /\ UNCHANGED <<main, server, late>>

MainWakes ==
  /\ main = "waiting" /\ signalled
  /\ signalled' = FALSE
  /\ main' = "shutdown"
  /\ UNCHANGED <<starter, server, late>>

(* Nothing is left of the process. *)
End(how) ==
  /\ main' = how
  /\ signalled' = FALSE /\ starter' = "returned" /\ server' = "closed"
  /\ UNCHANGED late

(* Server.Shutdown dereferences s.server.  Nothing orders the assignment    *)
(* before this read while Start runs, so it may still see nil and panic.    *)
Shutdown ==
  /\ main = "shutdown"
  /\ \/ server \in {"nil", "assigned"} /\ starter = "starting" /\ End("panicked")
     \/ /\ server # "nil"
        /\ server' = "closed" /\ main' = "draining"
        /\ UNCHANGED <<signalled, starter, late>>

Deadline ==
  /\ main \in {"shutdown", "draining"} /\ ~late
  /\ late' = TRUE
  /\ UNCHANGED <<signalled, main, starter, server>>

(* Mutant: the clients are closed without a wait for the handlers. *)
DrainedEarly ==
  /\ main = "draining"
  /\ main' = "closing"
  /\ UNCHANGED <<signalled, starter, server, late>>

(* http.Server.Shutdown returns: no handler runs, or time is up. *)
Drained ==
  /\ main = "draining"
  /\ late \/ \A r \in Here : ~Busy(r)
  /\ main' = "closing"
  /\ UNCHANGED <<signalled, starter, server, late>>

CloseRedis ==
  /\ main = "closing"
  /\ main' = "leaving"
  /\ UNCHANGED <<signalled, starter, server, late>>

(* The deferred tasksClient.Close, and the end. *)
Exit == main = "leaving" /\ End("exited")

Crash == Alive /\ End("crashed")

MainSteps == MainWakes \/ Shutdown \/ Drained \/ CloseRedis \/ Exit
StarterSteps == Assign \/ Listen \/ ServeReturns \/ StartFailed

-----------------------------------------------------------------------------
(* A request counts as received once its connection is accepted: Shutdown   *)
(* waits for connections that are new as well as for running handlers.      *)
ReceiveHere(r, in) == Alive /\ server = "listening" /\ Receive(r, in)

Calling(r) == at[r] \notin {"idle", "done"}

(* A handler of this process; its commands fail on a closed client. *)
HandleHere(r) ==
  /\ Alive
  /\ Handle(r)
  /\ (RedisClosed /\ Calling(r)) => (Idem!RedisError(r) /\ UNCHANGED <<store, stray>>)

(* Handlers end with their process and not before. *)
DieHere(r) == ~Alive /\ Die(r)

ServeHere(r) == HandleHere(r) \/ DieHere(r)
ServeElsewhere(r) == Handle(r) \/ Die(r)

ProducerNext ==
  \/ /\ Signal \/ MainSteps \/ StarterSteps \/ Deadline \/ Crash
     /\ UNCHANGED vars
  \/ /\ \/ \E r \in Here, in \in Inputs : ReceiveHere(r, in)
        \/ \E r \in Here : ServeHere(r)
        \/ \E r \in Requests \ Here, in \in Inputs : Receive(r, in)
        \/ \E r \in Requests \ Here : ServeElsewhere(r)
        \/ \E k \in Keys : Expire(k)
        \/ \E cmd \in stray : LateSetNX(cmd)
     /\ UNCHANGED procVars

ProducerSpec == ProducerInit /\ [][ProducerNext]_producerVars

(* Goroutines are scheduled, timers fire, and the calls of a handler have   *)
(* timeouts of their own, so it goes on until it returns or the process     *)
(* ends.                                                                    *)
ProducerFairSpec ==
  /\ ProducerSpec
  /\ WF_procVars(MainSteps)
  /\ WF_procVars(StarterSteps)
  /\ WF_procVars(Deadline)
  /\ \A r \in Here : WF_vars(ServeHere(r))
  /\ \A r \in Requests \ Here : WF_vars(Handle(r))

-----------------------------------------------------------------------------
(* Types of the process, and what its two goroutines know of the server.    *)
ProducerTypeOK ==
  /\ signalled \in BOOLEAN /\ late \in BOOLEAN
  /\ main \in {"waiting", "shutdown", "draining", "closing", "leaving"} \cup Ended
  /\ starter \in {"starting", "serving", "failed", "returned"}
  /\ server \in {"nil", "assigned", "listening", "closed"}
  /\ server = "nil" => starter = "starting"
  /\ server = "listening" => starter = "serving"
  /\ main \in {"draining", "closing", "leaving"} \cup Ended => server = "closed"

(* A graceful stop loses no request: unless the 30 seconds run out or the   *)
(* process crashes, no handler of this process is cut off before it has     *)
(* answered, or left to work with a closed client.  A panic in Shutdown     *)
(* comes before the first request.                                          *)
GracefulStop ==
  ~late /\ main # "crashed" =>
    \A r \in Here : pc[r] # "dead" /\ (RedisClosed \/ ~Alive => ~Busy(r))

(* A signal or a failed start ends the process, even if the channel of      *)
(* signals is full, Start has not got to the server yet or handlers still   *)
(* run when time is up.                                                     *)
ProducerStops == (signalled /\ main = "waiting") \/ starter = "failed" ~> ~Alive
=============================================================================
