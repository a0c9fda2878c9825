---------------------------- MODULE ServiceLifecycle ----------------------------
(***************************************************************************)
(* Start and shutdown of the service (packages/core/src/app.ts) with the   *)
(* resources they open and close: the NATS connection of NATSPublisher, the*)
(* retry queue and the database pool, while records are being processed.   *)
(*                                                                         *)
(* A job is a call of processInserts with what called it, as in            *)
(* OutboxReader; here only the resource it is waiting for matters, and the *)
(* outcome of a query or a publish is left open.  Delays, and the tries of *)
(* backOff, are left out.                                                  *)
(***************************************************************************)
EXTENDS Naturals, FiniteSets

CONSTANTS
  Record,         \* the records the WAL delivers while the process lives
  NumOfAttempts,  \* retryQueueConfig.numOfAttempts
  \* Bound.
  MaxSessions     \* NATS sessions opened

ASSUME LifecycleAssumption ==
  NumOfAttempts \in Nat \ {0} /\ MaxSessions \in Nat

VARIABLES
  provider,    \* the provider the configuration file names
  start,       \* how far the start of app.ts is
  shutdown,    \* how far the shutdown is
  signals,     \* the signals received
  streaming,   \* whether the slot's changes arrive
  queue,       \* retryQueue: none yet, or its stopped flag
  connection,  \* NATSPublisher.connection, 0 for null
  sessions,    \* the open NATS sessions
  opened,      \* how many have been opened
  pool,        \* the database pool
  arrived,     \* the records that were delivered
  jobs         \* the jobs

lifecycle == <<provider, start, shutdown, signals, streaming, queue, pool>>
nats      == <<connection, sessions, opened>>
work      == <<arrived, jobs>>
vars      == <<provider, start, shutdown, signals, streaming, queue, connection, sessions,
               opened, pool, arrived, jobs>>

Signal == {"SIGTERM", "SIGINT"}

KNOWN_PROVIDERS == {"nats", "sqs", "kafka"}

\* loadPublisherConfig does not throw.
Loadable == provider \in KNOWN_PROVIDERS

\* createPublisher does not throw: the other two are not implemented.
Implemented == provider = "nats"

Job == [id      : Record,
        origin  : {"batch", "queue"},
        attempt : 0 .. NumOfAttempts - 1,
        stage   : {"reading", "connecting", "publishing", "marking", "failing", "timer"},
        session : 0 .. MaxSessions]     \* the session a publish uses

TypeOK ==
  /\ provider \in KNOWN_PROVIDERS \cup {"other"}
  /\ start \in {"loading", "connecting", "subscribing", "subscribed", "failed"}
  /\ shutdown \in {"none", "stopping", "closing", "ending", "flushing", "exited"}
  /\ signals \subseteq Signal
  /\ streaming \in BOOLEAN
  /\ queue \in {"none", "open", "stopped"}
  /\ sessions \subseteq 1 .. opened
  /\ connection \in 0 .. opened /\ opened \in 0 .. MaxSessions
  /\ pool \in {"open", "ending", "ended"}
  /\ arrived \subseteq Record
  /\ jobs \subseteq Job
  /\ \A j \in jobs : j.id \in arrived

Init ==
  /\ provider \in KNOWN_PROVIDERS \cup {"other"}
  /\ start = "loading" /\ shutdown = "none" /\ signals = {}
  /\ streaming = FALSE /\ queue = "none" /\ pool = "open"
  /\ connection = 0 /\ sessions = {} /\ opened = 0
  /\ arrived = {} /\ jobs = {}

Alive == shutdown # "exited"

-------------------------------------------------------------------------------
\* The NATS connection.

(* nats opens a session; connect() overwrites the field with it.            *)
Opens ==
  /\ opened < MaxSessions
  /\ opened' = opened + 1
  /\ sessions' = sessions \cup {opened + 1}
  /\ connection' = opened + 1

(* The server ends a session for good: nats gives reconnecting up.  Nobody  *)
(* looks at isConnected, and connect() takes the field for connected.       *)
SessionLost(s) ==
  /\ Alive
  /\ s \in sessions
  /\ sessions' = sessions \ {s}
  /\ UNCHANGED <<connection, opened, lifecycle, work>>

-------------------------------------------------------------------------------
\* The start.

\* Faulty (mutation runs): the connection is left to the first publish.
LoadsAndSubscribes ==
  /\ Alive /\ start = "loading"
  /\ start' = "subscribing"
  /\ queue' = "open"
  /\ UNCHANGED <<provider, shutdown, signals, streaming, pool, nats, work>>

(* The configuration is read, and names a provider there is a publisher for.*)
LoadsPublisher ==
  /\ Alive /\ start = "loading"
  /\ Loadable /\ Implemented
  /\ start' = "connecting"
  /\ UNCHANGED <<provider, shutdown, signals, streaming, queue, pool, nats, work>>

Connects ==
  /\ Alive /\ start = "connecting"
  /\ Opens
  /\ start' = "subscribing"
  /\ queue' = "open"
  /\ UNCHANGED <<provider, shutdown, signals, streaming, pool, work>>

(* The server starts to stream; subscribe may return then, or much later.   *)
Streams ==
  /\ Alive /\ start = "subscribing" /\ ~streaming
  /\ streaming' = TRUE
  /\ UNCHANGED <<provider, start, shutdown, signals, queue, pool, nats, work>>

(* subscribe returns, and only now is replicationService assigned.          *)
Subscribed ==
  /\ Alive /\ start = "subscribing" /\ streaming
  /\ start' = "subscribed"
  /\ UNCHANGED <<provider, shutdown, signals, streaming, queue, pool, nats, work>>

(* An error of any step: a file that cannot be read or parsed, a provider   *)
(* that is unknown or not implemented, a refused connection, a slot that    *)
(* does not exist.  It is logged, and the process goes on without.          *)
StartFails ==
  /\ Alive /\ start \in {"loading", "connecting", "subscribing"}
  /\ start' = "failed"
  /\ streaming' = FALSE
  /\ UNCHANGED <<provider, shutdown, signals, queue, pool, nats, work>>

-------------------------------------------------------------------------------
\* Jobs.

Becomes(j, k) == jobs' = (jobs \ {j}) \cup {k}

InStage(j, stage) == Alive /\ j \in jobs /\ j.stage = stage

Batch == {j \in jobs : j.origin = "batch"}

(* A transaction arrives, after the last one was handled: onChange sends    *)
(* its SELECT.                                                              *)
Arrives(R) ==
  /\ Alive /\ streaming /\ pool = "open"
  /\ Batch = {}
  /\ R # {} /\ R \cap arrived = {}
  /\ arrived' = arrived \cup R
  /\ jobs' = jobs \cup {[id |-> r, origin |-> "batch", attempt |-> 0,
                          stage |-> "reading", session |-> 0] : r \in R}
  /\ UNCHANGED <<lifecycle, nats>>

\* Faulty (mutation runs): one attempt too many.
FailsOffByOne(j) ==
  IF j.origin = "queue" /\ j.attempt >= NumOfAttempts
  THEN pool = "open" /\ Becomes(j, [j EXCEPT !.stage = "failing", !.session = 0])
  ELSE Becomes(j, [j EXCEPT !.origin = "queue", !.stage = "timer", !.session = 0,
                            !.attempt = IF j.origin = "batch" THEN 0 ELSE @ + 1])

(* processInserts throws.  The retry queue, stopped or not, sets a timer,   *)
(* or gives the record up; a markAsFailed the pool rejects is Dies.         *)
Fails(j) ==
  IF j.origin = "queue" /\ j.attempt + 1 >= NumOfAttempts
  THEN pool = "open" /\ Becomes(j, [j EXCEPT !.stage = "failing", !.session = 0])
  ELSE Becomes(j, [j EXCEPT !.origin = "queue", !.stage = "timer", !.session = 0,
                            !.attempt = IF j.origin = "batch" THEN 0 ELSE @ + 1])

(* The SELECT answers: there is nothing to do, or publish begins, which     *)
(* connects if the field is null.                                           *)
Reads(j) ==
  /\ InStage(j, "reading")
  /\ \/ jobs' = jobs \ {j}
     \/ Becomes(j, IF connection = 0 THEN [j EXCEPT !.stage = "connecting"]
                   ELSE [j EXCEPT !.stage = "publishing", !.session = connection])
  /\ UNCHANGED <<lifecycle, nats, arrived>>

Reconnects(j) ==
  /\ InStage(j, "connecting")
  /\ Opens
  /\ Becomes(j, [j EXCEPT !.stage = "publishing", !.session = opened + 1])
  /\ UNCHANGED <<lifecycle, arrived>>

(* The message is stored, and the UPDATE is sent, unless the pool is ended. *)
Publishes(j) ==
  /\ InStage(j, "publishing")
  /\ j.session \in sessions
  /\ IF pool = "open" THEN Becomes(j, [j EXCEPT !.stage = "marking", !.session = 0])
                      ELSE Fails(j)
  /\ UNCHANGED <<lifecycle, nats, arrived>>

(* The UPDATE of a mark is answered.                                        *)
Marks(j) ==
  /\ InStage(j, "marking") \/ InStage(j, "failing")
  /\ jobs' = jobs \ {j}
  /\ UNCHANGED <<lifecycle, nats, arrived>>

(* A request fails: at any time, and certainly once its session is gone.    *)
RequestFails(j) ==
  /\ \E stage \in {"reading", "connecting", "publishing", "marking"} : InStage(j, stage)
  /\ Fails(j)
  /\ UNCHANGED <<lifecycle, nats, arrived>>

(* A timer fires: a stopped queue does nothing more, an ended pool rejects  *)
(* the SELECT.                                                              *)
TimerFires(j) ==
  /\ InStage(j, "timer")
  /\ IF queue = "stopped" THEN jobs' = jobs \ {j}
     ELSE IF pool = "open" THEN Becomes(j, [j EXCEPT !.stage = "reading"])
     ELSE Fails(j)
  /\ UNCHANGED <<lifecycle, nats, arrived>>

JobStep(j) ==
  \/ Reads(j) \/ Reconnects(j) \/ Publishes(j) \/ Marks(j) \/ RequestFails(j)
  \/ TimerFires(j)

-------------------------------------------------------------------------------
\* The shutdown.

Exits ==
  /\ shutdown' = "exited"
  /\ streaming' = FALSE
  /\ sessions' = {} /\ jobs' = {}
  /\ UNCHANGED <<provider, start, signals, queue, pool, connection, opened, arrived>>

\* Faulty (mutation runs): the timers are cleared, and the flag is not set.
QueueClearsTimers ==
  /\ queue' = queue
  /\ jobs' = {j \in jobs : j.stage # "timer"}

(* RetryQueue.stop                                                          *)
QueueStops ==
  /\ queue' = IF queue = "none" THEN "none" ELSE "stopped"
  /\ jobs' = {j \in jobs : j.stage # "timer"}

EndsPool ==
  /\ shutdown' = "ending"
  /\ pool' = "ending"

(* The queue is stopped, and the publisher's connection closed; the field   *)
(* keeps it until close() returns.  Without one the pool is next.           *)
ClosesPublisher ==
  /\ QueueStops
  /\ IF connection = 0 THEN EndsPool /\ UNCHANGED sessions
     ELSE /\ shutdown' = "closing"
          /\ sessions' = sessions \ {connection}
          /\ UNCHANGED pool

\* Faulty (mutation runs): without a replication service to stop, shutdown returns.
SignalledOnceStarted(s) ==
  /\ Alive /\ s \notin signals
  /\ signals' = signals \cup {s}
  /\ IF shutdown # "none" \/ start # "subscribed" THEN UNCHANGED <<shutdown, streaming>>
     ELSE shutdown' = "stopping" /\ streaming' = FALSE
  /\ UNCHANGED <<provider, start, queue, nats, pool, work>>

(* The first signal begins the shutdown: replication is told to stop, but   *)
(* only if replicationService has been assigned.                            *)
Signalled(s) ==
  /\ Alive /\ s \notin signals
  /\ signals' = signals \cup {s}
  /\ IF shutdown # "none" THEN UNCHANGED <<shutdown, streaming, queue, pool, sessions, jobs>>
     ELSE IF start = "subscribed"
     THEN /\ shutdown' = "stopping" /\ streaming' = FALSE
          /\ UNCHANGED <<queue, pool, sessions, jobs>>
     ELSE ClosesPublisher /\ UNCHANGED streaming
  /\ UNCHANGED <<provider, start, connection, opened, arrived>>

(* process.once: a second signal of the same kind has the default effect.   *)
SignalledAgain(s) ==
  /\ Alive /\ s \in signals
  /\ Exits

(* stop() returns: as app.ts:61 has it, after the running onChange.         *)
ReplicationStops ==
  /\ shutdown = "stopping" /\ Batch = {}
  /\ ClosesPublisher
  /\ UNCHANGED <<provider, start, signals, streaming, connection, opened, arrived>>

(* close() returns and sets the field to null; the pool is told to end.     *)
PublisherClosed ==
  /\ shutdown = "closing"
  /\ EndsPool
  /\ connection' = 0
  /\ UNCHANGED <<provider, start, signals, streaming, queue, sessions, opened, work>>

(* pool.end() returns when no query is in flight.                           *)
PoolEnds ==
  /\ shutdown = "ending"
  /\ \A j \in jobs : j.stage \notin {"reading", "marking", "failing"}
  /\ shutdown' = "flushing"
  /\ pool' = "ended"
  /\ UNCHANGED <<provider, start, signals, streaming, queue, nats, work>>

TelemetryShutDown ==
  /\ shutdown = "flushing"
  /\ Exits

(* A rejection nobody handles ends the process: of onChange or of           *)
(* markAsFailed, which an ended pool is sure to bring about.                *)
Dies ==
  /\ Alive
  /\ \/ streaming /\ Batch = {} /\ arrived # Record
     \/ \E j \in jobs : j.stage = "failing"
     \/ /\ pool # "open"
        /\ \E j \in jobs : j.origin = "queue" /\ j.attempt + 1 >= NumOfAttempts
  /\ Exits

ShutdownStep ==
  \/ ReplicationStops
  \/ PublisherClosed
  \/ PoolEnds
  \/ TelemetryShutDown

-------------------------------------------------------------------------------
Next ==
  \/ LoadsPublisher \/ Connects \/ Streams \/ Subscribed \/ StartFails
  \/ \E s \in sessions : SessionLost(s)
  \/ \E R \in SUBSET Record : Arrives(R)
  \/ \E j \in jobs : JobStep(j)
  \/ \E s \in Signal : Signalled(s) \/ SignalledAgain(s)
  \/ ShutdownStep
  \/ Dies

Spec == Init /\ [][Next]_vars

(* Requests are answered or fail, timers fire, and what the shutdown awaits *)
(* comes about.  Nothing is asked of the start, of clients or of signals.   *)
Fairness ==
  /\ WF_vars(ShutdownStep)
  /\ \A r \in Record : WF_vars(\E j \in jobs : j.id = r /\ JobStep(j))

FairSpec == Spec /\ Fairness

-------------------------------------------------------------------------------
\* Properties.

(* However many jobs publish at once, and whatever sessions are lost, there *)
(* is one session at most, the publisher's, until close() is called: the    *)
(* start awaits connect() before the first job, so no two jobs connect.     *)
OneSession ==
  shutdown \in {"none", "stopping"} => sessions \subseteq {connection}

\* Replication has been stopped, and after it the queue.
StoppedInOrder ==
  shutdown \in {"closing", "ending", "flushing"} /\ start = "subscribed" /\ ~streaming

Working == {j.id : j \in {k \in jobs : k.stage # "timer"}}

(* From then on the work only drains: a run that fails sets a timer anew,   *)
(* but no timer, old or new, starts another run.                            *)
OnlyDrains ==
  [][StoppedInOrder => Working' \subseteq Working]_vars

(* A signal ends the process, whatever the start or a retry is doing.       *)
SignalEndsProcess ==
  signals # {} ~> ~Alive
================================================================================
