------------------------- MODULE ServiceLifecycleProofs -------------------------
(***************************************************************************)
(* Theorems about ServiceLifecycle, for every set of records, every number *)
(* of attempts and every bound on the sessions.                            *)
(***************************************************************************)
EXTENDS ServiceLifecycle, TLAPS

-------------------------------------------------------------------------------
\* Types.

(* A job that fails leaves jobs behind.                                     *)
LEMMA FailsType ==
  ASSUME TypeOK, NEW j \in jobs, Fails(j)
  PROVE  jobs' \subseteq Job /\ \A k \in jobs' : k.id \in arrived
<1>1. j \in Job /\ j.id \in arrived
  BY DEF TypeOK
<1>2. CASE j.origin = "queue" /\ j.attempt + 1 >= NumOfAttempts
  <2> DEFINE k == [j EXCEPT !.stage = "failing", !.session = 0]
  <2>1. k \in Job /\ k.id = j.id
    <3>1. 0 \in 0 .. MaxSessions
      BY LifecycleAssumption
    <3> QED
      BY <1>1, <3>1 DEF Job
  <2>2. jobs' = (jobs \ {j}) \cup {k}
    BY <1>2 DEF Fails, Becomes
  <2> QED
    BY <1>1, <2>1, <2>2 DEF TypeOK
<1>3. CASE ~(j.origin = "queue" /\ j.attempt + 1 >= NumOfAttempts)
  <2> DEFINE k == [j EXCEPT !.origin = "queue", !.stage = "timer", !.session = 0,
                            !.attempt = IF j.origin = "batch" THEN 0 ELSE @ + 1]
  <2>1. k \in Job /\ k.id = j.id
    <3>1. (IF j.origin = "batch" THEN 0 ELSE j.attempt + 1) \in 0 .. NumOfAttempts - 1
      BY <1>1, <1>3, LifecycleAssumption DEF Job
    <3>2. 0 \in 0 .. MaxSessions
      BY LifecycleAssumption
    <3> QED
      BY <1>1, <3>1, <3>2 DEF Job
  <2>2. jobs' = (jobs \ {j}) \cup {k}
    BY <1>3 DEF Fails, Becomes
  <2> QED
    BY <1>1, <2>1, <2>2 DEF TypeOK
<1> QED
  BY <1>2, <1>3

(* A step of a job leaves jobs behind.                                      *)
LEMMA JobStepType ==
  ASSUME TypeOK, NEW j \in jobs, JobStep(j)
  PROVE  TypeOK'
<1>1. j \in Job /\ j.id \in arrived
  BY DEF TypeOK
<1>2. CASE Reads(j)
  <2>1. connection \in 0 .. MaxSessions
    BY LifecycleAssumption DEF TypeOK
  <2>2. jobs' \subseteq Job /\ \A k \in jobs' : k.id \in arrived
    BY <1>1, <1>2, <2>1 DEF Reads, Becomes, TypeOK, Job
  <2> QED
    BY <1>2, <2>2 DEF Reads, TypeOK, lifecycle, nats
<1>3. CASE Reconnects(j)
  <2>1. opened + 1 \in 0 .. MaxSessions
    BY <1>3, LifecycleAssumption DEF Reconnects, Opens, TypeOK
  <2>2. jobs' \subseteq Job /\ \A k \in jobs' : k.id \in arrived
    BY <1>1, <1>3, <2>1 DEF Reconnects, Becomes, TypeOK, Job
  <2> QED
    BY <1>3, <2>1, <2>2, LifecycleAssumption DEF Reconnects, Opens, TypeOK, lifecycle
<1>4. CASE Publishes(j)
  <2> DEFINE k == [j EXCEPT !.stage = "marking", !.session = 0]
  <2>1. k \in Job /\ k.id = j.id
    <3>1. 0 \in 0 .. MaxSessions
      BY LifecycleAssumption
    <3> QED
      BY <1>1, <3>1 DEF Job
  <2>2. Fails(j) \/ jobs' = (jobs \ {j}) \cup {k}
    BY <1>4 DEF Publishes, Becomes
  <2>3. jobs' \subseteq Job /\ \A l \in jobs' : l.id \in arrived
    BY <1>1, <2>1, <2>2, FailsType DEF TypeOK
  <2> QED
    BY <1>4, <2>3 DEF Publishes, TypeOK, lifecycle, nats
<1>5. CASE Marks(j)
  BY <1>5 DEF Marks, TypeOK, lifecycle, nats
<1>6. CASE RequestFails(j)
  BY <1>6, FailsType DEF RequestFails, TypeOK, lifecycle, nats
<1>7. CASE TimerFires(j)
  <2>1. jobs' \subseteq Job /\ \A k \in jobs' : k.id \in arrived
    BY <1>1, <1>7, FailsType DEF TimerFires, Becomes, TypeOK, Job
  <2> QED
    BY <1>7, <2>1 DEF TimerFires, TypeOK, lifecycle, nats
<1> QED
  BY <1>2, <1>3, <1>4, <1>5, <1>6, <1>7 DEF JobStep

(* A shutdown step, a signal and the end of the process only take jobs and  *)
(* sessions away.                                                           *)
LEMMA ShutdownType ==
  ASSUME TypeOK,
         ShutdownStep \/ Dies \/ \E s \in Signal : Signalled(s) \/ SignalledAgain(s)
  PROVE  TypeOK'
<1>1. CASE ReplicationStops
  BY <1>1 DEF ReplicationStops, ClosesPublisher, QueueStops, EndsPool, TypeOK
<1>2. CASE PublisherClosed
  BY <1>2 DEF PublisherClosed, EndsPool, TypeOK, work
<1>3. CASE PoolEnds
  BY <1>3 DEF PoolEnds, TypeOK, nats, work
<1>4. CASE TelemetryShutDown
  BY <1>4 DEF TelemetryShutDown, Exits, TypeOK
<1>5. CASE Dies
  BY <1>5 DEF Dies, Exits, TypeOK
<1>6. ASSUME NEW s \in Signal, Signalled(s)
      PROVE  TypeOK'
  BY <1>6 DEF Signalled, ClosesPublisher, QueueStops, EndsPool, TypeOK
<1>7. ASSUME NEW s \in Signal, SignalledAgain(s)
      PROVE  TypeOK'
  BY <1>7 DEF SignalledAgain, Exits, TypeOK
<1> QED
  BY <1>1, <1>2, <1>3, <1>4, <1>5, <1>6, <1>7 DEF ShutdownStep

LEMMA TypeStep ==
  ASSUME TypeOK, [Next]_vars
  PROVE  TypeOK'
<1>1. CASE LoadsPublisher
  BY <1>1 DEF LoadsPublisher, TypeOK, nats, work
<1>2. CASE Connects
  BY <1>2, LifecycleAssumption DEF Connects, Opens, TypeOK, work
<1>3. CASE Streams \/ Subscribed \/ StartFails
  BY <1>3 DEF Streams, Subscribed, StartFails, TypeOK, nats, work
<1>4. ASSUME NEW s \in sessions, SessionLost(s)
      PROVE  TypeOK'
  BY <1>4 DEF SessionLost, TypeOK, lifecycle, work
<1>5. ASSUME NEW R \in SUBSET Record, Arrives(R)
      PROVE  TypeOK'
  <2>1. \A r \in R : [id |-> r, origin |-> "batch", attempt |-> 0,
                       stage |-> "reading", session |-> 0] \in Job
    BY LifecycleAssumption DEF Job
  <2>2. jobs' \subseteq Job /\ \A k \in jobs' : k.id \in arrived'
    BY <1>5, <2>1 DEF Arrives, TypeOK
  <2> QED
    BY <1>5, <2>2 DEF Arrives, TypeOK, lifecycle, nats
<1>6. CASE \E j \in jobs : JobStep(j)
  BY <1>6, JobStepType
<1>7. CASE ShutdownStep \/ Dies \/ \E s \in Signal : Signalled(s) \/ SignalledAgain(s)
  BY <1>7, ShutdownType
<1>8. CASE UNCHANGED vars
  BY <1>8 DEF vars, TypeOK
<1> QED
  BY <1>1, <1>2, <1>3, <1>4, <1>5, <1>6, <1>7, <1>8 DEF Next

(* Start and shutdown keep every variable in its type: in particular an     *)
(* entry of the retry queue never reaches numOfAttempts, and every job is   *)
(* of a record that arrived (app.ts, retry-queue.ts:61-91).                 *)
THEOREM LifecycleTypeCorrect == Spec => []TypeOK
<1>1. Init => TypeOK
  <2>1. 0 \in 0 .. MaxSessions
    BY LifecycleAssumption
  <2>2. Init => /\ connection \in 0 .. opened /\ opened \in 0 .. MaxSessions
                /\ sessions \subseteq 1 .. opened
    BY <2>1 DEF Init
  <2> QED
    BY <2>2 DEF Init, TypeOK
<1> QED
  BY <1>1, TypeStep, PTL DEF Spec

-------------------------------------------------------------------------------
\* Sessions.

(* Until the publisher is closed: connect() is awaited before anything is   *)
(* streamed, so every job finds a connection, and none opens another.       *)
Connected ==
  shutdown \in {"none", "stopping"} =>
    /\ sessions \subseteq {connection}
    /\ start \in {"loading", "connecting"} => sessions = {}
    /\ start \in {"subscribing", "subscribed"} => connection # 0
    /\ streaming => start \in {"subscribing", "subscribed"}
    /\ \A j \in jobs : connection # 0 /\ j.stage # "connecting"

(* A step of a job leads to no job that connects, if there is a connection. *)
LEMMA JobStepConnected ==
  ASSUME TypeOK, Connected, NEW j \in jobs, JobStep(j),
         shutdown \in {"none", "stopping"}
  PROVE  /\ \A k \in jobs' : k.stage # "connecting"
         /\ sessions' = sessions /\ connection' = connection
         /\ UNCHANGED lifecycle
<1>1. j \in Job /\ j.stage # "connecting" /\ connection # 0
  BY DEF TypeOK, Connected
<1>2. ASSUME Fails(j)
      PROVE  \A k \in jobs' : k.stage # "connecting"
  BY <1>1, <1>2 DEF Fails, Becomes, Connected, Job
<1>3. CASE Reads(j)
  <2>1. jobs' = jobs \ {j} \/ jobs' = (jobs \ {j}) \cup
          {[j EXCEPT !.stage = "publishing", !.session = connection]}
    BY <1>1, <1>3 DEF Reads, Becomes
  <2> QED
    BY <1>1, <1>3, <2>1 DEF Reads, Connected, Job, nats
<1>4. ~Reconnects(j)
  BY <1>1 DEF Reconnects, InStage
<1>5. CASE Publishes(j)
  BY <1>1, <1>2, <1>5 DEF Publishes, Becomes, Connected, Job, nats
<1>6. CASE Marks(j)
  BY <1>6 DEF Marks, Connected, nats
<1>7. CASE RequestFails(j)
  BY <1>2, <1>7 DEF RequestFails, nats
<1>8. CASE TimerFires(j)
  BY <1>1, <1>2, <1>8 DEF TimerFires, Becomes, Connected, Job, nats
<1> QED
  BY <1>3, <1>4, <1>5, <1>6, <1>7, <1>8 DEF JobStep

LEMMA ConnectedStep ==
  ASSUME TypeOK, Connected, [Next]_vars
  PROVE  Connected'
<1> SUFFICES ASSUME (shutdown \in {"none", "stopping"})'
             PROVE  Connected'
  BY DEF Connected
<1>1. CASE LoadsPublisher
  BY <1>1 DEF LoadsPublisher, Connected, nats, work
<1>2. CASE Connects
  <2>1. jobs = {} \/ connection # 0
    BY <1>2 DEF Connects, Connected
  <2>2. opened + 1 # 0 /\ sessions = {}
    BY <1>2 DEF Connects, Connected, TypeOK
  <2> QED
    BY <1>2, <2>2 DEF Connects, Opens, Connected, work
<1>3. CASE Streams \/ Subscribed \/ StartFails
  BY <1>3 DEF Streams, Subscribed, StartFails, Connected, nats, work
<1>4. ASSUME NEW s \in sessions, SessionLost(s)
      PROVE  Connected'
  BY <1>4 DEF SessionLost, Connected, lifecycle, work
<1>5. ASSUME NEW R \in SUBSET Record, Arrives(R)
      PROVE  Connected'
  BY <1>5 DEF Arrives, Connected, lifecycle, nats
<1>6. ASSUME NEW j \in jobs, JobStep(j)
      PROVE  Connected'
  <2>1. shutdown' = shutdown
    BY <1>6 DEF JobStep, Reads, Reconnects, Publishes, Marks, RequestFails, TimerFires, lifecycle
  <2> QED
    BY <1>6, <2>1, JobStepConnected DEF Connected, lifecycle
<1>7. ASSUME NEW s \in Signal, Signalled(s)
      PROVE  Connected'
  BY <1>7 DEF Signalled, ClosesPublisher, EndsPool, Connected
<1>8. ASSUME NEW s \in Signal
      PROVE  ~SignalledAgain(s)
  BY DEF SignalledAgain, Exits
<1>9. ~Dies /\ ~ShutdownStep
  BY DEF Dies, Exits, ShutdownStep, ReplicationStops, ClosesPublisher, EndsPool,
         PublisherClosed, PoolEnds, TelemetryShutDown
<1>10. CASE UNCHANGED vars
  BY <1>10 DEF vars, Connected
<1> QED
  BY <1>1, <1>2, <1>3, <1>4, <1>5, <1>6, <1>7, <1>8, <1>9, <1>10 DEF Next

(* There is one NATS session at most, the one NATSPublisher.connection has, *)
(* until close() is called (nats-publisher.ts:33-51, app.ts:118-134).       *)
THEOREM OneSessionCorrect == Spec => []OneSession
<1>1. Init => Connected
  BY DEF Init, Connected
<1>2. Connected => OneSession
  BY DEF Connected, OneSession
<1> QED
  BY <1>1, <1>2, ConnectedStep, TypeStep, LifecycleTypeCorrect, PTL DEF Spec

-------------------------------------------------------------------------------
\* The shutdown.

(* Replication is only assigned once there is a retry queue, so once both   *)
(* are stopped there is no queue that starts a run.                         *)
Drained ==
  /\ start \in {"subscribing", "subscribed"} => queue # "none"
  /\ StoppedInOrder => queue = "stopped"

(* Once the queue is stopped, a step of a job takes no new record to work.  *)
LEMMA JobStepDrains ==
  ASSUME TypeOK, NEW j \in jobs, JobStep(j)
  PROVE  /\ queue = "stopped" => Working' \subseteq Working
         /\ UNCHANGED lifecycle
<1>1. j \in Job
  BY DEF TypeOK
<1>2. ASSUME NEW k \in Job, Becomes(j, k), k.id = j.id, k.stage = "timer" \/ j.stage # "timer"
      PROVE  Working' \subseteq Working
  BY <1>1, <1>2 DEF Becomes, Working, Job
<1>3. ASSUME jobs' = jobs \ {j}
      PROVE  Working' \subseteq Working
  BY <1>3 DEF Working
<1>4. ASSUME NEW k, Becomes(j, k), \A l \in jobs' : l \in Job
      PROVE  k \in Job
  BY <1>4 DEF Becomes
<1>5. \A l \in jobs' : l \in Job
  BY JobStepType DEF TypeOK
<1>6. UNCHANGED lifecycle
  BY DEF JobStep, Reads, Reconnects, Publishes, Marks, RequestFails, TimerFires
<1>7. ASSUME Fails(j), j.stage # "timer"
      PROVE  Working' \subseteq Working
  <2>1. CASE j.origin = "queue" /\ j.attempt + 1 >= NumOfAttempts
    <3> DEFINE k == [j EXCEPT !.stage = "failing", !.session = 0]
    <3>1. Becomes(j, k) /\ k.id = j.id
      BY <1>1, <1>7, <2>1 DEF Fails, Job
    <3> QED
      BY <1>2, <1>4, <1>5, <1>7, <3>1
  <2>2. CASE ~(j.origin = "queue" /\ j.attempt + 1 >= NumOfAttempts)
    <3> DEFINE k == [j EXCEPT !.origin = "queue", !.stage = "timer", !.session = 0,
                              !.attempt = IF j.origin = "batch" THEN 0 ELSE @ + 1]
    <3>1. Becomes(j, k) /\ k.id = j.id
      BY <1>1, <1>7, <2>2 DEF Fails, Job
    <3> QED
      BY <1>2, <1>4, <1>5, <1>7, <3>1
  <2> QED
    BY <2>1, <2>2
<1>8. CASE Reads(j)
  <2>1. j.stage # "timer"
    BY <1>8 DEF Reads, InStage
  <2>2. CASE jobs' = jobs \ {j}
    BY <1>3, <1>6, <2>2
  <2>3. ASSUME NEW k, Becomes(j, k), k = [j EXCEPT !.stage = "connecting"]
               \/ k = [j EXCEPT !.stage = "publishing", !.session = connection]
        PROVE  Working' \subseteq Working
    <3>1. k.id = j.id
      BY <1>1, <2>3 DEF Job
    <3> QED
      BY <1>2, <1>4, <1>5, <2>1, <2>3, <3>1
  <2> QED
    BY <1>6, <1>8, <2>2, <2>3 DEF Reads
<1>9. CASE Reconnects(j)
  <2> DEFINE k == [j EXCEPT !.stage = "publishing", !.session = opened + 1]
  <2>1. Becomes(j, k) /\ j.stage # "timer" /\ k.id = j.id
    BY <1>1, <1>9 DEF Reconnects, InStage, Job
  <2> QED
    BY <1>2, <1>4, <1>5, <1>6, <2>1
<1>10. CASE Publishes(j)
  <2> DEFINE k == [j EXCEPT !.stage = "marking", !.session = 0]
  <2>1. j.stage # "timer" /\ k.id = j.id
    BY <1>1, <1>10 DEF Publishes, InStage, Job
  <2>2. Becomes(j, k) \/ Fails(j)
    BY <1>10 DEF Publishes
  <2> QED
    BY <1>2, <1>4, <1>5, <1>6, <1>7, <2>1, <2>2
<1>11. CASE Marks(j)
  BY <1>3, <1>6, <1>11 DEF Marks
<1>12. CASE RequestFails(j)
  <2>1. j.stage # "timer" /\ Fails(j)
    BY <1>12 DEF RequestFails, InStage
  <2> QED
    BY <1>6, <1>7, <2>1
<1>13. CASE TimerFires(j)
  BY <1>3, <1>6, <1>13 DEF TimerFires
<1> QED
  BY <1>8, <1>9, <1>10, <1>11, <1>12, <1>13 DEF JobStep

LEMMA DrainedStep ==
  ASSUME TypeOK, Drained, [Next]_vars
  PROVE  Drained'
<1> USE DEF Drained, StoppedInOrder
<1>1. CASE LoadsPublisher
  BY <1>1 DEF LoadsPublisher, nats, work
<1>2. CASE Connects
  BY <1>2 DEF Connects, work
<1>3. CASE Streams \/ Subscribed \/ StartFails
  BY <1>3 DEF Streams, Subscribed, StartFails, nats, work
<1>4. ASSUME NEW s \in sessions, SessionLost(s)
      PROVE  Drained'
  BY <1>4 DEF SessionLost, lifecycle, work
<1>5. ASSUME NEW R \in SUBSET Record, Arrives(R)
      PROVE  Drained'
  BY <1>5 DEF Arrives, lifecycle, nats
<1>6. ASSUME NEW j \in jobs, JobStep(j)
      PROVE  Drained'
  BY <1>6, JobStepDrains DEF lifecycle
<1>7. CASE ReplicationStops
  BY <1>7 DEF ReplicationStops, ClosesPublisher, QueueStops, EndsPool
<1>8. CASE PublisherClosed \/ PoolEnds
  BY <1>8 DEF PublisherClosed, PoolEnds, EndsPool, nats, work
<1>9. CASE TelemetryShutDown \/ Dies \/ \E s \in Signal : SignalledAgain(s)
  BY <1>9 DEF TelemetryShutDown, Dies, SignalledAgain, Exits
<1>10. ASSUME NEW s \in Signal, Signalled(s)
       PROVE  Drained'
  BY <1>10 DEF Signalled, ClosesPublisher, QueueStops, EndsPool
<1>11. CASE UNCHANGED vars
  BY <1>11 DEF vars
<1> QED
  BY <1>1, <1>2, <1>3, <1>4, <1>5, <1>6, <1>7, <1>8, <1>9, <1>10, <1>11 DEF Next, ShutdownStep

LEMMA DrainedAlways == Spec => []Drained
<1>1. Init => Drained
  BY DEF Init, Drained, StoppedInOrder
<1> QED
  BY <1>1, DrainedStep, TypeStep, LifecycleTypeCorrect, PTL DEF Spec

(* Once replication and then the queue are stopped, no record enters work   *)
(* again (app.ts:61-81, retry-queue.ts:32-45).                              *)
THEOREM OnlyDrainsCorrect == Spec => OnlyDrains
<1>1. ASSUME TypeOK, Drained, [Next]_vars, StoppedInOrder
      PROVE  Working' \subseteq Working
  <2> USE <1>1 DEF StoppedInOrder
  <2>1. queue = "stopped"
    BY DEF Drained
  <2>2. ~LoadsPublisher /\ ~Connects /\ ~Streams /\ ~Subscribed /\ ~StartFails
    BY DEF LoadsPublisher, Connects, Streams, Subscribed, StartFails
  <2>3. ASSUME NEW s \in sessions, SessionLost(s)
        PROVE  Working' \subseteq Working
    BY <2>3 DEF SessionLost, work, Working
  <2>4. ASSUME NEW R \in SUBSET Record
        PROVE  ~Arrives(R)
    BY DEF Arrives
  <2>5. ASSUME NEW j \in jobs, JobStep(j)
        PROVE  Working' \subseteq Working
    BY <2>1, <2>5, JobStepDrains
  <2>6. CASE ShutdownStep
    BY <2>6 DEF ShutdownStep, ReplicationStops, PublisherClosed, PoolEnds,
                TelemetryShutDown, Exits, work, Working
  <2>7. CASE Dies \/ \E s \in Signal : SignalledAgain(s)
    BY <2>7 DEF Dies, SignalledAgain, Exits, Working
  <2>8. ASSUME NEW s \in Signal, Signalled(s)
        PROVE  Working' \subseteq Working
    BY <2>8 DEF Signalled, Working
  <2>9. CASE UNCHANGED vars
    BY <2>9 DEF vars, Working
  <2> QED
    BY <2>2, <2>3, <2>4, <2>5, <2>6, <2>7, <2>8, <2>9 DEF Next
<1> QED
  BY <1>1, DrainedAlways, LifecycleTypeCorrect, PTL DEF Spec, OnlyDrains
================================================================================
