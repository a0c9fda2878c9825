--------------------------- MODULE OutboxSystemProofs ---------------------------
(***************************************************************************)
(* Theorems about the service and the two cron jobs together, for every    *)
(* configuration and every bound: what OutboxOwnershipProofs shows of a    *)
(* step of the service is used here for the service's steps, and shown     *)
(* anew for the steps of the jobs.                                         *)
(*                                                                         *)
(* A step of the jobs is one of three: it leaves what the service sees as  *)
(* it is, it is an act of check-pending-events, which only ever takes a    *)
(* row forward to PROCESSED or FAILED, or it is the commit of              *)
(* reprocess-failed-events.                                                *)
(***************************************************************************)
EXTENDS OutboxSystem, OutboxOwnershipProofs

\* An outcome: the row is marked, and the mark is counted.
Settles(e) ==
  /\ Exists(table, e)
  /\ table'[e].status \in {"PROCESSED", "FAILED"}
  /\ table'[e].attempts = table[e].attempts + 1

\* What check-pending-events does to the state of the service.
CheckActs ==
  /\ \A e \in Event : table'[e] = table[e] \/ Settles(e)
  /\ Len(wal') >= Len(wal)
  /\ \A i \in 1 .. Len(wal) : wal'[i] = wal[i]
  /\ \A i \in Len(wal) + 1 .. Len(wal') : filterChanges(wal'[i]) = {}
  /\ tasks' = tasks
  /\ \A s \in strayStmts' : s \in strayStmts \/ s.op = "PROCESSED"
  /\ strayStmts \subseteq strayStmts'
  /\ dbErrors' \in Nat /\ dbErrors <= dbErrors'
  /\ UNCHANGED <<slot, crashes, failedEvents>>

\* The jobs leave what the service sees as it is.
JobsOnly ==
  /\ UNCHANGED vars
  /\ \/ failedEvents' \in {failedEvents, NoBatch}
     \/ \E ids \in SUBSET Event : ReprocessSelects(ids)

-------------------------------------------------------------------------------
\* Types.

LEMMA CheckStatementType ==
  ASSUME check \in Check, NEW p \in check.event
  PROVE  CheckStatement(p) \in Statement /\ CheckStatement(p).op = "PROCESSED"
BY DEF Check, PendingEvent, CheckStatement, Statement

LEMMA ExecutesSettles ==
  ASSUME table \in Table, NEW s \in Statement, Executes(s)
  PROVE  \A e \in Event : table'[e] = table[e] \/ Settles(e)
<1>1. \A e \in Event \ {s.id} : table'[e] = table[e]
  BY ExecuteType DEF Executes
<1>2. s.id \in Event /\ (table'[s.id] = table[s.id] \/ Settles(s.id))
  BY DEF Executes, Execute, MarkAsProcessed, MarkAsFailed, Table, Statement, Settles
<1> QED
  BY <1>1, <1>2

(* A step that appends to the WAL leaves what was there.                    *)
LEMMA Appends ==
  ASSUME wal \in Seq(SUBSET Change), NEW log, wal' = Append(wal, log)
  PROVE  /\ Len(wal) \in Nat /\ Len(wal') = Len(wal) + 1
         /\ \A i \in 1 .. Len(wal) : wal'[i] = wal[i]
         /\ \A i \in Len(wal) + 1 .. Len(wal') : i = Len(wal) + 1 /\ wal'[i] = log
<1>1. Len(wal) \in Nat /\ Len(wal') = Len(wal) + 1
  OBVIOUS
<1>2. /\ \A i \in 1 .. Len(wal) : wal'[i] = wal[i]
      /\ wal'[Len(wal) + 1] = log
  OBVIOUS
<1>3. \A i \in Len(wal) + 1 .. Len(wal') : i = Len(wal) + 1
  BY <1>1
<1> QED
  BY <1>1, <1>2, <1>3

LEMMA CheckActsStep ==
  ASSUME SystemTypeOK,
         \/ \E p \in check.event : CheckMarks(p) \/ CheckMarkErrs(p)
         \/ CheckFails
         \/ CheckDies
  PROVE  CheckActs
<1> USE DEF slot, server, strays, counts
<1>1. /\ table \in Table /\ check \in Check /\ wal \in Seq(SUBSET Change)
      /\ dbErrors \in Nat /\ dbErrors + 1 \in Nat
      /\ dbErrors <= dbErrors /\ dbErrors <= dbErrors + 1
      /\ Len(wal) >= Len(wal)
      /\ \A i \in Len(wal) + 1 .. Len(wal) : FALSE
  BY DEF SystemTypeOK, TypeOK, Table
<1>2. ASSUME NEW p \in check.event, CheckMarks(p)
      PROVE  CheckActs
  <2>1. CheckStatement(p) \in Statement
    BY <1>1, CheckStatementType
  <2>2. Executes(CheckStatement(p))
    BY <1>2 DEF CheckMarks
  <2> DEFINE s == CheckStatement(p)
             log == {OutboxChange("update", s.id, Execute(table, s)[s.id].attempts)}
  <2>3. \A e \in Event : table'[e] = table[e] \/ Settles(e)
    BY <1>1, <2>1, <2>2, ExecutesSettles
  <2>4. wal' = wal \/ wal' = Append(wal, log)
    BY <2>2 DEF Executes
  <2>5. filterChanges(log) = {}
    BY UpdatesAreNoInserts DEF OutboxChange
  <2> HIDE DEF log
  <2>6. /\ Len(wal') >= Len(wal)
        /\ \A i \in 1 .. Len(wal) : wal'[i] = wal[i]
        /\ \A i \in Len(wal) + 1 .. Len(wal') : filterChanges(wal'[i]) = {}
    <3>1. CASE wal' = Append(wal, log)
      BY <1>1, <2>5, <3>1, Appends
    <3>2. CASE wal' = wal
      BY <1>1, <3>2
    <3> QED
      BY <2>4, <3>1, <3>2
  <2> QED
    BY <1>1, <1>2, <2>3, <2>6 DEF CheckMarks, CheckActs
<1>3. ASSUME NEW p \in check.event, CheckMarkErrs(p)
      PROVE  CheckActs
  BY <1>1, <1>3, CheckStatementType DEF CheckMarkErrs, CheckActs
<1>4. CASE CheckFails
  <2> DEFINE log == {OutboxChange("update", e, table[e].attempts + 1) : e \in check.doomed}
  <2>1. \A e \in Event : table'[e] = table[e] \/ Settles(e)
    BY <1>1, <1>4 DEF CheckFails, MarkManyAsFailed, Settles, Table
  <2>2. wal' = Append(wal, log)
    BY <1>4 DEF CheckFails
  <2>3. filterChanges(log) = {}
    BY UpdatesAreNoInserts DEF OutboxChange
  <2> HIDE DEF log
  <2>4. /\ Len(wal') >= Len(wal)
        /\ \A i \in 1 .. Len(wal) : wal'[i] = wal[i]
        /\ \A i \in Len(wal) + 1 .. Len(wal') : filterChanges(wal'[i]) = {}
    BY <1>1, <2>2, <2>3, Appends
  <2> QED
    BY <1>1, <1>4, <2>1, <2>4 DEF CheckFails, CheckActs
<1>5. CASE CheckDies
  BY <1>1, <1>5, CheckStatementType DEF CheckDies, CheckActs
<1> QED
  BY <1>2, <1>3, <1>4, <1>5

LEMMA JobsOnlyStep ==
  ASSUME \/ \E e \in recent : Ages(e)
         \/ CheckSelects \/ CheckEnds \/ ReprocessRollsBack \/ UNCHANGED systemVars
         \/ \E row \in FindLastProcessedEvent(table) : CheckReadsLast(row)
         \/ \E p \in check.pending : CheckLooksUp(p)
         \/ \E ids \in SUBSET Event : ReprocessSelects(ids)
  PROVE  JobsOnly
BY DEF Ages, CheckSelects, CheckEnds, ReprocessRollsBack, systemVars, CheckReadsLast,
       CheckLooksUp, ReprocessSelects, JobsOnly

(* Every step of the system is one of four.                                 *)
LEMMA SystemStep ==
  ASSUME SystemTypeOK, [SystemNext]_systemVars
  PROVE  \/ ServiceStep
         \/ JobsOnly
         \/ CheckActs
         \/ \E waiting \in SUBSET tasks, spared \in SUBSET check.doomed :
              ReprocessCommits(waiting, spared)
BY JobsOnlyStep, CheckActsStep DEF SystemNext, CheckPendingEvents, ReprocessFailedEvents

-------------------------------------------------------------------------------
(* No row ever disappears: reprocess-failed-events deletes and inserts in   *)
(* one transaction.                                                         *)
LEMMA RowsStay ==
  ASSUME TypeOK, [Next]_vars
  PROVE  \A e \in Event : Exists(table, e) => Exists(table', e)
<1> USE DEF slot, server, strays, counts
<1>1. table \in Table
  BY DEF TypeOK, Table
<1>2. ASSUME NEW s \in Statement, Executes(s)
      PROVE  \A e \in Event : Exists(table, e) => Exists(table', e)
  BY <1>1, <1>2, ExecutesSettles DEF Settles, Exists
<1>3. /\ \A s \in strayStmts : StrayExecuted(s) => s \in Statement /\ Executes(s)
      /\ \A t \in tasks : MarkReplied(t) => Executes(MarkStatement(t))
      /\ \A t \in tasks : FailReplied(t) => Executes(FailStatement(t))
  BY DEF StrayExecuted, MarkReplied, FailReplied, TypeOK
<1>4. \A t \in tasks : MarkStatement(t) \in Statement /\ FailStatement(t) \in Statement
  BY TaskType, ReaderAssumption DEF TypeOK
<1>5. \A S \in SUBSET Event : CommitEvents(S) =>
        \A e \in Event : Exists(table, e) => Exists(table', e)
  BY DEF CommitEvents, Exists, NewRow
<1>6. /\ \A e \in strayMsgs : StrayStored(e) => UNCHANGED table
      /\ \A m \in Aggregate : Expire(m) => UNCHANGED table
      /\ OnChange \/ OnChangeDone \/ Acknowledge \/ Crash \/ UNCHANGED vars => UNCHANGED table
      /\ \A t \in tasks : StartTask(t) \/ PublishAcked(t) \/ PublishFails(t) => UNCHANGED table
      /\ \A t \in tasks : MarkErrs(t) \/ FailErrs(t) => UNCHANGED table
      /\ \A t \in tasks : RetryRuns(t) \/ RetryReadErrs(t) => UNCHANGED table
  BY DEF StrayStored, Expire, OnChange, OnChangeDone, Acknowledge, Crash, vars, StartTask,
         PublishAcked, PublishFails, MarkErrs, FailErrs, StatementErrs, RetryRuns, RetryReadErrs
<1> QED
  BY <1>2, <1>3, <1>4, <1>5, <1>6 DEF Next, ProcessInserts, RunRetry

LEMMA RecreateType ==
  ASSUME table \in Table, DOMAIN failedEvents \subseteq Event,
         failedEvents \in [DOMAIN failedEvents -> Row]
  PROVE  /\ Recreate(table, failedEvents) \in Table
         /\ \A e \in DOMAIN failedEvents :
              Recreate(table, failedEvents)[e] = Recreated(failedEvents[e])
         /\ \A e \in Event \ DOMAIN failedEvents : Recreate(table, failedEvents)[e] = table[e]
         /\ RecreationChanges \in SUBSET Change
         /\ \A c : c \in filterChanges(RecreationChanges) <=>
              \E e \in DOMAIN failedEvents :
                c = OutboxChange("insert", e, failedEvents[e].attempts)
<1>1. \A e \in DOMAIN failedEvents : /\ failedEvents[e] \in Row
                                     /\ failedEvents[e].attempts \in Nat
  BY DEF Row
<1>2. \A e \in DOMAIN failedEvents : Recreated(failedEvents[e]) \in Row
  BY <1>1 DEF Recreated, Row, Status
<1>3. \A e \in Event, n \in Nat : /\ OutboxChange("insert", e, n) \in Change
                                  /\ OutboxChange("delete", e, n) \in Change
  BY DEF OutboxChange, Change, OutboxChanges
<1>4. RecreationChanges \in SUBSET Change
  BY <1>1, <1>3 DEF RecreationChanges
<1>5. /\ Recreate(table, failedEvents) \in Table
      /\ \A e \in DOMAIN failedEvents :
           Recreate(table, failedEvents)[e] = Recreated(failedEvents[e])
      /\ \A e \in Event \ DOMAIN failedEvents : Recreate(table, failedEvents)[e] = table[e]
  BY <1>2 DEF Recreate, Table
<1>6. \A e, n : /\ OutboxChange("insert", e, n).table = "outbox"
                /\ OutboxChange("insert", e, n).kind = "insert"
                /\ OutboxChange("delete", e, n).kind = "delete"
  BY DEF OutboxChange
<1>7. \A c : c \in filterChanges(RecreationChanges) <=>
        \E e \in DOMAIN failedEvents :
          c = OutboxChange("insert", e, failedEvents[e].attempts)
  BY <1>6 DEF filterChanges, RecreationChanges
<1> QED
  BY <1>4, <1>5, <1>7

(* The types of the variables OutboxReader declares.                        *)
LEMMA ReaderTypes ==
  ASSUME SystemTypeOK, [SystemNext]_systemVars
  PROVE  TypeOK'
<1> USE DEF slot, server, strays, counts
<1>1. /\ TypeOK /\ table \in Table /\ check \in Check /\ wal \in Seq(SUBSET Change)
      /\ strayStmts \subseteq Statement
  BY DEF SystemTypeOK, TypeOK, Table
<1>2. CASE ServiceStep \/ JobsOnly
  BY <1>1, <1>2, NextType, ReaderAssumption DEF ServiceStep, JobsOnly
<1>3. ASSUME UNCHANGED <<slot, server, strayMsgs, transactions, crashes>>,
             tasks' \subseteq tasks, table' \in Table, wal' \in Seq(SUBSET Change),
             Len(wal') >= Len(wal), strayStmts' \subseteq Statement, dbErrors' \in Nat
      PROVE  TypeOK'
  <2>1. /\ confirmed' \in Nat /\ handled' \in Nat /\ busy' \in BOOLEAN
        /\ confirmed' <= handled' /\ handled' <= Len(wal')
        /\ busy' => handled' < Len(wal')
    BY <1>1, <1>3 DEF TypeOK
  <2> QED
    BY <1>1, <1>3, <2>1 DEF TypeOK, Table
<1>4. ASSUME NEW p \in check.event, CheckMarks(p)
      PROVE  TypeOK'
  <2>1. CheckStatement(p) \in Statement /\ Executes(CheckStatement(p))
    BY <1>1, <1>4, CheckStatementType DEF CheckMarks
  <2>2. table' \in Table /\ wal' \in Seq(SUBSET Change) /\ Len(wal') >= Len(wal)
    BY <1>1, <2>1, ExecutesType
  <2> QED
    BY <1>1, <1>3, <1>4, <2>2 DEF CheckMarks, TypeOK
<1>5. ASSUME NEW p \in check.event, CheckMarkErrs(p)
      PROVE  TypeOK'
  <2>1. strayStmts' \subseteq Statement /\ dbErrors' \in Nat /\ Len(wal') >= Len(wal)
    BY <1>1, <1>5, CheckStatementType DEF CheckMarkErrs, TypeOK
  <2> QED
    BY <1>1, <1>3, <1>5, <2>1 DEF CheckMarkErrs
<1>6. CASE CheckDies
  <2>1. strayStmts' \subseteq Statement /\ dbErrors' \in Nat /\ Len(wal') >= Len(wal)
    BY <1>1, <1>6, CheckStatementType DEF CheckDies, TypeOK
  <2> QED
    BY <1>1, <1>3, <1>6, <2>1 DEF CheckDies
<1>7. CASE CheckFails
  <2> DEFINE log == {OutboxChange("update", e, table[e].attempts + 1) : e \in check.doomed}
  <2>1. \A e \in Event : table[e].attempts + 1 \in Nat /\ table[e].seq \in Nat
    BY <1>1 DEF Table, Row, NoRow
  <2>2. table' \in Table
    BY <1>1, <1>7, <2>1 DEF CheckFails, MarkManyAsFailed, Table, Row, Status
  <2>3. log \in SUBSET Change
    BY <1>1, <2>1 DEF OutboxChange, Change, OutboxChanges, Check
  <2>4. wal' = Append(wal, log)
    BY <1>7 DEF CheckFails
  <2> HIDE DEF log
  <2>5. wal' \in Seq(SUBSET Change) /\ Len(wal') >= Len(wal)
    BY <1>1, <2>3, <2>4, Appends
  <2> QED
    BY <1>1, <1>3, <1>7, <2>2, <2>5 DEF CheckFails, TypeOK
<1>8. ASSUME NEW waiting, NEW spared, ReprocessCommits(waiting, spared)
      PROVE  TypeOK'
  <2>1. table' \in Table /\ RecreationChanges \in SUBSET Change
    BY <1>1, <1>8, RecreateType DEF SystemTypeOK, ReprocessCommits
  <2>2. wal' \in Seq(SUBSET Change) /\ Len(wal') >= Len(wal)
    BY <1>1, <1>8, <2>1, Appends DEF ReprocessCommits
  <2> QED
    BY <1>1, <1>3, <1>8, <2>1, <2>2 DEF ReprocessCommits, TypeOK
<1>9. \/ JobsOnly \/ ServiceStep \/ CheckFails \/ CheckDies
      \/ \E p \in check.event : CheckMarks(p) \/ CheckMarkErrs(p)
      \/ \E waiting, spared : ReprocessCommits(waiting, spared)
  BY JobsOnlyStep DEF SystemNext, CheckPendingEvents, ReprocessFailedEvents
<1> QED
  BY <1>2, <1>4, <1>5, <1>6, <1>7, <1>8, <1>9

(* The types of the jobs' variables.                                        *)
CheckTypeOK == check \in Check /\ (check.stage = "marking") = (check.event # {})

BatchTypeOK == DOMAIN failedEvents \subseteq Event /\ failedEvents \in [DOMAIN failedEvents -> Row]

LEMMA NoBatchType == DOMAIN NoBatch = {} /\ NoBatch \in [DOMAIN NoBatch -> Row]
<1>1. NoBatch \in Seq(Row) /\ Len(NoBatch) = 0
  BY DEF NoBatch
<1>2. DOMAIN NoBatch = 1 .. Len(NoBatch)
  BY <1>1
<1>3. DOMAIN NoBatch = {}
  BY <1>1, <1>2
<1> QED
  BY <1>1, <1>2, <1>3

LEMMA NoCheckType == NoCheck \in Check /\ NoCheck.stage # "marking" /\ NoCheck.event = {}
<1>1. 0 \in 0 .. DbNumOfAttempts - 1
  BY ReaderAssumption DEF ReaderAssumption
<1> QED
  BY <1>1 DEF NoCheck, Check

LEMMA CheckTypes ==
  ASSUME SystemTypeOK, [SystemNext]_systemVars
  PROVE  CheckTypeOK'
<1>1. /\ check \in Check /\ table \in Table
      /\ check.stage = "marking" <=> check.event # {}
      /\ 0 \in 0 .. DbNumOfAttempts - 1
      /\ DbNumOfAttempts \in Nat
  BY ReaderAssumption DEF SystemTypeOK, TypeOK, Table, ReaderAssumption
<1>2. CASE check' = check
  BY <1>1, <1>2 DEF CheckTypeOK
<1>3. CASE check' = NoCheck
  BY <1>3, NoCheckType DEF CheckTypeOK
<1>4. CASE CheckSelects
  <2>1. FindRecentPendingEvents \subseteq PendingEvent
    BY <1>1 DEF FindRecentPendingEvents, WithStatus, PendingEvent, Table, Row, NoRow
  <2> QED
    BY <1>4, <2>1, NoCheckType DEF CheckSelects, CheckTypeOK, Check, NoCheck
<1>5. ASSUME NEW row \in FindLastProcessedEvent(table), CheckReadsLast(row)
      PROVE  CheckTypeOK'
  <2>1. row.seq \in Nat
    BY <1>1 DEF FindLastProcessedEvent, WithStatus, Table, Row, NoRow
  <2>2. (row = NoRow) \in BOOLEAN
    OBVIOUS
  <2>3. check.event = {}
    BY <1>1, <1>5 DEF CheckReadsLast
  <2> DEFINE n == (row = NoRow)
  <2>4. check' = [check EXCEPT !.stage = "looping", !.last = row.seq, !.numeric = n]
    BY <1>5 DEF CheckReadsLast
  <2>5. n \in BOOLEAN
    BY <2>2
  <2> HIDE DEF n
  <2> QED
    BY <1>1, <2>1, <2>3, <2>4, <2>5 DEF CheckTypeOK, Check
<1>6. ASSUME NEW p \in check.pending, CheckLooksUp(p)
      PROVE  CheckTypeOK'
  <2>1. /\ check.event = {} /\ check.pending \subseteq PendingEvent
        /\ p \in PendingEvent /\ p.id \in Event
    BY <1>1, <1>6 DEF CheckLooksUp, Check, PendingEvent
  <2>2. \A q \in check.pending : q.id \in Event
    BY <2>1 DEF PendingEvent
  <2>3. CASE LookupErrs(p)
    BY <1>1, <1>6, <2>1, <2>3 DEF LookupErrs, CheckLooksUp, CheckTypeOK, Check
  <2>4. CASE LookupFinds(p)
    BY <1>1, <1>6, <2>1, <2>4 DEF LookupFinds, CheckLooksUp, CheckTypeOK, Check
  <2>5. CASE LookupFindsNone
    BY <1>1, <1>6, <2>1, <2>2, <2>5 DEF LookupFindsNone, CheckLooksUp, CheckTypeOK, Check
  <2> QED
    BY <1>6, <2>3, <2>4, <2>5 DEF CheckLooksUp
<1>7. ASSUME NEW p \in check.event, CheckMarks(p)
      PROVE  CheckTypeOK'
  <2>1. check.last + 1 \in Nat
    BY <1>1 DEF Check
  <2> DEFINE n == check.last + 1
  <2>2. check' = [check EXCEPT !.stage = "looping", !.event = {}, !.tries = 0, !.last = n]
    BY <1>1, <1>7 DEF CheckMarks, Check
  <2> HIDE DEF n
  <2> QED
    BY <1>1, <2>1, <2>2 DEF CheckTypeOK, Check, n
<1>8. ASSUME NEW p \in check.event, CheckMarkErrs(p)
      PROVE  CheckTypeOK'
  <2>1. CASE LastTry(check)
    BY <1>1, <1>8, <2>1 DEF CheckMarkErrs, CheckTypeOK, Check
  <2>2. CASE ~LastTry(check)
    <3> DEFINE n == check.tries + 1
    <3>1. n \in 0 .. DbNumOfAttempts - 1
      BY <1>1, <2>2 DEF LastTry, Check
    <3>2. check' = [check EXCEPT !.tries = n]
      BY <1>1, <1>8, <2>2 DEF CheckMarkErrs, Check
    <3> HIDE DEF n
    <3> QED
      BY <1>1, <3>1, <3>2 DEF CheckTypeOK, Check
  <2> QED
    BY <2>1, <2>2
<1>9. ASSUME NEW waiting, NEW spared, ReprocessCommits(waiting, spared)
      PROVE  CheckTypeOK'
  BY <1>1, <1>9 DEF ReprocessCommits, CheckTypeOK, Check
<1>10. /\ ServiceStep \/ ReprocessRollsBack \/ UNCHANGED systemVars => check' = check
       /\ \A e \in recent : Ages(e) => check' = check
       /\ \A ids \in SUBSET Event : ReprocessSelects(ids) => check' = check
       /\ CheckFails \/ CheckEnds \/ CheckDies => check' = NoCheck
  BY DEF ServiceStep, ReprocessRollsBack, systemVars, Ages, ReprocessSelects, CheckFails,
         CheckEnds, CheckDies
<1> QED
  BY <1>2, <1>3, <1>4, <1>5, <1>6, <1>7, <1>8, <1>9, <1>10
     DEF SystemNext, CheckPendingEvents, ReprocessFailedEvents

LEMMA BatchTypes ==
  ASSUME SystemTypeOK, [SystemNext]_systemVars
  PROVE  BatchTypeOK'
<1>1. table \in Table /\ BatchTypeOK
  BY DEF SystemTypeOK, TypeOK, Table, BatchTypeOK
<1>2. CASE failedEvents' = failedEvents
  BY <1>1, <1>2 DEF BatchTypeOK
<1>3. CASE failedEvents' = NoBatch
  BY <1>3, NoBatchType DEF BatchTypeOK
<1>4. ASSUME NEW ids \in SUBSET Event, ReprocessSelects(ids)
      PROVE  BatchTypeOK'
  <2>1. \A e \in ids : table[e].status = "FAILED"
    BY <1>4 DEF ReprocessSelects, Batches, WithStatus
  <2>2. \A e \in ids : table[e] \in Row
    BY <1>1, <2>1 DEF Table, NoRow
  <2> QED
    BY <1>4, <2>2 DEF ReprocessSelects, BatchTypeOK
<1>5. /\ \A waiting, spared : ReprocessCommits(waiting, spared) => failedEvents' = NoBatch
      /\ ServiceStep => failedEvents' = failedEvents
  BY DEF ReprocessCommits, ServiceStep
<1> QED
  BY <1>2, <1>3, <1>4, <1>5, SystemStep DEF JobsOnly, CheckActs

(* The rows that are recent exist, and the bounds are counted.              *)
LEMMA RecentTypes ==
  ASSUME SystemTypeOK, [SystemNext]_systemVars
  PROVE  /\ recent' \subseteq {e \in Event : Exists(table', e)}
         /\ checks' \in Nat /\ selections' \in Nat
<1> USE DEF strays, counts
<1>1. /\ table \in Table /\ TypeOK /\ BatchTypeOK
      /\ recent \subseteq {e \in Event : Exists(table, e)}
      /\ checks \in Nat /\ selections \in Nat
  BY DEF SystemTypeOK, TypeOK, Table, BatchTypeOK
<1>2. checks' \in Nat /\ selections' \in Nat
  <2>1. checks' = checks \/ checks' = checks + 1
    BY DEF SystemNext, CheckPendingEvents, ReprocessFailedEvents, ServiceStep, Ages, CheckSelects,
       CheckReadsLast, CheckLooksUp, CheckMarks, CheckMarkErrs, CheckFails, CheckEnds, CheckDies,
       ReprocessSelects, ReprocessCommits, ReprocessRollsBack, systemVars
  <2>2. selections' = selections \/ selections' = selections + 1
    BY DEF SystemNext, CheckPendingEvents, ReprocessFailedEvents, ServiceStep, Ages, CheckSelects,
       CheckReadsLast, CheckLooksUp, CheckMarks, CheckMarkErrs, CheckFails, CheckEnds, CheckDies,
       ReprocessSelects, ReprocessCommits, ReprocessRollsBack, systemVars
  <2> QED
    BY <1>1, <2>1, <2>2
<1>3. CASE ServiceStep
  <2>1. \A e \in Event : Exists(table, e) => Exists(table', e)
    BY <1>1, <1>3, RowsStay DEF ServiceStep
  <2> QED
    BY <1>1, <1>2, <1>3, <2>1 DEF ServiceStep
<1>4. ASSUME NEW waiting, NEW spared, ReprocessCommits(waiting, spared)
      PROVE  recent' \subseteq {e \in Event : Exists(table', e)}
  <2>1. /\ table' = Recreate(table, failedEvents)
        /\ recent' = recent \cup DOMAIN failedEvents
    BY <1>4 DEF ReprocessCommits
  <2>2. ASSUME NEW e \in DOMAIN failedEvents
        PROVE  e \in Event /\ Exists(table', e)
    <3>1. table'[e] = Recreated(failedEvents[e])
      BY <1>1, <2>1, RecreateType DEF BatchTypeOK
    <3> QED
      BY <1>1, <3>1 DEF BatchTypeOK, Recreated, Exists
  <2>3. \A e \in Event \ DOMAIN failedEvents : table'[e] = table[e]
    BY <1>1, <2>1, RecreateType DEF BatchTypeOK
  <2> QED
    BY <1>1, <2>1, <2>2, <2>3 DEF Exists
<1>5. CASE (JobsOnly \/ CheckActs) /\ recent' \subseteq recent
  <2>1. \A e \in Event : Exists(table, e) => Exists(table', e)
    BY <1>5 DEF JobsOnly, vars, CheckActs, Settles, Exists
  <2> QED
    BY <1>1, <1>2, <1>5, <2>1
<1>6. \/ ServiceStep
      \/ \E waiting, spared : ReprocessCommits(waiting, spared)
      \/ recent' \subseteq recent
  BY DEF SystemNext, CheckPendingEvents, ReprocessFailedEvents, Ages, CheckSelects,
     CheckReadsLast, CheckLooksUp, CheckMarks, CheckMarkErrs, CheckFails, CheckEnds,
     CheckDies, ReprocessSelects, ReprocessRollsBack, systemVars
<1> QED
  BY <1>2, <1>3, <1>4, <1>5, <1>6, SystemStep

LEMMA SystemNextType ==
  ASSUME SystemTypeOK, [SystemNext]_systemVars
  PROVE  SystemTypeOK'
BY ReaderTypes, CheckTypes, BatchTypes, RecentTypes DEF SystemTypeOK, CheckTypeOK, BatchTypeOK

(* Every variable keeps its type, those of the service too, which the jobs  *)
(* write to; and of a row that is recent there is one in the table, though  *)
(* reprocess-failed-events deletes rows.                                    *)
THEOREM SystemTypeCorrect == SystemSpec => []SystemTypeOK
<1>1. SystemInit => SystemTypeOK
  <2> SUFFICES ASSUME SystemInit PROVE SystemTypeOK
    OBVIOUS
  <2>1. TypeOK
    BY InitType DEF SystemInit
  <2> QED
    BY <2>1, NoBatchType, NoCheckType DEF SystemInit, SystemTypeOK
<1>2. SystemTypeOK /\ [SystemNext]_systemVars => SystemTypeOK'
  BY SystemNextType
<1> QED
  BY <1>1, <1>2, PTL DEF SystemSpec

-------------------------------------------------------------------------------
\* Every FAILED mark goes by the attempts of an insert.

(* The attempts that a FAILED mark of e may go by, now or later: those of   *)
(* an insert in the WAL, of a task, or of a mark left without an answer.    *)
IsBase(e, b) ==
  \/ \E i \in 1 .. Len(wal) : Inserted(e, b, i)
  \/ \E t \in tasks : t.id = e /\ t.base = b
  \/ \E s \in strayStmts : s.op = "FAILED" /\ s.id = e /\ s.attempts = b

(* Whatever has happened to a row since reprocess-failed-events found it:   *)
(* the attempts it found are beyond every base there is.                    *)
BatchOutdone ==
  \A e \in DOMAIN failedEvents :
    /\ Exists(table, e)
    /\ \A b \in Nat : IsBase(e, b) => b < failedEvents[e].attempts

LEMMA BaseType ==
  ASSUME TypeOK, NEW e, NEW b, IsBase(e, b)
  PROVE  e \in Event /\ b \in Nat
<1>1. CASE \E i \in 1 .. Len(wal) : Inserted(e, b, i)
  BY <1>1, InsertType DEF Inserted, TypeOK
<1>2. CASE \E t \in tasks : t.id = e /\ t.base = b
  BY <1>2 DEF TypeOK, Task
<1>3. CASE \E s \in strayStmts : s.op = "FAILED" /\ s.id = e /\ s.attempts = b
  BY <1>3 DEF TypeOK, Statement
<1> QED
  BY <1>1, <1>2, <1>3 DEF IsBase

LEMMA BasesAreOutdone == BasesOutdone <=> \A e, b : IsBase(e, b) => Outdone(e, b)
<1>1. BasesOutdone => \A e, b : IsBase(e, b) => Outdone(e, b)
  BY DEF BasesOutdone, IsBase, Inserted
<1>2. ASSUME \A e, b : IsBase(e, b) => Outdone(e, b)
      PROVE  BasesOutdone
  <2>1. ASSUME NEW i \in 1 .. Len(wal), NEW c \in filterChanges(wal[i])
        PROVE  IsBase(c.id, c.attempts)
    BY DEF IsBase, Inserted
  <2>2. \A t \in tasks : IsBase(t.id, t.base)
    BY DEF IsBase
  <2>3. \A s \in strayStmts : s.op = "FAILED" => IsBase(s.id, s.attempts)
    BY DEF IsBase
  <2> QED
    BY <1>2, <2>1, <2>2, <2>3 DEF BasesOutdone
<1> QED
  BY <1>1, <1>2

LEMMA OutdoneNext ==
  ASSUME \A e, b : IsBase(e, b)' => Outdone(e, b)'
  PROVE  BasesOutdone'
<1>1. (\A e, b : IsBase(e, b) => Outdone(e, b))' => BasesOutdone'
  BY BasesAreOutdone, PTL
<1> QED
  BY <1>1

(* A step of the service makes a base only of a row it inserts, the check   *)
(* makes none, and the commit of a batch makes one of each row: the         *)
(* attempts that were found.                                                *)
LEMMA ServiceBases ==
  ASSUME TypeOK, [Next]_vars, NEW e, NEW b, IsBase(e, b)'
  PROVE  IsBase(e, b) \/ ~Exists(table, e)
<1>1. WalGrows /\ Len(wal) \in Nat /\ Len(wal') \in Nat
  BY WalStep, NextType, ReaderAssumption DEF TypeOK
<1>2. ASSUME NEW i \in 1 .. Len(wal'), Inserted(e, b, i)'
      PROVE  IsBase(e, b) \/ ~Exists(table, e)
  <2>1. PICK c \in filterChanges(wal'[i]) : c.id = e /\ c.attempts = b
    BY <1>2 DEF Inserted
  <2>2. CASE i \in 1 .. Len(wal)
    <3>1. wal'[i] = wal[i]
      BY <1>1, <2>2 DEF WalGrows
    <3> QED
      BY <2>1, <2>2, <3>1 DEF IsBase, Inserted
  <2>3. CASE i \notin 1 .. Len(wal)
    <3>1. i \in Len(wal) + 1 .. Len(wal')
      BY <1>1, <2>3
    <3> QED
      BY <1>1, <2>1, <3>1 DEF WalGrows
  <2> QED
    BY <2>2, <2>3
<1>3. ASSUME NEW u \in tasks', u.id = e, u.base = b
      PROVE  IsBase(e, b)
  BY <1>3, TasksStep DEF IsBase, Inserted
<1>4. ASSUME NEW s \in strayStmts', s.op = "FAILED", s.id = e, s.attempts = b
      PROVE  IsBase(e, b)
  BY <1>4, StraysStep DEF IsBase
<1> QED
  BY <1>2, <1>3, <1>4 DEF IsBase

LEMMA CheckBases ==
  ASSUME TypeOK, CheckActs, NEW e, NEW b, IsBase(e, b)'
  PROVE  IsBase(e, b)
<1>1. Len(wal) \in Nat
  BY DEF TypeOK
<1>2. ASSUME NEW i \in 1 .. Len(wal'), Inserted(e, b, i)'
      PROVE  IsBase(e, b)
  <2>1. PICK c \in filterChanges(wal'[i]) : c.id = e /\ c.attempts = b
    BY <1>2 DEF Inserted
  <2>2. i \in 1 .. Len(wal)
    <3>1. i \in 1 .. Len(wal) \/ i \in Len(wal) + 1 .. Len(wal')
      BY <1>1 DEF CheckActs
    <3> QED
      BY <2>1, <3>1 DEF CheckActs
  <2>3. wal'[i] = wal[i]
    BY <2>2 DEF CheckActs
  <2> QED
    BY <2>1, <2>2, <2>3 DEF IsBase, Inserted
<1>3. CASE \E t \in tasks' : t.id = e /\ t.base = b
  BY <1>3 DEF CheckActs, IsBase
<1>4. CASE \E s \in strayStmts' : s.op = "FAILED" /\ s.id = e /\ s.attempts = b
  BY <1>4 DEF CheckActs, IsBase
<1> QED
  BY <1>2, <1>3, <1>4 DEF IsBase

LEMMA CommitBases ==
  ASSUME SystemTypeOK, NEW waiting, NEW spared, ReprocessCommits(waiting, spared),
         NEW e, NEW b, IsBase(e, b)'
  PROVE  IsBase(e, b) \/ (e \in DOMAIN failedEvents /\ b = failedEvents[e].attempts)
<1> USE DEF strays
<1>1. wal \in Seq(SUBSET Change) /\ wal' = Append(wal, RecreationChanges)
  BY DEF SystemTypeOK, TypeOK, ReprocessCommits
<1>2. ASSUME NEW i \in 1 .. Len(wal'), Inserted(e, b, i)'
      PROVE  IsBase(e, b) \/ (e \in DOMAIN failedEvents /\ b = failedEvents[e].attempts)
  <2>1. PICK c \in filterChanges(wal'[i]) : c.id = e /\ c.attempts = b
    BY <1>2 DEF Inserted
  <2>2. CASE i \in 1 .. Len(wal)
    <3>1. wal'[i] = wal[i]
      BY <1>1, <2>2, Appends
    <3> QED
      BY <2>1, <2>2, <3>1 DEF IsBase, Inserted
  <2>3. CASE i \notin 1 .. Len(wal)
    <3>1. i \in Len(wal) + 1 .. Len(wal')
      BY <1>1, <2>3, Appends
    <3>2. c \in filterChanges(RecreationChanges)
      BY <1>1, <2>1, <3>1, Appends
    <3>3. PICK f \in DOMAIN failedEvents : c = OutboxChange("insert", f, failedEvents[f].attempts)
      BY <3>2, RecreateType DEF SystemTypeOK, TypeOK, Table
    <3>4. c.id = f /\ c.attempts = failedEvents[f].attempts
      BY <3>3 DEF OutboxChange
    <3> QED
      BY <2>1, <3>4
  <2> QED
    BY <2>2, <2>3
<1>3. CASE \E t \in tasks' : t.id = e /\ t.base = b
  BY <1>3 DEF ReprocessCommits, IsBase
<1>4. CASE \E s \in strayStmts' : s.op = "FAILED" /\ s.id = e /\ s.attempts = b
  BY <1>4 DEF ReprocessCommits, IsBase
<1> QED
  BY <1>2, <1>3, <1>4 DEF IsBase

(* What the commit makes of the rows.                                       *)
LEMMA CommitRows ==
  ASSUME SystemTypeOK, NEW waiting, NEW spared, ReprocessCommits(waiting, spared), NEW e \in Event
  PROVE  /\ e \in DOMAIN failedEvents =>
              /\ table[e].status = "FAILED"
              /\ table'[e].status = "PENDING" /\ table'[e].attempts = failedEvents[e].attempts
         /\ e \notin DOMAIN failedEvents => table'[e] = table[e]
<1>1. e \in DOMAIN failedEvents => table'[e] = Recreated(failedEvents[e])
  BY RecreateType DEF SystemTypeOK, TypeOK, Table, ReprocessCommits
<1>2. e \notin DOMAIN failedEvents => table'[e] = table[e]
  BY RecreateType DEF SystemTypeOK, TypeOK, Table, ReprocessCommits
<1>3. e \in DOMAIN failedEvents => table[e].status = "FAILED"
  BY DEF ReprocessCommits, CanRecreate
<1> QED
  BY <1>1, <1>2, <1>3 DEF Recreated

LEMMA SystemNextOutdone ==
  ASSUME SystemTypeOK, BasesOutdone, BatchOutdone, [SystemNext]_systemVars
  PROVE  BasesOutdone'
<1>1. TypeOK /\ table \in Table /\ \A e \in Event : table[e].attempts \in Nat
  <2>1. TypeOK /\ table \in Table
    BY DEF SystemTypeOK, TypeOK, Table
  <2> QED
    BY <2>1 DEF Table, Row, NoRow
<1>2. CASE ServiceStep \/ JobsOnly
  <2>1. [Next]_vars
    BY <1>2 DEF ServiceStep, JobsOnly
  <2> QED
    BY <1>1, <2>1, NextOutdone
<1>3. CASE CheckActs
  <2> SUFFICES ASSUME NEW e, NEW b, IsBase(e, b)' PROVE Outdone(e, b)'
    BY OutdoneNext
  <2>1. IsBase(e, b) /\ Outdone(e, b) /\ e \in Event /\ b \in Nat
    BY <1>1, <1>3, CheckBases, BasesAreOutdone, BaseType
  <2>2. table'[e] = table[e] \/ Settles(e)
    BY <1>3, <2>1 DEF CheckActs
  <2> QED
    BY <1>1, <2>1, <2>2 DEF Settles, Outdone, Exists
<1>4. ASSUME NEW waiting, NEW spared, ReprocessCommits(waiting, spared)
      PROVE  BasesOutdone'
  <2> SUFFICES ASSUME NEW e, NEW b, IsBase(e, b)' PROVE Outdone(e, b)'
    BY OutdoneNext
  <2>1. IsBase(e, b) \/ (e \in DOMAIN failedEvents /\ b = failedEvents[e].attempts)
    BY <1>4, CommitBases
  <2>2. e \in Event /\ b \in Nat
    BY <1>1, <2>1, BaseType DEF SystemTypeOK, Row
  <2>3. CASE e \in DOMAIN failedEvents
    <3>1. table'[e].status = "PENDING" /\ table'[e].attempts = failedEvents[e].attempts
      BY <1>4, <2>2, <2>3, CommitRows
    <3>2. failedEvents[e].attempts \in Nat
      BY <2>3 DEF SystemTypeOK, Row
    <3>3. b <= failedEvents[e].attempts
      BY <2>1, <2>2, <2>3, <3>2 DEF BatchOutdone
    <3> QED
      BY <3>1, <3>3 DEF Outdone, Exists
  <2>4. CASE e \notin DOMAIN failedEvents
    <3>1. Outdone(e, b) /\ table'[e] = table[e]
      BY <1>4, <2>1, <2>2, <2>4, CommitRows, BasesAreOutdone
    <3> QED
      BY <3>1 DEF Outdone, Exists
  <2> QED
    BY <2>3, <2>4
<1> QED
  BY <1>2, <1>3, <1>4, SystemStep

LEMMA SystemNextBatch ==
  ASSUME SystemTypeOK, BasesOutdone, BatchOutdone, [SystemNext]_systemVars
  PROVE  BatchOutdone'
<1>1. TypeOK /\ table \in Table
  BY DEF SystemTypeOK, TypeOK, Table
<1>2. ASSUME failedEvents' = failedEvents,
             \A e \in Event : Exists(table, e) => Exists(table', e),
             \A e, b : IsBase(e, b)' => IsBase(e, b) \/ ~Exists(table, e)
      PROVE  BatchOutdone'
  <2> SUFFICES ASSUME NEW e \in DOMAIN failedEvents
               PROVE  /\ Exists(table', e)
                      /\ \A b \in Nat : IsBase(e, b)' => b < failedEvents[e].attempts
    BY <1>2 DEF BatchOutdone, Exists
  <2> QED
    BY <1>2 DEF BatchOutdone, SystemTypeOK
<1>3. CASE ServiceStep \/ (JobsOnly /\ failedEvents' = failedEvents)
  <2>1. [Next]_vars /\ failedEvents' = failedEvents
    BY <1>3 DEF ServiceStep, JobsOnly
  <2> QED
    BY <1>1, <1>2, <2>1, RowsStay, ServiceBases
<1>4. CASE CheckActs
  <2>1. \A e \in Event : Exists(table, e) => Exists(table', e)
    BY <1>4 DEF CheckActs, Settles, Exists
  <2>2. failedEvents' = failedEvents
    BY <1>4 DEF CheckActs
  <2> QED
    BY <1>1, <1>2, <1>4, <2>1, <2>2, CheckBases
<1>5. CASE failedEvents' = NoBatch
  <2>1. DOMAIN failedEvents' = {}
    BY <1>5, NoBatchType
  <2> QED
    BY <2>1 DEF BatchOutdone
<1>6. ASSUME NEW ids \in SUBSET Event, ReprocessSelects(ids)
      PROVE  BatchOutdone'
  <2>1. UNCHANGED vars /\ failedEvents' = [e \in ids |-> table[e]]
    BY <1>6 DEF ReprocessSelects
  <2>2. ASSUME NEW e \in ids
        PROVE  Exists(table, e) /\ \A b \in Nat : IsBase(e, b) => b < table[e].attempts
    <3>1. table[e].status = "FAILED"
      BY <1>6 DEF ReprocessSelects, Batches, WithStatus
    <3> QED
      BY <3>1, BasesAreOutdone DEF Outdone, Exists
  <2>3. \A e, b : IsBase(e, b)' <=> IsBase(e, b)
    BY <2>1 DEF vars, IsBase, Inserted
  <2> QED
    BY <2>1, <2>2, <2>3 DEF BatchOutdone, Exists, vars
<1>7. \A waiting, spared : ReprocessCommits(waiting, spared) => failedEvents' = NoBatch
  BY DEF ReprocessCommits
<1> QED
  BY <1>3, <1>4, <1>5, <1>6, <1>7, SystemStep DEF JobsOnly

LEMMA SystemOutdoneInvariant == SystemSpec => [](BasesOutdone /\ BatchOutdone)
<1>1. SystemInit => BasesOutdone /\ BatchOutdone
  BY NoBatchType DEF SystemInit, Init, BasesOutdone, BatchOutdone
<1>2. SystemTypeOK /\ (BasesOutdone /\ BatchOutdone) /\ [SystemNext]_systemVars
        => (BasesOutdone /\ BatchOutdone)'
  BY SystemNextOutdone, SystemNextBatch
<1> QED
  BY <1>1, <1>2, SystemTypeCorrect, PTL DEF SystemSpec

(* No FAILED mark, of whatever age, can match a PROCESSED row, though       *)
(* reprocess-failed-events takes attempts back to what it read before its   *)
(* transaction.                                                             *)
THEOREM GiveUpsHarmless == SystemSpec => []GiveUpsAreHarmless
<1>1. BasesOutdone => GiveUpsAreHarmless
  BY DEF BasesOutdone, Outdone, GiveUpsAreHarmless, Harmless
<1> QED
  BY <1>1, SystemOutdoneInvariant, PTL

-------------------------------------------------------------------------------
\* What takes a row out of PROCESSED.

LEMMA NextUndoes ==
  ASSUME SystemTypeOK, BasesOutdone, [SystemNext]_systemVars, ~CheckFails,
         NEW e \in Event, table[e].status = "PROCESSED"
  PROVE  table'[e].status = "PROCESSED"
<1>1. TypeOK /\ table \in Table /\ Exists(table, e)
  BY DEF SystemTypeOK, TypeOK, Table, Exists
<1>2. ASSUME RowMoves(e)
      PROVE  table'[e].status = "PROCESSED"
  BY <1>1, <1>2 DEF RowMoves
<1>3. CASE ServiceStep \/ JobsOnly
  <2>1. [Next]_vars
    BY <1>3 DEF ServiceStep, JobsOnly
  <2> QED
    BY <1>1, <1>2, <2>1, RowStep
<1>4. ASSUME NEW p \in check.event, CheckMarks(p)
      PROVE  table'[e].status = "PROCESSED"
  <2>1. /\ CheckStatement(p) \in Statement /\ Executes(CheckStatement(p))
        /\ CheckStatement(p).op # "FAILED"
    BY <1>4, CheckStatementType DEF SystemTypeOK, CheckMarks
  <2> QED
    BY <1>1, <1>2, <2>1, ExecutesMoves
<1>5. ASSUME NEW waiting, NEW spared, ReprocessCommits(waiting, spared)
      PROVE  table'[e].status = "PROCESSED"
  BY <1>5, CommitRows
<1>6. /\ \A p \in check.event : CheckMarkErrs(p) => table' = table
      /\ CheckDies => table' = table
  BY DEF CheckMarkErrs, CheckDies
<1> QED
  BY <1>3, <1>4, <1>5, <1>6, JobsOnlyStep DEF SystemNext, CheckPendingEvents, ReprocessFailedEvents

(* Nothing but markManyAsFailed takes a row out of PROCESSED: no UPDATE,    *)
(* however late, and no batch of reprocess-failed-events, however old.      *)
THEOREM OnlyCheckUndoes == SystemSpec => OnlyCheckUndoesProcessed
<1>1. SystemTypeOK /\ BasesOutdone /\ [SystemNext]_systemVars =>
        [~CheckFails => \A e \in Event :
           table[e].status = "PROCESSED" => table'[e].status = "PROCESSED"]_systemVars
  BY NextUndoes
<1> QED
  BY <1>1, SystemTypeCorrect, SystemOutdoneInvariant, PTL DEF SystemSpec, OnlyCheckUndoesProcessed

-------------------------------------------------------------------------------
\* Who owns a PENDING row.

\* The parts of the inductive invariant besides the types and the bases.
Ownership == TasksAreInserts /\ SeenIsCurrent /\ TriesAreErrors /\ PendingIsHeld /\ InsertsGrow

(* A step that keeps the WAL and the slot keeps what was inserted and       *)
(* received.                                                                *)
LEMMA InsertKept ==
  ASSUME Len(wal) \in Nat, Len(wal') \in Nat, Len(wal') >= Len(wal),
         \A i \in 1 .. Len(wal) : wal'[i] = wal[i],
         NEW e, NEW a, NEW i \in 1 .. Len(wal), Inserted(e, a, i)
  PROVE  Inserted(e, a, i)' /\ i \in 1 .. Len(wal')
<1>1. wal'[i] = wal[i]
  OBVIOUS
<1>2. i \in 1 .. Len(wal')
  BY SMT
<1> QED
  BY <1>1, <1>2 DEF Inserted

(* A row is held after a step that inserts it anew, or that leaves it and   *)
(* takes none of its inserts, tasks or lost marks away.                     *)
LEMMA InsertHolds ==
  ASSUME NEW e, NEW i \in Received' + 1 .. Len(wal'), NEW a, table'[e].attempts = a,
         Inserted(e, a, i)'
  PROVE  Held(e)'
<1>1. Inserted(e, table[e].attempts, i)'
  BY DEF Inserted
<1> QED
  BY <1>1 DEF Held

LEMMA HeldStays ==
  ASSUME TypeOK, Len(wal) \in Nat, Len(wal') \in Nat, Len(wal') >= Len(wal),
         \A i \in 1 .. Len(wal) : wal'[i] = wal[i],
         Received' = Received, resumed' = resumed,
         strayStmts \subseteq strayStmts', dbErrors' \in Nat, dbErrors <= dbErrors',
         NEW e, table'[e] = table[e], \A t \in tasks : t.id = e => t \in tasks', Held(e)
  PROVE  Held(e)'
<1>1. PICK a \in {table[e].attempts} : a = table'[e].attempts
  OBVIOUS
<1> DEFINE n == Len(wal)
           n2 == Len(wal')
           r == Received
<1>2. /\ r \in Nat /\ n \in Nat /\ n2 \in Nat /\ resumed \in Nat
      /\ r <= n /\ n <= n2 /\ resumed <= n
  BY ReceivedType DEF TypeOK
<1>3. \A i \in 1 .. n : Inserted(e, a, i) => Inserted(e, a, i)'
  BY DEF Inserted
<1>4. \A i : Inserted(e, a, i)' => Inserted(e, table[e].attempts, i)'
  BY <1>1 DEF Inserted
<1>5. CASE a >= MaxOutboxAttempts \/ \E t \in tasks : t.id = e /\ t.base = a
  BY <1>1, <1>5 DEF Held
<1>6. ASSUME NEW i \in r + 1 .. n, Inserted(e, a, i)
      PROVE  Held(e)'
  <2> HIDE DEF n, n2, r
  <2>1. i \in 1 .. n /\ i \in r + 1 .. n2
    BY <1>2
  <2>2. Inserted(e, a, i)'
    BY <1>3, <1>6, <2>1
  <2> QED
    BY <1>1, <2>1, <2>2, InsertHolds DEF r, n2
<1>7. ASSUME NEW i \in 1 .. resumed, Inserted(e, a, i)
      PROVE  Held(e)'
  <2>1. i \in 1 .. n /\ i \in 1 .. resumed'
    BY <1>2
  <2> QED
    BY <1>1, <1>3, <1>4, <1>7, <2>1 DEF Held
<1>8. CASE MarkIsLost(e)
  <2>1. dbErrors >= DbNumOfAttempts /\ dbErrors' >= DbNumOfAttempts
    BY <1>8, ReaderAssumption DEF MarkIsLost, ReaderAssumption, TypeOK
  <2>2. MarkIsLost(e)'
    BY <1>8, <2>1 DEF MarkIsLost
  <2> QED
    BY <2>2 DEF Held
<1> QED
  BY <1>5, <1>6, <1>7, <1>8 DEF Held

LEMMA CheckOwnership ==
  ASSUME SystemTypeOK, SystemTypeOK', Ownership, CheckActs
  PROVE  Ownership'
<1> USE DEF slot
<1>1. /\ TypeOK /\ Len(wal) \in Nat /\ Len(wal') \in Nat /\ Len(wal') >= Len(wal)
      /\ \A i \in 1 .. Len(wal) : wal'[i] = wal[i]
      /\ \A i \in Len(wal) + 1 .. Len(wal') : filterChanges(wal'[i]) = {}
      /\ tasks' = tasks /\ resumed' = resumed /\ strayStmts \subseteq strayStmts'
      /\ handled' = handled /\ busy' = busy
      /\ dbErrors \in Nat /\ dbErrors' \in Nat /\ dbErrors <= dbErrors'
  <2>1. TypeOK /\ TypeOK' /\ Len(wal) \in Nat /\ Len(wal') \in Nat /\ dbErrors \in Nat
    BY DEF SystemTypeOK, TypeOK
  <2> QED
    BY <2>1 DEF CheckActs
<1>2. Received' = Received /\ Received \in Nat /\ Received <= Len(wal)
  BY <1>1, ReceivedType DEF Received
<1>3. \A e, a : \A i \in 1 .. Len(wal) :
        Inserted(e, a, i) => Inserted(e, a, i)' /\ i \in 1 .. Len(wal')
  BY <1>1, InsertKept
<1>4. \A e \in Event : table'[e].status = "PENDING" => table'[e] = table[e]
  BY DEF CheckActs, Settles
<1>5. TasksAreInserts'
  <2>1. ASSUME NEW t \in tasks
        PROVE  t.lsn \in 1 .. Received /\ Inserted(t.id, t.base, t.lsn)'
    <3>1. t.lsn \in 1 .. Received /\ Inserted(t.id, t.base, t.lsn)
      BY DEF Ownership, TasksAreInserts
    <3>2. t.lsn \in 1 .. Len(wal)
      BY <1>1, <1>2, <3>1
    <3> QED
      BY <1>3, <3>1, <3>2
  <2> QED
    BY <1>1, <1>2, <2>1 DEF TasksAreInserts
<1>6. SeenIsCurrent'
  <2>1. \A t \in tasks : t.id \in Event
    BY <1>1 DEF TypeOK, Task
  <2> QED
    BY <1>1, <1>4, <2>1 DEF Ownership, SeenIsCurrent, IsCurrent, HasRow
<1>7. TriesAreErrors'
  <2>1. \A t \in tasks : t.tries \in Nat /\ t.tries <= dbErrors
    BY <1>1 DEF Ownership, TriesAreErrors, TypeOK, Task
  <2> QED
    BY <1>1, <2>1 DEF TriesAreErrors
<1>8. PendingIsHeld'
  <2> SUFFICES ASSUME NEW e \in Event, table'[e].status = "PENDING"
               PROVE  Held(e)'
    BY DEF PendingIsHeld
  <2>1. table'[e] = table[e] /\ Held(e)
    BY <1>4 DEF Ownership, PendingIsHeld
  <2> QED
    BY <1>1, <1>2, <2>1, HeldStays
<1>9. InsertsGrow'
  <2> SUFFICES ASSUME NEW i \in 1 .. Len(wal'), NEW j \in 1 .. Len(wal'), i < j,
                      NEW c \in filterChanges(wal'[i]), NEW d \in filterChanges(wal'[j]),
                      c.id = d.id
               PROVE  c.attempts < d.attempts
    BY DEF InsertsGrow
  <2>1. /\ i \in 1 .. Len(wal) \/ i \in Len(wal) + 1 .. Len(wal')
        /\ j \in 1 .. Len(wal) \/ j \in Len(wal) + 1 .. Len(wal')
    BY <1>1
  <2>2. i \in 1 .. Len(wal) /\ j \in 1 .. Len(wal) /\ wal'[i] = wal[i] /\ wal'[j] = wal[j]
    BY <1>1, <2>1
  <2> QED
    BY <2>2 DEF Ownership, InsertsGrow
<1> QED
  BY <1>5, <1>6, <1>7, <1>8, <1>9 DEF Ownership

LEMMA CommitOwnership ==
  ASSUME SystemTypeOK, SystemTypeOK', BatchOutdone, Ownership,
         NEW waiting, NEW spared, ReprocessCommits(waiting, spared)
  PROVE  Ownership'
<1> USE DEF slot, strays, counts
<1>1. wal \in Seq(SUBSET Change) /\ wal' = Append(wal, RecreationChanges) /\ TypeOK
  BY DEF SystemTypeOK, TypeOK, ReprocessCommits
<1>2. /\ Len(wal) \in Nat /\ Len(wal') \in Nat /\ Len(wal') = Len(wal) + 1
      /\ \A i \in 1 .. Len(wal) : wal'[i] = wal[i]
      /\ \A i \in Len(wal) + 1 .. Len(wal') : wal'[i] = RecreationChanges
      /\ tasks' = tasks \ waiting /\ resumed' = resumed /\ strayStmts' = strayStmts
      /\ handled' = handled /\ busy' = busy /\ dbErrors' = dbErrors
      /\ dbErrors \in Nat /\ dbErrors <= dbErrors
  BY <1>1, Appends DEF ReprocessCommits, TypeOK
<1>3. Received' = Received /\ Received \in Nat /\ Received <= Len(wal)
  BY <1>1, <1>2, ReceivedType DEF Received
<1>4. \A e, a : \A i \in 1 .. Len(wal) :
        Inserted(e, a, i) => Inserted(e, a, i)' /\ i \in 1 .. Len(wal')
  BY <1>2, InsertKept
<1>5. \A e \in Event \ DOMAIN failedEvents : table'[e] = table[e]
  BY CommitRows
<1>6. \A t \in tasks : t.id \in Event /\ t.base \in Nat /\ t.tries \in Nat
  BY <1>1 DEF TypeOK, Task
<1>7. TasksAreInserts'
  <2>1. ASSUME NEW t \in tasks
        PROVE  t.lsn \in 1 .. Received /\ Inserted(t.id, t.base, t.lsn)'
    <3>1. t.lsn \in 1 .. Received /\ Inserted(t.id, t.base, t.lsn)
      BY DEF Ownership, TasksAreInserts
    <3>2. t.lsn \in 1 .. Len(wal)
      BY <1>2, <1>3, <3>1
    <3> QED
      BY <1>4, <3>1, <3>2
  <2> QED
    BY <1>2, <1>3, <2>1 DEF TasksAreInserts
<1>8. SeenIsCurrent'
  <2> SUFFICES ASSUME NEW t \in tasks', HasRow(t), table'[t.id].status = "PENDING",
                      table'[t.id].attempts = t.base
               PROVE  t.seen = table'[t.id]
    BY DEF SeenIsCurrent, IsCurrent, HasRow
  <2>1. t \in tasks /\ t.id \in Event /\ t.base \in Nat
    BY <1>2, <1>6
  <2>2. CASE t.id \in DOMAIN failedEvents
    <3>1. IsBase(t.id, t.base)
      BY <2>1 DEF IsBase
    <3>2. t.base < failedEvents[t.id].attempts /\ failedEvents[t.id].attempts \in Nat
      BY <2>1, <2>2, <3>1 DEF BatchOutdone, SystemTypeOK, Row
    <3>3. table'[t.id].attempts = failedEvents[t.id].attempts
      BY <2>1, <2>2, CommitRows
    <3> QED
      BY <2>1, <3>2, <3>3
  <2>3. CASE t.id \notin DOMAIN failedEvents
    BY <1>5, <2>1, <2>3 DEF Ownership, SeenIsCurrent, IsCurrent
  <2> QED
    BY <2>2, <2>3
<1>9. TriesAreErrors'
  BY <1>2 DEF Ownership, TriesAreErrors
<1>10. PendingIsHeld'
  <2> SUFFICES ASSUME NEW e \in Event, table'[e].status = "PENDING"
               PROVE  Held(e)'
    BY DEF PendingIsHeld
  <2>1. CASE e \in DOMAIN failedEvents
    <3>1. PICK a \in {failedEvents[e].attempts} : a = table'[e].attempts
      BY <2>1, CommitRows
    <3>2. PICK i \in Received + 1 .. Len(wal') : i = Len(wal) + 1
      BY <1>2, <1>3
    <3>3. wal'[i] = RecreationChanges
      <4>1. i \in Len(wal) + 1 .. Len(wal')
        BY <1>2, <3>2
      <4> QED
        BY <1>2, <4>1
    <3>4. OutboxChange("insert", e, a) \in filterChanges(RecreationChanges)
      BY <2>1, RecreateType DEF SystemTypeOK, TypeOK, Table
    <3>5. Inserted(e, a, i)'
      BY <3>3, <3>4 DEF Inserted, OutboxChange
    <3> QED
      BY <1>3, <3>1, <3>2, <3>5, InsertHolds
  <2>2. CASE e \notin DOMAIN failedEvents
    <3>1. table'[e] = table[e] /\ Held(e)
      BY <1>2, <1>5, <2>2 DEF Ownership, PendingIsHeld
    <3>2. \A t \in tasks : t.id = e => t \in tasks'
      BY <1>2, <2>2 DEF ReprocessCommits
    <3> QED
      BY <1>1, <1>2, <1>3, <3>1, <3>2, HeldStays
  <2> QED
    BY <2>1, <2>2
<1>11. InsertsGrow'
  <2> SUFFICES ASSUME NEW i \in 1 .. Len(wal'), NEW j \in 1 .. Len(wal'), i < j,
                      NEW c \in filterChanges(wal'[i]), NEW d \in filterChanges(wal'[j]),
                      c.id = d.id
               PROVE  c.attempts < d.attempts
    BY DEF InsertsGrow
  <2>1. i \in 1 .. Len(wal) /\ wal'[i] = wal[i]
    BY <1>2
  <2>2. CASE j \in 1 .. Len(wal)
    BY <1>2, <2>1, <2>2 DEF Ownership, InsertsGrow
  <2>3. CASE j \notin 1 .. Len(wal)
    <3>1. j \in Len(wal) + 1 .. Len(wal')
      BY <1>2, <2>3
    <3>2. d \in filterChanges(RecreationChanges)
      BY <1>2, <3>1
    <3>3. PICK f \in DOMAIN failedEvents : d = OutboxChange("insert", f, failedEvents[f].attempts)
      BY <3>2, RecreateType DEF SystemTypeOK, TypeOK, Table
    <3>4. d.id = f /\ d.attempts = failedEvents[f].attempts
      BY <3>3 DEF OutboxChange
    <3>5. IsBase(f, c.attempts) /\ c.attempts \in Nat
      BY <1>1, <2>1, <3>4, InsertType DEF IsBase, Inserted
    <3> QED
      BY <3>4, <3>5 DEF BatchOutdone
  <2> QED
    BY <2>2, <2>3
<1> QED
  BY <1>7, <1>8, <1>9, <1>10, <1>11 DEF Ownership

LEMMA SystemNextOwnership ==
  ASSUME SystemTypeOK, SystemTypeOK', BasesOutdone, BatchOutdone, Ownership,
         [SystemNext]_systemVars
  PROVE  Ownership'
<1>1. CASE ServiceStep \/ JobsOnly
  <2>1. [Next]_vars /\ TypeOK
    BY <1>1 DEF ServiceStep, JobsOnly, SystemTypeOK
  <2>2. TasksAreInserts /\ SeenIsCurrent /\ TriesAreErrors /\ PendingIsHeld /\ InsertsGrow
    BY DEF Ownership
  <2>3. TasksAreInserts' /\ SeenIsCurrent' /\ TriesAreErrors' /\ PendingIsHeld'
    BY <2>1, <2>2, NextTasksAreInserts, NextSeen, NextTries, NextHeld
  <2>4. InsertsGrow'
    BY <2>1, <2>2, NextInsertsGrow
  <2> QED
    BY <2>3, <2>4 DEF Ownership
<1> QED
  BY <1>1, SystemStep, CheckOwnership, CommitOwnership

(* A PENDING row of the three processes is in somebody's hands by its       *)
(* latest insert, or the process began after that insert was acknowledged,  *)
(* or every try of its FAILED mark was lost, or its attempts are spent: a   *)
(* batch of reprocess-failed-events hands each row to a new insert, and     *)
(* never leaves a task with a row that is not its own.                      *)
THEOREM PendingOwnedOrSpent == SystemSpec => []PendingIsOwnedOrSpent
<1>1. SystemInit => Ownership
  <2> SUFFICES ASSUME SystemInit PROVE Ownership
    OBVIOUS
  <2>1. tasks = {} /\ wal = << >> /\ \A e \in Event : table[e] = NoRow
    BY DEF SystemInit, Init
  <2>2. NoRow.status # "PENDING"
    BY DEF NoRow
  <2> QED
    BY <2>1, <2>2 DEF Ownership, TasksAreInserts, SeenIsCurrent, TriesAreErrors, PendingIsHeld,
                      InsertsGrow
<1>2. /\ SystemTypeOK /\ SystemTypeOK' /\ (BasesOutdone /\ BatchOutdone) /\ Ownership
      /\ [SystemNext]_systemVars
      => Ownership'
  BY SystemNextOwnership
<1>3. ASSUME SystemTypeOK, BasesOutdone, Ownership, NEW e \in Event, table[e].status = "PENDING"
      PROVE  OwnedOrLost(e) \/ table[e].attempts >= MaxOutboxAttempts
  BY <1>3, HeldIsOwned DEF SystemTypeOK, Ownership, PendingIsHeld
<1>4. SystemTypeOK /\ (BasesOutdone /\ BatchOutdone) /\ Ownership => PendingIsOwnedOrSpent
  BY <1>3 DEF PendingIsOwnedOrSpent
<1> QED
  BY <1>1, <1>2, <1>4, SystemTypeCorrect, SystemOutdoneInvariant, PTL DEF SystemSpec

================================================================================
