------------------------- MODULE OutboxOwnershipProofs -------------------------
(***************************************************************************)
(* Who owns a PENDING row, how many tasks work on a record, and what       *)
(* attempts counts: theorems about OutboxReader for every configuration.   *)
(*                                                                         *)
(* All three follow the inserts of the WAL: each task stems from one of    *)
(* them and carries its attempts to the FAILED mark.  The lemmas about a   *)
(* step of Next assume no more than they need, because the steps of the    *)
(* service are steps of OutboxSystem too.                                  *)
(***************************************************************************)
EXTENDS OutboxReaderProofs

Inserted(e, attempts, i) ==
  \E c \in filterChanges(wal[i]) : c.id = e /\ c.attempts = attempts

(* The attempts of an insert are outdone when a FAILED mark that goes by    *)
(* them finds the row either PENDING, just as the insert left it, or not at *)
(* all: every outcome has taken the row beyond them.                        *)
Outdone(e, attempts) ==
  /\ Exists(table, e)
  /\ attempts <= table[e].attempts
  /\ table[e].status # "PENDING" => attempts < table[e].attempts

BasesOutdone ==
  /\ \A i \in 1 .. Len(wal) : \A c \in filterChanges(wal[i]) : Outdone(c.id, c.attempts)
  /\ \A t \in tasks : Outdone(t.id, t.base)
  /\ \A s \in strayStmts : s.op = "FAILED" => Outdone(s.id, s.attempts)

-------------------------------------------------------------------------------
\* What a step does to the WAL, the tasks, the strays and the rows.

LEMMA UpdatesAreNoInserts ==
  ASSUME NEW log, \A c \in log : c.kind = "update"
  PROVE  filterChanges(log) = {}
BY DEF filterChanges

(* The WAL only grows, and the inserts a step adds to it are a client's, of *)
(* rows that were not there.                                                *)
WalGrows ==
  /\ Len(wal') >= Len(wal)
  /\ \A i \in 1 .. Len(wal) : wal'[i] = wal[i]
  /\ \A i \in Len(wal) + 1 .. Len(wal') : \A c \in filterChanges(wal'[i]) :
       /\ i = Len(wal) + 1
       /\ c.id \in Event /\ c = OutboxChange("insert", c.id, NewRow.attempts)
       /\ ~Exists(table, c.id) /\ table'[c.id] = NewRow

LEMMA WalStep ==
  ASSUME TypeOK, [Next]_vars
  PROVE  WalGrows
<1> USE DEF slot, server, strays, counts
<1>1. wal \in Seq(SUBSET Change)
  BY DEF TypeOK
<1>2. ASSUME wal' = wal
      PROVE  WalGrows
  BY <1>1, <1>2 DEF WalGrows
<1>3. ASSUME NEW S \in SUBSET Event, CommitEvents(S)
      PROVE  WalGrows
  <2> DEFINE log == {DomainChange} \cup {OutboxChange("insert", e, NewRow.attempts) : e \in S}
  <2>1. wal' = Append(wal, log)
    BY <1>3 DEF CommitEvents
  <2>2. \A c \in filterChanges(log) : /\ c.id \in S
                                      /\ c = OutboxChange("insert", c.id, NewRow.attempts)
    BY DEF filterChanges, DomainChange, OutboxChange
  <2>3. \A e \in S : ~Exists(table, e) /\ table'[e] = NewRow
    BY <1>3 DEF CommitEvents
  <2> HIDE DEF log
  <2>4. /\ Len(wal') = Len(wal) + 1
        /\ \A i \in 1 .. Len(wal) : wal'[i] = wal[i]
        /\ wal'[Len(wal) + 1] = log
    BY <1>1, <2>1
  <2>5. \A i \in Len(wal) + 1 .. Len(wal') : i = Len(wal) + 1
    BY <1>1, <2>4
  <2> QED
    BY <1>1, <2>2, <2>3, <2>4, <2>5 DEF WalGrows
<1>4. ASSUME NEW s, Executes(s)
      PROVE  WalGrows
  <2> DEFINE log == {OutboxChange("update", s.id, Execute(table, s)[s.id].attempts)}
  <2>1. wal' = wal \/ wal' = Append(wal, log)
    BY <1>4 DEF Executes
  <2>2. filterChanges(log) = {}
    BY UpdatesAreNoInserts DEF OutboxChange
  <2> HIDE DEF log
  <2>3. CASE wal' = Append(wal, log)
    <3>1. /\ Len(wal') = Len(wal) + 1
          /\ \A i \in 1 .. Len(wal) : wal'[i] = wal[i]
          /\ wal'[Len(wal) + 1] = log
      BY <1>1, <2>3
    <3>2. \A i \in Len(wal) + 1 .. Len(wal') : i = Len(wal) + 1
      BY <1>1, <3>1
    <3> QED
      BY <1>1, <2>2, <3>1, <3>2 DEF WalGrows
  <2> QED
    BY <1>2, <2>1, <2>3
<1>5. /\ \A s \in strayStmts : StrayExecuted(s) => Executes(s)
      /\ \A t \in tasks : MarkReplied(t) => Executes(MarkStatement(t))
      /\ \A t \in tasks : FailReplied(t) => Executes(FailStatement(t))
  BY DEF StrayExecuted, MarkReplied, FailReplied
<1>6. /\ \A e \in strayMsgs : StrayStored(e) => wal' = wal
      /\ \A m \in Aggregate : Expire(m) => wal' = wal
      /\ OnChange \/ OnChangeDone \/ Acknowledge \/ Crash \/ UNCHANGED vars => wal' = wal
      /\ \A t \in tasks : StartTask(t) \/ PublishAcked(t) \/ PublishFails(t) => wal' = wal
      /\ \A t \in tasks : MarkErrs(t) \/ FailErrs(t) => wal' = wal
      /\ \A t \in tasks : RetryRuns(t) \/ RetryReadErrs(t) => wal' = wal
  BY DEF StrayStored, Expire, OnChange, OnChangeDone, Acknowledge, Crash, vars, StartTask,
         PublishAcked, PublishFails, MarkErrs, FailErrs, StatementErrs, RetryRuns, RetryReadErrs
<1> QED
  BY <1>2, <1>3, <1>4, <1>5, <1>6 DEF Next, ProcessInserts, RunRetry

(* A row is inserted, becomes PROCESSED, or goes from PENDING to FAILED.    *)
RowMoves(e) ==
  \/ table'[e] = table[e]
  \/ /\ ~Exists(table, e) /\ table'[e] = NewRow
     /\ \E i \in Len(wal) + 1 .. Len(wal') : Inserted(e, NewRow.attempts, i)'
  \/ /\ Exists(table, e)
     /\ table'[e].status = "PROCESSED" /\ table'[e].attempts = table[e].attempts + 1
  \/ /\ table[e].status = "PENDING"
     /\ table'[e].status = "FAILED" /\ table'[e].attempts = table[e].attempts + 1

LEMMA ExecutesMoves ==
  ASSUME table \in Table, NEW s \in Statement, Executes(s),
         s.op = "FAILED" => Outdone(s.id, s.attempts)
  PROVE  \A e \in Event : RowMoves(e)
<1>1. s.id \in Event /\ s.attempts \in Nat /\ s.op \in {"PROCESSED", "FAILED"}
  BY DEF Statement
<1>2. \A e \in Event \ {s.id} : table'[e] = table[e]
  BY ExecuteType DEF Executes
<1>3. CASE s.op = "PROCESSED"
  <2>1. table'[s.id] = table[s.id] \/
          /\ Exists(table, s.id)
          /\ table'[s.id].status = "PROCESSED"
          /\ table'[s.id].attempts = table[s.id].attempts + 1
    BY <1>1, <1>3 DEF Executes, Execute, MarkAsProcessed, Table
  <2> QED
    BY <1>2, <2>1 DEF RowMoves
<1>4. CASE s.op = "FAILED"
  <2>1. table'[s.id] = table[s.id] \/
          /\ table[s.id].attempts = s.attempts
          /\ table'[s.id].status = "FAILED"
          /\ table'[s.id].attempts = table[s.id].attempts + 1
    BY <1>1, <1>4 DEF Executes, Execute, MarkAsFailed, Table
  <2>2. table[s.id].attempts = s.attempts => table[s.id].status = "PENDING"
    BY <1>1, <1>4 DEF Outdone
  <2> QED
    BY <1>2, <2>1, <2>2 DEF RowMoves
<1> QED
  BY <1>1, <1>3, <1>4

LEMMA RowStep ==
  ASSUME TypeOK, BasesOutdone, [Next]_vars
  PROVE  \A e \in Event : RowMoves(e)
<1>1. table \in Table
  BY DEF TypeOK, Table
<1>2. ASSUME UNCHANGED table
      PROVE  \A e \in Event : RowMoves(e)
  BY <1>2 DEF RowMoves
<1>3. ASSUME NEW S \in SUBSET Event, CommitEvents(S)
      PROVE  \A e \in Event : RowMoves(e)
  <2> DEFINE log == {DomainChange} \cup {OutboxChange("insert", e, NewRow.attempts) : e \in S}
  <2>1. wal' = Append(wal, log)
    BY <1>3 DEF CommitEvents
  <2>2. ASSUME NEW e \in S
        PROVE  \E c \in filterChanges(log) : c.id = e /\ c.attempts = NewRow.attempts
    <3>1. OutboxChange("insert", e, NewRow.attempts) \in filterChanges(log)
      BY DEF filterChanges, OutboxChange
    <3> QED
      BY <3>1 DEF OutboxChange
  <2> HIDE DEF log
  <2>3. wal'[Len(wal) + 1] = log /\ Len(wal') = Len(wal) + 1 /\ Len(wal) \in Nat
    BY <2>1 DEF TypeOK
  <2>4. ASSUME NEW e \in S
        PROVE  \E i \in Len(wal) + 1 .. Len(wal') : Inserted(e, NewRow.attempts, i)'
    <3>1. Len(wal) + 1 \in Len(wal) + 1 .. Len(wal')
      BY <2>3
    <3>2. PICK i \in Len(wal) + 1 .. Len(wal') : i = Len(wal) + 1
      BY <3>1
    <3>3. Inserted(e, NewRow.attempts, i)'
      BY <2>2, <2>3, <3>2 DEF Inserted
    <3> QED
      BY <3>3
  <2>5. \A e \in S : ~Exists(table, e) /\ table'[e] = NewRow
    BY <1>3 DEF CommitEvents
  <2>6. \A e \in Event \ S : table'[e] = table[e]
    BY <1>3 DEF CommitEvents
  <2> QED
    BY <2>4, <2>5, <2>6 DEF RowMoves
<1>4. ASSUME NEW s \in strayStmts, StrayExecuted(s)
      PROVE  \A e \in Event : RowMoves(e)
  <2>1. s \in Statement /\ Executes(s) /\ (s.op = "FAILED" => Outdone(s.id, s.attempts))
    BY <1>4 DEF StrayExecuted, TypeOK, BasesOutdone
  <2> QED
    BY <1>1, <2>1, ExecutesMoves
<1>5. ASSUME NEW t \in tasks, MarkReplied(t)
      PROVE  \A e \in Event : RowMoves(e)
  <2>1. /\ MarkStatement(t) \in Statement /\ Executes(MarkStatement(t))
        /\ MarkStatement(t).op # "FAILED"
    BY <1>5, TaskType, ReaderAssumption DEF MarkReplied, MarkStatement, TypeOK
  <2> QED
    BY <1>1, <2>1, ExecutesMoves
<1>6. ASSUME NEW t \in tasks, FailReplied(t)
      PROVE  \A e \in Event : RowMoves(e)
  <2>1. FailStatement(t) \in Statement /\ Executes(FailStatement(t))
    BY <1>6, TaskType, ReaderAssumption DEF FailReplied, TypeOK
  <2>2. Outdone(FailStatement(t).id, FailStatement(t).attempts)
    BY DEF FailStatement, BasesOutdone
  <2> QED
    BY <1>1, <2>1, <2>2, ExecutesMoves
<1>7. /\ \A e \in strayMsgs : StrayStored(e) => UNCHANGED table
      /\ \A m \in Aggregate : Expire(m) => UNCHANGED table
      /\ OnChange \/ OnChangeDone \/ Acknowledge \/ Crash \/ UNCHANGED vars => UNCHANGED table
      /\ \A t \in tasks : StartTask(t) \/ PublishAcked(t) \/ PublishFails(t) => UNCHANGED table
      /\ \A t \in tasks : MarkErrs(t) \/ FailErrs(t) => UNCHANGED table
      /\ \A t \in tasks : RetryRuns(t) \/ RetryReadErrs(t) => UNCHANGED table
  BY DEF StrayStored, Expire, OnChange, OnChangeDone, Acknowledge, Crash, vars, StartTask,
         PublishAcked, PublishFails, MarkErrs, FailErrs, StatementErrs, RetryRuns, RetryReadErrs
<1> QED
  BY <1>2, <1>3, <1>4, <1>5, <1>6, <1>7 DEF Next, ProcessInserts, RunRetry

(* Whatever a row does, attempts that were outdone stay outdone.            *)
LEMMA OutdoneStays ==
  ASSUME table \in Table, NEW e \in Event, RowMoves(e), NEW a \in Nat, Outdone(e, a)
  PROVE  Outdone(e, a)'
<1>1. table[e].attempts \in Nat
  BY DEF Table, Row, NoRow
<1> QED
  BY <1>1 DEF RowMoves, Outdone, Exists

-------------------------------------------------------------------------------
\* What a task does.

(* A task that goes on stays the task of its insert.  The row it works on   *)
(* is the one it had, or one it reads in this step.                         *)
HasRow(t) == t.stage \in {"queued", "publish", "mark"}

GoesOn(t, u) ==
  /\ u.id = t.id /\ u.lsn = t.lsn /\ u.base = t.base
  /\ tasks' = (tasks \ {t}) \cup {u}
  /\ \/ u.tries \in {0, t.tries}
     \/ u.tries = t.tries + 1 /\ dbErrors' = dbErrors + 1
  /\ HasRow(u) => \/ HasRow(t) /\ u.seen = t.seen
                  \/ u.seen = FindUnprocessedById(table, t.id)

(* A task ends because processInserts skips the record, because an UPDATE   *)
(* has been answered, or because the last try of markAsFailed threw.        *)
Ends(t) ==
  /\ tasks' = tasks \ {t}
  /\ \/ HasRow(t) /\ Skipped(t.seen)
     \/ Skipped(FindUnprocessedById(table, t.id))
     \/ t.stage = "mark" /\ Executes(MarkStatement(t))
     \/ t.stage = "failing" /\ Executes(FailStatement(t))
     \/ LastTry(t) /\ dbErrors' = dbErrors + 1 /\ FailStatement(t) \in strayStmts'

LEMMA FailureGoesOn ==
  ASSUME ReaderAssumption, TypeOK, NEW t \in tasks, tasks' = AfterFailure(t)
  PROVE  \E u \in Task : GoesOn(t, u)
<1>1. t \in Task
  BY DEF TypeOK
<1> DEFINE n == IF t.origin = "batch" THEN 0 ELSE t.attempt + 1
           u == IF Exhausted(t) THEN Failing(t) ELSE Scheduled(t, n)
<1>2. u \in Task
  BY <1>1, TaskType
<1>3. /\ Failing(t).id = t.id /\ Failing(t).lsn = t.lsn /\ Failing(t).base = t.base
      /\ Failing(t).tries = 0 /\ Failing(t).stage = "failing"
  BY <1>1 DEF Failing, Task
<1>4. ASSUME NEW k
      PROVE  /\ Scheduled(t, k).id = t.id /\ Scheduled(t, k).lsn = t.lsn
             /\ Scheduled(t, k).base = t.base
             /\ Scheduled(t, k).tries = 0 /\ Scheduled(t, k).stage = "timer"
  BY <1>1 DEF Scheduled, Task
<1>5. tasks' = (tasks \ {t}) \cup {u}
  BY DEF AfterFailure, Becomes
<1>6. u.id = t.id /\ u.lsn = t.lsn /\ u.base = t.base /\ u.tries = 0 /\ ~HasRow(u)
  BY <1>3, <1>4 DEF HasRow
<1> HIDE DEF u
<1>7. GoesOn(t, u)
  BY <1>5, <1>6 DEF GoesOn
<1> QED
  BY <1>2, <1>7

LEMMA ReadGoesOn ==
  ASSUME ReaderAssumption, TypeOK, NEW t \in tasks, NEW row \in Row \cup {NoRow},
         tasks' = AfterRead(t, row),
         (HasRow(t) /\ row = t.seen) \/ row = FindUnprocessedById(table, t.id)
  PROVE  Ends(t) \/ \E u \in Task : GoesOn(t, u)
<1>1. t \in Task
  BY DEF TypeOK
<1>2. CASE Skipped(row)
  BY <1>2 DEF AfterRead, Ends
<1>3. CASE ~Skipped(row)
  <2> DEFINE u == [t EXCEPT !.stage = "publish", !.seen = row]
  <2>1. u \in Task
    BY <1>1, TaskType
  <2>2. tasks' = (tasks \ {t}) \cup {u}
    BY <1>3 DEF AfterRead, Becomes
  <2>3. /\ u.id = t.id /\ u.lsn = t.lsn /\ u.base = t.base
        /\ u.tries = t.tries /\ u.seen = row
    BY <1>1 DEF Task
  <2> HIDE DEF u
  <2>4. GoesOn(t, u)
    BY <2>2, <2>3 DEF GoesOn
  <2> QED
    BY <2>1, <2>4
<1> QED
  BY <1>2, <1>3

LEMMA ErrorGoesOn ==
  ASSUME ReaderAssumption, TypeOK, NEW t \in tasks, ~LastTry(t), dbErrors' = dbErrors + 1,
         tasks' = Becomes(t, [t EXCEPT !.tries = @ + 1])
  PROVE  \E u \in Task : GoesOn(t, u)
<1>1. t \in Task
  BY DEF TypeOK
<1> DEFINE u == [t EXCEPT !.tries = @ + 1]
<1>2. u \in Task
  BY <1>1, TaskType
<1>3. /\ u.id = t.id /\ u.lsn = t.lsn /\ u.base = t.base
      /\ u.tries = t.tries + 1 /\ u.seen = t.seen /\ u.stage = t.stage
  BY <1>1 DEF Task
<1>4. tasks' = (tasks \ {t}) \cup {u}
  BY DEF Becomes
<1> HIDE DEF u
<1>5. GoesOn(t, u)
  BY <1>3, <1>4 DEF GoesOn, HasRow
<1> QED
  BY <1>2, <1>5

LEMMA TaskStep ==
  ASSUME TypeOK, NEW t \in tasks, ProcessInserts(t) \/ RunRetry(t)
  PROVE  Ends(t) \/ \E u \in Task : GoesOn(t, u)
<1> USE ReaderAssumption
<1>1. t \in Task /\ t.id \in Event /\ t.seen \in Row \cup {NoRow}
  BY DEF TypeOK, Task
<1>2. CASE StartTask(t)
  <2>1. HasRow(t) /\ tasks' = AfterRead(t, t.seen)
    BY <1>2 DEF StartTask, HasRow
  <2> QED
    BY <1>1, <2>1, ReadGoesOn
<1>3. CASE PublishAcked(t)
  <2> DEFINE u == [t EXCEPT !.stage = "mark", !.seq = AckSeq(stream, dedup, MsgId(t.id))]
  <2>1. AckSeq(stream, dedup, MsgId(t.id)) \in Nat
    BY <1>1, StoresType DEF TypeOK
  <2>2. u \in Task
    BY <1>1, <2>1, TaskType
  <2>3. /\ u.id = t.id /\ u.lsn = t.lsn /\ u.base = t.base
        /\ u.tries = t.tries /\ u.seen = t.seen
    BY <1>1 DEF Task
  <2>4. tasks' = (tasks \ {t}) \cup {u} /\ HasRow(t)
    BY <1>3 DEF PublishAcked, Becomes, HasRow
  <2> HIDE DEF u
  <2>5. GoesOn(t, u)
    BY <2>3, <2>4 DEF GoesOn
  <2> QED
    BY <2>2, <2>5
<1>4. CASE PublishFails(t)
  BY <1>4, FailureGoesOn DEF PublishFails
<1>5. CASE MarkReplied(t)
  BY <1>5 DEF MarkReplied, Ends
<1>6. CASE MarkErrs(t)
  BY <1>6, FailureGoesOn, ErrorGoesOn DEF MarkErrs, StatementErrs
<1>7. CASE RetryRuns(t)
  <2>1. FindUnprocessedById(table, t.id) \in Row \cup {NoRow}
    BY <1>1, FindType DEF TypeOK, Table
  <2> QED
    BY <1>7, <2>1, ReadGoesOn DEF RetryRuns
<1>8. CASE RetryReadErrs(t)
  BY <1>8, FailureGoesOn DEF RetryReadErrs
<1>9. CASE FailReplied(t)
  BY <1>9 DEF FailReplied, Ends
<1>10. CASE FailErrs(t)
  BY <1>10, ErrorGoesOn DEF FailErrs, StatementErrs, StatementOf, Ends
<1> QED
  BY <1>2, <1>3, <1>4, <1>5, <1>6, <1>7, <1>8, <1>9, <1>10 DEF ProcessInserts, RunRetry

(* Over a step of Next a task is an old one, one that goes on, or the task  *)
(* of an insert in the transaction onChange begins with.                    *)
TaskOf(c) == BatchTask(handled + 1, c, FindUnprocessedById(table, c.id))

LEMMA OnChangeTasks ==
  ASSUME TypeOK, OnChange
  PROVE  /\ handled + 1 \in 1 .. Len(wal) /\ handled + 1 \in Nat \ {0}
         /\ wal[handled + 1] \in SUBSET Change
         /\ tasks' = tasks \cup {TaskOf(c) : c \in filterChanges(wal[handled + 1])}
<1> DEFINE log == wal[handled + 1]
<1>1. handled + 1 \in 1 .. Len(wal) /\ handled + 1 \in Nat \ {0} /\ log \in SUBSET Change
  BY DEF OnChange, TypeOK
<1>2. \A c \in filterChanges(log) :
        FindUnprocessedByIds(table, {d.id : d \in filterChanges(log)})[c.id]
          = FindUnprocessedById(table, c.id)
  BY DEF FindUnprocessedByIds
<1>3. tasks' = tasks \cup {BatchTask(handled + 1, c,
                 FindUnprocessedByIds(table, {d.id : d \in filterChanges(log)})[c.id]) :
                   c \in filterChanges(log)}
  BY DEF OnChange
<1>4. tasks' = tasks \cup {TaskOf(c) : c \in filterChanges(log)}
  BY <1>2, <1>3 DEF TaskOf
<1> QED
  BY <1>1, <1>4

LEMMA TasksStep ==
  ASSUME TypeOK, [Next]_vars, NEW u \in tasks'
  PROVE  \/ \E t \in tasks : u.id = t.id /\ u.base = t.base /\ u.lsn = t.lsn
         \/ /\ OnChange /\ u.lsn = handled + 1 /\ handled + 1 \in 1 .. Len(wal)
            /\ \E c \in filterChanges(wal[handled + 1]) : u.id = c.id /\ u.base = c.attempts
<1> USE DEF slot, server, strays, counts
<1>1. CASE tasks' \subseteq tasks
  BY <1>1
<1>2. ASSUME NEW t \in tasks, ProcessInserts(t) \/ RunRetry(t)
      PROVE  \E v \in tasks : u.id = v.id /\ u.base = v.base /\ u.lsn = v.lsn
  BY <1>2, TaskStep DEF GoesOn, Ends
<1>3. CASE OnChange
  <2>1. \A c : /\ TaskOf(c).id = c.id /\ TaskOf(c).base = c.attempts
               /\ TaskOf(c).lsn = handled + 1
    BY DEF TaskOf, BatchTask
  <2> QED
    BY <1>3, <2>1, OnChangeTasks
<1>4. /\ \A S \in SUBSET Event : CommitEvents(S) => tasks' = tasks
      /\ \A s \in strayStmts : StrayExecuted(s) => tasks' = tasks
      /\ \A e \in strayMsgs : StrayStored(e) => tasks' = tasks
      /\ \A m \in Aggregate : Expire(m) => tasks' = tasks
      /\ OnChangeDone \/ Acknowledge \/ UNCHANGED vars => tasks' = tasks
      /\ Crash => tasks' = {}
  BY DEF CommitEvents, StrayExecuted, StrayStored, Expire, OnChangeDone, Acknowledge, Crash, vars
<1> QED
  BY <1>1, <1>2, <1>3, <1>4 DEF Next

(* A FAILED mark left without an answer carries the attempts of the task's  *)
(* insert.                                                                  *)
LEMMA StraysStep ==
  ASSUME [Next]_vars, NEW s \in strayStmts', s.op = "FAILED"
  PROVE  s \in strayStmts \/ \E t \in tasks : s.id = t.id /\ s.attempts = t.base
<1> USE DEF slot, server, strays, counts
<1>1. CASE strayStmts' \subseteq strayStmts
  BY <1>1
<1>2. \A t : StatementOf(t).op = "FAILED" =>
               StatementOf(t).id = t.id /\ StatementOf(t).attempts = t.base
  BY DEF StatementOf, MarkStatement, FailStatement
<1>3. \A t \in tasks : MarkErrs(t) \/ FailErrs(t) =>
        strayStmts' = strayStmts \cup {StatementOf(t)}
  BY DEF MarkErrs, FailErrs, StatementErrs
<1>4. Crash => \A u \in strayStmts' : u \in strayStmts \/ \E t \in tasks : u = StatementOf(t)
  BY DEF Crash
<1>5. /\ \A S \in SUBSET Event : CommitEvents(S) => strayStmts' = strayStmts
      /\ \A u \in strayStmts : StrayExecuted(u) => strayStmts' \subseteq strayStmts
      /\ \A e \in strayMsgs : StrayStored(e) => strayStmts' = strayStmts
      /\ \A m \in Aggregate : Expire(m) => strayStmts' = strayStmts
      /\ OnChange \/ OnChangeDone \/ Acknowledge \/ UNCHANGED vars => strayStmts' = strayStmts
      /\ \A t \in tasks : StartTask(t) \/ PublishAcked(t) \/ PublishFails(t) \/ MarkReplied(t) =>
           strayStmts' = strayStmts
      /\ \A t \in tasks : RetryRuns(t) \/ RetryReadErrs(t) \/ FailReplied(t) =>
           strayStmts' = strayStmts
  BY DEF CommitEvents, StrayExecuted, StrayStored, Expire, OnChange, OnChangeDone, Acknowledge,
         vars, StartTask, PublishAcked, PublishFails, MarkReplied, RetryRuns, RetryReadErrs,
         FailReplied
<1> QED
  BY <1>1, <1>2, <1>3, <1>4, <1>5 DEF Next, ProcessInserts, RunRetry

(* So the bases of all inserts, tasks and FAILED marks stay outdone.        *)
LEMMA InsertType ==
  ASSUME wal \in Seq(SUBSET Change), NEW i \in 1 .. Len(wal), NEW c \in filterChanges(wal[i])
  PROVE  c \in OutboxChanges /\ c.id \in Event /\ c.attempts \in Nat
BY DEF filterChanges, Change, DomainChange, OutboxChanges

LEMMA NextOutdone ==
  ASSUME TypeOK, BasesOutdone, [Next]_vars
  PROVE  BasesOutdone'
<1>1. table \in Table /\ wal \in Seq(SUBSET Change)
  BY DEF TypeOK, Table
<1>2. \A e \in Event, a \in Nat : Outdone(e, a) => Outdone(e, a)'
  BY <1>1, RowStep, OutdoneStays
<1>3. WalGrows
  BY WalStep
<1>4. ASSUME NEW i \in 1 .. Len(wal'), NEW c \in filterChanges(wal'[i])
      PROVE  Outdone(c.id, c.attempts)'
  <2>1. CASE i \in 1 .. Len(wal)
    <3>1. c \in filterChanges(wal[i]) /\ Outdone(c.id, c.attempts)
      BY <1>3, <2>1 DEF WalGrows, BasesOutdone
    <3> QED
      BY <1>1, <1>2, <2>1, <3>1, InsertType
  <2>2. CASE i \notin 1 .. Len(wal)
    <3>1. i \in Len(wal) + 1 .. Len(wal')
      BY <1>1, <1>3, <2>2 DEF WalGrows
    <3>2. table'[c.id] = NewRow /\ c = OutboxChange("insert", c.id, NewRow.attempts)
      BY <1>3, <3>1 DEF WalGrows
    <3>3. c.attempts = NewRow.attempts
      BY <3>2 DEF OutboxChange
    <3> QED
      BY <3>2, <3>3 DEF Outdone, Exists, NewRow
  <2> QED
    BY <2>1, <2>2
<1>5. ASSUME NEW u \in tasks'
      PROVE  Outdone(u.id, u.base)'
  <2>1. Outdone(u.id, u.base)
    BY TasksStep DEF BasesOutdone
  <2>2. u.id \in Event /\ u.base \in Nat
    BY NextType, ReaderAssumption DEF TypeOK, Task
  <2> QED
    BY <1>2, <2>1, <2>2
<1>6. ASSUME NEW s \in strayStmts', s.op = "FAILED"
      PROVE  Outdone(s.id, s.attempts)'
  <2>1. Outdone(s.id, s.attempts)
    BY <1>6, StraysStep DEF BasesOutdone
  <2>2. s.id \in Event /\ s.attempts \in Nat
    BY NextType, ReaderAssumption DEF TypeOK, Statement
  <2> QED
    BY <1>2, <2>1, <2>2
<1> QED
  BY <1>4, <1>5, <1>6 DEF BasesOutdone

LEMMA OutdoneInvariant == Spec => []BasesOutdone
<1>1. Init => BasesOutdone
  BY DEF Init, BasesOutdone
<1>2. TypeOK /\ BasesOutdone /\ [Next]_vars => BasesOutdone'
  BY NextOutdone
<1> QED
  BY <1>1, <1>2, TypeCorrect, PTL DEF Spec

-------------------------------------------------------------------------------
\* What attempts counts.

LEMMA NextCounts ==
  ASSUME TypeOK, BeliefsAreHarmless, BasesOutdone, AttemptsCountOutcomes, [Next]_vars
  PROVE  AttemptsCountOutcomes'
<1> SUFFICES ASSUME NEW e \in Event
             PROVE  /\ table'[e].status \in {"NONE", "PENDING"} => table'[e].attempts = 0
                    /\ table'[e].status = "FAILED" => table'[e].attempts = 1
                    /\ table'[e].status = "PROCESSED" => table'[e].attempts \in {1, 2}
  BY DEF AttemptsCountOutcomes
<1>1. RowMoves(e)
  BY RowStep
<1>2. table[e].status = "PROCESSED" => table'[e] = table[e]
  BY NextKeepsProcessed
<1>3. /\ table[e].status \in {"NONE", "PENDING"} => table[e].attempts = 0
      /\ table[e].status = "FAILED" => table[e].attempts = 1
      /\ table[e].status = "PROCESSED" => table[e].attempts \in {1, 2}
  BY DEF AttemptsCountOutcomes
<1>4. table[e].status \in Status \cup {"NONE"}
  BY DEF TypeOK, Row, NoRow
<1>5. NewRow.status = "PENDING" /\ NewRow.attempts = 0
  BY DEF NewRow
<1>6. CASE table'[e] = table[e]
  BY <1>3, <1>6
<1>7. CASE table'[e] = NewRow
  BY <1>5, <1>7
<1>8. CASE /\ Exists(table, e)
           /\ table'[e].status = "PROCESSED" /\ table'[e].attempts = table[e].attempts + 1
  <2>1. table[e].status # "PROCESSED"
    BY <1>2, <1>3, <1>8
  <2>2. table[e].attempts \in {0, 1}
    BY <1>3, <1>4, <2>1 DEF Status
  <2> QED
    BY <1>8, <2>2
<1>9. CASE /\ table[e].status = "PENDING"
           /\ table'[e].status = "FAILED" /\ table'[e].attempts = table[e].attempts + 1
  BY <1>3, <1>9
<1> QED
  BY <1>1, <1>6, <1>7, <1>8, <1>9 DEF RowMoves

(* attempts counts outcomes and never exceeds 2: a FAILED row that is       *)
(* redelivered and fails again is not counted again, because its mark goes  *)
(* by the attempts of the WAL record.                                       *)
THEOREM AttemptsCounted == Spec => []AttemptsCountOutcomes
<1>1. Init => AttemptsCountOutcomes
  <2> SUFFICES ASSUME Init PROVE AttemptsCountOutcomes
    OBVIOUS
  <2>1. NoRow.status = "NONE" /\ NoRow.attempts = 0
    BY DEF NoRow
  <2>2. \A e \in Event : table[e] = NoRow
    BY DEF Init
  <2> QED
    BY <2>1, <2>2 DEF AttemptsCountOutcomes
<1>2. TypeOK /\ BeliefsAreHarmless /\ BasesOutdone /\ AttemptsCountOutcomes /\ [Next]_vars
        => AttemptsCountOutcomes'
  BY NextCounts
<1> QED
  BY <1>1, <1>2, TypeCorrect, BeliefsInvariant, OutdoneInvariant, PTL DEF Spec

-------------------------------------------------------------------------------
\* One task per record.

(* The transactions onChange has been called with.                          *)
Received == handled + (IF busy THEN 1 ELSE 0)

(* Each record is inserted once, and the task that works on it is the task  *)
(* of that insert, begun when onChange received it.                         *)
InsertedOnce ==
  \A i, j \in 1 .. Len(wal) :
    \A c \in filterChanges(wal[i]), d \in filterChanges(wal[j]) : c.id = d.id => i = j /\ c = d

TasksAreInserts ==
  \A t \in tasks : t.lsn \in 1 .. Received /\ Inserted(t.id, t.base, t.lsn)

LEMMA ReceivedType ==
  ASSUME TypeOK
  PROVE  Received \in Nat /\ handled <= Received /\ Received <= Len(wal)
BY DEF TypeOK, Received

LEMMA NextInsertedOnce ==
  ASSUME TypeOK, BasesOutdone, InsertedOnce, [Next]_vars
  PROVE  InsertedOnce'
<1>1. WalGrows /\ wal \in Seq(SUBSET Change)
  BY WalStep DEF TypeOK
<1>2. ASSUME NEW i \in 1 .. Len(wal'), NEW c \in filterChanges(wal'[i])
      PROVE  \/ /\ i \in 1 .. Len(wal) /\ c \in filterChanges(wal[i])
                /\ Exists(table, c.id)
             \/ /\ i = Len(wal) + 1 /\ c = OutboxChange("insert", c.id, NewRow.attempts)
                /\ ~Exists(table, c.id)
  <2>1. CASE i \in 1 .. Len(wal)
    <3>1. c \in filterChanges(wal[i])
      BY <1>1, <2>1 DEF WalGrows
    <3>2. Exists(table, c.id)
      BY <2>1, <3>1 DEF BasesOutdone, Outdone
    <3> QED
      BY <2>1, <3>1, <3>2
  <2>2. CASE i \notin 1 .. Len(wal)
    <3>1. i \in Len(wal) + 1 .. Len(wal')
      BY <1>1, <2>2 DEF WalGrows
    <3> QED
      BY <1>1, <3>1 DEF WalGrows
  <2> QED
    BY <2>1, <2>2
<1> SUFFICES ASSUME NEW i \in 1 .. Len(wal'), NEW j \in 1 .. Len(wal'),
                    NEW c \in filterChanges(wal'[i]), NEW d \in filterChanges(wal'[j]),
                    c.id = d.id
             PROVE  i = j /\ c = d
  BY DEF InsertedOnce
<1>3. CASE i \in 1 .. Len(wal) /\ j \in 1 .. Len(wal)
  BY <1>1, <1>3 DEF WalGrows, InsertedOnce
<1>4. CASE i = Len(wal) + 1 /\ j = Len(wal) + 1
  <2>1. i \notin 1 .. Len(wal) /\ j \notin 1 .. Len(wal)
    BY <1>1, <1>4
  <2> QED
    BY <1>2, <1>4, <2>1
<1> QED
  BY <1>2, <1>3, <1>4

(* Of two inserts of a row the later has more attempts: the service's       *)
(* clients insert a row that is not there, and so was never inserted.       *)
InsertsGrow ==
  \A i, j \in 1 .. Len(wal) :
    \A c \in filterChanges(wal[i]), d \in filterChanges(wal[j]) :
      c.id = d.id /\ i < j => c.attempts < d.attempts

LEMMA NextInsertsGrow ==
  ASSUME TypeOK, BasesOutdone, InsertsGrow, [Next]_vars
  PROVE  InsertsGrow'
<1>1. WalGrows /\ wal \in Seq(SUBSET Change)
  BY WalStep DEF TypeOK
<1> SUFFICES ASSUME NEW i \in 1 .. Len(wal'), NEW j \in 1 .. Len(wal'), i < j,
                    NEW c \in filterChanges(wal'[i]), NEW d \in filterChanges(wal'[j]),
                    c.id = d.id
             PROVE  c.attempts < d.attempts
  BY DEF InsertsGrow
<1>2. CASE j \in 1 .. Len(wal)
  <2>1. i \in 1 .. Len(wal)
    BY <1>1, <1>2
  <2> QED
    BY <1>1, <1>2, <2>1 DEF WalGrows, InsertsGrow
<1>3. CASE j \notin 1 .. Len(wal)
  <2>1. j \in Len(wal) + 1 .. Len(wal')
    BY <1>1, <1>3 DEF WalGrows
  <2>2. j = Len(wal) + 1 /\ ~Exists(table, d.id)
    BY <1>1, <2>1 DEF WalGrows
  <2>3. i \in 1 .. Len(wal)
    BY <1>1, <2>2
  <2>4. Exists(table, c.id)
    BY <1>1, <2>3 DEF WalGrows, BasesOutdone, Outdone
  <2> QED
    BY <2>2, <2>4
<1> QED
  BY <1>2, <1>3

(* So the insert with a row's present attempts is its latest.               *)
LEMMA CurrentIsLatest ==
  ASSUME TypeOK, BasesOutdone, InsertsGrow, NEW e \in Event, NEW i \in 1 .. Len(wal),
         Inserted(e, table[e].attempts, i)
  PROVE  LatestInsert(e, i)
<1>1. wal \in Seq(SUBSET Change) /\ table[e].attempts \in Nat
  BY DEF TypeOK, Row, NoRow
<1>2. PICK c \in filterChanges(wal[i]) : c.id = e /\ c.attempts = table[e].attempts
  BY DEF Inserted
<1>3. ASSUME NEW j \in i + 1 .. Len(wal), NEW d \in filterChanges(wal[j]), d.id = e
      PROVE  FALSE
  <2>1. j \in 1 .. Len(wal) /\ i < j
    BY <1>1
  <2>2. d.attempts \in Nat /\ d.attempts <= table[e].attempts
    BY <1>1, <1>3, <2>1, InsertType DEF BasesOutdone, Outdone
  <2>3. c.attempts < d.attempts
    BY <1>2, <1>3, <2>1 DEF InsertsGrow
  <2> QED
    BY <1>1, <1>2, <2>2, <2>3
<1> QED
  BY <1>2, <1>3 DEF LatestInsert, InsertedAt

(* An insert stays where it is in the WAL.                                  *)
LEMMA InsertStays ==
  ASSUME WalGrows, NEW e, NEW a, NEW i \in 1 .. Len(wal), Inserted(e, a, i)
  PROVE  Inserted(e, a, i)' /\ i \in 1 .. Len(wal')
<1>1. wal'[i] = wal[i]
  BY DEF WalGrows
<1>2. i \in 1 .. Len(wal')
  BY SMT DEF WalGrows
<1> QED
  BY <1>1, <1>2 DEF Inserted

(* Received counts up when onChange is called, and only a restart takes it  *)
(* back.                                                                    *)
LEMMA ReceivedStep ==
  ASSUME TypeOK, [Next]_vars
  PROVE  /\ Received' <= Len(wal)
         /\ \/ Crash /\ Received' = confirmed
            \/ OnChange /\ Received = handled /\ Received' = handled + 1
            \/ ~OnChange /\ Received' = Received
<1> USE DEF slot, server, strays, counts
<1>1. handled \in Nat /\ busy \in BOOLEAN /\ Received <= Len(wal) /\ confirmed <= Len(wal)
  BY ReceivedType DEF TypeOK
<1>2. CASE handled' = handled /\ busy' = busy
  <2>1. Received' = Received /\ ~OnChange
    BY <1>1, <1>2 DEF Received, OnChange
  <2> QED
    BY <1>1, <2>1
<1>3. CASE OnChange
  BY <1>1, <1>3 DEF OnChange, Received, TypeOK
<1>4. CASE OnChangeDone
  <2>1. Received' = Received /\ ~OnChange
    BY <1>1, <1>4 DEF OnChangeDone, OnChange, Received
  <2> QED
    BY <1>1, <2>1
<1>5. CASE Crash
  <2>1. Received' = confirmed
    BY <1>5 DEF Crash, Received, TypeOK
  <2> QED
    BY <1>1, <1>5, <2>1
<1>6. /\ \A S \in SUBSET Event : CommitEvents(S) => handled' = handled /\ busy' = busy
      /\ \A s \in strayStmts : StrayExecuted(s) => handled' = handled /\ busy' = busy
      /\ \A e \in strayMsgs : StrayStored(e) => handled' = handled /\ busy' = busy
      /\ \A m \in Aggregate : Expire(m) => handled' = handled /\ busy' = busy
      /\ Acknowledge \/ UNCHANGED vars => handled' = handled /\ busy' = busy
      /\ \A t \in tasks : ProcessInserts(t) => handled' = handled /\ busy' = busy
      /\ \A t \in tasks : RunRetry(t) => handled' = handled /\ busy' = busy
  BY DEF CommitEvents, StrayExecuted, StrayStored, Expire, Acknowledge, vars, ProcessInserts,
         StartTask, PublishAcked, PublishFails, MarkReplied, MarkErrs, StatementErrs, RunRetry,
         RetryRuns, RetryReadErrs, FailReplied, FailErrs
<1> QED
  BY <1>2, <1>3, <1>4, <1>5, <1>6 DEF Next

LEMMA NextTasksAreInserts ==
  ASSUME TypeOK, TasksAreInserts, [Next]_vars
  PROVE  TasksAreInserts'
<1> SUFFICES ASSUME NEW u \in tasks'
             PROVE  u.lsn \in 1 .. Received' /\ Inserted(u.id, u.base, u.lsn)'
  BY DEF TasksAreInserts
<1>1. WalGrows
  BY WalStep
<1>2. Received \in Nat /\ Received <= Len(wal) /\ handled \in Nat
  BY ReceivedType DEF TypeOK
<1>3. Received' \in Nat
  BY NextType, ReaderAssumption, ReceivedType DEF TypeOK, Received
<1>4. Received' >= Received /\ (OnChange => Received' = handled + 1)
  <2>1. ~Crash
    BY DEF Crash
  <2> QED
    BY <1>2, <2>1, ReceivedStep
<1>5. CASE \E t \in tasks : u.id = t.id /\ u.base = t.base /\ u.lsn = t.lsn
  <2>1. u.lsn \in 1 .. Received /\ Inserted(u.id, u.base, u.lsn)
    BY <1>5 DEF TasksAreInserts
  <2>2. u.lsn \in 1 .. Len(wal) /\ u.lsn \in 1 .. Received'
    BY <1>2, <1>3, <1>4, <2>1 DEF TypeOK
  <2> QED
    BY <1>1, <2>1, <2>2, InsertStays
<1>6. CASE /\ OnChange /\ u.lsn = handled + 1 /\ handled + 1 \in 1 .. Len(wal)
           /\ \E c \in filterChanges(wal[handled + 1]) : u.id = c.id /\ u.base = c.attempts
  <2>1. Inserted(u.id, u.base, handled + 1)
    BY <1>6 DEF Inserted
  <2>2. u.lsn \in 1 .. Received'
    BY <1>2, <1>4, <1>6
  <2> QED
    BY <1>1, <1>6, <2>1, <2>2, InsertStays
<1> QED
  BY <1>5, <1>6, TasksStep

LEMMA NextOneTask ==
  ASSUME TypeOK, InsertedOnce, TasksAreInserts, OneTaskPerRecord, [Next]_vars
  PROVE  OneTaskPerRecord'
<1> USE DEF slot, server, strays, counts
<1>1. \A t, u \in tasks : t.id = u.id => t = u
  BY DEF OneTaskPerRecord
<1>2. CASE tasks' \subseteq tasks
  BY <1>1, <1>2 DEF OneTaskPerRecord
<1>3. ASSUME NEW t \in tasks, ProcessInserts(t) \/ RunRetry(t)
      PROVE  OneTaskPerRecord'
  <2>1. CASE Ends(t)
    BY <1>2, <2>1 DEF Ends
  <2>2. ASSUME NEW u \in Task, GoesOn(t, u)
        PROVE  OneTaskPerRecord'
    BY <1>1, <2>2 DEF GoesOn, OneTaskPerRecord
  <2> QED
    BY <1>3, <2>1, <2>2, TaskStep
<1>4. CASE OnChange
  <2> DEFINE log == wal[handled + 1]
  <2>1. handled + 1 \in 1 .. Len(wal) /\ Received = handled /\ handled \in Nat
    BY <1>4, OnChangeTasks DEF OnChange, Received, TypeOK
  <2>2. tasks' = tasks \cup {TaskOf(c) : c \in filterChanges(log)}
    BY <1>4, OnChangeTasks
  <2>3. \A c : TaskOf(c).id = c.id
    BY DEF TaskOf, BatchTask
  <2>4. ASSUME NEW c \in filterChanges(log), NEW t \in tasks, t.id = c.id
        PROVE  FALSE
    <3>1. t.lsn \in 1 .. Len(wal) /\ t.lsn # handled + 1
      BY <2>1, ReceivedType DEF TasksAreInserts
    <3>2. PICK d \in filterChanges(wal[t.lsn]) : d.id = t.id
      BY DEF TasksAreInserts, Inserted
    <3> QED
      BY <2>1, <2>4, <3>1, <3>2 DEF InsertedOnce
  <2>5. \A c, d \in filterChanges(log) : c.id = d.id => c = d
    BY <2>1 DEF InsertedOnce
  <2> HIDE DEF log
  <2>6. SUFFICES ASSUME NEW t \in tasks', NEW u \in tasks', t.id = u.id
                 PROVE  t = u
    BY DEF OneTaskPerRecord
  <2>7. CASE t \in tasks /\ u \in tasks
    BY <1>1, <2>6, <2>7
  <2>8. CASE t \notin tasks /\ u \notin tasks
    BY <2>2, <2>3, <2>5, <2>6, <2>8
  <2> QED
    BY <2>2, <2>3, <2>4, <2>6, <2>7, <2>8
<1>5. /\ \A S \in SUBSET Event : CommitEvents(S) => tasks' = tasks
      /\ \A s \in strayStmts : StrayExecuted(s) => tasks' = tasks
      /\ \A e \in strayMsgs : StrayStored(e) => tasks' = tasks
      /\ \A m \in Aggregate : Expire(m) => tasks' = tasks
      /\ OnChangeDone \/ Acknowledge \/ UNCHANGED vars => tasks' = tasks
      /\ Crash => tasks' = {}
  BY DEF CommitEvents, StrayExecuted, StrayStored, Expire, OnChangeDone, Acknowledge, Crash, vars
<1> QED
  BY <1>2, <1>3, <1>4, <1>5 DEF Next

LEMMA TasksAreInsertsInvariant == Spec => []TasksAreInserts
<1>1. Init => TasksAreInserts
  BY DEF Init, TasksAreInserts
<1>2. TypeOK /\ TasksAreInserts /\ [Next]_vars => TasksAreInserts'
  BY NextTasksAreInserts
<1> QED
  BY <1>1, <1>2, TypeCorrect, PTL DEF Spec

(* At no time do two tasks work on one record: neither the batch and an     *)
(* entry of the queue, nor a task of before a restart and a redelivered     *)
(* one, nor a task of an UPDATE the service reads back.                     *)
THEOREM OneTaskCorrect == Spec => []OneTaskPerRecord
<1>1. Init => InsertedOnce /\ OneTaskPerRecord
  BY DEF Init, InsertedOnce, OneTaskPerRecord
<1>2. TypeOK /\ BasesOutdone /\ InsertedOnce /\ [Next]_vars => InsertedOnce'
  BY NextInsertedOnce
<1>3. TypeOK /\ InsertedOnce /\ TasksAreInserts /\ OneTaskPerRecord /\ [Next]_vars
        => OneTaskPerRecord'
  BY NextOneTask
<1> QED
  BY <1>1, <1>2, <1>3, TypeCorrect, OutdoneInvariant, TasksAreInsertsInvariant, PTL DEF Spec

-------------------------------------------------------------------------------
\* Ownership of PENDING rows.

(* As long as a row is PENDING with the attempts of a task's insert, the    *)
(* row the task works on is the row of the table, however long ago it read. *)
IsCurrent(t) == table[t.id].status = "PENDING" /\ table[t.id].attempts = t.base

SeenIsCurrent == \A t \in tasks : HasRow(t) /\ IsCurrent(t) => t.seen = table[t.id]

TriesAreErrors == \A t \in tasks : t.tries <= dbErrors

LEMMA SeenStep ==
  ASSUME TypeOK, [Next]_vars, NEW u \in tasks'
  PROVE  /\ HasRow(u) =>
              \/ \E t \in tasks : /\ u.id = t.id /\ u.base = t.base
                                  /\ HasRow(t) /\ u.seen = t.seen
              \/ u.seen = FindUnprocessedById(table, u.id)
         /\ \/ u.tries = 0
            \/ \E t \in tasks : \/ u.tries = t.tries
                                \/ u.tries = t.tries + 1 /\ dbErrors' = dbErrors + 1
<1> USE DEF slot, server, strays, counts
<1>1. CASE u \in tasks
  BY <1>1
<1>2. ASSUME NEW t \in tasks, ProcessInserts(t) \/ RunRetry(t), u \notin tasks
      PROVE  GoesOn(t, u)
  BY <1>2, TaskStep DEF GoesOn, Ends
<1>3. CASE OnChange /\ u \notin tasks
  <2>1. \A c : /\ TaskOf(c).seen = FindUnprocessedById(table, TaskOf(c).id)
               /\ TaskOf(c).tries = 0
    BY DEF TaskOf, BatchTask
  <2> QED
    BY <1>3, <2>1, OnChangeTasks
<1>4. /\ \A S \in SUBSET Event : CommitEvents(S) => tasks' = tasks
      /\ \A s \in strayStmts : StrayExecuted(s) => tasks' = tasks
      /\ \A e \in strayMsgs : StrayStored(e) => tasks' = tasks
      /\ \A m \in Aggregate : Expire(m) => tasks' = tasks
      /\ OnChangeDone \/ Acknowledge \/ UNCHANGED vars => tasks' = tasks
      /\ Crash => tasks' = {}
  BY DEF CommitEvents, StrayExecuted, StrayStored, Expire, OnChangeDone, Acknowledge, Crash, vars
<1>5. u \in tasks \/ OnChange \/ \E t \in tasks : ProcessInserts(t) \/ RunRetry(t)
  BY <1>4 DEF Next
<1>6. ASSUME NEW t \in tasks, GoesOn(t, u)
      PROVE  /\ HasRow(u) => \/ /\ u.id = t.id /\ u.base = t.base
                                /\ HasRow(t) /\ u.seen = t.seen
                             \/ u.seen = FindUnprocessedById(table, u.id)
             /\ \/ u.tries = 0
                \/ u.tries = t.tries
                \/ u.tries = t.tries + 1 /\ dbErrors' = dbErrors + 1
  BY <1>6 DEF GoesOn
<1> QED
  BY <1>1, <1>2, <1>3, <1>5, <1>6

LEMMA CurrentFound ==
  ASSUME NEW e, table[e].status = "PENDING"
  PROVE  FindUnprocessedById(table, e) = table[e]
BY DEF FindUnprocessedById

LEMMA NextSeen ==
  ASSUME TypeOK, BasesOutdone, SeenIsCurrent, [Next]_vars
  PROVE  SeenIsCurrent'
<1> SUFFICES ASSUME NEW u \in tasks', HasRow(u), table'[u.id].status = "PENDING",
                    table'[u.id].attempts = u.base
             PROVE  u.seen = table'[u.id]
  BY DEF SeenIsCurrent, IsCurrent, HasRow
<1>1. u.id \in Event
  BY NextType, ReaderAssumption DEF TypeOK, Task
<1>2. Exists(table, u.id)
  BY TasksStep DEF BasesOutdone, Outdone
<1>3. table'[u.id] = table[u.id]
  BY <1>1, <1>2, RowStep DEF RowMoves
<1>4. CASE \E t \in tasks : u.id = t.id /\ u.base = t.base /\ HasRow(t) /\ u.seen = t.seen
  BY <1>3, <1>4 DEF SeenIsCurrent, IsCurrent
<1>5. CASE u.seen = FindUnprocessedById(table, u.id)
  BY <1>3, <1>5, CurrentFound
<1> QED
  BY <1>4, <1>5, SeenStep

LEMMA ErrorsStep ==
  ASSUME TypeOK, [Next]_vars
  PROVE  dbErrors' \in Nat /\ dbErrors <= dbErrors'
<1> USE DEF slot, server, strays, counts
<1>1. dbErrors \in Nat
  BY DEF TypeOK
<1>2. dbErrors' = dbErrors \/ dbErrors' = dbErrors + 1
  BY DEF Next, CommitEvents, StrayExecuted, StrayStored, Expire, OnChange, OnChangeDone,
         Acknowledge, Crash, vars, ProcessInserts, StartTask, PublishAcked, PublishFails,
         MarkReplied, MarkErrs, StatementErrs, RunRetry, RetryRuns, RetryReadErrs, FailReplied,
         FailErrs
<1> QED
  BY <1>1, <1>2

LEMMA NextTries ==
  ASSUME TypeOK, TriesAreErrors, [Next]_vars
  PROVE  TriesAreErrors'
<1> SUFFICES ASSUME NEW u \in tasks' PROVE u.tries <= dbErrors'
  BY DEF TriesAreErrors
<1>1. dbErrors \in Nat /\ dbErrors' \in Nat /\ dbErrors <= dbErrors'
  BY ErrorsStep DEF TypeOK
<1>2. \A t \in tasks : t.tries \in Nat /\ t.tries <= dbErrors
  BY DEF TypeOK, Task, TriesAreErrors
<1> QED
  BY <1>1, <1>2, SeenStep

(* A PENDING row is held: the insert that put it there has not reached      *)
(* onChange, or has a task, or this process began after it; or its FAILED   *)
(* mark is lost, or its attempts are spent.                                 *)
Held(e) ==
  \/ table[e].attempts >= MaxOutboxAttempts
  \/ \E i \in Received + 1 .. Len(wal) : Inserted(e, table[e].attempts, i)
  \/ \E t \in tasks : t.id = e /\ t.base = table[e].attempts
  \/ \E i \in 1 .. resumed : Inserted(e, table[e].attempts, i)
  \/ MarkIsLost(e)

PendingIsHeld ==
  \A e \in Event : table[e].status = "PENDING" => Held(e)

(* An UPDATE with the attempts of a row does change it.                     *)
LEMMA ExecutesMatching ==
  ASSUME table \in Table, NEW s \in Statement, Executes(s), Exists(table, s.id),
         s.attempts = table[s.id].attempts
  PROVE  table'[s.id].status # "PENDING"
BY DEF Executes, Execute, MarkAsProcessed, MarkAsFailed, Table, Statement

(* A task that ends takes its row out of PENDING, unless the row's attempts *)
(* are spent or its own tries are, of which the last is then a stray.       *)
LEMMA EndsSettles ==
  ASSUME TypeOK, NEW t \in tasks, Ends(t), t.tries <= dbErrors, IsCurrent(t),
         HasRow(t) => t.seen = table[t.id]
  PROVE  \/ table[t.id].attempts >= MaxOutboxAttempts
         \/ table'[t.id].status # "PENDING"
         \/ dbErrors' >= DbNumOfAttempts /\ FailStatement(t) \in strayStmts'
<1>1. t \in Task /\ table \in Table /\ Exists(table, t.id)
  BY DEF TypeOK, Table, IsCurrent, Exists
<1>2. CASE (HasRow(t) /\ Skipped(t.seen)) \/ Skipped(FindUnprocessedById(table, t.id))
  <2>1. Skipped(table[t.id])
    BY <1>2, CurrentFound DEF IsCurrent
  <2> QED
    BY <2>1 DEF Skipped, IsCurrent
<1>3. CASE t.stage = "mark" /\ Executes(MarkStatement(t))
  <2>1. MarkStatement(t).id = t.id /\ MarkStatement(t).attempts = table[t.id].attempts
    BY <1>3 DEF MarkStatement, HasRow
  <2> QED
    BY <1>1, <1>3, <2>1, TaskType, ReaderAssumption, ExecutesMatching
<1>4. CASE t.stage = "failing" /\ Executes(FailStatement(t))
  <2>1. FailStatement(t).id = t.id /\ FailStatement(t).attempts = table[t.id].attempts
    BY DEF FailStatement, IsCurrent
  <2> QED
    BY <1>1, <1>4, <2>1, TaskType, ReaderAssumption, ExecutesMatching
<1>5. CASE LastTry(t) /\ dbErrors' = dbErrors + 1 /\ FailStatement(t) \in strayStmts'
  BY <1>1, <1>5, ReaderAssumption DEF LastTry, Task, TypeOK
<1> QED
  BY <1>2, <1>3, <1>4, <1>5 DEF Ends

(* Only a restart moves the point where the process began.                  *)
LEMMA SlotStep ==
  ASSUME TypeOK, [Next]_vars
  PROVE  /\ resumed <= resumed' /\ resumed' \in Nat
         /\ Crash => resumed' = confirmed
<1> USE DEF slot, server, strays, counts
<1>1. resumed \in Nat /\ confirmed \in Nat /\ resumed <= confirmed
  BY DEF TypeOK
<1>2. CASE Crash
  BY <1>1, <1>2 DEF Crash
<1>3. CASE resumed' = resumed /\ ~Crash
  BY <1>1, <1>3
<1>4. Crash \/ resumed' = resumed
  BY DEF Next, CommitEvents, StrayExecuted, StrayStored, Expire, OnChange, OnChangeDone, vars,
         Acknowledge, ProcessInserts, StartTask, PublishAcked, PublishFails, MarkReplied, MarkErrs,
         StatementErrs, RunRetry, RetryRuns, RetryReadErrs, FailReplied, FailErrs
<1> QED
  BY <1>2, <1>3, <1>4

(* A stray is there until it is executed, and so a lost FAILED mark stays   *)
(* lost as long as the row is as it was.                                    *)
LEMMA StraysStay ==
  ASSUME [Next]_vars, NEW s \in strayStmts
  PROVE  s \in strayStmts' \/ Executes(s)
<1> USE DEF slot, server, strays, counts
<1>1. /\ \A S \in SUBSET Event : CommitEvents(S) => strayStmts' = strayStmts
      /\ \A u \in strayStmts : StrayExecuted(u) => Executes(u) /\ strayStmts' = strayStmts \ {u}
      /\ \A e \in strayMsgs : StrayStored(e) => strayStmts' = strayStmts
      /\ \A m \in Aggregate : Expire(m) => strayStmts' = strayStmts
      /\ OnChange \/ OnChangeDone \/ Acknowledge \/ UNCHANGED vars => strayStmts' = strayStmts
      /\ Crash => strayStmts \subseteq strayStmts'
      /\ \A t \in tasks : StartTask(t) \/ PublishAcked(t) \/ PublishFails(t) \/ MarkReplied(t) =>
           strayStmts' = strayStmts
      /\ \A t \in tasks : MarkErrs(t) \/ FailErrs(t) => strayStmts \subseteq strayStmts'
      /\ \A t \in tasks : RetryRuns(t) \/ RetryReadErrs(t) \/ FailReplied(t) =>
           strayStmts' = strayStmts
  BY DEF CommitEvents, StrayExecuted, StrayStored, Expire, OnChange, OnChangeDone, Acknowledge,
         vars, Crash, StartTask, PublishAcked, PublishFails, MarkReplied, MarkErrs, StatementErrs,
         RetryRuns, RetryReadErrs, FailReplied, FailErrs
<1> QED
  BY <1>1 DEF Next, ProcessInserts, RunRetry

LEMMA LossStays ==
  ASSUME TypeOK, [Next]_vars, NEW e \in Event, MarkIsLost(e), table[e].status = "PENDING",
         table'[e] = table[e]
  PROVE  MarkIsLost(e)'
<1>1. PICK s \in strayStmts : s.op = "FAILED" /\ s.id = e /\ s.attempts = table[e].attempts
  BY DEF MarkIsLost
<1>2. table \in Table /\ s \in Statement /\ Exists(table, s.id)
  BY <1>1 DEF TypeOK, Table, Exists
<1>3. ~Executes(s)
  BY <1>1, <1>2, ExecutesMatching
<1>4. s \in strayStmts'
  BY <1>3, StraysStay
<1>5. dbErrors >= DbNumOfAttempts /\ dbErrors' >= DbNumOfAttempts
  BY ErrorsStep, ReaderAssumption DEF MarkIsLost, TypeOK
<1> QED
  BY <1>1, <1>4, <1>5 DEF MarkIsLost

(* A task leaves only by ending, or with all others in a restart.           *)
LEMMA TaskStays ==
  ASSUME TypeOK, [Next]_vars, NEW t \in tasks
  PROVE  \/ \E u \in tasks' : u.id = t.id /\ u.base = t.base
         \/ Ends(t)
         \/ Crash
<1> USE DEF slot, server, strays, counts
<1>1. CASE tasks \subseteq tasks'
  BY <1>1
<1>2. ASSUME NEW v \in tasks, ProcessInserts(v) \/ RunRetry(v)
      PROVE  Ends(t) \/ \E u \in tasks' : u.id = t.id /\ u.base = t.base
  <2>1. CASE v = t
    BY <1>2, <2>1, TaskStep DEF GoesOn
  <2>2. CASE v # t
    BY <1>2, <2>2, TaskStep DEF GoesOn, Ends
  <2> QED
    BY <2>1, <2>2
<1>3. OnChange => tasks \subseteq tasks'
  BY OnChangeTasks
<1>4. /\ \A S \in SUBSET Event : CommitEvents(S) => tasks' = tasks
      /\ \A s \in strayStmts : StrayExecuted(s) => tasks' = tasks
      /\ \A e \in strayMsgs : StrayStored(e) => tasks' = tasks
      /\ \A m \in Aggregate : Expire(m) => tasks' = tasks
      /\ OnChangeDone \/ Acknowledge \/ UNCHANGED vars => tasks' = tasks
  BY DEF CommitEvents, StrayExecuted, StrayStored, Expire, OnChangeDone, Acknowledge, vars
<1> QED
  BY <1>1, <1>2, <1>3, <1>4 DEF Next

LEMMA NextHeld ==
  ASSUME TypeOK, BasesOutdone, TasksAreInserts, SeenIsCurrent, TriesAreErrors, PendingIsHeld,
         [Next]_vars
  PROVE  PendingIsHeld'
<1> SUFFICES ASSUME NEW e \in Event, table'[e].status = "PENDING",
                    NEW a \in {table'[e].attempts}
             PROVE  Held(e)'
  BY DEF PendingIsHeld
<1>1. a = table'[e].attempts
  OBVIOUS
<1>2. TypeOK' /\ WalGrows /\ RowMoves(e)
  BY NextType, ReaderAssumption, WalStep, RowStep
<1>3. dbErrors \in Nat /\ dbErrors' \in Nat /\ dbErrors <= dbErrors' /\ DbNumOfAttempts \in Nat
  BY ErrorsStep, ReaderAssumption DEF TypeOK
<1> DEFINE n  == Len(wal)
           n2 == Len(wal')
           r  == Received
           r2 == Received'
<1>4. /\ r \in Nat /\ r2 \in Nat /\ n \in Nat /\ n2 \in Nat /\ r <= n /\ r2 <= n /\ n <= n2
      /\ handled \in Nat /\ confirmed \in Nat /\ resumed \in Nat /\ resumed' \in Nat
      /\ resumed <= n /\ resumed <= resumed'
  <2>1. /\ r \in Nat /\ n \in Nat /\ r <= n /\ handled \in Nat
        /\ confirmed \in Nat /\ resumed \in Nat /\ resumed <= n
    BY ReceivedType DEF TypeOK
  <2>2. r2 \in Nat
    BY <2>1, ReceivedStep
  <2>3. r2 <= n
    BY ReceivedStep
  <2>4. n2 \in Nat /\ n <= n2
    BY <1>2 DEF TypeOK, WalGrows
  <2>5. resumed' \in Nat /\ resumed <= resumed'
    BY SlotStep
  <2> QED
    BY <2>1, <2>2, <2>3, <2>4, <2>5
<1>5. \A i \in 1 .. n : Inserted(e, a, i) => Inserted(e, a, i)' /\ i \in 1 .. n2
  BY <1>2, InsertStays
<1>6. \A i : Inserted(e, a, i)' => Inserted(e, table[e].attempts, i)'
  BY <1>1 DEF Inserted
<1>7. ASSUME \/ a >= MaxOutboxAttempts
             \/ \E i \in r2 + 1 .. n2 : Inserted(e, a, i)'
             \/ \E u \in tasks' : u.id = e /\ u.base = a
             \/ \E i \in 1 .. resumed' : Inserted(e, a, i)'
             \/ MarkIsLost(e)'
      PROVE  Held(e)'
  BY <1>1, <1>6, <1>7 DEF Held
<1>8. /\ Crash => r2 = confirmed
      /\ ~Crash => \/ OnChange /\ r = handled /\ r2 = handled + 1
                   \/ ~OnChange /\ r2 = r
  <2>1. Crash => r2 = confirmed
    BY DEF Crash, Received, TypeOK
  <2> QED
    BY <2>1, ReceivedStep
<1>9. CASE /\ table'[e] = NewRow
           /\ \E i \in Len(wal) + 1 .. Len(wal') : Inserted(e, NewRow.attempts, i)'
  <2>1. a = NewRow.attempts /\ \E i \in n + 1 .. n2 : Inserted(e, NewRow.attempts, i)'
    BY <1>1, <1>9
  <2> HIDE DEF n, n2, r, r2
  <2>2. \A i \in n + 1 .. n2 : i \in r2 + 1 .. n2
    BY <1>4
  <2> QED
    BY <1>7, <2>1, <2>2
<1>10. CASE table'[e] = table[e]
  <2>1. Held(e) /\ a = table[e].attempts /\ table[e].status = "PENDING"
    BY <1>1, <1>3, <1>10 DEF PendingIsHeld
  <2>2. \/ a >= MaxOutboxAttempts
        \/ \E i \in r + 1 .. n : Inserted(e, a, i)
        \/ \E t \in tasks : t.id = e /\ t.base = a
        \/ \E i \in 1 .. resumed : Inserted(e, a, i)
        \/ MarkIsLost(e)
    BY <2>1 DEF Held
  <2> HIDE DEF n, n2, r, r2
  <2>3. ASSUME NEW i \in r2 + 1 .. n, Inserted(e, a, i)
        PROVE  Held(e)'
    <3>1. i \in 1 .. n /\ i \in r2 + 1 .. n2
      BY <1>4
    <3> QED
      BY <1>5, <1>7, <2>3, <3>1
  <2>4. ASSUME NEW i \in r + 1 .. n, Inserted(e, a, i)
        PROVE  Held(e)'
    <3>1. CASE i \in r2 + 1 .. n
      BY <2>3, <2>4, <3>1
    <3>2. CASE i \notin r2 + 1 .. n
      <4>1. r2 > r
        BY <1>4, <3>2
      <4>2. ~Crash
        <5>1. Crash => confirmed <= r
          BY DEF r, Received, TypeOK
        <5> QED
          BY <1>4, <1>8, <4>1, <5>1
      <4>3. OnChange /\ r2 = handled + 1 /\ r = handled
        BY <1>4, <1>8, <4>1, <4>2
      <4>4. i = handled + 1
        BY <1>4, <3>2, <4>3
      <4>5. PICK c \in filterChanges(wal[handled + 1]) : c.id = e /\ c.attempts = a
        BY <2>4, <4>4 DEF Inserted
      <4>6. TaskOf(c) \in tasks' /\ TaskOf(c).id = e /\ TaskOf(c).base = a
        BY <4>3, <4>5, OnChangeTasks DEF TaskOf, BatchTask
      <4> QED
        BY <1>7, <4>6
    <3> QED
      BY <3>1, <3>2
  <2>5. ASSUME NEW i \in 1 .. n, i <= resumed', Inserted(e, a, i)
        PROVE  Held(e)'
    <3>1. i \in 1 .. resumed'
      BY <1>4, <2>5
    <3> QED
      BY <1>5, <1>7, <2>5, <3>1
  <2>6. ASSUME NEW t \in tasks, t.id = e, t.base = a
        PROVE  Held(e)'
    <3>1. CASE \E u \in tasks' : u.id = t.id /\ u.base = t.base
      BY <1>7, <2>6, <3>1
    <3>2. CASE Ends(t)
      <4>1. IsCurrent(t)
        BY <2>1, <2>6 DEF IsCurrent
      <4>2. t.tries <= dbErrors /\ (HasRow(t) => t.seen = table[t.id])
        BY <4>1 DEF SeenIsCurrent, TriesAreErrors
      <4>3. \/ table[t.id].attempts >= MaxOutboxAttempts
            \/ dbErrors' >= DbNumOfAttempts /\ FailStatement(t) \in strayStmts'
        BY <2>6, <3>2, <4>1, <4>2, EndsSettles
      <4>4. /\ FailStatement(t).op = "FAILED" /\ FailStatement(t).id = e
            /\ FailStatement(t).attempts = a
        BY <2>6 DEF FailStatement
      <4>5. dbErrors' >= DbNumOfAttempts /\ FailStatement(t) \in strayStmts' => MarkIsLost(e)'
        BY <1>1, <4>4 DEF MarkIsLost
      <4> QED
        BY <1>7, <2>1, <2>6, <4>3, <4>5
    <3>3. CASE Crash
      <4>1. t.lsn \in 1 .. r /\ Inserted(e, a, t.lsn)
        BY <2>6 DEF TasksAreInserts, r
      <4>2. resumed' = confirmed /\ r2 = confirmed
        BY <1>8, <3>3, SlotStep
      <4>3. t.lsn \in 1 .. n /\ (t.lsn <= resumed' \/ t.lsn \in r2 + 1 .. n)
        BY <1>4, <4>1, <4>2
      <4> QED
        BY <2>3, <2>5, <4>1, <4>3
    <3> QED
      BY <3>1, <3>2, <3>3, TaskStays
  <2>7. \A i \in 1 .. resumed : i \in 1 .. n /\ i <= resumed'
    BY <1>4
  <2>8. MarkIsLost(e) => MarkIsLost(e)'
    BY <1>10, <2>1, LossStays
  <2> QED
    BY <1>7, <2>2, <2>4, <2>5, <2>6, <2>7, <2>8
<1> QED
  BY <1>2, <1>9, <1>10 DEF RowMoves

(* So a row that is held and not spent is owned or lost, and what it is     *)
(* owned or lost by is its latest insert.                                   *)
LEMMA HeldIsOwned ==
  ASSUME TypeOK, BasesOutdone, InsertsGrow, TasksAreInserts, NEW e \in Event, Held(e)
  PROVE  OwnedOrLost(e) \/ table[e].attempts >= MaxOutboxAttempts
<1> DEFINE r == Received
<1>1. /\ handled \in Nat /\ r \in Nat /\ resumed \in Nat /\ Len(wal) \in Nat
      /\ handled <= r /\ r <= Len(wal) /\ resumed <= Len(wal)
      /\ r = IF busy THEN handled + 1 ELSE handled
  BY ReceivedType DEF TypeOK, Received
<1> HIDE DEF r
<1>2. ASSUME NEW i \in 1 .. Len(wal), Inserted(e, table[e].attempts, i),
             InHands(e, i) \/ Forgotten(i)
      PROVE  OwnedOrLost(e)
  BY <1>2, CurrentIsLatest DEF OwnedOrLost
<1>3. ASSUME NEW i \in r + 1 .. Len(wal), Inserted(e, table[e].attempts, i)
      PROVE  OwnedOrLost(e)
  <2>1. i \in 1 .. Len(wal) /\ InHands(e, i)
    BY <1>1 DEF InHands
  <2> QED
    BY <1>2, <1>3, <2>1
<1>4. ASSUME NEW t \in tasks, t.id = e, t.base = table[e].attempts
      PROVE  OwnedOrLost(e)
  <2>1. t.lsn \in 1 .. Len(wal) /\ Inserted(e, table[e].attempts, t.lsn)
    BY <1>1, <1>4 DEF TasksAreInserts, r
  <2> QED
    BY <1>2, <1>4, <2>1 DEF InHands
<1>5. ASSUME NEW i \in 1 .. resumed, Inserted(e, table[e].attempts, i)
      PROVE  OwnedOrLost(e)
  <2>1. i \in 1 .. Len(wal) /\ i <= resumed
    BY <1>1
  <2> QED
    BY <1>2, <1>5, <2>1 DEF Forgotten
<1>6. MarkIsLost(e) => OwnedOrLost(e)
  BY DEF OwnedOrLost
<1> QED
  BY <1>3, <1>4, <1>5, <1>6 DEF Held, r

(* No PENDING row of the service is ever left without somebody to work on   *)
(* it, unless this process began after its transaction was acknowledged, or *)
(* every try of its FAILED mark was lost.                                   *)
(* The hypothesis is the code's to break: config.ts:39 takes any number,    *)
(* and with MAX_OUTBOX_ATTEMPTS=0 processInserts skips every record.        *)
THEOREM PendingOwned ==
  ASSUME MaxOutboxAttempts > 0
  PROVE  Spec => []PendingIsOwned
<1>1. Init => SeenIsCurrent /\ TriesAreErrors /\ PendingIsHeld /\ InsertsGrow
  <2> SUFFICES ASSUME Init PROVE SeenIsCurrent /\ TriesAreErrors /\ PendingIsHeld /\ InsertsGrow
    OBVIOUS
  <2>1. tasks = {} /\ wal = << >> /\ \A e \in Event : table[e] = NoRow
    BY DEF Init
  <2>2. NoRow.status # "PENDING"
    BY DEF NoRow
  <2> QED
    BY <2>1, <2>2 DEF SeenIsCurrent, TriesAreErrors, PendingIsHeld, InsertsGrow
<1>2. TypeOK /\ BasesOutdone /\ SeenIsCurrent /\ [Next]_vars => SeenIsCurrent'
  BY NextSeen
<1>3. TypeOK /\ TriesAreErrors /\ [Next]_vars => TriesAreErrors'
  BY NextTries
<1>4. /\ TypeOK /\ BasesOutdone /\ TasksAreInserts /\ SeenIsCurrent /\ TriesAreErrors
      /\ PendingIsHeld /\ [Next]_vars
      => PendingIsHeld'
  BY NextHeld
<1>5. TypeOK /\ BasesOutdone /\ InsertsGrow /\ [Next]_vars => InsertsGrow'
  BY NextInsertsGrow
<1>6. ASSUME TypeOK, BasesOutdone, InsertsGrow, TasksAreInserts, AttemptsCountOutcomes,
             PendingIsHeld, NEW e \in Event, table[e].status = "PENDING"
      PROVE  OwnedOrLost(e)
  <2>1. Held(e) /\ ~(table[e].attempts >= MaxOutboxAttempts)
    BY <1>6, ReaderAssumption DEF PendingIsHeld, AttemptsCountOutcomes
  <2> QED
    BY <1>6, <2>1, HeldIsOwned
<1>7. TypeOK /\ BasesOutdone /\ InsertsGrow /\ TasksAreInserts /\ AttemptsCountOutcomes
      /\ PendingIsHeld => PendingIsOwned
  BY <1>6 DEF PendingIsOwned
<1> QED
  BY <1>1, <1>2, <1>3, <1>4, <1>5, <1>7, TypeCorrect, OutdoneInvariant, TasksAreInsertsInvariant,
     AttemptsCounted, PTL DEF Spec
================================================================================
