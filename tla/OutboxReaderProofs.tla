--------------------------- MODULE OutboxReaderProofs ---------------------------
(***************************************************************************)
(* Theorems about OutboxReader, for every set of events and aggregates,    *)
(* every configuration and every bound.                                    *)
(***************************************************************************)
EXTENDS OutboxReader, TLAPS

Table == [Event -> Row \cup {NoRow}]

-------------------------------------------------------------------------------
\* Types.

(* An UPDATE takes a table to a table, and changes at most one row.         *)
LEMMA ExecuteType ==
  ASSUME NEW tbl \in Table, NEW s \in Statement
  PROVE  /\ Execute(tbl, s) \in Table
         /\ Execute(tbl, s)[s.id].attempts \in Nat
         /\ \A e \in Event \ {s.id} : Execute(tbl, s)[e] = tbl[e]
<1>1. s.id \in Event /\ s.seq \in Nat
  BY DEF Statement
<1>2. tbl[s.id] \in Row \cup {NoRow}
  BY <1>1 DEF Table
<1>3. tbl[s.id].attempts \in Nat /\ tbl[s.id].seq \in Nat
  BY <1>2 DEF Row, NoRow
<1>4. [status |-> "PROCESSED", attempts |-> tbl[s.id].attempts + 1, seq |-> s.seq] \in Row
  BY <1>1, <1>3 DEF Row, Status
<1>5. [status |-> "FAILED", attempts |-> tbl[s.id].attempts + 1, seq |-> tbl[s.id].seq] \in Row
  BY <1>3 DEF Row, Status
<1> QED
  BY <1>1, <1>3, <1>4, <1>5 DEF Execute, MarkAsProcessed, MarkAsFailed, Table

(* The rows a SELECT returns are rows of the table, or none.                *)
LEMMA FindType ==
  ASSUME NEW tbl \in Table, NEW e \in Event
  PROVE  FindUnprocessedById(tbl, e) \in Row \cup {NoRow}
BY DEF FindUnprocessedById, Table

(* The statements of a task, and the tasks that follow it.                  *)
LEMMA TaskType ==
  ASSUME ReaderAssumption, NEW t \in Task
  PROVE  /\ t.id \in Event
         /\ MarkStatement(t) \in Statement
         /\ FailStatement(t) \in Statement
         /\ StatementOf(t) \in Statement
         /\ Failing(t) \in Task
         /\ \A row \in Row \cup {NoRow} : [t EXCEPT !.stage = "publish", !.seen = row] \in Task
         /\ \A seq \in Nat : [t EXCEPT !.stage = "mark", !.seq = seq] \in Task
         /\ ~LastTry(t) => [t EXCEPT !.tries = @ + 1] \in Task
         /\ ~Exhausted(t) =>
              Scheduled(t, IF t.origin = "batch" THEN 0 ELSE t.attempt + 1) \in Task
<1>1. t.seen.attempts \in Nat
  BY DEF Task, Row, NoRow
<1>2. StatementOf(t) \in Statement /\ MarkStatement(t) \in Statement /\ FailStatement(t) \in Statement
  BY <1>1 DEF StatementOf, MarkStatement, FailStatement, Statement, Task
<1>3. 0 \in 0 .. NumOfAttempts - 1 /\ 0 \in 0 .. DbNumOfAttempts - 1
  BY DEF ReaderAssumption
<1>4. Failing(t) \in Task
  BY <1>3 DEF Failing, Task
<1>5. ~LastTry(t) => [t EXCEPT !.tries = @ + 1] \in Task
  BY DEF LastTry, Task, ReaderAssumption
<1>6. \A row \in Row \cup {NoRow} : [t EXCEPT !.stage = "publish", !.seen = row] \in Task
  BY DEF Task
<1>7. \A seq \in Nat : [t EXCEPT !.stage = "mark", !.seq = seq] \in Task
  BY DEF Task
<1>8. ASSUME ~Exhausted(t)
      PROVE  Scheduled(t, IF t.origin = "batch" THEN 0 ELSE t.attempt + 1) \in Task
  <2>1. (IF t.origin = "batch" THEN 0 ELSE t.attempt + 1) \in 0 .. NumOfAttempts - 1
    BY <1>8, <1>3 DEF Exhausted, Task, ReaderAssumption
  <2> QED
    BY <2>1, <1>3 DEF Scheduled, Task
<1> QED
  BY <1>2, <1>4, <1>5, <1>6, <1>7, <1>8 DEF Task

LEMMA AfterType ==
  ASSUME ReaderAssumption, tasks \subseteq Task, NEW t \in tasks
  PROVE  /\ \A row \in Row \cup {NoRow} : AfterRead(t, row) \subseteq Task
         /\ AfterFailure(t) \subseteq Task
<1>1. t \in Task
  OBVIOUS
<1>2. \A row \in Row \cup {NoRow} : AfterRead(t, row) \subseteq Task
  BY <1>1, TaskType DEF AfterRead, Becomes
<1>3. AfterFailure(t) \subseteq Task
  BY <1>1, TaskType DEF AfterFailure, Becomes
<1> QED
  BY <1>2, <1>3

(* The tasks onChange makes of a transaction's changes.                     *)
LEMMA BatchType ==
  ASSUME ReaderAssumption, table \in Table, NEW log \in SUBSET Change,
         NEW lsn \in Nat \ {0}, NEW c \in filterChanges(log)
  PROVE  /\ c \in OutboxChanges /\ c.id \in Event /\ c.attempts \in Nat
         /\ FindUnprocessedByIds(table, {d.id : d \in filterChanges(log)})[c.id]
              = FindUnprocessedById(table, c.id)
         /\ BatchTask(lsn, c, FindUnprocessedById(table, c.id)) \in Task
<1>1. c \in OutboxChanges
  BY DEF filterChanges, Change, DomainChange
<1>2. c.id \in Event /\ c.attempts \in Nat
  BY <1>1 DEF OutboxChanges
<1>3. FindUnprocessedById(table, c.id) \in Row \cup {NoRow}
  BY <1>2, FindType
<1>4. 0 \in 0 .. NumOfAttempts - 1 /\ 0 \in 0 .. DbNumOfAttempts - 1
  BY DEF ReaderAssumption
<1>5. BatchTask(lsn, c, FindUnprocessedById(table, c.id)) \in Task
  BY <1>2, <1>3, <1>4 DEF BatchTask, Task
<1> QED
  BY <1>1, <1>2, <1>5 DEF FindUnprocessedByIds

(* The changes committed to the WAL are changes.                            *)
LEMMA ExecutesType ==
  ASSUME table \in Table, wal \in Seq(SUBSET Change), NEW s \in Statement, Executes(s)
  PROVE  /\ table' \in Table
         /\ wal' \in Seq(SUBSET Change)
         /\ Len(wal') >= Len(wal)
         /\ \A i \in 1 .. Len(wal') :
              wal'[i] = IF i <= Len(wal) THEN wal[i] ELSE wal'[Len(wal) + 1]
<1>1. table' \in Table /\ Execute(table, s)[s.id].attempts \in Nat
  BY ExecuteType DEF Executes
<1> DEFINE log == {OutboxChange("update", s.id, Execute(table, s)[s.id].attempts)}
<1>2. log \in SUBSET Change
  BY <1>1 DEF OutboxChange, Change, OutboxChanges, Statement
<1>3. wal' = wal \/ wal' = Append(wal, log)
  BY DEF Executes
<1> HIDE DEF log
<1> QED
  BY <1>1, <1>2, <1>3

LEMMA StoresType ==
  ASSUME ReaderAssumption, stream \in Seq(Event), dedup \in [Aggregate -> Nat],
         NEW e \in Event
  PROVE  /\ AckSeq(stream, dedup, MsgId(e)) \in Nat
         /\ Stores(e) => stream' \in Seq(Event) /\ dedup' \in [Aggregate -> Nat]
<1>1. MsgId(e) \in Aggregate
  BY DEF MsgId, ReaderAssumption
<1>2. AckSeq(stream, dedup, MsgId(e)) \in Nat
  BY <1>1 DEF AckSeq, IsDuplicate
<1>3. StreamAfter(stream, dedup, MsgId(e), e) \in Seq(Event)
  BY <1>1 DEF StreamAfter
<1>4. DedupAfter(stream, dedup, MsgId(e)) \in [Aggregate -> Nat]
  BY <1>1 DEF DedupAfter
<1> QED
  BY <1>2, <1>3, <1>4 DEF Stores

LEMMA InitType == Init => TypeOK
<1> SUFFICES ASSUME Init PROVE TypeOK
  OBVIOUS
<1>1. table \in [Event -> Row \cup {NoRow}]
  BY DEF Init
<1>2. wal \in Seq(SUBSET Change) /\ Len(wal) = 0 /\ stream \in Seq(Event)
  BY DEF Init
<1>3. dedup \in [Aggregate -> Nat]
  BY DEF Init
<1>4. busy = FALSE /\ busy \in BOOLEAN /\ confirmed = 0 /\ handled = 0 /\ resumed = 0
  BY DEF Init
<1>5. tasks \subseteq Task /\ strayMsgs \subseteq Event /\ strayStmts \subseteq Statement
  BY DEF Init
<1>6. transactions \in Nat /\ crashes \in Nat /\ dbErrors \in Nat
  BY DEF Init
<1> QED
  BY <1>1, <1>2, <1>3, <1>4, <1>5, <1>6 DEF TypeOK

LEMMA NextType ==
  ASSUME ReaderAssumption, TypeOK, [Next]_vars
  PROVE  TypeOK'
<1> USE DEF slot, server, strays, counts
<1>1. table \in Table
  BY DEF TypeOK, Table
<1>2. ASSUME NEW S \in SUBSET Event, CommitEvents(S)
      PROVE  TypeOK'
  <2>1. NewRow \in Row /\ NewRow.attempts \in Nat
    BY DEF NewRow, Row, Status
  <2>2. table' \in [Event -> Row \cup {NoRow}]
    BY <1>2, <2>1 DEF CommitEvents, TypeOK
  <2> DEFINE log == {DomainChange} \cup {OutboxChange("insert", e, NewRow.attempts) : e \in S}
  <2>3. log \in SUBSET Change
    BY <2>1 DEF OutboxChange, Change, OutboxChanges
  <2>4. wal' = Append(wal, log)
    BY <1>2 DEF CommitEvents
  <2> HIDE DEF log
  <2>5. wal' \in Seq(SUBSET Change) /\ Len(wal') = Len(wal) + 1
    BY <2>3, <2>4 DEF TypeOK
  <2> QED
    BY <1>2, <2>2, <2>5 DEF CommitEvents, TypeOK
<1>3. ASSUME NEW s \in strayStmts, StrayExecuted(s)
      PROVE  TypeOK'
  <2>1. s \in Statement /\ Executes(s)
    BY <1>3 DEF TypeOK, StrayExecuted
  <2>2. table' \in Table /\ wal' \in Seq(SUBSET Change) /\ Len(wal') >= Len(wal)
    BY <1>1, <2>1, ExecutesType DEF TypeOK
  <2> QED
    BY <1>3, <2>2 DEF StrayExecuted, TypeOK, Table
<1>4. ASSUME NEW e \in strayMsgs, StrayStored(e)
      PROVE  TypeOK'
  <2>1. e \in Event
    BY DEF TypeOK
  <2>2. stream' \in Seq(Event) /\ dedup' \in [Aggregate -> Nat]
    BY <1>4, <2>1, StoresType DEF TypeOK, StrayStored
  <2> QED
    BY <1>4, <2>2 DEF StrayStored, TypeOK
<1>5. ASSUME NEW m \in Aggregate, Expire(m)
      PROVE  TypeOK'
  BY <1>5 DEF Expire, Forget, TypeOK
<1>6. CASE OnChange
  <2>1. wal[handled + 1] \in SUBSET Change /\ handled + 1 \in Nat \ {0}
    BY <1>6 DEF OnChange, TypeOK
  <2>2. \A c \in filterChanges(wal[handled + 1]) :
          BatchTask(handled + 1, c, FindUnprocessedByIds(table,
            {d.id : d \in filterChanges(wal[handled + 1])})[c.id]) \in Task
    BY <1>1, <2>1, BatchType
  <2>3. tasks' \subseteq Task
    BY <1>6, <2>2 DEF OnChange, TypeOK
  <2> QED
    BY <1>6, <2>3 DEF OnChange, TypeOK
<1>7. CASE OnChangeDone
  <2>1. handled' \in Nat /\ confirmed <= handled' /\ handled' <= Len(wal) /\ busy' = FALSE
    BY <1>7 DEF OnChangeDone, TypeOK
  <2> QED
    BY <1>7, <2>1 DEF OnChangeDone, TypeOK
<1>8. CASE Acknowledge
  BY <1>8 DEF Acknowledge, TypeOK
<1>9. ASSUME NEW t \in tasks, ProcessInserts(t)
      PROVE  TypeOK'
  <2>1. t \in Task
    BY DEF TypeOK
  <2>2. CASE StartTask(t)
    <3>1. t.seen \in Row \cup {NoRow}
      BY <2>1 DEF Task
    <3>2. tasks' \subseteq Task
      BY <2>2, <3>1, AfterType DEF StartTask, TypeOK
    <3> QED
      BY <2>2, <3>2 DEF StartTask, TypeOK
  <2>3. CASE PublishAcked(t)
    <3>1. t.id \in Event
      BY <2>1, TaskType
    <3>2. AckSeq(stream, dedup, MsgId(t.id)) \in Nat
      BY <3>1, StoresType DEF TypeOK
    <3>3. tasks' \subseteq Task
      BY <2>1, <2>3, <3>2, TaskType DEF PublishAcked, Becomes, TypeOK
    <3>4. stream' \in Seq(Event) /\ dedup' \in [Aggregate -> Nat]
      BY <2>3, <3>1, StoresType DEF PublishAcked, TypeOK
    <3> QED
      BY <2>3, <3>3, <3>4 DEF PublishAcked, TypeOK
  <2>4. CASE PublishFails(t)
    <3>1. tasks' \subseteq Task /\ t.id \in Event
      BY <2>1, <2>4, AfterType, TaskType DEF PublishFails, TypeOK
    <3> QED
      BY <2>4, <3>1 DEF PublishFails, TypeOK
  <2>5. CASE MarkReplied(t)
    <3>1. MarkStatement(t) \in Statement
      BY <2>1, TaskType
    <3>2. table' \in Table /\ wal' \in Seq(SUBSET Change) /\ Len(wal') >= Len(wal)
      BY <1>1, <2>5, <3>1, ExecutesType DEF TypeOK, MarkReplied
    <3> QED
      BY <2>5, <3>2 DEF MarkReplied, TypeOK, Table
  <2>6. CASE MarkErrs(t)
    <3>1. tasks' \subseteq Task
      BY <2>1, <2>6, AfterType, TaskType DEF MarkErrs, Becomes, TypeOK
    <3>2. StatementOf(t) \in Statement
      BY <2>1, TaskType
    <3>3. strayStmts' \subseteq Statement /\ dbErrors' \in Nat
      BY <2>6, <3>2 DEF MarkErrs, StatementErrs, TypeOK
    <3> QED
      BY <2>6, <3>1, <3>3 DEF MarkErrs, StatementErrs, TypeOK
  <2> QED
    BY <1>9, <2>2, <2>3, <2>4, <2>5, <2>6 DEF ProcessInserts
<1>10. ASSUME NEW t \in tasks, RunRetry(t)
       PROVE  TypeOK'
  <2>1. t \in Task /\ t.id \in Event
    BY TaskType DEF TypeOK
  <2>2. CASE RetryRuns(t)
    <3>1. FindUnprocessedById(table, t.id) \in Row \cup {NoRow}
      BY <1>1, <2>1, FindType
    <3>2. tasks' \subseteq Task
      BY <2>2, <3>1, AfterType DEF RetryRuns, TypeOK
    <3> QED
      BY <2>2, <3>2 DEF RetryRuns, TypeOK
  <2>3. CASE RetryReadErrs(t)
    <3>1. tasks' \subseteq Task
      BY <2>3, AfterType DEF RetryReadErrs, TypeOK
    <3> QED
      BY <2>3, <3>1 DEF RetryReadErrs, TypeOK
  <2>4. CASE FailReplied(t)
    <3>1. FailStatement(t) \in Statement
      BY <2>1, TaskType
    <3>2. table' \in Table /\ wal' \in Seq(SUBSET Change) /\ Len(wal') >= Len(wal)
      BY <1>1, <2>4, <3>1, ExecutesType DEF TypeOK, FailReplied
    <3> QED
      BY <2>4, <3>2 DEF FailReplied, TypeOK, Table
  <2>5. CASE FailErrs(t)
    <3>1. tasks' \subseteq Task
      BY <2>1, <2>5, TaskType DEF FailErrs, Becomes, TypeOK
    <3>2. StatementOf(t) \in Statement
      BY <2>1, TaskType
    <3>3. strayStmts' \subseteq Statement /\ dbErrors' \in Nat
      BY <2>5, <3>2 DEF FailErrs, StatementErrs, TypeOK
    <3> QED
      BY <2>5, <3>1, <3>3 DEF FailErrs, StatementErrs, TypeOK
  <2> QED
    BY <1>10, <2>2, <2>3, <2>4, <2>5 DEF RunRetry
<1>11. CASE Crash
  <2>1. {t.id : t \in {u \in tasks : u.stage = "publish"}} \subseteq Event
    BY TaskType DEF TypeOK
  <2>2. {StatementOf(t) : t \in {u \in tasks : u.stage \in {"mark", "failing"}}}
          \subseteq Statement
    BY TaskType DEF TypeOK
  <2>3. strayMsgs' \subseteq Event /\ strayStmts' \subseteq Statement
    BY <1>11, <2>1, <2>2 DEF Crash, TypeOK
  <2>4. handled' \in Nat /\ confirmed <= handled' /\ handled' <= Len(wal)
    BY <1>11 DEF Crash, TypeOK
  <2>5. busy' = FALSE /\ busy' \in BOOLEAN /\ tasks' \subseteq Task
    BY <1>11 DEF Crash
  <2> QED
    BY <1>11, <2>3, <2>4, <2>5 DEF Crash, TypeOK
<1>12. CASE UNCHANGED vars
  BY <1>12 DEF vars, TypeOK
<1> QED
  BY <1>2, <1>3, <1>4, <1>5, <1>6, <1>7, <1>8, <1>9, <1>10, <1>11, <1>12 DEF Next

(* Every variable keeps its type: in particular no entry of the retry queue *)
(* goes beyond numOfAttempts, and the slot never passes the handled part of *)
(* the WAL.                                                                 *)
THEOREM TypeCorrect == Spec => []TypeOK
<1>1. Init => TypeOK
  BY InitType
<1>2. TypeOK /\ [Next]_vars => TypeOK'
  BY NextType, ReaderAssumption
<1> QED
  BY <1>1, <1>2, PTL DEF Spec

-------------------------------------------------------------------------------
\* Beliefs.

(* An UPDATE whose guard is harmless leaves PROCESSED rows alone, and what  *)
(* was harmless stays so.                                                   *)
LEMMA HarmlessExecutes ==
  ASSUME table \in Table, NEW s \in Statement, Harmless(s.id, s.attempts), Executes(s)
  PROVE  /\ \A e \in Event : table[e].status = "PROCESSED" => table'[e] = table[e]
         /\ \A e \in Event, a \in Nat : Harmless(e, a) => Harmless(e, a)'
<1>1. s.id \in Event /\ s.attempts \in Nat
  BY DEF Statement
<1>2. table[s.id].attempts \in Nat
  BY <1>1 DEF Table, Row, NoRow
<1>3. \A e \in Event \ {s.id} : table'[e] = table[e]
  BY ExecuteType DEF Executes
<1>4. \/ table' = table
      \/ /\ table[s.id].attempts = s.attempts
         /\ table'[s.id].attempts = table[s.id].attempts + 1
         /\ table'[s.id].status \in {"PROCESSED", "FAILED"}
  BY <1>1 DEF Executes, Execute, MarkAsProcessed, MarkAsFailed, Table
<1>5. CASE table' = table
  BY <1>5 DEF Harmless, Exists
<1>6. CASE /\ table[s.id].attempts = s.attempts
           /\ table'[s.id].attempts = table[s.id].attempts + 1
           /\ table'[s.id].status \in {"PROCESSED", "FAILED"}
  <2>1. table[s.id].status # "PROCESSED"
    BY <1>1, <1>2, <1>6 DEF Harmless
  <2>2. ASSUME NEW e \in Event, NEW a \in Nat, Harmless(e, a)
        PROVE  Harmless(e, a)'
    <3>1. CASE e = s.id
      BY <1>2, <1>6, <2>2, <3>1 DEF Harmless, Exists
    <3>2. CASE e # s.id
      BY <1>3, <2>2, <3>2 DEF Harmless, Exists
    <3> QED
      BY <3>1, <3>2
  <2> QED
    BY <1>3, <2>1, <2>2
<1> QED
  BY <1>4, <1>5, <1>6

(* The same for all beliefs together.                                       *)
LEMMA BeliefsExecutes ==
  ASSUME TypeOK, BeliefsAreHarmless,
         NEW s \in Statement, Harmless(s.id, s.attempts), Executes(s)
  PROVE  /\ \A i \in 1 .. Len(wal') : \A c \in filterChanges(wal'[i]) :
              Harmless(c.id, c.attempts)'
         /\ \A t \in tasks : TaskIsHarmless(t)'
         /\ \A u \in strayStmts : Harmless(u.id, u.attempts)'
<1>1. table \in Table /\ wal \in Seq(SUBSET Change)
  BY DEF TypeOK, Table
<1>2. \A e \in Event, a \in Nat : Harmless(e, a) => Harmless(e, a)'
  BY <1>1, HarmlessExecutes
<1>3. ASSUME NEW i \in 1 .. Len(wal'), NEW c \in filterChanges(wal'[i])
      PROVE  Harmless(c.id, c.attempts)'
  <2>1. wal' = wal \/ wal' = Append(wal,
          {OutboxChange("update", s.id, Execute(table, s)[s.id].attempts)})
    BY DEF Executes
  <2>2. c \in wal'[i] /\ c.kind = "insert"
    BY DEF filterChanges
  <2>3. CASE i \in 1 .. Len(wal)
    <3>1. wal'[i] = wal[i] /\ wal[i] \in SUBSET Change
      BY <1>1, <2>1, <2>3
    <3>2. c \in OutboxChanges
      BY <3>1 DEF filterChanges, Change, DomainChange
    <3>3. Harmless(c.id, c.attempts)
      BY <2>3, <3>1 DEF BeliefsAreHarmless
    <3> QED
      BY <1>2, <3>2, <3>3 DEF OutboxChanges
  <2>4. CASE i \notin 1 .. Len(wal)
    <3>1. c = OutboxChange("update", s.id, Execute(table, s)[s.id].attempts)
      BY <1>1, <2>1, <2>2, <2>4
    <3> QED
      BY <2>2, <3>1 DEF OutboxChange
  <2> QED
    BY <2>3, <2>4
<1>4. ASSUME NEW t \in tasks
      PROVE  TaskIsHarmless(t)'
  <2>1. t.id \in Event /\ t.base \in Nat /\ t.seen.attempts \in Nat
    BY DEF TypeOK, Task, Row, NoRow
  <2> QED
    BY <1>2, <2>1 DEF BeliefsAreHarmless, TaskIsHarmless
<1>5. ASSUME NEW u \in strayStmts
      PROVE  Harmless(u.id, u.attempts)'
  <2>1. u.id \in Event /\ u.attempts \in Nat
    BY DEF TypeOK, Statement
  <2> QED
    BY <1>2, <2>1 DEF BeliefsAreHarmless
<1> QED
  BY <1>3, <1>4, <1>5

(* A row read now is a harmless belief, and so is one read before if it was *)
(* then: the tasks that follow a harmless task are harmless.                *)
LEMMA FindHarmless ==
  ASSUME table \in Table, NEW e \in Event
  PROVE  LET row == FindUnprocessedById(table, e)
         IN  row # NoRow => Harmless(e, row.attempts)
<1>1. table[e] \in Row \cup {NoRow} /\ table[e].attempts \in Nat
  BY DEF Table, Row, NoRow
<1>2. CASE table[e].status \in {"PENDING", "FAILED"}
  BY <1>1, <1>2 DEF FindUnprocessedById, Harmless, Exists
<1>3. CASE table[e].status \notin {"PENDING", "FAILED"}
  BY <1>3 DEF FindUnprocessedById
<1> QED
  BY <1>2, <1>3

LEMMA FollowersHarmless ==
  ASSUME TypeOK, NEW t \in tasks, \A u \in tasks : TaskIsHarmless(u)
  PROVE  /\ \A u \in AfterFailure(t) : TaskIsHarmless(u)
         /\ TaskIsHarmless([t EXCEPT !.tries = @ + 1])
         /\ \A row \in Row \cup {NoRow} :
              (row # NoRow => Harmless(t.id, row.attempts)) =>
                \A u \in AfterRead(t, row) : TaskIsHarmless(u)
         /\ \A seq \in Nat : t.stage = "publish" =>
              TaskIsHarmless([t EXCEPT !.stage = "mark", !.seq = seq])
<1>1. t \in Task
  BY DEF TypeOK
<1>2. TaskIsHarmless(Failing(t))
  BY <1>1 DEF TaskIsHarmless, Failing, Task
<1>3. \A n \in Nat : TaskIsHarmless(Scheduled(t, n))
  BY <1>1 DEF TaskIsHarmless, Scheduled, Task
<1>4. (IF t.origin = "batch" THEN 0 ELSE t.attempt + 1) \in Nat
  BY <1>1 DEF Task
<1>5. \A u \in AfterFailure(t) : TaskIsHarmless(u)
  BY <1>2, <1>3, <1>4 DEF AfterFailure, Becomes
<1>6. TaskIsHarmless([t EXCEPT !.tries = @ + 1])
  BY <1>1 DEF TaskIsHarmless, Task
<1>7. ASSUME NEW row \in Row \cup {NoRow}, row # NoRow => Harmless(t.id, row.attempts),
             NEW u \in AfterRead(t, row)
      PROVE  TaskIsHarmless(u)
  <2>1. CASE Skipped(row)
    BY <2>1 DEF AfterRead
  <2>2. CASE ~Skipped(row)
    <3>1. row # NoRow
      BY <2>2 DEF Skipped, NoRow
    <3>2. TaskIsHarmless([t EXCEPT !.stage = "publish", !.seen = row])
      BY <1>1, <1>7, <3>1 DEF TaskIsHarmless, Task
    <3> QED
      BY <2>2, <3>2 DEF AfterRead, Becomes
  <2> QED
    BY <2>1, <2>2
<1>8. \A seq \in Nat : t.stage = "publish" =>
        TaskIsHarmless([t EXCEPT !.stage = "mark", !.seq = seq])
  BY <1>1 DEF TaskIsHarmless, Task
<1> QED
  BY <1>5, <1>6, <1>7, <1>8

LEMMA StatementHarmless ==
  ASSUME NEW t, TaskIsHarmless(t), t.stage \in {"mark", "failing"}
  PROVE  /\ StatementOf(t).id = t.id
         /\ Harmless(t.id, StatementOf(t).attempts)
         /\ t.stage = "mark" => StatementOf(t) = MarkStatement(t)
         /\ t.stage = "failing" => StatementOf(t) = FailStatement(t)
BY DEF TaskIsHarmless, StatementOf, MarkStatement, FailStatement

LEMMA CommitHarmless ==
  ASSUME TypeOK, BeliefsAreHarmless, NEW S \in SUBSET Event, CommitEvents(S)
  PROVE  BeliefsAreHarmless'
<1> USE DEF slot, server, strays, counts
<1>1. \A e \in S : table'[e] = NewRow /\ ~Exists(table, e)
  BY DEF CommitEvents
<1>2. \A e \in Event \ S : table'[e] = table[e]
  BY DEF CommitEvents
<1>3. ASSUME NEW e \in Event, NEW a, Harmless(e, a)
      PROVE  Harmless(e, a)'
  BY <1>1, <1>2, <1>3 DEF Harmless, Exists
<1>4. \A e \in S : Harmless(e, NewRow.attempts)'
  BY <1>1 DEF Harmless, Exists, NewRow
<1> DEFINE log == {DomainChange} \cup {OutboxChange("insert", e, NewRow.attempts) : e \in S}
<1>5. wal' = Append(wal, log)
  BY DEF CommitEvents
<1>6. ASSUME NEW i \in 1 .. Len(wal'), NEW c \in filterChanges(wal'[i])
      PROVE  Harmless(c.id, c.attempts)'
  <2>1. CASE i \in 1 .. Len(wal)
    <3>1. wal'[i] = wal[i] /\ wal[i] \in SUBSET Change
      BY <1>5, <2>1 DEF TypeOK
    <3>2. c \in OutboxChanges
      BY <3>1 DEF filterChanges, Change, DomainChange
    <3>3. Harmless(c.id, c.attempts)
      BY <2>1, <3>1 DEF BeliefsAreHarmless
    <3> QED
      BY <1>3, <3>2, <3>3 DEF OutboxChanges
  <2>2. CASE i \notin 1 .. Len(wal)
    <3>1. wal'[i] = log
      BY <1>5, <2>2 DEF TypeOK
    <3>2. PICK e \in S : c = OutboxChange("insert", e, NewRow.attempts)
      BY <3>1 DEF filterChanges, DomainChange
    <3>3. c.id = e /\ c.attempts = NewRow.attempts
      BY <3>2 DEF OutboxChange
    <3> QED
      BY <1>4, <3>3
  <2> QED
    BY <2>1, <2>2
<1>7. \A t \in tasks : TaskIsHarmless(t)'
  <2> SUFFICES ASSUME NEW t \in tasks PROVE TaskIsHarmless(t)'
    OBVIOUS
  <2>1. t.id \in Event
    BY DEF TypeOK, Task
  <2> QED
    BY <1>3, <2>1 DEF BeliefsAreHarmless, TaskIsHarmless
<1>8. \A s \in strayStmts : Harmless(s.id, s.attempts)'
  BY <1>3 DEF BeliefsAreHarmless, TypeOK, Statement
<1>9. tasks' = tasks /\ strayStmts' = strayStmts
  BY DEF CommitEvents
<1> QED
  BY <1>6, <1>7, <1>8, <1>9 DEF BeliefsAreHarmless

(* A step that leaves the table and the WAL alone need only take care of    *)
(* the tasks and the strays it adds.                                        *)
LEMMA QuietHarmless ==
  ASSUME BeliefsAreHarmless, UNCHANGED <<table, wal>>,
         \A t \in tasks' : TaskIsHarmless(t),
         \A s \in strayStmts' : Harmless(s.id, s.attempts)
  PROVE  BeliefsAreHarmless'
BY DEF BeliefsAreHarmless, TaskIsHarmless, Harmless, Exists

LEMMA NextHarmless ==
  ASSUME TypeOK, BeliefsAreHarmless, [Next]_vars
  PROVE  BeliefsAreHarmless'
<1> USE DEF slot, server, strays, counts
<1>1. table \in Table
  BY DEF TypeOK, Table
<1>2. /\ \A t \in tasks : TaskIsHarmless(t)
      /\ \A s \in strayStmts : Harmless(s.id, s.attempts)
  BY DEF BeliefsAreHarmless
<1>3. ASSUME NEW S \in SUBSET Event, CommitEvents(S)
      PROVE  BeliefsAreHarmless'
  BY <1>3, CommitHarmless
<1>4. ASSUME NEW s \in strayStmts, StrayExecuted(s)
      PROVE  BeliefsAreHarmless'
  <2>1. s \in Statement /\ Harmless(s.id, s.attempts) /\ Executes(s)
    BY <1>2, <1>4 DEF StrayExecuted, TypeOK
  <2>2. tasks' = tasks /\ strayStmts' \subseteq strayStmts
    BY <1>4 DEF StrayExecuted
  <2> QED
    BY <2>1, <2>2, BeliefsExecutes DEF BeliefsAreHarmless
<1>5. CASE OnChange
  <2>1. wal[handled + 1] \in SUBSET Change /\ handled + 1 \in Nat \ {0}
        /\ handled + 1 \in 1 .. Len(wal)
    BY <1>5 DEF OnChange, TypeOK
  <2>2. ASSUME NEW c \in filterChanges(wal[handled + 1])
        PROVE  TaskIsHarmless(BatchTask(handled + 1, c, FindUnprocessedByIds(table,
                 {d.id : d \in filterChanges(wal[handled + 1])})[c.id]))
    <3>1. c.id \in Event
          /\ FindUnprocessedByIds(table, {d.id : d \in filterChanges(wal[handled + 1])})[c.id]
               = FindUnprocessedById(table, c.id)
      BY <1>1, <2>1, BatchType, ReaderAssumption
    <3>2. Harmless(c.id, c.attempts)
      BY <2>1 DEF BeliefsAreHarmless
    <3> QED
      BY <1>1, <3>1, <3>2, FindHarmless DEF TaskIsHarmless, BatchTask
  <2>3. \A t \in tasks' : TaskIsHarmless(t)
    BY <1>2, <1>5, <2>2 DEF OnChange
  <2> QED
    BY <1>2, <1>5, <2>3, QuietHarmless DEF OnChange
<1>6. ASSUME NEW t \in tasks, ProcessInserts(t)
      PROVE  BeliefsAreHarmless'
  <2>1. t \in Task /\ t.id \in Event /\ TaskIsHarmless(t)
    BY <1>2 DEF TypeOK, Task
  <2>2. CASE StartTask(t)
    <3>1. t.seen \in Row \cup {NoRow}
      BY <2>1 DEF Task
    <3>2. \A u \in tasks' : TaskIsHarmless(u)
      BY <1>2, <2>1, <2>2, <3>1, FollowersHarmless DEF StartTask, TaskIsHarmless
    <3> QED
      BY <1>2, <2>2, <3>2, QuietHarmless DEF StartTask
  <2>3. CASE PublishAcked(t)
    <3>1. AckSeq(stream, dedup, MsgId(t.id)) \in Nat
      BY <2>1, StoresType, ReaderAssumption DEF TypeOK
    <3>2. \A u \in tasks' : TaskIsHarmless(u)
      BY <1>2, <2>3, <3>1, FollowersHarmless DEF PublishAcked, Becomes
    <3> QED
      BY <1>2, <2>3, <3>2, QuietHarmless DEF PublishAcked
  <2>4. CASE PublishFails(t)
    <3>1. \A u \in tasks' : TaskIsHarmless(u)
      BY <1>2, <2>4, FollowersHarmless DEF PublishFails
    <3> QED
      BY <1>2, <2>4, <3>1, QuietHarmless DEF PublishFails
  <2>5. CASE MarkReplied(t)
    <3>1. MarkStatement(t) \in Statement /\ MarkStatement(t).id = t.id
          /\ Harmless(t.id, MarkStatement(t).attempts) /\ Executes(MarkStatement(t))
      BY <2>1, <2>5, StatementHarmless, TaskType, ReaderAssumption DEF MarkReplied
    <3>2. tasks' \subseteq tasks /\ strayStmts' = strayStmts
      BY <2>5 DEF MarkReplied
    <3> QED
      BY <3>1, <3>2, BeliefsExecutes DEF BeliefsAreHarmless
  <2>6. CASE MarkErrs(t)
    <3>1. \A u \in tasks' : TaskIsHarmless(u)
      BY <1>2, <2>6, FollowersHarmless DEF MarkErrs, Becomes
    <3>2. \A s \in strayStmts' : Harmless(s.id, s.attempts)
      BY <1>2, <2>1, <2>6, StatementHarmless DEF MarkErrs, StatementErrs
    <3> QED
      BY <2>6, <3>1, <3>2, QuietHarmless DEF MarkErrs, StatementErrs
  <2> QED
    BY <1>6, <2>2, <2>3, <2>4, <2>5, <2>6 DEF ProcessInserts
<1>7. ASSUME NEW t \in tasks, RunRetry(t)
      PROVE  BeliefsAreHarmless'
  <2>1. t \in Task /\ t.id \in Event /\ TaskIsHarmless(t)
    BY <1>2 DEF TypeOK, Task
  <2>2. CASE RetryRuns(t)
    <3>1. FindUnprocessedById(table, t.id) \in Row \cup {NoRow}
          /\ (FindUnprocessedById(table, t.id) # NoRow =>
                Harmless(t.id, FindUnprocessedById(table, t.id).attempts))
      BY <1>1, <2>1, FindType, FindHarmless
    <3>2. \A u \in tasks' : TaskIsHarmless(u)
      BY <1>2, <2>2, <3>1, FollowersHarmless DEF RetryRuns
    <3> QED
      BY <1>2, <2>2, <3>2, QuietHarmless DEF RetryRuns
  <2>3. CASE RetryReadErrs(t)
    <3>1. \A u \in tasks' : TaskIsHarmless(u)
      BY <1>2, <2>3, FollowersHarmless DEF RetryReadErrs
    <3> QED
      BY <1>2, <2>3, <3>1, QuietHarmless DEF RetryReadErrs
  <2>4. CASE FailReplied(t)
    <3>1. FailStatement(t) \in Statement /\ FailStatement(t).id = t.id
          /\ Harmless(t.id, FailStatement(t).attempts) /\ Executes(FailStatement(t))
      BY <2>1, <2>4, StatementHarmless, TaskType, ReaderAssumption DEF FailReplied
    <3>2. tasks' \subseteq tasks /\ strayStmts' = strayStmts
      BY <2>4 DEF FailReplied
    <3> QED
      BY <3>1, <3>2, BeliefsExecutes DEF BeliefsAreHarmless
  <2>5. CASE FailErrs(t)
    <3>1. \A u \in tasks' : TaskIsHarmless(u)
      BY <1>2, <2>5, FollowersHarmless DEF FailErrs, Becomes
    <3>2. \A s \in strayStmts' : Harmless(s.id, s.attempts)
      BY <1>2, <2>1, <2>5, StatementHarmless DEF FailErrs, StatementErrs
    <3> QED
      BY <2>5, <3>1, <3>2, QuietHarmless DEF FailErrs, StatementErrs
  <2> QED
    BY <1>7, <2>2, <2>3, <2>4, <2>5 DEF RunRetry
<1>8. CASE Crash
  <2>1. \A t \in tasks : t.stage \in {"mark", "failing"} =>
          Harmless(StatementOf(t).id, StatementOf(t).attempts)
    BY <1>2, StatementHarmless
  <2>2. \A s \in strayStmts' : Harmless(s.id, s.attempts)
    BY <1>2, <1>8, <2>1 DEF Crash
  <2> QED
    BY <1>8, <2>2, QuietHarmless DEF Crash
<1>9. CASE UNCHANGED <<table, wal, tasks, strayStmts>>
  BY <1>2, <1>9, QuietHarmless
<1>10. /\ \A e \in strayMsgs : StrayStored(e) => UNCHANGED <<table, wal, tasks, strayStmts>>
       /\ \A m \in Aggregate : Expire(m) => UNCHANGED <<table, wal, tasks, strayStmts>>
       /\ OnChangeDone \/ Acknowledge \/ UNCHANGED vars =>
            UNCHANGED <<table, wal, tasks, strayStmts>>
  BY DEF StrayStored, Expire, OnChangeDone, Acknowledge, vars
<1> QED
  BY <1>3, <1>4, <1>5, <1>6, <1>7, <1>8, <1>9, <1>10 DEF Next

LEMMA InitHarmless == Init => BeliefsAreHarmless
BY DEF Init, BeliefsAreHarmless

(* No UPDATE the service has sent or may yet send, from whatever snapshot   *)
(* of the row, can match a PROCESSED row, now or later.                     *)
THEOREM BeliefsInvariant == Spec => []BeliefsAreHarmless
<1>1. TypeOK /\ BeliefsAreHarmless /\ [Next]_vars => BeliefsAreHarmless'
  BY NextHarmless
<1> QED
  BY <1>1, InitHarmless, TypeCorrect, PTL DEF Spec

(* A step that changes the table either executes such an UPDATE or commits  *)
(* rows that were not there, so a PROCESSED row never changes.              *)
LEMMA NextKeepsProcessed ==
  ASSUME TypeOK, BeliefsAreHarmless, [Next]_vars
  PROVE  \A e \in Event : table[e].status = "PROCESSED" => table'[e] = table[e]
<1> USE DEF slot, server, strays, counts
<1>1. table \in Table
  BY DEF TypeOK, Table
<1>2. ASSUME NEW S \in SUBSET Event, CommitEvents(S)
      PROVE  \A e \in Event : table[e].status = "PROCESSED" => table'[e] = table[e]
  BY <1>2 DEF CommitEvents, Exists
<1>3. ASSUME NEW s \in strayStmts, StrayExecuted(s)
      PROVE  \A e \in Event : table[e].status = "PROCESSED" => table'[e] = table[e]
  <2>1. s \in Statement /\ Harmless(s.id, s.attempts) /\ Executes(s)
    BY <1>3 DEF StrayExecuted, TypeOK, BeliefsAreHarmless
  <2> QED
    BY <1>1, <2>1, HarmlessExecutes
<1>4. ASSUME NEW t \in tasks, MarkReplied(t) \/ FailReplied(t)
      PROVE  \A e \in Event : table[e].status = "PROCESSED" => table'[e] = table[e]
  <2>1. t \in Task /\ TaskIsHarmless(t) /\ t.stage \in {"mark", "failing"}
    BY <1>4 DEF TypeOK, BeliefsAreHarmless, MarkReplied, FailReplied
  <2>2. /\ StatementOf(t) \in Statement /\ StatementOf(t).id = t.id
        /\ Harmless(t.id, StatementOf(t).attempts) /\ Executes(StatementOf(t))
    BY <1>4, <2>1, StatementHarmless, TaskType, ReaderAssumption
       DEF MarkReplied, FailReplied, StatementOf
  <2> QED
    BY <1>1, <2>2, HarmlessExecutes
<1>5. CASE UNCHANGED table
  BY <1>5
<1>6. /\ \A e \in strayMsgs : StrayStored(e) => UNCHANGED table
      /\ \A m \in Aggregate : Expire(m) => UNCHANGED table
      /\ OnChange \/ OnChangeDone \/ Acknowledge \/ Crash \/ UNCHANGED vars => UNCHANGED table
      /\ \A t \in tasks : StartTask(t) \/ PublishAcked(t) \/ PublishFails(t) => UNCHANGED table
      /\ \A t \in tasks : MarkErrs(t) \/ FailErrs(t) => UNCHANGED table
      /\ \A t \in tasks : RetryRuns(t) \/ RetryReadErrs(t) => UNCHANGED table
  BY DEF StrayStored, Expire, OnChange, OnChangeDone, Acknowledge, Crash, vars, StartTask,
         PublishAcked, PublishFails, MarkErrs, FailErrs, StatementErrs, RetryRuns, RetryReadErrs
<1> QED
  BY <1>2, <1>3, <1>4, <1>5, <1>6 DEF Next, ProcessInserts, RunRetry

(* Whatever crashes, is redelivered, times out or arrives late, the service *)
(* never changes a row that is PROCESSED.                                   *)
THEOREM ProcessedFinal == Spec => ProcessedIsFinal
<1>1. TypeOK /\ BeliefsAreHarmless /\ [Next]_vars =>
        [\A e \in Event : table[e].status = "PROCESSED" => table'[e] = table[e]]_vars
  BY NextKeepsProcessed
<1> QED
  BY <1>1, TypeCorrect, BeliefsInvariant, PTL DEF Spec, ProcessedIsFinal

-------------------------------------------------------------------------------
\* Sequence numbers.

IsSeqIn(str, n, m) == n \in 1 .. Len(str) /\ MsgId(str[n]) = m

(* Wherever a sequence number is kept, on its way from the server's answer  *)
(* to the row, it is that of a stored message with the right id.            *)
AnswersMatch ==
  /\ \A m \in Aggregate : dedup[m] # 0 => IsSeqIn(stream, dedup[m], m)
  /\ \A t \in tasks : t.stage = "mark" => IsSeqIn(stream, t.seq, MsgId(t.id))
  /\ \A s \in strayStmts : s.op = "PROCESSED" => IsSeqIn(stream, s.seq, MsgId(s.id))
  /\ \A e \in Event : table[e].status = "PROCESSED" => IsSeqIn(stream, table[e].seq, MsgId(e))

(* A publish answers with the sequence number of a message with its id, and *)
(* leaves the numbers of the others as they were.                           *)
LEMMA StoresSeq ==
  ASSUME TypeOK, AnswersMatch, NEW e \in Event, Stores(e)
  PROVE  /\ \A n \in Nat, m \in Aggregate : IsSeqIn(stream, n, m) => IsSeqIn(stream', n, m)
         /\ IsSeqIn(stream', AckSeq(stream, dedup, MsgId(e)), MsgId(e))
         /\ \A m \in Aggregate : dedup'[m] # 0 => IsSeqIn(stream', dedup'[m], m)
<1>1. MsgId(e) \in Aggregate /\ stream \in Seq(Event) /\ dedup \in [Aggregate -> Nat]
  BY ReaderAssumption DEF MsgId, TypeOK
<1>2. CASE dedup[MsgId(e)] # 0
  <2>1. stream' = stream /\ dedup' = dedup
    BY <1>2 DEF Stores, StreamAfter, DedupAfter, IsDuplicate
  <2>2. AckSeq(stream, dedup, MsgId(e)) = dedup[MsgId(e)]
    BY <1>2 DEF AckSeq, IsDuplicate
  <2>3. \A n \in Nat, m \in Aggregate : IsSeqIn(stream, n, m) => IsSeqIn(stream', n, m)
    BY <2>1 DEF IsSeqIn
  <2>4. \A m \in Aggregate : dedup[m] # 0 => IsSeqIn(stream, dedup[m], m)
    BY DEF AnswersMatch
  <2> QED
    BY <1>1, <1>2, <2>1, <2>2, <2>3, <2>4
<1>3. CASE dedup[MsgId(e)] = 0
  <2>1. /\ stream' = Append(stream, e)
        /\ dedup' = [dedup EXCEPT ![MsgId(e)] = Len(stream) + 1]
        /\ AckSeq(stream, dedup, MsgId(e)) = Len(stream) + 1
    BY <1>3 DEF Stores, StreamAfter, DedupAfter, AckSeq, IsDuplicate
  <2>2. \A n \in Nat, m \in Aggregate : IsSeqIn(stream, n, m) => IsSeqIn(stream', n, m)
    BY <1>1, <2>1 DEF IsSeqIn, MsgId
  <2>3. IsSeqIn(stream', Len(stream) + 1, MsgId(e))
    BY <1>1, <2>1 DEF IsSeqIn, MsgId
  <2>4. \A m \in Aggregate : dedup[m] # 0 => IsSeqIn(stream, dedup[m], m)
    BY DEF AnswersMatch
  <2>5. ASSUME NEW m \in Aggregate, dedup'[m] # 0
        PROVE  IsSeqIn(stream', dedup'[m], m)
    <3>1. CASE m = MsgId(e)
      BY <1>1, <2>1, <2>3, <3>1 DEF IsSeqIn, MsgId
    <3>2. CASE m # MsgId(e)
      BY <1>1, <2>1, <2>2, <2>4, <2>5, <3>2
    <3> QED
      BY <3>1, <3>2
  <2> QED
    BY <2>1, <2>2, <2>3, <2>5
<1> QED
  BY <1>1, <1>2, <1>3

(* An UPDATE makes a row PROCESSED with the sequence number it carries.     *)
LEMMA ExecutesSeq ==
  ASSUME table \in Table, NEW s \in Statement, Executes(s),
         s.op = "PROCESSED" => IsSeqIn(stream, s.seq, MsgId(s.id)),
         \A e \in Event : table[e].status = "PROCESSED" => IsSeqIn(stream, table[e].seq, MsgId(e))
  PROVE  \A e \in Event : table'[e].status = "PROCESSED" => IsSeqIn(stream, table'[e].seq, MsgId(e))
<1>1. s.id \in Event
  BY DEF Statement
<1>2. \A e \in Event \ {s.id} : table'[e] = table[e]
  BY ExecuteType DEF Executes
<1>3. \/ table'[s.id] = table[s.id]
      \/ table'[s.id].status = "FAILED"
      \/ s.op = "PROCESSED" /\ table'[s.id].seq = s.seq
  BY <1>1 DEF Executes, Execute, MarkAsProcessed, MarkAsFailed, Table
<1> QED
  BY <1>1, <1>2, <1>3

(* The tasks that follow t hold no answer but its own.                      *)
LEMMA FollowersSeq ==
  ASSUME TypeOK, AnswersMatch, NEW t \in tasks
  PROVE  /\ \A u \in AfterFailure(t) : u.stage = "mark" => IsSeqIn(stream, u.seq, MsgId(u.id))
         /\ \A row \in Row \cup {NoRow} : \A u \in AfterRead(t, row) :
              u.stage = "mark" => IsSeqIn(stream, u.seq, MsgId(u.id))
         /\ LET u == [t EXCEPT !.tries = @ + 1]
            IN  u.stage = "mark" => IsSeqIn(stream, u.seq, MsgId(u.id))
         /\ StatementOf(t).op = "PROCESSED" =>
              IsSeqIn(stream, StatementOf(t).seq, MsgId(StatementOf(t).id))
<1>1. t \in Task
  BY DEF TypeOK
<1>2. \A u \in tasks : u.stage = "mark" => IsSeqIn(stream, u.seq, MsgId(u.id))
  BY DEF AnswersMatch
<1>3. Failing(t).stage = "failing" /\ \A n \in Nat : Scheduled(t, n).stage = "timer"
  BY <1>1 DEF Failing, Scheduled, Task
<1>4. (IF t.origin = "batch" THEN 0 ELSE t.attempt + 1) \in Nat
  BY <1>1 DEF Task
<1>5. \A u \in AfterFailure(t) : u.stage = "mark" => IsSeqIn(stream, u.seq, MsgId(u.id))
  BY <1>2, <1>3, <1>4 DEF AfterFailure, Becomes
<1>6. \A row \in Row \cup {NoRow} : \A u \in AfterRead(t, row) :
        u.stage = "mark" => IsSeqIn(stream, u.seq, MsgId(u.id))
  <2>1. \A row \in Row \cup {NoRow} :
          [t EXCEPT !.stage = "publish", !.seen = row].stage = "publish"
    BY <1>1 DEF Task
  <2> QED
    BY <1>2, <2>1 DEF AfterRead, Becomes
<1>7. LET u == [t EXCEPT !.tries = @ + 1]
      IN  u.stage = t.stage /\ u.seq = t.seq /\ u.id = t.id
  BY <1>1 DEF Task
<1>8. StatementOf(t).op = "PROCESSED" =>
        IsSeqIn(stream, StatementOf(t).seq, MsgId(StatementOf(t).id))
  BY <1>2 DEF StatementOf, MarkStatement, FailStatement
<1> QED
  BY <1>2, <1>5, <1>6, <1>7, <1>8

(* A step that stores nothing and executes nothing need only take care of   *)
(* the tasks and strays it adds, and may forget ids of the window.          *)
LEMMA QuietSeq ==
  ASSUME AnswersMatch, UNCHANGED <<table, stream>>,
         \A m \in Aggregate : dedup'[m] # 0 => dedup'[m] = dedup[m],
         \A t \in tasks' : t.stage = "mark" => IsSeqIn(stream, t.seq, MsgId(t.id)),
         \A s \in strayStmts' : s.op = "PROCESSED" => IsSeqIn(stream, s.seq, MsgId(s.id))
  PROVE  AnswersMatch'
BY DEF AnswersMatch, IsSeqIn, MsgId

LEMMA NextSeq ==
  ASSUME TypeOK, AnswersMatch, [Next]_vars
  PROVE  AnswersMatch'
<1> USE DEF slot, server, strays, counts
<1>1. table \in Table /\ dedup \in [Aggregate -> Nat]
  BY DEF TypeOK, Table
<1>2. /\ \A m \in Aggregate : dedup[m] # 0 => IsSeqIn(stream, dedup[m], m)
      /\ \A t \in tasks : t.stage = "mark" => IsSeqIn(stream, t.seq, MsgId(t.id))
      /\ \A s \in strayStmts : s.op = "PROCESSED" => IsSeqIn(stream, s.seq, MsgId(s.id))
      /\ \A e \in Event : table[e].status = "PROCESSED" =>
           IsSeqIn(stream, table[e].seq, MsgId(e))
  BY DEF AnswersMatch
<1>3. \A e \in Event : MsgId(e) \in Aggregate
  BY ReaderAssumption DEF MsgId
<1>4. ASSUME NEW S \in SUBSET Event, CommitEvents(S)
      PROVE  AnswersMatch'
  <2>1. \A e \in Event : table'[e].status = "PROCESSED" => table'[e] = table[e]
    BY <1>4 DEF CommitEvents, NewRow
  <2> QED
    BY <1>2, <1>4, <2>1 DEF CommitEvents, AnswersMatch, IsSeqIn, MsgId
<1>5. ASSUME NEW s \in Statement, Executes(s),
             s.op = "PROCESSED" => IsSeqIn(stream, s.seq, MsgId(s.id)),
             tasks' \subseteq tasks, strayStmts' \subseteq strayStmts, UNCHANGED server
      PROVE  AnswersMatch'
  <2>1. \A e \in Event : table'[e].status = "PROCESSED" =>
          IsSeqIn(stream, table'[e].seq, MsgId(e))
    BY <1>1, <1>2, <1>5, ExecutesSeq
  <2> QED
    BY <1>2, <1>5, <2>1 DEF AnswersMatch, IsSeqIn, MsgId
<1>6. ASSUME NEW s \in strayStmts, StrayExecuted(s)
      PROVE  AnswersMatch'
  BY <1>2, <1>5, <1>6 DEF StrayExecuted, TypeOK
<1>7. ASSUME NEW e \in strayMsgs, StrayStored(e)
      PROVE  AnswersMatch'
  <2>1. e \in Event /\ Stores(e)
    BY <1>7 DEF StrayStored, TypeOK
  <2>2. \A n \in Nat, m \in Aggregate : IsSeqIn(stream, n, m) => IsSeqIn(stream', n, m)
    BY <2>1, StoresSeq
  <2>3. \A m \in Aggregate : dedup'[m] # 0 => IsSeqIn(stream', dedup'[m], m)
    BY <2>1, StoresSeq
  <2>4. \A t \in tasks : t.id \in Event /\ t.seq \in Nat
    BY DEF TypeOK, Task
  <2>5. \A s \in strayStmts : s.id \in Event /\ s.seq \in Nat
    BY DEF TypeOK, Statement
  <2>6. \A f \in Event : table[f].seq \in Nat
    BY <1>1 DEF Table, Row, NoRow
  <2>7. UNCHANGED <<table, tasks, strayStmts>>
    BY <1>7 DEF StrayStored
  <2> QED
    BY <1>2, <1>3, <2>2, <2>3, <2>4, <2>5, <2>6, <2>7 DEF AnswersMatch, MsgId
<1>8. ASSUME NEW m \in Aggregate, Expire(m)
      PROVE  AnswersMatch'
  <2>1. \A k \in Aggregate : dedup'[k] # 0 => dedup'[k] = dedup[k]
    BY <1>1, <1>8 DEF Expire, Forget
  <2> QED
    BY <1>2, <1>8, <2>1, QuietSeq DEF Expire
<1>9. CASE OnChange
  <2>1. \A lsn, c, row : BatchTask(lsn, c, row).stage = "queued"
    BY DEF BatchTask
  <2>2. \A t \in tasks' : t.stage = "mark" => t \in tasks
    BY <1>9, <2>1 DEF OnChange
  <2> QED
    BY <1>2, <1>9, <2>2, QuietSeq DEF OnChange
<1>10. ASSUME NEW t \in tasks, ProcessInserts(t)
       PROVE  AnswersMatch'
  <2>1. t \in Task /\ t.id \in Event
    BY DEF TypeOK, Task
  <2>2. CASE StartTask(t)
    <3>1. t.seen \in Row \cup {NoRow}
      BY <2>1 DEF Task
    <3>2. \A u \in tasks' : u.stage = "mark" => IsSeqIn(stream, u.seq, MsgId(u.id))
      BY <2>2, <3>1, FollowersSeq DEF StartTask
    <3> QED
      BY <1>2, <2>2, <3>2, QuietSeq DEF StartTask
  <2>3. CASE PublishAcked(t)
    <3> DEFINE u == [t EXCEPT !.stage = "mark", !.seq = AckSeq(stream, dedup, MsgId(t.id))]
    <3>1. Stores(t.id) /\ tasks' = (tasks \ {t}) \cup {u}
          /\ table' = table /\ strayStmts' = strayStmts
      BY <2>3 DEF PublishAcked, Becomes
    <3>2. u.id = t.id /\ u.seq = AckSeq(stream, dedup, MsgId(t.id))
      BY <2>1 DEF Task
    <3>3. /\ \A n \in Nat, m \in Aggregate : IsSeqIn(stream, n, m) => IsSeqIn(stream', n, m)
          /\ IsSeqIn(stream', u.seq, MsgId(u.id))
          /\ \A m \in Aggregate : dedup'[m] # 0 => IsSeqIn(stream', dedup'[m], m)
      BY <2>1, <3>1, <3>2, StoresSeq
    <3>4. \A v \in tasks : v.id \in Event /\ v.seq \in Nat
      BY DEF TypeOK, Task
    <3>5. \A s \in strayStmts : s.id \in Event /\ s.seq \in Nat
      BY DEF TypeOK, Statement
    <3>6. \A f \in Event : table[f].seq \in Nat
      BY <1>1 DEF Table, Row, NoRow
    <3> HIDE DEF u
    <3>7. \A v \in tasks' : v.stage = "mark" => IsSeqIn(stream', v.seq, MsgId(v.id))
      BY <1>2, <1>3, <3>1, <3>3, <3>4
    <3> QED
      BY <1>2, <1>3, <3>1, <3>3, <3>5, <3>6, <3>7 DEF AnswersMatch, MsgId
  <2>4. CASE PublishFails(t)
    BY <1>2, <2>4, FollowersSeq, QuietSeq DEF PublishFails
  <2>5. CASE MarkReplied(t)
    <3>1. MarkStatement(t) \in Statement /\ MarkStatement(t).id = t.id
          /\ MarkStatement(t).seq = t.seq
      BY <2>1, TaskType, ReaderAssumption DEF MarkStatement
    <3> QED
      BY <1>2, <1>5, <2>5, <3>1 DEF MarkReplied
  <2>6. CASE MarkErrs(t)
    <3>1. \A u \in tasks' : u.stage = "mark" => IsSeqIn(stream, u.seq, MsgId(u.id))
      BY <1>2, <2>6, FollowersSeq DEF MarkErrs, Becomes
    <3>2. \A s \in strayStmts' : s.op = "PROCESSED" => IsSeqIn(stream, s.seq, MsgId(s.id))
      BY <1>2, <2>6, FollowersSeq DEF MarkErrs, StatementErrs
    <3> QED
      BY <1>2, <2>6, <3>1, <3>2, QuietSeq DEF MarkErrs, StatementErrs
  <2> QED
    BY <1>10, <2>2, <2>3, <2>4, <2>5, <2>6 DEF ProcessInserts
<1>11. ASSUME NEW t \in tasks, RunRetry(t)
       PROVE  AnswersMatch'
  <2>1. t \in Task /\ t.id \in Event
    BY DEF TypeOK, Task
  <2>2. CASE RetryRuns(t)
    <3>1. FindUnprocessedById(table, t.id) \in Row \cup {NoRow}
      BY <1>1, <2>1, FindType
    <3>2. \A u \in tasks' : u.stage = "mark" => IsSeqIn(stream, u.seq, MsgId(u.id))
      BY <2>2, <3>1, FollowersSeq DEF RetryRuns
    <3> QED
      BY <1>2, <2>2, <3>2, QuietSeq DEF RetryRuns
  <2>3. CASE RetryReadErrs(t)
    BY <1>2, <2>3, FollowersSeq, QuietSeq DEF RetryReadErrs
  <2>4. CASE FailReplied(t)
    <3>1. FailStatement(t) \in Statement /\ FailStatement(t).op = "FAILED"
      BY <2>1, TaskType, ReaderAssumption DEF FailStatement
    <3> QED
      BY <1>5, <2>4, <3>1 DEF FailReplied
  <2>5. CASE FailErrs(t)
    <3>1. \A u \in tasks' : u.stage = "mark" => IsSeqIn(stream, u.seq, MsgId(u.id))
      BY <1>2, <2>5, FollowersSeq DEF FailErrs, Becomes
    <3>2. \A s \in strayStmts' : s.op = "PROCESSED" => IsSeqIn(stream, s.seq, MsgId(s.id))
      BY <1>2, <2>5, FollowersSeq DEF FailErrs, StatementErrs
    <3> QED
      BY <1>2, <2>5, <3>1, <3>2, QuietSeq DEF FailErrs, StatementErrs
  <2> QED
    BY <1>11, <2>2, <2>3, <2>4, <2>5 DEF RunRetry
<1>12. CASE Crash
  <2>1. \A t \in tasks : StatementOf(t).op = "PROCESSED" =>
          IsSeqIn(stream, StatementOf(t).seq, MsgId(StatementOf(t).id))
    BY FollowersSeq
  <2>2. \A s \in strayStmts' : s.op = "PROCESSED" => IsSeqIn(stream, s.seq, MsgId(s.id))
    BY <1>2, <1>12, <2>1 DEF Crash
  <2>3. tasks' = {} /\ table' = table /\ stream' = stream /\ dedup' = dedup
    BY <1>12 DEF Crash
  <2> QED
    BY <2>2, <2>3, QuietSeq
<1>13. CASE UNCHANGED <<table, tasks, stream, dedup, strayStmts>>
  BY <1>2, <1>13, QuietSeq
<1>14. OnChangeDone \/ Acknowledge \/ UNCHANGED vars =>
         UNCHANGED <<table, tasks, stream, dedup, strayStmts>>
  BY DEF OnChangeDone, Acknowledge, vars
<1> QED
  BY <1>4, <1>6, <1>7, <1>8, <1>9, <1>10, <1>11, <1>12, <1>13, <1>14 DEF Next

LEMMA AnswersInvariant == Spec => []AnswersMatch
<1>1. Init => AnswersMatch
  BY DEF Init, AnswersMatch, NoRow
<1>2. TypeOK /\ AnswersMatch /\ [Next]_vars => AnswersMatch'
  BY NextSeq
<1> QED
  BY <1>1, <1>2, TypeCorrect, PTL DEF Spec

(* The number kept with a PROCESSED row is that of a stored message that    *)
(* has the row's message id, however many duplicates, retries and late      *)
(* answers came between.                                                    *)
THEOREM RecordedSeqCorrect == Spec => []RecordedSeqMatches
<1>1. AnswersMatch => RecordedSeqMatches
  BY DEF AnswersMatch, RecordedSeqMatches, IsSeqIn
<1> QED
  BY <1>1, AnswersInvariant, PTL

(* With a message id per event, PROCESSED means delivered.  The hypothesis  *)
(* is not idle: nats-publisher.ts:70 makes the id of the aggregate's.       *)
THEOREM ProcessedDelivered ==
  ASSUME \A e, f \in Event : MsgId(e) = MsgId(f) => e = f
  PROVE  Spec => []ProcessedIsPublished
<1>1. TypeOK /\ AnswersMatch => ProcessedIsPublished
  <2> SUFFICES ASSUME TypeOK, AnswersMatch, NEW e \in Event, table[e].status = "PROCESSED"
               PROVE  \E i \in 1 .. Len(stream) : stream[i] = e
    BY DEF ProcessedIsPublished
  <2>1. IsSeqIn(stream, table[e].seq, MsgId(e))
    BY DEF AnswersMatch
  <2>2. stream[table[e].seq] \in Event
    BY <2>1 DEF IsSeqIn, TypeOK
  <2> QED
    BY <2>1, <2>2 DEF IsSeqIn
<1> QED
  BY <1>1, TypeCorrect, AnswersInvariant, PTL

-------------------------------------------------------------------------------
\* Acknowledgements.

LEMMA NextUnacknowledged ==
  ASSUME TypeOK, BatchIsUnacknowledged, [Next]_vars
  PROVE  BatchIsUnacknowledged'
<1> USE DEF slot, server, strays, counts
<1>1. \A u \in tasks : u.origin = "batch" => busy /\ u.lsn = handled + 1 /\ confirmed < u.lsn
  BY DEF BatchIsUnacknowledged
<1> DEFINE Follows(u) == u.origin = "batch" =>
                           \E t \in tasks : t.origin = "batch" /\ t.lsn = u.lsn
<1>2. ASSUME UNCHANGED slot, \A u \in tasks' : Follows(u)
      PROVE  BatchIsUnacknowledged'
  BY <1>1, <1>2 DEF BatchIsUnacknowledged
<1>3. ASSUME NEW t \in tasks
      PROVE  /\ \A u \in AfterFailure(t) : Follows(u)
             /\ \A row \in Row \cup {NoRow} : \A u \in AfterRead(t, row) : Follows(u)
             /\ \A seq : Follows([t EXCEPT !.stage = "mark", !.seq = seq])
             /\ Follows([t EXCEPT !.tries = @ + 1])
  <2>1. t \in Task
    BY DEF TypeOK
  <2>2. \A n : Scheduled(t, n).origin = "queue"
    BY <2>1 DEF Scheduled, Task
  <2>3. Exhausted(t) => Failing(t).origin = "queue"
    BY <2>1 DEF Exhausted, Failing, Task
  <2>4. \A u \in AfterFailure(t) : Follows(u)
    BY <2>2, <2>3 DEF AfterFailure, Becomes
  <2>5. \A row : LET u == [t EXCEPT !.stage = "publish", !.seen = row]
                 IN  u.origin = t.origin /\ u.lsn = t.lsn
    BY <2>1 DEF Task
  <2>6. \A row \in Row \cup {NoRow} : \A u \in AfterRead(t, row) : Follows(u)
    BY <2>5 DEF AfterRead, Becomes
  <2>7. \A seq : LET u == [t EXCEPT !.stage = "mark", !.seq = seq]
                 IN  u.origin = t.origin /\ u.lsn = t.lsn
    BY <2>1 DEF Task
  <2>8. LET u == [t EXCEPT !.tries = @ + 1] IN u.origin = t.origin /\ u.lsn = t.lsn
    BY <2>1 DEF Task
  <2> QED
    BY <2>4, <2>6, <2>7, <2>8
<1>4. \A t \in tasks : Follows(t)
  OBVIOUS
<1> HIDE DEF Follows
<1>5. ASSUME NEW t \in tasks, ProcessInserts(t)
      PROVE  BatchIsUnacknowledged'
  <2>1. t.seen \in Row \cup {NoRow}
    BY DEF TypeOK, Task
  <2>2. \A u \in tasks' : Follows(u)
    <3>1. CASE StartTask(t)
      BY <1>3, <2>1, <3>1 DEF StartTask
    <3>2. CASE PublishAcked(t)
      BY <1>3, <1>4, <3>2 DEF PublishAcked, Becomes
    <3>3. CASE PublishFails(t)
      BY <1>3, <3>3 DEF PublishFails
    <3>4. CASE MarkReplied(t)
      BY <1>4, <3>4 DEF MarkReplied
    <3>5. CASE MarkErrs(t)
      BY <1>3, <1>4, <3>5 DEF MarkErrs, Becomes
    <3> QED
      BY <1>5, <3>1, <3>2, <3>3, <3>4, <3>5 DEF ProcessInserts
  <2>3. UNCHANGED slot
    BY <1>5 DEF ProcessInserts, StartTask, PublishAcked, PublishFails, MarkReplied, MarkErrs,
       StatementErrs
  <2> QED
    BY <1>2, <2>2, <2>3
<1>6. ASSUME NEW t \in tasks, RunRetry(t)
      PROVE  BatchIsUnacknowledged'
  <2>1. FindUnprocessedById(table, t.id) \in Row \cup {NoRow}
    BY FindType DEF TypeOK, Table, Task
  <2>2. \A u \in tasks' : Follows(u)
    BY <1>3, <1>4, <1>6, <2>1 DEF RunRetry, RetryRuns, RetryReadErrs, FailReplied, FailErrs,
       Becomes
  <2>3. UNCHANGED slot
    BY <1>6 DEF RunRetry, RetryRuns, RetryReadErrs, FailReplied, FailErrs, StatementErrs
  <2> QED
    BY <1>2, <2>2, <2>3
<1>7. CASE OnChange
  <2>1. \A lsn, c, row : BatchTask(lsn, c, row).lsn = lsn
    BY DEF BatchTask
  <2>2. \A u \in tasks' : u.origin = "batch" => u.lsn = handled + 1
    <3>1. \A u \in tasks : u.origin # "batch"
      BY <1>1, <1>7 DEF OnChange
    <3> SUFFICES ASSUME NEW u \in tasks', u \notin tasks
                 PROVE  u.lsn = handled + 1
      BY <3>1
    <3>2. \E c, row : u = BatchTask(handled + 1, c, row)
      BY <1>7 DEF OnChange
    <3> QED
      BY <2>1, <3>2
  <2>3. busy' = TRUE /\ handled' = handled /\ confirmed' = confirmed
    BY <1>7 DEF OnChange
  <2>4. confirmed < handled + 1
    BY DEF TypeOK
  <2> QED
    BY <2>2, <2>3, <2>4 DEF BatchIsUnacknowledged
<1>8. CASE OnChangeDone
  <2>1. \A t \in tasks' : t.origin # "batch"
    BY <1>8 DEF OnChangeDone
  <2> QED
    BY <2>1 DEF BatchIsUnacknowledged
<1>9. CASE Acknowledge
  BY <1>1, <1>9 DEF Acknowledge, BatchIsUnacknowledged, TypeOK
<1>10. CASE Crash
  BY <1>10 DEF Crash, BatchIsUnacknowledged
<1>11. CASE UNCHANGED <<slot, tasks>>
  BY <1>2, <1>4, <1>11
<1>12. /\ \A S \in SUBSET Event : CommitEvents(S) => UNCHANGED <<slot, tasks>>
       /\ \A s \in strayStmts : StrayExecuted(s) => UNCHANGED <<slot, tasks>>
       /\ \A e \in strayMsgs : StrayStored(e) => UNCHANGED <<slot, tasks>>
       /\ \A m \in Aggregate : Expire(m) => UNCHANGED <<slot, tasks>>
       /\ UNCHANGED vars => UNCHANGED <<slot, tasks>>
  BY DEF CommitEvents, StrayExecuted, StrayStored, Expire, vars
<1> QED
  BY <1>5, <1>6, <1>7, <1>8, <1>9, <1>10, <1>11, <1>12 DEF Next

(* The slot never confirms a transaction one of whose records is still in   *)
(* the batch.                                                               *)
THEOREM BatchUnacknowledged == Spec => []BatchIsUnacknowledged
<1>1. Init => BatchIsUnacknowledged
  BY DEF Init, BatchIsUnacknowledged
<1>2. TypeOK /\ BatchIsUnacknowledged /\ [Next]_vars => BatchIsUnacknowledged'
  BY NextUnacknowledged
<1> QED
  BY <1>1, <1>2, TypeCorrect, PTL DEF Spec
================================================================================
