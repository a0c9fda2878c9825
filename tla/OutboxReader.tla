------------------------------ MODULE OutboxReader ------------------------------
(***************************************************************************)
(* The outbox-reader service (packages/core/src/app.ts) with everything it *)
(* reads and writes: the outbox table, the WAL its replication slot        *)
(* replays, and the JetStream stream it publishes to.                      *)
(*                                                                         *)
(* Clients commit transactions that insert rows into the outbox table.     *)
(* Each committed transaction reaches the service's onChange, which reads  *)
(* the rows back and, for each one, publishes a message and marks the row  *)
(* PROCESSED.  A record whose publish or mark fails goes to an in-memory   *)
(* retry queue; the transaction is acknowledged to the slot all the same.  *)
(* A record whose retries are exhausted is marked FAILED.                  *)
(*                                                                         *)
(* A task is one call of processInserts together with what called it: the  *)
(* onChange batch, or an entry of the retry queue.  Tasks interleave at    *)
(* every await.  A request whose reply never came (an error, or a crash of *)
(* the service) is a stray: the server may still carry it out, at any      *)
(* later moment, or never.                                                 *)
(*                                                                         *)
(* Left out: record payloads, logging and metrics, the delays of timers    *)
(* (a timer fires at any time), the health server, and the shutdown        *)
(* sequence, whose effect on this state is that of Crash.                  *)
(***************************************************************************)
EXTENDS OutboxTable, JetStream, FiniteSets

CONSTANTS
  Aggregate,          \* the aggregate ids
  AggregateOf,        \* the aggregate an event belongs to
  PoolSize,           \* config.dbPoolSize, the concurrency of a batch
  NumOfAttempts,      \* retryQueueConfig.numOfAttempts
  DbNumOfAttempts,    \* dbWriteRetryConfig.numOfAttempts
  MaxOutboxAttempts,  \* maxOutboxAttempts
  \* Bounds on the environment.
  MaxTransactions,    \* client transactions
  MaxCrashes,         \* crashes of the service
  MaxDbErrors,        \* statements that end in an error
  WindowExpires       \* whether the duplicate window ever forgets an id

ASSUME ReaderAssumption ==
  /\ AggregateOf \in [Event -> Aggregate]
  /\ PoolSize \in Nat \ {0}
  /\ NumOfAttempts \in Nat \ {0}
  /\ DbNumOfAttempts \in Nat \ {0}
  /\ MaxOutboxAttempts \in Nat
  /\ MaxTransactions \in Nat /\ MaxCrashes \in Nat /\ MaxDbErrors \in Nat
  /\ WindowExpires \in BOOLEAN

VARIABLES
  table,       \* the outbox table: event -> row
  wal,         \* the committed transactions, in commit order, as sets of changes
  confirmed,   \* the slot's position: wal[1..confirmed] is never sent again
  handled,     \* how far this process is: onChange returned for wal[1..handled]
  busy,        \* whether onChange is running, for wal[handled + 1]
  resumed,     \* the slot's position when this process started: where it began
  tasks,       \* the calls of processInserts under way, waiting or to be retried
  stream,      \* the messages JetStream stored, each the event it carries
  dedup,       \* the duplicate window: message id -> sequence number or 0
  strayMsgs,   \* events published without an answer
  strayStmts,  \* updates sent without an answer
  transactions, crashes, dbErrors    \* counted against their bounds

server  == <<stream, dedup>>
strays  == <<strayMsgs, strayStmts>>
slot    == <<confirmed, handled, busy, resumed>>
counts  == <<transactions, crashes, dbErrors>>
vars    == <<table, wal, confirmed, handled, busy, resumed, tasks, stream, dedup,
             strayMsgs, strayStmts, transactions, crashes, dbErrors>>

-------------------------------------------------------------------------------
\* The changes of a transaction as wal2json reports them.

OutboxChange(kind, e, attempts) ==
  [table |-> "outbox", kind |-> kind, id |-> e, attempts |-> attempts]

OutboxChanges == [table : {"outbox"}, kind : {"insert", "update", "delete"},
                  id : Event, attempts : Nat]

\* The change a client makes to a table of its own in the same transaction.
DomainChange == [table |-> "orders", kind |-> "insert"]

Change == OutboxChanges \cup {DomainChange}

\* Faulty (mutation runs): without the test of the kind of change.
AllOutboxChanges(log) == {c \in log : c.table = "outbox"}

filterChanges(log) == {c \in log : c.table = "outbox" /\ c.kind = "insert"}

-------------------------------------------------------------------------------
\* Tasks.

Task == [lsn     : Nat \ {0},               \* the transaction that brought it
         id      : Event,
         base    : Nat,                     \* attempts as the WAL record has it
         origin  : {"batch", "queue"},
         attempt : 0 .. NumOfAttempts - 1,  \* QueueEntry.attempt
         stage   : {"queued", "publish", "mark", "timer", "failing"},
         seen    : Row \cup {NoRow},        \* the row processInserts works on
         seq     : Nat,                     \* the publisher's answer
         tries   : 0 .. DbNumOfAttempts - 1]  \* failed tries of the UPDATE

BatchTask(lsn, c, row) ==
  [lsn |-> lsn, id |-> c.id, base |-> c.attempts, origin |-> "batch",
   attempt |-> 0, stage |-> "queued", seen |-> row, seq |-> 0, tries |-> 0]

\* RetryQueue.schedule
Scheduled(t, attempt) ==
  [t EXCEPT !.origin = "queue", !.attempt = attempt, !.stage = "timer",
            !.seen = NoRow, !.seq = 0, !.tries = 0]

Failing(t) == [t EXCEPT !.stage = "failing", !.seen = NoRow, !.seq = 0, !.tries = 0]

MsgId(e) == AggregateOf[e]

\* Faulty (mutation runs): the sequence number of the row, not of the answer.
MarkWithRowSeq(t) ==
  [op |-> "PROCESSED", id |-> t.id, attempts |-> t.seen.attempts, seq |-> t.seen.seq]

\* The markAsProcessed of processInserts, and the markAsFailed of RetryQueue.run,
\* which goes by the WAL record's attempts.
MarkStatement(t) ==
  [op |-> "PROCESSED", id |-> t.id, attempts |-> t.seen.attempts, seq |-> t.seq]

\* Faulty (mutation runs): the row's present attempts.
FailWithFreshAttempts(t) ==
  [op |-> "FAILED", id |-> t.id, attempts |-> table[t.id].attempts, seq |-> 0]

FailStatement(t) ==
  [op |-> "FAILED", id |-> t.id, attempts |-> t.base, seq |-> 0]

StatementOf(t) == IF t.stage = "mark" THEN MarkStatement(t) ELSE FailStatement(t)

Active(t) == t.origin = "batch" /\ t.stage \in {"publish", "mark"}

Becomes(t, u) == (tasks \ {t}) \cup {u}

\* Faulty (mutation runs): one attempt too few.
SkippedOffByOne(row) ==
  row.status \in {"NONE", "PROCESSED"} \/ row.attempts + 1 >= MaxOutboxAttempts

\* What processInserts does once it has the row: a record that is gone, done or
\* out of attempts is skipped, any other is published.
Skipped(row) ==
  row.status \in {"NONE", "PROCESSED"} \/ row.attempts >= MaxOutboxAttempts

AfterRead(t, row) ==
  IF Skipped(row) THEN tasks \ {t}
  ELSE Becomes(t, [t EXCEPT !.stage = "publish", !.seen = row])

\* Faulty (mutation runs): the queue never gives up.
NeverExhausted(t) == FALSE

Exhausted(t) == t.origin = "queue" /\ t.attempt + 1 >= NumOfAttempts

\* Faulty (mutation runs): the error is logged and the record forgotten.
AfterFailureForgotten(t) == tasks \ {t}

\* What the caller does when processInserts throws: onChange hands the record
\* to the retry queue, the queue tries again or gives up.
AfterFailure(t) ==
  Becomes(t, IF Exhausted(t) THEN Failing(t)
             ELSE Scheduled(t, IF t.origin = "batch" THEN 0 ELSE t.attempt + 1))

-------------------------------------------------------------------------------
TypeOK ==
  /\ table \in [Event -> Row \cup {NoRow}]
  /\ wal \in Seq(SUBSET Change)
  /\ confirmed \in Nat /\ handled \in Nat /\ busy \in BOOLEAN /\ resumed \in Nat
  /\ resumed <= confirmed /\ confirmed <= handled /\ handled <= Len(wal)
  /\ busy => handled < Len(wal)
  /\ tasks \subseteq Task
  /\ stream \in Seq(Event)
  /\ dedup \in [Aggregate -> Nat]
  /\ strayMsgs \subseteq Event
  /\ strayStmts \subseteq Statement
  /\ transactions \in Nat /\ crashes \in Nat /\ dbErrors \in Nat

Init ==
  /\ table = [e \in Event |-> NoRow]
  /\ wal = << >>
  /\ confirmed = 0 /\ handled = 0 /\ busy = FALSE /\ resumed = 0
  /\ tasks = {}
  /\ stream = << >>
  /\ dedup = [m \in Aggregate |-> 0]
  /\ strayMsgs = {} /\ strayStmts = {}
  /\ transactions = 0 /\ crashes = 0 /\ dbErrors = 0

-------------------------------------------------------------------------------
\* PostgreSQL and the clients.

(* A client transaction: a change of its own and the outbox rows of S.      *)
CommitEvents(S) ==
  /\ transactions < MaxTransactions
  /\ \A e \in S : ~Exists(table, e)
  /\ table' = [e \in Event |-> IF e \in S THEN NewRow ELSE table[e]]
  /\ wal' = Append(wal, {DomainChange}
                          \cup {OutboxChange("insert", e, NewRow.attempts) : e \in S})
  /\ transactions' = transactions + 1
  /\ UNCHANGED <<slot, tasks, server, strays, crashes, dbErrors>>

(* PostgreSQL executes an UPDATE.  The change it makes is itself committed  *)
(* to the WAL, and onChange will see it.                                    *)
Executes(s) ==
  /\ table' = Execute(table, s)
  /\ wal' = IF Execute(table, s) = table THEN wal
            ELSE Append(wal, {OutboxChange("update", s.id,
                                           Execute(table, s)[s.id].attempts)})

(* An UPDATE the service has no answer for is executed after all.           *)
StrayExecuted(s) ==
  /\ s \in strayStmts
  /\ Executes(s)
  /\ strayStmts' = strayStmts \ {s}
  /\ UNCHANGED <<slot, tasks, server, strayMsgs, counts>>

-------------------------------------------------------------------------------
\* JetStream.

Stores(e) ==
  /\ stream' = StreamAfter(stream, dedup, MsgId(e), e)
  /\ dedup'  = DedupAfter(stream, dedup, MsgId(e))

(* A publish the service has no answer for arrives after all.               *)
StrayStored(e) ==
  /\ e \in strayMsgs
  /\ Stores(e)
  /\ strayMsgs' = strayMsgs \ {e}
  /\ UNCHANGED <<table, wal, slot, tasks, strayStmts, counts>>

Expire(m) ==
  /\ WindowExpires
  /\ dedup[m] # 0
  /\ dedup' = Forget(dedup, m)
  /\ UNCHANGED <<table, wal, slot, tasks, stream, strays, counts>>

-------------------------------------------------------------------------------
\* The onChange handler and the replication service that calls it.

(* onChange begins: it filters the transaction's changes, reads their rows  *)
(* with one SELECT and queues one task per record.  The replication service *)
(* calls it for one transaction at a time (flowControl).                    *)
OnChange ==
  LET log  == wal[handled + 1]
      ids  == {c.id : c \in filterChanges(log)}
      rows == FindUnprocessedByIds(table, ids)
  IN  /\ ~busy
      /\ handled < Len(wal)
      /\ busy' = TRUE
      /\ tasks' = tasks \cup {BatchTask(handled + 1, c, rows[c.id]) :
                                c \in filterChanges(log)}
      /\ UNCHANGED <<table, wal, confirmed, handled, resumed, server, strays, counts>>

\* Faulty (mutation runs): onChange does not await pAll.
OnChangeDoneEarly ==
  /\ busy
  /\ busy' = FALSE
  /\ handled' = handled + 1
  /\ UNCHANGED <<table, wal, confirmed, resumed, tasks, server, strays, counts>>

(* pAll settles when no task of the batch is left: a failed one has left    *)
(* for the retry queue.                                                     *)
OnChangeDone ==
  /\ busy
  /\ \A t \in tasks : t.origin # "batch"
  /\ busy' = FALSE
  /\ handled' = handled + 1
  /\ UNCHANGED <<table, wal, confirmed, resumed, tasks, server, strays, counts>>

\* Faulty (mutation runs): only transactions with outbox inserts are acknowledged.
AcknowledgeInserts ==
  /\ confirmed < handled
  /\ filterChanges(wal[handled]) # {}
  /\ confirmed' = handled
  /\ UNCHANGED <<table, wal, handled, busy, resumed, tasks, server, strays, counts>>

(* The automatic acknowledgement reaches the server.                        *)
Acknowledge ==
  /\ confirmed < handled
  /\ confirmed' = handled
  /\ UNCHANGED <<table, wal, handled, busy, resumed, tasks, server, strays, counts>>

(* pAll starts a queued task when fewer than PoolSize are running, with the *)
(* row read when the batch began.                                           *)
StartTask(t) ==
  /\ t \in tasks /\ t.stage = "queued"
  /\ Cardinality({u \in tasks : Active(u)}) < PoolSize
  /\ tasks' = AfterRead(t, t.seen)
  /\ UNCHANGED <<table, wal, slot, server, strays, counts>>

-------------------------------------------------------------------------------
\* processInserts, for a task of the batch and of the retry queue alike.

PublishAcked(t) ==
  /\ t \in tasks /\ t.stage = "publish"
  /\ tasks' = Becomes(t, [t EXCEPT !.stage = "mark",
                                   !.seq = AckSeq(stream, dedup, MsgId(t.id))])
  /\ Stores(t.id)
  /\ UNCHANGED <<table, wal, slot, strays, counts>>

\* Faulty (mutation runs): publish logs the error and does not rethrow it.
PublishFailsSilently(t) ==
  /\ t \in tasks /\ t.stage = "publish"
  /\ tasks' = Becomes(t, [t EXCEPT !.stage = "mark"])
  /\ strayMsgs' = strayMsgs \cup {t.id}
  /\ UNCHANGED <<table, wal, slot, server, strayStmts, counts>>

(* No connection, an error or a timeout: the message may still arrive.      *)
PublishFails(t) ==
  /\ t \in tasks /\ t.stage = "publish"
  /\ tasks' = AfterFailure(t)
  /\ strayMsgs' = strayMsgs \cup {t.id}
  /\ UNCHANGED <<table, wal, slot, server, strayStmts, counts>>

MarkReplied(t) ==
  /\ t \in tasks /\ t.stage = "mark"
  /\ Executes(MarkStatement(t))
  /\ tasks' = tasks \ {t}
  /\ UNCHANGED <<slot, server, strays, counts>>

(* A try of the UPDATE ends in an error: it may have been, or may yet be,   *)
(* executed.  backOff tries again, until it has tried numOfAttempts times.  *)
StatementErrs(t) ==
  /\ dbErrors < MaxDbErrors
  /\ dbErrors' = dbErrors + 1
  /\ strayStmts' = strayStmts \cup {StatementOf(t)}
  /\ UNCHANGED <<table, wal, slot, server, strayMsgs, transactions, crashes>>

LastTry(t) == t.tries + 1 >= DbNumOfAttempts

MarkErrs(t) ==
  /\ t \in tasks /\ t.stage = "mark"
  /\ StatementErrs(t)
  /\ tasks' = IF LastTry(t) THEN AfterFailure(t)
              ELSE Becomes(t, [t EXCEPT !.tries = @ + 1])

-------------------------------------------------------------------------------
\* The retry queue.

(* A timer fires: run() reads the row anew and goes through processInserts. *)
RetryRuns(t) ==
  /\ t \in tasks /\ t.stage = "timer"
  /\ tasks' = AfterRead(t, FindUnprocessedById(table, t.id))
  /\ UNCHANGED <<table, wal, slot, server, strays, counts>>

RetryReadErrs(t) ==
  /\ t \in tasks /\ t.stage = "timer"
  /\ dbErrors < MaxDbErrors
  /\ dbErrors' = dbErrors + 1
  /\ tasks' = AfterFailure(t)
  /\ UNCHANGED <<table, wal, slot, server, strays, transactions, crashes>>

(* run() gives the record up: markAsFailed with the WAL record's attempts.  *)
FailReplied(t) ==
  /\ t \in tasks /\ t.stage = "failing"
  /\ Executes(FailStatement(t))
  /\ tasks' = tasks \ {t}
  /\ UNCHANGED <<slot, server, strays, counts>>

(* When markAsFailed throws nobody catches it, and the entry is gone.       *)
FailErrs(t) ==
  /\ t \in tasks /\ t.stage = "failing"
  /\ StatementErrs(t)
  /\ tasks' = IF LastTry(t) THEN tasks \ {t}
              ELSE Becomes(t, [t EXCEPT !.tries = @ + 1])

-------------------------------------------------------------------------------
(* The process ends, by a signal, a crash or a rejection nobody handles (of *)
(* onChange's SELECT, of markAsFailed), and is started again: it has lost   *)
(* its tasks, and the slot resumes after the last confirmed transaction.    *)
Crash ==
  /\ crashes < MaxCrashes
  /\ crashes' = crashes + 1
  /\ tasks' = {}
  /\ busy' = FALSE
  /\ handled' = confirmed
  /\ resumed' = confirmed
  /\ strayMsgs' = strayMsgs \cup {t.id : t \in {u \in tasks : u.stage = "publish"}}
  /\ strayStmts' = strayStmts \cup
       {StatementOf(t) : t \in {u \in tasks : u.stage \in {"mark", "failing"}}}
  /\ UNCHANGED <<table, wal, confirmed, server, transactions, dbErrors>>

-------------------------------------------------------------------------------
ProcessInserts(t) ==
  \/ StartTask(t)
  \/ PublishAcked(t)
  \/ PublishFails(t)
  \/ MarkReplied(t)
  \/ MarkErrs(t)

RunRetry(t) ==
  \/ RetryRuns(t)
  \/ RetryReadErrs(t)
  \/ FailReplied(t)
  \/ FailErrs(t)

Next ==
  \/ \E S \in SUBSET Event : CommitEvents(S)
  \/ \E s \in strayStmts : StrayExecuted(s)
  \/ \E e \in strayMsgs : StrayStored(e)
  \/ \E m \in Aggregate : Expire(m)
  \/ OnChange
  \/ OnChangeDone
  \/ Acknowledge
  \/ \E t \in tasks : ProcessInserts(t)
  \/ \E t \in tasks : RunRetry(t)
  \/ Crash

Spec == Init /\ [][Next]_vars

(* The replication service goes on calling onChange, and each task goes on: *)
(* timers fire, and a publish or an UPDATE ends, in an answer or an error.  *)
(* Nothing is asked of the clients, of strays, of the window or of crashes. *)
Fairness ==
  /\ WF_vars(OnChange)
  /\ WF_vars(OnChangeDone)
  /\ WF_vars(Acknowledge)
  /\ \A e \in Event : WF_vars(\E t \in tasks : t.id = e
                                 /\ (ProcessInserts(t) \/ RunRetry(t)))

FairSpec == Spec /\ Fairness
-------------------------------------------------------------------------------
\* Safety.

InsertedAt(e, i) == \E c \in filterChanges(wal[i]) : c.id = e

LatestInsert(e, i) ==
  InsertedAt(e, i) /\ \A j \in i + 1 .. Len(wal) : ~InsertedAt(e, j)

(* Each UPDATE is guarded by the attempts the sender believed the row to    *)
(* have (outbox-repository.ts:204, 226), and those guards are all that      *)
(* orders them.  A belief is harmless when it cannot match a PROCESSED row, *)
(* now or later: it never exceeds the row's attempts, and is below them     *)
(* once the row is PROCESSED.                                               *)
Harmless(e, attempts) ==
  /\ Exists(table, e)
  /\ attempts <= table[e].attempts
  /\ table[e].status = "PROCESSED" => attempts < table[e].attempts

TaskIsHarmless(t) ==
  /\ Harmless(t.id, t.base)
  /\ t.seen # NoRow => Harmless(t.id, t.seen.attempts)
  /\ t.stage \in {"publish", "mark"} => t.seen # NoRow

(* Every belief an UPDATE may yet carry is harmless: that of a WAL insert,  *)
(* which may be redelivered; of a task's WAL record and of the row it works *)
(* on, read before its awaits; and of an UPDATE left without an answer.     *)
BeliefsAreHarmless ==
  /\ \A i \in 1 .. Len(wal) : \A c \in filterChanges(wal[i]) :
       Harmless(c.id, c.attempts)
  /\ \A t \in tasks : TaskIsHarmless(t)
  /\ \A s \in strayStmts : Harmless(s.id, s.attempts)

(* A PROCESSED row is never changed again: not by a late UPDATE of an       *)
(* earlier try, by a retry that started before it, or by the FAILED mark of *)
(* a task that lost its answer.                                             *)
ProcessedIsFinal ==
  [][\A e \in Event : table[e].status = "PROCESSED" => table'[e] = table[e]]_vars

(* The sequence number of a PROCESSED row is that of a stored message with  *)
(* the row's message id.                                                    *)
RecordedSeqMatches ==
  \A e \in Event : table[e].status = "PROCESSED" =>
    /\ table[e].seq \in 1 .. Len(stream)
    /\ MsgId(stream[table[e].seq]) = MsgId(e)

(* What examples/prisma/index.ts:14-16 promises of a record that is done:   *)
(* its event has been delivered to the stream.                              *)
ProcessedIsPublished ==
  \A e \in Event : table[e].status = "PROCESSED" =>
    \E i \in 1 .. Len(stream) : stream[i] = e

(* A transaction is acknowledged only when each of its records has been     *)
(* processed or is in the retry queue.                                      *)
BatchIsUnacknowledged ==
  \A t \in tasks : t.origin = "batch" =>
    busy /\ t.lsn = handled + 1 /\ confirmed < t.lsn

(* No record is worked on twice at the same time, by the batch and the      *)
(* queue, or by two entries of the queue: the UPDATE of a row (which is a   *)
(* change of the outbox table too) and a redelivery start no second task.   *)
OneTaskPerRecord ==
  \A t, u \in tasks : t.id = u.id => t = u

(* The insert that made a row what it is, its latest, has yet to reach      *)
(* onChange, or a task it brought works on the row or waits to.             *)
InHands(e, i) ==
  \/ handled < i /\ (busy => i # handled + 1)
  \/ \E t \in tasks : t.id = e /\ t.lsn = i

(* The two ways to lose a PENDING row.  A restart forgets the retry queue,  *)
(* and the slot does not send again what was acknowledged: this process     *)
(* began after the insert.  Or each try of the row's FAILED mark ended in   *)
(* an error, and nobody catches the rejection (retry-queue.ts:71-82): the   *)
(* last try is a stray, and it would still change the row.                  *)
Forgotten(i) == i <= resumed

MarkIsLost(e) ==
  /\ dbErrors >= DbNumOfAttempts
  /\ \E s \in strayStmts : s.op = "FAILED" /\ s.id = e /\ s.attempts = table[e].attempts

(* A PENDING row is in somebody's hands, unless it was lost in one of those *)
(* two ways: no other order of batches, retries, acknowledgements, late     *)
(* UPDATEs and restarts leaves it without a task.                           *)
OwnedOrLost(e) ==
  \/ \E i \in 1 .. Len(wal) : LatestInsert(e, i) /\ (InHands(e, i) \/ Forgotten(i))
  \/ MarkIsLost(e)

PendingIsOwned ==
  \A e \in Event : table[e].status = "PENDING" => OwnedOrLost(e)

(* What attempts counts: outcomes, not failures.  markAsFailed compares it  *)
(* with the WAL record's (retry-queue.ts:73), so a FAILED row that is      *)
(* redelivered and fails again keeps its count, and no sequence of crashes  *)
(* and redeliveries takes a row that was inserted once beyond 2.            *)
AttemptsCountOutcomes ==
  \A e \in Event :
    /\ table[e].status \in {"NONE", "PENDING"} => table[e].attempts = 0
    /\ table[e].status = "FAILED" => table[e].attempts = 1
    /\ table[e].status = "PROCESSED" => table[e].attempts \in {1, 2}

(* core/README.md:16: on failure the attempt counter is incremented.  Not   *)
(* so for a FAILED row that is redelivered: see AttemptsCountOutcomes.      *)
FailureIsCounted ==
  [][\A t \in tasks :
       FailReplied(t) /\ table[t.id].status # "PROCESSED" =>
         table'[t.id].attempts = table[t.id].attempts + 1]_vars

-------------------------------------------------------------------------------
\* Liveness.

(* A row whose last task is gone for good, in one of the two ways above.   *)
Abandoned(e) ==
  /\ \A t \in tasks : t.id # e
  /\ MarkIsLost(e) \/ \E i \in 1 .. resumed : LatestInsert(e, i)

(* Every record is PROCESSED or FAILED in the end, in whatever order the    *)
(* answers come and whatever fails, but for the two losses above: none      *)
(* waits forever for a slot of the pool, a timer, a retry or a redelivery.  *)
EveryRecordSettles ==
  \A e \in Event :
    table[e].status = "PENDING"
      ~> table[e].status \in {"PROCESSED", "FAILED"} \/ Abandoned(e)

(* The slot catches up with the WAL and stays there: the service's own      *)
(* UPDATEs, which it reads back, do not keep it busy forever.               *)
SlotCatchesUp == <>[](confirmed = Len(wal))

================================================================================
