# Verification of outbox-reader

TLA+ modules, TLC runs and TLAPS proofs for the outbox-reader repository: a
service that reads the inserts of an `outbox` table from the PostgreSQL WAL and
publishes them to NATS JetStream, the client libraries that write the table, the
cron jobs that repair it and a setup tool.

Paths below are relative to `src/packages/`.

## 1. The system

### Components

| component | state | operations |
|---|---|---|
| outbox client (`client/src/outbox-client.ts`, `adapters/`) | none of its own | insert a `PENDING` row with 0 attempts inside the caller's transaction |
| outbox table | rows: status, attempts, sequence_number, payload | SELECTs and UPDATEs of `core/src/outbox-repository.ts` |
| replication slot and `core/src/replication.ts` | WAL, confirmed position | send the committed transactions in order, one `onChange` at a time (`flowControl`), acknowledge after each (`acknowledge.auto`) |
| service loop (`core/src/app.ts`) | the running batch, the shutdown flag | `onChange`: filter, one SELECT for all rows, `pAll` with `dbPoolSize` slots; shutdown |
| OutboxProcessor (`core/src/outbox-processor.ts`) | none | `filterChanges`; `processInserts`: read or take the row, skip, publish, mark |
| RetryQueue (`core/src/retry-queue.ts`) | timers, in memory only | `enqueue`, `schedule`, `run`, `stop` |
| NATSPublisher (`core/src/nats-publisher.ts`) | the connection | `connect`, `publish` (message id = aggregate id), `close` |
| JetStream | the stream, the duplicate window (2 minutes) | store or recognise a duplicate, answer with a sequence number |
| check-pending-events (`core/src/cronjobs/`) | the rows it selected, the last sequence number, the rows to fail | compare recent PENDING rows with the stream by position; mark PROCESSED or FAILED |
| reprocess-failed-events (`core/src/cronjobs/`) | the batch it selected | delete FAILED rows and insert them again as PENDING |
| column naming (`core/src/utils/column-naming.ts`, the same in `cli/`) | none | names of table and columns in three styles |
| cli (`cli/src/`) | `schema.prisma`, the replication slot, the table | create slot, migration, schema; install the client |
| publisher configuration and factory (`core/src/publisher-config.ts`, `publisher-factory.ts`) | none | load the file, refuse an unknown provider, create the publisher |
| configuration, health, logging, metrics, telemetry | none the rest reads | - |

### Interactions

Clients and service share only the table and the WAL. Inside the service,
everything runs on one event loop: `onChange` (at most one), up to
`dbPoolSize` calls of `processInserts` under it, and any number of retry runs
started by timers interleave at their `await`s. They share rows, the connection
and the retry queue. The cron jobs are processes of their own that share the
table and the stream with the service.

### What is hard

* A row is read, its message published and the row updated in three separate
  requests; each may fail, be answered late, or have been carried out although
  the caller saw an error.
* The only thing that orders UPDATEs of a row is `attempts = $n` in their WHERE
  clause, with values read at different times: at the insert, before the batch,
  before a retry. A WHERE clause that matches nothing is reported as success.
* The transaction is acknowledged to the slot when each record is processed *or in
  the in-memory retry queue*.
* The duplicate window recognises an aggregate id, not an event id.
* The service's own UPDATEs are committed to the WAL it reads.
* The cron jobs update the same rows, partly without a guard, by what they read
  before an await; they match messages with rows by position.
* The shutdown closes the connection and the pool while retries may be running, and
  a signal may come at any point of the start.
* The commands of the cli look and then create.
* Names are derived in four places, and PostgreSQL folds the unquoted ones.

`PROJECT.json` lists each hazard at the line where it bites, with the properties
that cover it, or a note on why none does.

### What makes each component correct

* service and repository: a PROCESSED row is final and was published; its sequence
  number is its message's; a PENDING row is in somebody's hands, and settles, unless a
  restart forgot it after its acknowledgement or every try of its FAILED mark was lost.
* replication: nothing is acknowledged that a crash would lose out of the batch;
  the slot catches up.
* publisher and JetStream: an answered publish has put the event, not just a message of
  its id, into the stream; the sequence number of the answer is that of a message with
  the record's id.
* retry queue: at most one task per record; no more than `numOfAttempts` runs.
* check-pending: a record is marked PROCESSED only if its own message is in the
  stream, FAILED only if it is PENDING.
* reprocess: only FAILED records become PENDING again, none is lost.
* connection and shutdown: one session at a time; after replication and queue are
  stopped work only drains; a signal ends the process.
* cli and naming: a setup that succeeds leaves a slot, the schema has one model, and
  a service configured as the migration was finds and reads the table.

## 2. Modules

| module | content |
|---|---|
| `OutboxTable` | the rows and each SQL statement on them as an operator (`outbox-repository.ts`) |
| `JetStream` | stream and duplicate window as operators; external, as `publish` uses them |
| `OutboxReader` | the service: table, WAL, slot, batch, retry queue, stream, lost requests, crash and restart; properties |
| `OutboxDelivery` | abstract specification: what the outbox pattern promises of an event |
| `OutboxReaderRefines` | `OutboxReader` implements `OutboxDelivery`: the refinement mapping |
| `OutboxReaderProofs` | theorems about `OutboxReader`: types, PROCESSED rows, the stream |
| `OutboxOwnershipProofs` | theorems about `OutboxReader`: attempts, tasks, ownership of PENDING rows |
| `OutboxDeliveryProofs` | proof that `OutboxReader` implements `OutboxDelivery` |
| `OutboxSystemProofs` | theorems about `OutboxSystem` |
| `ServiceLifecycleProofs` | theorems about `ServiceLifecycle` |
| `ProvisioningProofs` | theorems about `Provisioning`, and lemmas about names |
| `OutboxSystem` | extends `OutboxReader` by the two cron jobs, each a process of its own |
| `ServiceLifecycle` | start and shutdown of `app.ts` with connection, retry queue and pool |
| `Naming` | the names of table and columns, and what service and client make of them: operators only |
| `Provisioning` | the commands of the cli, run by several processes at once |
| `MCOutboxReader`, `MCOutboxSystem`, `MCProvisioning` | instances for TLC |

`OutboxSystem` composes everything that touches the outbox table and the stream.
`ServiceLifecycle` looks at the same service from the side of its resources: a job
there is a task of `OutboxReader` of which only the resource it waits for is kept, so
that signals, sessions and the pool can be interleaved with it.

### State and code

| variable | code |
|---|---|
| `table` | the outbox table; an absent row has status `NONE` |
| `wal`, `confirmed` | committed transactions as sets of wal2json changes; the slot's `confirmed_flush_lsn` |
| `handled`, `busy` | how far this process is; whether `onChange` is running |
| `resumed` | the slot's position when this process started: what was confirmed before is not sent to it |
| `tasks` | one record per call of `processInserts` that is queued in `pAll`, running, or waiting in the retry queue |
| `stream`, `dedup` | JetStream |
| `strayMsgs`, `strayStmts` | requests without an answer that the server may still carry out |
| `transactions`, `crashes`, `dbErrors` | counters of the bounds |

A task goes through the stages `queued` (in `pAll`), `publish` (a publish is under
way), `mark` (the UPDATE to PROCESSED is under way), `timer` (in the retry queue)
and `failing` (the UPDATE to FAILED is under way). `seen` is the row it works on,
`base` the attempts of its WAL record, `attempt` the queue's 0-indexed attempt,
`tries` the failed tries of `backOff`.

| action | code |
|---|---|
| `CommitEvents` | a client transaction with `OutboxClient.create` |
| `OnChange`, `StartTask`, `OnChangeDone` | `app.ts:135-168` |
| `PublishAcked`, `PublishFails` | `nats-publisher.ts:53-97` and the `catch` of the caller |
| `MarkReplied`, `MarkErrs` | `outbox-processor.ts:70-82`, `outbox-repository.ts:194-216` |
| `RetryRuns`, `RetryReadErrs` | `retry-queue.ts:38-60`, with the SELECT of `processInserts` |
| `FailReplied`, `FailErrs` | `retry-queue.ts:71-82` |
| `Acknowledge` | `replication.ts:14`, arriving at the server |
| `Crash` | end of the process and restart (`docker-compose.yml`: `restart: on-failure`) |
| `StrayExecuted`, `StrayStored` | a request the service has no answer for is carried out |
| `Expire` | the duplicate window forgets an id |

`OutboxSystem` adds:

| variable | code |
|---|---|
| `recent` | the rows `findRecentPendingEvents` may return: `created_at` less than ten minutes ago |
| `check` | the local variables of `check-pending-events.ts` and where it is |
| `failedEvents` | the batch of `reprocess-failed-events.ts`, empty outside a transaction |
| `checks`, `selections` | counters of the bounds |

| action | code |
|---|---|
| `ServiceStep` | any action of `OutboxReader`; an inserted row is recent |
| `Ages` | ten minutes have passed |
| `CheckSelects`, `CheckReadsLast` | `check-pending-events.ts:18-60` |
| `CheckLooksUp` | one lookup: found, 404 or another error (62-84, 104-125) |
| `CheckMarks`, `CheckMarkErrs` | `markAsProcessed` with its tries (86-103) |
| `CheckFails`, `CheckEnds` | `markManyAsFailed` in its transaction (129-155) |
| `CheckDies` | an error nobody catches, or the end of the process |
| `ReprocessSelects`, `ReprocessCommits`, `ReprocessRollsBack` | `reprocess-failed-events.ts:16-67`, `outbox-repository.ts:256-280` |

`ServiceLifecycle`:

| variable | code |
|---|---|
| `provider` | `provider` of the publisher's configuration file |
| `start` | the awaits of `app.ts:118-170` |
| `shutdown`, `signals` | the awaits of `shutdown`; `process.once` |
| `queue` | `retryQueue` and its `stopped` |
| `connection`, `sessions`, `opened` | `NATSPublisher.connection`; the sessions nats has open |
| `pool`, `streaming` | the database pool; whether the slot streams |
| `arrived`, `jobs` | the records delivered; calls of `processInserts` and retry timers |

| action | code |
|---|---|
| `LoadsPublisher`, `Connects`, `Streams`, `Subscribed`, `StartFails` | `app.ts:118-134, 170` |
| `Arrives`, `Reads`, `Reconnects`, `Publishes`, `Marks`, `RequestFails` | `app.ts:135-167`, `nats-publisher.ts:33-97` |
| `TimerFires` | `retry-queue.ts:38-60` |
| `Signalled`, `SignalledAgain` | `app.ts:46-71, 115-116` |
| `ReplicationStops`, `PublisherClosed`, `PoolEnds`, `TelemetryShutDown` | each await of `shutdown`, and the code up to the next |
| `SessionLost`, `Dies` | a session nats gives up; an unhandled rejection |

`Provisioning` has the replication slot, the outbox models of `schema.prisma`, the
tables of the database and the processes; `SetupLooksUp`, `SetupCreates` and
`SetupErrs` are `replication-setup.ts`, `SchemaReads` and `SchemaWrites` are
`generateSchema`, `PrismaMigrates` and `PrismaMigrateErrs` are `generateMigration`,
`MigrationRuns` is a sql or sequelize migration that is made and then run.

### Decisions

* One step per stretch of code between two awaits. The SELECT of `onChange` or of
  a retry and the code up to the publish are one step: nothing in between is read
  by anyone else. A request and its execution by the server are one step when the
  answer arrives; when it does not, the request becomes a stray.
* An error of `onChange`'s SELECT rejects `onChange`, and nothing handles the
  rejection: the process is assumed to end, which is `Crash`. When `markAsFailed`
  throws in `RetryQueue.run`, the entry is gone whether or not the process goes on:
  `FailErrs` drops it, and `Crash` may follow.
* Strays are sets: two lost requests that are equal count as one. Two equal UPDATEs
  are harmless, as the second matches no row; two lost publishes of one record are
  milliseconds to seconds apart while the window is two minutes.
* The UPDATEs of the service appear in the WAL as changes of the outbox table, each
  a transaction of its own, so `filterChanges` has something to filter.
* The commit of a transaction and its visibility to the SELECT are one step (see
  the hazard at `outbox-processor.ts:50`).
* Timers fire at any time; the delays of the queue and of `backOff` are left out.
* The order of the records of a transaction is left out: `pAll` starts any.
* `OutboxSystem`: `created_at` is the time the inserting transaction began, so its
  order is not that of the commits: rows leave `recent` in any order, and the check
  takes the events it selected in any order. `sequence_number` comes from `pg` as a
  string (a BIGINT, no type parser is set): `check.numeric` says whether
  `lastSequenceNumber` is still a number. The tries of the check's UPDATE share the
  constant `DbNumOfAttempts` with the service's (the code has 3 and 5). One process
  of each job runs at a time. `FindLastProcessedEvent` is the set of rows the query may
  return: `sequence_number` is not unique, so `ORDER BY ... LIMIT 1` may have a choice.
* An UPDATE that waits for the lock of a row `reprocess` deletes then matches nothing,
  because the new row is another one: `ReprocessCommits` may consume such waiting
  statements.
* `ServiceLifecycle`: `replicationService.stop()` returns after the running
  `onChange`, as the comment at `app.ts:61` has it; the library is not part of the
  repository. `subscribe` may return late or never. Delays and the tries of `backOff`
  are left out.
* `Naming`: a name is a sequence of parts between underscores, each a sequence of
  words with or without a capital. Table names are ASCII letters. The columns are
  represented by one whose name is a single word and one of two words.
* `Provisioning`: all commands use one schema file, one database and the default model
  name, and no `--config` file; a migration that was generated is run. `prisma migrate
  dev` does nothing when a table of the name exists already (it reports a drift).
* Operators commented "Faulty (mutation runs)" are deliberately wrong variants of
  the definition that follows them. No specification uses them; they are put in
  its place to see that a property is able to fail (`mutants` in `PROJECT.json`).

## 3. Runs

All with `CHECK_DEADLOCK FALSE`: when every transaction is handled and the clients
have stopped, the service rightly has nothing to do.

| run | instance | shows |
|---|---|---|
| `reader_interleaving` | 2 events of 1 aggregate, 2 transactions, pool of 2, 1 retry, 1 crash, 1 database error, a window that holds, at most 1 outbox attempt; 3.5 million states | `TypeOK`, `BeliefsAreHarmless`, `RecordedSeqMatches`, `BatchIsUnacknowledged`, `OneTaskPerRecord`, `PendingIsOwned` |
| `reader_redelivery` | 1 event, 2 crashes, 2 retries, 2 tries of an UPDATE, 2 database errors, a window that expires; 1.1 million states | `ProcessedIsFinal`, `AttemptsCountOutcomes` |
| `reader_delivery` | 2 events with ids of their own, 1 crash, 1 database error; 0.7 million states | `ProcessedIsPublished`, `ImplementsDelivery` |
| `reader_liveness` | 2 events in 1 transaction, pool of 1, 1 retry, 2 tries, 2 database errors, 1 crash; 0.7 million states | `EveryRecordSettles`, `SlotCatchesUp` |
| `cron_jobs` | 1 event with both cron jobs, one run or selection of each, 1 crash, 1 database error, at most 2 outbox attempts; 1.0 million states | `SystemTypeOK`, `GiveUpsAreHarmless`, `PendingIsOwnedOrSpent`, `OnlyCheckUndoesProcessed` |
| `service_lifecycle` | 2 records, 2 attempts, 3 sessions, both signals; 21 thousand states | `TypeOK`, `OneSession`, `OnlyDrains`, `SignalEndsProcess` |
| `provisioning` | 2 processes, 4 table names, every naming and target; 11 thousand states | `TypeOK`, `SetupProvidesSlot`, `OneModel`, `SnakeCaseWorks`, `DefaultsServeClient` |
| `shared_aggregate` | 2 events of 1 aggregate, nothing fails | violation of `ProcessedIsPublished`: finding 1 |
| `failed_again` | 1 event, 1 crash, no database error | violation of `FailureIsCounted`: finding 2 |
| `check_undoes` | 1 event, 1 check, nothing fails | violation of `LifecycleHolds`: finding 3 |
| `check_position` | 2 events with ids of their own, 2 transactions, 1 check, nothing fails | violation of `ProcessedWasPublished`: finding 4 |
| `every_naming` | 1 process of the cli | violation of `EveryNamingWorks`: finding 5 |

Why the bounds suffice: the tasks of different records meet only in the pool, the
duplicate window and the stream, so two records show every interaction of two; a
third would only wait. What one record can go through is bounded by retries,
crashes and lost UPDATEs: two of each give a lost UPDATE before and after a
redelivery, and a FAILED record redelivered, processed and redelivered again. The
limits are small (`NumOfAttempts` 1 or 2 rather than 3, `DbNumOfAttempts` 1 or 2
rather than 5) so that exhausting them is frequent. The proofs have no bounds.

In `cron_jobs` what the jobs do to a row depends on that row alone (a check with other
rows differs only in the sequence number it records, which `check_position` is about),
so one event, put back once, meets every order of the jobs, the service, a crash and a
lost UPDATE. `BeliefsAreHarmless` does not hold there: a row put back may have fewer
attempts than it had, because `reprocess` read them before its transaction.
`GiveUpsAreHarmless` is the part that remains, and enough to keep a FAILED mark off a
PROCESSED row. In `service_lifecycle` two records make a batch of two, a batch and a
retry, or two retries; three sessions are the start's, one lost, and one more after
`close()`.

The fairness of `OutboxReader`'s `FairSpec` is weak fairness of `OnChange`, `OnChangeDone`,
`Acknowledge` and, for each event, of the steps of its task taken together: the
event loop runs what is ready, timers fire, and a publish or an UPDATE ends in an
answer or an error. That an UPDATE ends so assumes the database answers or the
connection breaks (`pg` has no statement timeout here). Nothing is assumed of
clients, strays, the window or crashes.

`EveryRecordSettles` and `PendingIsOwned` name the two ways in which the code does lose
a PENDING row. `Forgotten`: the record was in the retry queue, its transaction was
acknowledged, and the process restarted; `resumed` tells a restart after the
acknowledgement of that insert from any other. `MarkIsLost`: every try of the row's
FAILED mark ended in an error, and nobody catches the rejection (`retry-queue.ts:71-82`).
`reader_liveness` reaches both: its two errors are the two tries of one mark. So does
`reader_interleaving`, where one error is the only try; the lost UPDATE to PROCESSED,
which has as many tries, is no exception there, because the record is then retried.
(`MarkIsLost` asks for a lost try of the mark and as many errors as it has tries, of whatever
UPDATE: with one try, as there, that is exactly the loss; with more it excuses a little
more.) Both
exceptions are about a row's latest insert, so in `OutboxSystem` a row that was put back
is excused by neither its first insert nor a restart before its put-back. A third case
is added there, `PendingIsOwnedOrSpent`: a row put back with its attempts spent is
skipped and stays PENDING. `cron_jobs` reaches it with `MaxOutboxAttempts = 2`: one
failure is the service's, and one is the check's.

The fairness of `ServiceLifecycle`'s `FairSpec` is weak fairness of `ShutdownStep` (what
`shutdown` awaits comes about: the library stops, `close()` and `pool.end()` return)
and, for each record, of the steps of its job: a request is answered or fails, a timer
fires. Nothing is assumed of the start, so `SignalEndsProcess` holds also when `subscribe`
never returns.

### Findings

1. `nats-publisher.ts:70` uses the aggregate id as message id. A second event of
   an aggregate within the duplicate window is not stored, and its row becomes
   PROCESSED with the sequence number of the first. `ProcessedDelivered` is
   therefore proved under the hypothesis that ids are distinct.
2. `retry-queue.ts:73` gives `markAsFailed` the attempts of the WAL record. A FAILED
   record that is redelivered and fails again matches no row: its attempts stay 1,
   although `core/README.md:16` says that a failure increments the counter.
3. `outbox-repository.ts:246`: `markManyAsFailed` has no guard. A record that is
   processed between the check's SELECT and its transaction becomes FAILED, with its
   message in the stream, against the lifecycle of `core/README.md:20-24`.
   `OnlyCheckUndoesProcessed` says that this is the only statement of the three
   processes that does so.
4. `cronjobs/check-pending-events.ts:75`: records and messages are paired by position.
   A record becomes PROCESSED for the message of another. If `onChange` has its row
   already, its task publishes it all the same; if not, the service finds no unprocessed
   row and skips it, and nothing is left that would publish it. In the trace, e1 and e2
   are inserted by two transactions and the check selects both. The service has
   published e1 and is about to mark it when the check reads that no row is PROCESSED yet;
   it pairs e2 with message 1, which is e1's, and marks e2 before `onChange` receives e2's
   transaction. (e2 comes first for the check if its transaction began before e1's.)
   `core/README.md:21` has PROCESSED mean that the publish succeeded;
   `ProcessedWasPublished` asks for it only when no task, lost publish or insert of the
   event is left.
5. `utils/column-naming.ts:59`: names are unquoted in SQL migrations and in the service's
   queries and so folded by PostgreSQL, but compared unfolded in `filterChanges` and
   `rowToRecord`; the quoted ones of Sequelize and Prisma are not found by the queries;
   and the prisma target of `create migration` drops the naming
   (`prisma-migration-adapter.ts:7-16`). `cli/src/types/schema-config.ts:41` and
   `core/test/outbox-processor.test.ts:772` offer the other namings; `SnakeCaseWorks`
   says that the default one is sound.

## 4. Proofs

Every safety invariant and action property of a passing run, and the refinement, is
proved for every set of events, aggregates, records, processes and names, every
configuration and every bound, from the assumptions on the constants in the modules
(`ReaderAssumption`, `SystemAssumption`, `LifecycleAssumption`, `ProvisioningAssumption`)
and the hypotheses named below. The proofs do not even need the sets to be finite.

### The service: `OutboxReaderProofs`

| theorem | property |
|---|---|
| `TypeCorrect` | `TypeOK` |
| `BeliefsInvariant` | `BeliefsAreHarmless` |
| `ProcessedFinal` | `ProcessedIsFinal` |
| `RecordedSeqCorrect` | `RecordedSeqMatches` |
| `ProcessedDelivered` | `ProcessedIsPublished`, if no two events have the same message id |
| `BatchUnacknowledged` | `BatchIsUnacknowledged` |

*Types.* `TypeOK` is inductive. Lemmas say that an UPDATE takes a table to a table
and touches one row (`ExecuteType`), and that the tasks which follow a task are
tasks (`TaskType`, `AfterType`).

*A PROCESSED row is final.* The property is not inductive: it depends on what every
UPDATE still to come compares `attempts` with. `BeliefsAreHarmless` collects all
those values: of WAL inserts that may be redelivered, of tasks' WAL records, of
rows read before an await, of lost UPDATEs. Each is at most the row's attempts, and
less once the row is PROCESSED. An UPDATE that matches adds one to the attempts, so
all values for that row are then below (`HarmlessExecutes`); a row read now is
harmless because a SELECT returns no PROCESSED row (`FindHarmless`).

*Sequence numbers.* `AnswersMatch` follows a sequence number from the duplicate
window to the task, to the UPDATE, to the row.

### The service: `OutboxOwnershipProofs`

| theorem | property |
|---|---|
| `AttemptsCounted` | `AttemptsCountOutcomes` |
| `OneTaskCorrect` | `OneTaskPerRecord` |
| `PendingOwned` | `PendingIsOwned`, if `MaxOutboxAttempts > 0` |

*Attempts.* A FAILED mark goes by the attempts of a WAL insert: read from the WAL, carried
by a task, or under way without an answer. `BasesOutdone` says of all of them that the
row has come to more attempts, or is PENDING with as many. So a FAILED mark that matches
finds a PENDING row, as `client` inserted it, and a row moves in four ways only
(`RowMoves`): it is inserted, becomes PROCESSED, goes from PENDING to FAILED, or stays.
This is stronger than `BeliefsAreHarmless`, which lets a FAILED row be marked FAILED again.

*One task.* `InsertedOnce`: the WAL has one insert of a record, because clients insert
rows that are not there and the service's UPDATEs are no inserts (`WalStep`,
`UpdatesAreNoInserts`). `TasksAreInserts`: each task is that of an insert `onChange` has
received since the last restart. The next transaction's inserts are therefore not those
of a task.

*Ownership.* A task may drop a record in three places, and each must be shown harmless.
It skips a record it read as absent, or spent: `SeenIsCurrent` says that the row a task
works on, however long ago it was read, is the row of the table as long as that is
PENDING with the attempts of the task's insert. Its UPDATE may match nothing and still
be taken for a success: while the row is PENDING with these attempts, it does match
(`ExecutesMatching`). Its UPDATE may fail for good: `TriesAreErrors` counts the errors
this takes, the last try is a stray, and it stays one while the row is what it was
(`LossStays`), which is `MarkIsLost`. `PendingIsHeld` then follows an insert from the WAL
to its task and, across a restart, back to the WAL or to what the new process is not sent
(`TaskStays`, `EndsSettles`, `SlotStep`). It identifies the insert by its attempts;
`InsertsGrow`, by which a later insert of a row has more attempts, makes that the latest
one (`CurrentIsLatest`, `HeldIsOwned`).
The hypothesis is needed: `config.ts:39` takes any number, and with
`MAX_OUTBOX_ATTEMPTS=0` `processInserts` skips every record and acknowledges it.

### The refinement: `OutboxDeliveryProofs`

`DeliveryImplemented`: `Spec => ImplementsDelivery`, if no two events have the same
message id (otherwise finding 1 is a counterexample). `NextImplements` takes each step
to a step of `OutboxDelivery` or to a stutter: `CommitImplements` for the clients,
`StoresImplements` for a publish, answered or late, `ExecutesImplements` for an UPDATE,
answered or late. That an event is delivered before it is settled is `AnswersMatch`
with the hypothesis; that only an open event is given up is `BasesOutdone`, that a
settled one stays settled `BeliefsAreHarmless`; that a late publish is that of a committed
event is `MessagesExist`.

### Service and cron jobs: `OutboxSystemProofs`

| theorem | property |
|---|---|
| `SystemTypeCorrect` | `SystemTypeOK` |
| `GiveUpsHarmless` | `GiveUpsAreHarmless` |
| `OnlyCheckUndoes` | `OnlyCheckUndoesProcessed` |
| `PendingOwnedOrSpent` | `PendingIsOwnedOrSpent` |

Every step is one of four (`SystemStep`): a step of the service, for which the lemmas
of `OutboxOwnershipProofs` hold because they assume no more of the state than they need; a
step that leaves what the service sees as it is (`JobsOnly`); an act of the check, which
only takes rows forward to an outcome that is counted (`CheckActs`); or
`ReprocessCommits`.

*Give-ups.* `reprocess` inserts a row with the attempts it read before its transaction,
which may be fewer than the row has now, so `BeliefsAreHarmless` fails (section 3).
`BasesOutdone` survives with the strengthening `BatchOutdone`: the attempts read for a
row of the batch are beyond every base (`IsBase`) there is for it, because the row was
FAILED then, and no base is added while it exists. After the commit the row is PENDING
with exactly those attempts, which is what `Outdone` asks.

*Undoing.* An UPDATE to PROCESSED leaves a row PROCESSED, a FAILED mark misses it by
`BasesOutdone`, and the DELETE of `reprocess` asks for FAILED again.

*Ownership.* `Ownership` is the five invariants of `OutboxOwnershipProofs` together. The
commit of a batch gives each row a new insert not yet received (`CommitOwnership`); an
older task of the row has a base below the new attempts, so nothing it does counts as the
row's, and by `BatchOutdone` the new insert has more attempts than every earlier one, which
keeps `InsertsGrow`. `HeldIsOwned` turns this into the property, so a put-back row is owned
or lost by its put-back. `attempts` is no longer bounded by 2, so the theorem needs no
hypothesis on `MaxOutboxAttempts`: a row with spent attempts is its own case of the
property.

### Start and shutdown: `ServiceLifecycleProofs`

| theorem | property |
|---|---|
| `LifecycleTypeCorrect` | `TypeOK` |
| `OneSessionCorrect` | `OneSession` |
| `OnlyDrainsCorrect` | `OnlyDrains` |

*One session.* `Connected` adds to the property why no job opens a session of its own:
before `close()` nothing streams until `connect()` has returned, so every job finds a
connection. *Draining.* `Drained` adds that the queue is stopped when replication was,
which depends on the queue existing before replication is assigned; `JobStepDrains`
says that a step of a job makes no batch and, in a stopped queue, no work.

### The cli: `ProvisioningProofs`

| theorem | property |
|---|---|
| `ProvisioningTypeCorrect` | `TypeOK` |
| `OneModelCorrect` | `OneModel` |
| `SetupProvides` | `SetupProvidesSlot` |
| `SnakeCaseCorrect` | `SnakeCaseWorks` |
| `DefaultsCorrect` | `DefaultsServeClient` |

`Provisioned` is the inductive invariant: a process that is about to write `schema.prisma`
read it without a model, so that what it writes has one, whoever wrote in between; every
model and every table is the one a request asks for; no two tables have one name. Types and
the properties of tables then follow from what a request's table is like.
*Names.* `SnakeCaseFolds`: the snake_case naming of a name is what PostgreSQL folds it to;
`FoldFold`: folding twice is folding once; `SnakeCaseColumns`: the snake_case columns are
folded already. So quoted and unquoted spellings of a snake_case table agree, for every
table name (`SnakeCaseTable`). `ProvisioningAssumption` says what a table name is.

### Only model-checked

`EveryRecordSettles`, `SlotCatchesUp` and `SignalEndsProcess`: liveness under fairness is
out of the prover's reach.

## 5. Not modelled, and the plan

Next, in this order:

1. A variant of `OutboxReader` in which a commit is decoded before it is visible to the
   SELECT (the hazard at `outbox-processor.ts:50`), with the part of `PendingIsOwned` that
   remains.
2. What `OutboxSystem` still promises of the stream and of sequence numbers when
   `check-pending-events` does not run, as an invariant with its proof.

Left out for good, because nothing else depends on their state: the health server,
logging, metrics and exporters; the reading of environment variables, YAML and
`--config` files; the payload of records, and so which of them PostgreSQL refuses to
insert again; the text of migrations beyond the names in them; the client installer
(a lockfile decides which package manager is run); the delays of the retry queue and of
`backOff`, as timers may fire at any time.
