------------------------------ MODULE OutboxSystem ------------------------------
(***************************************************************************)
(* The service of OutboxReader together with the two cron jobs that share  *)
(* the outbox table with it: check-pending-events, which looks for PENDING *)
(* rows whose message was published after all, and reprocess-failed-events,*)
(* which puts FAILED rows back to PENDING (packages/core/src/cronjobs).    *)
(*                                                                         *)
(* Each job is a process of its own that reads, awaits, and then writes by *)
(* what it read; it may die between any two of its steps.  At most one     *)
(* process of each job runs at a time.                                     *)
(***************************************************************************)
EXTENDS OutboxReader

CONSTANTS
  BatchSize,          \* BATCH_SIZE of reprocess-failed-events
  \* Bounds on the environment.
  MaxChecks,          \* runs of check-pending-events
  MaxSelections       \* SELECTs of reprocess-failed-events

ASSUME SystemAssumption ==
  /\ BatchSize \in Nat \ {0}
  /\ MaxChecks \in Nat /\ MaxSelections \in Nat

VARIABLES
  recent,         \* the rows whose created_at lies in the last ten minutes
  check,          \* the process of check-pending-events
  failedEvents,   \* the batch of reprocess-failed-events: ids -> rows
  checks, selections    \* counted against their bounds

systemVars == <<vars, recent, check, failedEvents, checks, selections>>

-------------------------------------------------------------------------------
\* The local variables of the jobs.

PendingEvent == [id : Event, attempts : Nat]

\* lastSequenceNumber is a number only as long as it is the 0 the job begins
\* with, or counted up from it: sequence_number is a BIGINT, which pg returns as
\* a string, and no type parser is set.
Check == [stage   : {"idle", "connecting", "looping", "marking"},
          pending : SUBSET PendingEvent,    \* pendingEvens
          event   : SUBSET PendingEvent,    \* the event being marked, if any
          numeric : BOOLEAN,                \* whether lastSequenceNumber is one
          last    : Nat,                    \* lastSequenceNumber
          tries   : 0 .. DbNumOfAttempts - 1,
          doomed  : SUBSET Event]           \* eventsToBeMarkedAsFailed

NoCheck == [stage |-> "idle", pending |-> {}, event |-> {}, numeric |-> TRUE,
            last |-> 0, tries |-> 0, doomed |-> {}]

\* No transaction of reprocess-failed-events is under way.
NoBatch == << >>

SystemTypeOK ==
  /\ TypeOK
  /\ recent \subseteq {e \in Event : Exists(table, e)}
  /\ check \in Check
  /\ (check.stage = "marking") = (check.event # {})
  /\ DOMAIN failedEvents \subseteq Event
  /\ failedEvents \in [DOMAIN failedEvents -> Row]
  /\ checks \in Nat /\ selections \in Nat

SystemInit ==
  /\ Init
  /\ recent = {}
  /\ check = NoCheck
  /\ failedEvents = NoBatch
  /\ checks = 0 /\ selections = 0

-------------------------------------------------------------------------------
(* A step of the service or of its environment.  A row that a client        *)
(* inserts is recent.                                                       *)
ServiceStep ==
  /\ Next
  /\ recent' = recent \cup {e \in Event : ~Exists(table, e) /\ Exists(table, e)'}
  /\ UNCHANGED <<check, failedEvents, checks, selections>>

(* Ten minutes after its insert a row is no longer recent.  created_at is   *)
(* the time the inserting transaction began, whose order is not that of the *)
(* commits: any row may be the first to age.                                *)
Ages(e) ==
  /\ e \in recent
  /\ recent' = recent \ {e}
  /\ UNCHANGED <<vars, check, failedEvents, checks, selections>>

-------------------------------------------------------------------------------
\* check-pending-events.

FindRecentPendingEvents ==
  {[id |-> e, attempts |-> table[e].attempts] : e \in recent \cap WithStatus(table, "PENDING")}

(* The SELECT of the recent PENDING rows.  Without any the job returns.     *)
CheckSelects ==
  /\ check.stage = "idle"
  /\ checks < MaxChecks
  /\ checks' = checks + 1
  /\ FindRecentPendingEvents # {}
  /\ check' = [NoCheck EXCEPT !.stage = "connecting", !.pending = FindRecentPendingEvents]
  /\ UNCHANGED <<vars, recent, failedEvents, selections>>

(* Connected to NATS, the job reads the last PROCESSED row.                 *)
CheckReadsLast(row) ==
  /\ check.stage = "connecting"
  /\ row \in FindLastProcessedEvent(table)
  /\ check' = [check EXCEPT !.stage = "looping", !.last = row.seq, !.numeric = (row = NoRow)]
  /\ UNCHANGED <<vars, recent, failedEvents, checks, selections>>

(* Any other error: the event is left alone, and the next is looked up      *)
(* under the same sequence number.  The string lastSequenceNumber + 1       *)
(* concatenates to is not a number to the server, so every lookup with one  *)
(* ends here.                                                               *)
LookupErrs(p) ==
  check' = [check EXCEPT !.pending = @ \ {p}]

LookupFinds(p) ==
  /\ check.numeric
  /\ check.last + 1 <= Len(stream)
  /\ check' = [check EXCEPT !.stage = "marking", !.event = {p}, !.pending = @ \ {p}]

(* 404: this event and all that remain are to be marked as failed.          *)
LookupFindsNone ==
  /\ check.numeric
  /\ check.last + 1 > Len(stream)
  /\ check' = [check EXCEPT !.pending = {}, !.doomed = {p.id : p \in check.pending}]

(* The next PENDING event (in the order of created_at, of which the model   *)
(* knows nothing: see Ages) is compared with the message after the last.    *)
CheckLooksUp(p) ==
  /\ check.stage = "looping"
  /\ p \in check.pending
  /\ LookupFinds(p) \/ LookupFindsNone \/ LookupErrs(p)
  /\ UNCHANGED <<vars, recent, failedEvents, checks, selections>>

CheckStatement(p) ==
  [op |-> "PROCESSED", id |-> p.id, attempts |-> p.attempts, seq |-> check.last + 1]

CheckMarks(p) ==
  /\ p \in check.event
  /\ Executes(CheckStatement(p))
  /\ check' = [check EXCEPT !.stage = "looping", !.event = {}, !.tries = 0, !.last = @ + 1]
  /\ UNCHANGED <<slot, tasks, server, strays, counts, recent, failedEvents, checks, selections>>

\* Faulty (mutation runs): the UPDATE is tried without end.
CheckMarkErrsForever(p) ==
  /\ p \in check.event
  /\ dbErrors < MaxDbErrors
  /\ dbErrors' = dbErrors + 1
  /\ strayStmts' = strayStmts \cup {CheckStatement(p)}
  /\ check' = [check EXCEPT !.tries = @ + 1]
  /\ UNCHANGED <<table, wal, slot, tasks, server, strayMsgs, transactions, crashes,
                 recent, failedEvents, checks, selections>>

(* A try of the UPDATE ends in an error.  After the last one the job goes   *)
(* on with the next event and the sequence number it already had.           *)
CheckMarkErrs(p) ==
  /\ p \in check.event
  /\ dbErrors < MaxDbErrors
  /\ dbErrors' = dbErrors + 1
  /\ strayStmts' = strayStmts \cup {CheckStatement(p)}
  /\ check' = IF LastTry(check)
              THEN [check EXCEPT !.stage = "looping", !.event = {}, !.tries = 0]
              ELSE [check EXCEPT !.tries = @ + 1]
  /\ UNCHANGED <<table, wal, slot, tasks, server, strayMsgs, transactions, crashes,
                 recent, failedEvents, checks, selections>>

CheckLooped == check.stage = "looping" /\ check.pending = {}

(* The loop is over: the doomed rows are marked in one transaction.         *)
CheckFails ==
  /\ CheckLooped /\ check.doomed # {}
  /\ table' = MarkManyAsFailed(table, check.doomed)
  /\ wal' = Append(wal, {OutboxChange("update", e, table[e].attempts + 1) : e \in check.doomed})
  /\ check' = NoCheck
  /\ UNCHANGED <<slot, tasks, server, strays, counts, recent, failedEvents, checks, selections>>

CheckEnds ==
  /\ CheckLooped /\ check.doomed = {}
  /\ check' = NoCheck
  /\ UNCHANGED <<vars, recent, failedEvents, checks, selections>>

(* The process is killed, or an error it does not catch ends it: of         *)
(* connect, of a SELECT, or of the transaction, which is rolled back.       *)
CheckDies ==
  /\ check.stage # "idle"
  /\ check' = NoCheck
  /\ strayStmts' = strayStmts \cup {CheckStatement(p) : p \in check.event}
  /\ UNCHANGED <<table, wal, slot, tasks, server, strayMsgs, counts,
                 recent, failedEvents, checks, selections>>

CheckPendingEvents ==
  \/ CheckSelects
  \/ \E row \in FindLastProcessedEvent(table) : CheckReadsLast(row)
  \/ \E p \in check.pending : CheckLooksUp(p)
  \/ \E p \in check.event : CheckMarks(p) \/ CheckMarkErrs(p)
  \/ CheckFails
  \/ CheckEnds
  \/ CheckDies

-------------------------------------------------------------------------------
\* reprocess-failed-events.

Batches ==
  LET failed == WithStatus(table, "FAILED")
  IN  {ids \in SUBSET failed : \/ Cardinality(ids) = BatchSize
                               \/ ids = failed /\ Cardinality(ids) < BatchSize}

(* The SELECT of up to BATCH_SIZE rows; without any the loop ends.          *)
ReprocessSelects(ids) ==
  /\ failedEvents = NoBatch
  /\ selections < MaxSelections
  /\ selections' = selections + 1
  /\ ids \in Batches \ {{}}
  /\ failedEvents' = [e \in ids |-> table[e]]
  /\ UNCHANGED <<vars, recent, check, checks>>

\* Faulty (mutation runs): the rows are changed in place, with an UPDATE.
RecreationUpdates ==
  {OutboxChange("update", e, failedEvents[e].attempts) : e \in DOMAIN failedEvents}

\* What wal2json reports of the transaction.
RecreationChanges ==
  {OutboxChange("delete", e, 0) : e \in DOMAIN failedEvents}
    \cup {OutboxChange("insert", e, failedEvents[e].attempts) :
            e \in DOMAIN failedEvents}

(* The transaction commits: the rows are PENDING again, with the attempts   *)
(* the SELECT found, and new.  An UPDATE of a task, or of the check's       *)
(* transaction, that was waiting for the lock of a deleted row then finds   *)
(* no row and changes nothing.                                              *)
ReprocessCommits(waiting, spared) ==
  /\ failedEvents # NoBatch
  /\ CanRecreate(table, failedEvents)
  /\ waiting \subseteq {t \in tasks : t.stage \in {"mark", "failing"}
                                        /\ t.id \in DOMAIN failedEvents}
  /\ spared \subseteq (IF CheckLooped THEN check.doomed \cap DOMAIN failedEvents ELSE {})
  /\ table' = Recreate(table, failedEvents)
  /\ wal' = Append(wal, RecreationChanges)
  /\ recent' = recent \cup DOMAIN failedEvents
  /\ tasks' = tasks \ waiting
  /\ check' = [check EXCEPT !.doomed = @ \ spared]
  /\ failedEvents' = NoBatch
  /\ UNCHANGED <<slot, server, strays, counts, checks, selections>>

(* An error rolls the whole batch back and ends the job: among others the   *)
(* violated primary key when a row of the batch is no longer FAILED.        *)
ReprocessRollsBack ==
  /\ failedEvents # NoBatch
  /\ failedEvents' = NoBatch
  /\ UNCHANGED <<vars, recent, check, checks, selections>>

ReprocessFailedEvents ==
  \/ \E ids \in SUBSET Event : ReprocessSelects(ids)
  \/ \E waiting \in SUBSET tasks, spared \in SUBSET check.doomed :
       ReprocessCommits(waiting, spared)
  \/ ReprocessRollsBack

-------------------------------------------------------------------------------
SystemNext ==
  \/ ServiceStep
  \/ \E e \in recent : Ages(e)
  \/ CheckPendingEvents
  \/ ReprocessFailedEvents

SystemSpec == SystemInit /\ [][SystemNext]_systemVars

-------------------------------------------------------------------------------
\* Properties.

(* The attempts a FAILED mark compares with are those of a WAL insert, which *)
(* may be as old as the slot's position.  They cannot match a PROCESSED row, *)
(* even though reprocess puts rows back with attempts it read before its    *)
(* transaction, which may be fewer than the row has by then: each put-back  *)
(* still takes the row beyond every earlier insert.                         *)
GiveUpsAreHarmless ==
  /\ \A i \in 1 .. Len(wal) : \A c \in filterChanges(wal[i]) : Harmless(c.id, c.attempts)
  /\ \A t \in tasks : Harmless(t.id, t.base)
  /\ \A s \in strayStmts : s.op = "FAILED" => Harmless(s.id, s.attempts)

(* Of all the statements of the three processes only markManyAsFailed,      *)
(* which has no guard, takes a row out of PROCESSED: not a late UPDATE,     *)
(* whose attempts might match a row that was put back; not reprocess, which *)
(* deletes and inserts by rows it read before its transaction.              *)
OnlyCheckUndoesProcessed ==
  [][~CheckFails => \A e \in Event :
       table[e].status = "PROCESSED" => table'[e].status = "PROCESSED"]_systemVars

(* A PENDING row of the three processes is in somebody's hands too, or it   *)
(* was lost in one of the two ways PendingIsOwned names, which for a row    *)
(* that was put back count from its put-back; or it was put back when its   *)
(* attempts were spent: then processInserts skips it, and it stays PENDING. *)
PendingIsOwnedOrSpent ==
  \A e \in Event : table[e].status = "PENDING" =>
    OwnedOrLost(e) \/ table[e].attempts >= MaxOutboxAttempts

(* core/README.md:21, PENDING -> PROCESSED (publish succeeded), once nothing *)
(* is left that could still publish: the event of a PROCESSED row that no   *)
(* task has, whose message is not under way, and whose inserts onChange has *)
(* all been through, is in the stream.                                      *)
ProcessedWasPublished ==
  \A e \in Event :
    /\ table[e].status = "PROCESSED"
    /\ \A t \in tasks : t.id # e
    /\ e \notin strayMsgs
    /\ \A i \in handled + 1 .. Len(wal) : ~InsertedAt(e, i)
    => \E i \in 1 .. Len(stream) : stream[i] = e

(* core/README.md:20-24, the lifecycle of a record: nothing leaves          *)
(* PROCESSED.                                                               *)
LifecycleHolds ==
  [][\A e \in Event :
       table[e].status = "PROCESSED" => table'[e].status = "PROCESSED"]_systemVars
================================================================================
