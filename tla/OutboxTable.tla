------------------------------ MODULE OutboxTable ------------------------------
(***************************************************************************)
(* The outbox table of PostgreSQL and the statements OutboxRepository      *)
(* sends to it (packages/core/src/outbox-repository.ts).                   *)
(*                                                                         *)
(* A table is a function from event ids to rows.  A row keeps the three    *)
(* columns whose values decide what the service does: status, attempts and *)
(* sequence_number (0 stands for NULL).  The payload columns never change  *)
(* after the insert and are left out.  Each operator below is one SQL      *)
(* statement, which PostgreSQL executes atomically.                        *)
(***************************************************************************)
EXTENDS Naturals

CONSTANT Event      \* the ids of the rows that may ever be inserted

Status == {"PENDING", "PROCESSED", "FAILED"}

Row == [status : Status, attempts : Nat, seq : Nat]

\* The absent row: an id that is not in the table, and the null that a
\* SELECT by id returns for it.
NoRow == [status |-> "NONE", attempts |-> 0, seq |-> 0]

Exists(tbl, e) == tbl[e].status # "NONE"

\* The row a client inserts: DEFAULT 'PENDING', 0 attempts, no sequence number.
NewRow == [status |-> "PENDING", attempts |-> 0, seq |-> 0]

-------------------------------------------------------------------------------
(* SELECT ... WHERE id = $1 AND status IN ('PENDING', 'FAILED')             *)
FindUnprocessedById(tbl, e) ==
  IF tbl[e].status \in {"PENDING", "FAILED"} THEN tbl[e] ELSE NoRow

(* The same for a set of ids, as the map id -> row that onChange builds.    *)
FindUnprocessedByIds(tbl, ids) == [e \in ids |-> FindUnprocessedById(tbl, e)]

\* Faulty (mutation runs): attempts are not incremented.
MarkAsProcessedUncounted(tbl, e, seq, attempts) ==
  IF Exists(tbl, e) /\ tbl[e].attempts = attempts
  THEN [tbl EXCEPT ![e] = [status |-> "PROCESSED", attempts |-> @.attempts, seq |-> seq]]
  ELSE tbl

(* UPDATE ... SET status = 'PROCESSED', attempts = attempts + 1,            *)
(*   sequence_number = $1 WHERE id = $2 AND attempts = $3.  A WHERE clause  *)
(* that matches no row is not an error: the statement changes nothing.      *)
MarkAsProcessed(tbl, e, seq, attempts) ==
  IF Exists(tbl, e) /\ tbl[e].attempts = attempts
  THEN [tbl EXCEPT ![e] = [status |-> "PROCESSED",
                           attempts |-> @.attempts + 1,
                           seq |-> seq]]
  ELSE tbl

\* Faulty (mutation runs): WHERE id = $1 alone, as in markManyAsFailed.
MarkAsFailedUnguarded(tbl, e, attempts) ==
  IF Exists(tbl, e)
  THEN [tbl EXCEPT ![e] = [status |-> "FAILED",
                           attempts |-> @.attempts + 1,
                           seq |-> @.seq]]
  ELSE tbl

(* UPDATE ... SET status = 'FAILED', attempts = attempts + 1                *)
(*   WHERE id = $1 AND attempts = $2                                        *)
MarkAsFailed(tbl, e, attempts) ==
  IF Exists(tbl, e) /\ tbl[e].attempts = attempts
  THEN [tbl EXCEPT ![e] = [status |-> "FAILED",
                           attempts |-> @.attempts + 1,
                           seq |-> @.seq]]
  ELSE tbl

-------------------------------------------------------------------------------
\* The statements of the cron jobs.

WithStatus(tbl, st) == {e \in Event : tbl[e].status = st}

(* SELECT ... WHERE status = 'PROCESSED' ORDER BY sequence_number DESC      *)
(*   LIMIT 1: what it may return is any row with the greatest number, or    *)
(* null when no row is PROCESSED.                                           *)
FindLastProcessedEvent(tbl) ==
  LET done == {tbl[e] : e \in WithStatus(tbl, "PROCESSED")}
  IN  IF done = {} THEN {NoRow} ELSE {row \in done : \A r \in done : r.seq <= row.seq}

(* UPDATE ... SET status = 'FAILED', attempts = attempts + 1 WHERE id = $1, *)
(* for each id in one transaction.  Whatever the row's status: there is no  *)
(* guard.                                                                   *)
MarkManyAsFailed(tbl, ids) ==
  [e \in Event |-> IF e \in ids /\ Exists(tbl, e)
                   THEN [status |-> "FAILED", attempts |-> tbl[e].attempts + 1,
                         seq |-> tbl[e].seq]
                   ELSE tbl[e]]

\* Faulty (mutation runs): DELETE ... WHERE id = $1, whatever the status.
CanRecreateAny(tbl, found) == TRUE

(* DELETE ... WHERE id = $1 AND status = 'FAILED' and INSERT of the same id *)
(* as PENDING, for each row of an earlier SELECT, in one transaction.  A row*)
(* that is no longer FAILED is not deleted, and its INSERT violates the     *)
(* primary key: the transaction can only commit if all are.                 *)
CanRecreate(tbl, found) == \A e \in DOMAIN found : tbl[e].status = "FAILED"

Recreated(row) == [status |-> "PENDING", attempts |-> row.attempts, seq |-> row.seq]

Recreate(tbl, found) ==
  [e \in Event |-> IF e \in DOMAIN found THEN Recreated(found[e]) ELSE tbl[e]]

-------------------------------------------------------------------------------
(* An UPDATE on its way to the database, as data: which of the two, and its *)
(* parameters.  A statement whose reply was lost is executed by nobody, or  *)
(* at a moment the service no longer controls.                              *)
Statement == [op : {"PROCESSED", "FAILED"}, id : Event, attempts : Nat, seq : Nat]

Execute(tbl, s) ==
  IF s.op = "PROCESSED" THEN MarkAsProcessed(tbl, s.id, s.seq, s.attempts)
                        ELSE MarkAsFailed(tbl, s.id, s.attempts)
================================================================================
