-------------------------- MODULE OutboxDeliveryProofs --------------------------
(***************************************************************************)
(* OutboxReader implements OutboxDelivery, for every configuration in      *)
(* which each event has a message id of its own: each step of the service, *)
(* of its strays and of its restarts commits, delivers, settles or gives   *)
(* up one event, or is invisible.                                          *)
(***************************************************************************)
EXTENDS OutboxReaderRefines, OutboxOwnershipProofs

Outbox    == [e \in Event |-> StateOf(table[e])]
Delivered == {stream[i] : i \in 1 .. Len(stream)}

(* A late publish is that of an event a client did commit.                  *)
MessagesExist == \A e \in strayMsgs : Exists(table, e)

DistinctIds == \A e, f \in Event : MsgId(e) = MsgId(f) => e = f

LEMMA StateIs ==
  ASSUME NEW row \in Row \cup {NoRow}
  PROVE  /\ StateOf(row) = "none" <=> row.status = "NONE"
         /\ StateOf(row) = "open" <=> row.status = "PENDING"
         /\ StateOf(row) = "done" <=> row.status = "PROCESSED"
         /\ StateOf(row) = "dead" <=> row.status = "FAILED"
BY DEF StateOf, Row, NoRow, Status

LEMMA NextMessagesExist ==
  ASSUME TypeOK, BasesOutdone, MessagesExist, [Next]_vars
  PROVE  MessagesExist'
<1> USE DEF slot, server, strays, counts
<1>1. \A e \in Event : Exists(table, e) => Exists(table, e)'
  BY RowStep DEF RowMoves, Exists
<1>2. \A t \in tasks : t.id \in Event /\ Exists(table, t.id)
  BY DEF BasesOutdone, Outdone, TypeOK, Task
<1>3. /\ \A e \in strayMsgs : StrayStored(e) => strayMsgs' \subseteq strayMsgs
      /\ \A t \in tasks : PublishFails(t) => strayMsgs' = strayMsgs \cup {t.id}
      /\ Crash => strayMsgs' \subseteq strayMsgs \cup {t.id : t \in tasks}
      /\ \A S \in SUBSET Event : CommitEvents(S) => strayMsgs' = strayMsgs
      /\ \A s \in strayStmts : StrayExecuted(s) => strayMsgs' = strayMsgs
      /\ \A m \in Aggregate : Expire(m) => strayMsgs' = strayMsgs
      /\ OnChange \/ OnChangeDone \/ Acknowledge \/ UNCHANGED vars => strayMsgs' = strayMsgs
      /\ \A t \in tasks : StartTask(t) \/ PublishAcked(t) \/ MarkReplied(t) \/ MarkErrs(t) =>
           strayMsgs' = strayMsgs
      /\ \A t \in tasks : RunRetry(t) => strayMsgs' = strayMsgs
  BY DEF CommitEvents, StrayExecuted, StrayStored, Expire, OnChange, OnChangeDone, Acknowledge,
         Crash, vars, StartTask, PublishAcked, PublishFails, MarkReplied, MarkErrs, StatementErrs,
         RunRetry, RetryRuns, RetryReadErrs, FailReplied, FailErrs
<1>4. strayMsgs' \subseteq strayMsgs \cup {t.id : t \in tasks}
  BY <1>3 DEF Next, ProcessInserts
<1>5. \A e \in strayMsgs' : e \in Event /\ Exists(table, e)
  BY <1>2, <1>4 DEF MessagesExist, TypeOK
<1> QED
  BY <1>1, <1>5 DEF MessagesExist

-------------------------------------------------------------------------------
\* The steps.

Visible == Delivery!Next \/ UNCHANGED <<Outbox, Delivered>>

LEMMA StoresImplements ==
  ASSUME TypeOK, NEW e \in Event, Exists(table, e), Stores(e), UNCHANGED table
  PROVE  Visible
<1>1. StateOf(table[e]) # "none"
  BY StateIs DEF TypeOK, Exists
<1>2. stream' = stream \/ stream' = Append(stream, e)
  BY DEF Stores, StreamAfter
<1>3. CASE stream' = stream
  BY <1>3 DEF Visible, Outbox, Delivered
<1>4. CASE stream' = Append(stream, e)
  <2>1. Delivered' = Delivered \cup {e}
    BY <1>4 DEF Delivered, TypeOK
  <2>2. Delivery!Deliver(e)
    BY <1>1, <2>1 DEF Delivery!Deliver, Delivered
  <2> QED
    BY <2>2 DEF Visible, Delivery!Next
<1> QED
  BY <1>2, <1>3, <1>4

LEMMA ExecutesImplements ==
  ASSUME TypeOK, DistinctIds, NEW s \in Statement, Executes(s), UNCHANGED stream,
         Harmless(s.id, s.attempts),
         s.op = "FAILED" => Outdone(s.id, s.attempts),
         s.op = "PROCESSED" => IsSeqIn(stream, s.seq, MsgId(s.id))
  PROVE  Visible
<1>1. /\ s.id \in Event /\ s.attempts \in Nat /\ s.op \in {"PROCESSED", "FAILED"}
      /\ table \in Table /\ table[s.id] \in Row \cup {NoRow}
  BY DEF Statement, TypeOK, Table
<1>2. Delivered' = Delivered
  BY DEF Delivered
<1>3. CASE table' = table
  BY <1>2, <1>3 DEF Visible, Outbox
<1>4. CASE table' # table
  <2> DEFINE st == IF s.op = "PROCESSED" THEN "done" ELSE "dead"
  <2>1. table[s.id].attempts = s.attempts /\ Exists(table, s.id)
    BY <1>4 DEF Executes, Execute, MarkAsProcessed, MarkAsFailed
  <2>2. table' \in Table /\ \A e \in Event \ {s.id} : table'[e] = table[e]
    BY <1>1, ExecuteType DEF Executes
  <2>3. table'[s.id].status = s.op
    BY <1>1, <2>1 DEF Executes, Execute, MarkAsProcessed, MarkAsFailed, Table
  <2>4. StateOf(table'[s.id]) = st
    BY <1>1, <2>2, <2>3, StateIs DEF Table
  <2>5. Outbox' = [Outbox EXCEPT ![s.id] = st]
    BY <1>1, <2>2, <2>4 DEF Outbox
  <2>6. table[s.id].status \notin {"NONE", "PROCESSED"}
    BY <1>1, <2>1 DEF Harmless, Exists
  <2>7. CASE s.op = "PROCESSED"
    <3>1. StateOf(table[s.id]) \in {"open", "dead"}
      BY <1>1, <2>6, StateIs DEF Row, NoRow, Status
    <3>2. s.id \in Delivered
      <4>1. s.seq \in 1 .. Len(stream) /\ MsgId(stream[s.seq]) = MsgId(s.id)
        BY <2>7 DEF IsSeqIn
      <4>2. stream[s.seq] = s.id
        BY <1>1, <4>1 DEF DistinctIds, TypeOK
      <4> QED
        BY <4>1, <4>2 DEF Delivered
    <3>3. Delivery!Settle(s.id)
      BY <1>1, <1>2, <2>5, <2>7, <3>1, <3>2 DEF Delivery!Settle, Outbox, Delivered
    <3> QED
      BY <1>1, <3>3 DEF Visible, Delivery!Next
  <2>8. CASE s.op = "FAILED"
    <3>1. table[s.id].status = "PENDING"
      BY <1>1, <2>1, <2>8 DEF Outdone
    <3>2. StateOf(table[s.id]) = "open"
      BY <1>1, <3>1, StateIs
    <3>3. Delivery!GiveUp(s.id)
      BY <1>1, <1>2, <2>5, <2>8, <3>2 DEF Delivery!GiveUp, Outbox, Delivered
    <3> QED
      BY <1>1, <3>3 DEF Visible, Delivery!Next
  <2> QED
    BY <1>1, <2>7, <2>8
<1> QED
  BY <1>3, <1>4

LEMMA CommitImplements ==
  ASSUME TypeOK, NEW S \in SUBSET Event, CommitEvents(S)
  PROVE  Visible
<1> USE DEF server
<1>1. /\ \A e \in S : ~Exists(table, e)
      /\ \A e \in Event : table'[e] = IF e \in S THEN NewRow ELSE table[e]
      /\ stream' = stream
  BY DEF CommitEvents
<1>2. \A e \in S : StateOf(table[e]) = "none"
  BY <1>1, StateIs DEF TypeOK, Exists
<1>3. StateOf(NewRow) = "open"
  BY DEF StateOf, NewRow
<1>4. Outbox' = [e \in Event |-> IF e \in S THEN "open" ELSE Outbox[e]]
  BY <1>1, <1>3 DEF Outbox
<1>5. Delivery!Commit(S)
  BY <1>1, <1>2, <1>4 DEF Delivery!Commit, Outbox
<1> QED
  BY <1>5 DEF Visible, Delivery!Next

LEMMA NextImplements ==
  ASSUME TypeOK, BeliefsAreHarmless, BasesOutdone, AnswersMatch, MessagesExist, DistinctIds,
         [Next]_vars
  PROVE  Visible
<1> USE DEF slot, server, strays, counts
<1>1. CASE UNCHANGED <<table, stream>>
  BY <1>1 DEF Visible, Outbox, Delivered
<1>2. ASSUME NEW S \in SUBSET Event, CommitEvents(S)
      PROVE  Visible
  BY <1>2, CommitImplements
<1>3. ASSUME NEW s \in strayStmts, StrayExecuted(s)
      PROVE  Visible
  <2>1. s \in Statement /\ Executes(s) /\ UNCHANGED stream
    BY <1>3 DEF StrayExecuted, TypeOK
  <2>2. /\ Harmless(s.id, s.attempts)
        /\ s.op = "FAILED" => Outdone(s.id, s.attempts)
        /\ s.op = "PROCESSED" => IsSeqIn(stream, s.seq, MsgId(s.id))
    BY DEF BeliefsAreHarmless, BasesOutdone, AnswersMatch
  <2> QED
    BY <2>1, <2>2, ExecutesImplements
<1>4. ASSUME NEW e \in strayMsgs, StrayStored(e)
      PROVE  Visible
  BY <1>4, StoresImplements DEF StrayStored, MessagesExist, TypeOK
<1>5. ASSUME NEW t \in tasks, PublishAcked(t)
      PROVE  Visible
  <2>1. t.id \in Event /\ Exists(table, t.id)
    BY DEF TypeOK, Task, BasesOutdone, Outdone
  <2> QED
    BY <1>5, <2>1, StoresImplements DEF PublishAcked
<1>6. ASSUME NEW t \in tasks, MarkReplied(t) \/ FailReplied(t)
      PROVE  Visible
  <2>1. t \in Task /\ TaskIsHarmless(t) /\ t.stage \in {"mark", "failing"}
    BY <1>6 DEF TypeOK, BeliefsAreHarmless, MarkReplied, FailReplied
  <2>2. /\ StatementOf(t) \in Statement /\ StatementOf(t).id = t.id
        /\ Harmless(t.id, StatementOf(t).attempts)
    BY <2>1, StatementHarmless, TaskType, ReaderAssumption
  <2>3. Executes(StatementOf(t)) /\ UNCHANGED stream
    BY <1>6 DEF MarkReplied, FailReplied, StatementOf
  <2>4. StatementOf(t).op = "FAILED" => Outdone(t.id, StatementOf(t).attempts)
    BY DEF StatementOf, MarkStatement, FailStatement, BasesOutdone
  <2>5. StatementOf(t).op = "PROCESSED" => IsSeqIn(stream, StatementOf(t).seq, MsgId(t.id))
    BY DEF StatementOf, MarkStatement, FailStatement, AnswersMatch
  <2> QED
    BY <2>2, <2>3, <2>4, <2>5, ExecutesImplements
<1>7. /\ \A m \in Aggregate : Expire(m) => UNCHANGED <<table, stream>>
      /\ OnChange \/ OnChangeDone \/ Acknowledge \/ Crash \/ UNCHANGED vars =>
           UNCHANGED <<table, stream>>
      /\ \A t \in tasks : StartTask(t) \/ PublishFails(t) \/ MarkErrs(t) \/ FailErrs(t) =>
           UNCHANGED <<table, stream>>
      /\ \A t \in tasks : RetryRuns(t) \/ RetryReadErrs(t) => UNCHANGED <<table, stream>>
  BY DEF Expire, OnChange, OnChangeDone, Acknowledge, Crash, vars, StartTask, PublishFails,
         MarkErrs, FailErrs, StatementErrs, RetryRuns, RetryReadErrs
<1> QED
  BY <1>1, <1>2, <1>3, <1>4, <1>5, <1>6, <1>7 DEF Next, ProcessInserts, RunRetry

(* With a message id per event, the service does nothing to an event that   *)
(* the outbox pattern does not allow: it is settled as done only once the   *)
(* stream has it, is given up only while open, and stays done.              *)
THEOREM DeliveryImplemented ==
  ASSUME \A e, f \in Event : MsgId(e) = MsgId(f) => e = f
  PROVE  Spec => ImplementsDelivery
<1>1. Init => Delivery!Init /\ MessagesExist
  <2> SUFFICES ASSUME Init PROVE Delivery!Init /\ MessagesExist
    OBVIOUS
  <2>1. StateOf(NoRow) = "none"
    BY DEF StateOf, NoRow
  <2>2. [e \in Event |-> StateOf(table[e])] = [e \in Event |-> "none"]
    BY <2>1 DEF Init
  <2>3. Delivered = {} /\ strayMsgs = {}
    BY DEF Init, Delivered
  <2> QED
    BY <2>2, <2>3 DEF Delivery!Init, Delivered, MessagesExist
<1>2. TypeOK /\ BasesOutdone /\ MessagesExist /\ [Next]_vars => MessagesExist'
  BY NextMessagesExist
<1>3. /\ TypeOK /\ BeliefsAreHarmless /\ BasesOutdone /\ AnswersMatch /\ MessagesExist
      /\ [Next]_vars
      => [Delivery!Next]_(Delivery!vars)
  <2> SUFFICES ASSUME TypeOK, BeliefsAreHarmless, BasesOutdone, AnswersMatch, MessagesExist,
                      [Next]_vars
               PROVE  Delivery!Next \/ UNCHANGED Delivery!vars
    OBVIOUS
  <2>1. Visible
    BY NextImplements DEF DistinctIds
  <2> QED
    BY <2>1 DEF Visible, Delivery!vars, Outbox, Delivered
<1> QED
  BY <1>1, <1>2, <1>3, TypeCorrect, BeliefsInvariant, OutdoneInvariant, AnswersInvariant, PTL
     DEF Spec, ImplementsDelivery, Delivery!Spec
================================================================================
