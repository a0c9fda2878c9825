-------------------------- MODULE OutboxReaderRefines --------------------------
(***************************************************************************)
(* OutboxReader implements OutboxDelivery when every event has a message   *)
(* id of its own.  A row's status is the event's state, and an event is    *)
(* delivered when a message of the stream carries it.                      *)
(***************************************************************************)
EXTENDS OutboxReader

StateOf(row) == CASE row.status = "NONE"      -> "none"
                  [] row.status = "PENDING"   -> "open"
                  [] row.status = "PROCESSED" -> "done"
                  [] row.status = "FAILED"    -> "dead"

Delivery == INSTANCE OutboxDelivery WITH
              outbox    <- [e \in Event |-> StateOf(table[e])],
              delivered <- {stream[i] : i \in 1 .. Len(stream)}

(* The service, with its retries, crashes and late answers, does nothing to *)
(* an event that the outbox pattern does not allow (processInserts,         *)
(* RetryQueue.run and the guards of the two UPDATEs together).              *)
ImplementsDelivery == Delivery!Spec
================================================================================
