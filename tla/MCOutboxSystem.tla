----------------------------- MODULE MCOutboxSystem -----------------------------
(***************************************************************************)
(* Instances of OutboxSystem for TLC.                                      *)
(***************************************************************************)
EXTENDS OutboxSystem

(* Each event has a message id of its own: Aggregate = Event.               *)
OwnId == [e \in Event |-> e]

================================================================================
