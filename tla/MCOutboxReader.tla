----------------------------- MODULE MCOutboxReader -----------------------------
(***************************************************************************)
(* Instances of OutboxReader for TLC.                                      *)
(***************************************************************************)
EXTENDS OutboxReaderRefines

CONSTANTS e1, e2, a1, a2

\* All events of one aggregate, and each event of an aggregate of its own.
SharedAggregate == [e \in Event |-> a1]
OwnAggregate    == [e \in Event |-> IF e = e1 THEN a1 ELSE a2]
================================================================================
