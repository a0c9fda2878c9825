----------------------------- MODULE OutboxDelivery -----------------------------
(***************************************************************************)
(* What the outbox pattern promises of each event (core/README.md:18-24):  *)
(* an event a client committed is open until it is settled, as done or as  *)
(* dead; it is done only after the stream has it; a dead one may still be  *)
(* done later, a done one is done for good.  Delivery is a fact of its     *)
(* own: an open or dead event may have been delivered.                     *)
(***************************************************************************)
CONSTANT Event

VARIABLES outbox,      \* event -> "none", "open", "done" or "dead"
          delivered    \* the events the stream has

vars == <<outbox, delivered>>

TypeOK == /\ outbox \in [Event -> {"none", "open", "done", "dead"}]
          /\ delivered \subseteq Event

Init == /\ outbox = [e \in Event |-> "none"]
        /\ delivered = {}

Commit(S) ==
  /\ \A e \in S : outbox[e] = "none"
  /\ outbox' = [e \in Event |-> IF e \in S THEN "open" ELSE outbox[e]]
  /\ UNCHANGED delivered

Deliver(e) ==
  /\ outbox[e] # "none"
  /\ delivered' = delivered \cup {e}
  /\ UNCHANGED outbox

Settle(e) ==
  /\ outbox[e] \in {"open", "dead"}
  /\ e \in delivered
  /\ outbox' = [outbox EXCEPT ![e] = "done"]
  /\ UNCHANGED delivered

GiveUp(e) ==
  /\ outbox[e] = "open"
  /\ outbox' = [outbox EXCEPT ![e] = "dead"]
  /\ UNCHANGED delivered

Next == \/ \E S \in SUBSET Event : Commit(S)
        \/ \E e \in Event : Deliver(e) \/ Settle(e) \/ GiveUp(e)

Spec == Init /\ [][Next]_vars
================================================================================
