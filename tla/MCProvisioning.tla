----------------------------- MODULE MCProvisioning -----------------------------
(***************************************************************************)
(* Instances of Provisioning for TLC.                                      *)
(***************************************************************************)
EXTENDS Provisioning

(* outbox, my_outbox, myOutbox and OUTBOX: the last stands for any name     *)
(* that is a single word with capitals.                                     *)
My(capital)     == [stem |-> "my", capital |-> capital]
Box(capital)    == [stem |-> "outbox", capital |-> capital]
SomeTableNames  == { << <<Box(FALSE)>> >>, << <<Box(TRUE)>> >>,
                     << <<My(FALSE)>>, <<Box(FALSE)>> >>,
                     << <<My(FALSE), Box(TRUE)>> >> }
================================================================================
