------------------------------ MODULE MCOutbox --------------------------------
(* Small instances of Outbox for TLC. *)
EXTENDS Outbox, TLC

OneMission == [k \in Keys |-> "mission"]
===============================================================================
