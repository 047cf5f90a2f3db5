------------------------------ MODULE MCLedger --------------------------------
(* Small instances of Ledger for TLC. *)
EXTENDS Ledger, TLC

CONSTANT FirstKey  \* the event of the first mission

OneMission == [k \in Keys |-> "mission"]
TwoMissions == [k \in Keys |-> IF k = FirstKey THEN "first" ELSE "second"]
\* The other events that may be written are alike.
Symmetry == Permutations(Keys \ ({FirstKey} \cup Forbidden))
===============================================================================
