------------------------------ MODULE MCMissions ------------------------------
(* An instance of Missions for TLC: 1 is prepared by the human, for a local model or *)
(* an official client, and has one child, 2.                                         *)
EXTENDS Missions

CONSTANTS w1, w2, w3
SomeWorkers == {w1, w2, w3}
TwoWorkers == {w1, w2}
OneKid == [m \in {1, 2} |-> IF m = 1 THEN {2} ELSE {}]
===============================================================================
