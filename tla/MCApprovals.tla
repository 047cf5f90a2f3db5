------------------------------ MODULE MCApprovals ------------------------------
(* Small instances of Approvals for TLC. *)
EXTENDS Approvals, TLC

Pay == [ask |-> "pay", irr |-> TRUE]
Post == [ask |-> "post", irr |-> FALSE]
\* The same action and target, called with reversible effects.
PayDry == [ask |-> "pay", irr |-> FALSE]

JustPay == {Pay}
JustPost == {Post}
PayAndPost == {Pay, Post}
PayEitherWay == {Pay, PayDry}
OneAgent == [t \in Tasks |-> "agent"]
===============================================================================
