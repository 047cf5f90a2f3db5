------------------------------- MODULE MCBroker -------------------------------
(* Small instances of Broker for TLC. *)
EXTENDS Broker, TLC

\* Two targets; a grant on one of them, and a grant on both.
Narrow == {"a"}
Wide == {"a", "b"}
TwoTargets == Wide
TwoGrants == {Narrow, Wide}
OneGrant == {Narrow}
AllOf == Grants
TokenSymmetry == Permutations(Tokens)
Symmetry == TokenSymmetry \cup Permutations(Subjects)
===============================================================================
