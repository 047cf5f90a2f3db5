------------------------------ MODULE AuditTrail ------------------------------
(***************************************************************************)
(* What agentd and the audit log promise together (ADR 0059): the trail    *)
(* tells of each change once, in the order of the changes, and nothing is  *)
(* taken back.  A change may be told before agentd has saved it; one that  *)
(* agentd never saves, because it stopped, may be told late.               *)
(***************************************************************************)
EXTENDS Integers, Sequences

CONSTANT Keys    \* changes, numbered in their order

VARIABLES
    done,    \* the changes that will survive a restart
    trail,   \* what the log tells
    given    \* the changes that will not be told

Told == {trail[i] : i \in DOMAIN trail}

Init == done = {} /\ trail = << >> /\ given = {}

\* Changes are saved, and some are given up; neither comes back, and the trail stays.
Settle ==
    /\ done' \in SUBSET Keys /\ done \subseteq done'
    /\ given' \in SUBSET Keys /\ given \subseteq given'
    /\ UNCHANGED trail

\* The oldest change not told yet is told, once, and a saved change never after a later one.
Tell(k) ==
    /\ k \notin Told
    /\ \A j \in done \ (Told \cup given) : j < k => j = k
    /\ k \in done \ given => \A j \in Told : j < k
    /\ trail' = Append(trail, k)
    /\ UNCHANGED <<done, given>>

Next == Settle \/ \E k \in Keys : Tell(k)
Spec == Init /\ [][Next]_<<done, trail, given>>
===============================================================================
