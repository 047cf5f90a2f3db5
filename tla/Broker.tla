-------------------------------- MODULE Broker --------------------------------
(***************************************************************************)
(* The capability broker: tokens, delegation and revocation (crate capd,   *)
(* broker.rs, revocations.rs and the cap.* handlers of prophet-capd).      *)
(*                                                                         *)
(* A root token is minted for a task; a token can be delegated to a        *)
(* sub-task with a subset of its grants.  Tokens are signed and kept by    *)
(* their holders; the broker keeps in memory the tokens it issued, to walk *)
(* a chain of parents, and the revoked subjects.  Only the revocations are *)
(* on disk, one line each, appended and synchronised before the answer.    *)
(*                                                                         *)
(* A grant is the set of targets its pattern covers, so is_subset_of is    *)
(* set inclusion; the task.spawn grant, whose max_depth constraint bounds  *)
(* the chain, is kept apart.  A parent digest pins the whole chain above a *)
(* token: the record carries that chain as the set "above".  The Cedar     *)
(* policy and the classes of actions only refuse more and are left out, as *)
(* are the two caches, whose keys hold every input of what they remember.  *)
(***************************************************************************)
EXTENDS Naturals, FiniteSets

CONSTANTS
    Tokens,       \* identities (digests) of the tokens that may be issued
    NoToken,      \* no parent
    Subjects,     \* tasks
    Glued,        \* a line of the register made of a fragment and a revocation
    Targets,      \* what a request can name
    Grants,       \* grants that may be requested: sets of targets
    Ceiling,      \* grants of the manifest
    CeilingSpawn, \* task.spawn grant of the manifest
    NoSpawn,      \* of a token without a task.spawn grant
    AnyDepth,     \* of a token whose task.spawn grant has no max_depth
    SpawnLimits,  \* values of max_depth met in task.spawn grants
    TTLs,         \* lifetimes asked for, in seconds
    Second,       \* ticks of the clock in a second
    MaxClock,     \* bound on time
    MaxCrashes,   \* bound on crashes
    MaxFaults     \* bound on failed writes of the register

ASSUME BrokerAssumption ==
    /\ NoToken \notin Tokens \cup Subjects
    /\ Glued \notin Subjects
    /\ Grants \subseteq SUBSET Targets
    /\ Ceiling \subseteq Grants
    /\ SpawnLimits \subseteq Nat
    /\ NoSpawn \notin SpawnLimits /\ AnyDepth \notin SpawnLimits /\ NoSpawn # AnyDepth
    /\ CeilingSpawn \in {NoSpawn, AnyDepth} \cup SpawnLimits
    /\ TTLs \subseteq Nat \ {0} /\ Second \in Nat \ {0}
    /\ MaxClock \in Nat /\ MaxCrashes \in Nat /\ MaxFaults \in Nat

VARIABLES
    token,      \* token[t]: what the signed token t says
    signed,     \* tokens signed so far; their holders keep them
    issued,     \* tokens the running broker remembers having issued
    revoked,    \* subjects revoked in the broker's memory
    lines,      \* complete lines of the register: subjects, or Glued
    unsynced,   \* lines a power loss may still take away
    torn,       \* the register ends with a fragment without its newline
    capd,       \* "up", "down", or "refused" when the register is unreadable
    writing,    \* the subject whose line is being written, or NoToken
    clock,      \* ticks: an instant is finer than a second
    crashes,    \* crashes so far
    faults,     \* failed writes so far
    inscribed,  \* history: subjects whose revocation was answered by the call that wrote it
    answered    \* history: subjects with any successful answer of cap.revoke

vars == <<token, signed, issued, revoked, lines, unsynced, torn, capd, writing,
          clock, crashes, faults, inscribed, answered>>
tokens == <<token, signed, issued>>
register == <<lines, unsynced, torn>>
history == <<inscribed, answered>>

Spawns == {NoSpawn, AnyDepth} \cup SpawnLimits

Blank == [sub |-> NoToken, parent |-> NoToken, above |-> {}, grants |-> {},
          spawn |-> NoSpawn, born |-> 0, exp |-> 0]

Init ==
    /\ token = [t \in Tokens |-> Blank]
    /\ signed = {} /\ issued = {}
    /\ revoked = {} /\ lines = {} /\ unsynced = {} /\ torn = FALSE
    /\ capd = "up" /\ writing = NoToken
    /\ clock = 0 /\ crashes = 0 /\ faults = 0
    /\ inscribed = {} /\ answered = {}

\* The broker answers one call at a time: its lock is held while a line is written.
Ready == capd = "up" /\ writing = NoToken

-----------------------------------------------------------------------------
(* Issuing tokens *)

Covered(g, over) == \E p \in over : g \subseteq p

\* A task.spawn grant of a child is as strict as its parent's.
SpawnCovered(c, p) ==
    \/ c = NoSpawn
    \/ p = AnyDepth
    \/ c \in SpawnLimits /\ p \in SpawnLimits /\ c <= p

DEFAULT_MAX_DEPTH == 3

MaxDepth(t) == IF token[t].spawn \in SpawnLimits THEN token[t].spawn ELSE DEFAULT_MAX_DEPTH

\* The walk from t up to its root, through the tokens the broker remembers.
DepthOf(t) == Cardinality(token[t].above)

Issue(t, record) ==
    /\ t \in Tokens \ signed
    /\ token' = [token EXCEPT ![t] = record]
    /\ signed' = signed \cup {t}
    /\ issued' = issued \cup {t}

Mint(t, sub, requested, spawn, ttl) ==
    LET granted == {g \in requested : Covered(g, Ceiling)}
    IN  /\ Ready
        /\ granted # {}
        /\ Issue(t, [sub |-> sub, parent |-> NoToken, above |-> {}, grants |-> granted,
                     spawn |-> IF SpawnCovered(spawn, CeilingSpawn) THEN spawn ELSE NoSpawn,
                     born |-> clock, exp |-> clock + ttl * Second])
        /\ UNCHANGED <<revoked, register, capd, writing, clock, crashes, faults, history>>

\* Whole seconds left to the parent, and at least one: even when less is left to it, and
\* when it has expired.
Remaining(p) ==
    IF token[p].exp >= clock + Second THEN (token[p].exp - clock) \div Second ELSE 1

\* Mutant: the lifetime of the parent is not looked at.
ShorterAsAsked(a, b) == a

Shorter(a, b) == IF a < b THEN a ELSE b

\* Mutants: a parent nobody remembers is accepted; one covered grant is enough; the parent's
\* own depth is compared.
MayDelegateUnknown(p, requested, spawn) ==
    /\ p \in signed
    /\ DepthOf(p) + 1 <= MaxDepth(p)
    /\ \A g \in requested : Covered(g, token[p].grants)
    /\ SpawnCovered(spawn, token[p].spawn)
MayDelegateAnyCovered(p, requested, spawn) ==
    /\ p \in issued
    /\ DepthOf(p) + 1 <= MaxDepth(p)
    /\ \E g \in requested : Covered(g, token[p].grants)
    /\ SpawnCovered(spawn, token[p].spawn)

MayDelegate(p, requested, spawn) ==
    /\ p \in issued
    /\ DepthOf(p) + 1 <= MaxDepth(p)
    /\ \A g \in requested : Covered(g, token[p].grants)
    /\ SpawnCovered(spawn, token[p].spawn)

Delegate(p, t, sub, requested, spawn, ttl) ==
    /\ Ready
    /\ MayDelegate(p, requested, spawn)
    /\ Issue(t, [sub |-> sub, parent |-> p, above |-> token[p].above \cup {p},
                 grants |-> requested, spawn |-> spawn, born |-> clock,
                 exp |-> clock + Shorter(ttl, Remaining(p)) * Second])
    /\ UNCHANGED <<revoked, register, capd, writing, clock, crashes, faults, history>>

-----------------------------------------------------------------------------
(* cap.check *)

\* The walk stops on a revoked subject, and on a parent the broker does not know.
HasRevokedAncestor(t) ==
    \/ token[t].sub \in revoked
    \/ \E a \in token[t].above : a \notin issued \/ token[a].sub \in revoked

IsExpired(t) == clock >= token[t].exp

FindGrant(t, target) == \E g \in token[t].grants : target \in g

Check(t, target) ==
    /\ t \in signed
    /\ ~ HasRevokedAncestor(t)
    /\ ~ IsExpired(t)
    /\ FindGrant(t, target)

-----------------------------------------------------------------------------
(* cap.revoke and the register *)

\* A new subject is revoked in memory at once, then its line is written.
Revoke(s) ==
    /\ Ready
    /\ s \notin revoked
    /\ revoked' = revoked \cup {s}
    /\ writing' = s
    /\ UNCHANGED <<tokens, register, capd, clock, crashes, faults, history>>

\* A subject already revoked in memory is answered without another line.
RevokeAgain(s) ==
    /\ Ready
    /\ s \in revoked
    /\ answered' = answered \cup {s}
    /\ UNCHANGED <<tokens, revoked, register, capd, writing, clock, crashes, faults, inscribed>>

\* A line appended after a fragment is one line with it.
Line == IF torn THEN Glued ELSE writing

\* Mutant: the line is written and not synchronised before the answer.
InscribeUnsynced ==
    /\ capd = "up" /\ writing # NoToken
    /\ lines' = lines \cup {Line}
    /\ unsynced' = unsynced \cup ({Line} \ lines)
    /\ torn' = FALSE
    /\ inscribed' = inscribed \cup {writing}
    /\ answered' = answered \cup {writing}
    /\ writing' = NoToken
    /\ UNCHANGED <<tokens, revoked, capd, clock, crashes, faults>>

\* The line is written and synchronised, and the call succeeds.
Inscribe ==
    /\ capd = "up" /\ writing # NoToken
    /\ lines' = lines \cup {Line}
    /\ unsynced' = unsynced \ {Line}
    /\ torn' = FALSE
    /\ inscribed' = inscribed \cup {writing}
    /\ answered' = answered \cup {writing}
    /\ writing' = NoToken
    /\ UNCHANGED <<tokens, revoked, capd, clock, crashes, faults>>

\* What an interrupted or failed write leaves: nothing, a fragment, or a line not synchronised.
WrittenInPart ==
    \/ UNCHANGED register
    \/ torn' = TRUE /\ UNCHANGED <<lines, unsynced>>
    \/ /\ lines' = lines \cup {Line}
       /\ unsynced' = unsynced \cup ({Line} \ lines)
       /\ torn' = FALSE

\* The write fails: the error says the revocation holds until the restart only.
InscribeFails ==
    /\ capd = "up" /\ writing # NoToken
    /\ faults < MaxFaults /\ faults' = faults + 1
    /\ WrittenInPart
    /\ writing' = NoToken
    /\ UNCHANGED <<tokens, revoked, capd, clock, crashes, history>>

\* The memory of the broker is gone.
Stop ==
    /\ crashes < MaxCrashes
    /\ capd' = "down" /\ crashes' = crashes + 1
    /\ writing' = NoToken
    /\ issued' = {} /\ revoked' = {}
    /\ UNCHANGED <<token, signed, clock, faults, history>>

\* The process dies, perhaps in the middle of a write.
Crash ==
    /\ capd = "up"
    /\ Stop
    /\ IF writing # NoToken THEN WrittenInPart ELSE UNCHANGED register

\* The machine loses power: what was not synchronised may be gone.
PowerLoss ==
    /\ capd \in {"up", "down"} /\ writing = NoToken
    /\ Stop
    /\ \E lost \in SUBSET unsynced : lines' = lines \ lost
    /\ unsynced' = {}
    /\ UNCHANGED torn

\* The register is read again: a fragment is removed, an unreadable line stops the start.
Start ==
    /\ capd = "down"
    /\ capd' = IF Glued \in lines THEN "refused" ELSE "up"
    /\ torn' = IF Glued \in lines THEN torn ELSE FALSE
    /\ revoked' = IF Glued \in lines THEN {} ELSE lines
    /\ UNCHANGED <<tokens, lines, unsynced, writing, clock, crashes, faults, history>>

Tick ==
    /\ clock < MaxClock /\ clock' = clock + 1
    /\ UNCHANGED <<tokens, revoked, register, capd, writing, crashes, faults, history>>

Next ==
    \/ \E t \in Tokens, s \in Subjects, ttl \in TTLs, spawn \in Spawns :
          \E requested \in SUBSET Grants \ {{}} :
             \/ Mint(t, s, requested, spawn, ttl)
             \/ \E p \in Tokens : Delegate(p, t, s, requested, spawn, ttl)
    \/ \E s \in Subjects : Revoke(s) \/ RevokeAgain(s)
    \/ Inscribe \/ InscribeFails \/ Crash \/ PowerLoss \/ Start \/ Tick

Spec == Init /\ [][Next]_vars

-----------------------------------------------------------------------------
(* Correctness *)

Record == [sub : Subjects \cup {NoToken}, parent : Tokens \cup {NoToken},
           above : SUBSET Tokens, grants : SUBSET Grants, spawn : Spawns,
           born : Nat, exp : Nat]

\* The variables keep to their types.
TypeOK ==
    /\ token \in [Tokens -> Record]
    /\ signed \in SUBSET Tokens /\ issued \in SUBSET Tokens
    /\ revoked \in SUBSET Subjects
    /\ lines \in SUBSET (Subjects \cup {Glued}) /\ unsynced \in SUBSET (Subjects \cup {Glued})
    /\ torn \in BOOLEAN
    /\ capd \in {"up", "down", "refused"}
    /\ writing \in Subjects \cup {NoToken}
    /\ clock \in Nat /\ crashes \in Nat /\ faults \in Nat
    /\ inscribed \in SUBSET Subjects /\ answered \in SUBSET Subjects

\* The subjects whose revocation condemns t: its own and those of its ancestors.
Chain(t) == {token[a].sub : a \in token[t].above \cup {t}}

\* Once the call that wrote a revocation has answered, no token of the subject nor of its
\* descendants passes a check again, whatever crashes and restarts follow.
RevocationHolds ==
    \A t \in signed, target \in Targets :
        capd = "up" /\ Chain(t) \cap inscribed # {} => ~ Check(t, target)

\* The same after any successful answer of cap.revoke.
AnsweredRevocationHolds ==
    \A t \in signed, target \in Targets :
        capd = "up" /\ Chain(t) \cap answered # {} => ~ Check(t, target)

\* A chain of delegations of any length never reaches a target that one of its tokens lacked.
DelegationNarrows ==
    \A t \in signed, target \in Targets :
        FindGrant(t, target) => \A a \in token[t].above : FindGrant(a, target)

\* Depth allowed by the root of t's chain.
Root(t) == CHOOSE a \in token[t].above \cup {t} : token[a].parent = NoToken

\* A chain whose tokens all keep a bounded task.spawn grant is no deeper than its root allows.
SpawnersBounded ==
    \A t \in signed :
        (\A a \in token[t].above : token[a].spawn \in SpawnLimits)
            => token[t].above = {} \/ Cardinality(token[t].above) <= token[Root(t)].spawn

\* The depth of a delegation is bounded by the max_depth of the root token, 3 by default.
DepthWithinRoot ==
    \A t \in signed : Cardinality(token[t].above) <= MaxDepth(Root(t))

\* Each delegation of t's chain was made with at least a second left to the parent.
InTime(t) ==
    \A b \in token[t].above \cup {t} :
        token[b].parent # NoToken => token[b].born + Second <= token[token[b].parent].exp

AncestorsOutlive ==
    \A t \in signed : InTime(t) => \A a \in token[t].above : token[t].exp <= token[a].exp

SecondAtMost ==
    \A t \in signed : token[t].parent # NoToken =>
        \/ token[t].exp <= token[token[t].parent].exp
        \/ token[t].exp <= token[t].born + Second

\* A token whose chain was delegated in time outlives none of its ancestors; whatever was left
\* to its parent, a child outlives it by no more than the second that follows its own birth.
HeldWithinParent == AncestorsOutlive /\ SecondAtMost

\* A child delegated by a token still alive never outlives it.
ChildDiesFirst ==
    \A t \in signed :
        token[t].parent # NoToken /\ token[t].born < token[token[t].parent].exp
            => token[t].exp <= token[token[t].parent].exp

\* No complete line of the register is unreadable: a start never refuses.
RegisterReadable == Glued \notin lines

\* The broker remembers the whole chain above every token it remembers, so the walk of
\* depth_of and of has_revoked_ancestor never stops short on a token issued in this life.
ChainKnown == \A t \in issued : token[t].above \subseteq issued
===============================================================================
