------------------------------ MODULE Approvals ------------------------------
(***************************************************************************)
(* The human's approvals: the queue of capd (crate capd, approvals.rs and  *)
(* the approval.* handlers), the calls of the tool registry that need one  *)
(* (crate mcp-system, registry.rs), and the human who decides.             *)
(*                                                                         *)
(* A call that needs a decision is submitted to capd.  capd answers at     *)
(* once when a standing rule covers the call, or when a decision "once"    *)
(* given for the same task, action and target waits for it; otherwise the  *)
(* question is put to the human, and the model makes the same call again   *)
(* after the decision.  capd saves the whole queue after each change and   *)
(* reads it again when it starts.  A call gives up after five seconds,     *)
(* while its request may still be handled.                                 *)
(*                                                                         *)
(* An "ask" is an action and its target; the summary and the reason the    *)
(* human reads are left out.  The registry has one call per task at a      *)
(* time.  cap.check is the revocation alone: Broker has the rest.          *)
(***************************************************************************)
EXTENDS Integers, Sequences, FiniteSets

CONSTANTS
    Tasks,        \* tasks with a token
    Agent,        \* Agent[t]: the agent of the task
    NoTask,       \* the task of a rule that covers an agent
    Calls,        \* calls a model may make: records [ask, irr]
    Scopes,       \* scopes the human uses, subset of {"once", "task", "agent"}
    RuleLife,     \* how long a rule for an agent lasts
    PendingLife,  \* how long a question waits (DEFAULT_TTL_HOURS)
    ResolvedLife, \* how long a decision is kept (RESOLVED_TTL_HOURS)
    MaxAsks,      \* bound on the questions put to the human
    MaxClock,     \* bound on time
    MaxCrashes,   \* bound on crashes of capd
    MaxFaults,    \* bound on saves that fail
    MaxLosses     \* bound on calls that give up

Asks == {c.ask : c \in Calls}
NoEnd == MaxClock + 1

ASSUME ApprovalsAssumption ==
    /\ NoTask \notin Tasks
    /\ \A c \in Calls : c.irr \in BOOLEAN
    /\ Scopes \subseteq {"once", "task", "agent"}
    /\ RuleLife \in Nat /\ PendingLife \in Nat /\ ResolvedLife \in Nat
    /\ MaxAsks \in Nat /\ MaxClock \in Nat
    /\ MaxCrashes \in Nat /\ MaxFaults \in Nat /\ MaxLosses \in Nat

VARIABLES
    mem,      \* the queue in the memory of capd: pending, resolved, once, rules
    disk,     \* the queue as last saved
    up,       \* capd is running
    revoked,  \* subjects revoked
    call,     \* call[t]: the call of the task, and where it stands
    late,     \* requests whose caller gave up, not handled yet
    next,     \* number of the next question
    clock,    \* hours
    crashes, faults, losses,
    yes,      \* history: yes[t][a], irreversible requests the human allowed
    runs,     \* history: runs[t][a], irreversible calls that ran
    refused,  \* history: <<t, a>> the human refused for the whole task
    open,     \* history: questions put and neither decided nor lapsed
    after     \* history: after[t], calls that ran after the revocation of their task

caller == <<call, late>>
counts == <<next, clock, crashes>>
history == <<yes, runs, refused, open, after>>
vars == <<mem, disk, up, revoked, caller, counts, faults, losses, history>>

Idle == [at |-> "idle"]
Empty == [pending |-> {}, resolved |-> {}, once |-> {}, rules |-> <<>>]

Init ==
    /\ mem = Empty /\ disk = Empty /\ up = TRUE
    /\ revoked = {}
    /\ call = [t \in Tasks |-> Idle]
    /\ late = {}
    /\ next = 1 /\ clock = 0 /\ crashes = 0 /\ faults = 0 /\ losses = 0
    /\ yes = [t \in Tasks |-> [a \in Asks |-> 0]]
    /\ runs = [t \in Tasks |-> [a \in Asks |-> 0]]
    /\ refused = {} /\ open = {}
    /\ after = [t \in Tasks |-> 0]

\* The queue becomes q and is saved; a save that fails is logged and the call goes on.
Keep(q) ==
    /\ mem' = q
    /\ \/ disk' = q /\ UNCHANGED faults
       \/ faults < MaxFaults /\ faults' = faults + 1 /\ UNCHANGED disk

-----------------------------------------------------------------------------
(* approval.request *)

Covers(rule, t, a) ==
    /\ clock < rule.until
    /\ rule.ask = a
    /\ IF rule.task # NoTask THEN rule.task = t ELSE rule.agent = Agent[t]

\* Mutant: no standing rule covers an irreversible action, refusals included.
ApplicableReversible(t, c) ==
    {i \in DOMAIN mem.rules : Covers(mem.rules[i], t, c.ask) /\ ~ c.irr}

\* A standing permission does not cover an irreversible action; a standing refusal does.
Applicable(t, c) ==
    {i \in DOMAIN mem.rules :
        Covers(mem.rules[i], t, c.ask) /\ ~ (mem.rules[i].decision = "allow" /\ c.irr)}

\* The decisions "once" that wait for this call, the oldest first.
Waiting(t, c) == {o \in mem.once : o.task = t /\ o.ask = c.ask}
Oldest(S) == {o \in S : \A p \in S : o.made <= p.made}

RuleDecides(t, c, verdict) ==
    /\ \E i \in Applicable(t, c) :
          /\ \A j \in Applicable(t, c) : i <= j
          /\ verdict = mem.rules[i].decision
    /\ Keep(mem)
    /\ UNCHANGED <<next, open>>

\* Mutant: the decision is consumed and the queue is not saved.
OnceDecidesUnsaved(t, c, verdict) ==
    /\ Applicable(t, c) = {}
    /\ \E o \in Oldest(Waiting(t, c)) :
          /\ verdict = o.state
          /\ mem' = [mem EXCEPT !.once = @ \ {o}]
    /\ UNCHANGED <<next, open, disk, faults>>

OnceDecides(t, c, verdict) ==
    /\ Applicable(t, c) = {}
    /\ \E o \in Oldest(Waiting(t, c)) :
          /\ verdict = o.state
          /\ Keep([mem EXCEPT !.once = @ \ {o}])
    /\ UNCHANGED <<next, open>>

\* Mutant: the queue is not saved when a question is put.
AskUnsaved(t, c, verdict) ==
    /\ Applicable(t, c) = {} /\ Waiting(t, c) = {}
    /\ next <= MaxAsks /\ next' = next + 1
    /\ open' = open \cup {next}
    /\ verdict = "pending"
    /\ mem' = [mem EXCEPT !.pending = @ \cup
            {[id |-> next, task |-> t, ask |-> c.ask, irr |-> c.irr, made |-> clock,
              state |-> "pending", decidedAt |-> 0]}]
    /\ UNCHANGED <<disk, faults>>

Ask(t, c, verdict) ==
    /\ Applicable(t, c) = {} /\ Waiting(t, c) = {}
    /\ next <= MaxAsks /\ next' = next + 1
    /\ open' = open \cup {next}
    /\ verdict = "pending"
    /\ Keep([mem EXCEPT !.pending = @ \cup
            {[id |-> next, task |-> t, ask |-> c.ask, irr |-> c.irr, made |-> clock,
              state |-> "pending", decidedAt |-> 0]}])

Request(t, c, verdict) ==
    up /\ (RuleDecides(t, c, verdict) \/ OnceDecides(t, c, verdict) \/ Ask(t, c, verdict))

-----------------------------------------------------------------------------
(* The registry: call_recorded, authorize, approbation *)

\* Mutant: the revocations are not looked at.
CallUnchecked(t, c) ==
    /\ up /\ call[t] = Idle
    /\ call' = [call EXCEPT ![t] = [at |-> "asking", c |-> c]]
    /\ UNCHANGED <<mem, disk, up, revoked, late, counts, faults, losses, history>>

\* The check finds the right but asks for a decision; a revoked task is refused.
Call(t, c) ==
    /\ up /\ call[t] = Idle
    /\ t \notin revoked
    /\ call' = [call EXCEPT ![t] = [at |-> "asking", c |-> c]]
    /\ UNCHANGED <<mem, disk, up, revoked, late, counts, faults, losses, history>>

Answer(t) ==
    /\ call[t].at = "asking"
    /\ \E verdict \in {"allow", "deny", "pending"} :
          /\ Request(t, call[t].c, verdict)
          /\ call' = [call EXCEPT ![t] = [at |-> verdict, c |-> @.c]]
    /\ UNCHANGED <<up, revoked, late, clock, crashes, losses, yes, runs, refused, after>>

\* The tool runs.
Run(t) ==
    /\ call[t].at = "allow"
    /\ call' = [call EXCEPT ![t] = Idle]
    /\ runs' = IF call[t].c.irr THEN [runs EXCEPT ![t][call[t].c.ask] = @ + 1] ELSE runs
    /\ after' = IF t \in revoked THEN [after EXCEPT ![t] = @ + 1] ELSE after
    /\ UNCHANGED <<mem, disk, up, revoked, late, counts, faults, losses, yes, refused, open>>

\* The model is told that the call is refused, or to wait for the decision and call again.
Report(t) ==
    /\ call[t].at \in {"deny", "pending"}
    /\ call' = [call EXCEPT ![t] = Idle]
    /\ UNCHANGED <<mem, disk, up, revoked, late, counts, faults, losses, history>>

\* No answer within five seconds: the call is refused.  What capd answered is lost, and what
\* it did not handle yet may still be handled.
GiveUp(t) ==
    /\ call[t] # Idle /\ losses < MaxLosses
    /\ losses' = losses + 1
    /\ call' = [call EXCEPT ![t] = Idle]
    /\ late' = IF call[t].at = "asking" THEN late \cup {[task |-> t, c |-> call[t].c]} ELSE late
    /\ UNCHANGED <<mem, disk, up, revoked, counts, faults, history>>

AnswerNobody(r) ==
    /\ r \in late /\ late' = late \ {r}
    /\ \E verdict \in {"allow", "deny", "pending"} : Request(r.task, r.c, verdict)
    /\ UNCHANGED <<up, revoked, call, clock, crashes, losses, yes, runs, refused, after>>

\* approval.wait joins the model's reason to its question: capd saves the queue.
Explain(a) ==
    /\ up /\ a \in mem.pending
    /\ Keep(mem)
    /\ UNCHANGED <<up, revoked, caller, counts, losses, history>>

-----------------------------------------------------------------------------
(* The human *)

\* A permission of an irreversible action is for one time, whatever the scope asked for.
Effective(a, decision, scope) == IF decision = "allow" /\ a.irr THEN "once" ELSE scope

Rule(a, decision, scope) ==
    [decision |-> decision, ask |-> a.ask,
     task |-> IF scope = "task" THEN a.task ELSE NoTask,
     agent |-> Agent[a.task],
     until |-> IF scope = "agent" THEN clock + RuleLife ELSE NoEnd]

Resolved(a, decision, scope) ==
    LET r == [a EXCEPT !.state = decision, !.decidedAt = clock]
        e == Effective(a, decision, scope)
    IN  [mem EXCEPT
            !.pending = @ \ {a},
            !.resolved = @ \cup {r},
            !.once = IF e = "once" THEN @ \cup {r} ELSE @,
            !.rules = IF e = "once" THEN @ ELSE Append(@, Rule(a, decision, e))]

Resolve(a, decision, scope) ==
    /\ up /\ a \in mem.pending
    /\ Keep(Resolved(a, decision, scope))
    /\ yes' = IF decision = "allow" /\ a.irr THEN [yes EXCEPT ![a.task][a.ask] = @ + 1] ELSE yes
    /\ refused' = IF decision = "deny" /\ scope = "task"
                  THEN refused \cup {<<a.task, a.ask>>} ELSE refused
    /\ open' = open \ {a.id}
    /\ UNCHANGED <<up, revoked, caller, counts, losses, runs, after>>

\* The rules of s that are not about task t, in their order.
Without(s, t) ==
    LET kept[i \in 0 .. Len(s)] ==
            IF i = 0 THEN <<>>
            ELSE IF s[i].task # t THEN Append(kept[i - 1], s[i]) ELSE kept[i - 1]
    IN  kept[Len(s)]

\* The revocation of a task drops its rules; its decisions "once" stay.
Cleared(t) == [mem EXCEPT !.rules = Without(@, t)]

Revoke(t) ==
    /\ up
    /\ revoked' = revoked \cup {t}
    /\ Keep(Cleared(t))
    /\ UNCHANGED <<up, caller, counts, losses, history>>

-----------------------------------------------------------------------------
(* Time, crashes *)

\* approval.expire forgets old decisions, and saves only when a question lapses.
Expire ==
    /\ up
    /\ LET old == {a \in mem.pending : clock >= a.made + PendingLife}
           kept == [mem EXCEPT
                      !.pending = @ \ old,
                      !.resolved = {a \in @ : a.made + ResolvedLife > clock},
                      !.once = {a \in @ : a.made + ResolvedLife > clock}]
       IN  /\ IF old = {} THEN mem' = kept /\ UNCHANGED <<disk, faults>> ELSE Keep(kept)
           /\ open' = open \ {a.id : a \in old}
    /\ UNCHANGED <<up, revoked, caller, counts, losses, yes, runs, refused, after>>

Tick ==
    /\ clock < MaxClock /\ clock' = clock + 1
    /\ UNCHANGED <<mem, disk, up, revoked, caller, next, crashes, faults, losses, history>>

\* Requests not handled are lost with capd's sockets; an answer already sent may still arrive.
Crash ==
    /\ up /\ crashes < MaxCrashes
    /\ up' = FALSE /\ crashes' = crashes + 1
    /\ mem' = Empty /\ late' = {}
    /\ call' = [t \in Tasks |-> IF call[t].at = "asking" THEN Idle ELSE call[t]]
    /\ UNCHANGED <<disk, revoked, next, clock, faults, losses, history>>

Restart ==
    /\ ~ up /\ up' = TRUE
    /\ mem' = disk
    /\ UNCHANGED <<disk, revoked, caller, counts, faults, losses, history>>

Next ==
    \/ \E t \in Tasks, c \in Calls : Call(t, c)
    \/ \E t \in Tasks : Answer(t) \/ Run(t) \/ Report(t) \/ GiveUp(t) \/ Revoke(t)
    \/ \E r \in late : AnswerNobody(r)
    \/ \E a \in mem.pending : Explain(a)
    \/ \E a \in mem.pending, d \in {"allow", "deny"}, s \in Scopes : Resolve(a, d, s)
    \/ Expire \/ Tick \/ Crash \/ Restart

Spec == Init /\ [][Next]_vars
-----------------------------------------------------------------------------
(* Correctness *)

Approval == [id : 1 .. MaxAsks, task : Tasks, ask : Asks, irr : BOOLEAN, made : Nat,
             state : {"pending", "allow", "deny"}, decidedAt : Nat]
StandingRule == [decision : {"allow", "deny"}, ask : Asks, task : Tasks \cup {NoTask},
                 agent : {Agent[t] : t \in Tasks}, until : Nat]
Queue == [pending : SUBSET Approval, resolved : SUBSET Approval, once : SUBSET Approval,
          rules : Seq(StandingRule)]
Standing == {Idle} \cup [at : {"asking", "allow", "deny", "pending"}, c : Calls]

\* The variables keep to their types.
TypeOK ==
    /\ mem \in Queue /\ disk \in Queue
    /\ up \in BOOLEAN
    /\ revoked \in SUBSET Tasks
    /\ call \in [Tasks -> Standing]
    /\ late \in SUBSET [task : Tasks, c : Calls]
    /\ next \in 1 .. MaxAsks + 1
    /\ clock \in Nat /\ crashes \in Nat /\ faults \in Nat /\ losses \in Nat
    /\ yes \in [Tasks -> [Asks -> Nat]] /\ runs \in [Tasks -> [Asks -> Nat]]
    /\ refused \in SUBSET (Tasks \X Asks)
    /\ open \in SUBSET (1 .. MaxAsks)
    /\ after \in [Tasks -> Nat]

\* An irreversible call runs at most once for each permission the human gave to an
\* irreversible request of the same task, action and target.
YesSpentOnce == \A t \in Tasks, a \in Asks : runs[t][a] <= yes[t][a]

\* Each save that failed can let one of them run again after a restart, and no more.
SpentWithinFaults == \A t \in Tasks, a \in Asks : runs[t][a] <= yes[t][a] + faults

\* A question put to the human is before the human, and still after a restart, until it is
\* decided or lapses.
QuestionsKept == \A id \in open : \E a \in disk.pending : a.id = id

\* A revoked task runs at most the one call that capd had let through before.
OneLateRun == \A t \in Tasks : after[t] <= 1

\* What the human refused for the whole task, the task is not allowed, whatever permission
\* the human gave before.
Overruled(t) ==
    /\ call[t].at = "asking" /\ call'[t].at = "allow"
    /\ <<t, call[t].c.ask>> \in refused

RefusalStands == [][\A t \in Tasks : ~ Overruled(t)]_vars

\* The same of the irreversible calls of a task that was not revoked meanwhile.
IrreversibleRefusalStands ==
    [][\A t \in Tasks \ revoked : call[t].at = "asking" /\ call[t].c.irr => ~ Overruled(t)]_vars

\* A decision is readable for ResolvedLife after it was taken.
DecisionReadable ==
    [][\A a \in mem.resolved :
        up' /\ clock' < a.decidedAt + ResolvedLife => a \in mem'.resolved]_vars

\* A decision "once" is consumed within ResolvedLife, or not at all.
DecisionFresh ==
    [][\A t \in Tasks :
        call[t].at = "asking" /\ call'[t].at \in {"allow", "deny"}
            => \A o \in mem.once \ mem'.once : clock < o.decidedAt + ResolvedLife]_vars
===============================================================================
