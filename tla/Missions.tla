------------------------------- MODULE Missions --------------------------------
(***************************************************************************)
(* The missions of agentd from their plan to their end: the state each     *)
(* mission has in the service (runtime.rs, task.rs), and the threads that  *)
(* lead it (bin/prophet-agentd.rs, local.rs).                              *)
(*                                                                         *)
(* A mission is led by a local worker, or by a tool session that a client  *)
(* attaches to; a mission planned on an official client is also held by    *)
(* the thread that waits for the client, launched in the human's session.  *)
(* A worker keeps its own copy of the task and publishes it whole.  jobs   *)
(* says who may be told to stop, seances holds the open sessions; both are *)
(* tables of the service with locks of their own, apart from the runtime's.*)
(* A worker delegates: a child mission runs in its thread, on half of what *)
(* is left of its budget, and is charged to it at its end.                 *)
(*                                                                         *)
(* Budgets are counted in steps: the other dimensions follow the same      *)
(* arithmetic.  Tokens of capd, workspaces, tools and children led by an   *)
(* official client are left out; trees stay below MAX_DEPTH.               *)
(***************************************************************************)
EXTENDS Integers, FiniteSets

CONSTANTS
    Roots,      \* missions prepared by the human
    Kids,       \* Kids[m]: the ids m gives to its children, in their order
    Missions,   \* every mission, naturals
    Clients,    \* the roots that may be planned on an official client
    Workers,    \* attempts to lead a mission, each used once
    Startable,  \* the missions the human starts
    Steps,      \* limits.steps of a root
    LocalMax,   \* jobs beyond which no mission starts (2)
    SessionMax, \* jobs beyond which no session opens (4)
    Halts,      \* the human also asks for everything to stop
    Faults,     \* what may go wrong, subset of {"save", "crash", "log", "error"}
    MaxFaults   \* bound on the faults of the run

None == 0
ASSUME MissionsAssumption ==
    /\ Missions \subseteq Nat \ {None} /\ None \notin Workers
    /\ Roots \subseteq Missions /\ Clients \subseteq Roots /\ Startable \subseteq Missions
    /\ Kids \in [Missions -> SUBSET (Missions \ Roots)]
    /\ Steps \in Nat /\ LocalMax \in Nat /\ SessionMax \in Nat /\ MaxFaults \in Nat
    /\ Halts \in BOOLEAN
\* A child is named after its parent.
ASSUME FamiliesAssumption == \A m, n \in Missions : m # n => Kids[m] \cap Kids[n] = {}

VARIABLES
    drivers,   \* the roots planned on an official client
    alive,     \* the service is running
    tasks,     \* tasks[m]: state, spent and limit, in the memory of the service
    disk,      \* the same as last saved (taches.json)
    jobs,      \* jobs[m]: the worker to tell to stop, or None
    seances,   \* seances[m]: the session open on m, or None
    clients,   \* clients[m]: the thread that holds an official client, and the session it took
    workers,   \* workers[w]: where the attempt is, its mission, kind, parent, count and outcome
    stop,      \* workers told to stop
    taken,     \* sessions taken off the table to be concluded, and how
    asked,     \* cancellations asked and not looked up yet
    unstarted, \* cancellations that found no worker
    flagged,   \* cancellations that told a worker to stop, and did not clear the tables yet
    halt,      \* the human has asked for everything to stop
    log,       \* log[m]: what the audit log says of the end of m
    used,      \* history: steps really taken for m and for all it delegates
    faults     \* faults so far

tables == <<jobs, seances, clients>>
requests == <<stop, taken, asked, unstarted, flagged, halt>>
vars == <<drivers, alive, tasks, disk, tables, workers, requests, log, used, faults>>

Final == {"done", "failed", "cancelled"}
Plan(limit) == [state |-> "planned", spent |-> 0, limit |-> limit]
Unborn == [state |-> "unborn", spent |-> 0, limit |-> 0]
Idle == [at |-> "idle", m |-> None, kind |-> "local", parent |-> None, spent |-> 0,
         outcome |-> "none"]
Ended == [at |-> "ended", m |-> None, kind |-> "local", parent |-> None, spent |-> 0,
          outcome |-> "none"]
Attempt(m, kind, parent) ==
    [at |-> "reserved", m |-> m, kind |-> kind, parent |-> parent, spent |-> 0, outcome |-> "none"]
NoClient == [at |-> "none", took |-> None]

Strike(kind) == kind \in Faults /\ faults < MaxFaults /\ faults' = faults + 1
\* ecrire, under the lock of the runtime.
Saved == disk' = tasks' /\ UNCHANGED faults
NotSaved == Strike("save") /\ UNCHANGED disk
Saves == Saved \/ NotSaved

Moves(w, at) == workers' = [workers EXCEPT ![w].at = at]
\* Where a worker is between two steps of its mission.
Between(w) == IF workers[w].kind = "local" THEN "working" ELSE "open"
\* The worker publishes its own copy of the task.
Publishes(w, state, spent) ==
    tasks' = [tasks EXCEPT ![workers[w].m].state = state, ![workers[w].m].spent = spent]

-------------------------------------------------------------------------------
(* Starting: task.start on a local plan, and task.attach.                  *)

\* Workers are alike: they are taken in a fixed order.
InTurn(w) == w = CHOOSE v \in Workers : workers[v].at = "idle"
\* Bound: a worker is kept for every child that is planned.
Spare == Cardinality({w \in Workers : workers[w].at = "idle"})
         > Cardinality({w \in Workers : workers[w].at = "planned"})
Slots == Cardinality({m \in Missions : jobs[m] # None})
       + Cardinality({m \in Missions : clients[m].at = "out"})
Reserved(w, m, kind) ==
    /\ jobs' = [jobs EXCEPT ![m] = w]
    /\ workers' = [workers EXCEPT ![w] = Attempt(m, kind, None)]
    /\ UNCHANGED <<drivers, alive, tasks, disk, seances, clients, requests, log, used, faults>>
MayStart(w, m, kind) ==
    /\ alive /\ workers[w].at = "idle" /\ InTurn(w) /\ Spare
    /\ ~halt   \* bound: the human starts nothing after having stopped everything
    /\ m \in Startable /\ tasks[m].state # "unborn"
    /\ kind = "local" => m \notin drivers
    /\ Slots < IF kind = "local" THEN LocalMax ELSE SessionMax

\* Mutant: a mission already in hand may be taken again.
ReserveAgain(w, m, kind) == MayStart(w, m, kind) /\ Reserved(w, m, kind)
Reserve(w, m, kind) == MayStart(w, m, kind) /\ jobs[m] = None /\ Reserved(w, m, kind)

\* Mutant: the state of the mission is not looked at.
BeginUnchecked(w) ==
    /\ alive /\ workers[w].at = "reserved"
    /\ tasks' = [tasks EXCEPT ![workers[w].m].state = "running"]
    /\ Saved
    /\ Moves(w, IF workers[w].kind = "local" THEN "working" ELSE "opening")
    /\ UNCHANGED <<drivers, alive, tables, requests, log, used>>
\* Mutant: a launch that is not saved leaves the mission as it made it.
BeginUnsaved(w) ==
    /\ alive /\ workers[w].at = "reserved"
    /\ IF tasks[workers[w].m].state # "planned"
       THEN Moves(w, "refused") /\ UNCHANGED <<tasks, disk, faults>>
       ELSE /\ tasks' = [tasks EXCEPT ![workers[w].m].state = "running"]
            /\ \/ Saved /\ Moves(w, IF workers[w].kind = "local" THEN "working" ELSE "opening")
               \/ NotSaved /\ Moves(w, "refused")
    /\ UNCHANGED <<drivers, alive, tables, requests, log, used>>
\* begin_local, begin_seance: the plan becomes a running mission, and that is saved.  A root
\* whose launch is not saved fails; a child keeps the state it was given.
Begin(w) ==
    /\ alive /\ workers[w].at = "reserved"
    /\ LET m == workers[w].m
       IN IF tasks[m].state # "planned"
          THEN Moves(w, "refused") /\ UNCHANGED <<tasks, disk, faults>>
          ELSE \/ /\ tasks' = [tasks EXCEPT ![m].state = "running"]
                  /\ Saved
                  /\ Moves(w, IF workers[w].kind = "local" THEN "working" ELSE "opening")
               \/ /\ tasks' = [tasks EXCEPT ![m].state =
                                   IF workers[w].parent = None THEN "failed" ELSE "running"]
                  /\ NotSaved
                  /\ Moves(w, "refused")
    /\ UNCHANGED <<drivers, alive, tables, requests, log, used>>

\* A launch that failed gives its place back, whoever holds it by then.
GiveBack(w) ==
    /\ alive /\ workers[w].at = "refused"
    /\ jobs' = [jobs EXCEPT ![workers[w].m] = None]
    /\ seances' = IF workers[w].kind = "local" THEN seances
                  ELSE [seances EXCEPT ![workers[w].m] = None]
    /\ workers' = [workers EXCEPT ![w].at = "ended", ![w].outcome = "refused"]
    /\ UNCHANGED <<drivers, alive, tasks, disk, clients, requests, log, used, faults>>

\* Mission::attach, in its thread: told to stop, or an error, it concludes; else the session
\* is open, and is put on the table after.
OpenSession(w) ==
    /\ alive /\ workers[w].at = "opening"
    /\ \/ w \notin stop /\ Moves(w, "opened") /\ UNCHANGED faults
       \/ /\ IF w \in stop THEN UNCHANGED faults ELSE Strike("error")
          /\ workers' = [workers EXCEPT ![w].at = "concluding", ![w].outcome = "failed",
                                        ![w].kind = "unopened"]
    /\ UNCHANGED <<drivers, alive, tasks, disk, tables, requests, log, used>>
Insert(w) ==
    /\ alive /\ workers[w].at = "opened"
    /\ seances' = [seances EXCEPT ![workers[w].m] = w]
    /\ Moves(w, "open")
    /\ UNCHANGED <<drivers, alive, tasks, disk, jobs, clients, requests, log, used, faults>>

-------------------------------------------------------------------------------
(* Working: a turn of the model, or a call of the client.                  *)

\* m, and every mission it is delegated from.
Above(m) == {a \in Missions : \A S \in SUBSET Missions :
                m \in S /\ (\A p \in Missions : Kids[p] \cap S # {} => p \in S) => a \in S}

\* Control::charge: the step is counted, published and saved before what it decided is done:
\* nothing, or a delegation.  A count that is not saved ends a local mission.
Charges(w) ==
    LET n == workers[w].spent + 1
    IN /\ Publishes(w, "running", n)
       /\ used' = [a \in Missions |-> used[a] + IF a \in Above(workers[w].m) THEN 1 ELSE 0]
       /\ \/ /\ Saved
             /\ \E next \in {Between(w)} \cup {"delegating" : k \in Kids[workers[w].m]} :
                    workers' = [workers EXCEPT ![w].spent = n, ![w].at = next]
          \/ /\ NotSaved
             /\ workers' = [workers EXCEPT ![w].spent = n,
                                ![w].at = IF @ = "working" THEN "concluding" ELSE @,
                                ![w].outcome = "failed"]
       /\ UNCHANGED <<drivers, alive, tables, requests, log>>
Turn(w) ==
    /\ alive /\ workers[w].at = Between(w)
    /\ w \notin stop
    /\ workers[w].spent < tasks[workers[w].m].limit
    /\ Charges(w)

\* The model has finished, or the worker stops: told to, its budget used up, an error.
Finish(w) ==
    /\ alive /\ workers[w].at = "working"
    /\ \E outcome \in {"done", "failed"} :
          /\ workers' = [workers EXCEPT ![w].at = "concluding", ![w].outcome = outcome]
          /\ IF outcome = "done"
             THEN w \notin stop /\ workers[w].spent > 0 /\ UNCHANGED faults
             ELSE IF w \in stop \/ workers[w].spent >= tasks[workers[w].m].limit
                  THEN UNCHANGED faults ELSE Strike("error")
    /\ UNCHANGED <<drivers, alive, tasks, disk, tables, requests, log, used>>

\* Mutant: a mission whose end the audit log refuses keeps its outcome.
ConcludeAnyway(w) ==
    /\ alive /\ workers[w].at = "concluding"
    /\ LET end == IF w \in stop THEN "cancelled" ELSE workers[w].outcome
       IN /\ \/ log' = [log EXCEPT ![workers[w].m] = @ \cup {end}] /\ UNCHANGED faults
             \/ Strike("log") /\ UNCHANGED log
          /\ workers' = [workers EXCEPT ![w].at = "logged", ![w].outcome = end]
    /\ UNCHANGED <<drivers, alive, tasks, disk, tables, requests, used>>
\* conclude: told to stop by now, the mission is cancelled whatever it did; its end is written
\* to the audit log, and a mission whose end is not confirmed there failed.
ConcludeLog(w) ==
    /\ alive /\ workers[w].at = "concluding"
    /\ LET m == workers[w].m
           end == IF w \in stop THEN "cancelled" ELSE workers[w].outcome
       IN \/ /\ log' = [log EXCEPT ![m] = @ \cup {end}]
             /\ workers' = [workers EXCEPT ![w].at = "logged", ![w].outcome = end]
             /\ UNCHANGED faults
          \/ /\ Strike("log")
             /\ log' \in {log, [log EXCEPT ![m] = @ \cup {end}]}
             /\ workers' = [workers EXCEPT ![w].at = "logged", ![w].outcome = "failed"]
    /\ UNCHANGED <<drivers, alive, tasks, disk, tables, requests, used>>
ConcludePublish(w) ==
    /\ alive /\ workers[w].at = "logged"
    /\ Publishes(w, workers[w].outcome, workers[w].spent)
    /\ Saves
    /\ Moves(w, "leaving")
    /\ UNCHANGED <<drivers, alive, tables, requests, log, used>>

\* A local mission is taken off the table as its thread ends; a session was taken off before
\* it concluded, and one that never opened is taken off here.
Leave(w) ==
    /\ alive /\ workers[w].at = "leaving"
    /\ jobs' = IF workers[w].kind = "seance" THEN jobs
               ELSE [jobs EXCEPT ![workers[w].m] = None]
    /\ Moves(w, "ended")
    /\ UNCHANGED <<drivers, alive, tasks, disk, seances, clients, requests, log, used, faults>>

-------------------------------------------------------------------------------
(* Delegating: deleguer runs in the thread of the parent, which waits.     *)

\* Budget::reserve at one half.
Half(t) == Plan((t.limit - t.spent) \div 2)
\* Refused on the way, or, once capd has delegated: plan_with_token, link_child, bind_owner and
\* ecrire under one lock.
PlanChild(w) ==
    /\ alive /\ workers[w].at = "delegating"
    /\ \/ Moves(w, Between(w)) /\ UNCHANGED <<tasks, disk, faults>>
       \/ \E c \in Kids[workers[w].m] :
             /\ Spare
             /\ tasks[c].state = "unborn"
             /\ \A k \in Kids[workers[w].m] : tasks[k].state = "unborn" => c <= k
             /\ tasks' = [tasks EXCEPT ![c] = Half(tasks[workers[w].m])]
             /\ \/ Saved /\ Moves(w, "planned")
                \/ NotSaved /\ Moves(w, Between(w))
    /\ UNCHANGED <<drivers, alive, tables, requests, log, used>>

\* The child takes its place without a look at the limit of jobs, nor at what holds it.
LaunchChild(w, child) ==
    /\ alive /\ workers[w].at = "planned" /\ workers[child].at = "idle" /\ InTurn(child)
    /\ \E c \in Kids[workers[w].m] :
          /\ tasks[c].state # "unborn"
          /\ \A k \in Kids[workers[w].m] : tasks[k].state # "unborn" => k <= c
          /\ jobs' = [jobs EXCEPT ![c] = child]
          /\ workers' = [workers EXCEPT ![w].at = "waiting", ![child] = Attempt(c, "local", w)]
    /\ UNCHANGED <<drivers, alive, tasks, disk, seances, clients, requests, log, used, faults>>

EndedChild(w) == {c \in Workers : workers[c].parent = w /\ workers[c].at = "ended"
                                  /\ workers[c].outcome # "absorbed"}
\* Mutant: a parent is not woken by a child that did not start.
ChildBackIfStarted(w) ==
    /\ alive /\ workers[w].at = "waiting"
    /\ \E c \in EndedChild(w) :
          /\ workers[c].outcome # "refused"
          /\ tasks' = [tasks EXCEPT ![workers[w].m].spent = @ + tasks[workers[c].m].spent]
    /\ Saves
    /\ Moves(w, "absorbing")
    /\ UNCHANGED <<drivers, alive, tables, requests, log, used>>
\* A child that did not start is an error of the tool; one that ended is charged to its parent,
\* first in the runtime (absorb_child, saved if it can be), then in the copy of the worker.
ChildBack(w) ==
    /\ alive /\ workers[w].at = "waiting"
    /\ \E c \in EndedChild(w) :
          IF workers[c].outcome = "refused"
          THEN /\ workers' = [workers EXCEPT ![w].at = Between(w), ![c].outcome = "absorbed"]
               /\ UNCHANGED <<tasks, disk, faults>>
          ELSE /\ tasks' = [tasks EXCEPT ![workers[w].m].spent = @ + tasks[workers[c].m].spent]
               /\ Saves
               /\ Moves(w, "absorbing")
    /\ UNCHANGED <<drivers, alive, tables, requests, log, used>>
\* Mutant: only the runtime's copy is charged, and the worker publishes its own over it.
AbsorbInRuntime(w) ==
    /\ alive /\ workers[w].at = "absorbing"
    /\ workers' = [c \in Workers |-> IF c = w THEN [workers[w] EXCEPT !.at = Between(w)]
                     ELSE IF c \in EndedChild(w) THEN [workers[c] EXCEPT !.outcome = "absorbed"]
                     ELSE workers[c]]
    /\ UNCHANGED <<drivers, alive, tasks, disk, tables, requests, log, used, faults>>
Absorb(w) ==
    /\ alive /\ workers[w].at = "absorbing"
    /\ \E c \in EndedChild(w) :
          LET n == workers[w].spent + tasks[workers[c].m].spent
          IN /\ Publishes(w, "running", n)
             /\ Saves
             /\ workers' = [workers EXCEPT ![w].at = Between(w), ![w].spent = n,
                                           ![c].outcome = "absorbed"]
    /\ UNCHANGED <<drivers, alive, tables, requests, log, used>>

-------------------------------------------------------------------------------
(* Sessions and official clients.                                          *)

\* retirer, and the session it gives to be concluded.
Withdraws(m, how) ==
    /\ seances' = [seances EXCEPT ![m] = None]
    /\ jobs' = [jobs EXCEPT ![m] = None]
    /\ taken' = taken \cup {<<s, how>> : s \in {seances[m]} \ {None}}

\* task.detach: the client withdraws.
Detach(m) ==
    /\ alive /\ seances[m] # None
    /\ Withdraws(m, "finish")
    /\ UNCHANGED <<drivers, alive, tasks, disk, clients, workers, stop, asked, unstarted, flagged, halt,
                   log, used, faults>>
\* Whoever took it concludes the session once no call holds it.  Finishing looks at the stop,
\* then seals the versions, which may fail; aborting is a failure.
Conclude(w) ==
    /\ alive /\ workers[w].at = "open"
    /\ \E how \in {"finish", "abort"}, outcome \in {"done", "failed"} :
          /\ <<w, how>> \in taken
          /\ outcome = "done" => how = "finish" /\ w \notin stop
          /\ IF outcome = "failed" /\ how = "finish" /\ w \notin stop
             THEN Strike("error") ELSE UNCHANGED faults
          /\ taken' = {t \in taken : t[1] # w}
          /\ workers' = [workers EXCEPT ![w].at = "concluding", ![w].outcome = outcome]
    /\ UNCHANGED <<drivers, alive, tasks, disk, tables, stop, asked, unstarted, flagged, halt, log, used>>

\* task.start on a plan that names an official client: the client is launched in the session
\* of the human, under a key of its own.
StartClient(m) ==
    /\ alive /\ ~halt
    /\ m \in drivers /\ clients[m].at = "none" /\ tasks[m].state = "planned"
    /\ Slots < LocalMax /\ jobs[m] = None
    /\ clients' = [clients EXCEPT ![m] = [NoClient EXCEPT !.at = "out"]]
    /\ UNCHANGED <<drivers, alive, tasks, disk, jobs, seances, workers, requests, log, used, faults>>
\* conclure_pilote: the client is gone, whatever it did.  What it left open is concluded, then
\* a mission that is not at its end fails.
ClientReturns(m) ==
    /\ alive /\ clients[m].at = "out"
    /\ clients' = [clients EXCEPT ![m] = [at |-> "back", took |-> seances[m]]]
    /\ Withdraws(m, "finish")
    /\ UNCHANGED <<drivers, alive, tasks, disk, workers, stop, asked, unstarted, flagged, halt,
                   log, used, faults>>
ClientEnds(m) ==
    /\ alive /\ clients[m].at = "back"
    /\ clients[m].took # None => workers[clients[m].took].at = "ended"
    /\ clients' = [clients EXCEPT ![m] = [NoClient EXCEPT !.at = "gone"]]
    /\ tasks' = [tasks EXCEPT ![m].state = IF @ \in Final THEN @ ELSE "failed"]
    /\ Saves
    /\ UNCHANGED <<drivers, alive, jobs, seances, workers, requests, log, used>>

-------------------------------------------------------------------------------
(* Cancelling one mission, or all of them.                                 *)

\* A cancellation may name any mission, at its end or not.
InHand(m) == jobs[m] # None \/ clients[m].at = "out" \/ tasks[m].state = "planned"
Cancel(m) ==
    /\ alive /\ tasks[m].state # "unborn"
    /\ asked = {} /\ unstarted = {} /\ flagged = {} \* bound: one cancellation at a time
    /\ asked' = asked \cup {m}
    /\ UNCHANGED <<drivers, alive, tasks, disk, tables, workers, stop, taken, unstarted, flagged, halt,
                   log, used, faults>>
\* task.halt: the missions in hand, as the tables are at that moment.
Halt ==
    /\ alive /\ Halts /\ ~halt
    /\ asked = {} /\ unstarted = {} /\ flagged = {}
    /\ halt' = TRUE
    /\ asked' = {m \in Missions : tasks[m].state \notin Final \cup {"unborn"} /\ InHand(m)}
    /\ UNCHANGED <<drivers, alive, tasks, disk, tables, workers, stop, taken, unstarted, flagged,
                   log, used, faults>>

\* annuler, under the lock of jobs.
LookUp(m) ==
    /\ alive /\ m \in asked
    /\ asked' = asked \ {m}
    /\ IF jobs[m] # None
       THEN stop' = stop \cup {jobs[m]} /\ flagged' = flagged \cup {m} /\ UNCHANGED unstarted
       ELSE unstarted' = unstarted \cup {m} /\ UNCHANGED <<stop, flagged>>
    /\ UNCHANGED <<drivers, alive, tasks, disk, tables, workers, taken, halt, log, used, faults>>
\* Then retirer, whatever leads the mission.
Retire(m) ==
    /\ alive /\ m \in flagged
    /\ flagged' = flagged \ {m}
    /\ Withdraws(m, "abort")
    /\ UNCHANGED <<drivers, alive, tasks, disk, clients, workers, stop, asked, unstarted, halt,
                   log, used, faults>>
\* Mutant: what had no worker a moment ago is cancelled, whatever it became.
CancelStarted(m) ==
    /\ alive /\ m \in unstarted
    /\ unstarted' = unstarted \ {m}
    /\ tasks' = [tasks EXCEPT ![m].state = IF @ \in Final THEN @ ELSE "cancelled"]
    /\ Saves
    /\ UNCHANGED <<drivers, alive, tables, workers, stop, taken, asked, flagged, halt, log, used>>
\* Or cancel_unstarted, under the lock of the runtime.
CancelPlan(m) ==
    /\ alive /\ m \in unstarted
    /\ unstarted' = unstarted \ {m}
    /\ IF tasks[m].state = "planned"
       THEN tasks' = [tasks EXCEPT ![m].state = "cancelled"] /\ Saves
       ELSE UNCHANGED <<tasks, disk, faults>>
    /\ UNCHANGED <<drivers, alive, tables, workers, stop, taken, asked, flagged, halt, log, used>>

-------------------------------------------------------------------------------
(* The service stops and starts again.                                     *)

Gone(w) == IF workers[w].at = "idle" THEN workers[w] ELSE Ended
Crash ==
    /\ alive /\ Strike("crash")
    /\ alive' = FALSE
    /\ workers' = [w \in Workers |-> Gone(w)]
    /\ jobs' = [m \in Missions |-> None] /\ seances' = jobs'
    /\ clients' = [m \in Missions |-> NoClient]
    /\ stop' = {} /\ taken' = {} /\ asked' = {} /\ unstarted' = {} /\ flagged' = {}
    /\ UNCHANGED <<drivers, tasks, disk, halt, log, used>>
Resumed(t) == IF t.state = "running" THEN [t EXCEPT !.state = "failed"] ELSE t
\* main: what ran has failed, and that is saved before the socket is open.
Restart ==
    /\ ~alive /\ alive' = TRUE
    /\ tasks' = [m \in Missions |-> Resumed(disk[m])]
    /\ disk' = tasks'
    /\ UNCHANGED <<drivers, tables, workers, requests, log, used, faults>>

Init ==
    /\ drivers \in SUBSET Clients
    /\ alive = TRUE
    /\ tasks = [m \in Missions |-> IF m \in Roots THEN Plan(Steps) ELSE Unborn]
    /\ disk = tasks
    /\ jobs = [m \in Missions |-> None] /\ seances = jobs
    /\ clients = [m \in Missions |-> NoClient]
    /\ workers = [w \in Workers |-> Idle]
    /\ stop = {} /\ taken = {} /\ asked = {} /\ unstarted = {} /\ flagged = {} /\ halt = FALSE
    /\ log = [m \in Missions |-> {}]
    /\ used = [m \in Missions |-> 0]
    /\ faults = 0

WorkerStep(w) ==
    \/ Begin(w) \/ GiveBack(w) \/ OpenSession(w) \/ Insert(w)
    \/ PlanChild(w) \/ (\E child \in Workers : LaunchChild(w, child)) \/ ChildBack(w) \/ Absorb(w)
    \/ Finish(w) \/ Conclude(w) \/ ConcludeLog(w) \/ ConcludePublish(w) \/ Leave(w)
ServiceStep(m) == LookUp(m) \/ Retire(m) \/ CancelPlan(m) \/ ClientEnds(m)
HumanStep ==
    \/ \E m \in Missions : Cancel(m) \/ Detach(m)
    \/ \E w \in Workers, m \in Missions, kind \in {"local", "seance"} : Reserve(w, m, kind)
    \/ \E m \in Clients : StartClient(m) \/ ClientReturns(m)
    \/ Halt
Next ==
    \/ \E w \in Workers : WorkerStep(w) \/ Turn(w)
    \/ \E m \in Missions : ServiceStep(m)
    \/ HumanStep
    \/ Crash \/ Restart

Spec == Init /\ [][Next]_vars
\* The threads of the service run, and a model that is asked for a turn answers or fails; a
\* human and a client do what they want, when they want.
Fairness == \A w \in Workers : WF_vars(WorkerStep(w) \/ (Turn(w) /\ workers[w].kind = "local"))
FairSpec == Spec /\ Fairness

-------------------------------------------------------------------------------
(* Properties.                                                             *)

Begun == {"working", "opening", "opened", "open", "delegating", "planned", "waiting",
          "absorbing", "concluding", "logged"}
Leads(w, m) == workers[w].m = m /\ workers[w].at \in Begun
Stored == [state : {"unborn", "planned", "running"} \cup Final, spent : 0 .. Steps, limit : 0 .. Steps]

\* The variables keep their types, and no mission is counted more steps than a root may take.
TypeOK ==
    /\ drivers \subseteq Clients /\ alive \in BOOLEAN /\ halt \in BOOLEAN
    /\ tasks \in [Missions -> Stored] /\ disk \in [Missions -> Stored]
    /\ jobs \in [Missions -> Workers \cup {None}] /\ seances \in [Missions -> Workers \cup {None}]
    /\ clients \in [Missions -> [at : {"none", "out", "back", "gone"}, took : Workers \cup {None}]]
    /\ workers \in [Workers ->
          [at : Begun \cup {"idle", "reserved", "refused", "leaving", "ended"},
           m : Missions \cup {None}, kind : {"local", "seance", "unopened"},
           parent : Workers \cup {None}, spent : 0 .. Steps,
           outcome : {"none", "refused", "absorbed"} \cup Final]]
    /\ stop \subseteq Workers /\ taken \subseteq Workers \X {"finish", "abort"}
    /\ asked \subseteq Missions /\ unstarted \subseteq Missions /\ flagged \subseteq Missions
    /\ log \in [Missions -> SUBSET Final] /\ used \in [Missions -> 0 .. Steps]
    /\ faults \in 0 .. MaxFaults

\* A mission and all it delegates take no more steps than it was given, and a root no more than
\* the human gave it ("une hiérarchie de tâches ne peut pas dépenser plus que sa racine",
\* budget.rs): its own count and those of its children meet in two copies of the task, of which
\* the worker's is published last.
BudgetKept ==
    \A m \in Missions : used[m] <= IF m \in Roots THEN Steps ELSE tasks[m].limit

\* At most one thread leads a mission, though jobs, seances and the state of the mission are
\* three tables read and written under three locks.
OneLeader ==
    \A m \in Missions, v, w \in Workers : Leads(v, m) /\ Leads(w, m) => v = w

\* A mission the service calls done has its end in the audit log.
DoneIsLogged == \A m \in Missions : tasks[m].state = "done" => "done" \in log[m]

\* A mission of the human that the service says is running is led by a thread: after a launch
\* that was not saved, a restart, an end, it is never left running with nobody to end it.
RunningIsLed ==
    \A m \in Roots : alive /\ tasks[m].state = "running" => \E w \in Workers : Leads(w, m)

\* A local worker at work can be told to stop, or has been: no launch that failed, no session
\* and no other mission takes its place on the table of jobs.  One exception is in the code: a
\* cancellation that catches a launch between its place and its start frees the place, a second
\* launch takes it and starts, and the first gives back what is no longer its own.
Stoppable ==
    \A w \in Workers :
        /\ workers[w].kind = "local"
        /\ workers[w].at \in {"working", "delegating", "planned", "waiting", "absorbing"}
        => \/ w \in stop \/ jobs[workers[w].m] = w
           \/ \E v \in stop : workers[v].m = workers[w].m

\* The mission of an official client that is gone is at its end once nothing leads it.
ClientsConcluded ==
    \A m \in drivers :
        clients[m].at = "gone" => tasks[m].state \in Final \/ \E w \in Workers : Leads(w, m)

\* A state that is called final stays, but for a mission whose official client comes back
\* while a session opens on it: cancellations, launches and late publications do not move it.
FinalIsFinal ==
    [][\A m \in Missions \ drivers :
          alive /\ alive' /\ tasks[m].state \in Final => tasks'[m].state = tasks[m].state]_vars

\* Every local worker comes to its end, children included, and so does every session that is
\* withdrawn: what a parent waits for, a budget, a stop or a fault always ends it.
WorkersEnd ==
    \A w \in Workers :
        /\ workers[w].at # "idle"
        /\ workers[w].kind = "local" \/ \E how \in {"finish", "abort"} : <<w, how>> \in taken
        ~> workers[w].at = "ended"

\* What the emergency stop says of itself: "toutes les missions en main s'arrêtent d'un geste de
\* l'humain" (prophet-agentd.rs, task.halt).  Once it has answered, every child at
\* work has been told to stop, as its parent has.
HaltReachesChildren ==
    halt /\ asked = {} /\ unstarted = {} /\ flagged = {} =>
        \A w \in Workers : workers[w].parent # None /\ workers[w].at = "working" => w \in stop
===============================================================================
