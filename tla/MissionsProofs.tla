---------------------------- MODULE MissionsProofs -----------------------------
(***************************************************************************)
(* What holds of Missions for every set of missions, workers and clients,  *)
(* every budget and every fault: a mission has at most one leader, is      *)
(* called done only when the audit log has its end, is never left running  *)
(* with nobody to lead it, and keeps the final state it has reached; its   *)
(* local worker can always be told to stop; and it takes, with all that it *)
(* delegates, no more steps than it was given.                             *)
(*                                                                         *)
(* The invariant ties the threads to the states they publish: while a      *)
(* thread leads a mission that no official client holds, the service says  *)
(* it is running, so that nothing but that thread moves its state; a       *)
(* launch, a cancellation of a plan or a new child needs another state.    *)
(* What is told to stop is found by a second invariant, of the tables: who *)
(* holds a place is on them, or its mission was told to stop.  A third one *)
(* is of the counts: who leads has counted what was taken for its mission, *)
(* but for a child in progress, which was given no more than what is left. *)
(***************************************************************************)
EXTENDS Missions, TLAPS

Ats == Begun \cup {"idle", "reserved", "refused", "leaving", "ended"}
States == {"unborn", "planned", "running"} \cup Final
Attempts == [at : Ats, m : Missions \cup {None}, kind : {"local", "seance", "unopened"},
             parent : Workers \cup {None}, spent : Int,
             outcome : {"none", "refused", "absorbed"} \cup Final]
Task == [state : States, spent : Int, limit : Int]
Types ==
    /\ workers \in [Workers -> Attempts]
    /\ tasks \in [Missions -> Task] /\ disk \in [Missions -> Task]
    /\ log \in [Missions -> SUBSET Final]
    /\ DOMAIN clients = Missions
    /\ alive \in BOOLEAN /\ drivers \subseteq Clients

\* What is known of an attempt, against the states T and the log L of its mission.
Good(r, T, L, D) ==
    /\ r.at \in Begun \cup {"reserved", "refused", "leaving"} => r.m \in Missions
    /\ r.at \in Begun => /\ T[r.m].state \notin {"unborn", "planned"}
                         /\ r.m \notin D => T[r.m].state = "running"
    /\ r.at \in {"concluding", "logged"} => r.outcome \in Final
    /\ r.at = "logged" /\ r.outcome = "done" => "done" \in L[r.m]
    /\ r.at = "reserved" /\ r.m \in Roots => r.parent = None
    /\ r.parent # None => r.m \in Missions
AllGood == \A w \in Workers : Good(workers[w], tasks, log, drivers)
Stopped == ~alive => \A w \in Workers : workers[w].at \in {"idle", "ended"}
DiskLogged == \A m \in Missions : disk[m].state = "done" => "done" \in log[m]
Held == \A m \in Missions : clients[m].at \in {"out", "back"} => m \in drivers
MInv == Types /\ AllGood /\ Stopped /\ OneLeader /\ DoneIsLogged /\ DiskLogged /\ RunningIsLed /\ Held

\* No step moves the final state of a mission that no official client holds.
Kept ==
    \A m \in Missions \ drivers :
        alive /\ alive' /\ tasks[m].state \in Final => tasks'[m].state = tasks[m].state

-------------------------------------------------------------------------------
\* The tables of the service and the requests move: nothing above depends on them.
LEMMA TablesMove ==
    ASSUME MInv, UNCHANGED <<drivers, alive, tasks, disk, workers, log>>,
           DOMAIN clients' = Missions, Held'
    PROVE  MInv' /\ Kept
BY DEF MInv, Types, AllGood, Stopped, OneLeader, DoneIsLogged, DiskLogged, RunningIsLed, Leads, Kept

\* One worker moves, and may publish; another may change, that leads nothing before nor after.
LEMMA WorkerMoves ==
    ASSUME MInv, Types', NEW w \in Workers,
           alive, alive' = alive, drivers' = drivers, clients' = clients,
           \A v \in Workers \ {w} :
               workers'[v] = workers[v] \/ (workers[v].at \notin Begun /\ workers'[v].at \notin Begun
                                            /\ Good(workers'[v], tasks', log', drivers)),
           Good(workers'[w], tasks', log', drivers),
           \A m \in Missions : log[m] \subseteq log'[m],
           disk' = disk \/ disk' = tasks',
           \A m \in Missions : \/ tasks'[m].state = tasks[m].state
                               \/ \A v \in Workers \ {w} : ~Leads(v, m),
           workers'[w].at \in Begun => \A v \in Workers \ {w} : ~Leads(v, workers'[w].m),
           DoneIsLogged',
           \A m \in Roots : tasks'[m].state = "running" =>
               \/ workers'[w].at \in Begun /\ workers'[w].m = m
               \/ \E v \in Workers \ {w} : Leads(v, m)
    PROVE  MInv'
<1>1. AllGood'
  <2> SUFFICES ASSUME NEW v \in Workers PROVE Good(workers'[v], tasks', log', drivers)
    BY DEF AllGood
  <2>1. CASE v = w BY <2>1
  <2>2. CASE v # w /\ workers'[v] = workers[v]
    <3>1. Good(workers[v], tasks, log, drivers) BY DEF MInv, AllGood
    <3>2. workers[v].at \in Begun => Leads(v, workers[v].m) BY DEF Leads
    <3> QED BY <2>2, <3>1, <3>2 DEF Good, Begun
  <2> QED BY <2>1, <2>2
<1>2. OneLeader'
  <2> SUFFICES ASSUME NEW m \in Missions, NEW u \in Workers, NEW v \in Workers,
                      Leads(u, m)', Leads(v, m)'
               PROVE  u = v
    BY DEF OneLeader
  <2>1. \A x \in Workers \ {w} : Leads(x, m)' => Leads(x, m) BY DEF Leads
  <2>2. CASE u = w BY <2>1, <2>2 DEF Leads
  <2>3. CASE v = w BY <2>1, <2>3 DEF Leads
  <2>4. CASE u # w /\ v # w BY <2>1, <2>4 DEF MInv, OneLeader
  <2> QED BY <2>2, <2>3, <2>4
<1>3. DiskLogged' BY DEF MInv, DiskLogged, DoneIsLogged
<1>4. RunningIsLed'
  <2> SUFFICES ASSUME NEW m \in Roots, tasks'[m].state = "running"
               PROVE  \E v \in Workers : Leads(v, m)'
    BY DEF RunningIsLed
  <2>1. CASE workers'[w].at \in Begun /\ workers'[w].m = m BY <2>1 DEF Leads
  <2>2. CASE \E v \in Workers \ {w} : Leads(v, m) BY <2>2 DEF Leads
  <2> QED BY <2>1, <2>2
<1>5. Stopped' /\ Held' BY DEF Stopped, Held, MInv
<1> QED BY <1>1, <1>2, <1>3, <1>4, <1>5 DEF MInv

\* The leader of a mission goes on with it, or publishes its end and leaves.
LEMMA LeaderMoves ==
    ASSUME MInv, NEW w \in Workers, NEW r \in Attempts, NEW s \in Task,
           alive, UNCHANGED <<drivers, alive, clients>>,
           workers[w].at \in Begun, r.m = workers[w].m, r.at \in Begun \cup {"leaving"},
           workers' = [workers EXCEPT ![w] = r],
           tasks' = [tasks EXCEPT ![r.m] = s],
           disk' = disk \/ disk' = tasks',
           log' \in [Missions -> SUBSET Final], \A m \in Missions : log[m] \subseteq log'[m],
           r.at \in Begun => s.state = "running" \/ s.state = tasks[r.m].state,
           r.at = "leaving" => s.state \in Final /\ (s.state = "done" => "done" \in log'[r.m]),
           r.at \in {"concluding", "logged"} => r.outcome \in Final,
           r.at = "logged" /\ r.outcome = "done" => "done" \in log'[r.m]
    PROVE  MInv' /\ Kept
<1>1. /\ r.m \in Missions
      /\ Good(workers[w], tasks, log, drivers)
  BY DEF MInv, AllGood, Good
<1>2. Types'
  <2>1. workers' \in [Workers -> Attempts] /\ tasks' \in [Missions -> Task]
    BY <1>1 DEF MInv, Types
  <2> QED BY <2>1 DEF MInv, Types
<1>3. /\ workers'[w] = r /\ tasks'[r.m] = s
      /\ \A v \in Workers \ {w} : workers'[v] = workers[v]
      /\ \A m \in Missions \ {r.m} : tasks'[m] = tasks[m]
  BY <1>1 DEF MInv, Types
<1>4. \A v \in Workers \ {w} : ~Leads(v, r.m) BY <1>1 DEF MInv, OneLeader, Leads
<1>5. Good(workers'[w], tasks', log', drivers) BY <1>1, <1>3 DEF Good, Begun
<1>6. DoneIsLogged'
  <2> SUFFICES ASSUME NEW m \in Missions, tasks'[m].state = "done" PROVE "done" \in log'[m]
    BY DEF DoneIsLogged
  <2>1. tasks[m].state = "done" => "done" \in log[m] BY DEF MInv, DoneIsLogged
  <2> QED BY <2>1, <1>3
<1>7. \A m \in Roots : tasks'[m].state = "running" =>
          \/ workers'[w].at \in Begun /\ workers'[w].m = m
          \/ \E v \in Workers \ {w} : Leads(v, m)
  <2> SUFFICES ASSUME NEW m \in Roots, tasks'[m].state = "running", m # r.m
               PROVE  \E v \in Workers \ {w} : Leads(v, m)
    BY <1>3 DEF Final
  <2>1. tasks[m].state = "running" BY <1>3, MissionsAssumption
  <2>2. ~Leads(w, m) BY DEF Leads
  <2> QED BY <2>1, <2>2 DEF MInv, RunningIsLed
<1>8. /\ \A m \in Missions : \/ tasks'[m].state = tasks[m].state
                              \/ \A v \in Workers \ {w} : ~Leads(v, m)
      /\ workers'[w].at \in Begun => \A v \in Workers \ {w} : ~Leads(v, workers'[w].m)
  BY <1>3, <1>4
<1>9. MInv' BY <1>2, <1>3, <1>5, <1>6, <1>7, <1>8, WorkerMoves
<1>10. Kept
  <2>1. r.m \notin drivers => tasks[r.m].state = "running" BY <1>1 DEF Good
  <2> QED BY <2>1, <1>3 DEF Kept, Final
<1> QED BY <1>9, <1>10

-------------------------------------------------------------------------------
(* The steps of a worker.                                                  *)

LEMMA StartStep ==
    ASSUME MInv, NEW w \in Workers, NEW m \in Missions, NEW kind \in {"local", "seance"},
           Reserve(w, m, kind)
    PROVE  MInv' /\ Kept
<1> DEFINE r == Attempt(m, kind, None)
<1>0. r \in Attempts /\ r.at = "reserved" /\ r.m = m /\ r.parent = None
  BY DEF Attempt, Attempts, Ats
<1>1. /\ workers[w].at = "idle" /\ alive
      /\ workers' = [workers EXCEPT ![w] = r]
      /\ UNCHANGED <<drivers, alive, tasks, disk, log, clients>>
  BY DEF Reserve, MayStart, Reserved
<1> HIDE DEF r
<1>2. Types' BY <1>0, <1>1 DEF MInv, Types
<1>3. workers'[w] = r /\ \A v \in Workers \ {w} : workers'[v] = workers[v]
  BY <1>1 DEF MInv, Types
<1>4. Good(workers'[w], tasks', log', drivers) BY <1>0, <1>3 DEF Good, Begun
<1>5. r.at \notin Begun /\ \A k \in Missions : ~Leads(w, k) BY <1>0, <1>1 DEF Begun, Leads
<1>6. \A k \in Roots : tasks'[k].state = "running" => \E v \in Workers \ {w} : Leads(v, k)
  BY <1>1, <1>5, MissionsAssumption DEF MInv, RunningIsLed
<1>7. DoneIsLogged' BY <1>1 DEF MInv, DoneIsLogged
<1>8. MInv' BY <1>1, <1>2, <1>3, <1>4, <1>5, <1>6, <1>7, WorkerMoves
<1> QED BY <1>1, <1>8 DEF Kept

LEMMA BeginStep ==
    ASSUME MInv, NEW w \in Workers, Begin(w)
    PROVE  MInv' /\ Kept
<1> DEFINE m == workers[w].m
<1>1. /\ m \in Missions /\ workers[w].at = "reserved" /\ alive /\ workers[w] \in Attempts
      /\ m \in Roots => workers[w].parent = None
      /\ UNCHANGED <<drivers, alive, clients, log>>
  BY DEF Begin, MInv, Types, AllGood, Good, tables
<1>2. PICK s \in States, at \in {"refused", "working", "opening"} :
        /\ workers' = [workers EXCEPT ![w].at = at]
        /\ tasks' = [tasks EXCEPT ![m].state = s]
        /\ disk' = disk \/ disk' = tasks'
        /\ \/ at = "refused" /\ s = tasks[m].state
           \/ tasks[m].state = "planned" /\ at # "refused" /\ s = "running"
           \/ /\ tasks[m].state = "planned" /\ at = "refused"
              /\ s = IF workers[w].parent = None THEN "failed" ELSE "running"
  <2>1. CASE tasks[m].state # "planned"
    <3>1. tasks[m].state \in States /\ tasks' = [tasks EXCEPT ![m].state = tasks[m].state]
      BY <1>1, <2>1 DEF Begin, MInv, Types, Task
    <3> QED BY <2>1, <3>1 DEF Begin, Moves
  <2>2. CASE tasks[m].state = "planned"
    BY <2>2 DEF Begin, Moves, Saved, NotSaved, States, Final
  <2> QED BY <2>1, <2>2
<1> HIDE DEF m
<1>3. Types'
  <2>1. workers' \in [Workers -> Attempts] BY <1>2 DEF MInv, Types, Attempts, Ats, Begun
  <2>2. tasks' \in [Missions -> Task] BY <1>2 DEF MInv, Types, Task
  <2> QED BY <1>1, <1>2, <2>1, <2>2 DEF MInv, Types
<1>4. /\ workers'[w] = [workers[w] EXCEPT !.at = at]
      /\ tasks'[m].state = s
      /\ \A v \in Workers \ {w} : workers'[v] = workers[v]
      /\ \A k \in Missions \ {m} : tasks'[k] = tasks[k]
  BY <1>1, <1>2 DEF MInv, Types, Task
<1>5. workers'[w].at = at /\ workers'[w].m = m BY <1>1, <1>4 DEF Attempts, m
<1>6. tasks[m].state = "planned" => \A v \in Workers : ~Leads(v, m)
  BY <1>1 DEF MInv, AllGood, Good, Leads
<1>7. \A k \in Missions : ~Leads(w, k) BY <1>1 DEF Leads, Begun
<1>8. Good(workers'[w], tasks', log', drivers)
  BY <1>1, <1>2, <1>4, <1>5 DEF Good, Begun
<1>9. DoneIsLogged'
  BY <1>1, <1>2, <1>4 DEF MInv, DoneIsLogged
<1>10. \A k \in Roots : tasks'[k].state = "running" =>
          \/ workers'[w].at \in Begun /\ workers'[w].m = k
          \/ \E v \in Workers \ {w} : Leads(v, k)
  <2> SUFFICES ASSUME NEW k \in Roots, tasks'[k].state = "running"
               PROVE  \/ workers'[w].at \in Begun /\ workers'[w].m = k
                      \/ \E v \in Workers \ {w} : Leads(v, k)
    OBVIOUS
  <2>1. CASE tasks[k].state = "running"
    BY <2>1, <1>1, <1>7, MissionsAssumption DEF MInv, RunningIsLed
  <2>2. CASE tasks[k].state # "running"
    <3>1. k = m BY <2>2, <1>4, MissionsAssumption
    <3>2. at \in Begun BY <3>1, <2>2, <1>1, <1>2, <1>4 DEF Begun, m
    <3> QED BY <3>1, <3>2, <1>5
  <2> QED BY <2>1, <2>2
<1>11. workers'[w].at \in Begun => \A v \in Workers \ {w} : ~Leads(v, m)
  BY <1>2, <1>5, <1>6 DEF Begun
<1>12. \A k \in Missions : tasks'[k].state = tasks[k].state \/ \A v \in Workers \ {w} : ~Leads(v, k)
  BY <1>2, <1>4, <1>6
<1>13. MInv'
  BY <1>1, <1>2, <1>3, <1>4, <1>5, <1>8, <1>9, <1>10, <1>11, <1>12, WorkerMoves
<1> QED BY <1>2, <1>4, <1>13 DEF Kept, Final

\* A thread that leads nothing gives its place back.
LEMMA EndStep ==
    ASSUME MInv, NEW w \in Workers, GiveBack(w) \/ Leave(w)
    PROVE  MInv' /\ Kept
<1>1. PICK r \in Attempts :
        /\ r.at = "ended" /\ r.m = workers[w].m /\ r.parent = workers[w].parent
        /\ workers' = [workers EXCEPT ![w] = r]
  <2>1. workers[w] \in Attempts BY DEF MInv, Types
  <2>2. CASE GiveBack(w)
    <3> DEFINE r == [workers[w] EXCEPT !.at = "ended", !.outcome = "refused"]
    <3>1. r \in Attempts /\ r.at = "ended" /\ r.m = workers[w].m /\ r.parent = workers[w].parent
      BY <2>1 DEF Attempts, Ats
    <3>2. workers' = [workers EXCEPT ![w] = r] BY <2>2 DEF GiveBack, MInv, Types
    <3> QED BY <3>1, <3>2
  <2>3. CASE Leave(w)
    <3> DEFINE r == [workers[w] EXCEPT !.at = "ended"]
    <3>1. r \in Attempts /\ r.at = "ended" /\ r.m = workers[w].m /\ r.parent = workers[w].parent
      BY <2>1 DEF Attempts, Ats
    <3>2. workers' = [workers EXCEPT ![w] = r] BY <2>3 DEF Leave, Moves, MInv, Types
    <3> QED BY <3>1, <3>2
  <2> QED BY <2>2, <2>3
<1>2. /\ alive /\ UNCHANGED <<drivers, alive, tasks, disk, log, clients>>
      /\ workers[w].at \notin Begun
  BY DEF GiveBack, Leave, Begun
<1>3. Types' BY <1>1, <1>2 DEF MInv, Types
<1>4. workers'[w] = r /\ \A v \in Workers \ {w} : workers'[v] = workers[v]
  BY <1>1 DEF MInv, Types
<1>5. Good(workers'[w], tasks', log', drivers)
  <2>1. Good(workers[w], tasks, log, drivers) BY DEF MInv, AllGood
  <2> QED BY <1>1, <1>4, <2>1 DEF Good, Begun
<1>6. r.at \notin Begun /\ \A k \in Missions : ~Leads(w, k) BY <1>1, <1>2 DEF Begun, Leads
<1>7. \A k \in Roots : tasks'[k].state = "running" => \E v \in Workers \ {w} : Leads(v, k)
  BY <1>2, <1>6, MissionsAssumption DEF MInv, RunningIsLed
<1>8. DoneIsLogged' BY <1>2 DEF MInv, DoneIsLogged
<1>9. MInv' BY <1>2, <1>3, <1>4, <1>5, <1>6, <1>7, <1>8, WorkerMoves
<1> QED BY <1>2, <1>9 DEF Kept

\* A leader moves and publishes nothing.
LEMMA QuietMoves ==
    ASSUME MInv, NEW w \in Workers, NEW r \in Attempts,
           alive, UNCHANGED <<drivers, alive, tasks, disk, clients>>,
           workers[w].at \in Begun, r.m = workers[w].m, r.at \in Begun,
           workers' = [workers EXCEPT ![w] = r],
           log' \in [Missions -> SUBSET Final], \A m \in Missions : log[m] \subseteq log'[m],
           r.at \in {"concluding", "logged"} => r.outcome \in Final,
           r.at = "logged" /\ r.outcome = "done" => "done" \in log'[r.m]
    PROVE  MInv' /\ Kept
<1>1. r.m \in Missions BY DEF MInv, AllGood, Good
<1>2. tasks[r.m] \in Task /\ tasks' = [tasks EXCEPT ![r.m] = tasks[r.m]]
  BY <1>1 DEF MInv, Types
<1>3. r.at # "leaving" BY DEF Begun
<1> QED BY <1>2, <1>3, LeaderMoves

\* Opening a session, ending the work, writing the end to the log.
LEMMA QuietStep ==
    ASSUME MInv, NEW w \in Workers,
           OpenSession(w) \/ Insert(w) \/ Finish(w) \/ Conclude(w) \/ ConcludeLog(w)
    PROVE  MInv' /\ Kept
<1>1. workers[w] \in Attempts /\ Good(workers[w], tasks, log, drivers) BY DEF MInv, Types, AllGood
<1>2. alive /\ workers[w].at \in Begun /\ UNCHANGED <<drivers, alive, tasks, disk, clients>>
  BY DEF OpenSession, Insert, Finish, Conclude, ConcludeLog, Begun, tables
<1>3. CASE OpenSession(w) \/ Insert(w) \/ Finish(w) \/ Conclude(w)
  <2>1. PICK at \in {"opened", "open", "concluding"}, outcome \in {"done", "failed"},
             kind \in {"unopened", workers[w].kind} :
          \/ workers' = [workers EXCEPT ![w].at = at] /\ at # "concluding"
          \/ workers' = [workers EXCEPT ![w].at = at, ![w].outcome = outcome]
          \/ workers' = [workers EXCEPT ![w].at = at, ![w].outcome = outcome, ![w].kind = kind]
    <3>1. CASE OpenSession(w) BY <3>1 DEF OpenSession, Moves
    <3>2. CASE Insert(w) BY <3>2 DEF Insert, Moves
    <3>3. CASE Finish(w) BY <3>3 DEF Finish
    <3>4. CASE Conclude(w) BY <3>4 DEF Conclude
    <3> QED BY <1>3, <3>1, <3>2, <3>3, <3>4
  <2>2. PICK r \in Attempts :
          /\ r.at = at /\ r.m = workers[w].m /\ (at = "concluding" => r.outcome = outcome)
          /\ workers' = [workers EXCEPT ![w] = r]
    <3>1. CASE workers' = [workers EXCEPT ![w].at = at] /\ at # "concluding"
      <4> DEFINE r == [workers[w] EXCEPT !.at = at]
      <4>1. r \in Attempts /\ r.at = at /\ r.m = workers[w].m BY <1>1 DEF Attempts, Ats, Begun
      <4> QED BY <3>1, <4>1
    <3>2. CASE workers' = [workers EXCEPT ![w].at = at, ![w].outcome = outcome]
      <4> DEFINE r == [workers[w] EXCEPT !.at = at, !.outcome = outcome]
      <4>1. r \in Attempts /\ r.at = at /\ r.m = workers[w].m /\ r.outcome = outcome
        BY <1>1 DEF Attempts, Ats, Begun, Final
      <4>2. workers' = [workers EXCEPT ![w] = r] BY <3>2 DEF MInv, Types
      <4> QED BY <4>1, <4>2
    <3>3. CASE workers' = [workers EXCEPT ![w].at = at, ![w].outcome = outcome, ![w].kind = kind]
      <4> DEFINE r == [workers[w] EXCEPT !.at = at, !.outcome = outcome, !.kind = kind]
      <4>1. r \in Attempts /\ r.at = at /\ r.m = workers[w].m /\ r.outcome = outcome
        BY <1>1 DEF Attempts, Ats, Begun, Final
      <4>2. workers' = [workers EXCEPT ![w] = r] BY <3>3 DEF MInv, Types
      <4> QED BY <4>1, <4>2
    <3> QED BY <2>1, <3>1, <3>2, <3>3
  <2>3. r.at \in Begun /\ (r.at \in {"concluding", "logged"} => r.outcome \in Final) /\ r.at # "logged"
    BY <2>2 DEF Begun, Final
  <2>4. log' = log BY <1>3 DEF OpenSession, Insert, Finish, Conclude
  <2>5. log' \in [Missions -> SUBSET Final] BY <2>4 DEF MInv, Types
  <2> QED BY <1>2, <2>2, <2>3, <2>4, <2>5, QuietMoves
<1>4. CASE ConcludeLog(w)
  <2> DEFINE m == workers[w].m
             end == IF w \in stop THEN "cancelled" ELSE workers[w].outcome
             noted == [log EXCEPT ![m] = @ \cup {end}]
  <2>1. end \in Final /\ m \in Missions
    BY <1>1, <1>4 DEF ConcludeLog, Good, Final, Begun
  <2>2. noted \in [Missions -> SUBSET Final] /\ \A k \in Missions : log[k] \subseteq noted[k]
    BY <2>1 DEF MInv, Types
  <2>3. end \in noted[m] BY <2>1 DEF MInv, Types
  <2>4. PICK outcome \in Final :
          /\ workers' = [workers EXCEPT ![w].at = "logged", ![w].outcome = outcome]
          /\ \/ outcome = end /\ log' = noted
             \/ outcome = "failed" /\ log' \in {log, noted}
    BY <1>4, <2>1 DEF ConcludeLog, Final
  <2> DEFINE r == [workers[w] EXCEPT !.at = "logged", !.outcome = outcome]
  <2>5. /\ r \in Attempts /\ r.at = "logged" /\ r.m = m /\ r.outcome = outcome
        /\ r.at \in Begun
    BY <1>1 DEF Attempts, Ats, Begun
  <2>6. workers' = [workers EXCEPT ![w] = r] BY <2>4 DEF MInv, Types
  <2>7. log' \in [Missions -> SUBSET Final] /\ \A k \in Missions : log[k] \subseteq log'[k]
    BY <2>2, <2>4 DEF MInv, Types
  <2>8. outcome = "done" => "done" \in log'[m] BY <2>3, <2>4
  <2> HIDE DEF r, noted, end
  <2> QED BY <1>2, <2>4, <2>5, <2>6, <2>7, <2>8, QuietMoves DEF m
<1> QED BY <1>3, <1>4

\* A leader publishes a count, or its end.
LEMMA PublishStep ==
    ASSUME MInv, NEW w \in Workers, Turn(w) \/ ConcludePublish(w)
    PROVE  MInv' /\ Kept
<1> DEFINE m == workers[w].m
<1>1. workers[w] \in Attempts /\ Good(workers[w], tasks, log, drivers) BY DEF MInv, Types, AllGood
<1>2. /\ alive /\ workers[w].at \in Begun /\ UNCHANGED <<drivers, alive, log, clients>>
      /\ disk' = disk \/ disk' = tasks'
  BY DEF Turn, Charges, ConcludePublish, Begun, Between, tables, Saves, Saved, NotSaved
<1>3. m \in Missions /\ tasks[m] \in Task BY <1>1, <1>2 DEF Good, MInv, Types
<1>4. log' \in [Missions -> SUBSET Final] /\ \A k \in Missions : log[k] \subseteq log'[k]
  BY <1>2 DEF MInv, Types
<1>5. CASE Turn(w)
  <2>1. PICK n \in Int : n = workers[w].spent + 1 BY <1>1 DEF Attempts
  <2>2. PICK r \in Attempts :
          /\ workers' = [workers EXCEPT ![w] = r]
          /\ r.m = m /\ r.at \in Begun /\ r.at # "logged"
          /\ r.at \in {"concluding", "logged"} => r.outcome \in Final
    <3>0. \/ \E next \in {"working", "open", "delegating"} :
               workers' = [workers EXCEPT ![w].spent = n, ![w].at = next]
          \/ workers' = [workers EXCEPT ![w].spent = n,
                             ![w].at = IF @ = "working" THEN "concluding" ELSE @,
                             ![w].outcome = "failed"]
      <4>1. Between(w) \in {"working", "open"} BY DEF Between
      <4> QED BY <1>5, <2>1, <4>1 DEF Turn, Charges
    <3>1. ASSUME NEW next \in {"working", "open", "delegating"},
                 workers' = [workers EXCEPT ![w].spent = n, ![w].at = next]
          PROVE  \E r \in Attempts :
                    /\ workers' = [workers EXCEPT ![w] = r]
                    /\ r.m = m /\ r.at \in Begun /\ r.at # "logged"
                    /\ r.at \in {"concluding", "logged"} => r.outcome \in Final
      <4> DEFINE r == [workers[w] EXCEPT !.spent = n, !.at = next]
      <4>1. r \in Attempts /\ r.m = m /\ r.at = next BY <1>1 DEF Attempts, Ats, Begun
      <4>2. workers' = [workers EXCEPT ![w] = r] BY <3>1 DEF MInv, Types
      <4> QED BY <4>1, <4>2 DEF Begun
    <3>2. ASSUME workers' = [workers EXCEPT ![w].spent = n,
                               ![w].at = IF @ = "working" THEN "concluding" ELSE @,
                               ![w].outcome = "failed"]
          PROVE  \E r \in Attempts :
                    /\ workers' = [workers EXCEPT ![w] = r]
                    /\ r.m = m /\ r.at \in Begun /\ r.at # "logged"
                    /\ r.at \in {"concluding", "logged"} => r.outcome \in Final
      <4>1. PICK at \in {"concluding", "open"} : at = IF workers[w].at = "working" THEN "concluding" ELSE workers[w].at
        BY <1>5 DEF Turn, Between
      <4> DEFINE r == [workers[w] EXCEPT !.spent = n, !.at = at, !.outcome = "failed"]
      <4>2. r \in Attempts /\ r.m = m /\ r.at = at /\ r.outcome = "failed"
        BY <1>1 DEF Attempts, Ats, Begun, Final
      <4>3. workers' = [workers EXCEPT ![w] = r] BY <3>2, <4>1 DEF MInv, Types
      <4> QED BY <4>2, <4>3 DEF Begun, Final
    <3> QED BY <3>0, <3>1, <3>2
  <2> DEFINE s == [tasks[m] EXCEPT !.state = "running", !.spent = n]
  <2>3. s \in Task /\ s.state = "running" BY <1>3 DEF Task, States
  <2>5. tasks' = [tasks EXCEPT ![r.m] = s]
    BY <1>3, <1>5, <2>1, <2>2 DEF Turn, Charges, Publishes, MInv, Types
  <2> HIDE DEF s
  <2> QED BY <1>2, <1>4, <2>2, <2>3, <2>5, LeaderMoves DEF m, Begun
<1>6. CASE ConcludePublish(w)
  <2> DEFINE r == [workers[w] EXCEPT !.at = "leaving"]
             s == [tasks[m] EXCEPT !.state = workers[w].outcome, !.spent = workers[w].spent]
  <2>1. /\ r \in Attempts /\ r.at = "leaving" /\ r.m = m /\ r.at \notin Begun
    BY <1>1 DEF Attempts, Ats, Begun
  <2>2. workers[w].outcome \in Final /\ (workers[w].outcome = "done" => "done" \in log[m])
    BY <1>1, <1>6 DEF ConcludePublish, Good
  <2>3. s \in Task /\ s.state \in Final /\ (s.state = "done" => "done" \in log[m])
    BY <1>1, <1>3, <2>2 DEF Task, States, Attempts
  <2>4. workers' = [workers EXCEPT ![w] = r] BY <1>6 DEF ConcludePublish, Moves, MInv, Types
  <2>5. tasks' = [tasks EXCEPT ![r.m] = s]
    BY <1>3, <1>6, <2>1 DEF ConcludePublish, Publishes, MInv, Types
  <2> HIDE DEF r, s
  <2> QED BY <1>2, <1>4, <2>1, <2>3, <2>4, <2>5, LeaderMoves DEF m, Begun
<1> QED BY <1>5, <1>6

\* A parent goes on; states stay, but that a child is planned; another attempt that leads nothing
\* may be taken for the child, or put away.
LEMMA ParentMoves ==
    ASSUME MInv, NEW w \in Workers,
           alive, UNCHANGED <<drivers, alive, clients, log>>,
           workers[w].at \in Begun, workers'[w].at \in Begun \ {"concluding", "logged"},
           workers'[w].m = workers[w].m,
           workers' \in [Workers -> Attempts], tasks' \in [Missions -> Task],
           disk' = disk \/ disk' = tasks',
           \A v \in Workers \ {w} :
               workers'[v] = workers[v] \/ (workers[v].at \notin Begun /\ workers'[v].at \notin Begun
                                            /\ Good(workers'[v], tasks', log', drivers)),
           \A m \in Missions : \/ tasks'[m].state = tasks[m].state
                               \/ tasks[m].state = "unborn" /\ tasks'[m].state = "planned"
                               \/ m = workers[w].m /\ tasks'[m].state = "running"
    PROVE  MInv' /\ Kept
<1> DEFINE k == workers[w].m
<1>1. Good(workers[w], tasks, log, drivers) /\ k \in Missions BY DEF MInv, AllGood, Good
<1>2. Types' BY DEF MInv, Types
<1>3. Good(workers'[w], tasks', log', drivers)
  <2>1. tasks'[k].state = tasks[k].state \/ tasks'[k].state = "running" BY <1>1 DEF Good
  <2> QED BY <1>1, <2>1 DEF Good, Begun
<1>4. \A m \in Missions : log[m] \subseteq log'[m] OBVIOUS
<1>5. \A m \in Missions : \/ tasks'[m].state = tasks[m].state
                          \/ \A v \in Workers \ {w} : ~Leads(v, m)
  <2>1. ASSUME NEW m \in Missions, tasks[m].state = "unborn", NEW v \in Workers, Leads(v, m)
        PROVE  FALSE
    <3>1. Good(workers[v], tasks, log, drivers) BY DEF MInv, AllGood
    <3> QED BY <2>1, <3>1 DEF Good, Leads
  <2>2. \A v \in Workers \ {w} : ~Leads(v, k) BY <1>1 DEF MInv, OneLeader, Leads
  <2> QED BY <2>1, <2>2
<1>6. \A v \in Workers \ {w} : ~Leads(v, workers'[w].m)
  BY <1>1 DEF MInv, OneLeader, Leads
<1>7. DoneIsLogged' BY DEF MInv, DoneIsLogged
<1>8. \A m \in Roots : tasks'[m].state = "running" =>
          \/ workers'[w].at \in Begun /\ workers'[w].m = m
          \/ \E v \in Workers \ {w} : Leads(v, m)
  <2> SUFFICES ASSUME NEW m \in Roots, tasks'[m].state = "running"
               PROVE  \/ workers'[w].m = m
                      \/ \E v \in Workers \ {w} : Leads(v, m)
    OBVIOUS
  <2>1. tasks[m].state = "running" \/ m = k BY MissionsAssumption
  <2> QED BY <2>1 DEF MInv, RunningIsLed, Leads
<1>9. MInv' BY <1>2, <1>3, <1>4, <1>5, <1>6, <1>7, <1>8, WorkerMoves
<1>10. Kept
  <2>1. k \notin drivers => tasks[k].state = "running" BY <1>1 DEF Good
  <2> QED BY <2>1 DEF Kept, Final
<1> QED BY <1>9, <1>10

LEMMA PlanStep ==
    ASSUME MInv, NEW w \in Workers, PlanChild(w)
    PROVE  MInv' /\ Kept
<1>1. workers[w] \in Attempts /\ Good(workers[w], tasks, log, drivers) BY DEF MInv, Types, AllGood
<1>2. /\ alive /\ workers[w].at \in Begun /\ UNCHANGED <<drivers, alive, log, clients>>
      /\ workers[w].m \in Missions
  BY <1>1 DEF PlanChild, Begun, tables, Good
<1>3. PICK at \in {"working", "open", "planned"} : workers' = [workers EXCEPT ![w].at = at]
  <2>1. Between(w) \in {"working", "open"} BY DEF Between
  <2> QED BY <2>1 DEF PlanChild, Moves
<1>4. /\ workers' \in [Workers -> Attempts]
      /\ workers'[w].at \in Begun \ {"concluding", "logged"} /\ workers'[w].m = workers[w].m
      /\ \A v \in Workers \ {w} : workers'[v] = workers[v]
  BY <1>1, <1>3 DEF MInv, Types, Attempts, Ats, Begun
<1>5. /\ tasks' \in [Missions -> Task] /\ (disk' = disk \/ disk' = tasks')
      /\ \A m \in Missions : \/ tasks'[m].state = tasks[m].state
                             \/ tasks[m].state = "unborn" /\ tasks'[m].state = "planned"
  <2>1. CASE UNCHANGED <<tasks, disk, faults>> BY <2>1 DEF MInv, Types
  <2>2. CASE \E c \in Kids[workers[w].m] :
                /\ tasks[c].state = "unborn"
                /\ tasks' = [tasks EXCEPT ![c] = Half(tasks[workers[w].m])]
                /\ disk' = disk \/ disk' = tasks'
    <3>1. PICK c \in Missions :
             /\ tasks[c].state = "unborn"
             /\ tasks' = [tasks EXCEPT ![c] = Half(tasks[workers[w].m])]
             /\ disk' = disk \/ disk' = tasks'
      BY <1>2, <2>2, MissionsAssumption
    <3>2. tasks[workers[w].m] \in Task BY <1>2 DEF MInv, Types
    <3>3. PICK n \in Int : Half(tasks[workers[w].m]) = Plan(n) BY <3>2 DEF Half, Task
    <3>4. Plan(n) \in Task /\ Plan(n).state = "planned" BY DEF Plan, Task, States
    <3> QED BY <3>1, <3>3, <3>4 DEF MInv, Types
  <2> QED BY <2>1, <2>2 DEF PlanChild, Saved, NotSaved
<1> QED BY <1>2, <1>4, <1>5, ParentMoves

LEMMA LaunchStep ==
    ASSUME MInv, NEW w \in Workers, NEW child \in Workers, LaunchChild(w, child)
    PROVE  MInv' /\ Kept
<1>1. workers[w] \in Attempts /\ Good(workers[w], tasks, log, drivers) BY DEF MInv, Types, AllGood
<1>2. /\ alive /\ workers[w].at \in Begun /\ UNCHANGED <<drivers, alive, tasks, disk, log, clients>>
      /\ workers[w].m \in Missions /\ child # w /\ workers[child].at \notin Begun
  BY <1>1 DEF LaunchChild, Begun, Good
<1>3. PICK c \in Missions \ Roots :
        workers' = [workers EXCEPT ![w].at = "waiting", ![child] = Attempt(c, "local", w)]
  BY <1>2, MissionsAssumption DEF LaunchChild
<1>4. /\ Attempt(c, "local", w) \in Attempts /\ Attempt(c, "local", w).at = "reserved"
      /\ Attempt(c, "local", w).m = c
  BY DEF Attempt, Attempts, Ats
<1>5. /\ workers' \in [Workers -> Attempts]
      /\ workers'[w].at = "waiting" /\ workers'[w].m = workers[w].m
      /\ workers'[child] = Attempt(c, "local", w)
      /\ \A v \in Workers \ {w, child} : workers'[v] = workers[v]
  BY <1>1, <1>2, <1>3, <1>4 DEF MInv, Types, Attempts, Ats, Begun
<1>6. Good(workers'[child], tasks', log', drivers) /\ workers'[child].at \notin Begun
  BY <1>4, <1>5 DEF Good, Begun
<1>7. tasks' \in [Missions -> Task] BY <1>2 DEF MInv, Types
<1>8. workers'[w].at \in Begun \ {"concluding", "logged"} BY <1>5 DEF Begun
<1> QED BY <1>2, <1>5, <1>6, <1>7, <1>8, ParentMoves

LEMMA ReturnStep ==
    ASSUME MInv, NEW w \in Workers, ChildBack(w) \/ Absorb(w)
    PROVE  MInv' /\ Kept
<1> DEFINE m == workers[w].m
<1>1. workers[w] \in Attempts /\ Good(workers[w], tasks, log, drivers) BY DEF MInv, Types, AllGood
<1>2. /\ alive /\ workers[w].at \in Begun \ {"concluding", "logged"}
      /\ UNCHANGED <<drivers, alive, log, clients>>
      /\ m \in Missions /\ tasks[m] \in Task
  BY <1>1 DEF ChildBack, Absorb, Begun, Good, tables, MInv, Types
<1>3. PICK c \in EndedChild(w) :
        \/ /\ ChildBack(w) /\ workers[c].outcome = "refused"
           /\ workers' = [workers EXCEPT ![w].at = Between(w), ![c].outcome = "absorbed"]
           /\ UNCHANGED <<tasks, disk>>
        \/ /\ ChildBack(w) /\ workers[c].outcome # "refused"
           /\ tasks' = [tasks EXCEPT ![m].spent = @ + tasks[workers[c].m].spent]
           /\ workers' = [workers EXCEPT ![w].at = "absorbing"]
           /\ disk' = disk \/ disk' = tasks'
        \/ /\ Absorb(w)
           /\ Publishes(w, "running", workers[w].spent + tasks[workers[c].m].spent)
           /\ workers' = [workers EXCEPT ![w].at = Between(w),
                             ![w].spent = workers[w].spent + tasks[workers[c].m].spent,
                             ![c].outcome = "absorbed"]
           /\ disk' = disk \/ disk' = tasks'
  <2>1. CASE ChildBack(w)
    <3>1. PICK c \in EndedChild(w) :
            IF workers[c].outcome = "refused"
            THEN /\ workers' = [workers EXCEPT ![w].at = Between(w), ![c].outcome = "absorbed"]
                 /\ UNCHANGED <<tasks, disk>>
            ELSE /\ tasks' = [tasks EXCEPT ![m].spent = @ + tasks[workers[c].m].spent]
                 /\ workers' = [workers EXCEPT ![w].at = "absorbing"]
                 /\ disk' = disk \/ disk' = tasks'
      BY <2>1 DEF ChildBack, Moves, Saves, Saved, NotSaved
    <3> QED BY <2>1, <3>1
  <2>2. CASE Absorb(w) BY <2>2 DEF Absorb, Saves, Saved, NotSaved
  <2> QED BY <2>1, <2>2
<1>4. c \in Workers /\ workers[c].at = "ended" /\ workers[c] \in Attempts /\ c # w
  BY <1>2, <1>3 DEF EndedChild, MInv, Types, Begun
<1>5. Good(workers[c], tasks, log, drivers) /\ workers[c].m \in Missions /\ tasks[workers[c].m] \in Task
  <2>1. workers[c].parent = w BY <1>3 DEF EndedChild
  <2> QED BY <1>4, <2>1, MissionsAssumption DEF MInv, Types, AllGood, Good
<1>6. Between(w) \in {"working", "open"} BY DEF Between
<1>7. PICK r \in Attempts, q \in Attempts :
        /\ r.at \in {"working", "open", "absorbing"} /\ r.m = m
        /\ q.at = "ended" /\ q.m = workers[c].m
        /\ workers' = [workers EXCEPT ![w] = r, ![c] = q]
  <2> DEFINE q == [workers[c] EXCEPT !.outcome = "absorbed"]
  <2>0. q \in Attempts /\ q.at = "ended" /\ q.m = workers[c].m BY <1>4 DEF Attempts, Final
  <2>1. CASE workers' = [workers EXCEPT ![w].at = Between(w), ![c].outcome = "absorbed"]
    <3> DEFINE r == [workers[w] EXCEPT !.at = Between(w)]
    <3>1. r \in Attempts /\ r.at = Between(w) /\ r.m = m BY <1>1, <1>6 DEF Attempts, Ats, Begun
    <3>2. workers' = [workers EXCEPT ![w] = r, ![c] = q] BY <1>4, <2>1 DEF MInv, Types
    <3> QED BY <1>6, <2>0, <3>1, <3>2
  <2>2. CASE workers' = [workers EXCEPT ![w].at = "absorbing"]
    <3> DEFINE r == [workers[w] EXCEPT !.at = "absorbing"]
    <3>1. r \in Attempts /\ r.at = "absorbing" /\ r.m = m BY <1>1 DEF Attempts, Ats, Begun
    <3>2. workers' = [workers EXCEPT ![w] = r, ![c] = workers[c]] BY <1>4, <2>2 DEF MInv, Types
    <3> QED BY <1>4, <3>1, <3>2
  <2>3. CASE workers' = [workers EXCEPT ![w].at = Between(w),
                             ![w].spent = workers[w].spent + tasks[workers[c].m].spent,
                             ![c].outcome = "absorbed"]
    <3>1. PICK n \in Int : n = workers[w].spent + tasks[workers[c].m].spent
      BY <1>1, <1>5 DEF Attempts, Task
    <3> DEFINE r == [workers[w] EXCEPT !.at = Between(w), !.spent = n]
    <3>2. r \in Attempts /\ r.at = Between(w) /\ r.m = m BY <1>1, <1>6 DEF Attempts, Ats, Begun
    <3>3. workers' = [workers EXCEPT ![w] = r, ![c] = q] BY <1>4, <2>3, <3>1 DEF MInv, Types
    <3> QED BY <1>6, <2>0, <3>2, <3>3
  <2> QED BY <1>3, <2>1, <2>2, <2>3
<1>8. /\ workers' \in [Workers -> Attempts]
      /\ workers'[w] = r /\ workers'[c] = q
      /\ \A v \in Workers \ {w, c} : workers'[v] = workers[v]
  BY <1>4, <1>7 DEF MInv, Types
<1>9. /\ Good(workers'[c], tasks', log', drivers)
      /\ workers[c].at \notin Begun /\ workers'[c].at \notin Begun
  BY <1>4, <1>5, <1>7, <1>8 DEF Good, Begun
<1>10. /\ tasks' \in [Missions -> Task] /\ (disk' = disk \/ disk' = tasks')
       /\ \A k \in Missions : tasks'[k].state = tasks[k].state \/ (k = m /\ tasks'[k].state = "running")
  <2>1. CASE UNCHANGED <<tasks, disk>> BY <2>1 DEF MInv, Types
  <2>2. CASE /\ tasks' = [tasks EXCEPT ![m].spent = @ + tasks[workers[c].m].spent]
             /\ disk' = disk \/ disk' = tasks'
    <3>1. PICK i \in Int : i = tasks[m].spent + tasks[workers[c].m].spent BY <1>2, <1>5 DEF Task
    <3>2. tasks' = [tasks EXCEPT ![m].spent = i] BY <1>2, <2>2, <3>1 DEF MInv, Types
    <3> QED BY <1>2, <2>2, <3>2 DEF MInv, Types, Task
  <2>3. CASE /\ Publishes(w, "running", workers[w].spent + tasks[workers[c].m].spent)
             /\ disk' = disk \/ disk' = tasks'
    <3>1. PICK i \in Int : i = workers[w].spent + tasks[workers[c].m].spent BY <1>1, <1>5 DEF Attempts, Task
    <3> DEFINE s == [tasks[m] EXCEPT !.state = "running", !.spent = i]
    <3>2. s \in Task /\ s.state = "running" BY <1>2 DEF Task, States
    <3>3. tasks' = [tasks EXCEPT ![m] = s] BY <1>2, <2>3, <3>1 DEF Publishes, MInv, Types
    <3> HIDE DEF s
    <3> QED BY <1>2, <2>3, <3>2, <3>3 DEF MInv, Types
  <2> QED BY <1>3, <2>1, <2>2, <2>3
<1>11. /\ workers'[w].at \in Begun \ {"concluding", "logged"}
       /\ \A v \in Workers \ {w} :
             workers'[v] = workers[v] \/ (workers[v].at \notin Begun /\ workers'[v].at \notin Begun
                                          /\ Good(workers'[v], tasks', log', drivers))
  BY <1>7, <1>8, <1>9 DEF Begun
<1>12. workers'[w].m = workers[w].m BY <1>7, <1>8
<1> HIDE DEF m
<1> QED BY <1>2, <1>8, <1>10, <1>11, <1>12, ParentMoves DEF m

-------------------------------------------------------------------------------
(* The steps of the service.                                               *)

\* A plan that is cancelled has no leader; a mission that fails with its client has a driver.
LEMMA StateStep ==
    ASSUME MInv, NEW m \in Missions, CancelPlan(m) \/ ClientEnds(m)
    PROVE  MInv' /\ Kept
<1>1. /\ alive /\ UNCHANGED <<drivers, alive, workers, log>>
      /\ disk' = disk \/ disk' = tasks'
      /\ DOMAIN clients' = Missions /\ Held'
  BY DEF CancelPlan, ClientEnds, Saves, Saved, NotSaved, tables, MInv, Types, Held, NoClient
<1>2. PICK s \in States :
        /\ tasks' = [tasks EXCEPT ![m].state = s]
        /\ \/ s = tasks[m].state
           \/ tasks[m].state = "planned" /\ s = "cancelled"
           \/ m \in drivers /\ s = "failed"
  <2>1. tasks[m].state \in States /\ tasks = [tasks EXCEPT ![m].state = tasks[m].state]
    BY DEF MInv, Types, Task
  <2>2. CASE CancelPlan(m) BY <2>1, <2>2 DEF CancelPlan, States, Final
  <2>3. CASE ClientEnds(m)
    <3>1. m \in drivers BY <2>3 DEF ClientEnds, MInv, Held
    <3> QED BY <2>1, <2>3, <3>1 DEF ClientEnds, States, Final
  <2> QED BY <2>2, <2>3
<1>3. /\ tasks' \in [Missions -> Task] /\ tasks'[m].state = s
      /\ \A k \in Missions \ {m} : tasks'[k] = tasks[k]
  BY <1>2 DEF MInv, Types, Task
<1>4. Types' BY <1>1, <1>3 DEF MInv, Types
<1>5. AllGood'
  <2> SUFFICES ASSUME NEW w \in Workers PROVE Good(workers[w], tasks', log, drivers)
    BY <1>1 DEF AllGood
  <2>1. Good(workers[w], tasks, log, drivers) BY DEF MInv, AllGood
  <2> QED BY <1>2, <1>3, <2>1 DEF Good
<1>6. DoneIsLogged' BY <1>1, <1>2, <1>3 DEF MInv, DoneIsLogged
<1>7. DiskLogged' BY <1>1, <1>6 DEF MInv, DiskLogged, DoneIsLogged
<1>8. RunningIsLed' BY <1>1, <1>2, <1>3, MissionsAssumption DEF MInv, RunningIsLed, Leads
<1>9. OneLeader' /\ Stopped' BY <1>1 DEF MInv, OneLeader, Leads, Stopped
<1>10. Kept BY <1>2, <1>3 DEF Kept, Final
<1> QED BY <1>1, <1>4, <1>5, <1>6, <1>7, <1>8, <1>9, <1>10 DEF MInv

LEMMA TableStep ==
    ASSUME MInv,
           \/ \E m \in Missions : Detach(m) \/ Cancel(m) \/ LookUp(m) \/ Retire(m)
           \/ \E m \in Clients : StartClient(m) \/ ClientReturns(m)
           \/ Halt
           \/ UNCHANGED vars
    PROVE  MInv' /\ Kept
<1>1. UNCHANGED <<drivers, alive, tasks, disk, workers, log>>
  BY DEF Detach, Cancel, LookUp, Retire, StartClient, ClientReturns, Halt, vars
<1>2. DOMAIN clients' = Missions /\ Held'
  <2>1. CASE clients' = clients BY <1>1, <2>1 DEF MInv, Types, Held
  <2>2. CASE \E m \in Clients : StartClient(m) \/ ClientReturns(m)
    <3>1. PICK m \in Clients : StartClient(m) \/ ClientReturns(m) BY <2>2
    <3>2. m \in Missions /\ m \in drivers
      BY <3>1, MissionsAssumption DEF StartClient, ClientReturns, MInv, Held
    <3>3. CASE StartClient(m)
      <4>1. clients' = [clients EXCEPT ![m] = [NoClient EXCEPT !.at = "out"]]
        BY <3>3 DEF StartClient
      <4> QED BY <1>1, <3>2, <4>1 DEF MInv, Types, Held
    <3>4. CASE ClientReturns(m)
      <4>1. clients' = [clients EXCEPT ![m] = [at |-> "back", took |-> seances[m]]]
        BY <3>4 DEF ClientReturns
      <4> QED BY <1>1, <3>2, <4>1 DEF MInv, Types, Held
    <3> QED BY <3>1, <3>3, <3>4
  <2> QED BY <2>1, <2>2 DEF Detach, Cancel, LookUp, Retire, Halt, vars, tables
<1> QED BY <1>1, <1>2, TablesMove

\* What stops loses its threads, and what starts again has failed what it finds running.
LEMMA StopStep ==
    ASSUME MInv, Crash \/ Restart
    PROVE  MInv' /\ Kept
<1>1. CASE Crash
  <2>1. /\ alive' = FALSE /\ UNCHANGED <<drivers, tasks, disk, log>>
        /\ workers' = [w \in Workers |-> Gone(w)]
        /\ clients' = [m \in Missions |-> NoClient]
    BY <1>1 DEF Crash
  <2>2. Ended \in Attempts /\ Ended.at = "ended" /\ Ended.parent = None
    BY DEF Ended, Attempts, Ats
  <2>3. ASSUME NEW w \in Workers
        PROVE  /\ workers'[w] \in Attempts /\ workers'[w].at \in {"idle", "ended"}
               /\ Good(workers'[w], tasks, log, drivers)
    <3>1. CASE workers[w].at = "idle"
      <4>1. workers'[w] = workers[w] BY <2>1, <3>1 DEF Gone
      <4> QED BY <3>1, <4>1 DEF MInv, Types, AllGood
    <3>2. CASE workers[w].at # "idle"
      <4>1. workers'[w] = Ended BY <2>1, <3>2 DEF Gone
      <4> HIDE DEF Idle
      <4> QED BY <2>2, <4>1 DEF Good, Begun
    <3> QED BY <3>1, <3>2
  <2>4. Types' /\ AllGood' /\ Stopped' BY <2>1, <2>3 DEF MInv, Types, AllGood, Stopped
  <2>5. OneLeader' BY <2>3 DEF OneLeader, Leads, Begun
  <2>6. Held' BY <2>1 DEF Held, NoClient
  <2>7. DoneIsLogged' /\ DiskLogged' /\ RunningIsLed' /\ Kept
    BY <2>1 DEF MInv, DoneIsLogged, DiskLogged, RunningIsLed, Kept
  <2> QED BY <2>4, <2>5, <2>6, <2>7 DEF MInv
<1>2. CASE Restart
  <2>1. /\ ~alive /\ alive' = TRUE /\ UNCHANGED <<drivers, workers, clients, log>>
        /\ tasks' = [m \in Missions |-> Resumed(disk[m])] /\ disk' = tasks'
    BY <1>2 DEF Restart, tables
  <2>2. ASSUME NEW m \in Missions
        PROVE  /\ tasks'[m] \in Task /\ tasks'[m].state # "running"
               /\ tasks'[m].state = "done" => disk[m].state = "done"
    <3>1. disk[m] \in Task /\ tasks'[m] = Resumed(disk[m]) BY <2>1 DEF MInv, Types
    <3> QED BY <3>1 DEF Resumed, Task, States, Final
  <2>3. Types' BY <2>1, <2>2 DEF MInv, Types
  <2>4. \A w \in Workers : workers[w].at \in {"idle", "ended"} BY <2>1 DEF MInv, Stopped
  <2>5. AllGood'
    <3> SUFFICES ASSUME NEW w \in Workers PROVE Good(workers[w], tasks', log, drivers)
      BY <2>1 DEF AllGood
    <3>1. Good(workers[w], tasks, log, drivers) BY DEF MInv, AllGood
    <3> QED BY <2>4, <3>1 DEF Good, Begun
  <2>6. DoneIsLogged' /\ DiskLogged' BY <2>1, <2>2 DEF MInv, DoneIsLogged, DiskLogged
  <2>7. RunningIsLed' BY <2>2, MissionsAssumption DEF RunningIsLed
  <2>8. OneLeader' /\ Stopped' /\ Held' BY <2>1, <2>4 DEF MInv, OneLeader, Leads, Stopped, Held
  <2>9. Kept BY <2>1 DEF Kept
  <2> QED BY <2>3, <2>5, <2>6, <2>7, <2>8, <2>9 DEF MInv
<1> QED BY <1>1, <1>2

LEMMA MInvInit ==
    ASSUME Init
    PROVE  MInv
<1>1. Types
  <2>1. Idle \in Attempts BY DEF Idle, Attempts, Ats
  <2>2. Unborn \in Task /\ Plan(Steps) \in Task BY MissionsAssumption DEF Unborn, Plan, Task, States
  <2> QED BY <2>1, <2>2 DEF Init, Types
<1>2. \A w \in Workers : workers[w].at = "idle" /\ workers[w].parent = None BY DEF Init, Idle
<1>3. \A m \in Missions : tasks[m].state \in {"unborn", "planned"} BY DEF Init, Unborn, Plan
<1>4. AllGood BY <1>2 DEF AllGood, Good, Begun
<1>5. OneLeader BY <1>2 DEF OneLeader, Leads, Begun
<1>6. DoneIsLogged /\ DiskLogged BY <1>3 DEF Init, DoneIsLogged, DiskLogged
<1>7. RunningIsLed BY <1>3, MissionsAssumption DEF RunningIsLed
<1>8. Stopped /\ Held BY DEF Init, Stopped, Held, NoClient
<1> QED BY <1>1, <1>4, <1>5, <1>6, <1>7, <1>8 DEF MInv

LEMMA MInvNext ==
    ASSUME MInv, [Next]_vars
    PROVE  MInv' /\ Kept
<1>1. CASE \E w \in Workers : WorkerStep(w) \/ Turn(w)
  <2> SUFFICES ASSUME NEW w \in Workers, WorkerStep(w) \/ Turn(w) PROVE MInv' /\ Kept BY <1>1
  <2> USE DEF WorkerStep
  <2>1. CASE Begin(w) BY <2>1, BeginStep
  <2>2. CASE GiveBack(w) \/ Leave(w) BY <2>2, EndStep
  <2>3. CASE OpenSession(w) \/ Insert(w) \/ Finish(w) \/ Conclude(w) \/ ConcludeLog(w)
    BY <2>3, QuietStep
  <2>4. CASE Turn(w) \/ ConcludePublish(w) BY <2>4, PublishStep
  <2>5. CASE PlanChild(w) BY <2>5, PlanStep
  <2>6. CASE \E child \in Workers : LaunchChild(w, child) BY <2>6, LaunchStep
  <2>7. CASE ChildBack(w) \/ Absorb(w) BY <2>7, ReturnStep
  <2> QED BY <2>1, <2>2, <2>3, <2>4, <2>5, <2>6, <2>7
<1>2. CASE \E m \in Missions : CancelPlan(m) \/ ClientEnds(m) BY <1>2, StateStep
<1>3. CASE \E w \in Workers, m \in Missions, kind \in {"local", "seance"} : Reserve(w, m, kind)
  BY <1>3, StartStep
<1>4. CASE Crash \/ Restart BY <1>4, StopStep
<1>5. CASE \/ \E m \in Missions : Detach(m) \/ Cancel(m) \/ LookUp(m) \/ Retire(m)
           \/ \E m \in Clients : StartClient(m) \/ ClientReturns(m)
           \/ Halt
           \/ UNCHANGED vars
  BY <1>5, TableStep
<1> QED BY <1>1, <1>2, <1>3, <1>4, <1>5 DEF Next, ServiceStep, HumanStep

-------------------------------------------------------------------------------
\* At most one thread leads a mission, whatever is asked of the service at the same time
\* (begin_local and begin_seance, runtime.rs, "sans laisser deux travailleurs prendre la même
\* mission").
THEOREM MissionsHaveOneLeader == Spec => []OneLeader
<1>1. Init => MInv BY MInvInit
<1>2. MInv /\ [Next]_vars => MInv' BY MInvNext
<1>3. MInv => OneLeader BY DEF MInv
<1> QED BY <1>1, <1>2, <1>3, PTL DEF Spec

\* A mission that the service calls done has its end in the audit log (conclude, local.rs).
THEOREM MissionsDoneAreLogged == Spec => []DoneIsLogged
<1>1. Init => MInv BY MInvInit
<1>2. MInv /\ [Next]_vars => MInv' BY MInvNext
<1>3. MInv => DoneIsLogged BY DEF MInv
<1> QED BY <1>1, <1>2, <1>3, PTL DEF Spec

\* A mission of the human that the service says is running is led by a thread.
THEOREM MissionsRunningAreLed == Spec => []RunningIsLed
<1>1. Init => MInv BY MInvInit
<1>2. MInv /\ [Next]_vars => MInv' BY MInvNext
<1>3. MInv => RunningIsLed BY DEF MInv
<1> QED BY <1>1, <1>2, <1>3, PTL DEF Spec

\* A final state stays, but for a mission that an official client holds.
THEOREM MissionsEndOnce == Spec => FinalIsFinal
<1>1. Init => MInv BY MInvInit
<1>2. MInv /\ [Next]_vars => MInv' /\ [Kept]_vars BY MInvNext
<1> QED BY <1>1, <1>2, PTL DEF Spec, FinalIsFinal, Kept

-------------------------------------------------------------------------------
(* Who can be told to stop.                                                *)

\* The human starts only what the human prepared.  A child that is planned and started by the
\* human at once loses its place to the thread that its parent launches for it.
RootsStart == Startable \subseteq Roots

Staged == {"reserved", "refused", "opening", "opened"}
StopOn(m) == \E v \in stop : workers[v].m = m
Holds(w) ==
    workers[w].at \in Staged \/ (workers[w].kind # "seance" /\ workers[w].at \notin {"idle", "ended"})

\* Who holds a place is on the table, or somebody on its mission was told to stop.
Placed ==
    \A w \in Workers : Holds(w) /\ workers[w].m \notin drivers
        => jobs[workers[w].m] = w \/ StopOn(workers[w].m)
Tabled ==
    /\ jobs \in [Missions -> Workers \cup {None}]
    /\ \A m \in Missions : jobs[m] # None => workers[jobs[m]].m = m
\* So is an open session.
SeatOf(s, m) ==
    /\ workers[s].m = m /\ workers[s].kind = "seance"
    /\ workers[s].at \notin {"idle"} \cup Staged
    /\ m \notin drivers => jobs[m] = s \/ StopOn(m)
Seated ==
    /\ seances \in [Missions -> Workers \cup {None}]
    /\ \A m \in Missions : seances[m] # None => SeatOf(seances[m], m)
Signalled == stop \subseteq Workers /\ flagged \subseteq Missions /\ \A m \in flagged : StopOn(m)

\* The kinds of the attempts.
Kinds(r) ==
    /\ r.kind = "local" => r.m \notin drivers
    /\ r.at \in {"reserved", "refused"} => r.kind # "unopened"
    /\ r.at \in {"opening", "opened"} => r.kind = "seance"
Fresh ==
    \A w \in Workers :
        /\ workers[w].at = "idle" \/ ~alive => workers[w].m = None
        /\ workers[w].m # None => workers[w].m \in Missions /\ tasks[workers[w].m].state # "unborn"
        /\ Kinds(workers[w])

\* Children are born in their order, and the last one that is planned is led by nobody yet.
Born(T) ==
    \A m \in Missions : \A j, k \in Kids[m] :
        j < k /\ T[j].state = "unborn" => T[k].state = "unborn"
Youngest(k, m) ==
    /\ k \in Kids[m] /\ tasks[k].state # "unborn"
    /\ \A j \in Kids[m] : tasks[j].state # "unborn" => j <= k
Unled ==
    \A w \in Workers : workers[w].at = "planned" =>
        \A k \in Kids[workers[w].m] : Youngest(k, workers[w].m) => \A v \in Workers : workers[v].m # k
Births == Born(tasks) /\ Born(disk) /\ Unled

SInv == Placed /\ Tabled /\ Seated /\ Signalled /\ Fresh /\ Births

LEMMA PlacedIsStoppable ==
    ASSUME MInv, SInv
    PROVE  Stoppable
<1> SUFFICES ASSUME NEW w \in Workers, workers[w].kind = "local",
                    workers[w].at \in {"working", "delegating", "planned", "waiting", "absorbing"}
             PROVE  jobs[workers[w].m] = w \/ StopOn(workers[w].m)
  BY DEF Stoppable, StopOn
<1>1. Holds(w) BY DEF Holds
<1>2. workers[w].m \notin drivers BY DEF SInv, Fresh, Kinds
<1> QED BY <1>1, <1>2 DEF SInv, Placed

-------------------------------------------------------------------------------
\* An attempt goes on.
GoesOn(v) ==
    /\ workers'[v].m = workers[v].m
    /\ workers'[v].at = "idle" <=> workers[v].at = "idle"
    /\ Holds(v)' => Holds(v)
    /\ workers'[v].at \in Staged => workers[v].at \in Staged
    /\ workers'[v].kind = workers[v].kind
       \/ (workers[v].at = "opening" /\ workers'[v].kind # "local")
    /\ Kinds(workers'[v])
\* A place is given back: by an official client, by one that was told to stop, or by its holder.
Frees(m) ==
    /\ jobs'[m] = None
    /\ \/ m \in drivers \/ StopOn(m)
       \/ jobs[m] = None
       \/ \E w \in Workers : jobs[m] = w /\ ~Holds(w)' /\ seances'[m] # w
Seats(m) == seances'[m] = None \/ (seances'[m] \in Workers /\ SeatOf(seances[m], m)')
\* No mission goes back before its birth.
StaysBorn == \A m \in Missions : tasks[m].state # "unborn" => tasks'[m].state # "unborn"

LEMMA StillStopped ==
    ASSUME SInv, \A v \in Workers : GoesOn(v), stop \subseteq stop'
    PROVE  \A m \in Missions : StopOn(m) => StopOn(m)'
BY DEF SInv, Signalled, StopOn, GoesOn

LEMMA HeldPlace ==
    ASSUME MInv, NEW w \in Workers, Holds(w)
    PROVE  workers[w].m \in Missions
<1>1. workers[w] \in Attempts /\ Good(workers[w], tasks, log, drivers)
  BY DEF MInv, Types, AllGood
<1>2. workers[w].at \in Begun \cup {"reserved", "refused", "leaving"}
  BY <1>1 DEF Holds, Staged, Attempts, Ats, Begun
<1> QED BY <1>1, <1>2 DEF Good

\* The attempts go on, and the tables with them.
LEMMA TablesGo ==
    ASSUME MInv, SInv, UNCHANGED <<drivers, alive>>, \A v \in Workers : GoesOn(v),
           stop \subseteq stop', stop' \subseteq Workers,
           flagged' \subseteq Missions, \A m \in flagged' : m \in flagged \/ StopOn(m)',
           jobs' \in [Missions -> Workers \cup {None}],
           \A m \in Missions : jobs'[m] = jobs[m] \/ Frees(m),
           seances' \in [Missions -> Workers \cup {None}],
           \A m \in Missions : seances'[m] = seances[m] \/ Seats(m),
           StaysBorn, Births'
    PROVE  SInv'
<1>1. \A m \in Missions : StopOn(m) => StopOn(m)' BY StillStopped
<1>2. Fresh'
  <2> SUFFICES ASSUME NEW w \in Workers
               PROVE  /\ workers'[w].at = "idle" \/ ~alive' => workers'[w].m = None
                      /\ workers'[w].m # None => /\ workers'[w].m \in Missions
                                                /\ tasks'[workers'[w].m].state # "unborn"
                      /\ Kinds(workers[w])'
    BY DEF Fresh
  <2>1. /\ workers[w].at = "idle" \/ ~alive => workers[w].m = None
        /\ workers[w].m # None => /\ workers[w].m \in Missions
                                 /\ tasks[workers[w].m].state # "unborn"
    BY DEF SInv, Fresh
  <2>2. GoesOn(w) OBVIOUS
  <2>3. workers'[w].m = workers[w].m /\ (workers'[w].at = "idle" <=> workers[w].at = "idle")
    BY <2>2 DEF GoesOn
  <2>4. Kinds(workers[w])' BY <2>2 DEF GoesOn, Kinds
  <2> QED BY <2>1, <2>3, <2>4 DEF StaysBorn
<1>3. Signalled' BY <1>1 DEF SInv, Signalled
<1>4. Tabled'
  <2> SUFFICES ASSUME NEW m \in Missions, jobs'[m] # None PROVE workers'[jobs'[m]].m = m
    BY DEF Tabled
  <2>1. jobs'[m] = jobs[m] BY DEF Frees
  <2>2. jobs[m] \in Workers /\ workers[jobs[m]].m = m BY <2>1 DEF SInv, Tabled
  <2> QED BY <2>1, <2>2 DEF GoesOn
<1>5. Placed'
  <2> SUFFICES ASSUME NEW w \in Workers, Holds(w)', workers'[w].m \notin drivers
               PROVE  jobs'[workers'[w].m] = w \/ StopOn(workers[w].m)'
    BY DEF Placed
  <2>1. PICK m : m = workers[w].m OBVIOUS
  <2>2. workers'[w].m = m /\ Holds(w) BY <2>1 DEF GoesOn
  <2>3. jobs[m] = w \/ StopOn(m) BY <2>1, <2>2 DEF SInv, Placed
  <2>4. m \in Missions BY <2>1, <2>2, HeldPlace
  <2>5. CASE jobs'[m] = jobs[m] BY <1>1, <2>2, <2>3, <2>4, <2>5
  <2>6. CASE Frees(m) BY <1>1, <2>2, <2>3, <2>4, <2>6, MissionsAssumption DEF Frees
  <2> QED BY <2>4, <2>5, <2>6
<1>6. Seated'
  <2> SUFFICES ASSUME NEW m \in Missions, seances'[m] # None PROVE SeatOf(seances[m], m)'
    BY DEF Seated
  <2>1. CASE Seats(m) BY <2>1 DEF Seats
  <2>2. CASE seances'[m] = seances[m]
    <3>1. PICK s \in Workers : s = seances[m] /\ SeatOf(s, m) BY <2>2 DEF SInv, Seated
    <3>2. GoesOn(s) OBVIOUS
    <3>3. /\ workers'[s].m = m /\ workers'[s].kind = "seance"
          /\ workers'[s].at \notin {"idle"} \cup Staged
      BY <3>1, <3>2 DEF SeatOf, GoesOn, Staged
    <3>4. m \notin drivers => jobs'[m] = s \/ StopOn(m)'
      <4>1. m \notin drivers => jobs[m] = s \/ StopOn(m) BY <3>1 DEF SeatOf
      <4>2. CASE jobs'[m] = jobs[m] BY <1>1, <4>1, <4>2
      <4>3. CASE Frees(m) BY <1>1, <2>2, <3>1, <4>1, <4>3, MissionsAssumption DEF Frees
      <4> QED BY <4>2, <4>3
    <3> QED BY <2>2, <3>1, <3>3, <3>4 DEF SeatOf
  <2> QED BY <2>1, <2>2
<1> QED BY <1>2, <1>3, <1>4, <1>5, <1>6 DEF SInv

\* Nothing is born, and nobody leads a child that is only planned.
LEMMA BirthsStay ==
    ASSUME MInv, SInv,
           \A k \in Missions \ Roots : tasks'[k].state = "unborn" <=> tasks[k].state = "unborn",
           disk' = disk \/ disk' = tasks',
           \A u \in Workers : workers'[u].at = "planned" =>
               workers[u].at = "planned" /\ workers'[u].m = workers[u].m,
           \A v \in Workers : \/ workers'[v].m = workers[v].m
                              \/ \A u \in Workers : workers'[u].at = "planned" =>
                                     workers'[v].m \notin Kids[workers[u].m]
    PROVE  Births'
<1>1. \A m \in Missions : Kids[m] \subseteq Missions \ Roots BY MissionsAssumption
<1>2. Born(tasks)' BY <1>1 DEF SInv, Births, Born
<1>3. Born(disk)' BY <1>2 DEF SInv, Births, Born
<1>4. Unled'
  <2> SUFFICES ASSUME NEW u \in Workers, workers'[u].at = "planned", NEW v \in Workers,
                      NEW k \in Kids[workers'[u].m], Youngest(k, workers[u].m)'
               PROVE  workers'[v].m # k
    BY DEF Unled
  <2>1. PICK m : m = workers[u].m /\ workers'[u].m = m /\ workers[u].at = "planned" OBVIOUS
  <2>2. m \in Missions
    <3>1. Good(workers[u], tasks, log, drivers) BY DEF MInv, AllGood
    <3> QED BY <2>1, <3>1 DEF Good, Begun
  <2>3. Kids[m] \subseteq Missions \ Roots BY <1>1, <2>2
  <2>4. Youngest(k, m) BY <2>1, <2>3 DEF Youngest
  <2>5. workers[v].m # k BY <2>1, <2>4 DEF SInv, Births, Unled
  <2>6. workers'[v].m = workers[v].m \/ workers'[v].m \notin Kids[m] BY <2>1
  <2> QED BY <2>1, <2>5, <2>6
<1> QED BY <1>2, <1>3, <1>4 DEF Births

\* A worker takes a place that is free.
LEMMA PlaceTaken ==
    ASSUME MInv, SInv, alive, UNCHANGED <<drivers, alive, seances, stop, flagged, tasks>>,
           NEW w \in Workers, NEW m \in Missions, NEW kind \in {"local", "seance"}, NEW parent,
           workers[w].at = "idle", workers'[w] = Attempt(m, kind, parent),
           \A v \in Workers \ {w} : GoesOn(v),
           jobs[m] = None, jobs' = [jobs EXCEPT ![m] = w],
           kind = "local" => m \notin drivers, tasks[m].state # "unborn", Births'
    PROVE  SInv'
<1>1. /\ workers'[w].m = m /\ workers'[w].at = "reserved" /\ workers'[w].kind = kind
      /\ workers[w].m = None
  BY DEF Attempt, SInv, Fresh
<1>2. jobs'[m] = w /\ \A k \in Missions : k # m => jobs'[k] = jobs[k] BY DEF SInv, Tabled
<1>3. \A k \in Missions : StopOn(k) => StopOn(k)'
  BY <1>1, MissionsAssumption DEF StopOn, SInv, Signalled, GoesOn
<1>4. Fresh'
  <2> SUFFICES ASSUME NEW v \in Workers
               PROVE  /\ workers'[v].at # "idle" \/ workers'[v].m = None
                      /\ workers'[v].m # None => /\ workers'[v].m \in Missions
                                                /\ tasks[workers'[v].m].state # "unborn"
                      /\ Kinds(workers[v])'
    BY DEF Fresh
  <2>1. CASE v = w BY <1>1, <2>1 DEF Kinds
  <2>2. CASE v # w
    <3>1. GoesOn(v) BY <2>2
    <3>2. Kinds(workers[v])' BY <3>1 DEF GoesOn, Kinds
    <3>3. workers'[v].m = workers[v].m /\ (workers'[v].at = "idle" <=> workers[v].at = "idle")
      BY <3>1 DEF GoesOn
    <3> QED BY <3>2, <3>3 DEF SInv, Fresh
  <2> QED BY <2>1, <2>2
<1>5. Signalled' BY <1>3 DEF SInv, Signalled
<1>6. Tabled'
  <2>1. jobs' \in [Missions -> Workers \cup {None}] BY DEF SInv, Tabled
  <2>2. ASSUME NEW k \in Missions, jobs'[k] # None PROVE workers'[jobs'[k]].m = k
    <3>1. CASE k = m BY <1>1, <1>2, <3>1
    <3>2. CASE k # m
      <4>1. jobs'[k] = jobs[k] /\ jobs[k] \in Workers /\ workers[jobs[k]].m = k
        BY <1>2, <2>2, <3>2 DEF SInv, Tabled
      <4>2. jobs[k] # w BY <1>1, <4>1, MissionsAssumption
      <4> QED BY <4>1, <4>2 DEF GoesOn
    <3> QED BY <3>1, <3>2
  <2> QED BY <2>1, <2>2 DEF Tabled
<1>7. Placed'
  <2> SUFFICES ASSUME NEW v \in Workers, Holds(v)', workers'[v].m \notin drivers
               PROVE  jobs'[workers'[v].m] = v \/ StopOn(workers[v].m)'
    BY DEF Placed
  <2>1. CASE v = w BY <1>1, <1>2, <2>1
  <2>2. CASE v # w
    <3>1. PICK k : k = workers[v].m /\ workers'[v].m = k /\ Holds(v) BY <2>2 DEF GoesOn
    <3>2. jobs[k] = v \/ StopOn(k) BY <3>1 DEF SInv, Placed
    <3>3. k \in Missions BY <3>1, HeldPlace
    <3>4. jobs[k] = v => jobs'[k] = v BY <1>2, <3>3, MissionsAssumption
    <3> QED BY <1>3, <3>1, <3>2, <3>3, <3>4
  <2> QED BY <2>1, <2>2
<1>8. Seated'
  <2>1. seances' \in [Missions -> Workers \cup {None}] BY DEF SInv, Seated
  <2>2. ASSUME NEW k \in Missions, seances'[k] # None PROVE SeatOf(seances[k], k)'
    <3>1. PICK s \in Workers : s = seances[k] /\ SeatOf(s, k) BY <2>2 DEF SInv, Seated
    <3>2. s # w BY <3>1 DEF SeatOf
    <3>3. GoesOn(s) BY <3>2
    <3>4. /\ workers'[s].m = k /\ workers'[s].kind = "seance"
          /\ workers'[s].at \notin {"idle"} \cup Staged
      BY <3>1, <3>3 DEF SeatOf, GoesOn, Staged
    <3>5. k \notin drivers => jobs[k] = s \/ StopOn(k) BY <3>1 DEF SeatOf
    <3>6. jobs[k] = s => jobs'[k] = s BY <1>2, MissionsAssumption
    <3> QED BY <1>3, <3>1, <3>4, <3>5, <3>6 DEF SeatOf
  <2> QED BY <2>1, <2>2 DEF Seated
<1> QED BY <1>4, <1>5, <1>6, <1>7, <1>8 DEF SInv

-------------------------------------------------------------------------------
(* The steps of a worker.                                                  *)

Alike(v) ==
    workers'[v].m = workers[v].m /\ workers'[v].at = workers[v].at /\ workers'[v].kind = workers[v].kind
\* A worker goes from one place of its mission to another; what it counts and returns is free.
Advances(w, at) ==
    /\ workers'[w].m = workers[w].m /\ workers'[w].at = at /\ workers'[w].kind = workers[w].kind
    /\ \A v \in Workers \ {w} : Alike(v)
    /\ workers[w].at \notin {"idle", "ended"} /\ at \notin {"idle", "reserved"}
    /\ at = "refused" => workers[w].at = "reserved"
    /\ at = "opening" => workers[w].at = "reserved" /\ workers[w].kind # "local"
    /\ at = "opened" => workers[w].at = "opening"
SameBirths == \A m \in Missions : tasks'[m].state = "unborn" <=> tasks[m].state = "unborn"

LEMMA AlikeGoes ==
    ASSUME SInv, NEW v \in Workers, Alike(v), drivers' = drivers
    PROVE  GoesOn(v)
<1>1. Kinds(workers[v]) BY DEF SInv, Fresh
<1>2. workers'[v].m = workers[v].m /\ workers'[v].at = workers[v].at /\ workers'[v].kind = workers[v].kind
  BY DEF Alike
<1>3. Kinds(workers'[v]) BY <1>1, <1>2 DEF Kinds
<1>4. Holds(v)' <=> Holds(v) BY <1>2 DEF Holds
<1> QED BY <1>2, <1>3, <1>4 DEF GoesOn

LEMMA AdvancesGoes ==
    ASSUME MInv, SInv, NEW w \in Workers, NEW at, Advances(w, at), drivers' = drivers
    PROVE  \A v \in Workers : GoesOn(v)
<1>1. workers[w].kind \in {"local", "seance", "unopened"} BY DEF MInv, Types, Attempts
<1>2. Kinds(workers[w]) BY DEF SInv, Fresh
<1>3. Kinds(workers'[w]) BY <1>1, <1>2 DEF Advances, Kinds
<1>4. at \in Staged => workers[w].at \in Staged BY DEF Advances, Staged
<1>5. Holds(w)' => Holds(w) BY <1>4 DEF Advances, Holds
<1>6. /\ workers'[w].m = workers[w].m /\ workers'[w].at = at /\ workers'[w].kind = workers[w].kind
      /\ workers[w].at # "idle" /\ at # "idle"
  BY DEF Advances
<1>7. GoesOn(w) BY <1>3, <1>4, <1>5, <1>6 DEF GoesOn
<1> QED BY <1>7, AlikeGoes DEF Advances

LEMMA QuietKeeps ==
    ASSUME MInv, SInv, NEW w \in Workers, NEW at, Advances(w, at), at # "planned",
           UNCHANGED <<drivers, alive, jobs, seances, stop, flagged>>,
           SameBirths, disk' = disk \/ disk' = tasks'
    PROVE  SInv'
<1>1. \A v \in Workers : GoesOn(v) BY AdvancesGoes
<1>2. \A v \in Workers : workers'[v].m = workers[v].m
                         /\ (workers'[v].at = "planned" => workers[v].at = "planned")
  BY DEF Advances, Alike
<1>3. StaysBorn BY DEF SameBirths, StaysBorn
<1>4. Births' BY <1>2, BirthsStay DEF SameBirths
<1>5. /\ jobs' \in [Missions -> Workers \cup {None}] /\ seances' \in [Missions -> Workers \cup {None}]
      /\ stop' \subseteq Workers /\ flagged' \subseteq Missions
  BY DEF SInv, Tabled, Seated, Signalled
<1> QED BY <1>1, <1>3, <1>4, <1>5, TablesGo

\* The state of one mission that is born moves.
LEMMA OneState ==
    ASSUME MInv, NEW m \in Missions, tasks[m].state # "unborn", NEW s, s.state # "unborn",
           tasks' = [tasks EXCEPT ![m] = s]
    PROVE  SameBirths
BY DEF MInv, Types, SameBirths

LEMMA SteersNothing ==
    ASSUME MInv, SInv, NEW w \in Workers,
           Begin(w) \/ Turn(w) \/ Finish(w) \/ ConcludeLog(w) \/ ConcludePublish(w) \/ Conclude(w)
    PROVE  SInv'
<1>1. PICK m : m = workers[w].m OBVIOUS
<1>2. workers[w] \in Attempts /\ Good(workers[w], tasks, log, drivers) /\ workers \in [Workers -> Attempts]
  BY DEF MInv, Types, AllGood
<1>3. UNCHANGED <<drivers, alive, jobs, seances, stop, flagged>>
  BY DEF Begin, Turn, Charges, Finish, ConcludeLog, ConcludePublish, Conclude, tables, requests
<1>4. CASE Begin(w)
  <2>1. m \in Missions /\ workers[w].at = "reserved" BY <1>1, <1>2, <1>4 DEF Begin, Good
  <2>2. PICK at \in {"refused", "working", "opening"} :
          Moves(w, at) /\ (at = "opening" => workers[w].kind # "local")
    BY <1>4 DEF Begin
  <2>3. Advances(w, at) BY <1>2, <2>1, <2>2 DEF Moves, Advances, Alike, Attempts
  <2>4. SameBirths /\ (disk' = disk \/ disk' = tasks')
    <3>1. CASE tasks[m].state # "planned" BY <1>1, <1>4, <3>1 DEF Begin, SameBirths
    <3>2. CASE tasks[m].state = "planned"
      <4>1. PICK state \in {"running", "failed"} : tasks' = [tasks EXCEPT ![m].state = state]
        BY <1>1, <1>4, <3>2 DEF Begin
      <4>2. PICK s : s = [tasks[m] EXCEPT !.state = state] OBVIOUS
      <4>3. tasks[m] \in Task BY <2>1 DEF MInv, Types
      <4>4. s.state = state /\ tasks' = [tasks EXCEPT ![m] = s] BY <4>1, <4>2, <4>3 DEF Task
      <4>5. SameBirths BY <2>1, <3>2, <4>4, OneState
      <4>6. disk' = disk \/ disk' = tasks' BY <1>1, <1>4, <3>2 DEF Begin, Saved, NotSaved
      <4> QED BY <4>5, <4>6
    <3> QED BY <3>1, <3>2
  <2> QED BY <1>3, <2>2, <2>3, <2>4, QuietKeeps
<1>5. CASE Turn(w)
  <2>1. m \in Missions /\ tasks[m].state # "unborn" /\ workers[w].at \in {"working", "open"}
    <3>1. workers[w].at \in {"working", "open"} BY <1>5 DEF Turn, Between
    <3> QED BY <1>1, <1>2, <3>1 DEF Good, Begun
  <2>2. PICK n \in Int, at \in {"working", "open", "delegating", "concluding"}, outcome \in {"failed"} :
          \/ workers' = [workers EXCEPT ![w].spent = n, ![w].at = at]
          \/ workers' = [workers EXCEPT ![w].spent = n, ![w].at = at, ![w].outcome = outcome]
    <3>1. PICK n \in Int : n = workers[w].spent + 1 BY <1>2 DEF Attempts
    <3> QED BY <1>5, <2>1, <3>1 DEF Turn, Charges, Between
  <2>3. Advances(w, at) BY <1>2, <2>1, <2>2 DEF Advances, Alike, Attempts
  <2>4. PICK n2 : tasks' = [tasks EXCEPT ![m].state = "running", ![m].spent = n2]
    BY <1>1, <1>5 DEF Turn, Charges, Publishes
  <2>5. PICK s : s = [tasks[m] EXCEPT !.state = "running", !.spent = n2] OBVIOUS
  <2>6. tasks[m] \in Task /\ tasks \in [Missions -> Task] BY <2>1 DEF MInv, Types
  <2>7. s.state = "running" /\ tasks' = [tasks EXCEPT ![m] = s] BY <2>4, <2>5, <2>6, <2>1 DEF Task
  <2>8. SameBirths BY <2>1, <2>7, OneState
  <2>9. disk' = disk \/ disk' = tasks' BY <1>5 DEF Turn, Charges, Saved, NotSaved
  <2> QED BY <1>3, <2>2, <2>3, <2>8, <2>9, QuietKeeps
<1>6. CASE Finish(w) \/ Conclude(w) \/ ConcludeLog(w)
  <2>1. PICK at, outcome :
          /\ at \in {"concluding", "logged"}
          /\ workers' = [workers EXCEPT ![w].at = at, ![w].outcome = outcome]
    BY <1>6 DEF Finish, Conclude, ConcludeLog
  <2>2. workers[w].at \in {"working", "open", "concluding"} BY <1>6 DEF Finish, Conclude, ConcludeLog
  <2>3. Advances(w, at) BY <1>2, <2>1, <2>2 DEF Advances, Alike, Attempts
  <2>4. UNCHANGED <<tasks, disk>> BY <1>6 DEF Finish, Conclude, ConcludeLog
  <2>5. SameBirths BY <2>4 DEF SameBirths
  <2> QED BY <1>3, <2>1, <2>3, <2>4, <2>5, QuietKeeps
<1>7. CASE ConcludePublish(w)
  <2>1. m \in Missions /\ tasks[m].state # "unborn" /\ workers[w].at = "logged"
        /\ workers[w].outcome \in Final
    BY <1>1, <1>2, <1>7 DEF ConcludePublish, Good, Begun
  <2>2. Advances(w, "leaving") BY <1>2, <1>7, <2>1 DEF ConcludePublish, Moves, Advances, Alike, Attempts
  <2>3. PICK n, o : /\ o = workers[w].outcome /\ n = workers[w].spent
                    /\ tasks' = [tasks EXCEPT ![m].state = o, ![m].spent = n]
    BY <1>1, <1>7 DEF ConcludePublish, Publishes
  <2>4. PICK s : s = [tasks[m] EXCEPT !.state = o, !.spent = n] OBVIOUS
  <2>5. tasks[m] \in Task /\ tasks \in [Missions -> Task] BY <2>1 DEF MInv, Types
  <2>6. s.state # "unborn" /\ tasks' = [tasks EXCEPT ![m] = s]
    BY <2>1, <2>3, <2>4, <2>5 DEF Task, Final
  <2>7. SameBirths BY <2>1, <2>6, OneState
  <2>8. disk' = disk \/ disk' = tasks' BY <1>7 DEF ConcludePublish, Saves, Saved, NotSaved
  <2> QED BY <1>3, <2>2, <2>7, <2>8, QuietKeeps
<1> QED BY <1>4, <1>5, <1>6, <1>7

\* A session opens, or does not.
LEMMA SteersOpening ==
    ASSUME MInv, SInv, NEW w \in Workers, OpenSession(w)
    PROVE  SInv'
<1>1. workers[w] \in Attempts /\ workers \in [Workers -> Attempts] BY DEF MInv, Types
<1>2. UNCHANGED <<drivers, alive, tasks, disk, jobs, seances, stop, flagged>> /\ workers[w].at = "opening"
  BY DEF OpenSession, tables, requests
<1>3. SameBirths BY <1>2 DEF SameBirths
<1>4. CASE Moves(w, "opened")
  <2>1. Advances(w, "opened") BY <1>1, <1>2, <1>4 DEF Moves, Advances, Alike, Attempts
  <2> QED BY <1>2, <1>3, <2>1, QuietKeeps
<1>5. CASE workers' = [workers EXCEPT ![w].at = "concluding", ![w].outcome = "failed",
                                      ![w].kind = "unopened"]
  <2>1. /\ workers'[w].m = workers[w].m /\ workers'[w].at = "concluding"
        /\ workers'[w].kind = "unopened"
    BY <1>1, <1>5 DEF Attempts
  <2>2. \A v \in Workers \ {w} : Alike(v) BY <1>1, <1>5 DEF Alike
  <2>3. Holds(w) /\ "concluding" \notin Staged BY <1>2 DEF Holds, Staged
  <2>4. Kinds(workers'[w]) BY <2>1 DEF Kinds
  <2>5. GoesOn(w) BY <1>2, <2>1, <2>3, <2>4 DEF GoesOn
  <2>6. \A v \in Workers : GoesOn(v) BY <1>2, <2>2, <2>5, AlikeGoes
  <2>7. \A v \in Workers : workers'[v].m = workers[v].m
                           /\ (workers'[v].at = "planned" => workers[v].at = "planned")
    BY <2>1, <2>2 DEF Alike
  <2>8. Births' BY <1>2, <2>7, BirthsStay
  <2>9. StaysBorn BY <1>2 DEF StaysBorn
  <2>10. /\ jobs' \in [Missions -> Workers \cup {None}] /\ seances' \in [Missions -> Workers \cup {None}]
         /\ stop' \subseteq Workers /\ flagged' \subseteq Missions
    BY <1>2 DEF SInv, Tabled, Seated, Signalled
  <2> QED BY <1>2, <2>6, <2>8, <2>9, <2>10, TablesGo
<1> QED BY <1>4, <1>5 DEF OpenSession

\* The tables move with a worker.
LEMMA WithTables ==
    ASSUME MInv, SInv, NEW w \in Workers, NEW at, Advances(w, at), at # "planned",
           UNCHANGED <<drivers, alive, tasks, disk, stop, flagged>>,
           jobs' \in [Missions -> Workers \cup {None}],
           \A m \in Missions : jobs'[m] = jobs[m] \/ Frees(m),
           seances' \in [Missions -> Workers \cup {None}],
           \A m \in Missions : seances'[m] = seances[m] \/ Seats(m)
    PROVE  SInv'
<1>1. \A v \in Workers : GoesOn(v) BY AdvancesGoes
<1>2. \A v \in Workers : workers'[v].m = workers[v].m
                         /\ (workers'[v].at = "planned" => workers[v].at = "planned")
  BY DEF Advances, Alike
<1>3. StaysBorn BY DEF StaysBorn
<1>4. Births' BY <1>2, BirthsStay
<1>5. stop' \subseteq Workers /\ flagged' \subseteq Missions BY DEF SInv, Signalled
<1> QED BY <1>1, <1>3, <1>4, <1>5, TablesGo

LEMMA SteersInsert ==
    ASSUME MInv, SInv, NEW w \in Workers, Insert(w)
    PROVE  SInv'
<1>1. workers[w] \in Attempts /\ workers \in [Workers -> Attempts] BY DEF MInv, Types
<1>2. /\ UNCHANGED <<drivers, alive, tasks, disk, jobs, stop, flagged>>
      /\ workers[w].at = "opened" /\ seances' = [seances EXCEPT ![workers[w].m] = w]
  BY DEF Insert, requests
<1>3. Advances(w, "open") BY <1>1, <1>2 DEF Insert, Moves, Advances, Alike, Attempts
<1>4. PICK m : m = workers[w].m OBVIOUS
<1>5. Holds(w) BY <1>2 DEF Holds, Staged
<1>6. m \in Missions BY <1>4, <1>5, HeldPlace
<1>7. seances' \in [Missions -> Workers \cup {None}] BY <1>2 DEF SInv, Seated
<1>8. seances'[m] = w /\ \A k \in Missions : k # m => seances'[k] = seances[k]
  BY <1>2, <1>4, <1>6 DEF SInv, Seated
<1>9. Seats(m)
  <2>1. workers'[w].m = m /\ workers'[w].kind = "seance" /\ workers'[w].at = "open"
    <3>1. Kinds(workers[w]) BY DEF SInv, Fresh
    <3> QED BY <1>2, <1>3, <1>4, <3>1 DEF Advances, Kinds
  <2>2. m \notin drivers => jobs[m] = w \/ StopOn(m) BY <1>4, <1>5 DEF SInv, Placed
  <2>3. \A v \in Workers : GoesOn(v) BY <1>2, <1>3, AdvancesGoes
  <2>4. StopOn(m) => StopOn(m)' BY <1>2, <1>6, <2>3, StillStopped
  <2>5. workers'[w].at \notin {"idle"} \cup Staged BY <2>1 DEF Staged
  <2>6. SeatOf(w, m)' BY <1>2, <2>1, <2>2, <2>4, <2>5 DEF SeatOf
  <2> QED BY <1>8, <2>6 DEF Seats
<1>10. jobs' \in [Missions -> Workers \cup {None}] BY <1>2 DEF SInv, Tabled
<1> QED BY <1>2, <1>3, <1>7, <1>8, <1>9, <1>10, WithTables

\* A place is given back, by whoever holds it.
LEMMA SteersEnd ==
    ASSUME MInv, SInv, NEW w \in Workers, GiveBack(w) \/ Leave(w)
    PROVE  SInv'
<1>1. workers[w] \in Attempts /\ workers \in [Workers -> Attempts] BY DEF MInv, Types
<1>2. UNCHANGED <<drivers, alive, tasks, disk, stop, flagged>> /\ workers[w].at \in {"refused", "leaving"}
  BY DEF GiveBack, Leave, requests
<1>3. Advances(w, "ended")
  <2>1. CASE GiveBack(w) BY <1>1, <1>2, <2>1 DEF GiveBack, Advances, Alike, Attempts
  <2>2. CASE Leave(w) BY <1>1, <1>2, <2>2 DEF Leave, Moves, Advances, Alike, Attempts
  <2> QED BY <2>1, <2>2
<1>4. PICK m : m = workers[w].m OBVIOUS
<1>5. m \in Missions
  <2>1. Good(workers[w], tasks, log, drivers) BY DEF MInv, AllGood
  <2> QED BY <1>2, <1>4, <2>1 DEF Good
<1>6. \/ jobs' = jobs
      \/ jobs' = [jobs EXCEPT ![m] = None]
         /\ (workers[w].at = "refused" \/ workers[w].kind # "seance")
  BY <1>4 DEF GiveBack, Leave
<1>7. /\ seances' = seances \/ seances' = [seances EXCEPT ![m] = None]
  BY <1>4 DEF GiveBack, Leave
<1>8. /\ seances' \in [Missions -> Workers \cup {None}]
      /\ \A k \in Missions : seances'[k] = seances[k] \/ Seats(k)
  BY <1>7, <1>5 DEF SInv, Seated, Seats
<1>9. /\ jobs' \in [Missions -> Workers \cup {None}]
      /\ \A k \in Missions \ {m} : jobs'[k] = jobs[k]
  BY <1>6, <1>5 DEF SInv, Tabled
<1>10. jobs'[m] = jobs[m] \/ Frees(m)
  <2> SUFFICES ASSUME jobs' # jobs PROVE Frees(m)
    OBVIOUS
  <2>1. jobs'[m] = None BY <1>5, <1>6 DEF SInv, Tabled
  <2>2. Holds(w) BY <1>2, <1>6 DEF Holds, Staged
  <2>3. m \in drivers \/ jobs[m] = w \/ StopOn(m) BY <1>4, <2>2 DEF SInv, Placed
  <2>4. CASE m \in drivers \/ StopOn(m) BY <2>1, <2>4 DEF Frees
  <2>5. CASE jobs[m] = w
    <3>1. ~Holds(w)' BY <1>3 DEF Holds, Advances, Staged
    <3>2. seances'[m] # w \/ m \in drivers \/ StopOn(m)
      <4> SUFFICES ASSUME seances'[m] = w PROVE FALSE
        OBVIOUS
      <4>1. seances[m] = w BY <1>5, <1>7, MissionsAssumption DEF SInv, Seated
      <4>2. SeatOf(w, m) BY <1>5, <4>1, MissionsAssumption DEF SInv, Seated
      <4>3. workers[w].at \notin Staged /\ workers[w].kind = "seance" BY <4>2 DEF SeatOf
      <4> QED BY <1>6, <4>3 DEF Staged
    <3> QED BY <2>1, <2>4, <2>5, <3>1, <3>2 DEF Frees
  <2> QED BY <2>3, <2>4, <2>5
<1> QED BY <1>2, <1>3, <1>8, <1>9, <1>10, WithTables

-------------------------------------------------------------------------------
(* Delegating.                                                             *)

LEMMA OneParent ==
    ASSUME MInv, NEW u \in Workers, NEW w \in Workers, u # w,
           workers[u].at \in Begun, workers[w].at \in Begun
    PROVE  /\ workers[u].m \in Missions /\ workers[w].m \in Missions
           /\ \A c \in Kids[workers[w].m] : c \notin Kids[workers[u].m]
<1>1. workers[u].m \in Missions /\ workers[w].m \in Missions BY DEF MInv, AllGood, Good
<1>2. workers[u].m # workers[w].m BY <1>1 DEF MInv, OneLeader, Leads
<1> QED BY <1>1, <1>2, FamiliesAssumption

LEMMA SteersPlan ==
    ASSUME MInv, SInv, NEW w \in Workers, PlanChild(w)
    PROVE  SInv'
<1>1. workers[w] \in Attempts /\ workers \in [Workers -> Attempts] /\ tasks \in [Missions -> Task]
  BY DEF MInv, Types
<1>2. UNCHANGED <<drivers, alive, jobs, seances, stop, flagged>> /\ workers[w].at = "delegating"
  BY DEF PlanChild, tables, requests
<1>3. PICK m : m = workers[w].m OBVIOUS
<1>4. m \in Missions /\ Kids[m] \subseteq Missions /\ Missions \subseteq Nat
  <2>1. Good(workers[w], tasks, log, drivers) BY DEF MInv, AllGood
  <2>2. m \in Missions BY <1>2, <1>3, <2>1 DEF Good, Begun
  <2> QED BY <2>2, MissionsAssumption
<1>5. ASSUME NEW at \in {"working", "open", "planned"}, Moves(w, at) PROVE Advances(w, at)
  BY <1>1, <1>2, <1>5 DEF Moves, Advances, Alike, Attempts
<1>6. Between(w) \in {"working", "open"} BY DEF Between
<1>7. CASE Moves(w, Between(w)) /\ UNCHANGED <<tasks, disk, faults>>
  <2>1. SameBirths BY <1>7 DEF SameBirths
  <2>2. PICK at \in {"working", "open"} : Moves(w, at) BY <1>6, <1>7
  <2> QED BY <1>2, <1>5, <1>7, <2>1, <2>2, QuietKeeps
<1>8. ASSUME NEW c \in Kids[m], tasks[c].state = "unborn",
             \A k \in Kids[m] : tasks[k].state = "unborn" => c <= k,
             tasks' = [tasks EXCEPT ![c] = Half(tasks[m])], disk' = disk \/ disk' = tasks',
             NEW at \in {"working", "open", "planned"}, Moves(w, at)
      PROVE  SInv'
  <2>1. Advances(w, at) BY <1>5, <1>8
  <2>2. \A v \in Workers : GoesOn(v) BY <1>2, <2>1, AdvancesGoes
  <2>3. tasks'[c].state = "planned" /\ \A k \in Missions : k # c => tasks'[k] = tasks[k]
    BY <1>1, <1>4, <1>8 DEF Half, Plan
  <2>4. StaysBorn BY <1>8, <2>3 DEF StaysBorn
  <2>5. /\ workers'[w].m = m /\ workers'[w].at = at
        /\ \A v \in Workers : workers'[v].m = workers[v].m
        /\ \A v \in Workers \ {w} : workers'[v].at = workers[v].at
    BY <1>3, <2>1 DEF Advances, Alike
  <2>6. Born(tasks)'
    <3> SUFFICES ASSUME NEW n \in Missions, NEW j \in Kids[n], NEW k \in Kids[n],
                        j < k, tasks'[j].state = "unborn"
                 PROVE  tasks'[k].state = "unborn"
      BY DEF Born
    <3>1. j \in Missions /\ k \in Missions /\ j # c BY <2>3, MissionsAssumption
    <3>2. tasks[j].state = "unborn" /\ tasks[k].state = "unborn"
      BY <2>3, <3>1 DEF SInv, Births, Born
    <3>3. k # c
      <4> SUFFICES ASSUME k = c PROVE FALSE
        OBVIOUS
      <4>1. n = m BY <1>4, FamiliesAssumption
      <4>2. c <= j BY <1>8, <3>2, <4>1
      <4>3. j \in Nat /\ c \in Nat BY <1>4, <3>1
      <4> QED BY <4>2, <4>3
    <3> QED BY <2>3, <3>1, <3>2, <3>3
  <2>7. Born(disk)'
    <3>1. CASE disk' = tasks' BY <2>6, <3>1 DEF Born
    <3>2. CASE disk' = disk
      <4>1. Born(disk) BY DEF SInv, Births
      <4> QED BY <3>2, <4>1 DEF Born
    <3> QED BY <1>8, <3>1, <3>2
  <2>8. Unled'
    <3> SUFFICES ASSUME NEW u \in Workers, workers'[u].at = "planned", NEW v \in Workers,
                        NEW k \in Kids[workers'[u].m], Youngest(k, workers[u].m)'
                 PROVE  workers'[v].m # k
      BY DEF Unled
    <3>1. CASE u = w
      <4>1. k \in Kids[m] /\ tasks'[k].state # "unborn" /\ c <= k
        BY <2>3, <2>5, <3>1 DEF Youngest
      <4>2. k \in Missions /\ k \in Nat /\ c \in Nat BY <1>4, <4>1
      <4>3. k = c
        <5> SUFFICES ASSUME k # c PROVE FALSE
          OBVIOUS
        <5>1. tasks[k].state # "unborn" /\ c < k BY <2>3, <4>1, <4>2
        <5> QED BY <1>4, <1>8, <4>1, <5>1 DEF SInv, Births, Born
      <4>4. c # None BY <1>4, MissionsAssumption
      <4>5. workers[v].m # c BY <1>8, <4>4 DEF SInv, Fresh
      <4> QED BY <2>5, <4>3, <4>5
    <3>2. CASE u # w
      <4>1. PICK n : n = workers[u].m /\ workers'[u].m = n /\ workers[u].at = "planned"
        BY <2>5, <3>2
      <4>2. n \in Missions /\ c \notin Kids[n] BY <1>2, <1>3, <3>2, <4>1, OneParent DEF Begun
      <4>3. Kids[n] \subseteq Missions BY <4>2, MissionsAssumption
      <4>4. Youngest(k, n) BY <2>3, <4>1, <4>2, <4>3 DEF Youngest
      <4>5. workers[v].m # k BY <4>1, <4>4 DEF SInv, Births, Unled
      <4> QED BY <2>5, <4>5
    <3> QED BY <3>1, <3>2
  <2>9. Births' BY <2>6, <2>7, <2>8 DEF Births
  <2>10. /\ jobs' \in [Missions -> Workers \cup {None}] /\ seances' \in [Missions -> Workers \cup {None}]
         /\ stop' \subseteq Workers /\ flagged' \subseteq Missions
    BY <1>2 DEF SInv, Tabled, Seated, Signalled
  <2> QED BY <1>2, <2>2, <2>4, <2>9, <2>10, TablesGo
<1>9. CASE \E c \in Kids[m] :
             /\ tasks[c].state = "unborn"
             /\ \A k \in Kids[m] : tasks[k].state = "unborn" => c <= k
             /\ tasks' = [tasks EXCEPT ![c] = Half(tasks[m])]
             /\ \/ Saved /\ Moves(w, "planned")
                \/ NotSaved /\ Moves(w, Between(w))
  <2>1. PICK c \in Kids[m] :
             /\ tasks[c].state = "unborn"
             /\ \A k \in Kids[m] : tasks[k].state = "unborn" => c <= k
             /\ tasks' = [tasks EXCEPT ![c] = Half(tasks[m])]
             /\ \/ Saved /\ Moves(w, "planned")
                \/ NotSaved /\ Moves(w, Between(w))
    BY <1>9
  <2>2. PICK at \in {"working", "open", "planned"} : Moves(w, at) BY <1>6, <2>1
  <2>3. disk' = disk \/ disk' = tasks' BY <2>1 DEF Saved, NotSaved
  <2> QED BY <1>8, <2>1, <2>2, <2>3
<1> QED BY <1>3, <1>7, <1>9 DEF PlanChild

LEMMA SteersLaunch ==
    ASSUME MInv, SInv, NEW w \in Workers, NEW child \in Workers, LaunchChild(w, child)
    PROVE  SInv'
<1>1. workers \in [Workers -> Attempts] BY DEF MInv, Types
<1>2. PICK m : m = workers[w].m OBVIOUS
<1>3. PICK c \in Kids[m] :
          /\ tasks[c].state # "unborn"
          /\ \A k \in Kids[m] : tasks[k].state # "unborn" => k <= c
          /\ jobs' = [jobs EXCEPT ![c] = child]
          /\ workers' = [workers EXCEPT ![w].at = "waiting", ![child] = Attempt(c, "local", w)]
  BY <1>2 DEF LaunchChild
<1>4. /\ alive /\ workers[w].at = "planned" /\ workers[child].at = "idle" /\ w # child
      /\ UNCHANGED <<drivers, alive, seances, stop, flagged, tasks, disk>>
  BY DEF LaunchChild, requests
<1>5. m \in Missions
  <2>1. Good(workers[w], tasks, log, drivers) BY DEF MInv, AllGood
  <2> QED BY <1>2, <1>4, <2>1 DEF Good, Begun
<1>6. c \in Missions \ Roots /\ c \notin drivers BY <1>5, MissionsAssumption DEF MInv, Types
<1>7. Youngest(c, m) BY <1>3 DEF Youngest
<1>8. \A v \in Workers : workers[v].m # c BY <1>2, <1>4, <1>7 DEF SInv, Births, Unled
<1>9. jobs[c] = None BY <1>6, <1>8 DEF SInv, Tabled
<1>10. /\ workers'[child] = Attempt(c, "local", w)
       /\ workers'[w].at = "waiting" /\ workers'[w].m = m /\ workers'[w].kind = workers[w].kind
       /\ \A v \in Workers \ {w, child} : workers'[v] = workers[v]
  BY <1>1, <1>2, <1>3, <1>4 DEF Attempts
<1>11. GoesOn(w)
  <2>1. Kinds(workers[w]) BY DEF SInv, Fresh
  <2>2. Kinds(workers'[w]) BY <1>2, <1>10, <2>1 DEF Kinds
  <2>3. "waiting" \notin Staged BY DEF Staged
  <2>4. Holds(w)' => Holds(w) BY <1>4, <1>10, <2>3 DEF Holds
  <2> QED BY <1>2, <1>4, <1>10, <2>2, <2>3, <2>4 DEF GoesOn
<1>12. \A v \in Workers \ {child} : GoesOn(v)
  <2> SUFFICES ASSUME NEW v \in Workers \ {child, w} PROVE GoesOn(v)
    BY <1>11
  <2>1. Alike(v) BY <1>10 DEF Alike
  <2> QED BY <1>4, <2>1, AlikeGoes
<1>13. Births'
  <2>1. workers'[child].m = c /\ workers'[child].at = "reserved" BY <1>10 DEF Attempt
  <2>2. \A u \in Workers : workers'[u].at = "planned" =>
            u # w /\ workers[u].at = "planned" /\ workers'[u].m = workers[u].m
    BY <1>10, <2>1
  <2>3. \A u \in Workers : workers'[u].at = "planned" => c \notin Kids[workers[u].m]
    BY <1>2, <1>4, <2>2, OneParent DEF Begun
  <2>4. \A v \in Workers : workers'[v].m = workers[v].m \/ v = child BY <1>2, <1>10
  <2> QED BY <1>4, <2>1, <2>2, <2>3, <2>4, BirthsStay
<1> QED BY <1>3, <1>4, <1>6, <1>9, <1>10, <1>12, <1>13, PlaceTaken

\* Two workers move: the parent, and its child that has ended.
LEMMA SteersReturn ==
    ASSUME MInv, SInv, NEW w \in Workers, ChildBack(w) \/ Absorb(w)
    PROVE  SInv'
<1>1. workers[w] \in Attempts /\ workers \in [Workers -> Attempts] /\ tasks \in [Missions -> Task]
  BY DEF MInv, Types
<1>2. UNCHANGED <<drivers, alive, jobs, seances, stop, flagged>>
      /\ workers[w].at \in {"waiting", "absorbing"}
  BY DEF ChildBack, Absorb, tables, requests
<1>3. PICK m : m = workers[w].m OBVIOUS
<1>4. m \in Missions /\ tasks[m].state # "unborn"
  <2>1. Good(workers[w], tasks, log, drivers) BY DEF MInv, AllGood
  <2> QED BY <1>2, <1>3, <2>1 DEF Good, Begun
<1>5. PICK c \in EndedChild(w), at \in {"working", "open", "absorbing"}, n \in Int :
          /\ \/ workers' = [workers EXCEPT ![w].at = at]
             \/ workers' = [workers EXCEPT ![w].at = at, ![c].outcome = "absorbed"]
             \/ workers' = [workers EXCEPT ![w].at = at, ![w].spent = n, ![c].outcome = "absorbed"]
          /\ \/ UNCHANGED <<tasks, disk>>
             \/ /\ disk' = disk \/ disk' = tasks'
                /\ \/ tasks' = [tasks EXCEPT ![m].spent = n]
                   \/ tasks' = [tasks EXCEPT ![m].state = "running", ![m].spent = n]
  <2>1. Between(w) \in {"working", "open"} BY DEF Between
  <2>2. CASE ChildBack(w)
    <3>1. PICK c \in EndedChild(w) :
              IF workers[c].outcome = "refused"
              THEN /\ workers' = [workers EXCEPT ![w].at = Between(w), ![c].outcome = "absorbed"]
                   /\ UNCHANGED <<tasks, disk, faults>>
              ELSE /\ tasks' = [tasks EXCEPT ![m].spent = @ + tasks[workers[c].m].spent]
                   /\ Saves
                   /\ Moves(w, "absorbing")
      BY <1>3, <2>2 DEF ChildBack
    <3>0. workers[c].m \in Missions
      BY <1>2, <3>1, MissionsAssumption DEF EndedChild, MInv, AllGood, Good
    <3>2. PICK n \in Int : n = tasks[m].spent + tasks[workers[c].m].spent
      BY <1>4, <3>0 DEF MInv, Types, Task
    <3>3. CASE workers[c].outcome = "refused" BY <2>1, <3>1, <3>3
    <3>4. CASE workers[c].outcome # "refused"
      <4>1. workers' = [workers EXCEPT ![w].at = "absorbing"] BY <3>1, <3>4 DEF Moves
      <4>2. tasks' = [tasks EXCEPT ![m].spent = n] BY <3>1, <3>2, <3>4
      <4>3. disk' = disk \/ disk' = tasks' BY <3>1, <3>4 DEF Saves, Saved, NotSaved
      <4> QED BY <4>1, <4>2, <4>3
    <3> QED BY <3>3, <3>4
  <2>3. CASE Absorb(w)
    <3>1. PICK c \in EndedChild(w), n \in Int :
              /\ tasks' = [tasks EXCEPT ![m].state = "running", ![m].spent = n]
              /\ Saves
              /\ workers' = [workers EXCEPT ![w].at = Between(w), ![w].spent = n,
                                            ![c].outcome = "absorbed"]
      <4>1. PICK c \in EndedChild(w) :
              /\ tasks' = [tasks EXCEPT ![m].state = "running",
                                        ![m].spent = workers[w].spent + tasks[workers[c].m].spent]
              /\ Saves
              /\ workers' = [workers EXCEPT ![w].at = Between(w),
                                ![w].spent = workers[w].spent + tasks[workers[c].m].spent,
                                ![c].outcome = "absorbed"]
        BY <1>3, <2>3 DEF Absorb, Publishes
      <4>2. workers[c].m \in Missions BY <1>2, <4>1, MissionsAssumption DEF EndedChild, MInv, AllGood, Good
      <4>3. PICK n \in Int : n = workers[w].spent + tasks[workers[c].m].spent
        BY <1>1, <4>2 DEF MInv, Types, Task, Attempts
      <4> QED BY <4>1, <4>3
    <3>2. disk' = disk \/ disk' = tasks' BY <3>1 DEF Saves, Saved, NotSaved
    <3> QED BY <2>1, <3>1, <3>2
  <2> QED BY <2>2, <2>3
<1>6. c \in Workers /\ workers[c].at = "ended" /\ c # w BY <1>2 DEF EndedChild
<1>7. Advances(w, at)
  <2>1. workers'[w].m = workers[w].m /\ workers'[w].at = at /\ workers'[w].kind = workers[w].kind
    BY <1>1, <1>5, <1>6 DEF Attempts
  <2>2. \A v \in Workers \ {w} : Alike(v) BY <1>1, <1>5, <1>6 DEF Alike, Attempts
  <2> QED BY <1>2, <2>1, <2>2 DEF Advances
<1>8. SameBirths /\ (disk' = disk \/ disk' = tasks')
  <2>1. CASE UNCHANGED <<tasks, disk>> BY <2>1 DEF SameBirths
  <2>2. CASE tasks' = [tasks EXCEPT ![m].spent = n]
    <3>1. PICK s : s = [tasks[m] EXCEPT !.spent = n] OBVIOUS
    <3>2. s.state = tasks[m].state /\ tasks' = [tasks EXCEPT ![m] = s]
      BY <1>1, <1>4, <2>2, <3>1 DEF Task
    <3> QED BY <1>4, <1>5, <3>2, OneState
  <2>3. CASE tasks' = [tasks EXCEPT ![m].state = "running", ![m].spent = n]
    <3>1. PICK s : s = [tasks[m] EXCEPT !.state = "running", !.spent = n] OBVIOUS
    <3>2. s.state = "running" /\ tasks' = [tasks EXCEPT ![m] = s]
      BY <1>1, <1>4, <2>3, <3>1 DEF Task
    <3> QED BY <1>4, <1>5, <3>2, OneState
  <2> QED BY <1>5, <2>1, <2>2, <2>3
<1> QED BY <1>2, <1>5, <1>7, <1>8, QuietKeeps

LEMMA SteersReserve ==
    ASSUME RootsStart, MInv, SInv,
           NEW w \in Workers, NEW m \in Missions, NEW kind \in {"local", "seance"}, Reserve(w, m, kind)
    PROVE  SInv'
<1>1. /\ alive /\ workers[w].at = "idle" /\ tasks[m].state # "unborn" /\ jobs[m] = None
      /\ m \in Roots /\ (kind = "local" => m \notin drivers)
      /\ jobs' = [jobs EXCEPT ![m] = w] /\ workers' = [workers EXCEPT ![w] = Attempt(m, kind, None)]
      /\ UNCHANGED <<drivers, alive, seances, stop, flagged, tasks, disk>>
  BY DEF Reserve, MayStart, Reserved, RootsStart, requests
<1>2. workers'[w] = Attempt(m, kind, None) /\ \A v \in Workers \ {w} : workers'[v] = workers[v]
  BY <1>1 DEF MInv, Types
<1>3. workers'[w].m = m /\ workers'[w].at = "reserved" BY <1>2 DEF Attempt
<1>4. \A v \in Workers \ {w} : GoesOn(v)
  <2> SUFFICES ASSUME NEW v \in Workers \ {w} PROVE GoesOn(v)
    OBVIOUS
  <2>1. Alike(v) BY <1>2 DEF Alike
  <2> QED BY <1>1, <2>1, AlikeGoes
<1>5. \A u \in Workers : workers'[u].at = "planned" =>
          /\ workers[u].at = "planned" /\ workers'[u].m = workers[u].m
          /\ m \notin Kids[workers[u].m]
  <2> SUFFICES ASSUME NEW u \in Workers, workers'[u].at = "planned"
               PROVE  /\ workers[u].at = "planned" /\ workers'[u].m = workers[u].m
                      /\ m \notin Kids[workers[u].m]
    OBVIOUS
  <2>1. workers'[u] = workers[u] BY <1>2, <1>3
  <2>2. Good(workers[u], tasks, log, drivers) BY DEF MInv, AllGood
  <2>3. workers[u].m \in Missions BY <2>1, <2>2 DEF Good, Begun
  <2> QED BY <1>1, <2>1, <2>3, MissionsAssumption
<1>6. \A v \in Workers : workers'[v].m = workers[v].m \/ v = w BY <1>2
<1>7. Births' BY <1>1, <1>3, <1>5, <1>6, BirthsStay
<1> QED BY <1>1, <1>2, <1>4, <1>7, PlaceTaken

-------------------------------------------------------------------------------
(* The service, the human and the clients.                                 *)

LEMMA TablesOnly ==
    ASSUME MInv, SInv, UNCHANGED <<drivers, alive, workers>>,
           \A m \in Missions : tasks[m].state # "unborn" => tasks'[m].state # "unborn",
           \A k \in Missions \ Roots : tasks'[k].state = "unborn" <=> tasks[k].state = "unborn",
           disk' = disk \/ disk' = tasks',
           stop \subseteq stop', stop' \subseteq Workers,
           flagged' \subseteq Missions, \A m \in flagged' : m \in flagged \/ StopOn(m)',
           jobs' \in [Missions -> Workers \cup {None}],
           \A m \in Missions : jobs'[m] = jobs[m] \/ Frees(m),
           seances' \in [Missions -> Workers \cup {None}],
           \A m \in Missions : seances'[m] = seances[m] \/ seances'[m] = None
    PROVE  SInv'
<1>1. \A v \in Workers : Alike(v) BY DEF Alike
<1>2. \A v \in Workers : GoesOn(v) BY <1>1, AlikeGoes
<1>3. Births' BY BirthsStay
<1>4. StaysBorn BY DEF StaysBorn
<1>5. \A m \in Missions : seances'[m] = seances[m] \/ Seats(m) BY DEF Seats
<1> QED BY <1>2, <1>3, <1>4, <1>5, TablesGo

LEMMA SteersTables ==
    ASSUME MInv, SInv, NEW m \in Missions,
           LookUp(m) \/ Retire(m) \/ Detach(m) \/ ClientReturns(m)
    PROVE  SInv'
<1>1. UNCHANGED <<drivers, alive, workers, tasks, disk>>
  BY DEF LookUp, Retire, Detach, ClientReturns, tables
<1>2. /\ jobs \in [Missions -> Workers \cup {None}] /\ seances \in [Missions -> Workers \cup {None}]
      /\ stop \subseteq Workers /\ flagged \subseteq Missions
  BY DEF SInv, Tabled, Seated, Signalled
<1>3. CASE LookUp(m)
  <2>1. UNCHANGED <<jobs, seances>> BY <1>3 DEF LookUp, tables
  <2>2. CASE jobs[m] # None
    <3>1. stop' = stop \cup {jobs[m]} /\ flagged' = flagged \cup {m} BY <1>3, <2>2 DEF LookUp
    <3>2. jobs[m] \in Workers /\ workers[jobs[m]].m = m BY <1>2, <2>2 DEF SInv, Tabled
    <3>3. StopOn(m)' BY <1>1, <3>1, <3>2 DEF StopOn
    <3> QED BY <1>1, <1>2, <2>1, <3>1, <3>2, <3>3, TablesOnly
  <2>3. CASE jobs[m] = None
    <3>1. UNCHANGED <<stop, flagged>> BY <1>3, <2>3 DEF LookUp
    <3> QED BY <1>1, <1>2, <2>1, <3>1, TablesOnly
  <2> QED BY <2>2, <2>3
<1>4. CASE Retire(m) \/ Detach(m) \/ ClientReturns(m)
  <2>1. /\ jobs' = [jobs EXCEPT ![m] = None] /\ seances' = [seances EXCEPT ![m] = None]
        /\ stop' = stop /\ flagged' \subseteq flagged
    BY <1>4 DEF Retire, Detach, ClientReturns, Withdraws
  <2>2. /\ jobs' \in [Missions -> Workers \cup {None}] /\ seances' \in [Missions -> Workers \cup {None}]
        /\ jobs'[m] = None /\ seances'[m] = None
        /\ \A k \in Missions : k # m => jobs'[k] = jobs[k] /\ seances'[k] = seances[k]
    BY <1>2, <2>1
  <2>3. \A k \in Missions : StopOn(k) => StopOn(k)' BY <1>1, <2>1 DEF StopOn
  <2>4. Frees(m)
    <3>1. CASE Retire(m) BY <2>2, <3>1 DEF Retire, SInv, Signalled, Frees
    <3>2. CASE ClientReturns(m) BY <2>2, <3>2 DEF ClientReturns, MInv, Held, Frees
    <3>3. CASE Detach(m)
      <4>1. PICK s \in Workers : s = seances[m] /\ SeatOf(s, m)
        BY <1>2, <3>3 DEF Detach, SInv, Seated
      <4>2. m \in drivers \/ jobs[m] = s \/ StopOn(m) BY <4>1 DEF SeatOf
      <4>3. ~Holds(s)' BY <1>1, <4>1 DEF SeatOf, Holds
      <4>4. seances'[m] # s BY <2>2, MissionsAssumption
      <4> QED BY <2>2, <4>2, <4>3, <4>4 DEF Frees
    <3> QED BY <1>4, <3>1, <3>2, <3>3
  <2> QED BY <1>1, <1>2, <2>1, <2>2, <2>4, TablesOnly
<1> QED BY <1>3, <1>4

LEMMA SteersStates ==
    ASSUME MInv, SInv, NEW m \in Missions, CancelPlan(m) \/ ClientEnds(m)
    PROVE  SInv'
<1>1. UNCHANGED <<drivers, alive, workers, jobs, seances, stop, flagged>>
  BY DEF CancelPlan, ClientEnds, tables, requests
<1>2. /\ jobs \in [Missions -> Workers \cup {None}] /\ seances \in [Missions -> Workers \cup {None}]
      /\ stop \subseteq Workers /\ flagged \subseteq Missions
  BY DEF SInv, Tabled, Seated, Signalled
<1>3. tasks \in [Missions -> Task] BY DEF MInv, Types
<1>4. CASE UNCHANGED <<tasks, disk>> BY <1>1, <1>2, <1>4, TablesOnly
<1>5. CASE /\ CancelPlan(m) /\ tasks[m].state = "planned"
  <2>1. tasks' = [tasks EXCEPT ![m].state = "cancelled"] /\ (disk' = disk \/ disk' = tasks')
    BY <1>5 DEF CancelPlan, Saves, Saved, NotSaved
  <2>2. tasks'[m].state = "cancelled" /\ \A k \in Missions : k # m => tasks'[k] = tasks[k]
    BY <1>3, <2>1 DEF Task
  <2> QED BY <1>1, <1>2, <1>5, <2>1, <2>2, TablesOnly
<1>6. CASE ClientEnds(m)
  <2>1. tasks' = [tasks EXCEPT ![m].state = IF @ \in Final THEN @ ELSE "failed"]
        /\ (disk' = disk \/ disk' = tasks')
    BY <1>6 DEF ClientEnds, Saves, Saved, NotSaved
  <2>2. tasks'[m].state # "unborn" /\ \A k \in Missions : k # m => tasks'[k] = tasks[k]
    BY <1>3, <2>1 DEF Task, Final
  <2>3. m \in Roots BY <1>6, MissionsAssumption DEF ClientEnds, MInv, Held, Types
  <2> QED BY <1>1, <1>2, <2>1, <2>2, <2>3, TablesOnly
<1> QED BY <1>4, <1>5, <1>6 DEF CancelPlan

LEMMA SteersRequests ==
    ASSUME MInv, SInv,
           (\E m \in Missions : Cancel(m) \/ StartClient(m)) \/ Halt \/ UNCHANGED vars
    PROVE  SInv'
<1>1. UNCHANGED <<drivers, alive, workers, tasks, disk, jobs, seances, stop, flagged>>
  BY DEF Cancel, StartClient, Halt, vars, tables, requests
<1>2. /\ jobs \in [Missions -> Workers \cup {None}] /\ seances \in [Missions -> Workers \cup {None}]
      /\ stop \subseteq Workers /\ flagged \subseteq Missions
  BY DEF SInv, Tabled, Seated, Signalled
<1> QED BY <1>1, <1>2, TablesOnly

-------------------------------------------------------------------------------
\* A stop leaves nobody to tell, and a start finds nobody.
LEMMA NobodyLeft ==
    ASSUME MInv', UNCHANGED drivers, Born(tasks)', Born(disk)',
           \A w \in Workers : /\ workers'[w].at \in {"idle", "ended"} /\ workers'[w].m = None
                              /\ Kinds(workers[w])',
           jobs' = [m \in Missions |-> None], seances' = [m \in Missions |-> None],
           stop' = {}, flagged' = {}
    PROVE  SInv'
<1>1. Placed' /\ Unled' BY DEF Placed, Holds, Staged, Unled
<1>2. Tabled' /\ Seated' /\ Signalled' BY DEF Tabled, Seated, Signalled
<1>3. Fresh' BY DEF Fresh
<1> QED BY <1>1, <1>2, <1>3 DEF SInv, Births

LEMMA SteersStop ==
    ASSUME MInv, MInv', SInv, Crash \/ Restart
    PROVE  SInv'
<1>1. CASE Crash
  <2>1. /\ UNCHANGED <<drivers, tasks, disk>>
        /\ workers' = [w \in Workers |-> Gone(w)]
        /\ jobs' = [m \in Missions |-> None] /\ seances' = [m \in Missions |-> None]
        /\ stop' = {} /\ flagged' = {}
    BY <1>1 DEF Crash
  <2>2. ASSUME NEW w \in Workers
        PROVE  /\ workers'[w].at \in {"idle", "ended"} /\ workers'[w].m = None
               /\ Kinds(workers[w])'
    <3>1. CASE workers[w].at = "idle"
      <4>1. workers'[w] = workers[w] BY <2>1, <3>1 DEF Gone
      <4> QED BY <2>1, <3>1, <4>1 DEF SInv, Fresh, Kinds
    <3>2. CASE workers[w].at # "idle"
      <4>1. workers'[w] = Ended BY <2>1, <3>2 DEF Gone
      <4>2. /\ workers'[w].at = "ended" /\ workers'[w].m = None /\ workers'[w].kind = "local"
        BY <4>1 DEF Ended
      <4>3. None \notin drivers' BY <2>1, MissionsAssumption DEF MInv, Types
      <4> QED BY <4>2, <4>3 DEF Kinds
    <3> QED BY <3>1, <3>2
  <2>3. Born(tasks)' /\ Born(disk)' BY <2>1 DEF SInv, Births, Born
  <2> QED BY <2>1, <2>2, <2>3, NobodyLeft
<1>2. CASE Restart
  <2>1. /\ ~alive /\ alive' = TRUE
        /\ UNCHANGED <<drivers, workers, jobs, seances, stop, flagged>>
        /\ tasks' = [m \in Missions |-> Resumed(disk[m])] /\ disk' = tasks'
    BY <1>2 DEF Restart, tables, requests
  <2>2. \A w \in Workers : workers[w].at \in {"idle", "ended"} /\ workers[w].m = None
    BY <2>1 DEF MInv, Stopped, SInv, Fresh
  <2>3. \A m \in Missions : tasks'[m].state = "unborn" <=> disk[m].state = "unborn"
    <3> SUFFICES ASSUME NEW m \in Missions
                 PROVE  tasks'[m].state = "unborn" <=> disk[m].state = "unborn"
      OBVIOUS
    <3>1. disk[m] \in Task /\ tasks'[m] = Resumed(disk[m]) BY <2>1 DEF MInv, Types
    <3> QED BY <3>1 DEF Resumed, Task
  <2>4. Born(tasks)' /\ Born(disk)'
    <3>1. \A m \in Missions : Kids[m] \subseteq Missions BY MissionsAssumption
    <3> QED BY <2>1, <2>3, <3>1 DEF SInv, Births, Born
  <2>5. Placed' /\ Tabled' /\ Seated' /\ Signalled'
    BY <2>1 DEF SInv, Placed, Holds, Tabled, Seated, SeatOf, Signalled, StopOn
  <2>6. Unled' BY <2>1, <2>2 DEF Unled
  <2>7. Fresh' BY <2>1, <2>2 DEF SInv, Fresh, Kinds
  <2> QED BY <2>4, <2>5, <2>6, <2>7 DEF SInv, Births
<1> QED BY <1>1, <1>2

LEMMA SInvInit ==
    ASSUME Init
    PROVE  SInv
<1>1. \A w \in Workers : /\ workers[w].at = "idle" /\ workers[w].m = None
                         /\ workers[w].kind = "local"
  BY DEF Init, Idle
<1>2. jobs = [m \in Missions |-> None] /\ seances = [m \in Missions |-> None]
      /\ stop = {} /\ flagged = {} /\ drivers \subseteq Clients
  BY DEF Init
<1>3. Placed /\ Unled BY <1>1 DEF Placed, Holds, Staged, Unled
<1>4. Tabled /\ Seated /\ Signalled BY <1>2 DEF Tabled, Seated, Signalled
<1>5. None \notin drivers BY <1>2, MissionsAssumption
<1>6. Fresh BY <1>1, <1>5 DEF Fresh, Kinds
<1>7. Born(tasks) /\ Born(disk)
  <2>1. \A m \in Missions : \A k \in Kids[m] : k \in Missions \ Roots BY MissionsAssumption
  <2>2. \A k \in Missions \ Roots : tasks[k].state = "unborn" BY DEF Init, Unborn
  <2>3. disk = tasks BY DEF Init
  <2> QED BY <2>1, <2>2, <2>3 DEF Born
<1> QED BY <1>3, <1>4, <1>6, <1>7 DEF SInv, Births

LEMMA SInvNext ==
    ASSUME RootsStart, MInv, SInv, [Next]_vars
    PROVE  SInv'
<1>1. CASE \E w \in Workers : WorkerStep(w) \/ Turn(w)
  <2> SUFFICES ASSUME NEW w \in Workers, WorkerStep(w) \/ Turn(w) PROVE SInv' BY <1>1
  <2> USE DEF WorkerStep
  <2>1. CASE Begin(w) \/ Turn(w) \/ Finish(w) \/ ConcludeLog(w) \/ ConcludePublish(w) \/ Conclude(w)
    BY <2>1, SteersNothing
  <2>2. CASE OpenSession(w) BY <2>2, SteersOpening
  <2>3. CASE Insert(w) BY <2>3, SteersInsert
  <2>4. CASE GiveBack(w) \/ Leave(w) BY <2>4, SteersEnd
  <2>5. CASE PlanChild(w) BY <2>5, SteersPlan
  <2>6. CASE \E child \in Workers : LaunchChild(w, child) BY <2>6, SteersLaunch
  <2>7. CASE ChildBack(w) \/ Absorb(w) BY <2>7, SteersReturn
  <2> QED BY <2>1, <2>2, <2>3, <2>4, <2>5, <2>6, <2>7
<1>2. CASE \E m \in Missions : CancelPlan(m) \/ ClientEnds(m) BY <1>2, SteersStates
<1>3. CASE \E w \in Workers, m \in Missions, kind \in {"local", "seance"} : Reserve(w, m, kind)
  BY <1>3, SteersReserve
<1>4. CASE Crash \/ Restart BY <1>4, MInvNext, SteersStop DEF Next
<1>5. Clients \subseteq Missions BY MissionsAssumption
<1>6. CASE \/ \E m \in Missions : Detach(m) \/ LookUp(m) \/ Retire(m)
           \/ \E m \in Clients : ClientReturns(m)
  BY <1>5, <1>6, SteersTables
<1>7. CASE \/ \E m \in Missions : Cancel(m)
           \/ \E m \in Clients : StartClient(m)
           \/ Halt
           \/ UNCHANGED vars
  BY <1>5, <1>7, SteersRequests
<1> QED BY <1>1, <1>2, <1>3, <1>4, <1>6, <1>7 DEF Next, ServiceStep, HumanStep

\* A local worker at work can be told to stop, or has been (the table of jobs against the
\* threads, bin/prophet-agentd.rs), as long as the human starts only the missions the human
\* prepared: a launch that failed gives a place back whoever holds it, and the one that holds it
\* by then is on a mission that was told to stop.
THEOREM MissionsAreStoppable ==
    ASSUME RootsStart
    PROVE  Spec => []Stoppable
<1>1. Init => MInv /\ SInv BY MInvInit, SInvInit
<1>2. MInv /\ SInv /\ [Next]_vars => MInv' /\ SInv' BY MInvNext, SInvNext
<1>3. MInv /\ SInv => Stoppable BY PlacedIsStoppable
<1> QED BY <1>1, <1>2, <1>3, PTL DEF Spec

-------------------------------------------------------------------------------
(* Who is charged for what.  A mission led by nobody's parent has counted  *)
(* all that was taken for it; one that waits for a child has not counted   *)
(* the child yet, which was given no more than what is left.               *)

Fits(t) ==
    /\ 0 <= t.spent /\ t.spent <= t.limit /\ t.limit <= Steps
    /\ t.state = "unborn" => t.limit = 0
    /\ t.state = "planned" => t.spent = 0
\* The task as held and as saved.
Limits == \A m \in Missions :
    /\ Fits(tasks[m]) /\ Fits(disk[m])
    /\ m \in Roots => /\ tasks[m].limit = Steps /\ disk[m].limit = Steps
                      /\ "unborn" \notin {tasks[m].state, disk[m].state}
    /\ disk[m].state # "unborn" => disk[m].limit = tasks[m].limit /\ tasks[m].state # "unborn"
Counts == \A m \in Missions :
    /\ used[m] \in Nat /\ used[m] <= tasks[m].limit /\ used[m] <= disk[m].limit
    /\ "planned" \in {tasks[m].state, disk[m].state} => used[m] = 0

\* An attempt on a child is its parent's, and a child has one attempt.
Attempted(r) ==
    /\ 0 <= r.spent /\ r.spent <= Steps
    /\ r.at \in {"idle", "reserved", "refused"} => r.spent = 0
    /\ r.at = "idle" => r.outcome = "none"
    /\ r.outcome \in {"refused", "absorbed"} => r.at = "ended"
    /\ r.m = None => r.parent = None
    /\ r.m # None => (r.parent = None <=> r.m \in Roots)
Alone == \A v, w \in Workers : workers[v].m = workers[w].m /\ workers[v].m \notin Roots \cup {None} => v = w

\* What the leader of a mission has counted.
Parted(w) == workers[w].at \in {"waiting", "absorbing"}
Leader(w) ==
    LET m == workers[w].m
    IN /\ disk[m].state \notin {"unborn", "planned"}
       /\ workers[w].at # "absorbing" => tasks[m].spent = workers[w].spent
       /\ ~Parted(w) => used[m] <= workers[w].spent
       /\ workers[w].at = "planned" => \A k \in Kids[m] : Youngest(k, m) =>
             used[k] = 0 /\ tasks[k].limit <= tasks[m].limit - workers[w].spent
Leaders == \A w \in Workers : workers[w].at \in Begun => Leader(w)

\* What its parent has not counted.
Charged(v) == workers[v].parent # None /\ workers[v].outcome # "absorbed"
Due(v, p) ==
    LET c == workers[v].m
        m == workers[p].m
    IN /\ Parted(p) /\ c \in Kids[m]
       /\ used[m] <= workers[p].spent + used[c]
       /\ tasks[c].limit <= tasks[m].limit - workers[p].spent
       /\ workers[v].at \in {"reserved", "refused"} \/ workers[v].outcome = "refused" => used[c] = 0
       /\ workers[v].at \in {"leaving", "ended"} => used[c] <= tasks[c].spent
       /\ workers[p].at = "absorbing" =>
             /\ workers[v].at = "ended" /\ workers[v].outcome # "refused"
             /\ tasks[m].spent = workers[p].spent + tasks[c].spent
Children ==
    /\ \A v \in Workers : Charged(v) => Due(v, workers[v].parent)
    /\ \A v, w \in Workers : Charged(v) /\ Charged(w) /\ workers[v].parent = workers[w].parent => v = w

AInv == /\ Limits /\ Counts /\ (\A w \in Workers : Attempted(workers[w])) /\ Alone
        /\ Leaders /\ Children

LEMMA AccountKept ==
    ASSUME AInv
    PROVE  BudgetKept
BY MissionsAssumption DEF AInv, Limits, Counts, BudgetKept

-------------------------------------------------------------------------------
\* No count moves; no mission is born, nor planned again.
SameCounts ==
    /\ used' = used
    /\ \A m \in Missions : /\ tasks'[m].limit = tasks[m].limit /\ tasks'[m].spent = tasks[m].spent
                           /\ tasks'[m].state = "unborn" <=> tasks[m].state = "unborn"
                           /\ tasks'[m].state = "planned" => tasks[m].state = "planned"
    /\ disk' = disk \/ disk' = tasks'
\* An attempt goes on without counting anything, or the human begins one.
Proceeds(v) ==
    /\ workers'[v].m = workers[v].m /\ workers'[v].parent = workers[v].parent
    /\ workers'[v].spent = workers[v].spent
    /\ workers[v].at \notin {"idle", "ended"} /\ workers'[v].at # "idle"
    /\ workers'[v].outcome # "absorbed"
    /\ workers'[v].outcome = "refused" => workers[v].at = "refused" /\ workers'[v].at = "ended"
    /\ Parted(v)' <=> Parted(v)
    /\ Parted(v) => workers'[v].at = workers[v].at
    /\ workers'[v].at = "planned" => workers[v].at = "planned"
    /\ workers'[v].at = "reserved" => workers[v].at = "reserved"
    /\ workers'[v].at = "refused" => workers[v].at \in {"reserved", "refused"}
    /\ workers'[v].at \in {"leaving", "ended"} => workers[v].at \in {"logged", "leaving", "refused"}
    /\ workers'[v].at \in Begun =>
          \/ workers[v].at \in Begun
          \/ workers[v].at = "reserved" /\ tasks[workers[v].m].state = "planned" /\ disk' = tasks'
Begins(v) ==
    /\ workers[v].at = "idle"
    /\ \E m \in Roots, kind \in {"local", "seance"} : workers'[v] = Attempt(m, kind, None)
Proceeding == \A v \in Workers : workers'[v] = workers[v] \/ Proceeds(v) \/ Begins(v)

LEMMA BeginsAlone ==
    ASSUME NEW v \in Workers, Begins(v)
    PROVE  /\ workers'[v].m \in Roots /\ workers'[v].parent = None /\ workers'[v].spent = 0
           /\ workers'[v].at = "reserved" /\ workers'[v].outcome = "none"
<1>1. PICK m \in Roots, kind \in {"local", "seance"} : workers'[v] = Attempt(m, kind, None)
  BY DEF Begins
<1> QED BY <1>1 DEF Attempt

LEMMA LimitsKept ==
    ASSUME MInv, MInv', Limits, Counts, SameCounts
    PROVE  Limits' /\ Counts'
<1> SUFFICES ASSUME NEW m \in Missions
             PROVE  /\ Fits(tasks'[m]) /\ Fits(disk'[m])
                    /\ m \in Roots => /\ tasks'[m].limit = Steps /\ disk'[m].limit = Steps
                                      /\ "unborn" \notin {tasks'[m].state, disk'[m].state}
                    /\ disk'[m].state # "unborn" => /\ disk'[m].limit = tasks'[m].limit
                                                    /\ tasks'[m].state # "unborn"
                    /\ used'[m] \in Nat /\ used'[m] <= tasks'[m].limit /\ used'[m] <= disk'[m].limit
                    /\ "planned" \in {tasks'[m].state, disk'[m].state} => used'[m] = 0
  BY DEF Limits, Counts
<1>1. /\ Fits(tasks[m]) /\ Fits(disk[m])
      /\ m \in Roots => /\ tasks[m].limit = Steps /\ disk[m].limit = Steps
                      /\ "unborn" \notin {tasks[m].state, disk[m].state}
      /\ disk[m].state # "unborn" => disk[m].limit = tasks[m].limit /\ tasks[m].state # "unborn"
  BY DEF Limits
<1>2. /\ used[m] \in Nat /\ used[m] <= tasks[m].limit /\ used[m] <= disk[m].limit
      /\ "planned" \in {tasks[m].state, disk[m].state} => used[m] = 0
  BY DEF Counts
<1>3. /\ tasks'[m].limit = tasks[m].limit /\ tasks'[m].spent = tasks[m].spent
      /\ tasks'[m].state = "unborn" <=> tasks[m].state = "unborn"
      /\ tasks'[m].state = "planned" => tasks[m].state = "planned"
      /\ used'[m] = used[m] /\ (disk'[m] = disk[m] \/ disk'[m] = tasks'[m])
  BY DEF SameCounts
<1>4. Fits(tasks'[m]) BY <1>1, <1>3 DEF Fits
<1> QED BY <1>1, <1>2, <1>3, <1>4

LEMMA LeadersKept ==
    ASSUME MInv, MInv', AInv, SameCounts, Proceeding
    PROVE  Leaders'
<1> SUFFICES ASSUME NEW w \in Workers, workers'[w].at \in Begun
             PROVE  Leader(w)'
  BY DEF Leaders
<1>1. PICK m \in Missions : m = workers'[w].m
  BY DEF MInv, AllGood, Good
<1>2. workers'[w] = workers[w] \/ Proceeds(w)
  <2>1. Begins(w) => workers'[w].at = "reserved" BY BeginsAlone
  <2> QED BY <2>1 DEF Proceeding, Begun
<1>3. m = workers[w].m /\ workers'[w].spent = workers[w].spent BY <1>1, <1>2 DEF Proceeds
<1>4. /\ tasks'[m].limit = tasks[m].limit /\ tasks'[m].spent = tasks[m].spent
      /\ used' = used /\ (disk' = disk \/ disk' = tasks')
      /\ \A k \in Missions : /\ tasks'[k].limit = tasks[k].limit
                             /\ tasks'[k].state = "unborn" <=> tasks[k].state = "unborn"
  BY DEF SameCounts
<1>5. tasks'[m].state \notin {"unborn", "planned"}
  BY <1>1 DEF MInv, AllGood, Good
<1>6. Kids[m] \subseteq Missions BY MissionsAssumption
<1>7. CASE workers[w].at \in Begun
  <2>1. Leader(w) BY <1>7 DEF AInv, Leaders
  <2>2. disk'[m].state \notin {"unborn", "planned"} BY <1>3, <1>4, <1>5, <2>1 DEF Leader
  <2>3. /\ workers'[w].at = "absorbing" <=> workers[w].at = "absorbing"
        /\ Parted(w)' <=> Parted(w)
        /\ workers'[w].at = "planned" => workers[w].at = "planned"
    BY <1>2 DEF Proceeds, Parted
  <2>4. \A k \in Kids[m] : Youngest(k, m)' => Youngest(k, m) BY <1>4, <1>6 DEF Youngest
  <2>5. tasks'[m].spent = workers'[w].spent \/ workers'[w].at = "absorbing"
    BY <1>3, <1>4, <2>1, <2>3 DEF Leader
  <2>6. Parted(w)' \/ used'[m] <= workers'[w].spent BY <1>3, <1>4, <2>1, <2>3 DEF Leader
  <2>7. ASSUME workers'[w].at = "planned", NEW k \in Kids[m], Youngest(k, m)'
        PROVE  used'[k] = 0 /\ tasks'[k].limit <= tasks'[m].limit - workers'[w].spent
    <3>1. Youngest(k, m) /\ workers[w].at = "planned" BY <2>3, <2>4, <2>7
    <3>2. used[k] = 0 /\ tasks[k].limit <= tasks[m].limit - workers[w].spent
      BY <1>3, <2>1, <3>1 DEF Leader
    <3> QED BY <1>3, <1>4, <1>6, <3>2
  <2> QED BY <1>1, <2>2, <2>5, <2>6, <2>7 DEF Leader
<1>8. CASE workers[w].at \notin Begun
  <2>1. /\ workers[w].at = "reserved" /\ tasks[m].state = "planned" /\ disk' = tasks'
        /\ ~Parted(w) /\ ~Parted(w)'
        /\ workers'[w].at # "planned"
    BY <1>2, <1>3, <1>8 DEF Proceeds, Parted, Begun
  <2>2. workers[w].spent = 0 BY <2>1 DEF AInv, Attempted
  <2>3. used[m] = 0 /\ tasks[m].spent = 0 BY <2>1 DEF AInv, Counts, Limits, Fits
  <2>4. used'[m] <= workers'[w].spent /\ tasks'[m].spent = workers'[w].spent
    BY <1>3, <1>4, <2>2, <2>3
  <2> QED BY <1>1, <1>5, <2>1, <2>4 DEF Leader
<1> QED BY <1>7, <1>8

LEMMA AttemptsKept ==
    ASSUME MInv, MInv', AInv, SameCounts, Proceeding
    PROVE  (\A w \in Workers : Attempted(workers[w]))' /\ Alone'
<1>0. \A v \in Workers : workers[v] \in Attempts /\ Attempted(workers[v]) BY DEF MInv, Types, AInv
<1>1. ASSUME NEW w \in Workers
      PROVE  Attempted(workers'[w])
  <2>1. Attempted(workers[w]) BY <1>0
  <2>2. CASE workers'[w] = workers[w] BY <2>1, <2>2
  <2>3. CASE Begins(w)
    BY <2>3, BeginsAlone, MissionsAssumption DEF Attempted
  <2>4. CASE Proceeds(w)
    <3>1. workers'[w].at \in {"reserved", "refused"} => workers[w].at \in {"reserved", "refused"}
      BY <2>4 DEF Proceeds
    <3>2. /\ workers'[w].m = workers[w].m /\ workers'[w].parent = workers[w].parent
          /\ workers'[w].spent = workers[w].spent /\ workers'[w].at # "idle"
          /\ workers'[w].outcome # "absorbed"
          /\ workers'[w].outcome = "refused" => workers'[w].at = "ended"
      BY <2>4 DEF Proceeds
    <3> QED BY <2>1, <3>1, <3>2 DEF Attempted
  <2> QED BY <2>2, <2>3, <2>4 DEF Proceeding
<1>2. Alone'
  <2>1. ASSUME NEW v \in Workers, workers'[v].m \notin Roots \cup {None}
        PROVE  workers[v].m = workers'[v].m
    <3>1. ~Begins(v) BY <2>1, BeginsAlone
    <3> QED BY <3>1 DEF Proceeding, Proceeds
  <2> QED BY <2>1 DEF AInv, Alone
<1> QED BY <1>1, <1>2

LEMMA ChildrenKept ==
    ASSUME MInv, MInv', AInv, SameCounts, Proceeding
    PROVE  Children'
<1>1. ASSUME NEW v \in Workers, Charged(v)'
      PROVE  /\ Charged(v) /\ workers'[v].parent = workers[v].parent
             /\ workers'[v].m = workers[v].m /\ workers[v].m \in Missions
             /\ workers'[v] = workers[v] \/ Proceeds(v)
  <2>1. workers'[v] = workers[v] \/ Proceeds(v)
    <3>1. ~Begins(v) BY <1>1, BeginsAlone DEF Charged
    <3> QED BY <3>1 DEF Proceeding
  <2>2. workers'[v].parent = workers[v].parent /\ workers'[v].m = workers[v].m
    BY <2>1 DEF Proceeds
  <2>3. workers[v].outcome # "absorbed"
    <3>1. CASE workers'[v] = workers[v] BY <1>1, <3>1 DEF Charged
    <3>2. CASE Proceeds(v) BY <3>2 DEF Proceeds, AInv, Attempted
    <3> QED BY <2>1, <3>1, <3>2
  <2>4. workers[v].parent # None BY <1>1, <2>2 DEF Charged
  <2>5. workers[v].m \in Missions BY <2>4 DEF MInv, AllGood, Good
  <2> QED BY <2>1, <2>2, <2>3, <2>4, <2>5 DEF Charged
<1>2. ASSUME NEW v \in Workers, Charged(v)'
      PROVE  Due(v, workers[v].parent)'
  <2>1. PICK p \in Workers : p = workers[v].parent
    BY <1>1, <1>2, MissionsAssumption DEF MInv, Types, Attempts, Charged
  <2>2. Due(v, p) /\ workers'[v].parent = p BY <1>1, <1>2, <2>1 DEF AInv, Children
  <2>3. PICK c \in Missions : c = workers[v].m /\ c = workers'[v].m BY <1>1, <1>2
  <2>4. /\ workers'[p].m = workers[p].m /\ workers'[p].spent = workers[p].spent
        /\ workers'[p].at = workers[p].at /\ Parted(p)'
    <3>1. Parted(p) BY <2>2 DEF Due
    <3>2. ~Begins(p) BY <3>1 DEF Begins, Parted
    <3> QED BY <3>1, <3>2 DEF Proceeding, Proceeds, Parted
  <2>5. PICK m \in Missions : m = workers[p].m
    <3>1. workers[p].at \in Begun BY <2>2 DEF Due, Parted, Begun
    <3> QED BY <3>1 DEF MInv, AllGood, Good
  <2>6. /\ used' = used
        /\ tasks'[c].limit = tasks[c].limit /\ tasks'[c].spent = tasks[c].spent
        /\ tasks'[m].limit = tasks[m].limit /\ tasks'[m].spent = tasks[m].spent
    BY DEF SameCounts
  <2>7. workers'[v].at \in {"reserved", "refused"} \/ workers'[v].outcome = "refused" => used[c] = 0
    <3>1. CASE workers'[v] = workers[v] BY <2>2, <2>3, <3>1 DEF Due
    <3>2. CASE Proceeds(v) BY <2>2, <2>3, <3>2 DEF Due, Proceeds
    <3> QED BY <1>1, <1>2, <3>1, <3>2
  <2>8. workers'[v].at \in {"leaving", "ended"} => used[c] <= tasks[c].spent
    <3>1. CASE workers'[v] = workers[v] BY <2>2, <2>3, <3>1 DEF Due
    <3>2. CASE Proceeds(v) /\ workers[v].at = "logged"
      BY <2>3, <3>2 DEF AInv, Leaders, Leader, Parted, Begun, Counts, Limits, MInv, Types, Task, Attempts
    <3>3. CASE Proceeds(v) /\ workers[v].at = "leaving" BY <2>2, <2>3, <3>3 DEF Due
    <3>4. CASE Proceeds(v) /\ workers[v].at = "refused"
      BY <2>2, <2>3, <3>4 DEF Due, AInv, Limits, Fits
    <3> QED BY <1>1, <1>2, <3>1, <3>2, <3>3, <3>4 DEF Proceeds
  <2>9. workers[p].at = "absorbing" => workers'[v] = workers[v]
    BY <1>1, <1>2, <2>2 DEF Due, Proceeds
  <2> QED BY <2>2, <2>3, <2>4, <2>5, <2>6, <2>7, <2>8, <2>9 DEF Due
<1>3. ASSUME NEW v \in Workers, NEW w \in Workers, Charged(v)', Charged(w)',
             workers'[v].parent = workers'[w].parent
      PROVE  v = w
  BY <1>1, <1>3 DEF AInv, Children
<1> QED BY <1>2, <1>3 DEF Children

LEMMA ProceedingKeeps ==
    ASSUME MInv, MInv', AInv, SameCounts, Proceeding
    PROVE  AInv'
<1>1. Limits' /\ Counts' BY LimitsKept DEF AInv
<1> QED BY <1>1, LeadersKept, AttemptsKept, ChildrenKept DEF AInv


-------------------------------------------------------------------------------
(* The steps that count nothing.                                           *)

LEMMA NoCount ==
    ASSUME UNCHANGED <<tasks, disk, used>>
    PROVE  SameCounts
BY DEF SameCounts

\* The human begins an attempt on a root.
LEMMA ReserveProceeds ==
    ASSUME RootsStart, MInv, NEW w \in Workers, NEW m \in Missions, NEW kind \in {"local", "seance"},
           Reserve(w, m, kind)
    PROVE  SameCounts /\ Proceeding
<1>1. /\ workers[w].at = "idle" /\ m \in Roots
      /\ workers' = [workers EXCEPT ![w] = Attempt(m, kind, None)]
      /\ UNCHANGED <<tasks, disk, used>>
  BY DEF Reserve, MayStart, Reserved, RootsStart
<1>2. workers'[w] = Attempt(m, kind, None) /\ \A v \in Workers \ {w} : workers'[v] = workers[v]
  BY <1>1 DEF MInv, Types
<1>3. Begins(w) BY <1>1, <1>2 DEF Begins
<1>4. Proceeding BY <1>2, <1>3 DEF Proceeding
<1> QED BY <1>1, <1>4, NoCount

Onward(from, to) ==
    \/ from = "reserved" /\ to = "refused"
    \/ from \in {"refused", "leaving"} /\ to = "ended"
    \/ from = "opening" /\ to = "opened"
    \/ from = "opened" /\ to = "open"
    \/ from \in {"opening", "working", "open"} /\ to = "concluding"
    \/ from = "concluding" /\ to = "logged"
    \/ from = "logged" /\ to = "leaving"
    \/ from = "delegating" /\ to \in {"working", "open"}
\* A worker goes to another place of its mission, with the outcome of its work.
Goes(w, at, outcome) ==
    /\ workers'[w].m = workers[w].m /\ workers'[w].parent = workers[w].parent
    /\ workers'[w].spent = workers[w].spent /\ workers'[w].at = at /\ workers'[w].outcome = outcome
    /\ \A v \in Workers \ {w} : workers'[v] = workers[v]

LEMMA MoveProceeds ==
    ASSUME AInv, NEW w \in Workers, NEW at, NEW outcome, Goes(w, at, outcome),
           \/ Onward(workers[w].at, at)
           \/ /\ workers[w].at = "reserved" /\ at \in {"working", "opening"}
              /\ tasks[workers[w].m].state = "planned" /\ disk' = tasks',
           outcome = workers[w].outcome \/ outcome \in Final
           \/ (outcome = "refused" /\ workers[w].at = "refused")
    PROVE  Proceeding
<1>1. workers[w].at # "ended" BY DEF Onward
<1>2. workers[w].outcome \notin {"refused", "absorbed"} BY <1>1 DEF AInv, Attempted
<1>3. outcome # "absorbed" /\ (outcome = "refused" => workers[w].at = "refused" /\ at = "ended")
  BY <1>2 DEF Final, Onward
<1>4. /\ workers[w].at \notin {"idle", "ended"} /\ at # "idle"
      /\ ~Parted(w) /\ ~Parted(w)' /\ workers'[w].at = at
      /\ at \notin {"planned", "reserved"}
      /\ at = "refused" => workers[w].at = "reserved"
      /\ at \in {"leaving", "ended"} => workers[w].at \in {"logged", "leaving", "refused"}
  BY DEF Onward, Parted, Goes
<1>5. at \in Begun => \/ workers[w].at \in Begun
                      \/ workers[w].at = "reserved" /\ tasks[workers[w].m].state = "planned" /\ disk' = tasks'
  BY DEF Onward, Begun
<1>6. Proceeds(w) BY <1>3, <1>4, <1>5 DEF Proceeds, Goes
<1> QED BY <1>6 DEF Proceeding, Goes

LEMMA QuietProceeds ==
    ASSUME MInv, AInv, NEW w \in Workers,
           \/ GiveBack(w) \/ Leave(w) \/ OpenSession(w) \/ Insert(w) \/ Finish(w) \/ Conclude(w)
           \/ ConcludeLog(w)
    PROVE  SameCounts /\ Proceeding
<1>1. UNCHANGED <<tasks, disk, used>>
  BY DEF GiveBack, Leave, OpenSession, Insert, Finish, Conclude, ConcludeLog
<1> SUFFICES Proceeding BY <1>1, NoCount
<1>2. workers[w] \in Attempts /\ workers \in [Workers -> Attempts] /\ Good(workers[w], tasks, log, drivers)
  BY DEF MInv, Types, AllGood
<1>3. ASSUME NEW at, workers' = [workers EXCEPT ![w].at = at]
      PROVE  Goes(w, at, workers[w].outcome)
  BY <1>2, <1>3 DEF Attempts, Goes
<1>4. ASSUME NEW at, NEW outcome, workers' = [workers EXCEPT ![w].at = at, ![w].outcome = outcome]
      PROVE  Goes(w, at, outcome)
  BY <1>2, <1>4 DEF Attempts, Goes
<1>5. CASE GiveBack(w)
  <2>1. Goes(w, "ended", "refused") BY <1>4, <1>5 DEF GiveBack
  <2>2. workers[w].at = "refused" /\ Onward(workers[w].at, "ended") BY <1>5 DEF GiveBack, Onward
  <2> QED BY <2>1, <2>2, MoveProceeds
<1>6. CASE Leave(w)
  <2>1. Goes(w, "ended", workers[w].outcome) BY <1>3, <1>6 DEF Leave, Moves
  <2>2. Onward(workers[w].at, "ended") BY <1>6 DEF Leave, Onward
  <2> QED BY <2>1, <2>2, MoveProceeds
<1>7. CASE Insert(w)
  <2>1. Goes(w, "open", workers[w].outcome) BY <1>3, <1>7 DEF Insert, Moves
  <2>2. Onward(workers[w].at, "open") BY <1>7 DEF Insert, Onward
  <2> QED BY <2>1, <2>2, MoveProceeds
<1>8. CASE OpenSession(w)
  <2>1. Onward(workers[w].at, "opened") /\ Onward(workers[w].at, "concluding")
    BY <1>8 DEF OpenSession, Onward
  <2>2. CASE workers' = [workers EXCEPT ![w].at = "opened"] BY <1>3, <2>1, <2>2, MoveProceeds
  <2>3. CASE workers' = [workers EXCEPT ![w].at = "concluding", ![w].outcome = "failed",
                                        ![w].kind = "unopened"]
    <3>1. Goes(w, "concluding", "failed") BY <1>2, <2>3 DEF Attempts, Goes
    <3>2. "failed" \in Final BY DEF Final
    <3> QED BY <2>1, <3>1, <3>2, MoveProceeds
  <2> QED BY <1>8, <2>2, <2>3 DEF OpenSession, Moves
<1>9. CASE Finish(w) \/ Conclude(w)
  <2>1. PICK outcome \in {"done", "failed"} :
            workers' = [workers EXCEPT ![w].at = "concluding", ![w].outcome = outcome]
    BY <1>9 DEF Finish, Conclude
  <2>2. Onward(workers[w].at, "concluding") BY <1>9 DEF Finish, Conclude, Onward
  <2>3. outcome \in Final BY DEF Final
  <2>4. Goes(w, "concluding", outcome) BY <1>4, <2>1
  <2> QED BY <2>2, <2>3, <2>4, MoveProceeds
<1>10. CASE ConcludeLog(w)
  <2>1. PICK end : end = IF w \in stop THEN "cancelled" ELSE workers[w].outcome OBVIOUS
  <2>2. end \in Final BY <1>2, <1>10, <2>1 DEF ConcludeLog, Good, Final
  <2>3. PICK outcome \in Final : workers' = [workers EXCEPT ![w].at = "logged", ![w].outcome = outcome]
    BY <1>10, <2>1, <2>2 DEF ConcludeLog, Final
  <2>4. Onward(workers[w].at, "logged") BY <1>10 DEF ConcludeLog, Onward
  <2>5. Goes(w, "logged", outcome) BY <1>4, <2>3
  <2> QED BY <2>4, <2>5, MoveProceeds
<1> QED BY <1>5, <1>6, <1>7, <1>8, <1>9, <1>10


\* The state of one mission moves, and may be saved.
LEMMA StateSameCounts ==
    ASSUME MInv, NEW m \in Missions, NEW s \in States, used' = used,
           tasks' = [tasks EXCEPT ![m].state = s], disk' = disk \/ disk' = tasks',
           tasks[m].state # "unborn", s \notin {"unborn", "planned"}
    PROVE  SameCounts
<1>1. /\ tasks'[m].state = s /\ tasks'[m].limit = tasks[m].limit /\ tasks'[m].spent = tasks[m].spent
      /\ \A k \in Missions \ {m} : tasks'[k] = tasks[k]
  BY DEF MInv, Types, Task
<1> QED BY <1>1 DEF SameCounts

LEMMA BeginProceeds ==
    ASSUME MInv, AInv, NEW w \in Workers, Begin(w)
    PROVE  SameCounts /\ Proceeding
<1>1. PICK m \in Missions : m = workers[w].m
  BY DEF Begin, MInv, AllGood, Good
<1>2. workers[w] \in Attempts /\ workers \in [Workers -> Attempts] BY DEF MInv, Types
<1>3. workers[w].at = "reserved" /\ used' = used BY DEF Begin
<1>4. ASSUME NEW at, Moves(w, at)
      PROVE  Goes(w, at, workers[w].outcome)
  BY <1>2, <1>4 DEF Attempts, Goes, Moves
<1>5. Onward(workers[w].at, "refused") BY <1>3 DEF Onward
<1>6. CASE tasks[m].state # "planned"
  <2>1. Moves(w, "refused") /\ UNCHANGED <<tasks, disk>> BY <1>1, <1>6 DEF Begin
  <2>2. SameCounts BY <1>3, <2>1, NoCount
  <2> QED BY <1>4, <1>5, <2>1, <2>2, MoveProceeds
<1>7. CASE /\ tasks[m].state = "planned"
           /\ tasks' = [tasks EXCEPT ![m].state = "running"] /\ Saved
           /\ Moves(w, IF workers[w].kind = "local" THEN "working" ELSE "opening")
  <2>1. SameCounts
    <3>1. "running" \in States BY DEF States
    <3>2. disk' = tasks' BY <1>7 DEF Saved
    <3> QED BY <1>3, <1>7, <3>1, <3>2, StateSameCounts
  <2>2. PICK at : at = IF workers[w].kind = "local" THEN "working" ELSE "opening" OBVIOUS
  <2>3. at \in {"working", "opening"} /\ Moves(w, at) BY <1>7, <2>2
  <2>4. disk' = tasks' BY <1>7 DEF Saved
  <2> QED BY <1>1, <1>3, <1>4, <1>7, <2>1, <2>3, <2>4, MoveProceeds
<1>8. CASE /\ tasks[m].state = "planned" /\ disk' = disk /\ Moves(w, "refused")
           /\ tasks' = [tasks EXCEPT ![m].state =
                            IF workers[w].parent = None THEN "failed" ELSE "running"]
  <2>1. PICK s \in {"failed", "running"} : tasks' = [tasks EXCEPT ![m].state = s] BY <1>8
  <2>2. SameCounts BY <1>3, <1>8, <2>1, StateSameCounts DEF States, Final
  <2> QED BY <1>4, <1>5, <1>8, <2>2, MoveProceeds
<1> QED BY <1>1, <1>6, <1>7, <1>8 DEF Begin, NotSaved

LEMMA PublishProceeds ==
    ASSUME MInv, AInv, NEW w \in Workers, ConcludePublish(w)
    PROVE  SameCounts /\ Proceeding
<1>1. /\ workers[w].at = "logged" /\ workers[w].at \in Begun /\ used' = used
      /\ Moves(w, "leaving")
      /\ disk' = disk \/ disk' = tasks'
  BY DEF ConcludePublish, Begun, Saves, Saved, NotSaved
<1>2. Good(workers[w], tasks, log, drivers) /\ workers[w] \in Attempts /\ workers \in [Workers -> Attempts]
  BY DEF MInv, Types, AllGood
<1>3. PICK m \in Missions : m = workers[w].m BY <1>1, <1>2 DEF Good
<1>4. PICK o \in Final : o = workers[w].outcome BY <1>1, <1>2 DEF Good
<1>5. tasks' = [tasks EXCEPT ![m].state = o, ![m].spent = workers[w].spent]
  BY <1>3, <1>4 DEF ConcludePublish, Publishes
<1>6. tasks[m].spent = workers[w].spent BY <1>1, <1>3 DEF AInv, Leaders, Leader
<1>7. tasks[m].state \notin {"unborn", "planned"} BY <1>1, <1>2, <1>3 DEF Good
<1>8. tasks' = [tasks EXCEPT ![m].state = o] BY <1>5, <1>6 DEF MInv, Types, Task
<1>9. SameCounts BY <1>1, <1>7, <1>8, StateSameCounts DEF States, Final
<1>10. Goes(w, "leaving", workers[w].outcome) BY <1>1, <1>2 DEF Attempts, Goes, Moves
<1>11. Onward(workers[w].at, "leaving") BY <1>1 DEF Onward
<1> QED BY <1>9, <1>10, <1>11, MoveProceeds

\* A plan is cancelled, a client ends; the tables and the requests move.
LEMMA StatesProceed ==
    ASSUME MInv, AInv, NEW m \in Missions, CancelPlan(m) \/ ClientEnds(m)
    PROVE  SameCounts /\ Proceeding
<1>1. workers' = workers /\ used' = used BY DEF CancelPlan, ClientEnds
<1>2. Proceeding BY <1>1 DEF Proceeding
<1>3. CASE tasks' = tasks /\ disk' = disk BY <1>1, <1>2, <1>3, NoCount
<1>4. CASE /\ CancelPlan(m) /\ tasks[m].state = "planned"
  <2>1. tasks' = [tasks EXCEPT ![m].state = "cancelled"] /\ (disk' = disk \/ disk' = tasks')
    BY <1>4 DEF CancelPlan, Saves, Saved, NotSaved
  <2> QED BY <1>1, <1>2, <1>4, <2>1, StateSameCounts DEF States, Final
<1>5. CASE ClientEnds(m)
  <2>1. /\ tasks' = [tasks EXCEPT ![m].state = IF @ \in Final THEN @ ELSE "failed"]
        /\ disk' = disk \/ disk' = tasks'
    BY <1>5 DEF ClientEnds, Saves, Saved, NotSaved
  <2>2. PICK s \in Final : s = IF tasks[m].state \in Final THEN tasks[m].state ELSE "failed"
    BY DEF Final
  <2>3. tasks' = [tasks EXCEPT ![m].state = s] BY <2>1, <2>2
  <2>4. m \in Roots
    <3>1. m \in drivers BY <1>5 DEF ClientEnds, MInv, Held
    <3> QED BY <3>1, MissionsAssumption DEF MInv, Types
  <2>5. tasks[m].state # "unborn" BY <2>4 DEF AInv, Limits
  <2> QED BY <1>1, <1>2, <2>1, <2>3, <2>5, StateSameCounts DEF States, Final
<1> QED BY <1>3, <1>4, <1>5 DEF CancelPlan


-------------------------------------------------------------------------------
(* Delegating.                                                             *)

\* What half of the rest is.
LEMMA HalfFits ==
    ASSUME NEW t \in Task, Fits(t)
    PROVE  /\ Half(t) \in Task /\ Fits(Half(t))
           /\ Half(t).state = "planned" /\ Half(t).limit <= t.limit - t.spent
<1>1. PICK l \in Int, s \in Int : l = t.limit /\ s = t.spent BY DEF Task
<1>2. 0 <= s /\ s <= l /\ l <= Steps BY <1>1 DEF Fits
<1>3. PICK h \in Int : h = (l - s) \div 2 OBVIOUS
<1>4. 0 <= h /\ h <= l - s BY <1>2, <1>3
<1>5. h <= Steps BY <1>2, <1>4, MissionsAssumption
<1>6. Half(t) = [state |-> "planned", spent |-> 0, limit |-> h] BY <1>1, <1>3 DEF Half, Plan
<1> QED BY <1>1, <1>4, <1>5, <1>6 DEF Fits, Task, States

\* A plan takes nothing from what is counted.
LEMMA PlannedLimits ==
    ASSUME MInv, AInv, NEW m \in Missions, NEW c \in Missions \ Roots, used' = used,
           tasks[c].state = "unborn", tasks' = [tasks EXCEPT ![c] = Half(tasks[m])],
           disk' = disk \/ disk' = tasks'
    PROVE  Limits' /\ Counts' /\ used[c] = 0
<1>1. tasks[m] \in Task /\ Fits(tasks[m]) /\ tasks[c] \in Task BY DEF MInv, Types, AInv, Limits
<1>2. Half(tasks[m]) \in Task /\ Fits(Half(tasks[m])) /\ Half(tasks[m]).state = "planned"
  BY <1>1, HalfFits
<1>3. tasks'[c] = Half(tasks[m]) /\ \A k \in Missions \ {c} : tasks'[k] = tasks[k]
  BY DEF MInv, Types
<1>4. disk[c].state = "unborn" BY DEF AInv, Limits
<1>5. used[c] = 0
  BY <1>1 DEF AInv, Limits, Fits, Counts, Task
<1>6. ASSUME NEW k \in Missions
      PROVE  /\ Fits(tasks'[k]) /\ Fits(disk'[k])
             /\ k \in Roots => /\ tasks'[k].limit = Steps /\ disk'[k].limit = Steps
                               /\ "unborn" \notin {tasks'[k].state, disk'[k].state}
             /\ disk'[k].state # "unborn" => /\ disk'[k].limit = tasks'[k].limit
                                             /\ tasks'[k].state # "unborn"
             /\ used'[k] \in Nat /\ used'[k] <= tasks'[k].limit /\ used'[k] <= disk'[k].limit
             /\ "planned" \in {tasks'[k].state, disk'[k].state} => used'[k] = 0
  <2>1. /\ Fits(tasks[k]) /\ Fits(disk[k])
        /\ k \in Roots => /\ tasks[k].limit = Steps /\ disk[k].limit = Steps
                          /\ "unborn" \notin {tasks[k].state, disk[k].state}
        /\ disk[k].state # "unborn" => disk[k].limit = tasks[k].limit /\ tasks[k].state # "unborn"
    BY DEF AInv, Limits
  <2>2. /\ used[k] \in Nat /\ used[k] <= tasks[k].limit /\ used[k] <= disk[k].limit
        /\ "planned" \in {tasks[k].state, disk[k].state} => used[k] = 0
    BY DEF AInv, Counts
  <2>3. CASE k = c
    <3>1. 0 <= tasks'[c].limit BY <1>2, <1>3 DEF Fits, Task
    <3> QED BY <1>2, <1>3, <1>4, <1>5, <2>1, <2>2, <2>3, <3>1
  <2>4. CASE k # c BY <1>3, <2>1, <2>2, <2>4
  <2> QED BY <2>3, <2>4
<1>7. Limits' BY <1>6 DEF Limits
<1>8. Counts' BY <1>6 DEF Counts
<1> QED BY <1>5, <1>7, <1>8

LEMMA PlanAccounts ==
    ASSUME MInv, MInv', SInv, AInv, NEW w \in Workers, PlanChild(w)
    PROVE  AInv'
<1>1. PICK m \in Missions : m = workers[w].m
  BY DEF PlanChild, MInv, AllGood, Good, Begun
<1>2. /\ workers[w].at = "delegating" /\ workers[w].at \in Begun /\ used' = used
      /\ workers \in [Workers -> Attempts] /\ tasks[m].state # "unborn"
  BY <1>1 DEF PlanChild, Begun, MInv, Types, AllGood, Good
<1>3. ASSUME NEW at, Moves(w, at)
      PROVE  Goes(w, at, workers[w].outcome)
  BY <1>2, <1>3 DEF MInv, Types, Attempts, Goes, Moves
<1>4. CASE Moves(w, Between(w)) /\ UNCHANGED <<tasks, disk, faults>>
  <2>1. Onward(workers[w].at, Between(w)) BY <1>2 DEF Onward, Between
  <2>2. Proceeding BY <1>3, <1>4, <2>1, MoveProceeds
  <2> QED BY <1>2, <1>4, <2>2, NoCount, ProceedingKeeps
<1>5. ASSUME NEW c \in Kids[m], tasks[c].state = "unborn",
             \A k \in Kids[m] : tasks[k].state = "unborn" => c <= k,
             tasks' = [tasks EXCEPT ![c] = Half(tasks[m])],
             NEW at \in {"planned", "working", "open"}, Moves(w, at),
             disk' = tasks' \/ disk' = disk
      PROVE  AInv'
  <2>1. c \in Missions \ Roots /\ c # m /\ Kids[m] \subseteq Missions
    BY <1>1, <1>2, <1>5, MissionsAssumption
  <2>2. Limits' /\ Counts' /\ used[c] = 0 BY <1>2, <1>5, <2>1, PlannedLimits
  <2>3. /\ tasks'[c] = Half(tasks[m]) /\ \A k \in Missions \ {c} : tasks'[k] = tasks[k]
        /\ tasks'[c].state # "unborn" /\ tasks'[c].limit <= tasks[m].limit - tasks[m].spent
    BY <1>5, <2>1, HalfFits DEF MInv, Types, AInv, Limits
  <2>4. \A v \in Workers : workers[v].m # c
    BY <1>5, <2>1, MissionsAssumption DEF SInv, Fresh
  <2>5. Goes(w, at, workers[w].outcome) BY <1>3, <1>5
  <2>6. \A v \in Workers : /\ workers'[v].m = workers[v].m /\ workers'[v].parent = workers[v].parent
                           /\ workers'[v].spent = workers[v].spent
                           /\ workers'[v].outcome = workers[v].outcome
                           /\ v # w => workers'[v].at = workers[v].at
                           /\ Parted(v)' <=> Parted(v)
    BY <1>2, <1>5, <2>5 DEF Goes, Parted
  <2>7. (\A v \in Workers : Attempted(workers[v]))' /\ Alone'
    <3>1. ASSUME NEW v \in Workers PROVE Attempted(workers'[v])
      <4>1. Attempted(workers[v]) BY DEF AInv
      <4>2. CASE v = w BY <1>2, <2>5, <2>6, <4>1, <4>2 DEF Attempted, Goes
      <4>3. CASE v # w BY <2>5, <4>1, <4>3 DEF Goes
      <4> QED BY <4>2, <4>3
    <3> QED BY <2>6, <3>1 DEF AInv, Alone
  <2>8. Leaders'
    <3> SUFFICES ASSUME NEW v \in Workers, workers'[v].at \in Begun PROVE Leader(v)'
      BY DEF Leaders
    <3>1. workers[v].at \in Begun BY <1>2, <2>6
    <3>2. PICK n \in Missions : n = workers[v].m BY <3>1 DEF MInv, AllGood, Good
    <3>3. Leader(v) /\ n # c /\ tasks'[n] = tasks[n] /\ workers'[v].m = n
      BY <2>3, <2>4, <2>6, <3>1, <3>2 DEF AInv, Leaders
    <3>4. disk'[n].state \notin {"unborn", "planned"}
      <4>1. tasks'[n].state \notin {"unborn", "planned"}
        BY <3>3 DEF MInv, AllGood, Good
      <4> QED BY <1>5, <3>2, <3>3, <4>1 DEF Leader
    <3>5. ASSUME workers'[v].at = "planned", NEW k \in Kids[n], Youngest(k, n)'
          PROVE  used'[k] = 0 /\ tasks'[k].limit <= tasks'[n].limit - workers'[v].spent
      <4>1. CASE v = w
        <5>1. n = m /\ k \in Missions BY <1>1, <2>1, <3>2, <4>1
        <5>2. c <= k BY <1>5, <2>3, <3>5, <5>1 DEF Youngest
        <5>3. k = c \/ tasks[k].state # "unborn" BY <2>3, <3>5, <5>1 DEF Youngest
        <5>4. tasks[k].state # "unborn" => ~(c < k)
          BY <1>5, <5>1 DEF SInv, Births, Born
        <5>5. k = c BY <2>1, <5>1, <5>2, <5>3, <5>4, MissionsAssumption
        <5>6. tasks[m].spent = workers[w].spent BY <1>2, <3>3, <4>1, <5>1, <3>2 DEF Leader
        <5> QED BY <1>2, <2>2, <2>3, <2>6, <3>3, <4>1, <5>1, <5>5, <5>6
      <4>2. CASE v # w
        <5>1. n # m BY <1>1, <1>2, <3>1, <3>2, <4>2 DEF MInv, OneLeader, Leads
        <5>2. Kids[n] \subseteq Missions /\ c \notin Kids[n]
          BY <5>1, FamiliesAssumption, MissionsAssumption
        <5>3. Youngest(k, n) BY <2>3, <3>5, <5>2 DEF Youngest
        <5>4. workers[v].at = "planned" BY <2>6, <3>5, <4>2
        <5>5. used[k] = 0 /\ tasks[k].limit <= tasks[n].limit - workers[v].spent
          BY <3>2, <3>3, <5>3, <5>4 DEF Leader
        <5> QED BY <1>2, <2>3, <2>6, <3>3, <5>2, <5>5
      <4> QED BY <4>1, <4>2
    <3>6. workers'[v].at # "absorbing" => tasks'[n].spent = workers'[v].spent
      <4>1. workers[v].at # "absorbing" \/ v # w BY <1>2
      <4> QED BY <1>2, <2>6, <3>2, <3>3, <4>1 DEF Leader, Parted
    <3>7. ~Parted(v)' => used'[n] <= workers'[v].spent
      BY <1>2, <2>6, <3>2, <3>3 DEF Leader
    <3> QED BY <3>3, <3>4, <3>5, <3>6, <3>7 DEF Leader
  <2>9. Children'
    <3>1. \A v \in Workers : Charged(v)' <=> Charged(v) BY <2>6 DEF Charged
    <3>2. ASSUME NEW v \in Workers, Charged(v) PROVE Due(v, workers[v].parent)'
      <4>1. PICK p \in Workers : p = workers[v].parent
        BY <1>2, <3>2 DEF Charged, Attempts
      <4>2. Due(v, p) BY <3>2, <4>1 DEF AInv, Children
      <4>3. p # w BY <1>2, <4>2 DEF Due, Parted
      <4>4. PICK n \in Missions : n = workers[p].m
        BY <4>2 DEF Due, Parted, Begun, MInv, AllGood, Good
      <4>5. PICK d \in Missions : d = workers[v].m BY <4>2, <4>4, MissionsAssumption DEF Due
      <4>6. tasks'[n] = tasks[n] /\ tasks'[d] = tasks[d] BY <2>3, <2>4, <4>4, <4>5
      <4>7. /\ workers'[v].at \in {"reserved", "refused"} => workers[v].at \in {"reserved", "refused"}
            /\ workers'[v].at \in {"leaving", "ended"} => workers[v].at \in {"leaving", "ended"}
            /\ workers[v].at = "ended" => workers'[v].at = "ended"
        BY <1>2, <1>5, <2>5, <2>6 DEF Goes
      <4>8. workers'[p].at = workers[p].at BY <2>6, <4>3
      <4> QED BY <1>2, <2>6, <4>1, <4>2, <4>4, <4>5, <4>6, <4>7, <4>8 DEF Due
    <3>3. \A v \in Workers : workers'[v].parent = workers[v].parent BY <2>6
    <3> QED BY <3>1, <3>2, <3>3 DEF AInv, Children
  <2> QED BY <2>2, <2>7, <2>8, <2>9 DEF AInv
<1>6. Between(w) \in {"working", "open"} BY DEF Between
<1>7. CASE ~(Moves(w, Between(w)) /\ UNCHANGED <<tasks, disk, faults>>)
  <2>1. PICK c \in Kids[m] :
          /\ tasks[c].state = "unborn"
          /\ \A k \in Kids[m] : tasks[k].state = "unborn" => c <= k
          /\ tasks' = [tasks EXCEPT ![c] = Half(tasks[m])]
          /\ (Saved /\ Moves(w, "planned")) \/ (NotSaved /\ Moves(w, Between(w)))
    BY <1>1, <1>7 DEF PlanChild
  <2>2. CASE Saved /\ Moves(w, "planned") BY <1>5, <2>1, <2>2 DEF Saved
  <2>3. CASE NotSaved /\ Moves(w, Between(w)) BY <1>5, <1>6, <2>1, <2>3 DEF NotSaved
  <2> QED BY <2>1, <2>2, <2>3
<1> QED BY <1>4, <1>7


\* The child that is launched is charged with nothing yet, and nobody else is on it.
LEMMA LaunchAccounts ==
    ASSUME MInv, MInv', SInv, AInv, NEW w \in Workers, NEW child \in Workers, LaunchChild(w, child)
    PROVE  AInv'
<1>1. PICK m \in Missions : m = workers[w].m
  BY DEF LaunchChild, MInv, AllGood, Good, Begun
<1>2. /\ workers[w].at = "planned" /\ workers[w].at \in Begun /\ workers[child].at = "idle"
      /\ child # w /\ UNCHANGED <<tasks, disk, used>> /\ workers \in [Workers -> Attempts]
  BY DEF LaunchChild, Begun, MInv, Types
<1>3. PICK c \in Kids[m] :
        /\ tasks[c].state # "unborn" /\ \A k \in Kids[m] : tasks[k].state # "unborn" => k <= c
        /\ workers' = [workers EXCEPT ![w].at = "waiting", ![child] = Attempt(c, "local", w)]
  BY <1>1 DEF LaunchChild
<1>4. Youngest(c, m) /\ c \in Missions \ Roots BY <1>3, MissionsAssumption DEF Youngest
<1>5. \A v \in Workers : workers[v].m # c BY <1>1, <1>2, <1>4, <1>3 DEF SInv, Births, Unled
<1>6. workers[child].m = None /\ workers[child].parent = None
  BY <1>2 DEF SInv, Fresh, AInv, Attempted
<1>7. /\ workers'[child].m = c /\ workers'[child].parent = w /\ workers'[child].spent = 0
      /\ workers'[child].at = "reserved" /\ workers'[child].outcome = "none"
  BY <1>2, <1>3 DEF Attempt
<1>8. /\ workers'[w].at = "waiting" /\ workers'[w].m = m /\ workers'[w].parent = workers[w].parent
      /\ workers'[w].spent = workers[w].spent /\ workers'[w].outcome = workers[w].outcome
      /\ \A v \in Workers \ {w, child} : workers'[v] = workers[v]
  BY <1>1, <1>2, <1>3 DEF Attempts
<1>9. /\ tasks[m].spent = workers[w].spent /\ used[m] <= workers[w].spent /\ used[c] = 0
      /\ tasks[c].limit <= tasks[m].limit - workers[w].spent
      /\ disk[m].state \notin {"unborn", "planned"}
  <2>1. Leader(w) BY <1>2 DEF AInv, Leaders
  <2> QED BY <1>1, <1>2, <1>3, <1>4, <2>1 DEF Leader, Parted
<1>10. Limits' /\ Counts' BY <1>2 DEF AInv, Limits, Counts
<1>11. (\A v \in Workers : Attempted(workers[v]))' /\ Alone'
  <2>1. ASSUME NEW v \in Workers PROVE Attempted(workers'[v])
    <3>1. Attempted(workers[v]) BY DEF AInv
    <3>2. CASE v = w BY <1>1, <1>2, <1>8, <3>1, <3>2 DEF Attempted
    <3>3. CASE v = child BY <1>4, <1>7, <3>3, MissionsAssumption DEF Attempted
    <3>4. CASE v \notin {w, child} BY <1>8, <3>1, <3>4
    <3> QED BY <3>2, <3>3, <3>4
  <2>2. Alone' BY <1>1, <1>5, <1>7, <1>8 DEF AInv, Alone
  <2> QED BY <2>1, <2>2
<1>12. Leaders'
  <2> SUFFICES ASSUME NEW v \in Workers, workers'[v].at \in Begun PROVE Leader(v)'
    BY DEF Leaders
  <2>1. v # child BY <1>7 DEF Begun
  <2>2. CASE v = w BY <1>2, <1>8, <1>9, <2>2 DEF Leader, Parted
  <2>3. CASE v # w
    <3>1. workers'[v] = workers[v] BY <1>8, <2>1, <2>3
    <3>2. Leader(v) BY <3>1 DEF AInv, Leaders
    <3> QED BY <1>2, <3>1, <3>2 DEF Leader, Parted, Youngest
  <2> QED BY <2>2, <2>3
<1>13. Children'
  <2>1. ASSUME NEW v \in Workers, v # child
        PROVE  /\ Charged(v)' <=> Charged(v)
               /\ workers'[v].parent = workers[v].parent /\ workers'[v].m = workers[v].m
    BY <1>1, <1>8, <2>1 DEF Charged
  <2>2. ASSUME NEW v \in Workers, v # child, Charged(v)
        PROVE  workers[v].parent \notin {w, child} /\ Due(v, workers[v].parent)'
    <3>1. PICK p \in Workers : p = workers[v].parent BY <1>2, <2>2 DEF Charged, Attempts
    <3>2. Due(v, p) BY <2>2, <3>1 DEF AInv, Children
    <3>3. p \notin {w, child} BY <1>2, <3>2 DEF Due, Parted
    <3>4. workers'[p] = workers[p] BY <1>8, <3>3
    <3>5. /\ workers'[v].at \in {"reserved", "refused"} => workers[v].at \in {"reserved", "refused"}
          /\ workers'[v].at \in {"leaving", "ended"} => workers[v].at \in {"leaving", "ended"}
          /\ workers[v].at = "ended" => workers'[v].at = "ended"
          /\ workers'[v].outcome = workers[v].outcome /\ workers'[v].m = workers[v].m
          /\ workers'[v].parent = p
      BY <1>1, <1>2, <1>8, <2>2, <3>1
    <3> QED BY <1>2, <3>1, <3>2, <3>3, <3>4, <3>5 DEF Due, Parted
  <2>3. Due(child, w)'
    <3>1. workers[w].spent \in Int BY <1>2 DEF Attempts
    <3>2. used[m] <= workers[w].spent + used[c] BY <1>9, <3>1
    <3> QED BY <1>2, <1>3, <1>7, <1>8, <1>9, <3>2 DEF Due, Parted
  <2>4. Charged(child)' /\ workers'[child].parent = w BY <1>7, MissionsAssumption DEF Charged
  <2>5. \A v \in Workers : Charged(v)' => Due(v, workers[v].parent)' BY <2>1, <2>2, <2>3, <2>4
  <2>6. ASSUME NEW u \in Workers, NEW v \in Workers, Charged(u)', Charged(v)',
               workers'[u].parent = workers'[v].parent
        PROVE  u = v
    <3>1. CASE u = child \/ v = child BY <2>1, <2>2, <2>4, <2>6, <3>1
    <3>2. CASE u # child /\ v # child BY <2>1, <2>6, <3>2 DEF AInv, Children
    <3> QED BY <3>1, <3>2
  <2> QED BY <2>5, <2>6 DEF Children
<1> QED BY <1>10, <1>11, <1>12, <1>13 DEF AInv


-------------------------------------------------------------------------------
(* A child that ended.                                                     *)

\* The child of a worker that waits is not on the mission of its parent.
LEMMA ChildApart ==
    ASSUME MInv, AInv, NEW w \in Workers, NEW c \in EndedChild(w)
    PROVE  /\ c \in Workers /\ c # w /\ Charged(c) /\ workers[c].parent = w /\ workers[c].at = "ended"
           /\ Due(c, w) /\ workers[w].at \in Begun /\ workers[w].m \in Missions
           /\ workers[c].m \in Missions \ Roots /\ workers[c].m # workers[w].m
<1>1. /\ c \in Workers /\ workers[c].parent = w /\ workers[c].at = "ended" /\ Charged(c)
  BY MissionsAssumption DEF EndedChild, Charged
<1>2. Due(c, w) BY <1>1 DEF AInv, Children
<1>3. workers[w].at \in Begun /\ c # w BY <1>1, <1>2 DEF Due, Parted, Begun
<1>4. workers[w].m \in Missions BY <1>3 DEF MInv, AllGood, Good
<1>5. workers[c].m \in Missions \ Roots BY <1>2, <1>4, MissionsAssumption DEF Due
<1>6. workers[c].m # workers[w].m BY <1>1, <1>3, <1>5, MissionsAssumption DEF AInv, Alone
<1> QED BY <1>1, <1>2, <1>3, <1>4, <1>5, <1>6

\* A worker that has counted its child, or whose child did not start, goes on.
LEMMA ChildCleared ==
    ASSUME MInv, MInv', AInv, SameCounts, NEW w \in Workers, NEW c \in EndedChild(w),
           workers'[w].m = workers[w].m, workers'[w].parent = workers[w].parent,
           workers'[w].outcome = workers[w].outcome, workers'[w].at = Between(w),
           workers'[c].m = workers[c].m, workers'[c].parent = workers[c].parent,
           workers'[c].spent = workers[c].spent, workers'[c].at = "ended",
           workers'[c].outcome = "absorbed",
           \A v \in Workers \ {w, c} : workers'[v] = workers[v],
           tasks'[workers[w].m].spent = workers'[w].spent, used[workers[w].m] <= workers'[w].spent
    PROVE  AInv'
<1>1. /\ c \in Workers /\ c # w /\ Charged(c) /\ workers[c].parent = w /\ workers[c].at = "ended"
      /\ Parted(w) /\ workers[w].at \in Begun /\ workers[c].m \in Missions \ Roots
  BY ChildApart DEF Due
<1>2. PICK m \in Missions : m = workers[w].m BY ChildApart
<1>3. /\ used' = used /\ (disk' = disk \/ disk' = tasks')
      /\ \A k \in Missions : /\ tasks'[k].limit = tasks[k].limit /\ tasks'[k].spent = tasks[k].spent
                             /\ tasks'[k].state = "unborn" <=> tasks[k].state = "unborn"
  BY DEF SameCounts
<1>4. workers'[w].at \in {"working", "open"} BY DEF Between
<1>5. Limits' /\ Counts' BY LimitsKept DEF AInv
<1>6. (\A v \in Workers : Attempted(workers[v]))' /\ Alone'
  <2>1. ASSUME NEW v \in Workers PROVE Attempted(workers'[v])
    <3>1. Attempted(workers[v]) BY DEF AInv
    <3>2. CASE v = w
      <4>1. 0 <= workers'[w].spent /\ workers'[w].spent <= Steps
        <5>1. Fits(tasks'[m]) /\ tasks'[m] \in Task BY <1>5 DEF Limits, MInv, Types
        <5>2. PICK s \in Int, l \in Int : s = workers'[w].spent /\ s = tasks'[m].spent /\ l = tasks'[m].limit
          BY <1>2, <5>1 DEF Task
        <5> QED BY <5>1, <5>2, MissionsAssumption DEF Fits
      <4>2. workers[w].outcome \notin {"refused", "absorbed"}
        BY <1>1, <3>1, <3>2 DEF Begun, Attempted
      <4> QED BY <1>4, <3>1, <3>2, <4>1, <4>2 DEF Attempted
    <3>3. CASE v = c BY <1>1, <3>1, <3>3 DEF Attempted
    <3>4. CASE v \notin {w, c} BY <3>1, <3>4
    <3> QED BY <3>2, <3>3, <3>4
  <2>2. Alone' BY <1>1 DEF AInv, Alone
  <2> QED BY <2>1, <2>2
<1>7. Leaders'
  <2> SUFFICES ASSUME NEW v \in Workers, workers'[v].at \in Begun PROVE Leader(v)'
    BY DEF Leaders
  <2>1. v # c BY DEF Begun
  <2>2. PICK n \in Missions : n = workers'[v].m BY DEF MInv, AllGood, Good
  <2>3. Leader(v) /\ n = workers[v].m BY <1>1, <2>1, <2>2 DEF AInv, Leaders
  <2>4. disk'[n].state \notin {"unborn", "planned"}
    <3>1. tasks'[n].state \notin {"unborn", "planned"} BY <2>2 DEF MInv, AllGood, Good
    <3> QED BY <1>3, <2>3, <3>1 DEF Leader
  <2>5. CASE v = w BY <1>2, <1>3, <1>4, <2>2, <2>4, <2>5 DEF Leader, Parted
  <2>6. CASE v # w
    <3>1. workers'[v] = workers[v] BY <2>1, <2>6
    <3>2. \A k \in Kids[n] : k \in Missions /\ (Youngest(k, n)' => Youngest(k, n))
      BY <1>3, MissionsAssumption DEF Youngest
    <3> QED BY <1>3, <2>2, <2>3, <2>4, <3>1, <3>2 DEF Leader, Parted
  <2> QED BY <2>5, <2>6
<1>8. Children'
  <2>1. ASSUME NEW v \in Workers, Charged(v)'
        PROVE  /\ Charged(v) /\ v # c /\ workers'[v].parent = workers[v].parent
               /\ workers'[v].m = workers[v].m /\ workers'[v].outcome = workers[v].outcome
               /\ workers'[v].at = workers[v].at \/ (v = w /\ workers'[v].at \in {"working", "open"})
    BY <1>4, <2>1 DEF Charged
  <2>2. ASSUME NEW v \in Workers, Charged(v)'
        PROVE  Due(v, workers[v].parent)'
    <3>1. PICK p \in Workers : p = workers[v].parent /\ p = workers'[v].parent
      BY <2>1, <2>2 DEF Charged, MInv, Types, Attempts
    <3>2. Due(v, p) BY <2>1, <2>2, <3>1 DEF AInv, Children
    <3>3. p # w BY <1>1, <2>1, <2>2, <3>1 DEF AInv, Children
    <3>4. p # c BY <1>1, <3>2 DEF Due, Parted
    <3>5. PICK n \in Missions, d \in Missions : n = workers[p].m /\ d = workers[v].m
      <4>1. workers[p].m \in Missions BY <3>2 DEF Due, Parted, Begun, MInv, AllGood, Good
      <4> QED BY <3>2, <4>1, MissionsAssumption DEF Due
    <3>6. workers'[p] = workers[p] BY <3>3, <3>4
    <3>7. v # w => workers'[v].at = workers[v].at BY <2>1, <2>2
    <3>8. v = w => workers[v].at # "ended" BY <1>1 DEF Begun
    <3> QED BY <1>3, <1>4, <2>1, <2>2, <3>1, <3>2, <3>5, <3>6, <3>7, <3>8 DEF Due, Parted
  <2>3. ASSUME NEW u \in Workers, NEW v \in Workers, Charged(u)', Charged(v)',
               workers'[u].parent = workers'[v].parent
        PROVE  u = v
    BY <2>1, <2>3 DEF AInv, Children
  <2> QED BY <2>2, <2>3 DEF Children
<1> QED BY <1>5, <1>6, <1>7, <1>8 DEF AInv


\* What the child took is charged to its parent, in the runtime.
LEMMA ChildCharged ==
    ASSUME MInv, MInv', AInv, NEW w \in Workers, NEW c \in EndedChild(w), workers[w].at = "waiting",
           workers[c].outcome # "refused", used' = used,
           tasks' = [tasks EXCEPT ![workers[w].m].spent = @ + tasks[workers[c].m].spent],
           disk' = disk \/ disk' = tasks', Moves(w, "absorbing")
    PROVE  AInv'
<1>1. /\ c \in Workers /\ c # w /\ Charged(c) /\ workers[c].parent = w /\ workers[c].at = "ended"
      /\ Due(c, w) /\ workers[w].at \in Begun /\ Leader(w)
      /\ workers \in [Workers -> Attempts] /\ tasks \in [Missions -> Task]
  BY ChildApart DEF AInv, Leaders, MInv, Types
<1>2. PICK m \in Missions, k \in Missions \ Roots : m = workers[w].m /\ k = workers[c].m /\ k # m
  BY ChildApart
<1>3. /\ workers'[w] = [workers[w] EXCEPT !.at = "absorbing"]
      /\ \A v \in Workers \ {w} : workers'[v] = workers[v]
      /\ \A v \in Workers : /\ workers'[v].m = workers[v].m /\ workers'[v].parent = workers[v].parent
                            /\ workers'[v].spent = workers[v].spent
                            /\ workers'[v].outcome = workers[v].outcome
                            /\ Parted(v)' <=> Parted(v)
  BY <1>1 DEF Moves, Attempts, Parted
<1>4. workers'[w].at = "absorbing" BY <1>1, <1>3 DEF Attempts
<1>5. /\ tasks'[m].spent = workers[w].spent + tasks[k].spent
      /\ tasks'[m].limit = tasks[m].limit /\ tasks'[m].state = tasks[m].state
      /\ \A n \in Missions \ {m} : tasks'[n] = tasks[n]
  BY <1>1, <1>2 DEF Leader, Task
<1>6. tasks[m].state \notin {"unborn", "planned"} BY <1>1, <1>2 DEF MInv, AllGood, Good
<1>7. Limits' /\ Counts'
  <2>1. Fits(tasks'[m])
    <3>1. PICK s \in Int, l \in Int, t \in Int, h \in Int :
              s = workers[w].spent /\ l = tasks[m].limit /\ t = tasks[k].spent /\ h = tasks[k].limit
      BY <1>1 DEF Attempts, Task
    <3>2. Fits(tasks[m]) /\ Fits(tasks[k]) /\ Attempted(workers[w]) BY DEF AInv, Limits
    <3>3. h <= l - s BY <1>1, <1>2, <3>1 DEF Due
    <3> QED BY <1>5, <1>6, <3>1, <3>2, <3>3 DEF Fits, Attempted
  <2> SUFFICES ASSUME NEW n \in Missions
               PROVE  /\ Fits(tasks'[n]) /\ Fits(disk'[n])
                      /\ n \in Roots => /\ tasks'[n].limit = Steps /\ disk'[n].limit = Steps
                                        /\ "unborn" \notin {tasks'[n].state, disk'[n].state}
                      /\ disk'[n].state # "unborn" => /\ disk'[n].limit = tasks'[n].limit
                                                      /\ tasks'[n].state # "unborn"
                      /\ used'[n] \in Nat /\ used'[n] <= tasks'[n].limit /\ used'[n] <= disk'[n].limit
                      /\ "planned" \in {tasks'[n].state, disk'[n].state} => used'[n] = 0
    BY DEF Limits, Counts
  <2>2. /\ Fits(tasks[n]) /\ Fits(disk[n])
        /\ n \in Roots => /\ tasks[n].limit = Steps /\ disk[n].limit = Steps
                        /\ "unborn" \notin {tasks[n].state, disk[n].state}
        /\ disk[n].state # "unborn" => disk[n].limit = tasks[n].limit /\ tasks[n].state # "unborn"
    BY DEF AInv, Limits
  <2>3. /\ used[n] \in Nat /\ used[n] <= tasks[n].limit /\ used[n] <= disk[n].limit
        /\ "planned" \in {tasks[n].state, disk[n].state} => used[n] = 0
    BY DEF AInv, Counts
  <2>4. tasks'[n].limit = tasks[n].limit /\ tasks'[n].state = tasks[n].state BY <1>5
  <2>5. Fits(tasks'[n]) BY <1>5, <2>1, <2>2
  <2> QED BY <2>2, <2>3, <2>4, <2>5
<1>8. (\A v \in Workers : Attempted(workers[v]))' /\ Alone'
  <2>1. ASSUME NEW v \in Workers PROVE Attempted(workers'[v])
    <3>1. Attempted(workers[v]) BY DEF AInv
    <3>2. CASE v = w BY <1>1, <1>3, <1>4, <3>1, <3>2 DEF Attempted
    <3> QED BY <1>3, <3>1, <3>2
  <2> QED BY <1>3, <2>1 DEF AInv, Alone
<1>9. Leaders'
  <2> SUFFICES ASSUME NEW v \in Workers, workers'[v].at \in Begun PROVE Leader(v)'
    BY DEF Leaders
  <2>1. workers[v].at \in Begun BY <1>1, <1>3
  <2>2. PICK n \in Missions : n = workers[v].m BY <2>1 DEF MInv, AllGood, Good
  <2>3. Leader(v) /\ workers'[v].m = n BY <1>3, <2>1, <2>2 DEF AInv, Leaders
  <2>4. disk'[n].state \notin {"unborn", "planned"}
    <3>1. tasks'[n].state \notin {"unborn", "planned"} BY <2>3 DEF MInv, AllGood, Good
    <3> QED BY <2>2, <2>3, <3>1 DEF Leader
  <2>5. CASE v = w BY <1>1, <1>3, <1>4, <2>3, <2>4, <2>5 DEF Leader, Parted, Due
  <2>6. CASE v # w
    <3>1. workers'[v] = workers[v] BY <1>3, <2>6
    <3>2. n # m BY <1>1, <1>2, <2>1, <2>2, <2>6 DEF MInv, OneLeader, Leads
    <3>3. \A j \in Kids[n] : j \in Missions /\ (Youngest(j, n)' <=> Youngest(j, n))
                             /\ tasks'[j].limit = tasks[j].limit
      BY <1>5, MissionsAssumption DEF Youngest
    <3>4. tasks'[n] = tasks[n] BY <1>5, <3>2
    <3> QED BY <2>2, <2>3, <2>4, <3>1, <3>3, <3>4 DEF Leader, Parted
  <2> QED BY <2>5, <2>6
<1>10. Children'
  <2>1. \A v \in Workers : Charged(v)' <=> Charged(v) BY <1>3 DEF Charged
  <2>2. Due(c, w)'
    BY <1>1, <1>2, <1>3, <1>4, <1>5 DEF Due
  <2>3. ASSUME NEW v \in Workers, Charged(v), v # c
        PROVE  Due(v, workers[v].parent)'
    <3>1. PICK p \in Workers : p = workers[v].parent /\ p = workers'[v].parent
      BY <1>1, <1>3, <2>3 DEF Charged, Attempts
    <3>2. Due(v, p) BY <2>3, <3>1 DEF AInv, Children
    <3>3. p # w BY <1>1, <2>3, <3>1 DEF AInv, Children
    <3>4. workers[p].at \in Begun BY <3>2 DEF Due, Parted, Begun
    <3>5. PICK n \in Missions, d \in Missions \ Roots : n = workers[p].m /\ d = workers[v].m
      <4>1. workers[p].m \in Missions BY <3>4 DEF MInv, AllGood, Good
      <4> QED BY <3>2, <4>1, MissionsAssumption DEF Due
    <3>6. n # m BY <1>1, <1>2, <3>3, <3>4, <3>5 DEF MInv, OneLeader, Leads
    <3>7. d = m => v = w BY <1>2, <3>5, MissionsAssumption DEF AInv, Alone
    <3>8. tasks'[n] = tasks[n] /\ tasks'[d].limit = tasks[d].limit /\ (d # m => tasks'[d] = tasks[d])
      BY <1>5, <3>6
    <3>9. workers'[p] = workers[p] BY <1>3, <3>3
    <3>10. CASE v = w
      <4>1. workers[p].at # "absorbing" BY <3>2, <3>10 DEF Due
      <4> QED BY <1>3, <1>4, <3>1, <3>2, <3>5, <3>8, <3>9, <3>10, <4>1 DEF Due, Parted
    <3>11. CASE v # w
      <4>1. workers'[v] = workers[v] /\ tasks'[d] = tasks[d] BY <1>3, <3>7, <3>8, <3>11
      <4>2. tasks'[n] = tasks[n] /\ workers'[v].parent = p BY <3>1, <3>8
      <4>3. Due(v, p)' BY <3>2, <3>5, <3>9, <4>1, <4>2, used' = used DEF Due, Parted
      <4> QED BY <3>1, <4>3
    <3> QED BY <3>10, <3>11
  <2>4. \A v \in Workers : workers'[v].parent = workers[v].parent BY <1>3
  <2> QED BY <1>1, <2>1, <2>2, <2>3, <2>4 DEF AInv, Children
<1> QED BY <1>7, <1>8, <1>9, <1>10 DEF AInv

LEMMA ReturnAccounts ==
    ASSUME MInv, MInv', AInv, NEW w \in Workers, ChildBack(w) \/ Absorb(w)
    PROVE  AInv'
<1>1. used' = used /\ workers \in [Workers -> Attempts] BY DEF ChildBack, Absorb, MInv, Types
<1>2. CASE ChildBack(w)
  <2>1. PICK c \in EndedChild(w) :
          IF workers[c].outcome = "refused"
          THEN /\ workers' = [workers EXCEPT ![w].at = Between(w), ![c].outcome = "absorbed"]
               /\ UNCHANGED <<tasks, disk, faults>>
          ELSE /\ tasks' = [tasks EXCEPT ![workers[w].m].spent = @ + tasks[workers[c].m].spent]
               /\ Saves
               /\ Moves(w, "absorbing")
    BY <1>2 DEF ChildBack
  <2>2. workers[w].at = "waiting" BY <1>2 DEF ChildBack
  <2>3. CASE workers[c].outcome # "refused"
    <3>1. disk' = disk \/ disk' = tasks' BY <2>1, <2>3 DEF Saves, Saved, NotSaved
    <3> QED BY <1>1, <2>1, <2>2, <2>3, <3>1, ChildCharged
  <2>4. CASE workers[c].outcome = "refused"
    <3>1. SameCounts BY <1>1, <2>1, <2>4, NoCount
    <3>2. /\ c \in Workers /\ c # w /\ Due(c, w) /\ workers[c].at = "ended" /\ Leader(w)
          /\ workers[w].m \in Missions
      BY ChildApart DEF AInv, Leaders
    <3>3. workers' = [workers EXCEPT ![w].at = Between(w), ![c].outcome = "absorbed"]
          /\ tasks' = tasks
      BY <2>1, <2>4
    <3>4. /\ workers'[w] = [workers[w] EXCEPT !.at = Between(w)]
          /\ workers'[c] = [workers[c] EXCEPT !.outcome = "absorbed"]
          /\ \A v \in Workers \ {w, c} : workers'[v] = workers[v]
      BY <1>1, <3>2, <3>3
    <3>5. workers[w].spent \in Int BY <1>1 DEF Attempts
    <3>6. tasks[workers[w].m].spent = workers[w].spent /\ used[workers[w].m] <= workers[w].spent
      BY <2>2, <2>4, <3>2, <3>5 DEF Leader, Due
    <3> QED BY <1>1, <3>1, <3>2, <3>3, <3>4, <3>6, ChildCleared DEF Attempts
  <2> QED BY <2>3, <2>4
<1>3. CASE Absorb(w)
  <2>1. PICK c \in EndedChild(w) :
          /\ Publishes(w, "running", workers[w].spent + tasks[workers[c].m].spent)
          /\ Saves
          /\ workers' = [workers EXCEPT ![w].at = Between(w),
                            ![w].spent = workers[w].spent + tasks[workers[c].m].spent,
                            ![c].outcome = "absorbed"]
    BY <1>3 DEF Absorb
  <2>2. /\ c \in Workers /\ c # w /\ Due(c, w) /\ workers[c].at = "ended"
        /\ workers[w].at = "absorbing" /\ workers[w].at \in Begun
    BY <1>3, ChildApart DEF Absorb
  <2>3. PICK m \in Missions, k \in Missions : m = workers[w].m /\ k = workers[c].m
    BY ChildApart
  <2>4. PICK n \in Int : n = workers[w].spent + tasks[k].spent
    BY <1>1 DEF Attempts, MInv, Types, Task
  <2>5. tasks[m].spent = n /\ used[m] <= n
    <3>1. PICK s \in Int, t \in Int, u \in Int, x \in Int :
              s = workers[w].spent /\ t = tasks[k].spent /\ u = used[m] /\ x = used[k]
      <4>1. used[m] \in Int /\ used[k] \in Int BY DEF AInv, Counts
      <4>2. workers[w].spent \in Int /\ tasks[k].spent \in Int BY <1>1 DEF Attempts, MInv, Types, Task
      <4> QED BY <4>1, <4>2
    <3>2. u <= s + x /\ x <= t BY <2>2, <2>3, <3>1 DEF Due
    <3> QED BY <2>2, <2>3, <2>4, <3>1, <3>2 DEF Due
  <2>6. tasks' = [tasks EXCEPT ![m].state = "running"]
    <3>1. tasks' = [tasks EXCEPT ![m].state = "running", ![m].spent = n]
      BY <2>1, <2>3, <2>4 DEF Publishes
    <3> QED BY <2>5, <3>1 DEF MInv, Types, Task
  <2>7. SameCounts
    <3>1. tasks[m].state # "unborn" BY <2>2, <2>3 DEF MInv, AllGood, Good
    <3>2. disk' = disk \/ disk' = tasks' BY <2>1 DEF Saves, Saved, NotSaved
    <3>3. "running" \in States BY DEF States
    <3> QED BY <1>1, <2>6, <3>1, <3>2, <3>3, StateSameCounts
  <2>8. workers' = [workers EXCEPT ![w].at = Between(w), ![w].spent = n, ![c].outcome = "absorbed"]
    BY <2>1, <2>3, <2>4
  <2>9. /\ workers'[w] = [workers[w] EXCEPT !.at = Between(w), !.spent = n]
        /\ workers'[c] = [workers[c] EXCEPT !.outcome = "absorbed"]
        /\ \A v \in Workers \ {w, c} : workers'[v] = workers[v]
    BY <1>1, <2>2, <2>8
  <2>10. tasks'[m].spent = n BY <2>3, <2>5, <2>6 DEF MInv, Types, Task
  <2>11. /\ workers'[w].m = workers[w].m /\ workers'[w].parent = workers[w].parent
         /\ workers'[w].outcome = workers[w].outcome /\ workers'[w].at = Between(w)
         /\ workers'[w].spent = n
         /\ workers'[c].m = workers[c].m /\ workers'[c].parent = workers[c].parent
         /\ workers'[c].spent = workers[c].spent /\ workers'[c].at = "ended"
         /\ workers'[c].outcome = "absorbed"
    BY <1>1, <2>2, <2>9 DEF Attempts
  <2>12. /\ tasks'[workers[w].m].spent = workers'[w].spent
         /\ used[workers[w].m] <= workers'[w].spent
    BY <2>3, <2>5, <2>10, <2>11
  <2> QED BY <2>7, <2>9, <2>11, <2>12, ChildCleared
<1> QED BY <1>2, <1>3


-------------------------------------------------------------------------------
(* A step taken for a mission is taken for all that it is delegated from.  *)

LEMMA AboveIsClosed ==
    ASSUME NEW m \in Missions
    PROVE  /\ m \in Above(m) /\ Above(m) \subseteq Missions
           /\ \A p \in Missions : Kids[p] \cap Above(m) # {} => p \in Above(m)
<1>1. m \in Above(m) /\ Above(m) \subseteq Missions BY DEF Above
<1>2. ASSUME NEW p \in Missions, NEW j \in Kids[p], j \in Above(m) PROVE p \in Above(m)
  <2> SUFFICES ASSUME NEW S \in SUBSET Missions, m \in S,
                      \A q \in Missions : Kids[q] \cap S # {} => q \in S
               PROVE  p \in S
    BY DEF Above
  <2>1. j \in S BY <1>2 DEF Above
  <2> QED BY <1>2, <2>1
<1> QED BY <1>1, <1>2

LEMMA AboveIsLeast ==
    ASSUME NEW m \in Missions, NEW S \in SUBSET Missions, m \in S,
           \A p \in Missions : Kids[p] \cap S # {} => p \in S
    PROVE  Above(m) \subseteq S
BY DEF Above

\* A mission has room for a step of w, which leads it, or which works for a child of it.
Carries(w, a) ==
    /\ used[a] + 1 <= tasks[a].limit
    /\ \E p \in Workers :
          /\ Leads(p, a)
          /\ \/ p = w
             \/ /\ workers[p].at = "waiting"
                /\ \E v \in Workers : /\ Charged(v) /\ workers[v].parent = p
                                      /\ workers[v].at \in Begun
                                      /\ workers[v].m \in Above(workers[w].m)

LEMMA AboveCarries ==
    ASSUME MInv, AInv, NEW w \in Workers, workers[w].at = Between(w),
           workers[w].spent < tasks[workers[w].m].limit
    PROVE  \A a \in Above(workers[w].m) : Carries(w, a)
<1>0. workers[w].at \in Begun /\ ~Parted(w) BY DEF Between, Begun, Parted
<1>1. PICK m \in Missions : m = workers[w].m BY <1>0 DEF MInv, AllGood, Good
<1> DEFINE S == {a \in Above(m) : Carries(w, a)}
<1>2. m \in S
  <2>1. Leader(w) BY <1>0 DEF AInv, Leaders
  <2>2. used[m] <= workers[w].spent BY <1>0, <1>1, <2>1 DEF Leader
  <2>3. used[m] \in Int /\ workers[w].spent \in Int /\ tasks[m].limit \in Int
    BY DEF AInv, Counts, MInv, Types, Attempts, Task
  <2>4. used[m] + 1 <= tasks[m].limit BY <1>1, <2>2, <2>3
  <2>5. Leads(w, m) BY <1>0, <1>1 DEF Leads
  <2> QED BY <1>1, <2>4, <2>5, AboveIsClosed DEF Carries
<1>3. ASSUME NEW a \in Missions, NEW j \in Kids[a], j \in S PROVE a \in S
  <2>1. a \in Above(m) /\ j \in Missions \ Roots /\ j \in Above(m)
    BY <1>3, AboveIsClosed, MissionsAssumption
  <2>2. PICK v \in Workers : Leads(v, j) BY <1>3 DEF Carries
  <2>3. Charged(v) BY <2>1, <2>2, MissionsAssumption DEF AInv, Attempted, Charged, Leads, Begun
  <2>4. PICK p \in Workers : p = workers[v].parent BY <2>3 DEF Charged, MInv, Types, Attempts
  <2>5. Due(v, p) BY <2>3, <2>4 DEF AInv, Children
  <2>6. workers[p].at = "waiting" BY <2>2, <2>5 DEF Due, Parted, Leads, Begun
  <2>7. workers[p].m \in Missions BY <2>6 DEF MInv, AllGood, Good, Begun
  <2>8. workers[p].m = a BY <1>3, <2>2, <2>5, <2>7, FamiliesAssumption DEF Due, Leads
  <2>9. Leads(p, a) BY <2>6, <2>8 DEF Leads, Begun
  <2>10. used[a] + 1 <= tasks[a].limit
    <3>1. used[j] + 1 <= tasks[j].limit BY <1>3 DEF Carries
    <3>2. used[a] <= workers[p].spent + used[j] /\ tasks[j].limit <= tasks[a].limit - workers[p].spent
      BY <2>2, <2>5, <2>8 DEF Due, Leads
    <3>3. PICK ua \in Int, uj \in Int, s \in Int, la \in Int, lj \in Int :
              /\ ua = used[a] /\ uj = used[j] /\ s = workers[p].spent
              /\ la = tasks[a].limit /\ lj = tasks[j].limit
      <4>1. used[a] \in Int /\ used[j] \in Int BY <2>1 DEF AInv, Counts
      <4>2. workers[p].spent \in Int /\ tasks[a].limit \in Int /\ tasks[j].limit \in Int
        BY <2>1 DEF MInv, Types, Attempts, Task
      <4> QED BY <4>1, <4>2
    <3> QED BY <3>1, <3>2, <3>3
  <2> QED BY <1>1, <2>1, <2>2, <2>3, <2>4, <2>6, <2>9, <2>10 DEF Carries, Leads
<1>4. Above(m) \subseteq S
  <2>1. S \in SUBSET Missions BY AboveIsClosed
  <2> HIDE DEF S
  <2> QED BY <1>2, <1>3, <2>1, AboveIsLeast
<1> QED BY <1>1, <1>4


\* A child that is charged is led by the worker that a step above it says, or nobody counts it.
LEMMA AboveIsLed ==
    ASSUME MInv, AInv, NEW w \in Workers, workers[w].at = Between(w),
           workers[w].spent < tasks[workers[w].m].limit,
           NEW p \in Workers, workers[p].m \in Above(workers[w].m)
    PROVE  /\ workers[p].m \notin Roots => workers[p].at \in Begun
           /\ workers[p].at \in Begun /\ p # w =>
                  /\ workers[p].at = "waiting"
                  /\ \A v \in Workers : Charged(v) /\ workers[v].parent = p =>
                         workers[v].at \in Begun /\ workers[v].m \in Above(workers[w].m)
<1>0. workers[w].at \in Begun BY DEF Between, Begun
<1>1. PICK m \in Missions : m = workers[w].m BY <1>0 DEF MInv, AllGood, Good
<1>2. PICK a \in Missions : a = workers[p].m /\ a \in Above(m) BY <1>1, AboveIsClosed
<1>3. PICK q \in Workers :
          /\ Leads(q, a)
          /\ \/ q = w
             \/ /\ workers[q].at = "waiting"
                /\ \E v \in Workers : /\ Charged(v) /\ workers[v].parent = q
                                      /\ workers[v].at \in Begun
                                      /\ workers[v].m \in Above(workers[w].m)
  BY <1>1, <1>2, AboveCarries DEF Carries
<1>4. a \notin Roots => p = q BY <1>2, <1>3, MissionsAssumption DEF AInv, Alone, Leads
<1>5. workers[p].at \in Begun => p = q BY <1>2, <1>3 DEF MInv, OneLeader, Leads
<1>6. \A u, v \in Workers : Charged(u) /\ Charged(v) /\ workers[u].parent = workers[v].parent => u = v
  BY DEF AInv, Children
<1> QED BY <1>2, <1>3, <1>4, <1>5, <1>6 DEF Leads

LEMMA TurnAccounts ==
    ASSUME MInv, MInv', SInv, AInv, NEW w \in Workers, Turn(w)
    PROVE  AInv'
<1>0. /\ workers[w].at = Between(w) /\ workers[w].spent < tasks[workers[w].m].limit
      /\ workers[w].at \in {"working", "open"} /\ workers[w].at \in Begun /\ ~Parted(w)
      /\ workers \in [Workers -> Attempts] /\ tasks \in [Missions -> Task]
  BY DEF Turn, Between, Begun, Parted, MInv, Types
<1>1. PICK m \in Missions : m = workers[w].m BY <1>0 DEF MInv, AllGood, Good
<1>2. PICK n \in Int : n = workers[w].spent + 1 BY <1>0 DEF Attempts
<1>3. PICK at \in {"working", "open", "delegating", "concluding"}, outcome \in {workers[w].outcome, "failed"} :
          workers' = [workers EXCEPT ![w] = [workers[w] EXCEPT !.spent = n, !.at = at, !.outcome = outcome]]
  <2>1. CASE \E next \in {Between(w)} \cup {"delegating" : k \in Kids[workers[w].m]} :
                workers' = [workers EXCEPT ![w].spent = n, ![w].at = next]
    <3>1. PICK next \in {"working", "open", "delegating"} :
              workers' = [workers EXCEPT ![w].spent = n, ![w].at = next]
      BY <2>1 DEF Between
    <3>2. workers' = [workers EXCEPT ![w] = [workers[w] EXCEPT !.spent = n, !.at = next,
                                                               !.outcome = workers[w].outcome]]
      BY <1>0, <3>1 DEF Attempts
    <3> QED BY <3>2
  <2>2. CASE workers' = [workers EXCEPT ![w].spent = n,
                            ![w].at = IF @ = "working" THEN "concluding" ELSE @,
                            ![w].outcome = "failed"]
    <3>1. PICK next \in {"open", "concluding"} :
              next = IF workers[w].at = "working" THEN "concluding" ELSE workers[w].at
      BY <1>0
    <3>2. workers' = [workers EXCEPT ![w] = [workers[w] EXCEPT !.spent = n, !.at = next,
                                                               !.outcome = "failed"]]
      BY <1>0, <2>2, <3>1 DEF Attempts
    <3> QED BY <3>2
  <2> QED BY <1>2, <2>1, <2>2 DEF Turn, Charges
<1>4. /\ workers'[w].m = m /\ workers'[w].parent = workers[w].parent /\ workers'[w].spent = n
      /\ workers'[w].at = at /\ workers'[w].outcome \in {workers[w].outcome, "failed"}
      /\ \A v \in Workers \ {w} : workers'[v] = workers[v]
  BY <1>0, <1>1, <1>3 DEF Attempts
<1>5. /\ tasks'[m].spent = n /\ tasks'[m].limit = tasks[m].limit /\ tasks'[m].state = "running"
      /\ \A k \in Missions \ {m} : tasks'[k] = tasks[k]
      /\ disk' = disk \/ disk' = tasks'
  <2>1. tasks' = [tasks EXCEPT ![m].state = "running", ![m].spent = n]
    BY <1>1, <1>2 DEF Turn, Charges, Publishes
  <2>2. disk' = disk \/ disk' = tasks' BY DEF Turn, Charges, Saved, NotSaved
  <2> QED BY <1>0, <2>1, <2>2 DEF Task
<1> DEFINE A == Above(m)
<1>6. \A a \in Missions : used'[a] = used[a] + IF a \in A THEN 1 ELSE 0
  BY <1>1 DEF Turn, Charges
<1>7. m \in A /\ A \subseteq Missions BY AboveIsClosed
<1>8. \A a \in A : Carries(w, a) BY <1>0, <1>1, AboveCarries
<1>9. \A p \in Workers : workers[p].m \in A =>
          /\ workers[p].m \notin Roots => workers[p].at \in Begun
          /\ workers[p].at \in Begun /\ p # w =>
                 /\ workers[p].at = "waiting"
                 /\ \A v \in Workers : Charged(v) /\ workers[v].parent = p =>
                        workers[v].at \in Begun /\ workers[v].m \in A
  BY <1>0, <1>1, AboveIsLed
<1> HIDE DEF A
<1>10. Leader(w) /\ Attempted(workers[w]) /\ tasks[m].state \notin {"unborn", "planned"}
  BY <1>0, <1>1 DEF AInv, Leaders, MInv, AllGood, Good
<1>11. \A k \in Missions : tasks'[k].limit = tasks[k].limit
                           /\ (tasks'[k].state = "unborn" <=> tasks[k].state = "unborn")
  BY <1>5, <1>10
<1>12. Limits' /\ Counts'
  <2>1. Fits(tasks'[m])
    <3>1. PICK s \in Int, l \in Int : s = workers[w].spent /\ l = tasks[m].limit
      BY <1>0 DEF Attempts, Task
    <3>2. Fits(tasks[m]) BY DEF AInv, Limits
    <3> QED BY <1>0, <1>1, <1>2, <1>5, <1>10, <3>1, <3>2 DEF Fits, Attempted
  <2> SUFFICES ASSUME NEW a \in Missions
               PROVE  /\ Fits(tasks'[a]) /\ Fits(disk'[a])
                      /\ a \in Roots => /\ tasks'[a].limit = Steps /\ disk'[a].limit = Steps
                                        /\ "unborn" \notin {tasks'[a].state, disk'[a].state}
                      /\ disk'[a].state # "unborn" => /\ disk'[a].limit = tasks'[a].limit
                                                      /\ tasks'[a].state # "unborn"
                      /\ used'[a] \in Nat /\ used'[a] <= tasks'[a].limit /\ used'[a] <= disk'[a].limit
                      /\ "planned" \in {tasks'[a].state, disk'[a].state} => used'[a] = 0
    BY DEF Limits, Counts
  <2>2. /\ Fits(tasks[a]) /\ Fits(disk[a])
        /\ a \in Roots => /\ tasks[a].limit = Steps /\ disk[a].limit = Steps
                        /\ "unborn" \notin {tasks[a].state, disk[a].state}
        /\ disk[a].state # "unborn" => disk[a].limit = tasks[a].limit /\ tasks[a].state # "unborn"
    BY DEF AInv, Limits
  <2>3. /\ used[a] \in Nat /\ used[a] <= tasks[a].limit /\ used[a] <= disk[a].limit
        /\ "planned" \in {tasks[a].state, disk[a].state} => used[a] = 0
    BY DEF AInv, Counts
  <2>4. Fits(tasks'[a]) BY <1>5, <2>1, <2>2
  <2>5. a \in A => /\ used[a] + 1 <= tasks[a].limit
                   /\ disk[a].state \notin {"unborn", "planned"}
                   /\ tasks'[a].state \notin {"unborn", "planned"}
    <3>1. ASSUME a \in A PROVE \E p \in Workers : Leads(p, a) BY <1>8, <3>1 DEF Carries
    <3>2. ASSUME NEW p \in Workers, Leads(p, a)
          PROVE  /\ disk[a].state \notin {"unborn", "planned"}
                 /\ tasks[a].state \notin {"unborn", "planned"}
      BY <3>2 DEF AInv, Leaders, Leader, Leads, MInv, AllGood, Good
    <3> QED BY <1>5, <1>8, <3>1, <3>2 DEF Carries
  <2>6. used'[a] \in Nat /\ used'[a] <= tasks[a].limit /\ (a \notin A => used'[a] = used[a])
    BY <1>6, <2>3, <2>5
  <2>7. tasks'[a].state = "planned" => tasks[a].state = "planned" BY <1>5
  <2> QED BY <1>5, <1>11, <2>2, <2>3, <2>4, <2>5, <2>6, <2>7
<1>13. (\A v \in Workers : Attempted(workers[v]))' /\ Alone'
  <2>1. ASSUME NEW v \in Workers PROVE Attempted(workers'[v])
    <3>1. Attempted(workers[v]) BY DEF AInv
    <3>2. CASE v = w
      <4>1. 0 <= n /\ n <= Steps
        <5>1. PICK l \in Int : l = tasks'[m].limit BY <1>5, <1>0 DEF Task
        <5>2. Fits(tasks'[m]) BY <1>12 DEF Limits
        <5> QED BY <1>2, <1>5, <5>1, <5>2, MissionsAssumption DEF Fits
      <4>2. workers[w].outcome \notin {"refused", "absorbed"}
        BY <1>0, <3>1, <3>2 DEF Begun, Attempted
      <4> QED BY <1>1, <1>4, <3>1, <3>2, <4>1, <4>2 DEF Attempted
    <3> QED BY <1>4, <3>1, <3>2
  <2>2. Alone' BY <1>1, <1>4 DEF AInv, Alone
  <2> QED BY <2>1, <2>2
<1>14. Leaders'
  <2> SUFFICES ASSUME NEW v \in Workers, workers'[v].at \in Begun PROVE Leader(v)'
    BY DEF Leaders
  <2>1. CASE v = w
    <3>1. disk'[m].state \notin {"unborn", "planned"} BY <1>1, <1>5, <1>10 DEF Leader
    <3>2. used'[m] <= n
      <4>1. used[m] <= workers[w].spent BY <1>0, <1>1, <1>10 DEF Leader
      <4>2. used[m] \in Int /\ workers[w].spent \in Int
        BY <1>0 DEF AInv, Counts, Attempts
      <4> QED BY <1>2, <1>6, <1>7, <4>1, <4>2
    <3> QED BY <1>4, <1>5, <2>1, <3>1, <3>2 DEF Leader
  <2>2. CASE v # w
    <3>1. workers'[v] = workers[v] BY <1>4, <2>2
    <3>2. PICK k \in Missions : k = workers[v].m BY <3>1 DEF MInv, AllGood, Good
    <3>3. k # m /\ Leader(v)
      BY <1>0, <1>1, <2>2, <3>1, <3>2 DEF MInv, OneLeader, Leads, AInv, Leaders
    <3>4. tasks'[k] = tasks[k] BY <1>5, <3>3
    <3>5. disk'[k].state \notin {"unborn", "planned"}
      <4>1. tasks'[k].state \notin {"unborn", "planned"} BY <3>1, <3>2 DEF MInv, AllGood, Good
      <4> QED BY <1>5, <3>2, <3>3, <4>1 DEF Leader
    <3>6. ~Parted(v) => used'[k] = used[k]
      <4>1. k \in A => Parted(v) BY <1>9, <2>2, <3>1, <3>2 DEF Parted
      <4>2. k \notin A => used'[k] = used[k]
        <5>1. used[k] \in Int BY DEF AInv, Counts
        <5> QED BY <1>6, <5>1
      <4> QED BY <4>1, <4>2
    <3>7. ASSUME workers[v].at = "planned", NEW j \in Kids[k], Youngest(j, k)'
          PROVE  used'[j] = 0 /\ tasks'[j].limit <= tasks'[k].limit - workers[v].spent
      <4>1. j \in Missions /\ Kids[k] \subseteq Missions BY MissionsAssumption
      <4>2. Youngest(j, k) BY <1>11, <3>7, <4>1 DEF Youngest
      <4>3. \A u \in Workers : workers[u].m # j
        BY <3>2, <3>7, <4>2 DEF SInv, Births, Unled
      <4>4. j \notin A BY <1>8, <4>3 DEF Carries, Leads
      <4>5. used[j] = 0 /\ tasks[j].limit <= tasks[k].limit - workers[v].spent
        BY <3>2, <3>3, <3>7, <4>2 DEF Leader
      <4> QED BY <1>6, <1>11, <4>1, <4>4, <4>5
    <3> QED BY <3>1, <3>2, <3>3, <3>4, <3>5, <3>6, <3>7 DEF Leader, Parted
  <2> QED BY <2>1, <2>2
<1>15. Children'
  <2>1. ASSUME NEW v \in Workers
        PROVE  /\ Charged(v)' <=> Charged(v)
               /\ workers'[v].parent = workers[v].parent /\ workers'[v].m = workers[v].m
    BY <1>0, <1>1, <1>4, <1>10 DEF Charged, Attempted, Begun
  <2>2. ASSUME NEW v \in Workers, Charged(v) PROVE Due(v, workers[v].parent)'
    <3>1. PICK p \in Workers : p = workers[v].parent BY <1>0, <2>2 DEF Charged, Attempts
    <3>2. Due(v, p) BY <2>2, <3>1 DEF AInv, Children
    <3>3. p # w /\ workers[p].at \in Begun BY <1>0, <3>2 DEF Due, Parted, Begun
    <3>4. PICK k \in Missions, d \in Missions \ Roots : k = workers[p].m /\ d = workers[v].m
      <4>1. workers[p].m \in Missions BY <3>3 DEF MInv, AllGood, Good
      <4> QED BY <3>2, <4>1, MissionsAssumption DEF Due
    <3>5. k # m BY <1>0, <1>1, <3>3, <3>4 DEF MInv, OneLeader, Leads
    <3>6. workers'[p] = workers[p] /\ tasks'[k] = tasks[k] BY <1>4, <1>5, <3>3, <3>5
    <3>7. d = m <=> v = w
      <4>1. d = m => v = w BY <1>1, <3>4, MissionsAssumption DEF AInv, Alone
      <4> QED BY <1>1, <3>4, <4>1
    <3>8. k \in A => d \in A BY <1>9, <2>2, <3>1, <3>3, <3>4
    <3>9. d \in A => workers[v].at \in Begun BY <1>9, <3>4
    <3>10. used'[k] <= workers[p].spent + used'[d]
      <4>1. PICK uk \in Int, ud \in Int, s \in Int : uk = used[k] /\ ud = used[d] /\ s = workers[p].spent
        <5>1. used[k] \in Int /\ used[d] \in Int BY DEF AInv, Counts
        <5> QED BY <1>0, <5>1 DEF Attempts
      <4>2. uk <= s + ud BY <3>2, <3>4, <4>1 DEF Due
      <4>3. used'[k] = uk + (IF k \in A THEN 1 ELSE 0) /\ used'[d] = ud + (IF d \in A THEN 1 ELSE 0)
        BY <1>6, <4>1
      <4> QED BY <3>8, <4>1, <4>2, <4>3
    <3>11. d \notin A => used'[d] = used[d]
      <4>1. used[d] \in Int BY DEF AInv, Counts
      <4> QED BY <1>6, <4>1
    <3>12. d \in A => workers'[v].at \notin {"reserved", "refused", "leaving", "ended"}
                      /\ workers'[v].outcome # "refused"
      <4>1. Attempted(workers'[v]) BY <1>13
      <4>2. d \in A => workers'[v].at \in Begun BY <1>3, <1>4, <3>9 DEF Begun
      <4> QED BY <4>1, <4>2 DEF Attempted, Begun
    <3>13. CASE v = w
      BY <1>0, <1>4, <1>10, <1>11, <2>1, <3>1, <3>2, <3>3, <3>4, <3>6, <3>7, <3>10, <3>12, <3>13, <1>7
      DEF Due, Parted
    <3>14. CASE v # w
      <4>1. workers'[v] = workers[v] /\ tasks'[d] = tasks[d] BY <1>4, <1>5, <3>7, <3>14
      <4>2. Due(v, p)'
        BY <3>2, <3>4, <3>6, <3>10, <3>11, <3>12, <4>1 DEF Due, Parted
      <4> QED BY <2>1, <3>1, <4>2
    <3> QED BY <3>13, <3>14
  <2> QED BY <2>1, <2>2 DEF AInv, Children
<1> QED BY <1>12, <1>13, <1>14, <1>15 DEF AInv


-------------------------------------------------------------------------------
\* What stops forgets who was charged for what: all that was taken is within what was saved.
LEMMA NobodyAccounts ==
    ASSUME Limits', Counts', (\A w \in Workers : Attempted(workers[w]))',
           \A w \in Workers : workers'[w].m = None /\ workers'[w].at \in {"idle", "ended"}
    PROVE  AInv'
<1>1. Alone' BY DEF Alone
<1>2. Leaders' BY DEF Leaders, Begun
<1>3. \A w \in Workers : ~Charged(w)' BY DEF Attempted, Charged
<1>4. Children' BY <1>3 DEF Children
<1> QED BY <1>1, <1>2, <1>4 DEF AInv

LEMMA StopAccounts ==
    ASSUME MInv, SInv, AInv, Crash \/ Restart
    PROVE  AInv'
<1>1. CASE Crash
  <2>1. /\ UNCHANGED <<tasks, disk, used>> /\ workers' = [w \in Workers |-> Gone(w)]
    BY <1>1 DEF Crash
  <2>2. Limits' /\ Counts' BY <2>1 DEF AInv, Limits, Counts
  <2>3. ASSUME NEW w \in Workers
        PROVE  /\ Attempted(workers'[w]) /\ workers'[w].m = None
               /\ workers'[w].at \in {"idle", "ended"}
    <3>1. CASE workers[w].at = "idle"
      <4>1. workers'[w] = workers[w] BY <2>1, <3>1 DEF Gone
      <4> QED BY <3>1, <4>1 DEF AInv, SInv, Fresh
    <3>2. CASE workers[w].at # "idle"
      <4>1. workers'[w] = Ended BY <2>1, <3>2 DEF Gone
      <4>2. /\ Ended.at = "ended" /\ Ended.m = None /\ Ended.parent = None
            /\ Ended.spent = 0 /\ Ended.outcome = "none"
        BY DEF Ended
      <4> QED BY <4>1, <4>2, MissionsAssumption DEF Attempted
    <3> QED BY <3>1, <3>2
  <2> QED BY <2>2, <2>3, NobodyAccounts
<1>2. CASE Restart
  <2>1. /\ ~alive /\ UNCHANGED <<workers, used>>
        /\ tasks' = [m \in Missions |-> Resumed(disk[m])] /\ disk' = tasks'
    BY <1>2 DEF Restart
  <2>2. \A w \in Workers : workers[w].m = None /\ workers[w].at \in {"idle", "ended"}
    BY <2>1 DEF SInv, Fresh, MInv, Stopped
  <2>3. Limits' /\ Counts'
    <3>1. ASSUME NEW m \in Missions
          PROVE  /\ tasks'[m].limit = disk[m].limit /\ tasks'[m].spent = disk[m].spent
                 /\ tasks'[m].state = "unborn" <=> disk[m].state = "unborn"
                 /\ tasks'[m].state = "planned" <=> disk[m].state = "planned"
                 /\ disk'[m] = tasks'[m]
      <4>1. disk[m] \in Task /\ tasks'[m] = Resumed(disk[m]) BY <2>1 DEF MInv, Types
      <4> QED BY <2>1, <4>1 DEF Resumed, Task
    <3> QED BY <2>1, <3>1 DEF AInv, Limits, Counts, Fits
  <2>4. (\A w \in Workers : Attempted(workers[w]))' BY <2>1 DEF AInv
  <2> QED BY <2>1, <2>2, <2>3, <2>4, NobodyAccounts
<1> QED BY <1>1, <1>2

LEMMA AInvInit ==
    ASSUME Init
    PROVE  AInv
<1>1. /\ Unborn.state = "unborn" /\ Unborn.spent = 0 /\ Unborn.limit = 0
      /\ Plan(Steps).state = "planned" /\ Plan(Steps).spent = 0 /\ Plan(Steps).limit = Steps
      /\ Idle.at = "idle" /\ Idle.m = None /\ Idle.parent = None /\ Idle.spent = 0
      /\ Idle.outcome = "none"
  BY DEF Unborn, Plan, Idle
<1>2. /\ \A m \in Missions : /\ tasks[m] = IF m \in Roots THEN Plan(Steps) ELSE Unborn
                             /\ disk[m] = tasks[m] /\ used[m] = 0
      /\ \A w \in Workers : workers[w] = Idle
  BY DEF Init
<1>3. Limits /\ Counts BY <1>1, <1>2, MissionsAssumption DEF Limits, Counts, Fits
<1>4. \A w \in Workers : Attempted(workers[w]) BY <1>1, <1>2, MissionsAssumption DEF Attempted
<1>5. Alone BY <1>1, <1>2 DEF Alone
<1>6. Leaders BY <1>1, <1>2 DEF Leaders, Begun
<1>7. Children BY <1>1, <1>2 DEF Children, Charged
<1> QED BY <1>3, <1>4, <1>5, <1>6, <1>7 DEF AInv

LEMMA AInvNext ==
    ASSUME RootsStart, MInv, SInv, AInv, [Next]_vars
    PROVE  AInv'
<1>0. MInv' BY MInvNext
<1>1. CASE \E w \in Workers : WorkerStep(w) \/ Turn(w)
  <2> SUFFICES ASSUME NEW w \in Workers, WorkerStep(w) \/ Turn(w) PROVE AInv' BY <1>1
  <2> USE DEF WorkerStep
  <2>1. CASE Begin(w) BY <1>0, <2>1, BeginProceeds, ProceedingKeeps
  <2>2. CASE \/ GiveBack(w) \/ Leave(w) \/ OpenSession(w) \/ Insert(w) \/ Finish(w) \/ Conclude(w)
             \/ ConcludeLog(w)
    BY <1>0, <2>2, QuietProceeds, ProceedingKeeps
  <2>3. CASE ConcludePublish(w) BY <1>0, <2>3, PublishProceeds, ProceedingKeeps
  <2>4. CASE Turn(w) BY <1>0, <2>4, TurnAccounts
  <2>5. CASE PlanChild(w) BY <1>0, <2>5, PlanAccounts
  <2>6. CASE \E child \in Workers : LaunchChild(w, child) BY <1>0, <2>6, LaunchAccounts
  <2>7. CASE ChildBack(w) \/ Absorb(w) BY <1>0, <2>7, ReturnAccounts
  <2> QED BY <2>1, <2>2, <2>3, <2>4, <2>5, <2>6, <2>7
<1>2. CASE \E m \in Missions : CancelPlan(m) \/ ClientEnds(m)
  BY <1>0, <1>2, StatesProceed, ProceedingKeeps
<1>3. CASE \E w \in Workers, m \in Missions, kind \in {"local", "seance"} : Reserve(w, m, kind)
  BY <1>0, <1>3, ReserveProceeds, ProceedingKeeps
<1>4. CASE Crash \/ Restart BY <1>4, StopAccounts
<1>5. CASE \/ \E m \in Missions : Detach(m) \/ Cancel(m) \/ LookUp(m) \/ Retire(m)
           \/ \E m \in Clients : StartClient(m) \/ ClientReturns(m)
           \/ Halt
           \/ UNCHANGED vars
  <2>1. UNCHANGED <<workers, tasks, disk, used>>
    BY <1>5 DEF Detach, Cancel, LookUp, Retire, StartClient, ClientReturns, Halt, vars
  <2>2. SameCounts /\ Proceeding BY <2>1, NoCount DEF Proceeding
  <2> QED BY <1>0, <2>2, ProceedingKeeps
<1> QED BY <1>1, <1>2, <1>3, <1>4, <1>5 DEF Next, ServiceStep, HumanStep

\* A mission and all it delegates take no more steps than it was given, over its children, its
\* end, its loss and its resumption, when the human starts only what the human prepared
\* (Budget::reserve and absorb_child, budget.rs, task.rs).
THEOREM BudgetsHold ==
    ASSUME RootsStart
    PROVE  Spec => []BudgetKept
<1>1. Init => MInv /\ SInv /\ AInv BY MInvInit, SInvInit, AInvInit
<1>2. MInv /\ SInv /\ AInv /\ [Next]_vars => (MInv /\ SInv /\ AInv)'
  BY RootsStart, MInvNext, SInvNext, AInvNext
<1>3. MInv /\ SInv /\ AInv => BudgetKept BY AccountKept
<1> QED BY <1>1, <1>2, <1>3, PTL DEF Spec


-------------------------------------------------------------------------------
(* The types of the requests, of the clients and of the counts.            *)

Holding == [at : {"none", "out", "back", "gone"}, took : Workers \cup {None}]
CInv ==
    /\ clients \in [Missions -> Holding] /\ halt \in BOOLEAN
    /\ taken \subseteq Workers \X {"finish", "abort"}
    /\ asked \subseteq Missions /\ unstarted \subseteq Missions
    /\ used \in [Missions -> Int] /\ faults \in 0 .. MaxFaults
Struck == \E kind \in {"save", "crash", "log", "error"} : Strike(kind)

LEMMA FaultsBounded ==
    ASSUME faults \in 0 .. MaxFaults, faults' = faults \/ Struck
    PROVE  faults' \in 0 .. MaxFaults
<1>1. CASE faults' = faults BY <1>1
<1>2. CASE Struck
  <2>1. faults < MaxFaults /\ faults' = faults + 1 BY <1>2 DEF Struck, Strike
  <2> QED BY <2>1, MissionsAssumption
<1> QED BY <1>1, <1>2

LEMMA WorkerRequests ==
    ASSUME MInv, CInv, NEW w \in Workers, WorkerStep(w) \/ Turn(w)
    PROVE  CInv'
<1> USE DEF WorkerStep, tables, requests
<1>1. UNCHANGED <<clients, asked, unstarted, halt>> /\ taken' \subseteq taken
  BY DEF Begin, GiveBack, OpenSession, Insert, PlanChild, LaunchChild, ChildBack, Absorb, Finish,
         Conclude, ConcludeLog, ConcludePublish, Leave, Turn, Charges
<1>2. faults' = faults \/ Struck
  <2>1. CASE Begin(w) \/ PlanChild(w)
    BY <2>1 DEF Begin, PlanChild, Saved, NotSaved, Struck
  <2>2. CASE GiveBack(w) \/ Insert(w) \/ Leave(w) \/ (\E child \in Workers : LaunchChild(w, child))
    BY <2>2 DEF GiveBack, Insert, Leave, LaunchChild
  <2>3. CASE OpenSession(w) \/ Finish(w) \/ Conclude(w) \/ ConcludeLog(w)
    BY <2>3 DEF OpenSession, Finish, Conclude, ConcludeLog, Struck
  <2>4. CASE ChildBack(w) \/ Absorb(w) \/ ConcludePublish(w) \/ Turn(w)
    BY <2>4 DEF ChildBack, Absorb, ConcludePublish, Turn, Charges, Saves, Saved, NotSaved, Struck
  <2> QED BY <2>1, <2>2, <2>3, <2>4
<1>3. used' \in [Missions -> Int]
  <2>1. CASE Turn(w)
    <3>1. used' = [a \in Missions |-> used[a] + IF a \in Above(workers[w].m) THEN 1 ELSE 0]
      BY <2>1 DEF Turn, Charges
    <3> QED BY <3>1 DEF CInv
  <2>2. CASE used' = used BY <2>2 DEF CInv
  <2> QED BY <2>1, <2>2
      DEF Begin, GiveBack, OpenSession, Insert, PlanChild, LaunchChild, ChildBack, Absorb, Finish,
          Conclude, ConcludeLog, ConcludePublish, Leave
<1>4. faults' \in 0 .. MaxFaults BY <1>2, FaultsBounded DEF CInv
<1> QED BY <1>1, <1>3, <1>4 DEF CInv

LEMMA OtherRequests ==
    ASSUME MInv, SInv, CInv,
           \/ \E m \in Missions : ServiceStep(m)
           \/ HumanStep \/ Crash \/ Restart \/ UNCHANGED vars
    PROVE  CInv'
<1> USE DEF tables, requests
<1>1. used' = used
  BY DEF ServiceStep, LookUp, Retire, CancelPlan, ClientEnds, HumanStep, Cancel, Detach, Reserve,
         Reserved, StartClient, ClientReturns, Halt, Crash, Restart, vars
<1>2. faults' \in 0 .. MaxFaults
  <2>1. faults' = faults \/ Struck
    BY DEF ServiceStep, LookUp, Retire, CancelPlan, ClientEnds, HumanStep, Cancel, Detach, Reserve,
           Reserved, StartClient, ClientReturns, Halt, Crash, Restart, vars, Saves, Saved, NotSaved,
           Struck
  <2> QED BY <2>1, FaultsBounded DEF CInv
<1>3. ASSUME NEW m \in Missions, NEW how \in {"finish", "abort"}, Withdraws(m, how)
      PROVE  taken' \subseteq Workers \X {"finish", "abort"}
  <2>1. seances[m] \in Workers \cup {None} BY DEF SInv, Seated
  <2>2. taken' = taken \cup {<<s, how>> : s \in {seances[m]} \ {None}} BY <1>3 DEF Withdraws
  <2> QED BY <2>1, <2>2 DEF CInv
<1>4. taken' \subseteq Workers \X {"finish", "abort"}
  <2>1. CASE taken' = taken \/ taken' = {} BY <2>1 DEF CInv
  <2>2. CASE \E m \in Missions, how \in {"finish", "abort"} : Withdraws(m, how) BY <2>2, <1>3
  <2> QED BY <2>1, <2>2, MissionsAssumption
      DEF ServiceStep, LookUp, Retire, CancelPlan, ClientEnds, HumanStep, Cancel, Detach, Reserve,
          Reserved, StartClient, ClientReturns, Halt, Crash, Restart, vars
<1>5. asked' \subseteq Missions /\ unstarted' \subseteq Missions /\ halt' \in BOOLEAN
  BY DEF CInv, ServiceStep, LookUp, Retire, CancelPlan, ClientEnds, HumanStep, Cancel, Detach,
         Reserve, Reserved, StartClient, ClientReturns, Halt, Crash, Restart, vars
<1>6. clients' \in [Missions -> Holding]
  <2>1. CASE clients' = clients BY <2>1 DEF CInv
  <2>2. CASE Crash BY <2>2 DEF Crash, NoClient, Holding
  <2>3. ASSUME NEW m \in Missions, NEW h \in Holding, clients' = [clients EXCEPT ![m] = h]
        PROVE  clients' \in [Missions -> Holding]
    BY <2>3 DEF CInv
  <2>4. ASSUME NEW m \in Missions, ClientEnds(m) PROVE clients' \in [Missions -> Holding]
    <3>1. [NoClient EXCEPT !.at = "gone"] \in Holding BY DEF NoClient, Holding
    <3> QED BY <2>3, <2>4, <3>1 DEF ClientEnds
  <2>5. ASSUME NEW m \in Missions, StartClient(m) PROVE clients' \in [Missions -> Holding]
    <3>1. [NoClient EXCEPT !.at = "out"] \in Holding BY DEF NoClient, Holding
    <3> QED BY <2>3, <2>5, <3>1 DEF StartClient
  <2>6. ASSUME NEW m \in Missions, ClientReturns(m) PROVE clients' \in [Missions -> Holding]
    <3>1. [at |-> "back", took |-> seances[m]] \in Holding BY DEF SInv, Seated, Holding
    <3> QED BY <2>3, <2>6, <3>1 DEF ClientReturns
  <2> QED BY <2>1, <2>2, <2>4, <2>5, <2>6, MissionsAssumption
      DEF ServiceStep, LookUp, Retire, CancelPlan, HumanStep, Cancel, Detach, Reserve, Reserved,
          Halt, Restart, vars
<1> QED BY <1>1, <1>2, <1>4, <1>5, <1>6 DEF CInv

LEMMA AccountTyped ==
    ASSUME MInv, SInv, AInv, CInv
    PROVE  TypeOK
<1>1. tasks \in [Missions -> Stored] /\ disk \in [Missions -> Stored]
  <2>1. ASSUME NEW t \in Task, Fits(t) PROVE t \in Stored
    <3>1. PICK s \in Int, l \in Int : s = t.spent /\ l = t.limit BY DEF Task
    <3>2. 0 <= s /\ s <= l /\ l <= Steps BY <2>1, <3>1 DEF Fits
    <3>3. s \in 0 .. Steps /\ l \in 0 .. Steps BY <3>2, MissionsAssumption
    <3> QED BY <3>1, <3>3 DEF Task, Stored, States
  <2> QED BY <2>1 DEF MInv, Types, AInv, Limits
<1>2. used \in [Missions -> 0 .. Steps]
  <2>1. ASSUME NEW m \in Missions PROVE used[m] \in 0 .. Steps
    <3>1. PICK l \in Int : l = tasks[m].limit BY DEF MInv, Types, Task
    <3>2. l <= Steps /\ used[m] \in Nat /\ used[m] <= l BY <3>1 DEF AInv, Limits, Fits, Counts
    <3> QED BY <3>2, MissionsAssumption
  <2> QED BY <2>1 DEF CInv
<1>3. workers \in [Workers ->
          [at : Begun \cup {"idle", "reserved", "refused", "leaving", "ended"},
           m : Missions \cup {None}, kind : {"local", "seance", "unopened"},
           parent : Workers \cup {None}, spent : 0 .. Steps,
           outcome : {"none", "refused", "absorbed"} \cup Final]]
  <2>1. ASSUME NEW w \in Workers
        PROVE  workers[w] \in
                   [at : Begun \cup {"idle", "reserved", "refused", "leaving", "ended"},
                    m : Missions \cup {None}, kind : {"local", "seance", "unopened"},
                    parent : Workers \cup {None}, spent : 0 .. Steps,
                    outcome : {"none", "refused", "absorbed"} \cup Final]
    <3>1. workers[w] \in Attempts /\ Attempted(workers[w]) BY DEF MInv, Types, AInv
    <3>2. workers[w].spent \in 0 .. Steps
      BY <3>1, MissionsAssumption DEF Attempts, Attempted
    <3> QED BY <3>1, <3>2 DEF Attempts, Ats
  <2> QED BY <2>1 DEF MInv, Types
<1>4. /\ drivers \subseteq Clients /\ alive \in BOOLEAN /\ log \in [Missions -> SUBSET Final]
      /\ jobs \in [Missions -> Workers \cup {None}] /\ seances \in [Missions -> Workers \cup {None}]
      /\ stop \subseteq Workers /\ flagged \subseteq Missions
  BY DEF MInv, Types, SInv, Tabled, Seated, Signalled
<1> QED BY <1>1, <1>2, <1>3, <1>4 DEF CInv, TypeOK, Holding

\* The tables of the service, its requests and both copies of each mission keep their types, and
\* no mission is counted more steps than a root may take.
THEOREM MissionsTyped ==
    ASSUME RootsStart
    PROVE  Spec => []TypeOK
<1>1. Init => MInv /\ SInv /\ AInv /\ CInv
  <2>1. ASSUME Init PROVE CInv
    <3>1. NoClient \in Holding BY DEF NoClient, Holding
    <3>2. clients \in [Missions -> Holding] BY <2>1, <3>1 DEF Init
    <3>3. /\ halt \in BOOLEAN /\ taken \subseteq Workers \X {"finish", "abort"}
          /\ asked \subseteq Missions /\ unstarted \subseteq Missions
          /\ used \in [Missions -> Int] /\ faults \in 0 .. MaxFaults
      <4>1. /\ halt = FALSE /\ taken = {} /\ asked = {} /\ unstarted = {}
            /\ used = [m \in Missions |-> 0] /\ faults = 0
        BY <2>1 DEF Init
      <4>2. used \in [Missions -> Int] BY <4>1
      <4>3. 0 \in 0 .. MaxFaults BY MissionsAssumption
      <4>4. {} \subseteq Workers \X {"finish", "abort"} /\ {} \subseteq Missions OBVIOUS
      <4> QED BY <4>1, <4>2, <4>3, <4>4
    <3> QED BY <3>2, <3>3 DEF CInv
  <2> QED BY <2>1, MInvInit, SInvInit, AInvInit
<1>2. MInv /\ SInv /\ AInv /\ CInv /\ [Next]_vars => (MInv /\ SInv /\ AInv /\ CInv)'
  <2>1. ASSUME MInv, SInv, CInv, [Next]_vars PROVE CInv'
    BY <2>1, WorkerRequests, OtherRequests DEF Next
  <2> QED BY <2>1, RootsStart, MInvNext, SInvNext, AInvNext
<1>3. MInv /\ SInv /\ AInv /\ CInv => TypeOK BY AccountTyped
<1> QED BY <1>1, <1>2, <1>3, PTL DEF Spec

===============================================================================
