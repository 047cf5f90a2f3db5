--------------------------- MODULE SandboxesProofs -----------------------------
(***************************************************************************)
(* Proofs about Sandboxes, for any number of tasks, requests and machines. *)
(*                                                                         *)
(* Controllable needs to know who holds the table: a request being         *)
(* launched holds its lock and found no sandbox of its task, and only a    *)
(* request that has not read its output to the end has live processes.     *)
(* MachinesFit needs to know what the disk holds at each step of the       *)
(* thread of the reserve: a mark is only ever beside the snapshot it       *)
(* speaks of, and there is none while a snapshot is written over.          *)
(* TableTells needs only what each handle says of its own processes.       *)
(* WorkComesHome needs that the work disk of a directory has the files of  *)
(* the request that has the directory; the types, that the reserve stops   *)
(* at its target and that a level has its own kinds of processes.          *)
(***************************************************************************)
EXTENDS Sandboxes, FiniteSetTheorems, TLAPS

\* The requests, their processes and the table.
Types ==
    /\ lock \in Runs \cup {Nobody, Human}
    /\ vivantes \in [Tasks -> Runs \cup {Nobody}]
    /\ runs \in [Runs -> Requests]
    /\ DOMAIN proc = Runs
Launching == {"launching", "cold"}
Held == \A r \in Runs : runs[r].at \in Launching =>
            lock = r /\ runs[r].task \in Tasks /\ vivantes[runs[r].task] = Nobody
Listed == \A t \in Tasks : vivantes[t] # Nobody =>
              runs[vivantes[t]].task = t /\ runs[vivantes[t]].at \in Active \cup {"clearing"}
Owned(r) == runs[r].task \in Tasks /\ vivantes[runs[r].task] = r
RunningOwned == \A r \in Runs : proc[r] = "running" => runs[r].at = "up" /\ Owned(r)
LeftOwned == \A r \in left : r \in Runs /\ runs[r].at \in {"up", "reading"} /\ Owned(r)
TInv == Types /\ Held /\ Listed /\ RunningOwned /\ LeftOwned

\* The reserve.
Made(m) == made[m] = image
Ready == {ready[i] : i \in 1 .. Len(ready)}
RTypes ==
    /\ snapshot \in [of : Images \cup {None, "partial"}, mark : Images \cup {None}]
    /\ image \in Images /\ ready \in Seq(Machines) /\ making \in Machines \cup {NoMachine}
    /\ DOMAIN made = Machines /\ out \subseteq Machines
    /\ IF thread = "restoring" THEN making \in Machines ELSE making = NoMachine
Marked == snapshot.mark # None => snapshot.of = snapshot.mark
Unmarked == thread \in {"booting", "snapping", "marking"} => snapshot.mark = None
Whole == thread \in {"marking", "filling", "waiting", "restoring"} => snapshot.of = image
Reused == thread = "reusing" => snapshot.mark = image
\* No machine is in two places: ready once, taken by one request, or being restored.
Early == thread \in {"begin", "reusing", "booting", "snapping", "marking"} => ready = <<>> /\ out = {}
Apart ==
    /\ \A i, j \in 1 .. Len(ready) : ready[i] = ready[j] => i = j
    /\ \A i \in 1 .. Len(ready) : ready[i] \notin out /\ ready[i] # making
    /\ making \notin out
Based ==
    /\ \A r \in Runs : runs[r].base \in Machines => runs[r].base \in out
    /\ \A q, r \in Runs : q # r /\ runs[q].base \in Machines => runs[q].base # runs[r].base
RInv == RTypes /\ Marked /\ Unmarked /\ Whole /\ Reused /\ Early /\ Apart /\ Based /\ MachinesFit

-------------------------------------------------------------------------------
LEMMA TableAtStart == ASSUME Init PROVE TInv
BY SandboxesAssumption DEF Init, TInv, Types, Held, Listed, RunningOwned, LeftOwned, Owned, Launching,
    Idle, Requests, Nobody, NoBase, Human, None, Active

LEMMA ReserveAtStart == ASSUME Init PROVE RInv
<1>1. ready = <<>> /\ out = {} /\ thread = "begin" /\ image = Installed /\ making = NoMachine
      /\ made = [m \in Machines |-> None]
  BY DEF Init, ReserveInit
<1>2. PICK i \in Images \cup {None} : snapshot = [of |-> i, mark |-> i]
  BY DEF Init, ReserveInit
<1>3. RTypes BY <1>1, <1>2, ReserveAssumption DEF RTypes
<1>4. MachinesFit BY <1>1 DEF MachinesFit
<1>5. Apart BY <1>1, ReserveAssumption DEF Apart, NoMachine
<1>6. Based BY ReserveAssumption DEF Based, Init, Idle, NoBase
<1> QED BY <1>1, <1>2, <1>3, <1>4, <1>5, <1>6 DEF RInv, Marked, Unmarked, Whole, Reused, Early

-------------------------------------------------------------------------------
\* A request that waits is asked: refused, or launched under the lock.
LEMMA AskStep ==
    ASSUME TInv, NEW r \in Runs, NEW t \in Tasks, NEW kind \in Kinds, NEW level \in {0, 2},
           Ask(r, t, kind, level)
    PROVE  TInv'
<1>1. /\ lock = Nobody /\ runs[r].at = "idle" /\ UNCHANGED <<vivantes, left>>
  BY DEF Ask, InTurn
<1>2. PICK a \in Requests :
        /\ runs' = [runs EXCEPT ![r] = a] /\ a.task = t
        /\ \/ a.at = "answered" /\ UNCHANGED <<lock, proc>>
           \/ a.at = "launching" /\ lock' = r /\ vivantes[t] = Nobody
              /\ (proc' = proc \/ proc' = [proc EXCEPT ![r] = "booting"])
  <2> DEFINE asked == [at |-> "answered", task |-> t, kind |-> kind, level |-> level,
                       base |-> NoBase, end |-> "refused"]
             taken == [at |-> "launching", task |-> t, kind |-> kind, level |-> level,
                       base |-> NoBase, end |-> None]
  <2>1. asked \in Requests /\ taken \in Requests BY DEF Requests, Active
  <2>2. CASE vivantes[t] # Nobody
    <3>1. runs' = [runs EXCEPT ![r] = asked] /\ UNCHANGED <<lock, proc>>
      BY <2>2 DEF Ask, Idle
    <3> QED BY <2>1, <3>1
  <2>3. CASE vivantes[t] = Nobody
    <3>1. runs' = [runs EXCEPT ![r] = taken] /\ lock' = r
          /\ (proc' = proc \/ proc' = [proc EXCEPT ![r] = "booting"])
      BY <2>3 DEF Ask, Idle
    <3> QED BY <2>1, <2>3, <3>1
  <2> QED BY <2>2, <2>3
<1>3. Types' BY <1>1, <1>2 DEF TInv, Types
<1>4. \A q \in Runs \ {r} : runs'[q] = runs[q] /\ runs[q].at \notin Launching
  BY <1>1, <1>2, SandboxesAssumption DEF TInv, Types, Held, Nobody
<1>5. Held' BY <1>1, <1>2, <1>4 DEF TInv, Types, Held, Launching
<1>5a. Listed' BY <1>1, <1>2, <1>4 DEF TInv, Types, Listed, Active, Nobody
<1>6. RunningOwned' BY <1>1, <1>2, <1>4 DEF TInv, Types, RunningOwned, Owned
<1>7. LeftOwned' BY <1>1, <1>2, <1>4 DEF TInv, Types, LeftOwned, Owned
<1> QED BY <1>3, <1>5, <1>5a, <1>6, <1>7 DEF TInv

\* What is launched enters the table, which has no sandbox of its task.
LEMMA EnterStep ==
    ASSUME TInv, NEW r \in Runs, NEW b \in Bases \cup {NoBase}, runs[r].at \in Launching,
           Enters(r), UNCHANGED left,
           runs' = [runs EXCEPT ![r].at = "up", ![r].base = b]
    PROVE  TInv'
<1> DEFINE a == [runs[r] EXCEPT !.at = "up", !.base = b]
           t == runs[r].task
<1>1. /\ lock = r /\ t \in Tasks /\ vivantes[t] = Nobody
      /\ vivantes' = [vivantes EXCEPT ![t] = r] /\ lock' = Nobody
      /\ proc' = [proc EXCEPT ![r] = "running"]
  BY DEF TInv, Held, Enters
<1>2. a \in Requests /\ a.at = "up" /\ a.task = t BY DEF TInv, Types, Requests, Active
<1>3. runs' = [runs EXCEPT ![r] = a] BY DEF TInv, Types, Requests
<1> HIDE DEF a, t
<1>4. Types' BY <1>1, <1>2, <1>3 DEF TInv, Types
<1>5. /\ runs'[r] = a /\ \A q \in Runs \ {r} : runs'[q] = runs[q] /\ runs[q].at \notin Launching
      /\ runs[r].task = t
  BY <1>1, <1>3 DEF TInv, Types, Held, t
<1>6. Held' BY <1>2, <1>5 DEF Held, Launching
<1>7. Listed' BY <1>1, <1>2, <1>5 DEF TInv, Types, Listed, Active, Nobody
<1>8. RunningOwned' /\ LeftOwned'
  <2>1. \A q \in Runs \ {r} : Owned(q) => Owned(q)'
    BY <1>1, <1>5, SandboxesAssumption DEF TInv, Types, Owned, Nobody
  <2>2. Owned(r)' BY <1>1, <1>2, <1>5 DEF TInv, Types, Owned
  <2> QED BY <1>1, <1>2, <1>5, <2>1, <2>2 DEF TInv, Types, RunningOwned, LeftOwned
<1> QED BY <1>4, <1>6, <1>7, <1>8 DEF TInv

\* A launch that fails leaves nothing alive.
LEMMA FailStep ==
    ASSUME TInv, NEW r \in Runs, runs[r].at \in Launching, Fails(r), UNCHANGED left,
           proc' = proc \/ proc' = [proc EXCEPT ![r] = "reaped"]
    PROVE  TInv'
<1> DEFINE a == [runs[r] EXCEPT !.at = "answered", !.end = "failed"]
<1>0. runs[r] \in Requests BY DEF TInv, Types
<1>1. a \in Requests /\ a.at = "answered" /\ a.task = runs[r].task
  <2> DEFINE b == [runs[r] EXCEPT !.at = "answered"]
  <2>1. b \in Requests /\ b.at = "answered" /\ b.task = runs[r].task BY <1>0 DEF Requests
  <2>2. a = [b EXCEPT !.end = "failed"] BY <1>0 DEF Requests
  <2> HIDE DEF a, b
  <2> QED BY <2>1, <2>2 DEF Requests
<1>2. runs' = [runs EXCEPT ![r] = a] /\ lock' = Nobody /\ UNCHANGED vivantes
  BY DEF Fails, TInv, Types, Requests
<1> HIDE DEF a
<1>3. Types' BY <1>1, <1>2 DEF TInv, Types
<1>4. lock = r BY DEF TInv, Held
<1>5. \A q \in Runs \ {r} : runs'[q] = runs[q] /\ runs[q].at \notin Launching
  BY <1>2, <1>4 DEF TInv, Types, Held
<1>6. runs'[r] = a BY <1>2 DEF TInv, Types
<1>7. Held' BY <1>1, <1>5, <1>6 DEF Held, Launching
<1>8. runs[r].at \notin Active \cup {"clearing"} BY DEF Launching, Active
<1>9. Listed' BY <1>2, <1>5, <1>8 DEF TInv, Types, Listed, Nobody
<1>10. RunningOwned' /\ LeftOwned'
  BY <1>2, <1>5, <1>8 DEF TInv, Types, RunningOwned, LeftOwned, Owned, Active
<1> QED BY <1>3, <1>7, <1>9, <1>10 DEF TInv

\* A request on its way from one step to the next, its processes as they were or fewer, and
\* gone once its output is read.
LEMMA WayStep ==
    ASSUME TInv, NEW r \in Runs, runs[r].at \in Active, NEW a \in Requests,
           runs' = [runs EXCEPT ![r] = a], a.task = runs[r].task,
           a.at \in Active \cup {"clearing"}, UNCHANGED <<lock, vivantes>>,
           left' \subseteq left \cup {r}, DOMAIN proc' = Runs,
           \A q \in Runs : proc'[q] = "running" => proc[q] = "running",
           proc'[r] = "running" => a.at = "up",
           r \in left' => (r \in left \/ proc[r] = "running") /\ a.at \in {"up", "reading"}
    PROVE  TInv'
<1>1. Types' BY DEF TInv, Types
<1>2. runs'[r] = a /\ \A q \in Runs \ {r} : runs'[q] = runs[q] BY DEF TInv, Types
<1>3. Held' BY <1>2 DEF TInv, Held, Launching, Active
<1>4. Listed' BY <1>2 DEF TInv, Types, Listed, Nobody
<1>5. \A q \in Runs : Owned(q) => Owned(q)' BY <1>2 DEF Owned
<1>6. RunningOwned' BY <1>2, <1>5 DEF TInv, RunningOwned
<1>7. LeftOwned' BY <1>2, <1>5 DEF TInv, RunningOwned, LeftOwned
<1> QED BY <1>1, <1>3, <1>4, <1>6, <1>7 DEF TInv

-------------------------------------------------------------------------------
\* The steps of a launch: at level 0, and at level 2.
LEMMA HelperStep ==
    ASSUME TInv, NEW r \in Runs, HelperReady(r) \/ HelperDies(r)
    PROVE  TInv'
<1>1. /\ proc' = [proc EXCEPT ![r] = "ready"] \/ proc' = [proc EXCEPT ![r] = "zombie"]
      /\ UNCHANGED <<lock, vivantes, runs, left>>
  BY DEF HelperReady, HelperDies, table
<1>2. Types' BY <1>1 DEF TInv, Types
<1>3. \A q \in Runs : proc'[q] = "running" => proc[q] = "running" BY <1>1 DEF TInv, Types
<1> QED BY <1>1, <1>2, <1>3 DEF TInv, Held, Listed, RunningOwned, LeftOwned, Owned

LEMMA ReleaseStep ==
    ASSUME TInv, NEW r \in Runs, Release(r)
    PROVE  TInv'
<1>1. runs[r].at \in Launching /\ UNCHANGED left BY DEF Release, Launching
<1>2. CASE Enters(r) /\ Moves(r, "up")
  <2>1. runs[r] \in Requests BY DEF TInv, Types
  <2>2. PICK b \in Bases \cup {NoBase} : b = runs[r].base BY <2>1 DEF Requests
  <2>3. [runs[r] EXCEPT !.at = "up"] = [runs[r] EXCEPT !.at = "up", !.base = b]
    BY <2>1, <2>2 DEF Requests
  <2>4. runs' = [runs EXCEPT ![r].at = "up", ![r].base = b] BY <1>2, <2>3 DEF Moves
  <2> QED BY <1>1, <1>2, <2>4, EnterStep
<1>3. CASE Fails(r) /\ proc' = [proc EXCEPT ![r] = "reaped"]
  BY <1>1, <1>3, FailStep
<1> QED BY <1>2, <1>3 DEF Release

LEMMA WarmStep ==
    ASSUME TInv, NEW r \in Runs, Warm(r)
    PROVE  TInv'
<1>1. runs[r].at = "launching" /\ UNCHANGED left BY DEF Warm
<1>2. CASE Moves(r, "cold") /\ UNCHANGED <<lock, vivantes, proc>>
  <2> DEFINE a == [runs[r] EXCEPT !.at = "cold"]
  <2>1. a \in Requests /\ a.at = "cold" /\ a.task = runs[r].task
    BY DEF TInv, Types, Requests
  <2>2. runs' = [runs EXCEPT ![r] = a] BY <1>2 DEF Moves
  <2> HIDE DEF a
  <2>3. Types' BY <1>1, <1>2, <2>1, <2>2 DEF TInv, Types
  <2>4. runs'[r] = a /\ \A q \in Runs \ {r} : runs'[q] = runs[q] BY <2>2 DEF TInv, Types
  <2>5. Held' BY <1>1, <1>2, <2>1, <2>4 DEF TInv, Held, Launching
  <2>6. Listed' BY <1>1, <1>2, <2>4 DEF TInv, Types, Listed, Active, Nobody
  <2>7. RunningOwned' /\ LeftOwned'
    BY <1>1, <1>2, <2>4 DEF TInv, RunningOwned, LeftOwned, Owned
  <2> QED BY <2>3, <2>5, <2>6, <2>7 DEF TInv
<1>3. ASSUME NEW m \in Machines, Enters(r), Machine(r, m)
      PROVE  TInv'
  BY <1>1, <1>3, EnterStep DEF Machine, Launching, Bases
<1> QED BY <1>2, <1>3 DEF Warm

LEMMA BootColdStep ==
    ASSUME TInv, NEW r \in Runs, BootCold(r)
    PROVE  TInv'
<1>1. runs[r].at \in Launching /\ UNCHANGED left BY DEF BootCold, Launching
<1>2. CASE Enters(r) /\ Machine(r, Cold)
  BY <1>1, <1>2, EnterStep DEF Machine, Bases
<1>3. CASE Fails(r) /\ UNCHANGED proc
  BY <1>1, <1>3, FailStep
<1> QED BY <1>2, <1>3 DEF BootCold

-------------------------------------------------------------------------------
\* The command ends, and the thread of its request watches it to its end.
LEMMA ExitStep ==
    ASSUME TInv, NEW r \in Runs, Exit(r)
    PROVE  TInv'
<1> DEFINE a == [runs[r] EXCEPT !.end = "exited"]
<1>1. proc[r] = "running" /\ runs[r].at = "up" /\ runs[r] \in Requests
  BY DEF Exit, TInv, Types, RunningOwned
<1>2. a \in Requests /\ a.at = "up" /\ a.task = runs[r].task BY <1>1 DEF Requests
<1>3. /\ runs' = [runs EXCEPT ![r] = a] /\ proc' = [proc EXCEPT ![r] = "zombie"]
      /\ left' \subseteq left \cup {r} /\ UNCHANGED <<lock, vivantes>>
  BY DEF Exit, table
<1> HIDE DEF a
<1>4. /\ DOMAIN proc' = Runs /\ proc'[r] # "running"
      /\ \A q \in Runs : proc'[q] = "running" => proc[q] = "running"
  BY <1>3 DEF TInv, Types
<1>5. runs[r].at \in Active /\ a.at \in Active \cup {"clearing"} BY <1>1, <1>2 DEF Active
<1> QED BY <1>1, <1>2, <1>3, <1>4, <1>5, WayStep

LEMMA PollStep ==
    ASSUME TInv, NEW r \in Runs, Poll(r)
    PROVE  TInv'
<1> DEFINE e == IF runs[r].end = None THEN "killed" ELSE runs[r].end
           b == [runs[r] EXCEPT !.at = "reading"]
           a == [b EXCEPT !.end = e]
<1>1. runs[r].at = "up" /\ runs[r] \in Requests BY DEF Poll, TInv, Types
<1>2. b \in Requests /\ b.at = "reading" /\ b.task = runs[r].task
  BY <1>1 DEF Requests, Active
<1>3. e \in {None, "refused", "failed", "exited", "killed", "lost"} BY <1>1 DEF Requests
<1>4. a = [runs[r] EXCEPT !.at = "reading", !.end = e] BY <1>1 DEF Requests
<1>5. runs' = [runs EXCEPT ![r] = a] BY <1>1, <1>4 DEF Poll, TInv, Types
<1> HIDE DEF b, e
<1>6. a \in Requests /\ a.at = "reading" /\ a.task = runs[r].task BY <1>2, <1>3 DEF Requests
<1> HIDE DEF a
<1>7. /\ left' \subseteq left /\ DOMAIN proc' = Runs /\ proc'[r] # "running"
      /\ \A q \in Runs : proc'[q] = "running" => proc[q] = "running"
      /\ UNCHANGED <<lock, vivantes>>
  BY DEF Poll, Killed, TInv, Types, table
<1>8. runs[r].at \in Active /\ a.at \in Active \cup {"clearing"} BY <1>1, <1>6 DEF Active
<1> QED BY <1>5, <1>6, <1>7, <1>8, WayStep

LEMMA GoesOn ==
    ASSUME TInv, NEW r \in Runs, r \notin left, runs[r].at \in Active \ {"up"}, NEW a \in Requests,
           runs' = [runs EXCEPT ![r] = a], a.task = runs[r].task,
           a.at \in {"fetching", "removing", "clearing"}, UNCHANGED <<lock, vivantes, proc, left>>
    PROVE  TInv'
<1>1. proc[r] # "running" BY DEF TInv, RunningOwned, Active
<1>2. a.at \in Active \cup {"clearing"} BY DEF Active
<1>3. DOMAIN proc' = Runs BY DEF TInv, Types
<1> QED BY <1>1, <1>2, <1>3, WayStep

LEMMA WatchStep ==
    ASSUME TInv, NEW r \in Runs, Read(r) \/ Fetch(r) \/ Remove(r)
    PROVE  TInv'
<1>1. runs[r] \in Requests BY DEF TInv, Types
<1>2. CASE Read(r)
  <2> DEFINE next == IF runs[r].level = 2 THEN "fetching" ELSE "clearing"
             a == [runs[r] EXCEPT !.at = next]
  <2>1. a \in Requests /\ a.task = runs[r].task /\ a.at \in {"fetching", "clearing"}
    BY <1>1 DEF Requests, Active
  <2>2. /\ runs' = [runs EXCEPT ![r] = a] /\ UNCHANGED <<lock, vivantes, proc, left>>
        /\ r \notin left /\ runs[r].at \in Active \ {"up"}
    BY <1>2 DEF Read, Moves, table, Active
  <2> HIDE DEF a
  <2> QED BY <2>1, <2>2, GoesOn
<1>3. CASE Fetch(r)
  <2> DEFINE a == [runs[r] EXCEPT !.at = "removing"]
  <2>1. a \in Requests /\ a.task = runs[r].task /\ a.at = "removing" BY <1>1 DEF Requests, Active
  <2>2. /\ runs' = [runs EXCEPT ![r] = a] /\ UNCHANGED <<lock, vivantes, proc, left>>
        /\ r \notin left /\ runs[r].at \in Active \ {"up"}
    BY <1>3 DEF Fetch, Moves, table, Active, TInv, LeftOwned
  <2> HIDE DEF a
  <2> QED BY <2>1, <2>2, GoesOn
<1>4. CASE Remove(r)
  <2> DEFINE b == [runs[r] EXCEPT !.at = "clearing"]
             a == [runs[r] EXCEPT !.at = "clearing", !.base = NoBase]
  <2>1. b \in Requests /\ b.task = runs[r].task /\ b.at = "clearing" BY <1>1 DEF Requests, Active
  <2>2. a = [b EXCEPT !.base = NoBase] BY <1>1 DEF Requests
  <2>3. /\ runs' = [runs EXCEPT ![r] = a] /\ UNCHANGED <<lock, vivantes, proc, left>>
        /\ r \notin left /\ runs[r].at \in Active \ {"up"}
    BY <1>4 DEF Remove, table, Active, TInv, Types, LeftOwned
  <2> HIDE DEF a, b
  <2>4. a \in Requests /\ a.task = runs[r].task /\ a.at = "clearing" BY <2>1, <2>2 DEF Requests
  <2> QED BY <2>3, <2>4, GoesOn
<1> QED BY <1>2, <1>3, <1>4

\* What is cleared has no live process.
LEMMA ClearStep ==
    ASSUME TInv, NEW r \in Runs, Clear(r)
    PROVE  TInv'
<1> DEFINE a == [runs[r] EXCEPT !.at = "answered"]
           t == runs[r].task
<1>1. lock = Nobody /\ runs[r].at = "clearing" /\ runs[r] \in Requests BY DEF Clear, TInv, Types
<1>2. a \in Requests /\ a.at = "answered" BY <1>1 DEF Requests
<1>3. runs' = [runs EXCEPT ![r] = a] /\ UNCHANGED <<lock, proc, left>> BY DEF Clear, Moves
<1>4. vivantes' = [vivantes EXCEPT ![t] = IF @ = r THEN Nobody ELSE @] BY DEF Clear
<1> HIDE DEF a
<1>5. /\ runs'[r] = a /\ \A q \in Runs \ {r} : runs'[q] = runs[q]
      /\ \A q \in Runs : runs[q].at \notin Launching
  BY <1>1, <1>3, SandboxesAssumption DEF TInv, Types, Held, Nobody
<1>6. \A u \in Tasks : /\ vivantes'[u] # Nobody => vivantes'[u] = vivantes[u]
                       /\ vivantes'[u] # vivantes[u] => vivantes[u] = r
                       /\ vivantes'[u] # r \/ u # t
  BY <1>4, SandboxesAssumption DEF TInv, Types, Nobody
<1>7. Types' BY <1>2, <1>3, <1>4 DEF TInv, Types
<1>8. Held' BY <1>2, <1>5 DEF Held, Launching
<1>9. Listed'
  <2> SUFFICES ASSUME NEW u \in Tasks, vivantes'[u] # Nobody
               PROVE  /\ runs'[vivantes'[u]].task = u
                      /\ runs'[vivantes'[u]].at \in Active \cup {"clearing"}
    BY DEF Listed
  <2>1. vivantes'[u] = vivantes[u] /\ vivantes[u] # Nobody /\ vivantes[u] \in Runs
    BY <1>6 DEF TInv, Types
  <2>2. runs[vivantes[u]].task = u /\ runs[vivantes[u]].at \in Active \cup {"clearing"}
    BY <2>1 DEF TInv, Listed
  <2>3. vivantes[u] # r BY <1>6, <2>1, <2>2
  <2> QED BY <1>5, <2>1, <2>2, <2>3
<1>10. \A q \in Runs : runs[q].at # "clearing" /\ Owned(q) => Owned(q)' /\ q # r
  BY <1>1, <1>5, <1>6 DEF Owned
<1>11. RunningOwned' BY <1>3, <1>5, <1>10 DEF TInv, RunningOwned
<1>12. LeftOwned' BY <1>3, <1>5, <1>10 DEF TInv, LeftOwned
<1> QED BY <1>7, <1>8, <1>9, <1>11, <1>12 DEF TInv

-------------------------------------------------------------------------------
\* What is killed leaves the table, and nothing of it executes any more.
LEMMA KillStep ==
    ASSUME TInv, NEW t \in Tasks, Kill(t)
    PROVE  TInv'
<1> DEFINE r == vivantes[t]
           at == IF runs[r].kind = "start" THEN "answered" ELSE runs[r].at
           e == IF runs[r].end = None THEN "killed" ELSE runs[r].end
           b == [runs[r] EXCEPT !.at = at]
           a == [b EXCEPT !.end = e]
<1>1. /\ lock = Nobody /\ r # Nobody /\ r \in Runs /\ runs[r] \in Requests
      /\ runs[r].task = t /\ runs[r].at \in Active \cup {"clearing"}
  BY DEF Kill, TInv, Types, Listed
<1>2. b \in Requests /\ b.task = t /\ b.at \in Active \cup {"clearing", "answered"}
  BY <1>1 DEF Requests, Active
<1>3. e \in {None, "refused", "failed", "exited", "killed", "lost"} BY <1>1 DEF Requests
<1>4. a = [runs[r] EXCEPT !.at = at, !.end = e] BY <1>1 DEF Requests
<1>5. runs' = [runs EXCEPT ![r] = a] BY <1>1, <1>4 DEF Kill, TInv, Types
<1> HIDE DEF at, e, b
<1>6. a \in Requests /\ a.task = t /\ a.at \in Active \cup {"clearing", "answered"}
  BY <1>2, <1>3 DEF Requests
<1> HIDE DEF a
<1>7. /\ vivantes' = [vivantes EXCEPT ![t] = Nobody] /\ UNCHANGED lock
      /\ proc' = [proc EXCEPT ![r] = IF @ = "running" THEN "zombie" ELSE @] /\ left' = left \ {r}
  BY DEF Kill, Killed
<1>8. /\ runs'[r] = a /\ \A q \in Runs \ {r} : runs'[q] = runs[q]
      /\ \A q \in Runs : runs[q].at \notin Launching
  BY <1>1, <1>5, SandboxesAssumption DEF TInv, Types, Held, Nobody
<1>9. Types' BY <1>5, <1>6, <1>7 DEF TInv, Types
<1>10. Held' BY <1>6, <1>8 DEF Held, Launching, Active
<1>11. \A u \in Tasks \ {t} : vivantes'[u] = vivantes[u] /\ (vivantes[u] # Nobody => vivantes[u] # r)
  BY <1>1, <1>7 DEF TInv, Types, Listed
<1>12. Listed' BY <1>7, <1>8, <1>11 DEF TInv, Types, Listed
<1>13. \A q \in Runs \ {r} : Owned(q) => Owned(q)'
  BY <1>1, <1>8, <1>11 DEF Owned
<1>14. RunningOwned' BY <1>7, <1>8, <1>13 DEF TInv, Types, RunningOwned
<1>15. LeftOwned' BY <1>7, <1>8, <1>13 DEF TInv, LeftOwned
<1> QED BY <1>9, <1>10, <1>12, <1>14, <1>15 DEF TInv

\* freeze_all holds the lock, and changes nothing else of the table.
LEMMA SweepStep ==
    ASSUME TInv, lock \in {Nobody, Human}, lock' \in {Nobody, Human},
           UNCHANGED <<vivantes, runs, proc, left>>
    PROVE  TInv'
<1>1. \A r \in Runs : runs[r].at \notin Launching
  BY SandboxesAssumption DEF TInv, Held, Nobody, Human
<1>2. Types' BY DEF TInv, Types
<1> QED BY <1>1, <1>2 DEF TInv, Held, Listed, RunningOwned, LeftOwned, Owned

\* A child left behind goes on, or ends.
LEMMA ChildStep ==
    ASSUME TInv, NEW r \in Runs, ChildGoesOn(r)
    PROVE  TInv'
<1>1. UNCHANGED <<lock, vivantes, runs, proc>> /\ left' \subseteq left
  BY DEF ChildGoesOn, table
<1> QED BY <1>1 DEF TInv, Types, Held, Listed, RunningOwned, LeftOwned, Owned

\* Nothing outlives the service.
LEMMA RestartStep ==
    ASSUME TInv, Restart
    PROVE  TInv'
<1>1. /\ lock' = Nobody /\ vivantes' = [t \in Tasks |-> Nobody]
      /\ proc' = [r \in Runs |-> "none"] /\ left' = {}
  BY DEF Restart
<1>2. \A r \in Runs : runs'[r] \in Requests /\ runs'[r].at \in {"idle", "answered"}
  <2> SUFFICES ASSUME NEW r \in Runs
               PROVE  runs'[r] \in Requests /\ runs'[r].at \in {"idle", "answered"}
    OBVIOUS
  <2>1. runs[r] \in Requests BY DEF TInv, Types
  <2> DEFINE over == runs[r].at \in {"idle", "answered"}
             at == IF runs[r].at = "idle" THEN "idle" ELSE "answered"
             e == IF over THEN runs[r].end ELSE "lost"
             a == [runs[r] EXCEPT !.base = NoBase]
             b == [a EXCEPT !.at = at]
             c == [b EXCEPT !.end = e]
  <2>2. c = [runs[r] EXCEPT !.base = NoBase, !.at = at, !.end = e] BY <2>1 DEF Requests
  <2>3. runs'[r] = c BY <2>1, <2>2 DEF Restart, Requests
  <2>4. e \in {None, "refused", "failed", "exited", "killed", "lost"} BY <2>1 DEF Requests
  <2>5. at \in {"idle", "answered"} OBVIOUS
  <2>6. a \in Requests BY <2>1 DEF Requests
  <2> HIDE DEF a, at, e
  <2>7. b \in Requests /\ b.at \in {"idle", "answered"} BY <2>5, <2>6 DEF Requests
  <2> HIDE DEF b
  <2>8. c \in Requests /\ c.at \in {"idle", "answered"} BY <2>4, <2>7 DEF Requests
  <2> QED BY <2>3, <2>8
<1>3. runs' \in [Runs -> Requests] BY <1>2 DEF Restart
<1>4. Types' BY <1>1, <1>3 DEF Types
<1> QED BY <1>1, <1>2, <1>4 DEF TInv, Held, Listed, RunningOwned, LeftOwned, Launching

LEMMA TableStep ==
    ASSUME TInv, [Next]_vars
    PROVE  TInv'
<1>1. CASE Reserves
  <2> UNCHANGED <<lock, vivantes, runs, proc, left>> BY <1>1 DEF Reserves, table
  <2> QED BY DEF TInv, Types, Held, Listed, RunningOwned, LeftOwned, Owned
<1>2. CASE \E r \in Runs, t \in Tasks, kind \in Kinds, level \in {0, 2} : Ask(r, t, kind, level)
  BY <1>2, AskStep
<1>3. ASSUME NEW r \in Runs, Launch(r) \/ HelperDies(r) \/ Exit(r) \/ Watch(r) \/ Clear(r)
      PROVE  TInv'
  BY <1>3, HelperStep, ReleaseStep, WarmStep, BootColdStep, ExitStep, PollStep, WatchStep, ClearStep
  DEF Launch, Watch
<1>4. ASSUME NEW t \in Tasks, Freeze(t) \/ Thaw(t)
      PROVE  TInv'
  <2> UNCHANGED <<lock, vivantes, runs, proc, left>> BY <1>4 DEF Freeze, Thaw, table
  <2> QED BY DEF TInv, Types, Held, Listed, RunningOwned, LeftOwned, Owned
<1>5. ASSUME NEW t \in Tasks, Kill(t)
      PROVE  TInv'
  BY <1>5, KillStep
<1>6. ASSUME NEW t \in Tasks, Sweep(t)
      PROVE  TInv'
  BY <1>6, SweepStep DEF Sweep
<1>7. CASE FreezeAll BY <1>7, SweepStep DEF FreezeAll
<1>8. CASE Restart BY <1>8, RestartStep
<1>9. CASE UNCHANGED vars
  <2> UNCHANGED <<lock, vivantes, runs, proc, left>> BY <1>9 DEF vars, table
  <2> QED BY DEF TInv, Types, Held, Listed, RunningOwned, LeftOwned, Owned
<1>10. ASSUME NEW r \in Runs, ChildGoesOn(r)
       PROVE  TInv'
  BY <1>10, ChildStep
<1> QED BY <1>1, <1>2, <1>3, <1>4, <1>5, <1>6, <1>7, <1>8, <1>9, <1>10 DEF Next

\* A child left behind is one of a command that ended by itself, and is dead or out of reach
\* only once the request of that command is answered.
Behind == left \cup strays
Placed(r) ==
    /\ runs[r].end = "exited" /\ proc[r] # "running"
    /\ Owned(r) \/ (runs[r].at = "answered" /\ r \notin left)
BehindPlaced == Behind \subseteq Runs /\ \A r \in Behind : Placed(r)

\* A step of one request, that takes no other from its place and starts no other process.
LEMMA BehindOne ==
    ASSUME BehindPlaced, NEW r \in Runs, \A q \in Runs \ {r} : runs'[q] = runs[q],
           \A q \in Runs \ {r} : proc'[q] = "running" => proc[q] = "running",
           \A q \in Runs \ {r} : Owned(q) => Owned(q)',
           Behind' \subseteq Behind \cup {r}, left' \subseteq left \cup {r},
           r \in Behind' => Placed(r)'
    PROVE  BehindPlaced'
<1>1. \A q \in Behind' \ {r} : q \in Behind /\ q \in Runs /\ Placed(q) BY DEF BehindPlaced
<1>2. \A q \in Behind' \ {r} : Placed(q)' BY <1>1 DEF Placed
<1> QED BY <1>1, <1>2 DEF BehindPlaced

\* A step that moves nothing on the table.
LEMMA BehindKept ==
    ASSUME BehindPlaced, UNCHANGED <<vivantes, runs, proc>>, Behind' \subseteq Behind, left' \subseteq left
    PROVE  BehindPlaced'
BY DEF BehindPlaced, Placed, Owned

\* What is asked or launched has left nothing behind, and takes no other's place.
LEMMA BehindLaunch ==
    ASSUME TInv, BehindPlaced, NEW r \in Runs,
           \/ \E t \in Tasks, kind \in Kinds, level \in {0, 2} : Ask(r, t, kind, level)
           \/ Release(r) \/ Warm(r) \/ BootCold(r)
    PROVE  BehindPlaced'
<1>1. runs[r].at \in Launching \cup {"idle"} /\ UNCHANGED <<left, strays>>
  BY DEF Ask, InTurn, Release, Warm, BootCold, Launching
<1>2. ~Owned(r)
  BY <1>1, SandboxesAssumption DEF SandboxesAssumption, TInv, Types, Listed, Owned, Launching, Active, Nobody
<1>3. r \notin Behind BY <1>1, <1>2 DEF BehindPlaced, Placed, Launching
<1>4. \A q \in Runs \ {r} : runs'[q] = runs[q]
  BY DEF Ask, Release, Warm, BootCold, Fails, Moves, Machine, TInv, Types
<1>5. \A q \in Runs \ {r} : proc'[q] = "running" => proc[q] = "running"
  BY DEF Ask, Release, Warm, BootCold, Enters, Fails, TInv, Types
<1>6. \/ UNCHANGED vivantes
      \/ runs[r].at \in Launching /\ vivantes' = [vivantes EXCEPT ![runs[r].task] = r]
  BY DEF Ask, Release, Warm, BootCold, Enters, Fails, Launching
<1>7. \A q \in Runs \ {r} : Owned(q) => Owned(q)'
  <2>1. CASE UNCHANGED vivantes BY <1>4, <2>1 DEF Owned
  <2>2. CASE runs[r].at \in Launching /\ vivantes' = [vivantes EXCEPT ![runs[r].task] = r]
    <3>1. runs[r].task \in Tasks /\ vivantes[runs[r].task] = Nobody BY <2>2 DEF TInv, Held
    <3>2. \A q \in Runs : q # Nobody BY SandboxesAssumption DEF Nobody
    <3>3. \A q \in Runs \ {r} : Owned(q) => runs[q].task # runs[r].task BY <3>1, <3>2 DEF Owned
    <3> QED BY <1>4, <2>2, <3>3 DEF Owned, TInv, Types
  <2> QED BY <1>6, <2>1, <2>2
<1> QED BY <1>1, <1>3, <1>4, <1>5, <1>7, BehindOne DEF Behind

\* The command ends, and the thread of its request watches it to its end.
LEMMA BehindWatch ==
    ASSUME TInv, BehindPlaced, NEW r \in Runs, Exit(r) \/ Watch(r) \/ Clear(r)
    PROVE  BehindPlaced'
<1>1. runs \in [Runs -> Requests] /\ DOMAIN proc = Runs BY DEF TInv, Types
<1>2. \A q \in Runs \ {r} : runs'[q] = runs[q]
  BY <1>1 DEF Exit, Watch, Poll, Read, Fetch, Remove, Clear, Moves
<1>3. \A q \in Runs : proc'[q] = "running" => proc[q] = "running"
  BY <1>1 DEF Exit, Watch, Poll, Killed, Read, Fetch, Remove, Clear
<1>4. \A q \in Runs \ {r} : Owned(q) => Owned(q)'
  <2>1. CASE UNCHANGED vivantes BY <1>2, <2>1 DEF Owned
  <2>2. CASE Clear(r)
    <3>1. vivantes' = [vivantes EXCEPT ![runs[r].task] = IF @ = r THEN Nobody ELSE @]
      BY <2>2 DEF Clear
    <3>2. \A u \in Tasks : vivantes[u] # r => vivantes'[u] = vivantes[u] BY <3>1 DEF TInv, Types
    <3> QED BY <1>2, <3>2 DEF Owned
  <2> QED BY <2>1, <2>2 DEF Exit, Watch, Poll, Read, Fetch, Remove, table
<1>5. CASE Exit(r)
  <2>1. Owned(r) /\ runs'[r].end = "exited" /\ runs'[r].task = runs[r].task /\ proc'[r] = "zombie"
        /\ UNCHANGED vivantes
    BY <1>1, <1>5 DEF Exit, Requests, TInv, RunningOwned, table
  <2>2. Placed(r)' BY <2>1 DEF Placed, Owned
  <2>3. Behind' \subseteq Behind \cup {r} /\ left' \subseteq left \cup {r} BY <1>5 DEF Exit, Behind
  <2> QED BY <1>2, <1>3, <1>4, <2>2, <2>3, BehindOne
<1>6. CASE Watch(r)
  <2>1. /\ runs'[r].task = runs[r].task /\ (runs[r].end = "exited" => runs'[r].end = "exited")
        /\ runs[r].at # "answered" /\ UNCHANGED vivantes
        /\ left' \subseteq left /\ strays' \subseteq strays
    <3>1. CASE Poll(r)
      <4>1. runs' = [runs EXCEPT ![r].at = "reading",
                                 ![r].end = IF runs[r].end = None THEN "killed" ELSE runs[r].end]
        BY <1>1, <3>1 DEF Poll, Requests
      <4> QED BY <1>1, <3>1, <4>1 DEF Poll, Killed, Requests, table, None
    <3>2. CASE Read(r) \/ Fetch(r) \/ Remove(r)
      BY <1>1, <3>2 DEF Read, Fetch, Remove, Moves, Requests, table
    <3> QED BY <1>6, <3>1, <3>2 DEF Watch
  <2>2. r \in Behind' => Placed(r)' BY <1>3, <2>1 DEF Behind, BehindPlaced, Placed, Owned
  <2>3. Behind' \subseteq Behind BY <2>1 DEF Behind
  <2> QED BY <1>2, <1>3, <1>4, <2>1, <2>2, <2>3, BehindOne
<1>7. CASE Clear(r)
  <2>1. /\ runs'[r].end = runs[r].end /\ runs'[r].at = "answered" /\ runs[r].at = "clearing"
        /\ UNCHANGED <<left, strays, proc>>
    BY <1>1, <1>7 DEF Clear, Moves, Requests
  <2>2. r \notin left' BY <2>1 DEF TInv, LeftOwned
  <2>3. r \in Behind' => Placed(r)' BY <2>1, <2>2 DEF Behind, BehindPlaced, Placed
  <2> QED BY <1>2, <1>3, <1>4, <2>1, <2>3, BehindOne DEF Behind
<1> QED BY <1>5, <1>6, <1>7

\* What is killed leaves nothing behind.
LEMMA BehindKill ==
    ASSUME TInv, BehindPlaced, NEW t \in Tasks, Kill(t)
    PROVE  BehindPlaced'
<1>1. PICK r \in Runs : r = vivantes[t] BY DEF Kill, TInv, Types
<1>2. /\ vivantes' = [vivantes EXCEPT ![t] = Nobody] /\ left' = left \ {r} /\ strays' = strays \ {r}
      /\ proc' = [proc EXCEPT ![r] = IF @ = "running" THEN "zombie" ELSE @]
  BY <1>1 DEF Kill, Killed
<1>3. \A q \in Runs \ {r} : runs'[q] = runs[q] /\ (proc'[q] = "running" => proc[q] = "running")
  BY <1>1, <1>2 DEF Kill, TInv, Types
<1>4. \A q \in Runs \ {r} : Owned(q) => Owned(q)'
  BY <1>1, <1>2, <1>3 DEF Owned, TInv, Types
<1> QED BY <1>2, <1>3, <1>4, BehindOne DEF Behind

LEMMA BehindStep ==
    ASSUME TInv, BehindPlaced, [Next]_vars
    PROVE  BehindPlaced'
<1>1. ASSUME NEW r \in Runs, HelperReady(r) \/ HelperDies(r)
      PROVE  BehindPlaced'
  <2>1. /\ proc' = [proc EXCEPT ![r] = "ready"] \/ proc' = [proc EXCEPT ![r] = "zombie"]
        /\ UNCHANGED <<vivantes, runs, left, strays>>
    BY <1>1 DEF HelperReady, HelperDies, table
  <2> QED BY <2>1 DEF BehindPlaced, Behind, Placed, Owned, TInv, Types
<1>2. ASSUME NEW r \in Runs, ChildGoesOn(r)
      PROVE  BehindPlaced'
  BY <1>2, BehindKept DEF ChildGoesOn, table, Behind
<1>3. CASE Reserves \/ FreezeAll \/ UNCHANGED vars
  BY <1>3, BehindKept DEF Reserves, FreezeAll, vars, table, Behind
<1>4. ASSUME NEW t \in Tasks, Freeze(t) \/ Thaw(t) \/ Sweep(t)
      PROVE  BehindPlaced'
  BY <1>4, BehindKept DEF Freeze, Thaw, Sweep, table, Behind
<1>5. CASE Restart BY <1>5 DEF Restart, BehindPlaced, Behind
<1> QED
  BY <1>1, <1>2, <1>3, <1>4, <1>5, BehindLaunch, BehindWatch, BehindKill DEF Next, Launch

\* Whatever executes is on the table, under its own task, whatever the number of requests and
\* tasks: freeze, kill and freeze_all reach it (manager.rs), but for a child that a command left
\* behind with its output closed, once the request of that command is answered.
THEOREM SandboxesAreControllable == Spec => []Controllable
<1>1. TInv /\ BehindPlaced => Controllable
  BY DEF TInv, RunningOwned, BehindPlaced, Behind, Placed, Owned, Controllable, Executes
<1>2. Init => TInv /\ BehindPlaced
  BY TableAtStart DEF Init, BehindPlaced, Behind
<1> QED BY <1>1, <1>2, TableStep, BehindStep, PTL DEF Spec

-------------------------------------------------------------------------------
(* The reserve.                                                            *)

\* A sequence without repetition, its head, and the rest.
LEMMA HeadLeaves ==
    ASSUME NEW S, NEW s \in Seq(S), s # <<>>, \A i, j \in 1 .. Len(s) : s[i] = s[j] => i = j
    PROVE  /\ Head(s) \in S /\ Head(s) = s[1] /\ 1 \in 1 .. Len(s) /\ Tail(s) \in Seq(S)
           /\ \A i \in 1 .. Len(Tail(s)) : i + 1 \in 1 .. Len(s) /\ Tail(s)[i] = s[i + 1]
           /\ \A i \in 1 .. Len(Tail(s)) : Tail(s)[i] # Head(s)
           /\ \A i, j \in 1 .. Len(Tail(s)) : Tail(s)[i] = Tail(s)[j] => i = j
<1>1. Len(s) \in Nat /\ Len(s) # 0 OBVIOUS
<1>2. Head(s) = s[1] /\ 1 \in 1 .. Len(s) /\ s[1] \in S /\ Tail(s) \in Seq(S) /\ Len(Tail(s)) = Len(s) - 1
  BY <1>1
<1>3. \A i \in 1 .. Len(Tail(s)) : i \in Int /\ i + 1 \in 1 .. Len(s) /\ Tail(s)[i] = s[i + 1] /\ i + 1 # 1
  BY <1>1, <1>2
<1>4. \A i \in 1 .. Len(Tail(s)) : Tail(s)[i] # Head(s) BY <1>2, <1>3
<1>5. \A i, j \in 1 .. Len(Tail(s)) : Tail(s)[i] = Tail(s)[j] => i = j
  <2> SUFFICES ASSUME NEW i \in 1 .. Len(Tail(s)), NEW j \in 1 .. Len(Tail(s)), Tail(s)[i] = Tail(s)[j]
               PROVE  i = j
    OBVIOUS
  <2>1. s[i + 1] = s[j + 1] /\ i + 1 \in 1 .. Len(s) /\ j + 1 \in 1 .. Len(s) /\ i \in Int /\ j \in Int
    BY <1>3
  <2>2. i + 1 = j + 1 BY <2>1
  <2> QED BY <2>1, <2>2
<1> QED BY <1>2, <1>3, <1>4, <1>5

\* A step that leaves the reserve to its thread, and gives no machine to a request.
LEMMA ReserveKept ==
    ASSUME RInv, UNCHANGED <<image, snapshot, thread, making, ready, out, made>>,
           \A r \in Runs : runs'[r].base = runs[r].base \/ runs'[r].base \notin Machines
    PROVE  RInv'
<1>1. Based'
  <2>1. \A r \in Runs : runs'[r].base \in Machines => runs'[r].base = runs[r].base OBVIOUS
  <2> QED BY <2>1 DEF RInv, Based
<1> QED BY <1>1 DEF RInv, RTypes, Marked, Unmarked, Whole, Reused, Early, Apart, MachinesFit

\* prendre, for a request or for nobody when the machine refuses.
LEMMA MachineTaken ==
    ASSUME RInv, NEW m, ready # <<>>, m = Head(ready), ready' = Tail(ready),
           thread' = IF thread = "waiting" THEN "filling" ELSE thread,
           UNCHANGED <<image, snapshot, making, made>>,
           \/ /\ out' = out
              /\ \A r \in Runs : runs'[r].base = runs[r].base
           \/ /\ out' = out \cup {m}
              /\ \E p \in Runs : \A r \in Runs : runs'[r].base = IF r = p THEN m ELSE runs[r].base
    PROVE  RInv'
<1>1. ready \in Seq(Machines) /\ \A i, j \in 1 .. Len(ready) : ready[i] = ready[j] => i = j
  BY DEF RInv, RTypes, Apart
<1>2. /\ m \in Machines /\ m = ready[1] /\ 1 \in 1 .. Len(ready) /\ ready' \in Seq(Machines)
      /\ \A i \in 1 .. Len(ready') : i + 1 \in 1 .. Len(ready) /\ ready'[i] = ready[i + 1]
      /\ \A i \in 1 .. Len(ready') : ready'[i] # m
      /\ \A i, j \in 1 .. Len(ready') : ready'[i] = ready'[j] => i = j
  <2> DEFINE rest == Tail(ready)
  <2>1. /\ Head(ready) \in Machines /\ Head(ready) = ready[1] /\ 1 \in 1 .. Len(ready)
        /\ rest \in Seq(Machines)
        /\ \A i \in 1 .. Len(rest) : i + 1 \in 1 .. Len(ready) /\ rest[i] = ready[i + 1]
        /\ \A i \in 1 .. Len(rest) : rest[i] # Head(ready)
        /\ \A i, j \in 1 .. Len(rest) : rest[i] = rest[j] => i = j
    BY <1>1, HeadLeaves
  <2>2. ready' = rest OBVIOUS
  <2> HIDE DEF rest
  <2> QED BY <2>1, <2>2
<1>3. out' \subseteq out \cup {m} /\ m \notin out /\ m # making /\ out \subseteq Machines
  BY <1>2 DEF RInv, Apart, RTypes
<1>4. RTypes' BY <1>2, <1>3 DEF RInv, RTypes
<1>5. Marked' /\ Unmarked' /\ Whole' /\ Reused'
  BY DEF RInv, Marked, Unmarked, Whole, Reused
<1>6. Early' BY DEF RInv, Early
<1>7. Apart' BY <1>2, <1>3 DEF RInv, Apart
<1>8. Based'
  <2>1. CASE out' = out /\ \A r \in Runs : runs'[r].base = runs[r].base
    BY <2>1 DEF RInv, Based
  <2>2. ASSUME out' = out \cup {m}, NEW p \in Runs,
               \A r \in Runs : runs'[r].base = IF r = p THEN m ELSE runs[r].base
        PROVE  Based'
    <3>1. \A r \in Runs : runs[r].base \in Machines => runs[r].base \in out /\ runs[r].base # m
      BY <1>3 DEF RInv, Based
    <3>2. \A r \in Runs : runs[r].base # m BY <3>1, <1>2
    <3> QED BY <2>2, <3>1, <3>2 DEF RInv, Based
  <2> QED BY <2>1, <2>2
<1>9. MachinesFit'
  <2>1. \A n \in out \cup {ready[i] : i \in 1 .. Len(ready)} : made[n] = image
    BY DEF RInv, MachinesFit
  <2>2. \A n \in out' : n \in out \/ n = ready[1] BY <1>2, <1>3
  <2>3. \A i \in 1 .. Len(ready') : \E j \in 1 .. Len(ready) : ready'[i] = ready[j] BY <1>2
  <2> QED BY <1>2, <2>1, <2>2, <2>3 DEF MachinesFit
<1> QED BY <1>4, <1>5, <1>6, <1>7, <1>8, <1>9 DEF RInv

\* The machine that is numbered is used by nobody.
LEMMA NumberedUnused ==
    ASSUME NEW m, Numbered(m)
    PROVE  m \in Machines /\ m \notin out /\ \A i \in 1 .. Len(ready) : ready[i] # m
BY DEF Numbered, Unused

\* The first machine, restored from a snapshot of what is installed.
LEMMA FirstMachine ==
    ASSUME RInv, UNCHANGED <<image, making, out, runs>>, out = {}, making = NoMachine,
           NEW m \in Machines, ready' = <<m>>, made' = [made EXCEPT ![m] = image],
           thread' = "filling", snapshot'.of = image, snapshot'.mark \in {None, image},
           snapshot' \in [of : Images \cup {None, "partial"}, mark : Images \cup {None}]
    PROVE  RInv'
<1>1. made'[m] = image /\ DOMAIN made' = Machines /\ m # NoMachine
  BY ReserveAssumption DEF RInv, RTypes, NoMachine
<1>2. ready' \in Seq(Machines) /\ Len(ready') = 1 /\ \A i \in 1 .. Len(ready') : i = 1 /\ ready'[i] = m
  OBVIOUS
<1>3. RTypes' BY <1>1, <1>2 DEF RInv, RTypes
<1>4. Apart' BY <1>1, <1>2 DEF RInv, Apart
<1>5. MachinesFit' BY <1>1, <1>2 DEF MachinesFit
<1>6. Based' BY DEF RInv, Based
<1> QED BY <1>3, <1>4, <1>5, <1>6 DEF RInv, Marked, Unmarked, Whole, Reused, Early

\* The thread goes on, and no machine is made.
LEMMA ThreadStep ==
    ASSUME RInv, UNCHANGED <<image, making, ready, out, made, runs>>, thread' # "restoring", thread # "restoring",
           snapshot' \in [of : Images \cup {None, "partial"}, mark : Images \cup {None}],
           Marked', Unmarked', Whole', Reused', Early'
    PROVE  RInv'
<1>1. Based' /\ Apart' /\ MachinesFit' BY DEF RInv, Based, Apart, MachinesFit
<1>2. RTypes' BY DEF RInv, RTypes
<1> QED BY <1>1, <1>2 DEF RInv

\* The start of the thread: nothing is ready yet.
LEMMA StartStep ==
    ASSUME RInv, Begin \/ Reuse \/ Boot \/ Snap \/ Mark, UNCHANGED runs
    PROVE  RInv'
<1>1. /\ UNCHANGED <<image, making, out>> /\ ready = <<>> /\ out = {} /\ making = NoMachine
      /\ thread \in {"begin", "reusing", "booting", "snapping", "marking"}
  BY DEF RInv, RTypes, Early, Begin, Reuse, Boot, Snap, Mark
<1>2. image \in Images /\ image # None /\ None \in Images \cup {None, "partial"}
  BY ReserveAssumption DEF RInv, RTypes
<1>3. snapshot \in [of : Images \cup {None, "partial"}, mark : Images \cup {None}]
  BY DEF RInv, RTypes
<1> DEFINE NoMark == [snapshot EXCEPT !.mark = None]
           Of(i) == [snapshot EXCEPT !.of = i]
           Marks == [snapshot EXCEPT !.mark = image]
<1>4. /\ NoMark \in [of : Images \cup {None, "partial"}, mark : Images \cup {None}]
      /\ NoMark.mark = None
      /\ \A i \in Images \cup {None, "partial"} :
            /\ Of(i) \in [of : Images \cup {None, "partial"}, mark : Images \cup {None}]
            /\ Of(i).of = i /\ Of(i).mark = snapshot.mark
      /\ Marks \in [of : Images \cup {None, "partial"}, mark : Images \cup {None}]
      /\ Marks.mark = image /\ Marks.of = snapshot.of
  BY <1>2, <1>3
<1>5. CASE Begin
  <2>1. CASE snapshot.mark = image /\ thread' = "reusing" /\ snapshot' = snapshot
    BY <1>1, <1>3, <1>5, <2>1, ThreadStep DEF Begin, RInv, Marked, Unmarked, Whole, Reused, Early
  <2>2. CASE snapshot' = NoMark /\ thread' = "booting"
    <3> snapshot'.mark = None /\ snapshot' \in [of : Images \cup {None, "partial"}, mark : Images \cup {None}]
      BY <1>4, <2>2
    <3> HIDE DEF NoMark
    <3> QED BY <1>1, <1>5, <2>2, ThreadStep DEF Begin, RInv, Marked, Unmarked, Whole, Reused, Early
  <2> QED BY <1>5, <2>1, <2>2 DEF Begin, Resumable
<1>6. CASE Reuse
  <2>1. ASSUME NEW m \in Machines, ready' = <<m>>, made' = [made EXCEPT ![m] = snapshot.of],
               thread' = "filling", UNCHANGED snapshot
        PROVE  RInv'
    <3>1. snapshot.of = image /\ snapshot.mark = image
      BY <1>2, <1>6 DEF RInv, Reused, Marked, Reuse
    <3> QED BY <1>1, <1>3, <2>1, <3>1, FirstMachine
  <2>2. CASE /\ snapshot' = [of |-> None, mark |-> None] /\ thread' = "booting" /\ UNCHANGED <<ready, made>>
    BY <1>1, <2>2, ThreadStep DEF RInv, Marked, Unmarked, Whole, Reused, Early
  <2> QED BY <1>6, <2>1, <2>2 DEF Reuse
<1>7. CASE Boot \/ Snap
  <2>1. UNCHANGED <<ready, made>> /\ thread \in {"booting", "snapping"} BY <1>7 DEF Boot, Snap
  <2>2. snapshot.mark = None BY <2>1 DEF RInv, Unmarked
  <2>3. PICK i \in Images \cup {None, "partial"} :
            /\ snapshot' = Of(i)
            /\ thread' \in {"snapping", "gone", "marking"}
            /\ thread' = "marking" => i = image
    <3>1. snapshot = Of(snapshot.of) /\ snapshot.of \in Images \cup {None, "partial"} BY <1>3
    <3>2. \/ snapshot' = snapshot /\ thread' = "gone"
          \/ snapshot' = Of("partial") /\ thread' = "snapping"
          \/ snapshot' = Of(image) /\ thread' = "marking"
      BY <1>7 DEF Boot, Snap, GivesUp
    <3> HIDE DEF Of
    <3> QED BY <1>2, <3>1, <3>2
  <2>4. /\ snapshot'.of = i /\ snapshot'.mark = None
        /\ snapshot' \in [of : Images \cup {None, "partial"}, mark : Images \cup {None}]
    BY <1>4, <2>2, <2>3
  <2> HIDE DEF Of
  <2> QED BY <1>1, <2>1, <2>3, <2>4, ThreadStep DEF RInv, Marked, Unmarked, Whole, Reused, Early
<1>8. CASE Mark
  <2>1. /\ thread' = "filling" /\ ready' = <<0>> /\ made' = [made EXCEPT ![0] = image] /\ 0 \in Machines
        /\ snapshot' = Marks /\ snapshot.of = image
    BY <1>8, ReserveAssumption DEF Mark, RInv, Whole
  <2>2. /\ snapshot'.of = image /\ snapshot'.mark = image
        /\ snapshot' \in [of : Images \cup {None, "partial"}, mark : Images \cup {None}]
    BY <1>4, <2>1
  <2> HIDE DEF Marks
  <2> QED BY <1>1, <2>1, <2>2, FirstMachine
<1> QED BY <1>5, <1>6, <1>7, <1>8

\* A machine more is restored from the snapshot.
LEMMA FillStep ==
    ASSUME RInv, Fill, UNCHANGED runs
    PROVE  RInv'
<1>1. CASE thread' = "waiting" /\ UNCHANGED making
  <2> UNCHANGED <<image, making, ready, out, made, runs, snapshot>> /\ thread = "filling"
    BY <1>1 DEF Fill
  <2> QED BY <1>1, ThreadStep DEF RInv, RTypes, Marked, Unmarked, Whole, Reused, Early
<1>2. ASSUME NEW m \in Machines, Numbered(m), making' = m, thread' = "restoring"
      PROVE  RInv'
  <2>1. UNCHANGED <<image, snapshot, ready, out, made>> /\ thread = "filling" BY DEF Fill
  <2>2. m \notin out /\ \A i \in 1 .. Len(ready) : ready[i] # m BY <1>2, NumberedUnused
  <2>3. RTypes' BY <1>2, <2>1 DEF RInv, RTypes
  <2>4. Apart' BY <1>2, <2>1, <2>2 DEF RInv, Apart
  <2> QED BY <1>2, <2>1, <2>3, <2>4
          DEF RInv, Marked, Unmarked, Whole, Reused, Early, Based, MachinesFit
<1> QED BY <1>1, <1>2 DEF Fill

LEMMA RestoreStep ==
    ASSUME RInv, Restore, UNCHANGED runs
    PROVE  RInv'
<1>1. /\ thread = "restoring" /\ making \in Machines /\ making' = NoMachine /\ snapshot.of = image
      /\ UNCHANGED <<image, snapshot, out>> /\ NoMachine \notin Machines
  BY ReserveAssumption DEF Restore, RInv, RTypes, Whole, NoMachine
<1>2. Based' BY <1>1 DEF RInv, Based
<1>3. CASE ready' = Append(ready, making) /\ made' = [made EXCEPT ![making] = snapshot.of]
           /\ thread' = "filling"
  <2>1. /\ ready' \in Seq(Machines) /\ Len(ready') = Len(ready) + 1 /\ Len(ready) \in Nat
        /\ ready'[Len(ready) + 1] = making
        /\ \A i \in 1 .. Len(ready) : ready'[i] = ready[i]
    BY <1>1, <1>3 DEF RInv, RTypes
  <2>2. \A i \in 1 .. Len(ready') : i \in 1 .. Len(ready) \/ i = Len(ready) + 1 BY <2>1
  <2>3. DOMAIN made' = Machines /\ made'[making] = image
        /\ \A m \in Machines \ {making} : made'[m] = made[m]
    BY <1>1, <1>3 DEF RInv, RTypes
  <2>4. RTypes' BY <1>1, <1>3, <2>1, <2>3 DEF RInv, RTypes
  <2>5. Apart' BY <1>1, <2>1, <2>2, <2>4 DEF RInv, Apart, RTypes
  <2>6. MachinesFit'
    <3>1. \A i \in 1 .. Len(ready) : ready[i] \in Machines BY DEF RInv, RTypes
    <3>2. \A m \in out : m \in Machines \ {making} BY DEF RInv, RTypes, Apart
    <3> QED BY <1>1, <2>1, <2>2, <2>3, <3>1, <3>2 DEF RInv, MachinesFit
  <2> QED BY <1>1, <1>2, <1>3, <2>4, <2>5, <2>6 DEF RInv, Marked, Unmarked, Whole, Reused, Early
<1>4. CASE thread' = "gone" /\ UNCHANGED <<ready, made>>
  <2>1. RTypes' BY <1>1, <1>4 DEF RInv, RTypes
  <2>2. Apart'
    <3>1. \A i \in 1 .. Len(ready) : ready[i] \in Machines BY DEF RInv, RTypes
    <3> QED BY <1>1, <1>4, <3>1 DEF RInv, RTypes, Apart
  <2> QED BY <1>1, <1>2, <1>4, <2>1, <2>2
          DEF RInv, Marked, Unmarked, Whole, Reused, Early, MachinesFit
<1> QED BY <1>3, <1>4 DEF Restore, GivesUp

-------------------------------------------------------------------------------
\* The directory of a machine is removed: the machine was of one request only.
LEMMA RemoveStep ==
    ASSUME TInv, RInv, NEW r \in Runs, Remove(r)
    PROVE  RInv'
<1> DEFINE b == runs[r].base
<1>1. /\ UNCHANGED <<image, snapshot, thread, making, ready>> /\ out' = out \ {b}
      /\ made' = [m \in Machines |-> IF m = b THEN None ELSE made[m]]
  BY DEF Remove
<1>2. /\ runs'[r].base = NoBase /\ NoBase \notin Machines
      /\ \A q \in Runs \ {r} : runs'[q] = runs[q]
  <2>1. runs[r] \in Requests BY DEF TInv, Types
  <2>2. [runs[r] EXCEPT !.at = "clearing", !.base = NoBase].base = NoBase BY <2>1 DEF Requests
  <2> QED BY <2>2, ReserveAssumption DEF Remove, TInv, Types, NoBase
<1>3. \A i \in 1 .. Len(ready) : ready[i] \in Machines /\ ready[i] # b BY DEF RInv, RTypes, Apart, Based
<1>4. \A q \in Runs \ {r} : runs[q].base \in Machines => runs[q].base # b /\ runs[q].base \in out
  BY DEF RInv, Based
<1> HIDE DEF b
<1>5. RTypes' BY <1>1 DEF RInv, RTypes
<1>6. Early' /\ Apart' BY <1>1 DEF RInv, Early, Apart
<1>7. Based'
  <2>1. \A q \in Runs : runs'[q].base \in Machines => q # r /\ runs'[q] = runs[q] BY <1>2
  <2>2. \A q, s \in Runs : q # s /\ runs'[q].base \in Machines => runs'[q].base # runs'[s].base
    <3> SUFFICES ASSUME NEW q \in Runs, NEW s \in Runs, q # s, runs'[q].base \in Machines
                 PROVE  runs'[q].base # runs'[s].base
      OBVIOUS
    <3>1. CASE s = r BY <1>2, <3>1
    <3>2. CASE s # r BY <1>2, <2>1, <3>2 DEF RInv, Based
    <3> QED BY <3>1, <3>2
  <2> QED BY <1>1, <1>4, <2>1, <2>2 DEF Based
<1>8. MachinesFit'
  <2>1. \A m \in out : m \in Machines BY DEF RInv, RTypes
  <2> QED BY <1>1, <1>3, <2>1 DEF RInv, MachinesFit
<1> QED BY <1>1, <1>5, <1>6, <1>7, <1>8 DEF RInv, Marked, Unmarked, Whole, Reused

LEMMA ReserveRestarted ==
    ASSUME TInv, RInv, Restart
    PROVE  RInv'
<1>1. /\ image' \in Images /\ thread' = "begin" /\ making' = NoMachine /\ ready' = <<>> /\ out' = {}
      /\ made' = [m \in Machines |-> None] /\ UNCHANGED snapshot
  BY DEF Restart, ReserveRestart
<1>2. \A r \in Runs : runs'[r].base \notin Machines
  <2> SUFFICES ASSUME NEW r \in Runs
               PROVE  runs'[r].base \notin Machines
    OBVIOUS
  <2>1. runs[r] \in Requests BY DEF TInv, Types
  <2>2. runs'[r].base = NoBase BY <2>1 DEF Restart, Requests
  <2> QED BY <2>2, ReserveAssumption DEF NoBase
<1>3. RTypes' BY <1>1 DEF RInv, RTypes
<1>4. Based' BY <1>2 DEF Based
<1>5. Apart' BY <1>1, <1>3 DEF Apart
<1>6. MachinesFit' BY <1>1 DEF MachinesFit
<1> QED BY <1>1, <1>3, <1>4, <1>5, <1>6 DEF RInv, Marked, Unmarked, Whole, Reused, Early

-------------------------------------------------------------------------------
\* A machine enters with its request, and the one that refuses enters with none.
LEMMA WarmReserve ==
    ASSUME TInv, RInv, NEW r \in Runs, Warm(r)
    PROVE  RInv'
<1>1. runs \in [Runs -> Requests] /\ UNCHANGED <<image, snapshot, making, made>>
  BY DEF Warm, TInv, Types
<1>2. CASE Moves(r, "cold")
  <2>1. \A q \in Runs : runs'[q].base = runs[q].base BY <1>1, <1>2 DEF Moves, Requests
  <2>2. CASE ready = <<>> /\ UNCHANGED <<thread, ready, out>>
    BY <1>1, <2>1, <2>2, ReserveKept
  <2>3. CASE /\ ready # <<>> /\ ready' = Tail(ready) /\ UNCHANGED out
             /\ thread' = IF thread = "waiting" THEN "filling" ELSE thread
    <3> DEFINE m == Head(ready)
    <3> HIDE DEF m
    <3>1. m = Head(ready) BY DEF m
    <3> QED BY <1>1, <2>1, <2>3, <3>1, MachineTaken
  <2> QED
    <3>1. runs'[r].at = "cold" BY <1>1, <1>2 DEF Moves, Requests
    <3>2. ASSUME NEW m \in Machines, Machine(r, m)
          PROVE  FALSE
      <4>1. runs'[r].at = "up" BY <1>1, <3>2 DEF Machine, Requests
      <4> QED BY <3>1, <4>1
    <3> QED BY <2>2, <2>3, <3>2 DEF Warm
<1>3. ASSUME NEW m \in Machines, Take(m), Machine(r, m)
      PROVE  RInv'
  <2>1. \A q \in Runs : runs'[q].base = IF q = r THEN m ELSE runs[q].base
    BY <1>1, <1>3 DEF Machine, Requests
  <2> QED BY <1>1, <1>3, <2>1, MachineTaken DEF Take
<1> QED BY <1>2, <1>3 DEF Warm

\* The steps of requests and of the human that leave the reserve alone.
LEMMA OtherSteps ==
    ASSUME TInv, RInv,
           \/ \E r \in Runs, t \in Tasks, kind \in Kinds, level \in {0, 2} : Ask(r, t, kind, level)
           \/ \E r \in Runs : \/ HelperReady(r) \/ HelperDies(r) \/ Release(r) \/ BootCold(r)
                              \/ Exit(r) \/ ChildGoesOn(r) \/ Poll(r) \/ Read(r) \/ Fetch(r) \/ Clear(r)
           \/ \E t \in Tasks : Freeze(t) \/ Thaw(t) \/ Kill(t) \/ Sweep(t)
           \/ FreezeAll \/ UNCHANGED vars
    PROVE  RInv'
<1> DEFINE Kept == UNCHANGED <<image, snapshot, thread, making, ready, out, made>>
           SameBases == \A q \in Runs : runs'[q].base = runs[q].base \/ runs'[q].base \notin Machines
<1>1. runs \in [Runs -> Requests] /\ NoBase \notin Machines /\ Cold \notin Machines
  BY ReserveAssumption DEF TInv, Types, NoBase, Cold
<1>2. ASSUME NEW r \in Runs, NEW t \in Tasks, NEW kind \in Kinds, NEW level \in {0, 2},
             Ask(r, t, kind, level)
      PROVE  Kept /\ SameBases
  <2>1. runs'[r].base = NoBase BY <1>1, <1>2 DEF Ask, Idle
  <2>2. \A q \in Runs \ {r} : runs'[q] = runs[q] BY <1>1, <1>2 DEF Ask
  <2>3. Kept BY <1>2 DEF Ask, reserve
  <2> QED BY <1>1, <2>1, <2>2, <2>3
<1>3. ASSUME NEW r \in Runs, HelperReady(r) \/ HelperDies(r) \/ Release(r)
      PROVE  Kept /\ SameBases
  <2>1. Kept BY <1>3 DEF HelperReady, HelperDies, Release, reserve
  <2>2. \/ runs' = runs \/ Moves(r, "up")
        \/ runs' = [runs EXCEPT ![r].at = "answered", ![r].end = "failed"]
    BY <1>3 DEF HelperReady, HelperDies, Release, Fails
  <2> QED BY <1>1, <2>1, <2>2 DEF Moves, Requests
<1>4. ASSUME NEW r \in Runs, BootCold(r)
      PROVE  Kept /\ SameBases
  <2>1. Kept BY <1>4 DEF BootCold
  <2>2. \/ runs' = [runs EXCEPT ![r].at = "up", ![r].base = Cold]
        \/ runs' = [runs EXCEPT ![r].at = "answered", ![r].end = "failed"]
    BY <1>4 DEF BootCold, Fails, Machine
  <2> QED BY <1>1, <2>1, <2>2 DEF Requests
<1>5. ASSUME NEW r \in Runs, Exit(r) \/ Poll(r) \/ Read(r) \/ Fetch(r) \/ Clear(r)
      PROVE  Kept /\ SameBases
  <2>1. Kept BY <1>5 DEF Exit, Poll, Read, Fetch, Clear, reserve
  <2>2. \/ runs' = [runs EXCEPT ![r].end = "exited"]
        \/ \E e : runs' = [runs EXCEPT ![r].at = "reading", ![r].end = e]
        \/ \E next : Moves(r, next)
    <3>1. CASE Poll(r)
      <4>1. runs' = [runs EXCEPT ![r].at = "reading",
                                 ![r].end = IF runs[r].end = None THEN "killed" ELSE runs[r].end]
        BY <1>1, <3>1 DEF Poll, Requests
      <4> QED BY <4>1
    <3> QED BY <1>5, <3>1 DEF Exit, Read, Fetch, Clear
  <2>3. \A q \in Runs : runs'[q].base = runs[q].base BY <1>1, <2>2 DEF Moves, Requests
  <2> QED BY <2>1, <2>3
<1>6. ASSUME NEW t \in Tasks, Freeze(t) \/ Thaw(t) \/ Sweep(t)
      PROVE  Kept /\ SameBases
  BY <1>6 DEF Freeze, Thaw, Sweep, reserve
<1>7. ASSUME NEW t \in Tasks, Kill(t)
      PROVE  Kept /\ SameBases
  <2>1. Kept BY <1>7 DEF Kill, reserve
  <2>2. \E r, at, e : runs' = [runs EXCEPT ![r].at = at, ![r].end = e]
    <3> DEFINE r == vivantes[t]
    <3>1. r \in Runs BY <1>7 DEF Kill, TInv, Types
    <3>2. runs' = [runs EXCEPT ![r].at = IF runs[r].kind = "start" THEN "answered" ELSE runs[r].at,
                               ![r].end = IF runs[r].end = None THEN "killed" ELSE runs[r].end]
      BY <1>1, <1>7, <3>1 DEF Kill, Requests
    <3> HIDE DEF r
    <3> QED BY <3>2
  <2>3. \A q \in Runs : runs'[q].base = runs[q].base BY <1>1, <2>2 DEF Requests
  <2> QED BY <2>1, <2>3
<1>8. CASE FreezeAll \/ UNCHANGED vars
  BY <1>8, ReserveKept DEF FreezeAll, vars, reserve
<1>9. ASSUME NEW r \in Runs, ChildGoesOn(r)
      PROVE  Kept /\ SameBases
  BY <1>9 DEF ChildGoesOn, reserve
<1>10. ASSUME Kept /\ SameBases
       PROVE  RInv'
  BY <1>10, ReserveKept
<1> HIDE DEF Kept, SameBases
<1> QED BY <1>2, <1>3, <1>4, <1>5, <1>6, <1>7, <1>8, <1>9, <1>10

LEMMA ReserveSteps ==
    ASSUME TInv, RInv, [Next]_vars
    PROVE  RInv'
<1>1. CASE Reserves
  BY <1>1, StartStep, FillStep, RestoreStep DEF Reserves, ReserveStep
<1>2. ASSUME NEW r \in Runs, Warm(r)
      PROVE  RInv'
  BY <1>2, WarmReserve
<1>3. ASSUME NEW r \in Runs, Remove(r)
      PROVE  RInv'
  BY <1>3, RemoveStep
<1>4. CASE Restart BY <1>4, ReserveRestarted
<1> QED BY <1>1, <1>2, <1>3, <1>4, OtherSteps DEF Next, Launch, Watch

\* Every machine, ready or taken, was made of what is installed, through upgrades, restarts and
\* snapshots that were interrupted (reserve.rs: Instantane::reprenable, remplir).
THEOREM MachinesAlwaysFit == Spec => []MachinesFit
<1>1. RInv => MachinesFit BY DEF RInv
<1>2. Init => TInv /\ RInv BY TableAtStart, ReserveAtStart
<1>3. TInv /\ RInv /\ [Next]_vars => TInv' /\ RInv' BY TableStep, ReserveSteps
<1> QED BY <1>1, <1>2, <1>3, PTL DEF Spec

-------------------------------------------------------------------------------
(* What is shown, and what the processes do.                               *)

Procs == {"none", "booting", "ready", "running", "zombie", "reaped"}
Shown == {"none", "running", "frozen", "exited"}
\* A handle says what its processes do: nothing it calls frozen executes, only what it calls
\* frozen or exited is stopped, and it says nothing before its sandbox is on the table.
Shows ==
    /\ proc \in [Runs -> Procs] /\ shown \in [Runs -> Shown]
    /\ left \subseteq Runs /\ strays \subseteq Runs /\ stopped \subseteq Runs
    /\ \A r \in Runs : shown[r] = "frozen" => ~Executes(r)
    /\ \A r \in stopped : shown[r] \in {"frozen", "exited"}
    /\ \A r \in Runs : runs[r].at \in Launching \cup {"idle"} => shown[r] = "none"

LEMMA ShowsAtStart == ASSUME Init PROVE Shows
BY DEF Init, Shows, Procs, Shown

\* A step that touches no handle, lets nothing execute that did not, and stops nothing.
LEMMA ShowsKept ==
    ASSUME Shows, proc' \in [Runs -> Procs], left' \subseteq Runs, strays' \subseteq Runs, UNCHANGED <<shown, stopped>>,
           \A r \in Runs : Executes(r)' => Executes(r),
           \A r \in Runs : runs'[r].at \in Launching \cup {"idle"} =>
                              runs[r].at \in Launching \cup {"idle"}
    PROVE  Shows'
BY DEF Shows

\* A step that makes one handle say something else.
LEMMA ShowsOne ==
    ASSUME Shows, NEW r \in Runs, proc' \in [Runs -> Procs], left' \subseteq Runs, strays' \subseteq Runs,
           NEW s \in Shown, shown' = [shown EXCEPT ![r] = s],
           stopped' \subseteq Runs, \A q \in Runs \ {r} : q \in stopped' <=> q \in stopped,
           \A q \in Runs \ {r} : Executes(q)' => Executes(q),
           s = "frozen" => ~Executes(r)',
           r \in stopped' => s \in {"frozen", "exited"},
           \A q \in Runs : runs'[q].at \in Launching \cup {"idle"} =>
                              q # r /\ runs[q].at \in Launching \cup {"idle"}
    PROVE  Shows'
<1>1. shown' \in [Runs -> Shown] /\ shown'[r] = s /\ \A q \in Runs \ {r} : shown'[q] = shown[q]
  BY DEF Shows
<1>2. \A q \in Runs : shown'[q] = "frozen" => ~Executes(q)' BY <1>1 DEF Shows
<1>3. \A q \in stopped' : shown'[q] \in {"frozen", "exited"} BY <1>1 DEF Shows
<1>4. \A q \in Runs : runs'[q].at \in Launching \cup {"idle"} => shown'[q] = "none" BY <1>1 DEF Shows
<1> QED BY <1>1, <1>2, <1>3, <1>4 DEF Shows

\* What enters the table was never shown, so it is not stopped.
LEMMA ShowsEntering ==
    ASSUME TInv, Shows, NEW r \in Runs, runs[r].at \in Launching, Enters(r), UNCHANGED <<left, strays, stopped>>,
           \A q \in Runs : runs'[q].at = IF q = r THEN "up" ELSE runs[q].at
    PROVE  Shows'
<1>1. proc' = [proc EXCEPT ![r] = "running"] /\ shown' = [shown EXCEPT ![r] = "running"] BY DEF Enters
<1>2. r \notin stopped BY DEF Shows
<1>3. proc' \in [Runs -> Procs] /\ \A q \in Runs \ {r} : Executes(q)' => Executes(q)
  BY <1>1 DEF Shows, Procs, Executes
<1>4. "running" \in Shown BY DEF Shown
<1>5. stopped' \subseteq Runs /\ left' \subseteq Runs /\ strays' \subseteq Runs BY DEF Shows
<1>6. \A q \in Runs : runs'[q].at \in Launching \cup {"idle"} =>
          q # r /\ runs[q].at \in Launching \cup {"idle"}
  BY DEF Launching
<1> QED BY <1>1, <1>2, <1>3, <1>4, <1>5, <1>6, ShowsOne

\* The steps of a launch.
LEMMA LaunchShows ==
    ASSUME TInv, Shows, NEW r \in Runs, Launch(r) \/ HelperDies(r)
    PROVE  Shows'
<1>1. runs \in [Runs -> Requests] BY DEF TInv, Types
<1>2. CASE HelperReady(r) \/ HelperDies(r)
  <2>1. /\ proc' = [proc EXCEPT ![r] = "ready"] \/ proc' = [proc EXCEPT ![r] = "zombie"]
        /\ UNCHANGED <<runs, left, strays, shown, stopped>>
    BY <1>2 DEF HelperReady, HelperDies
  <2>2. proc' \in [Runs -> Procs] /\ \A q \in Runs : Executes(q)' => Executes(q)
    BY <2>1 DEF Shows, Procs, Executes
  <2> QED BY <2>1, <2>2, ShowsKept DEF Shows
<1>3. ASSUME runs[r].at \in Launching, Fails(r), UNCHANGED <<left, strays, stopped>>,
             proc' = proc \/ proc' = [proc EXCEPT ![r] = "reaped"]
      PROVE  Shows'
  <2>1. proc' \in [Runs -> Procs] /\ \A q \in Runs : Executes(q)' => Executes(q)
    BY <1>3 DEF Shows, Procs, Executes
  <2>2. \A q \in Runs : runs'[q].at = IF q = r THEN "answered" ELSE runs[q].at
    BY <1>1, <1>3 DEF Fails, Requests
  <2>3. left' \subseteq Runs /\ strays' \subseteq Runs /\ UNCHANGED shown BY <1>3 DEF Shows, Fails
  <2> QED BY <1>3, <2>1, <2>2, <2>3, ShowsKept DEF Launching
<1>4. CASE Release(r)
  <2>1. runs[r].at \in Launching /\ UNCHANGED <<left, strays, stopped>> BY <1>4 DEF Release, Launching
  <2>2. CASE Enters(r) /\ Moves(r, "up")
    <3>1. \A q \in Runs : runs'[q].at = IF q = r THEN "up" ELSE runs[q].at
      BY <1>1, <2>2 DEF Moves, Requests
    <3> QED BY <2>1, <2>2, <3>1, ShowsEntering
  <2> QED BY <1>3, <1>4, <2>1, <2>2 DEF Release
<1>5. CASE Warm(r)
  <2>1. runs[r].at \in Launching /\ UNCHANGED <<left, strays, stopped>> BY <1>5 DEF Warm, Launching
  <2>2. CASE Moves(r, "cold") /\ UNCHANGED <<proc, shown>>
    <3>1. \A q \in Runs : runs'[q].at = IF q = r THEN "cold" ELSE runs[q].at
      BY <1>1, <2>2 DEF Moves, Requests
    <3>2. \A q \in Runs : Executes(q)' => Executes(q) BY <2>1, <2>2 DEF Executes
    <3> QED BY <2>1, <2>2, <3>1, <3>2, ShowsKept DEF Launching, Shows
  <2>3. ASSUME NEW m \in Machines, Enters(r), Machine(r, m)
        PROVE  Shows'
    <3>1. \A q \in Runs : runs'[q].at = IF q = r THEN "up" ELSE runs[q].at
      BY <1>1, <2>3 DEF Machine, Requests
    <3> QED BY <2>1, <2>3, <3>1, ShowsEntering
  <2> QED BY <1>5, <2>2, <2>3 DEF Warm
<1>6. CASE BootCold(r)
  <2>1. runs[r].at \in Launching /\ UNCHANGED <<left, strays, stopped>> BY <1>6 DEF BootCold, Launching
  <2>2. CASE Enters(r) /\ Machine(r, Cold)
    <3>1. \A q \in Runs : runs'[q].at = IF q = r THEN "up" ELSE runs[q].at
      BY <1>1, <2>2 DEF Machine, Requests
    <3> QED BY <2>1, <2>2, <3>1, ShowsEntering
  <2> QED BY <1>3, <1>6, <2>1, <2>2 DEF BootCold
<1> QED BY <1>2, <1>4, <1>5, <1>6 DEF Launch


\* A request that is asked has no process but its helper, and is not shown.
LEMMA AskShows ==
    ASSUME TInv, Shows, NEW r \in Runs, NEW t \in Tasks, NEW kind \in Kinds, NEW level \in {0, 2},
           Ask(r, t, kind, level)
    PROVE  Shows'
<1>1. runs[r].at = "idle" /\ UNCHANGED <<left, strays, stopped, shown>> BY DEF Ask, InTurn
<1>2. \A q \in Runs \ {r} : runs'[q] = runs[q] BY DEF Ask, TInv, Types
<1>3. proc' = proc \/ proc' = [proc EXCEPT ![r] = "booting"] BY DEF Ask
<1>4. proc' \in [Runs -> Procs] /\ \A q \in Runs : Executes(q)' => Executes(q)
  BY <1>1, <1>3 DEF Shows, Procs, Executes
<1>5. \A q \in Runs : runs'[q].at \in Launching \cup {"idle"} =>
          runs[q].at \in Launching \cup {"idle"}
  BY <1>1, <1>2
<1> QED BY <1>1, <1>4, <1>5, ShowsKept DEF Shows

\* The command and the thread of its request.
LEMMA WatchShows ==
    ASSUME TInv, Shows, NEW r \in Runs, Exit(r) \/ Watch(r) \/ Clear(r)
    PROVE  Shows'
<1>1. runs \in [Runs -> Requests] BY DEF TInv, Types
<1>2. CASE Exit(r)
  <2>1. /\ proc' = [proc EXCEPT ![r] = "zombie"] /\ proc[r] = "running" /\ UNCHANGED <<shown, stopped>>
        /\ left' \cup strays' \subseteq left \cup strays \cup {r}
        /\ runs' = [runs EXCEPT ![r].end = "exited"]
    BY <1>2 DEF Exit
  <2>2. proc' \in [Runs -> Procs] /\ \A q \in Runs : Executes(q)' => Executes(q)
    BY <2>1 DEF Shows, Procs, Executes
  <2>3. \A q \in Runs : runs'[q].at = runs[q].at BY <1>1, <2>1 DEF Requests
  <2>4. left' \subseteq Runs /\ strays' \subseteq Runs BY <2>1 DEF Shows
  <2> QED BY <2>1, <2>2, <2>3, <2>4, ShowsKept
<1>3. CASE Poll(r)
  <2>1. /\ shown' = [shown EXCEPT ![r] = "exited"]
        /\ proc' \in [Runs -> Procs] /\ \A q \in Runs \ {r} : proc'[q] = proc[q]
        /\ proc'[r] # "running"
        /\ left' \subseteq left /\ strays' \subseteq strays
        /\ stopped' \subseteq stopped /\ \A q \in Runs \ {r} : q \in stopped' <=> q \in stopped
    BY <1>3 DEF Poll, Killed, Shows, Procs
  <2>2. \A q \in Runs : runs'[q].at = IF q = r THEN "reading" ELSE runs[q].at
    <3>1. runs' = [runs EXCEPT ![r].at = "reading",
                               ![r].end = IF runs[r].end = None THEN "killed" ELSE runs[r].end]
      BY <1>1, <1>3 DEF Poll, Requests
    <3> QED BY <1>1, <3>1 DEF Requests
  <2>3. \A q \in Runs \ {r} : Executes(q)' => Executes(q) BY <2>1 DEF Executes
  <2>4. "exited" \in Shown /\ left' \subseteq Runs /\ strays' \subseteq Runs /\ stopped' \subseteq Runs BY <2>1 DEF Shown, Shows
  <2>5. \A q \in Runs : runs'[q].at \in Launching \cup {"idle"} =>
            q # r /\ runs[q].at \in Launching \cup {"idle"}
    BY <2>2 DEF Launching
  <2> QED BY <2>1, <2>3, <2>4, <2>5, ShowsOne
<1>4. CASE Read(r) \/ Fetch(r) \/ Remove(r) \/ Clear(r)
  <2>1. UNCHANGED <<proc, left, strays, shown, stopped>> BY <1>4 DEF Read, Fetch, Remove, Clear
  <2>2. \A q \in Runs : runs'[q].at \in Launching \cup {"idle"} =>
            runs[q].at \in Launching \cup {"idle"}
    BY <1>1, <1>4 DEF Read, Fetch, Remove, Clear, Moves, Requests, Launching
  <2>3. \A q \in Runs : Executes(q)' => Executes(q) BY <2>1 DEF Executes
  <2> QED BY <2>1, <2>2, <2>3, ShowsKept DEF Shows
<1> QED BY <1>2, <1>3, <1>4 DEF Watch

\* A signal that stops: what it finds executing stops, and what it finds is shown frozen.
LEMMA FrozenShows ==
    ASSUME TInv, Shows, NEW r \in Runs, Frozen(r), runs[r].at \in Active \cup {"clearing"},
           UNCHANGED <<runs, proc, left, strays>>
    PROVE  Shows'
<1>1. runs[r].at \notin Launching \cup {"idle"} BY DEF Launching, Active
<1>2. /\ stopped' \subseteq Runs /\ \A q \in Runs \ {r} : q \in stopped' <=> q \in stopped
      /\ ~Executes(r)' /\ (r \in stopped' => r \in stopped \/ Executes(r))
  BY DEF Frozen, Executes, Shows
<1>3. \A q \in Runs \ {r} : Executes(q)' => Executes(q) BY <1>2 DEF Executes
<1>4. CASE Group(r)
  <2>1. shown' = [shown EXCEPT ![r] = "frozen"] /\ "frozen" \in Shown BY <1>4 DEF Frozen, Shown
  <2>2. proc' \in [Runs -> Procs] /\ left' \subseteq Runs /\ strays' \subseteq Runs BY DEF Shows
  <2> QED BY <1>1, <1>2, <1>3, <2>1, <2>2, ShowsOne
<1>5. CASE ~Group(r)
  <2>1. ~Executes(r) BY <1>5 DEF Group, Executes
  <2>2. UNCHANGED <<shown, stopped>> BY <1>5, <2>1 DEF Frozen
  <2> QED BY <2>1, <2>2, <1>2, <1>3, ShowsKept DEF Shows
<1> QED BY <1>4, <1>5

\* The human freezes, thaws, kills.
LEMMA HumanShows ==
    ASSUME TInv, Shows, NEW t \in Tasks, Freeze(t) \/ Thaw(t) \/ Kill(t)
    PROVE  Shows'
<1>1. PICK r \in Runs : /\ vivantes[t] = r /\ runs[r] \in Requests
                       /\ runs[r].at \in Active \cup {"clearing"}
  BY DEF Freeze, Thaw, Kill, TInv, Types, Listed
<1>2. CASE Freeze(t) BY <1>1, <1>2, FrozenShows DEF Freeze
<1>3. runs[r].at \notin Launching \cup {"idle"} BY <1>1 DEF Launching, Active
<1>4. CASE Thaw(t)
  <2>1. /\ stopped' = stopped \ {r} /\ UNCHANGED <<runs, proc, left, strays>>
        /\ shown' = IF Group(r) THEN [shown EXCEPT ![r] = "running"] ELSE shown
    BY <1>1, <1>4 DEF Thaw
  <2>2. \A q \in Runs \ {r} : Executes(q)' => Executes(q) BY <2>1 DEF Executes
  <2>3. CASE Group(r)
    <3>1. shown' = [shown EXCEPT ![r] = "running"] /\ "running" \in Shown BY <2>1, <2>3 DEF Shown
    <3>2. /\ proc' \in [Runs -> Procs] /\ left' \subseteq Runs /\ strays' \subseteq Runs /\ stopped' \subseteq Runs
          /\ \A q \in Runs \ {r} : q \in stopped' <=> q \in stopped
          /\ r \notin stopped'
      BY <2>1 DEF Shows
    <3> QED BY <1>1, <1>3, <2>1, <2>2, <3>1, <3>2, ShowsOne
  <2>4. CASE ~Group(r)
    <3>1. ~Executes(r)' BY <2>1, <2>4 DEF Group, Executes
    <3>2. UNCHANGED shown /\ \A q \in Runs : Executes(q)' => Executes(q) BY <2>1, <2>2, <2>4, <3>1
    <3> QED BY <2>1, <3>2 DEF Shows
  <2> QED BY <2>3, <2>4
<1>5. CASE Kill(t)
  <2>1. /\ proc' = [proc EXCEPT ![r] = IF @ = "running" THEN "zombie" ELSE @]
        /\ left' = left \ {r} /\ strays' = strays \ {r} /\ stopped' = stopped \ {r}
        /\ shown' = [shown EXCEPT ![r] = "exited"]
    BY <1>1, <1>5 DEF Kill, Killed
  <2>2. \A q \in Runs : q # r => runs'[q] = runs[q]
    BY <1>1, <1>5 DEF Kill, TInv, Types
  <2>3. runs'[r].at \in {"answered", runs[r].at}
    <3>1. runs' = [runs EXCEPT ![r].at = IF runs[r].kind = "start" THEN "answered" ELSE runs[r].at,
                               ![r].end = IF runs[r].end = None THEN "killed" ELSE runs[r].end]
      BY <1>1, <1>5 DEF Kill, Requests, TInv, Types
    <3> QED BY <1>1, <3>1 DEF Requests, TInv, Types
  <2>4. /\ proc' \in [Runs -> Procs] /\ left' \subseteq Runs /\ strays' \subseteq Runs /\ stopped' \subseteq Runs
        /\ \A q \in Runs \ {r} : (q \in stopped' <=> q \in stopped) /\ (Executes(q)' => Executes(q))
        /\ r \notin stopped'
    BY <2>1 DEF Shows, Procs, Executes
  <2>5. "exited" \in Shown BY DEF Shown
  <2>6. runs'[r].at \notin Launching \cup {"idle"} BY <1>3, <2>3 DEF Launching
  <2> QED BY <1>1, <2>1, <2>2, <2>4, <2>5, <2>6, ShowsOne
<1> QED BY <1>2, <1>4, <1>5

\* What freeze_all has still to freeze stays on the table: it holds the lock.
Swept == sweep \subseteq Tasks /\ \A t \in sweep : lock = Human /\ vivantes[t] # Nobody
LEMMA SweptStep ==
    ASSUME TInv, Swept, [Next]_vars
    PROVE  Swept'
<1>1. \/ sweep' = {}
      \/ sweep' \subseteq sweep /\ UNCHANGED <<lock, vivantes>>
      \/ sweep' = sweep /\ lock # Human
      \/ lock' = Human /\ sweep' = {t \in Tasks : vivantes[t] # Nobody} /\ UNCHANGED vivantes
  <2>1. CASE Reserves \/ UNCHANGED vars BY <2>1 DEF Reserves, table, vars
  <2>2. ASSUME NEW r \in Runs, NEW t \in Tasks, NEW kind \in Kinds, NEW level \in {0, 2},
               Ask(r, t, kind, level)
        PROVE  sweep' = sweep /\ lock # Human
    BY <2>2 DEF Ask, Nobody, Human
  <2>3. ASSUME NEW r \in Runs, Release(r) \/ Warm(r) \/ BootCold(r)
        PROVE  sweep' = sweep /\ lock # Human
    <3>1. runs[r].at \in Launching /\ sweep' = sweep BY <2>3 DEF Release, Warm, BootCold, Launching
    <3> QED BY <3>1, SandboxesAssumption DEF TInv, Held, Human
  <2>4. ASSUME NEW r \in Runs, HelperReady(r) \/ HelperDies(r) \/ Exit(r) \/ ChildGoesOn(r) \/ Watch(r)
        PROVE  sweep' = sweep /\ UNCHANGED <<lock, vivantes>>
    BY <2>4 DEF HelperReady, HelperDies, Exit, ChildGoesOn, Watch, Poll, Read, Fetch, Remove, table
  <2>5. ASSUME NEW r \in Runs, Clear(r)
        PROVE  sweep' = sweep /\ lock # Human
    BY <2>5 DEF Clear, Nobody, Human
  <2>6. ASSUME NEW t \in Tasks, Freeze(t) \/ Thaw(t) \/ Kill(t)
        PROVE  sweep' = sweep /\ lock # Human
    BY <2>6 DEF Freeze, Thaw, Kill, table, Nobody, Human
  <2>7. ASSUME NEW t \in Tasks, Sweep(t)
        PROVE  \/ sweep' = {}
               \/ sweep' \subseteq sweep /\ UNCHANGED <<lock, vivantes>>
    BY <2>7 DEF Sweep
  <2>8. CASE FreezeAll BY <2>8 DEF FreezeAll
  <2>9. CASE Restart BY <2>9 DEF Restart
  <2> QED BY <2>1, <2>2, <2>3, <2>4, <2>5, <2>6, <2>7, <2>8, <2>9 DEF Next, Launch
<1> QED BY <1>1 DEF Swept

LEMMA ShowsStep ==
    ASSUME TInv, Swept, Shows, [Next]_vars
    PROVE  Shows'
<1>1. CASE Reserves \/ FreezeAll \/ UNCHANGED vars
  <2> UNCHANGED <<runs, proc, left, strays, stopped, shown>> BY <1>1 DEF Reserves, FreezeAll, vars
  <2> QED BY DEF Shows, Executes
<1>2. ASSUME NEW r \in Runs, Launch(r) \/ HelperDies(r) \/ Exit(r) \/ Watch(r) \/ Clear(r)
      PROVE  Shows'
  BY <1>2, LaunchShows, WatchShows
<1>3. ASSUME NEW t \in Tasks, Freeze(t) \/ Thaw(t) \/ Kill(t)
      PROVE  Shows'
  BY <1>3, HumanShows
<1>4. ASSUME NEW t \in Tasks, Sweep(t)
      PROVE  Shows'
  <2>1. vivantes[t] \in Runs /\ runs[vivantes[t]].at \in Active \cup {"clearing"}
    BY <1>4 DEF Sweep, Swept, TInv, Types, Listed
  <2>2. Frozen(vivantes[t]) /\ UNCHANGED <<runs, proc, left, strays>> BY <1>4 DEF Sweep
  <2>3. PICK r \in Runs : r = vivantes[t] BY <2>1
  <2> QED BY <2>1, <2>2, <2>3, FrozenShows
<1>5. CASE Restart
  BY <1>5 DEF Restart, Shows, Procs, Shown, Executes
<1>6. ASSUME NEW r \in Runs, ChildGoesOn(r)
      PROVE  Shows'
  <2>1. /\ UNCHANGED <<runs, proc, shown, stopped>>
        /\ left' \subseteq left /\ strays' \subseteq strays \cup left
    BY <1>6 DEF ChildGoesOn
  <2>2. \A q \in Runs : Executes(q)' => Executes(q) BY <2>1 DEF Executes
  <2>3. proc' \in [Runs -> Procs] /\ left' \subseteq Runs /\ strays' \subseteq Runs BY <2>1 DEF Shows
  <2> QED BY <2>1, <2>2, <2>3, ShowsKept
<1> QED BY <1>1, <1>2, <1>3, <1>4, <1>5, <1>6, AskShows DEF Next

\* What sandbox.status says is what the processes do, whoever freezes, thaws and kills at
\* whatever point of a command (manager.rs: freeze, thaw, status).
THEOREM StatusTellsTheTruth == Spec => []TableTells
<1>1. TInv /\ Shows => TableTells BY DEF TInv, Types, Shows, TableTells
<1>2. Init => TInv /\ Swept /\ Shows
  <2> SUFFICES ASSUME Init PROVE TInv /\ Swept /\ Shows
    OBVIOUS
  <2>1. Swept BY DEF Init, Swept
  <2> QED BY <2>1, TableAtStart, ShowsAtStart
<1>3. TInv /\ Swept /\ Shows /\ [Next]_vars => TInv' /\ Swept' /\ Shows'
  BY TableStep, SweptStep, ShowsStep
<1> QED BY <1>1, <1>2, <1>3, PTL DEF Spec


-------------------------------------------------------------------------------
(* The types of Sandboxes: the size of the reserve, disks and directories. *)

Sized == Len(ready) <= Target /\ (thread = "restoring" => Len(ready) < Target)
LEMMA SizedStep ==
    ASSUME RInv, Sized, [Next]_vars
    PROVE  Sized'
<1>1. ready \in Seq(Machines) /\ Target \in Nat /\ Target >= 1
  BY ReserveAssumption DEF RInv, RTypes
<1>2. Len(ready) \in Nat BY <1>1
<1>3. CASE Reserves
  <2>1. CASE Begin \/ Boot \/ Snap
    BY <2>1 DEF Begin, Boot, Snap, GivesUp, Sized
  <2>2. CASE Reuse \/ Mark
    <3>1. CASE UNCHANGED ready /\ thread' # "restoring" BY <3>1 DEF Sized
    <3>2. ASSUME NEW m \in Machines, ready' = <<m>>, thread' = "filling"
          PROVE  Sized'
      BY <1>1, <3>2 DEF Sized
    <3> QED BY <2>2, <3>1, <3>2, ReserveAssumption DEF Reuse, Mark
  <2>3. CASE Fill BY <1>1, <1>2, <2>3 DEF Fill, Sized
  <2>4. CASE Restore
    <3>1. CASE UNCHANGED ready /\ thread' # "restoring" BY <3>1 DEF Sized
    <3>2. CASE ready' = Append(ready, making) /\ thread' = "filling" /\ thread = "restoring"
      BY <1>1, <1>2, <3>2 DEF Sized
    <3> QED BY <2>4, <3>1, <3>2 DEF Restore, GivesUp
  <2> QED BY <1>3, <2>1, <2>2, <2>3, <2>4 DEF Reserves, ReserveStep
<1>4. ASSUME ready # <<>>, ready' = Tail(ready),
             thread' = IF thread = "waiting" THEN "filling" ELSE thread
      PROVE  Sized'
  <2>1. Len(ready') = Len(ready) - 1 BY <1>1, <1>4
  <2> QED BY <1>1, <1>2, <1>4, <2>1 DEF Sized
<1>5. ASSUME NEW r \in Runs, Warm(r)
      PROVE  Sized'
  BY <1>4, <1>5 DEF Warm, Take, Sized
<1>6. CASE Restart
  <2>1. ready' = <<>> /\ thread' = "begin" BY <1>6 DEF Restart, ReserveRestart
  <2> QED BY <1>1, <2>1 DEF Sized
<1>7. CASE UNCHANGED <<ready, thread>> BY <1>7 DEF Sized
<1> QED
  BY <1>3, <1>5, <1>6, <1>7 DEF Next, Launch, Watch, Ask, HelperReady, HelperDies, Release, BootCold,
     Exit, ChildGoesOn, Poll, Read, Fetch, Remove, Clear, Freeze, Thaw, Kill, Sweep, FreezeAll, reserve, vars

\* What the level of a request and its place say of each other, of its machine and of its
\* process: a machine is had from the launch to the removal of its directory, at level 2 only.
Level(x, p) ==
    /\ x.level = 2 => x.kind = "run"
    /\ p \in {"booting", "ready"} => x.level = 0
    /\ IF x.at = "idle" THEN p = "none" ELSE x.task \in Tasks
    /\ x.base \in Bases => x.at \in Active /\ x.level = 2
    /\ x.level = 2 /\ x.at \in Active => x.base \in Bases
    /\ x.at \in {"cold", "fetching", "removing"} => x.level = 2
Leveled == \A r \in Runs : Level(runs[r], proc[r])

LEMMA LeveledAtStart == ASSUME Init PROVE Leveled
BY ReserveAssumption DEF Init, Leveled, Level, Idle, Bases, Cold, NoBase, Active

LEMMA LeveledOne ==
    ASSUME Leveled, NEW r \in Runs, Level(runs'[r], proc'[r]),
           \A q \in Runs \ {r} : runs'[q] = runs[q] /\ proc'[q] = proc[q]
    PROVE  Leveled'
BY DEF Leveled

LEMMA LeveledLaunch ==
    ASSUME TInv, Shows, Leveled, NEW r \in Runs, Launch(r) \/ HelperDies(r)
    PROVE  Leveled'
<1>1. runs \in [Runs -> Requests] /\ proc \in [Runs -> Procs] /\ Level(runs[r], proc[r])
  BY DEF TInv, Types, Shows, Leveled
<1>2. CASE HelperReady(r) \/ HelperDies(r)
  <2>1. Level(runs'[r], proc'[r]) BY <1>1, <1>2 DEF HelperReady, HelperDies, Level
  <2> QED BY <1>1, <1>2, <2>1, LeveledOne DEF HelperReady, HelperDies
<1>3. ASSUME runs[r].at \in Launching, Fails(r),
             proc' = proc \/ proc' = [proc EXCEPT ![r] = "reaped"]
      PROVE  Leveled'
  <2>1. Level(runs'[r], proc'[r]) BY <1>1, <1>3 DEF Fails, Requests, Level, Launching, Active
  <2> QED BY <1>1, <1>3, <2>1, LeveledOne DEF Fails
<1>4. CASE Release(r)
  <2>1. CASE Enters(r) /\ Moves(r, "up")
    <3>1. Level(runs'[r], proc'[r]) BY <1>1, <1>4, <2>1 DEF Enters, Moves, Release, Requests, Level, Active
    <3> QED BY <1>1, <2>1, <3>1, LeveledOne DEF Enters, Moves
  <2> QED BY <1>3, <1>4, <2>1 DEF Release, Launching
<1>5. ASSUME NEW b \in Bases, runs[r].level = 2, Enters(r), Machine(r, b)
      PROVE  Leveled'
  <2>1. Level(runs'[r], proc'[r]) BY <1>1, <1>5 DEF Enters, Machine, Requests, Level, Active
  <2> QED BY <1>1, <1>5, <2>1, LeveledOne DEF Enters, Machine
<1>6. CASE Warm(r)
  <2>1. CASE Moves(r, "cold") /\ UNCHANGED proc
    <3>1. Level(runs'[r], proc'[r]) BY <1>1, <1>6, <2>1 DEF Moves, Warm, Requests, Level, Active
    <3> QED BY <1>1, <2>1, <3>1, LeveledOne DEF Moves
  <2> QED BY <1>5, <1>6, <2>1 DEF Warm, Bases
<1>7. CASE BootCold(r)
  <2>1. runs[r].level = 2 BY <1>1, <1>7 DEF BootCold, Level
  <2> QED BY <1>3, <1>5, <1>7, <2>1 DEF BootCold, Launching, Bases
<1> QED BY <1>2, <1>4, <1>6, <1>7 DEF Launch

LEMMA LeveledWatch ==
    ASSUME TInv, Shows, Leveled, NEW r \in Runs, Exit(r) \/ Watch(r) \/ Clear(r)
    PROVE  Leveled'
<1>1. runs \in [Runs -> Requests] /\ proc \in [Runs -> Procs] /\ Level(runs[r], proc[r])
  BY DEF TInv, Types, Shows, Leveled
<1>2. CASE Exit(r)
  <2>1. Level(runs'[r], proc'[r]) BY <1>1, <1>2 DEF Exit, Requests, Level, TInv, RunningOwned
  <2> QED BY <1>1, <1>2, <2>1, LeveledOne DEF Exit
<1>3. CASE Poll(r)
  <2>1. runs' = [runs EXCEPT ![r].at = "reading",
                             ![r].end = IF runs[r].end = None THEN "killed" ELSE runs[r].end]
    BY <1>1, <1>3 DEF Poll, Requests
  <2>2. proc' = [proc EXCEPT ![r] = "reaped"] /\ runs[r].at = "up"
    BY <1>1, <1>3 DEF Poll, Killed
  <2>3. Level(runs'[r], proc'[r]) BY <1>1, <2>1, <2>2 DEF Requests, Level, Active
  <2> QED BY <1>1, <2>1, <2>2, <2>3, LeveledOne
<1>4. CASE Read(r) \/ Fetch(r) \/ Clear(r)
  <2>1. Level(runs'[r], proc'[r])
    BY <1>1, <1>4 DEF Read, Fetch, Clear, Moves, Requests, Level, Active
  <2> QED BY <1>1, <1>4, <2>1, LeveledOne DEF Read, Fetch, Clear, Moves
<1>5. CASE Remove(r)
  <2>1. Level(runs'[r], proc'[r])
    BY <1>1, <1>5, ReserveAssumption DEF Remove, Requests, Level, Active, NoBase, Bases, Cold
  <2> QED BY <1>1, <1>5, <2>1, LeveledOne DEF Remove
<1> QED BY <1>2, <1>3, <1>4, <1>5 DEF Watch

LEMMA LeveledStep ==
    ASSUME TInv, Shows, Leveled, [Next]_vars
    PROVE  Leveled'
<1>1. runs \in [Runs -> Requests] /\ proc \in [Runs -> Procs]
  BY DEF TInv, Types, Shows
<1>2. ASSUME NEW r \in Runs, NEW t \in Tasks, NEW kind \in Kinds, NEW level \in {0, 2},
             Ask(r, t, kind, level)
      PROVE  Leveled'
  <2>1. Level(runs[r], proc[r]) /\ runs[r].at = "idle" BY <1>2 DEF Leveled, Ask, InTurn
  <2>2. /\ runs'[r].level = level /\ runs'[r].kind = kind /\ runs'[r].base = NoBase /\ runs'[r].task = t
        /\ runs'[r].at \in {"answered", "launching"}
        /\ proc'[r] = proc[r] \/ level = 0
    <3> DEFINE asked == [at |-> "answered", task |-> t, kind |-> kind, level |-> level,
                         base |-> NoBase, end |-> "refused"]
               taken == [at |-> "launching", task |-> t, kind |-> kind, level |-> level,
                         base |-> NoBase, end |-> None]
    <3>1. \/ runs' = [runs EXCEPT ![r] = asked] /\ UNCHANGED proc
          \/ runs' = [runs EXCEPT ![r] = taken] /\ (proc' = proc \/ level = 0)
      <4>1. CASE vivantes[t] # Nobody BY <1>2, <4>1 DEF Ask, Idle
      <4>2. CASE vivantes[t] = Nobody BY <1>2, <4>2 DEF Ask, Idle
      <4> QED BY <4>1, <4>2
    <3>2. runs'[r] \in {asked, taken} BY <1>1, <3>1
    <3> QED BY <3>1, <3>2
  <2>3. NoBase \notin Bases BY ReserveAssumption DEF NoBase, Bases, Cold
  <2>4. level = 2 => kind = "run" BY <1>2 DEF Ask
  <2>5. Level(runs'[r], proc'[r]) BY <2>1, <2>2, <2>3, <2>4 DEF Level, Active
  <2> QED BY <1>1, <1>2, <2>5, LeveledOne DEF Ask
<1>3. ASSUME NEW t \in Tasks, Kill(t)
      PROVE  Leveled'
  <2>1. PICK r \in Runs : /\ r = vivantes[t] /\ Level(runs[r], proc[r])
                          /\ runs[r].at \in Active \cup {"clearing"}
    BY <1>3 DEF Kill, Leveled, TInv, Types, Listed
  <2>2. runs' = [runs EXCEPT ![r].at = IF runs[r].kind = "start" THEN "answered" ELSE runs[r].at,
                             ![r].end = IF runs[r].end = None THEN "killed" ELSE runs[r].end]
    BY <1>1, <1>3, <2>1 DEF Kill, Requests
  <2>3. proc' = [proc EXCEPT ![r] = IF proc[r] = "running" THEN "zombie" ELSE proc[r]]
    BY <1>1, <1>3, <2>1 DEF Kill, Killed
  <2>4. CASE runs[r].kind # "start"
    <3>1. /\ runs'[r].at = runs[r].at /\ runs'[r].level = runs[r].level /\ runs'[r].task = runs[r].task
          /\ runs'[r].kind = runs[r].kind /\ runs'[r].base = runs[r].base
          /\ proc'[r] \in {"zombie", proc[r]}
      BY <1>1, <2>2, <2>3, <2>4 DEF Requests
    <3>2. Level(runs'[r], proc'[r]) BY <2>1, <3>1 DEF Level, Active
    <3> QED BY <1>1, <2>2, <2>3, <3>2, LeveledOne
  <2>5. CASE runs[r].kind = "start"
    <3>1. /\ runs'[r].at = "answered" /\ runs'[r].level = runs[r].level /\ runs'[r].task = runs[r].task
          /\ runs'[r].base = runs[r].base /\ proc'[r] \in {"zombie", proc[r]}
      BY <1>1, <2>2, <2>3, <2>5 DEF Requests
    <3>2. runs[r].level # 2 BY <2>1, <2>5 DEF Level
    <3>3. Level(runs'[r], proc'[r]) BY <2>1, <3>1, <3>2 DEF Level, Active
    <3> QED BY <1>1, <2>2, <2>3, <3>3, LeveledOne
  <2> QED BY <2>4, <2>5
<1>4. CASE Restart
  <2> SUFFICES ASSUME NEW r \in Runs
               PROVE  Level(runs'[r], proc'[r])
    BY DEF Leveled
  <2>1. /\ runs'[r].base = NoBase /\ runs'[r].at = (IF runs[r].at = "idle" THEN "idle" ELSE "answered")
        /\ runs'[r].task = runs[r].task
        /\ runs'[r].level = runs[r].level /\ runs'[r].kind = runs[r].kind /\ proc'[r] = "none"
    BY <1>1, <1>4 DEF Restart, Requests
  <2> QED BY <2>1, ReserveAssumption DEF Leveled, Level, NoBase, Bases, Cold, Active
<1>5. CASE UNCHANGED <<runs, proc>> BY <1>5 DEF Leveled
<1> QED
  BY <1>2, <1>3, <1>4, <1>5, LeveledLaunch, LeveledWatch
  DEF Next, Reserves, ChildGoesOn, Freeze, Thaw, Sweep, FreezeAll, vars

Disks ==
    /\ disk \in [Bases -> Runs \cup {Nobody}] /\ home \in [Tasks -> SUBSET Runs]
    /\ unfetched \subseteq Runs
LEMMA DisksStep ==
    ASSUME TInv, Leveled, Disks, [Next]_vars
    PROVE  Disks'
<1>1. ASSUME NEW r \in Runs, Warm(r) \/ BootCold(r)
      PROVE  Disks'
  BY <1>1 DEF Warm, BootCold, Imaged, Bases, Disks, disks
<1>2. ASSUME NEW r \in Runs, Fetch(r)
      PROVE  Disks'
  <2>1. runs[r].base \in Bases BY <1>2 DEF Leveled, Level, Fetch, Active
  <2>2. {disk[runs[r].base]} \ {Nobody} \subseteq Runs BY <2>1 DEF Disks
  <2> QED BY <1>2, <2>2 DEF Fetch, Disks
<1>3. ASSUME NEW r \in Runs, Remove(r)
      PROVE  Disks'
  BY <1>3 DEF Remove, Disks
<1>4. CASE Restart BY <1>4 DEF Restart, Disks
<1>5. CASE UNCHANGED disks BY <1>5 DEF disks, Disks
<1> QED
  BY <1>1, <1>2, <1>3, <1>4, <1>5 DEF Next, Launch, Watch, Ask, HelperReady, HelperDies, Release, Reserves,
     Exit, ChildGoesOn, Poll, Read, Clear, Freeze, Thaw, Kill, Sweep, FreezeAll, vars

\* The variables of Sandboxes and of its reserve keep their types.
THEOREM SandboxesTyped == Spec => []TypeOK
<1> DEFINE Inv == TInv /\ RInv /\ Swept /\ Shows /\ Sized /\ Leveled /\ Disks
<1>1. Inv => TypeOK
  BY DEF TInv, Types, RInv, RTypes, Swept, Shows, Procs, Shown, Sized, Disks, TypeOK
<1>2. Init => Inv
  <2> SUFFICES ASSUME Init PROVE Inv
    OBVIOUS
  <2>1. Swept /\ Disks BY DEF Init, Swept, Disks
  <2>2. Sized BY ReserveAssumption DEF Init, ReserveInit, Sized
  <2> QED BY <2>1, <2>2, TableAtStart, ReserveAtStart, ShowsAtStart, LeveledAtStart
<1>3. Inv /\ [Next]_vars => Inv'
  BY TableStep, ReserveSteps, SweptStep, ShowsStep, SizedStep, LeveledStep, DisksStep
<1> HIDE DEF Inv
<1> QED BY <1>1, <1>2, <1>3, PTL DEF Spec


-------------------------------------------------------------------------------
(* Files come home.  Machines of the reserve have a directory each; those  *)
(* booted without it share one, so that no two may be booted at a time.    *)

Imaging == \A r \in Runs : runs[r].base \in Bases => disk[runs[r].base] = r
Lone ==
    /\ \A q, r \in Runs : runs[q].base = Cold /\ runs[r].base = Cold => q = r
    /\ \A r \in Runs : runs[r].at \in Launching /\ runs[r].level = 2 =>
                          \A q \in Runs : runs[q].base # Cold
Late == {"removing", "clearing", "answered"}
Homes == \A t \in Tasks : \A r \in home[t] : r \in Runs /\ runs[r].task = t /\ runs[r].at # "idle"
Fetched(r) == runs[r].level = 2 /\ runs[r].end = "exited" /\ runs[r].at \in Late
Ended == \A r \in Runs : Fetched(r) => r \in home[runs[r].task] \cup unfetched
HInv == Imaging /\ Lone /\ Homes /\ Ended

LEMMA HomeAtStart == ASSUME Init PROVE HInv
BY ReserveAssumption DEF Init, HInv, Imaging, Lone, Homes, Ended, Fetched, Idle, NoBase, Cold, Bases,
    Launching

\* A step that leaves the disks alone, and every request with its task, its level and its
\* machine; what it ends is not at level 2, and it launches nothing.
LEMMA HomeKept ==
    ASSUME HInv, UNCHANGED disks,
           \A r \in Runs :
              /\ runs'[r].task = runs[r].task /\ runs'[r].level = runs[r].level
              /\ runs'[r].base = runs[r].base
              /\ runs'[r].at \in Launching => runs[r].at \in Launching
              /\ runs'[r].at = "idle" => runs[r].at = "idle"
              /\ Fetched(r)' => Fetched(r)
    PROVE  HInv'
<1>1. UNCHANGED <<disk, home, unfetched>> BY DEF disks
<1>2. Imaging' BY <1>1 DEF HInv, Imaging
<1>3. Lone' BY DEF HInv, Lone
<1>4. Homes' BY <1>1 DEF HInv, Homes
<1>5. Ended' BY <1>1 DEF HInv, Ended
<1> QED BY <1>2, <1>3, <1>4, <1>5 DEF HInv

\* A step that changes one request so.
LEMMA HomeOne ==
    ASSUME HInv, UNCHANGED disks, NEW r \in Runs, \A q \in Runs \ {r} : runs'[q] = runs[q],
           runs'[r].task = runs[r].task, runs'[r].level = runs[r].level, runs'[r].base = runs[r].base,
           runs'[r].at \in Launching => runs[r].at \in Launching, runs'[r].at # "idle",
           Fetched(r)' => Fetched(r)
    PROVE  HInv'
<1>1. \A q \in Runs \ {r} : Fetched(q)' => Fetched(q) BY DEF Fetched
<1>2. \A q \in Runs :
              /\ runs'[q].task = runs[q].task /\ runs'[q].level = runs[q].level
              /\ runs'[q].base = runs[q].base
              /\ runs'[q].at \in Launching => runs[q].at \in Launching
              /\ runs'[q].at = "idle" => runs[q].at = "idle"
              /\ Fetched(q)' => Fetched(q)
  BY <1>1
<1> QED BY <1>2, HomeKept

\* A level 2 request is launched when none has a machine booted without the reserve.
LEMMA HomeAsked ==
    ASSUME ColdAtOnce \in {0, 1}, TInv, Leveled, Disks, HInv, NEW r \in Runs, NEW t \in Tasks,
           NEW kind \in Kinds, NEW level \in {0, 2}, Ask(r, t, kind, level)
    PROVE  HInv'
<1>1. runs \in [Runs -> Requests] /\ runs[r].at = "idle" /\ lock = Nobody /\ UNCHANGED <<disk, home, unfetched>>
  BY DEF TInv, Types, Ask, InTurn, disks
<1>2. \A q \in Runs \ {r} : runs'[q] = runs[q] BY <1>1 DEF Ask
<1>3. /\ runs'[r].level = level /\ runs'[r].base = NoBase /\ runs'[r].end \in {"refused", None}
      /\ runs'[r].at \in {"answered", "launching"}
  <2> DEFINE asked == [at |-> "answered", task |-> t, kind |-> kind, level |-> level,
                       base |-> NoBase, end |-> "refused"]
             taken == [at |-> "launching", task |-> t, kind |-> kind, level |-> level,
                       base |-> NoBase, end |-> None]
  <2>1. runs' = [runs EXCEPT ![r] = asked] \/ runs' = [runs EXCEPT ![r] = taken]
    <3>1. CASE vivantes[t] # Nobody BY <3>1 DEF Ask, Idle
    <3>2. CASE vivantes[t] = Nobody BY <3>2 DEF Ask, Idle
    <3> QED BY <3>1, <3>2
  <2>2. runs'[r] \in {asked, taken} BY <1>1, <2>1
  <2> QED BY <2>2
<1>4. NoBase \notin Bases /\ Cold \in Bases BY ReserveAssumption DEF NoBase, Bases, Cold
<1>5. Imaging' BY <1>1, <1>2, <1>3, <1>4 DEF HInv, Imaging
<1>6. \A q \in Runs : runs[q].at \notin Launching
  BY <1>1, SandboxesAssumption DEF TInv, Held, Nobody
<1>7. level = 2 => \A q \in Runs : runs[q].base # Cold
  <2> SUFFICES ASSUME level = 2, NEW q \in Runs, runs[q].base = Cold
               PROVE  FALSE
    OBVIOUS
  <2>1. q \in Booted BY <1>4 DEF Booted, Leveled, Level
  <2>2. Booted = {q} BY <2>1 DEF Booted, HInv, Lone
  <2>3. Cardinality(Booted) = 1 BY <2>2, FS_Singleton
  <2>4. Cardinality(Booted) < ColdAtOnce BY DEF Ask
  <2> QED BY <2>3, <2>4
<1>8. Lone' BY <1>2, <1>3, <1>4, <1>6, <1>7 DEF HInv, Lone
<1>9. Homes' BY <1>1, <1>2 DEF HInv, Homes
<1>10. ~Fetched(r)' BY <1>3 DEF Fetched, None
<1>11. Ended'
  <2> SUFFICES ASSUME NEW q \in Runs, Fetched(q)'
               PROVE  q \in home'[runs'[q].task] \cup unfetched'
    BY DEF Ended
  <2>1. runs'[q] = runs[q] /\ Fetched(q) BY <1>2, <1>10 DEF Fetched
  <2> QED BY <1>1, <2>1 DEF HInv, Ended
<1> QED BY <1>5, <1>8, <1>9, <1>11 DEF HInv

\* A request gets a machine no other has, and its work disk is made there.
LEMMA HomeEntering ==
    ASSUME TInv, Leveled, Disks, HInv, NEW r \in Runs, NEW b \in Bases, Imaged(r, b), Machine(r, b),
           runs[r].at \in Launching, runs[r].level = 2, \A q \in Runs : runs[q].base # b
    PROVE  HInv'
<1>1. runs \in [Runs -> Requests] BY DEF TInv, Types
<1>2. /\ \A q \in Runs \ {r} : runs'[q] = runs[q]
      /\ runs'[r].at = "up" /\ runs'[r].base = b /\ runs'[r].task = runs[r].task
  BY <1>1 DEF Machine, Requests
<1>3. disk' \in [Bases -> Runs \cup {Nobody}] /\ disk'[b] = r /\ UNCHANGED <<home, unfetched>>
      /\ \A c \in Bases \ {b} : disk'[c] = disk[c]
  BY DEF Imaged, Disks
<1>4. Imaging'
  <2> SUFFICES ASSUME NEW q \in Runs, runs'[q].base \in Bases
               PROVE  disk'[runs'[q].base] = q
    BY DEF Imaging
  <2>1. CASE q = r BY <1>2, <1>3, <2>1
  <2>2. CASE q # r
    <3>1. runs'[q] = runs[q] /\ runs[q].base # b BY <1>2, <2>2
    <3> QED BY <1>3, <3>1 DEF HInv, Imaging
  <2> QED BY <2>1, <2>2
<1>5. \A q \in Runs : runs[q].base # Cold /\ (q # r => runs[q].at \notin Launching)
  BY SandboxesAssumption DEF HInv, Lone, TInv, Held
<1>6. Lone' BY <1>2, <1>5 DEF Lone, Launching
<1>7. Homes' BY <1>2, <1>3 DEF HInv, Homes
<1>8. ~Fetched(r)' BY <1>2 DEF Fetched, Late
<1>9. Ended'
  <2> SUFFICES ASSUME NEW q \in Runs, Fetched(q)'
               PROVE  q \in home'[runs'[q].task] \cup unfetched'
    BY DEF Ended
  <2>1. runs'[q] = runs[q] /\ Fetched(q) BY <1>2, <1>8 DEF Fetched
  <2> QED BY <1>3, <2>1 DEF HInv, Ended
<1> QED BY <1>4, <1>6, <1>7, <1>9 DEF HInv

\* The steps of a launch.
LEMMA HomeLaunch ==
    ASSUME TInv, RInv, Leveled, Disks, HInv, NEW r \in Runs, Launch(r) \/ HelperDies(r)
    PROVE  HInv'
<1>1. runs \in [Runs -> Requests] /\ Level(runs[r], proc[r]) BY DEF TInv, Types, Leveled
<1>2. CASE HelperReady(r) \/ HelperDies(r)
  <2>1. UNCHANGED <<runs, disks>> BY <1>2 DEF HelperReady, HelperDies
  <2> QED BY <2>1, HomeKept DEF Fetched
<1>3. CASE Release(r)
  <2>1. runs[r].level = 0 /\ UNCHANGED disks BY <1>1, <1>3 DEF Release, Level
  <2>2. /\ \A q \in Runs \ {r} : runs'[q] = runs[q]
        /\ runs'[r].task = runs[r].task /\ runs'[r].level = runs[r].level
        /\ runs'[r].base = runs[r].base /\ runs'[r].at \in {"up", "answered"}
    BY <1>1, <1>3 DEF Release, Moves, Fails, Requests
  <2>3. ~Fetched(r)' BY <2>1, <2>2 DEF Fetched
  <2> QED BY <2>1, <2>2, <2>3, HomeOne DEF Launching
<1>4. CASE Warm(r)
  <2>1. CASE Moves(r, "cold") /\ UNCHANGED disks
    <3>1. /\ \A q \in Runs \ {r} : runs'[q] = runs[q]
          /\ runs'[r].task = runs[r].task /\ runs'[r].level = runs[r].level
          /\ runs'[r].base = runs[r].base /\ runs'[r].at = "cold" /\ runs[r].at = "launching"
      BY <1>1, <1>4, <2>1 DEF Warm, Moves, Requests
    <3>2. ~Fetched(r)' BY <3>1 DEF Fetched, Late
    <3> QED BY <2>1, <3>1, <3>2, HomeOne DEF Launching
  <2>2. ASSUME NEW m \in Machines, Take(m), Imaged(r, m), Machine(r, m)
        PROVE  HInv'
    <3>1. m \notin out
      <4>1. ready \in Seq(Machines) /\ ready # <<>> /\ m = ready[1] BY <2>2 DEF Take, RInv, RTypes
      <4>2. 1 \in 1 .. Len(ready) BY <4>1
      <4> QED BY <4>1, <4>2 DEF RInv, Apart
    <3>2. \A q \in Runs : runs[q].base # m BY <3>1 DEF RInv, Based
    <3>3. m \in Bases /\ runs[r].at \in Launching /\ runs[r].level = 2
      BY <1>4 DEF Bases, Warm, Launching
    <3> QED BY <2>2, <3>2, <3>3, HomeEntering
  <2> QED BY <1>4, <2>1, <2>2 DEF Warm
<1>5. CASE BootCold(r)
  <2>1. runs[r].at \in Launching /\ runs[r].level = 2 /\ Imaged(r, Cold) /\ Cold \in Bases
    BY <1>1, <1>5 DEF BootCold, Launching, Level, Bases
  <2>2. \A q \in Runs : runs[q].base # Cold BY <2>1 DEF HInv, Lone
  <2>3. CASE Machine(r, Cold) BY <2>1, <2>2, <2>3, HomeEntering
  <2>4. CASE Fails(r)
    <3>1. /\ \A q \in Runs \ {r} : runs'[q] = runs[q]
          /\ runs'[r].task = runs[r].task /\ runs'[r].base = runs[r].base
          /\ runs'[r].at = "answered" /\ runs'[r].end = "failed"
      BY <1>1, <2>4 DEF Fails, Requests
    <3>2. UNCHANGED <<home, unfetched>> /\ \A c \in Bases \ {Cold} : disk'[c] = disk[c]
      BY <2>1 DEF Imaged, Disks
    <3>3. \A q \in Runs : runs'[q].base = runs[q].base /\ runs'[q].task = runs[q].task
      BY <3>1
    <3>4. Imaging' BY <2>2, <3>2, <3>3 DEF HInv, Imaging
    <3>5. Lone' BY <2>2, <3>3 DEF Lone
    <3>6. Homes' BY <3>1, <3>2 DEF HInv, Homes
    <3>7. ~Fetched(r)' /\ \A q \in Runs \ {r} : Fetched(q)' => Fetched(q) BY <3>1 DEF Fetched
    <3>8. Ended' BY <3>2, <3>3, <3>7 DEF HInv, Ended
    <3> QED BY <3>4, <3>5, <3>6, <3>8 DEF HInv
  <2> QED BY <1>5, <2>3, <2>4 DEF BootCold
<1> QED BY <1>2, <1>3, <1>4, <1>5 DEF Launch


\* The command, and the thread of its request.
LEMMA HomeWatch ==
    ASSUME TInv, RInv, Leveled, Disks, HInv, NEW r \in Runs, Exit(r) \/ Watch(r) \/ Clear(r)
    PROVE  HInv'
<1>1. runs \in [Runs -> Requests] /\ Level(runs[r], proc[r]) BY DEF TInv, Types, Leveled
<1>2. CASE Exit(r)
  <2>1. /\ \A q \in Runs \ {r} : runs'[q] = runs[q]
        /\ runs'[r].task = runs[r].task /\ runs'[r].level = runs[r].level
        /\ runs'[r].base = runs[r].base /\ runs'[r].at = "up" /\ UNCHANGED disks
    BY <1>1, <1>2 DEF Exit, Requests, TInv, RunningOwned
  <2>2. ~Fetched(r)' BY <2>1 DEF Fetched, Late
  <2> QED BY <2>1, <2>2, HomeOne DEF Launching
<1>3. CASE Poll(r)
  <2>1. runs' = [runs EXCEPT ![r].at = "reading",
                             ![r].end = IF runs[r].end = None THEN "killed" ELSE runs[r].end]
    BY <1>1, <1>3 DEF Poll, Requests
  <2>2. /\ \A q \in Runs \ {r} : runs'[q] = runs[q]
        /\ runs'[r].task = runs[r].task /\ runs'[r].level = runs[r].level
        /\ runs'[r].base = runs[r].base /\ runs'[r].at = "reading" /\ UNCHANGED disks
    BY <1>1, <1>3, <2>1 DEF Poll, Requests
  <2>3. ~Fetched(r)' BY <2>2 DEF Fetched, Late
  <2> QED BY <2>2, <2>3, HomeOne DEF Launching
<1>4. CASE Read(r) \/ Clear(r)
  <2>1. /\ \A q \in Runs \ {r} : runs'[q] = runs[q]
        /\ runs'[r].task = runs[r].task /\ runs'[r].level = runs[r].level
        /\ runs'[r].base = runs[r].base /\ runs'[r].end = runs[r].end /\ UNCHANGED disks
        /\ runs'[r].at \in {"fetching", "clearing", "answered"}
    BY <1>1, <1>4 DEF Read, Clear, Moves, Requests
  <2>2. Fetched(r)' => Fetched(r)
    BY <1>1, <1>4, <2>1 DEF Read, Clear, Moves, Requests, Fetched, Late
  <2> QED BY <2>1, <2>2, HomeOne DEF Launching
<1>5. CASE Fetch(r)
  <2> DEFINE t == runs[r].task
  <2>1. /\ \A q \in Runs \ {r} : runs'[q] = runs[q]
        /\ runs'[r].task = t /\ runs'[r].level = runs[r].level
        /\ runs'[r].base = runs[r].base /\ runs'[r].at = "removing"
    BY <1>1, <1>5 DEF Fetch, Moves, Requests
  <2>2. disk[runs[r].base] = r /\ runs[r].base \in Bases /\ UNCHANGED disk
    BY <1>1, <1>5 DEF Fetch, HInv, Imaging, Level, Active
  <2>3. r # Nobody BY SandboxesAssumption DEF Nobody
  <2>4. \/ home' = [home EXCEPT ![t] = @ \cup {r}] /\ UNCHANGED unfetched
        \/ UNCHANGED home /\ unfetched' = unfetched \cup {r}
    BY <1>5, <2>2, <2>3 DEF Fetch
  <2>5. home \in [Tasks -> SUBSET Runs] BY DEF Disks
  <2>6. t \in Tasks BY <1>1, <1>5 DEF Level, Fetch
  <2>7. Imaging' BY <2>1, <2>2 DEF HInv, Imaging
  <2>8. Lone' BY <2>1 DEF HInv, Lone, Launching
  <2>9. Homes'
    <3> SUFFICES ASSUME NEW u \in Tasks, NEW q \in home'[u]
                 PROVE  q \in Runs /\ runs'[q].task = u /\ runs'[q].at # "idle"
      BY DEF Homes
    <3>1. q \in home[u] \/ (q = r /\ u = t) BY <2>4, <2>5, <2>6
    <3>2. CASE q \in home[u]
      <4>1. q \in Runs /\ runs[q].task = u /\ runs[q].at # "idle" BY <3>2 DEF HInv, Homes
      <4> QED BY <2>1, <4>1
    <3>3. CASE q = r /\ u = t BY <2>1, <3>3
    <3> QED BY <3>1, <3>2, <3>3
  <2>10. Ended'
    <3> SUFFICES ASSUME NEW q \in Runs, Fetched(q)'
                 PROVE  q \in home'[runs'[q].task] \cup unfetched'
      BY DEF Ended
    <3>1. CASE q = r
      BY <2>1, <2>4, <2>5, <2>6, <3>1
    <3>2. CASE q # r
      <4>1. runs'[q] = runs[q] /\ Fetched(q) BY <2>1, <3>2 DEF Fetched
      <4>2. q \in home[runs[q].task] \cup unfetched BY <4>1 DEF HInv, Ended
      <4>3. runs[q].task \in Tasks BY <4>1 DEF Leveled, Level, Fetched, Late
      <4> DEFINE u == runs[q].task
      <4>4. home[u] \subseteq home'[u] BY <2>4, <2>5, <2>6, <4>3
      <4>5. unfetched \subseteq unfetched' BY <2>4
      <4> QED BY <4>1, <4>2, <4>4, <4>5
    <3> QED BY <3>1, <3>2
  <2> QED BY <2>7, <2>8, <2>9, <2>10 DEF HInv

<1>6. CASE Remove(r)
  <2> DEFINE b == runs[r].base
  <2>1. /\ \A q \in Runs \ {r} : runs'[q] = runs[q]
        /\ runs'[r].task = runs[r].task /\ runs'[r].level = runs[r].level
        /\ runs'[r].base = NoBase /\ runs'[r].at = "clearing" /\ runs'[r].end = runs[r].end
        /\ runs[r].at = "removing" /\ UNCHANGED <<home, unfetched>>
    BY <1>1, <1>6 DEF Remove, Requests
  <2>2. disk \in [Bases -> Runs \cup {Nobody}] /\ disk' = [disk EXCEPT ![b] = Nobody]
    BY <1>6 DEF Disks, Remove
  <2>3. NoBase \notin Bases BY ReserveAssumption DEF NoBase, Bases, Cold
  <2>4. Imaging'
    <3> SUFFICES ASSUME NEW q \in Runs, runs'[q].base \in Bases
                 PROVE  disk'[runs'[q].base] = q
      BY DEF Imaging
    <3>1. q # r /\ runs'[q] = runs[q] /\ runs[q].base \in Bases BY <2>1, <2>3
    <3>2. b \in Bases BY <1>1, <2>1 DEF Level, Active
    <3>3. disk[runs[q].base] = q /\ disk[b] = r BY <3>1, <3>2 DEF HInv, Imaging
    <3>4. runs[q].base # b BY <3>1, <3>3
    <3> QED BY <2>2, <3>1, <3>3, <3>4
  <2>5. Lone' BY <2>1, <2>3 DEF HInv, Lone, Launching, Bases
  <2>6. Homes' BY <2>1 DEF HInv, Homes
  <2>7. \A q \in Runs : Fetched(q)' => Fetched(q) BY <2>1 DEF Fetched, Late
  <2>8. Ended' BY <2>1, <2>7 DEF HInv, Ended
  <2> QED BY <2>4, <2>5, <2>6, <2>8 DEF HInv
<1> QED BY <1>2, <1>3, <1>4, <1>5, <1>6 DEF Watch

\* What is killed at level 2 goes on to its end; what was started and is answered is at level 0.
LEMMA HomeKill ==
    ASSUME TInv, Leveled, HInv, NEW t \in Tasks, Kill(t)
    PROVE  HInv'
<1>1. runs \in [Runs -> Requests] BY DEF TInv, Types
<1>2. PICK r \in Runs : /\ r = vivantes[t] /\ Level(runs[r], proc[r])
                        /\ runs[r].at \in Active \cup {"clearing"}
  BY DEF Kill, Leveled, TInv, Types, Listed
<1>3. runs' = [runs EXCEPT ![r].at = IF runs[r].kind = "start" THEN "answered" ELSE runs[r].at,
                           ![r].end = IF runs[r].end = None THEN "killed" ELSE runs[r].end]
  BY <1>1, <1>2 DEF Kill, Requests
<1>4. /\ \A q \in Runs \ {r} : runs'[q] = runs[q]
      /\ runs'[r].task = runs[r].task /\ runs'[r].level = runs[r].level
      /\ runs'[r].base = runs[r].base
      /\ runs'[r].at = IF runs[r].kind = "start" THEN "answered" ELSE runs[r].at
      /\ runs'[r].end = IF runs[r].end = None THEN "killed" ELSE runs[r].end
  BY <1>1, <1>3 DEF Requests
<1>5. Fetched(r)' => Fetched(r) BY <1>2, <1>4 DEF Fetched, Level
<1>6. UNCHANGED disks BY DEF Kill
<1>7. runs'[r].at \notin Launching \cup {"idle"} BY <1>2, <1>4 DEF Active, Launching
<1> QED BY <1>4, <1>5, <1>6, <1>7, HomeOne

\* What ends with the service was lost, and is not of those that came to their end.
LEMMA HomeRestart ==
    ASSUME TInv, HInv, Restart
    PROVE  HInv'
<1>1. runs \in [Runs -> Requests] /\ UNCHANGED <<home, unfetched>> BY DEF TInv, Types, Restart
<1>2. \A r \in Runs :
        /\ runs'[r].task = runs[r].task /\ runs'[r].level = runs[r].level /\ runs'[r].base = NoBase
        /\ runs'[r].at = (IF runs[r].at = "idle" THEN "idle" ELSE "answered")
        /\ runs'[r].end = (IF runs[r].at \in {"idle", "answered"} THEN runs[r].end ELSE "lost")
  BY <1>1 DEF Restart, Requests
<1>3. NoBase \notin Bases /\ NoBase # Cold BY ReserveAssumption DEF NoBase, Bases, Cold
<1>4. Imaging' /\ Lone' BY <1>2, <1>3 DEF Imaging, Lone, Launching
<1>5. Homes' BY <1>1, <1>2 DEF HInv, Homes
<1>6. \A r \in Runs : Fetched(r)' => Fetched(r) BY <1>2 DEF Fetched, Late
<1>7. Ended' BY <1>1, <1>2, <1>6 DEF HInv, Ended
<1> QED BY <1>4, <1>5, <1>7 DEF HInv

LEMMA HomeStep ==
    ASSUME ColdAtOnce \in {0, 1}, TInv, RInv, Leveled, Disks, HInv, [Next]_vars
    PROVE  HInv'
<1>1. CASE UNCHANGED <<runs, disks>> BY <1>1, HomeKept DEF Fetched
<1> QED
  BY <1>1, HomeAsked, HomeLaunch, HomeWatch, HomeKill, HomeRestart
  DEF Next, Reserves, ChildGoesOn, Freeze, Thaw, Sweep, FreezeAll, vars

\* A mission gets back the files of its own commands and no others, all of them but those the
\* answer says are lost, through kills, restarts and machines given up, as long as no two machines are booted without the
\* reserve at a time (rapatrier; SandboxesShareDisk shows what two do).
THEOREM FilesComeHome == ASSUME ColdAtOnce \in {0, 1} PROVE Spec => []WorkComesHome
<1> DEFINE Inv == TInv /\ RInv /\ Swept /\ Shows /\ Leveled /\ Disks /\ HInv
<1>1. Inv => WorkComesHome
  BY DEF HInv, Homes, Ended, Fetched, Late, WorkComesHome
<1>2. Init => Inv
  <2> SUFFICES ASSUME Init PROVE Inv
    OBVIOUS
  <2>1. Swept /\ Disks BY DEF Init, Swept, Disks
  <2> QED BY <2>1, TableAtStart, ReserveAtStart, ShowsAtStart, LeveledAtStart, HomeAtStart
<1>3. Inv /\ [Next]_vars => Inv'
  BY TableStep, ReserveSteps, SweptStep, ShowsStep, LeveledStep, DisksStep, HomeStep
<1> HIDE DEF Inv
<1> QED BY <1>1, <1>2, <1>3, PTL DEF Spec

===============================================================================
