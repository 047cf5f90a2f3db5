------------------------------- MODULE Sandboxes -------------------------------
(***************************************************************************)
(* prophet-sandboxd: the sandboxes that are alive, by task, the commands   *)
(* that run in them, and what a human may do to them meanwhile.            *)
(*                                                                         *)
(* A command is launched under the lock of the table (vivantes), put on    *)
(* the table, then watched by the thread of its request without that lock: *)
(* its end or its delay, its output, at level 2 the work disk that is      *)
(* copied back into the directory of the task, and its place on the table. *)
(* Freezing, thawing and stopping signal the group of processes of what is *)
(* on the table, whatever point its thread has reached.                    *)
(*                                                                         *)
(* A level 2 command runs in a machine of the reserve if one is ready, in  *)
(* one booted for it otherwise.  All the machines booted this way share    *)
(* one directory, named after the pid of the service.                      *)
(*                                                                         *)
(* Level 1 (gVisor) is launched as level 0 without its handshake and is    *)
(* left out, as are probes of the machine and the confinement itself.  A   *)
(* pid is not given to another process while a handle still has it.        *)
(***************************************************************************)
EXTENDS Reserve

CONSTANTS
    Tasks,      \* missions that run commands, naturals
    Runs,       \* requests to run a command, naturals, each used once
    Kinds,      \* {"run"}: answered at the end; {"start"}: answered once launched
    ColdAtOnce  \* bound on the machines booted without the reserve at a time

ASSUME SandboxesAssumption ==
    Tasks \subseteq Nat \ {0} /\ Runs \subseteq Nat \ {0} /\ ColdAtOnce \in Nat

Nobody == 0
Human == -1
Cold == -2   \* the directory of machines booted without the reserve
NoBase == -3

VARIABLES
    lock,     \* who holds the lock of the table: a run being launched, Human, or Nobody
    vivantes, \* vivantes[t]: the run whose sandbox is on the table, or Nobody
    sweep,    \* freeze_all: the tasks that are still to be frozen
    runs,     \* where each request is, its task, kind, level, directory, and its end
    proc,     \* the process of its sandbox
    left,     \* runs of which a child process outlives the command, its output still open
    strays,   \* runs of which a child process outlives the command, its output closed
    stopped,  \* runs whose processes are stopped by a signal
    shown,    \* what the handle says of its state
    disk,     \* disk[b]: the run whose files are on the work disk in directory b, or Nobody
    home,     \* home[t]: the runs whose files were copied back to the directory of t
    unfetched \* runs whose answer says that their files were not copied back

table == <<lock, vivantes, sweep>>
disks == <<disk, home, unfetched>>
vars == <<reserve, table, runs, proc, left, strays, stopped, shown, disks>>

Bases == Machines \cup {Cold}
Idle == [at |-> "idle", task |-> Nobody, kind |-> "run", level |-> 0, base |-> NoBase, end |-> None]
Moves(r, at) == runs' = [runs EXCEPT ![r].at = at]
Executes(r) == r \notin stopped /\ (proc[r] = "running" \/ r \in left \cup strays)

-------------------------------------------------------------------------------
(* Launching.                                                              *)

Active == {"up", "reading", "fetching", "removing"}
Booted == {r \in Runs : runs[r].base = Cold /\ runs[r].at \in Active}
\* Requests are alike, and so are tasks: they come in their order.
InTurn(r, t) ==
    /\ runs[r].at = "idle" /\ \A q \in Runs : runs[q].at = "idle" => r <= q
    /\ \A u \in Tasks : u < t => \E q \in Runs : runs[q].task = u

\* sandbox.run, sandbox.start: a task has one sandbox at most; the lock is kept.
Ask(r, t, kind, level) ==
    /\ lock = Nobody /\ InTurn(r, t)
    /\ level = 2 => kind = "run" /\ Cardinality(Booted) < ColdAtOnce   \* bounds
    /\ LET asked == [Idle EXCEPT !.task = t, !.kind = kind, !.level = level]
       IN IF vivantes[t] # Nobody
          THEN /\ runs' = [runs EXCEPT ![r] = [asked EXCEPT !.at = "answered", !.end = "refused"]]
               /\ UNCHANGED <<lock, proc>>
          ELSE /\ runs' = [runs EXCEPT ![r] = [asked EXCEPT !.at = "launching"]]
               /\ lock' = r
               /\ proc' = IF level = 0 THEN [proc EXCEPT ![r] = "booting"] ELSE proc
    /\ UNCHANGED <<reserve, vivantes, sweep, left, strays, stopped, shown, disks>>

\* Put on the table, and the lock is let go.
Enters(r) ==
    /\ vivantes' = [vivantes EXCEPT ![runs[r].task] = r]
    /\ lock' = Nobody /\ proc' = [proc EXCEPT ![r] = "running"]
    /\ shown' = [shown EXCEPT ![r] = "running"]
Fails(r) ==
    /\ runs' = [runs EXCEPT ![r].at = "answered", ![r].end = "failed"]
    /\ lock' = Nobody /\ UNCHANGED <<vivantes, shown>>

\* Level 0: the helper makes its namespaces and says so, or dies before; it is told to go on
\* once its identities are mapped.
HelperReady(r) ==
    /\ proc[r] = "booting" /\ proc' = [proc EXCEPT ![r] = "ready"]
    /\ UNCHANGED <<reserve, table, runs, left, strays, stopped, shown, disks>>
HelperDies(r) ==
    /\ proc[r] = "booting" /\ Strike("helper") /\ proc' = [proc EXCEPT ![r] = "zombie"]
    /\ UNCHANGED <<image, snapshot, thread, making, ready, out, made, broken,
                   table, runs, left, strays, stopped, shown, disks>>
Release(r) ==
    /\ runs[r].at = "launching" /\ proc[r] = "ready"
    /\ \/ Enters(r) /\ Moves(r, "up") /\ UNCHANGED faults
       \/ Strike("map") /\ Fails(r) /\ proc' = [proc EXCEPT ![r] = "reaped"]
    /\ UNCHANGED <<image, snapshot, thread, making, ready, out, made, broken,
                   sweep, left, strays, stopped, disks>>

\* disque_de_travail: a new file, or what was there is written over.
Imaged(r, b) == disk' = [disk EXCEPT ![b] = r] /\ UNCHANGED <<home, unfetched>>
Machine(r, b) == runs' = [runs EXCEPT ![r].at = "up", ![r].base = b]
\* Level 2, in a machine of the reserve; one that refuses is given up with its directory.
Warm(r) ==
    /\ runs[r].at = "launching" /\ runs[r].level = 2
    /\ \/ /\ ready = <<>> /\ Moves(r, "cold")
          /\ UNCHANGED <<lock, vivantes, proc, shown, thread, ready, out, faults, disks>>
       \/ \E m \in Machines :
             /\ Take(m)
             /\ Enters(r) /\ Imaged(r, m) /\ Machine(r, m) /\ UNCHANGED faults
       \/ /\ ready # <<>> /\ Strike("refuse") /\ Moves(r, "cold")
          /\ ready' = Tail(ready)
          /\ thread' = IF thread = "waiting" THEN "filling" ELSE thread
          /\ UNCHANGED <<lock, vivantes, proc, shown, out, disks>>
    /\ UNCHANGED <<image, snapshot, making, made, broken, sweep, left, strays, stopped>>
\* launch_microvm: in a machine booted for it.
BootCold(r) ==
    /\ runs[r].at = "cold"
    /\ Imaged(r, Cold)
    /\ \/ Enters(r) /\ Machine(r, Cold) /\ UNCHANGED faults
       \/ Strike("cold") /\ Fails(r) /\ UNCHANGED proc
    /\ UNCHANGED <<image, snapshot, thread, making, ready, out, made, broken,
                   sweep, left, strays, stopped>>

-------------------------------------------------------------------------------
(* The command, and the thread of its request (executer_bornee).           *)

Exit(r) ==
    /\ proc[r] = "running" /\ r \notin stopped
    /\ proc' = [proc EXCEPT ![r] = "zombie"]
    /\ runs' = [runs EXCEPT ![r].end = "exited"]
    /\ \/ UNCHANGED <<left, strays, faults>>
       \/ runs[r].level = 0 /\ Strike("child") /\ left' = left \cup {r} /\ UNCHANGED strays
       \/ runs[r].level = 0 /\ Strike("stray") /\ strays' = strays \cup {r} /\ UNCHANGED left
    /\ UNCHANGED <<image, snapshot, thread, making, ready, out, made, broken,
                   table, stopped, shown, disks>>
\* The last child that holds the output closes it or ends, a last child ends.
ChildGoesOn(r) ==
    /\ r \notin stopped
    /\ \/ r \in left /\ left' = left \ {r} /\ strays' \in {strays, strays \cup {r}}
       \/ r \in strays /\ strays' = strays \ {r} /\ UNCHANGED left
    /\ UNCHANGED <<reserve, table, runs, proc, stopped, shown, disks>>

\* SIGKILL to the group.
Killed(r, next) ==
    /\ proc' = [proc EXCEPT ![r] = IF @ = "running" THEN next ELSE @]
    /\ left' = left \ {r} /\ strays' = strays \ {r} /\ stopped' = stopped \ {r}
\* Mutant: the delay of a frozen command does not run.
PollAwake(r) ==
    /\ runs[r].kind = "run" /\ runs[r].at = "up"
    /\ \/ /\ proc[r] = "zombie" /\ proc' = [proc EXCEPT ![r] = "reaped"]
          /\ UNCHANGED <<left, strays, stopped>>
       \/ proc[r] = "running" /\ r \notin stopped /\ Killed(r, "reaped")
    /\ shown' = [shown EXCEPT ![r] = "exited"]
    /\ runs' = [runs EXCEPT ![r].at = "reading", ![r].end = IF @ = None THEN "killed" ELSE @]
    /\ UNCHANGED <<reserve, table, disks>>
\* The end of the command, reaped, or its delay, frozen or not.
Poll(r) ==
    /\ runs[r].kind = "run" /\ runs[r].at = "up"
    /\ \/ /\ proc[r] = "zombie" /\ proc' = [proc EXCEPT ![r] = "reaped"]
          /\ UNCHANGED <<left, strays, stopped>>
       \/ proc[r] = "running" /\ Killed(r, "reaped")
    /\ shown' = [shown EXCEPT ![r] = "exited"]
    /\ runs' = [runs EXCEPT ![r].at = "reading", ![r].end = IF @ = None THEN "killed" ELSE @]
    /\ UNCHANGED <<reserve, table, disks>>
\* Its output is read to its end: until nobody holds it open.
Read(r) ==
    /\ runs[r].at = "reading" /\ r \notin left
    /\ Moves(r, IF runs[r].level = 2 THEN "fetching" ELSE "clearing")
    /\ UNCHANGED <<reserve, table, proc, left, strays, stopped, shown, disks>>
\* rapatrier: what is in the directory of the machine by then.  It may fail, and copy nothing or
\* a part: the answer says so, and the directory of the machine is removed all the same.
Fetch(r) ==
    /\ runs[r].at = "fetching"
    /\ \/ /\ home' = [home EXCEPT ![runs[r].task] = @ \cup ({disk[runs[r].base]} \ {Nobody})]
          /\ UNCHANGED <<unfetched, faults>>
       \/ Strike("fetch") /\ unfetched' = unfetched \cup {r} /\ UNCHANGED home
    /\ Moves(r, "removing")
    /\ UNCHANGED <<image, snapshot, thread, making, ready, out, made, broken,
                   table, proc, left, strays, stopped, shown, disk>>
Remove(r) ==
    /\ runs[r].at = "removing"
    /\ disk' = [disk EXCEPT ![runs[r].base] = Nobody]
    /\ out' = out \ {runs[r].base}
    /\ made' = [m \in Machines |-> IF m = runs[r].base THEN None ELSE made[m]]
    /\ runs' = [runs EXCEPT ![r].at = "clearing", ![r].base = NoBase]
    /\ UNCHANGED <<image, snapshot, thread, making, ready, broken, faults,
                   table, proc, left, strays, stopped, shown, home, unfetched>>
\* Mutant: the place on the table is cleared, whoever has it.
ClearAnyone(r) ==
    /\ lock = Nobody /\ runs[r].at = "clearing"
    /\ vivantes' = [vivantes EXCEPT ![runs[r].task] = Nobody]
    /\ Moves(r, "answered")
    /\ UNCHANGED <<reserve, lock, sweep, proc, left, strays, stopped, shown, disks>>
Clear(r) ==
    /\ lock = Nobody /\ runs[r].at = "clearing"
    /\ vivantes' = [vivantes EXCEPT ![runs[r].task] = IF @ = r THEN Nobody ELSE @]
    /\ Moves(r, "answered")
    /\ UNCHANGED <<reserve, lock, sweep, proc, left, strays, stopped, shown, disks>>

-------------------------------------------------------------------------------
(* What the human does.                                                    *)

\* A signal finds the group of the sandbox until its last process is reaped.
Group(r) == proc[r] \in {"running", "zombie"} \/ r \in left \cup strays
\* Mutant: processes are stopped by the manager, and their handles do not know.
FrozenByManager(r) ==
    /\ stopped' = IF Executes(r) THEN stopped \cup {r} ELSE stopped
    /\ UNCHANGED shown
Frozen(r) ==
    /\ stopped' = IF Executes(r) THEN stopped \cup {r} ELSE stopped
    /\ shown' = IF Group(r) THEN [shown EXCEPT ![r] = "frozen"] ELSE shown
Freeze(t) ==
    /\ lock = Nobody /\ vivantes[t] # Nobody
    /\ Frozen(vivantes[t])
    /\ UNCHANGED <<reserve, table, runs, proc, left, strays, disks>>
Thaw(t) ==
    /\ lock = Nobody /\ vivantes[t] # Nobody
    /\ LET r == vivantes[t]
       IN stopped' = stopped \ {r}
          /\ shown' = IF Group(r) THEN [shown EXCEPT ![r] = "running"] ELSE shown
    /\ UNCHANGED <<reserve, table, runs, proc, left, strays, disks>>
\* sandbox.kill: off the table, and killed; the thread of a command goes on to its end.
Kill(t) ==
    /\ lock = Nobody /\ vivantes[t] # Nobody
    /\ LET r == vivantes[t]
       IN /\ vivantes' = [vivantes EXCEPT ![t] = Nobody]
          /\ Killed(r, "zombie")
          /\ shown' = [shown EXCEPT ![r] = "exited"]
          /\ runs' = [runs EXCEPT ![r].at = IF runs[r].kind = "start" THEN "answered" ELSE @,
                                  ![r].end = IF @ = None THEN "killed" ELSE @]
    /\ UNCHANGED <<reserve, lock, sweep, disks>>

\* sandbox.freeze_all: every sandbox of the table, one after the other, under its lock.
FreezeAll ==
    /\ lock = Nobody
    /\ sweep' = {t \in Tasks : vivantes[t] # Nobody} /\ sweep' # {}
    /\ lock' = Human
    /\ UNCHANGED <<reserve, vivantes, runs, proc, left, strays, stopped, shown, disks>>
Sweep(t) ==
    /\ lock = Human /\ t \in sweep
    /\ Frozen(vivantes[t])
    /\ sweep' = sweep \ {t}
    /\ lock' = IF sweep' = {} THEN Nobody ELSE Human
    /\ UNCHANGED <<reserve, vivantes, runs, proc, left, strays, disks>>

-------------------------------------------------------------------------------
\* The service stops, what it launched dies with it, and it starts again.
Restart ==
    /\ Strike("crash") /\ ReserveRestart
    /\ lock' = Nobody /\ sweep' = {} /\ vivantes' = [t \in Tasks |-> Nobody]
    /\ runs' = [r \in Runs |->
          [runs[r] EXCEPT !.base = NoBase, !.at = IF @ = "idle" THEN @ ELSE "answered",
                          !.end = IF runs[r].at \in {"idle", "answered"} THEN @ ELSE "lost"]]
    /\ proc' = [r \in Runs |-> "none"] /\ left' = {} /\ strays' = {} /\ stopped' = {}
    /\ shown' = [r \in Runs |-> "none"]
    /\ disk' = [b \in Bases |-> Nobody] /\ UNCHANGED <<home, unfetched>>

Init ==
    /\ ReserveInit
    /\ lock = Nobody /\ sweep = {} /\ vivantes = [t \in Tasks |-> Nobody]
    /\ runs = [r \in Runs |-> Idle] /\ proc = [r \in Runs |-> "none"]
    /\ left = {} /\ strays = {} /\ stopped = {} /\ shown = [r \in Runs |-> "none"]
    /\ disk = [b \in Bases |-> Nobody]
    /\ home = [t \in Tasks |-> {}] /\ unfetched = {}

Launch(r) == HelperReady(r) \/ Release(r) \/ Warm(r) \/ BootCold(r)
Watch(r) == Poll(r) \/ Read(r) \/ Fetch(r) \/ Remove(r)
Reserves == ReserveStep /\ UNCHANGED <<table, runs, proc, left, strays, stopped, shown, disks>>
Next ==
    \/ Reserves
    \/ \E r \in Runs, t \in Tasks, kind \in Kinds, level \in {0, 2} : Ask(r, t, kind, level)
    \/ \E r \in Runs : Launch(r) \/ HelperDies(r) \/ Exit(r) \/ ChildGoesOn(r) \/ Watch(r) \/ Clear(r)
    \/ \E t \in Tasks : Freeze(t) \/ Thaw(t) \/ Kill(t) \/ Sweep(t)
    \/ FreezeAll
    \/ Restart
Spec == Init /\ [][Next]_vars
\* Threads run, and the lock of the table is given in the order it is asked for.  No command
\* has to end, and no human has to thaw it.
Fairness ==
    /\ WF_vars(Reserves)
    /\ \A r \in Runs : WF_vars(Launch(r) \/ Watch(r)) /\ SF_vars(Clear(r))
    /\ WF_vars(\E t \in Tasks : Sweep(t))
FairSpec == Spec /\ Fairness

-------------------------------------------------------------------------------
(* Properties.                                                             *)

Requests == [at : Active \cup {"idle", "launching", "cold", "clearing", "answered"},
             task : Tasks \cup {Nobody}, kind : Kinds \cup {"run"}, level : {0, 2},
             base : Bases \cup {NoBase},
             end : {None, "refused", "failed", "exited", "killed", "lost"}]
\* The variables keep their types.
TypeOK ==
    /\ image \in Images /\ snapshot \in [of : Images \cup {None, "partial"}, mark : Images \cup {None}]
    /\ making \in Machines \cup {NoMachine} /\ out \subseteq Machines /\ Len(ready) <= Target
    /\ lock \in Runs \cup {Nobody, Human} /\ sweep \subseteq Tasks
    /\ vivantes \in [Tasks -> Runs \cup {Nobody}]
    /\ runs \in [Runs -> Requests]
    /\ left \subseteq Runs /\ strays \subseteq Runs /\ stopped \subseteq Runs
    /\ proc \in [Runs -> {"none", "booting", "ready", "running", "zombie", "reaped"}]
    /\ shown \in [Runs -> {"none", "running", "frozen", "exited"}]
    /\ disk \in [Bases -> Runs \cup {Nobody}] /\ home \in [Tasks -> SUBSET Runs]
    /\ unfetched \subseteq Runs

\* Whatever executes can be frozen and stopped: it is on the table, and stays there until it is
\* dead, whichever other request of its task was killed, ended or refused meanwhile.  One
\* exception is in the code: a child that a command left behind with its output closed is out of
\* reach once the request is answered, which only a command that ended by itself can cause.
Controllable == \A r \in Runs : Executes(r) =>
    \/ vivantes[runs[r].task] = r
    \/ r \in strays /\ proc[r] # "running" /\ runs[r].end = "exited" /\ runs[r].at = "answered"

\* What a group of processes is for: "sans quoi une commande interrompue laisserait ses enfants
\* vivre" (launch.rs): what is off the table does not execute.
NothingOutlives == \A r \in Runs : Executes(r) => vivantes[runs[r].task] = r

\* What sandbox.status says of a sandbox is what its processes do: one that is shown frozen does
\* not execute, one that is shown running is not stopped.
TableTells ==
    \A t \in Tasks : vivantes[t] # Nobody =>
        /\ shown[vivantes[t]] = "frozen" => ~Executes(vivantes[t])
        /\ shown[vivantes[t]] = "running" => vivantes[t] \notin stopped

\* The directory of a task gets back the files of its own commands and no others, and those of
\* every level 2 command that came to its end, unless they could not be copied and its answer
\* says so ("puis le disque de travail revient dans le répertoire de la tâche",
\* prophet-sandboxd.rs).
WorkComesHome ==
    /\ \A t \in Tasks : \A r \in home[t] : runs[r].task = t
    /\ \A r \in Runs :
          /\ runs[r].level = 2 /\ runs[r].kind = "run" /\ runs[r].end = "exited"
          /\ runs[r].at \in {"removing", "clearing", "answered"}
          => r \in home[runs[r].task] \/ r \in unfetched

\* Every request that is launched is answered: a command that never ends, frozen or not, is
\* stopped by its delay, and the lock of the table comes back whoever holds it.  Two exceptions
\* are in the code: a helper that died before it was ready, whose launch waits for it for ever
\* with the lock, and a child of the command that holds its output open for ever.
Stuck(r) == r \in left \/ \E q \in Runs : runs[q].at = "launching" /\ proc[q] = "zombie"
RunsAnswer == \A r \in Runs :
    \/ []<>Stuck(r)
    \/ runs[r].kind = "run" /\ runs[r].at = "launching" ~> runs[r].at = "answered"

\* What the service says of sandbox.run: "Lance, attend (délai borné, tue au-delà) et rend"
\* (docs/components/sandboxd.md).
DelayBounds == \A r \in Runs :
    runs[r].kind = "run" /\ runs[r].at = "launching" ~> runs[r].at = "answered"

\* The reserve fills again after a machine is taken, or says why it does not.
ReserveRefills == Len(ready) < Target ~> Len(ready) = Target \/ broken
===============================================================================
