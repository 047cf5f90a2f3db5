-------------------------------- MODULE Reserve --------------------------------
(***************************************************************************)
(* The reserve of microVMs of sandboxd (reserve.rs): a thread boots a      *)
(* guest without a task, makes a snapshot of it, and keeps Target machines *)
(* restored from that snapshot, paused, each in a directory of its own.    *)
(* A machine is taken once, and the thread restores another.               *)
(*                                                                         *)
(* The snapshot outlives the service.  At its next start it is restored as *)
(* it is if the mark kept beside it (empreinte) is the one of the monitor, *)
(* the kernel and the root that are installed by then; otherwise it is     *)
(* made again.  The contents of snapshots are abstracted to the images     *)
(* they were made of.                                                      *)
(***************************************************************************)
EXTENDS Integers, Sequences, FiniteSets

CONSTANTS
    Target,    \* machines wanted (PROPHET_MICROVM_POOL)
    Machines,  \* directories of machines, naturals; 0 is the one of the template
    Images,    \* what may be installed: monitor, kernel and root of the guest
    Installed, \* the one that is, at the first start
    Faults,    \* what may go wrong
    MaxFaults  \* bound on the faults of the run

None == "none"
NoMachine == -1
ASSUME ReserveAssumption ==
    /\ Target \in Nat \ {0} /\ Machines \subseteq Nat /\ 0 \in Machines
    /\ Installed \in Images /\ None \notin Images /\ "partial" \notin Images /\ MaxFaults \in Nat

VARIABLES
    image,    \* what is installed since the service started
    snapshot, \* the files of the snapshot (of) and its mark, as the disk has them
    thread,   \* where the thread of the reserve is
    making,   \* the machine it is restoring, or NoMachine
    ready,    \* the machines that wait for a task
    out,      \* the machines taken, until their directory is removed
    made,     \* made[m]: what machine m was made of
    broken,   \* the reserve has an error to tell
    faults    \* faults so far

reserve == <<image, snapshot, thread, making, ready, out, made, broken, faults>>

Strike(kind) == kind \in Faults /\ faults < MaxFaults /\ faults' = faults + 1

\* Machines are numbered as they are made: the directory is a new one.  The numbers of machines
\* that are gone are given again here.
Unused == Machines \ (out \cup {ready[i] : i \in 1 .. Len(ready)})
Numbered(m) == m \in Unused /\ \A n \in Unused : m <= n

\* remplir, at the start of the service: the kept snapshot is restored if it is complete and has
\* the mark of what is installed; or the mark is removed before anything is written over.
Resumable == snapshot.of # None /\ snapshot.mark = image
\* Mutant: the mark stays until it is written again.
BeginMarked ==
    /\ thread = "begin"
    /\ thread' = IF Resumable THEN "reusing" ELSE "booting"
    /\ UNCHANGED <<image, snapshot, making, ready, out, made, broken, faults>>
Begin ==
    /\ thread = "begin"
    /\ IF Resumable
       THEN thread' = "reusing" /\ UNCHANGED snapshot
       ELSE thread' = "booting" /\ snapshot' = [snapshot EXCEPT !.mark = None]
    /\ UNCHANGED <<image, making, ready, out, made, broken, faults>>

\* The kept snapshot is restored, or it is removed and made again.
Reuse ==
    /\ thread = "reusing"
    /\ \/ /\ \E m \in Machines :
                Numbered(m) /\ ready' = <<m>> /\ made' = [made EXCEPT ![m] = snapshot.of]
          /\ thread' = "filling" /\ UNCHANGED <<snapshot, faults>>
       \/ /\ Strike("restore")
          /\ snapshot' = [of |-> None, mark |-> None]
          /\ thread' = "booting" /\ UNCHANGED <<ready, made>>
    /\ UNCHANGED <<image, making, out, broken>>

\* amorcer, until the guest is paused and its snapshot begins; until it is whole; then the mark
\* is written, and the template is the first machine.
GivesUp == thread' = "gone" /\ broken' = TRUE
Boot ==
    /\ thread = "booting"
    /\ \/ /\ snapshot' = [snapshot EXCEPT !.of = "partial"]
          /\ thread' = "snapping" /\ UNCHANGED <<broken, faults>>
       \/ Strike("boot") /\ GivesUp /\ UNCHANGED snapshot
    /\ UNCHANGED <<image, making, ready, out, made>>
Snap ==
    /\ thread = "snapping"
    /\ \/ /\ snapshot' = [snapshot EXCEPT !.of = image]
          /\ thread' = "marking" /\ UNCHANGED <<broken, faults>>
       \/ Strike("boot") /\ GivesUp /\ UNCHANGED snapshot
    /\ UNCHANGED <<image, making, ready, out, made>>
Mark ==
    /\ thread = "marking"
    /\ snapshot' = [snapshot EXCEPT !.mark = image]
    /\ ready' = <<0>> /\ made' = [made EXCEPT ![0] = image]
    /\ thread' = "filling"
    /\ UNCHANGED <<image, making, out, broken, faults>>

\* Under the lock: full, the thread waits for a signal; else it restores one machine more.
Fill ==
    /\ thread = "filling"
    /\ IF Len(ready) >= Target
       THEN thread' = "waiting" /\ UNCHANGED making
       ELSE thread' = "restoring" /\ (\E m \in Machines : Numbered(m) /\ making' = m)
    /\ UNCHANGED <<image, snapshot, ready, out, made, broken, faults>>
\* Mutant: machines share the directory of the template.
RestoreInPlace ==
    /\ thread = "restoring"
    /\ ready' = Append(ready, 0) /\ made' = [made EXCEPT ![0] = snapshot.of]
    /\ thread' = "filling" /\ broken' = FALSE /\ making' = NoMachine
    /\ UNCHANGED <<image, snapshot, out, faults>>
\* restaurer.  An error ends the thread: what failed would fail again.
Restore ==
    /\ thread = "restoring"
    /\ \/ /\ ready' = Append(ready, making) /\ made' = [made EXCEPT ![making] = snapshot.of]
          /\ thread' = "filling" /\ broken' = FALSE /\ UNCHANGED faults
       \/ Strike("restore") /\ GivesUp /\ UNCHANGED <<ready, made>>
    /\ making' = NoMachine
    /\ UNCHANGED <<image, snapshot, out>>

\* prendre: the first machine, and the thread is told.
\* Mutant: the thread is not told.
TakeQuietly(m) ==
    /\ ready # <<>> /\ m = Head(ready) /\ ready' = Tail(ready) /\ out' = out \cup {m}
    /\ UNCHANGED thread
Take(m) ==
    /\ ready # <<>> /\ m = Head(ready) /\ ready' = Tail(ready) /\ out' = out \cup {m}
    /\ thread' = IF thread = "waiting" THEN "filling" ELSE thread

ReserveInit ==
    /\ image = Installed
    /\ snapshot \in {[of |-> i, mark |-> i] : i \in Images \cup {None}}
    /\ thread = "begin" /\ making = NoMachine /\ ready = <<>> /\ out = {}
    /\ made = [m \in Machines |-> None] /\ broken = FALSE /\ faults = 0
\* The service starts again, maybe on other images: its machines died with it.
ReserveRestart ==
    /\ image' \in Images
    /\ thread' = "begin" /\ making' = NoMachine /\ ready' = <<>> /\ out' = {}
    /\ made' = [m \in Machines |-> None] /\ broken' = FALSE
    /\ UNCHANGED snapshot
ReserveStep == Begin \/ Reuse \/ Boot \/ Snap \/ Mark \/ Fill \/ Restore

-------------------------------------------------------------------------------
\* Every machine, ready or taken, runs what is installed, whole: a snapshot whose making was
\* interrupted, or made of what was installed before an upgrade or a return to an older image,
\* is never restored.
MachinesFit == \A m \in out \cup {ready[i] : i \in 1 .. Len(ready)} : made[m] = image
===============================================================================
