----------------------------- MODULE Publication -----------------------------
(***************************************************************************)
(* The publication of a mission's files into the human's home directory    *)
(* (crate sfs, publication.rs).                                            *)
(*                                                                         *)
(* A batch of N reviewed entries is carried into the home directory one    *)
(* rank at a time.  For each rank the service freezes a copy of the        *)
(* version to install in a slot of displaced/, writes in its journal the   *)
(* inode it found at the target and the inode of the slot, swaps the two   *)
(* names with one atomic rename, synchronises the directories, verifies    *)
(* what it did, and records the rank.  The same walk in the other          *)
(* direction undoes the batch.  A crash at any point is recovered from the *)
(* journal; an edit of the human at any point stops the walk on a conflict *)
(* which the human decides.                                                *)
(*                                                                         *)
(* The service is one thread: agentd allows one publication at a time and  *)
(* the home directory is locked.  The human edits documents at any time,   *)
(* in place (through a handle that may outlive a rename) or by saving a    *)
(* new file over the name.  An inode number is free again as soon as       *)
(* nothing links it or holds it open, so a number may come back.           *)
(***************************************************************************)
EXTENDS Naturals

CONSTANTS
    N,           \* number of entries of the review index; ranks are 1..N
    Kind,        \* Kind[r]: the entry of rank r is a "modify", "create" or "delete"
    Inodes,      \* inode numbers of the file system
    NoInode,     \* no file under a name
    Edits,       \* contents the human writes, one per edit (bounds the edits)
    HumanMoves,  \* how the human edits: subset of {"inplace", "replace", "delete"}
    MaxCrashes,  \* bound on crashes of the service or of the machine
    MaxFaults,   \* bound on I/O errors met by a step
    PowerLoss    \* TRUE: a crash may lose a rename that was not synchronised

Ranks == 1 .. N

ASSUME ConstantsAssumption ==
    /\ N \in Nat \ {0}
    /\ Kind \in [Ranks -> {"modify", "create", "delete"}]
    /\ NoInode \notin Inodes
    /\ Edits \cap {"before", "after", "absent"} = {}
    /\ HumanMoves \subseteq {"inplace", "replace", "delete"}
    /\ MaxCrashes \in Nat
    /\ MaxFaults \in Nat
    /\ PowerLoss \in BOOLEAN

VARIABLES
    disk,      \* the journal in publication.json; it survives a crash
    mem,       \* the journal in the memory of the running command
    pc,        \* where the running command stands; "idle" when none runs
    choice,    \* the decision being carried out by resolve
    home,      \* home[r]: the inode under the entry's name in the home directory
    slot,      \* slot[d][r]: the inode under displaced/<d>-<r>
    content,   \* content[i]: what the inode holds
    unsynced,  \* at most one <<d, r>>: a rename the directories are not synchronised after
    held,      \* held[r]: the inode the human's editor has open for the document
    spent,     \* edits the human has made
    crashes,   \* crashes so far
    faults,    \* I/O errors so far
    authored,  \* history: edits saved in a linked file and not undone by the human
    touched    \* history: documents the human has edited

service == <<disk, mem, pc, choice>>
files   == <<home, slot, content>>
human   == <<held, spent, authored, touched>>
bounds  == <<crashes, faults>>
vars    == <<service, files, unsynced, human, bounds>>

(***************************************************************************)
(* Data.                                                                   *)
(***************************************************************************)
Dirs     == {"apply", "undo"}
Link     == Inodes \cup {NoInode}
Contents == {"before", "after"} \cup Edits
States   == {"Open", "Applying", "Undoing", "Committed", "RolledBack", "Conflict"}
Places   == {"idle", "loop", "identify", "metadata", "intent", "decide", "rename", "verify",
             "record", "failed", "bringBack", "broughtBack", "settled", "unsettled"}

\* The cursor of the journal.  Before apply there is no journal: state "Open".
Journal == [state : States, undo : BOOLEAN, next : 1 .. (N + 1),
            pending : BOOLEAN, original : Link, proposed : Link,
            kept : SUBSET Ranks]

NoJournal == [state |-> "Open", undo |-> FALSE, next |-> 1, pending |-> FALSE,
              original |-> NoInode, proposed |-> NoInode, kept |-> {}]

\* The versions of an entry; "absent" when the file does not exist.
Before(r) == IF Kind[r] = "create" THEN "absent" ELSE "before"
After(r)  == IF Kind[r] = "delete" THEN "absent" ELSE "after"

\* The version a step leaves behind and the version it installs.
Expected(j) == IF j.undo THEN After(j.next) ELSE Before(j.next)
Proposed(j) == IF j.undo THEN Before(j.next) ELSE After(j.next)

\* The directory of slots of the current direction.
Dir(j) == IF j.undo THEN "undo" ELSE "apply"

\* What a name shows.
Look(i) == IF i = NoInode THEN "absent" ELSE content[i]

AtHome(j) == home[j.next]
AtSlot(j) == slot[Dir(j)][j.next]

\* The inodes some name of the home directory or of displaced/ refers to.
Linked == {i \in Inodes : \/ \E r \in Ranks : home[r] = i
                          \/ \E d \in Dirs, r \in Ranks : slot[d][r] = i}

\* Numbers the file system may give to a new file.
Free == {i \in Inodes \ Linked : \A r \in Ranks : held[r] # i}

\* What read_journal demands of a journal, and of the state for its direction.
Readable(j) ==
    /\ j.pending => j.next <= N
    /\ j.state \in {"Committed", "RolledBack"} => j.next = N + 1 /\ ~j.pending
    /\ j.state = "Conflict" => j.next <= N
    /\ j.state \in {"Undoing", "RolledBack"} => j.undo
    /\ j.state \in {"Open", "Applying", "Committed"} => ~j.undo

TypeOK ==
    /\ disk \in Journal
    /\ mem \in Journal
    /\ pc \in Places
    /\ choice \in {"KeepMine", "RollBack"}
    /\ home \in [Ranks -> Link]
    /\ slot \in [Dirs -> [Ranks -> Link]]
    /\ content \in [Inodes -> Contents]
    /\ unsynced \in SUBSET (Dirs \X Ranks)
    /\ held \in [Ranks -> Link]
    /\ spent \in SUBSET Edits
    /\ crashes \in Nat
    /\ faults \in Nat
    /\ authored \in SUBSET Edits
    /\ touched \in SUBSET Ranks

Init ==
    /\ disk = NoJournal /\ mem = NoJournal
    /\ pc = "idle" /\ choice = "KeepMine"
    /\ \E inode \in [Ranks -> Inodes] :
        /\ \A r, t \in Ranks : r # t => inode[r] # inode[t]
        /\ home = [r \in Ranks |-> IF Before(r) = "absent" THEN NoInode ELSE inode[r]]
    /\ slot = [d \in Dirs |-> [r \in Ranks |-> NoInode]]
    /\ content = [i \in Inodes |-> "before"]
    /\ unsynced = {}
    /\ held = [r \in Ranks |-> NoInode]
    /\ spent = {} /\ authored = {} /\ touched = {}
    /\ crashes = 0 /\ faults = 0

(***************************************************************************)
(* The commands agentd passes on.  Each takes the lock of the home         *)
(* directory and reads the journal; agentd picks the command the state of  *)
(* the journal allows.                                                     *)
(***************************************************************************)

\* atomic_json: the journal on disk becomes j, and the command goes on at p.
Save(j, p) == disk' = j /\ mem' = j /\ pc' = p

\* apply: every document still shows the reviewed version, then the journal is
\* created.  (A document edited between its own check and the journal is the
\* same history as one edited just after the journal: the checks of the other
\* documents do not see it.)
Apply ==
    /\ pc = "idle" /\ disk.state = "Open"
    /\ \A r \in Ranks : Look(home[r]) = Before(r)
    /\ Save([NoJournal EXCEPT !.state = "Applying"], "loop")
    /\ UNCHANGED <<choice, files, unsynced, human, bounds>>

\* The documents an undo finds changed by the human since the publication.
Changed(j) == {r \in Ranks \ j.kept : Look(home[r]) # After(r)}

\* Mutant of Undo: the walk goes on from where the publication ended.
UndoFromTheEnd(keepChanged) ==
    LET kept == disk.kept \cup Changed(disk) IN
    /\ pc = "idle" /\ disk.state = "Committed"
    /\ keepChanged \/ Changed(disk) = {}
    /\ kept # Ranks
    /\ Save([disk EXCEPT !.state = "Undoing", !.undo = TRUE, !.kept = kept], "loop")
    /\ UNCHANGED <<choice, files, unsynced, human, bounds>>

\* Mutant of Undo: only what changed since is left to the human.
UndoForgetsKept(keepChanged) ==
    LET kept == Changed(disk) IN
    /\ pc = "idle" /\ disk.state = "Committed"
    /\ keepChanged \/ kept = {}
    /\ kept # Ranks
    /\ Save([NoJournal EXCEPT !.state = "Undoing", !.undo = TRUE, !.kept = kept], "loop")
    /\ UNCHANGED <<choice, files, unsynced, human, bounds>>

\* undo: refused as a whole if a document has changed, unless keep_changed, which
\* leaves those to the human; refused if nothing is left to restore.
Undo(keepChanged) ==
    LET kept == disk.kept \cup Changed(disk) IN
    /\ pc = "idle" /\ disk.state = "Committed"
    /\ keepChanged \/ Changed(disk) = {}
    /\ kept # Ranks
    /\ Save([NoJournal EXCEPT !.state = "Undoing", !.undo = TRUE, !.kept = kept], "loop")
    /\ UNCHANGED <<choice, files, unsynced, human, bounds>>

\* Mutant of Recover: an interrupted undo is not taken up again.
RecoverApplyingOnly ==
    /\ pc = "idle" /\ disk.state = "Applying"
    /\ mem' = disk /\ pc' = "loop"
    /\ UNCHANGED <<disk, choice, files, unsynced, human, bounds>>

\* recover: a publication or an undo that was interrupted goes on from its journal.
Recover ==
    /\ pc = "idle" /\ disk.state \in {"Applying", "Undoing"}
    /\ mem' = disk /\ pc' = "loop"
    /\ UNCHANGED <<disk, choice, files, unsynced, human, bounds>>

(***************************************************************************)
(* run and step: one rank at a time.                                       *)
(***************************************************************************)

\* run: a rank left to the human is neither published nor restored.
Skip ==
    /\ pc = "loop" /\ mem.next \in mem.kept
    /\ mem' = [mem EXCEPT !.next = @ + 1]
    /\ UNCHANGED <<disk, pc, choice, files, unsynced, human, bounds>>

\* Mutant of AtStep: a rank left to the human is walked too.
AtStepKeptToo == pc = "loop" /\ mem.next <= N

\* The loop of run has a rank to step through.
AtStep == pc = "loop" /\ mem.next <= N /\ mem.next \notin mem.kept

\* step, no intention yet: check the content of the document.
CheckOriginal ==
    /\ AtStep /\ ~mem.pending
    /\ pc' = IF Look(AtHome(mem)) = Expected(mem) THEN "identify" ELSE "failed"
    /\ UNCHANGED <<disk, mem, choice, files, unsynced, human, bounds>>

\* The rest of check: note the inode of the document, which may have changed.
Identify ==
    /\ pc = "identify"
    /\ mem' = [mem EXCEPT !.original = AtHome(mem)] /\ pc' = "metadata"
    /\ UNCHANGED <<disk, choice, files, unsynced, human, bounds>>

\* Check the metadata (they tell a version as its content does: the date of the
\* last change is one of them), then copy_version:
\* freeze the version to install in the slot.  A slot left by an interrupted
\* attempt serves again if it holds that version.
FreezeProposed ==
    LET changed == Expected(mem) # "absent" /\ Look(AtHome(mem)) # Expected(mem)
        stale   == AtSlot(mem) # NoInode /\ Look(AtSlot(mem)) # Proposed(mem)
        frozen(i) == mem' = [mem EXCEPT !.proposed = i] /\ pc' = "intent" IN
    /\ pc = "metadata"
    /\ \/ /\ changed \/ stale
          /\ pc' = "failed" /\ UNCHANGED <<mem, slot, content>>
       \/ /\ ~changed /\ Look(AtSlot(mem)) = Proposed(mem)
          /\ frozen(AtSlot(mem)) /\ UNCHANGED <<slot, content>>
       \/ /\ ~changed /\ AtSlot(mem) = NoInode /\ Proposed(mem) # "absent"
          /\ \E i \in Free :
              /\ frozen(i)
              /\ slot' = [slot EXCEPT ![Dir(mem)][mem.next] = i]
              /\ content' = [content EXCEPT ![i] = Proposed(mem)]
    /\ UNCHANGED <<disk, choice, home, unsynced, human, bounds>>

SaveIntent ==
    /\ pc = "intent"
    /\ Save([mem EXCEPT !.pending = TRUE], "decide")
    /\ UNCHANGED <<choice, files, unsynced, human, bounds>>

\* step, with an intention: compare the inodes with it.  Nothing moved: check
\* both versions and go on to the rename.  Already moved: only verify.  Anything
\* else is a conflict.
Decide ==
    /\ pc = "decide" \/ (AtStep /\ mem.pending)
    /\ pc' = IF AtHome(mem) = mem.original /\ AtSlot(mem) = mem.proposed
                THEN IF /\ Look(AtHome(mem)) = Expected(mem)
                        /\ Look(AtSlot(mem)) = Proposed(mem)
                        THEN "rename" ELSE "failed"
             ELSE IF AtHome(mem) = mem.proposed /\ AtSlot(mem) = mem.original
                THEN "verify" ELSE "failed"
    /\ UNCHANGED <<disk, mem, choice, files, unsynced, human, bounds>>

\* Mutant of SwapNames: a plain rename, over whatever the target is.
SwapNamesReplacing(d, r) ==
    /\ home' = [home EXCEPT ![r] = slot[d][r]]
    /\ slot' = [slot EXCEPT ![d][r] = NoInode]
    /\ unsynced' = {<<d, r>>}

\* Mutant of SwapNames: without an exchange, the target is unlinked first.
SwapNamesUnlinking(d, r) ==
    /\ home' = [home EXCEPT ![r] = IF @ = NoInode THEN slot[d][r] ELSE NoInode]
    /\ slot' = [slot EXCEPT ![d][r] = IF @ = NoInode THEN home[r] ELSE @]
    /\ unsynced' = {<<d, r>>}

\* What renameat2 does to the two names when it succeeds.
SwapNames(d, r) ==
    /\ home' = [home EXCEPT ![r] = slot[d][r]]
    /\ slot' = [slot EXCEPT ![d][r] = home[r]]
    /\ unsynced' = {<<d, r>>}

\* RENAME_EXCHANGE needs both names, RENAME_NOREPLACE a source and no target.
CanExchange(j) == AtHome(j) # NoInode /\ AtSlot(j) # NoInode
CanMoveIn(j)   == AtHome(j) = NoInode /\ AtSlot(j) # NoInode
CanMoveOut(j)  == AtHome(j) # NoInode /\ AtSlot(j) = NoInode

CanRename(j) ==
    CASE Expected(j) = "absent" -> CanMoveIn(j)
      [] Proposed(j) = "absent" -> CanMoveOut(j)
      [] OTHER -> CanExchange(j)

\* The human may have edited since Decide: the rename moves what is there now.
Rename ==
    /\ pc = "rename"
    /\ \/ CanRename(mem) /\ SwapNames(Dir(mem), mem.next) /\ pc' = "verify"
       \/ ~CanRename(mem) /\ pc' = "failed" /\ UNCHANGED <<home, slot, unsynced>>
    /\ UNCHANGED <<disk, mem, choice, content, human, bounds>>

\* Synchronise both directories, then check names and versions once more.
Verified(j) ==
    /\ AtHome(j) = j.proposed /\ AtSlot(j) = j.original
    /\ Look(AtHome(j)) = Proposed(j) /\ Look(AtSlot(j)) = Expected(j)

\* Mutant of Verify: the directories are not synchronised.
VerifyUnsynced ==
    /\ pc = "verify"
    /\ pc' = IF Verified(mem) THEN "record" ELSE "failed"
    /\ UNCHANGED <<disk, mem, choice, files, unsynced, human, bounds>>

Verify ==
    /\ pc = "verify"
    /\ unsynced' = {}
    /\ pc' = IF Verified(mem) THEN "record" ELSE "failed"
    /\ UNCHANGED <<disk, mem, choice, files, human, bounds>>

\* Mutant of Advanced: two ranks at a time.
AdvancedByTwo(j) == [j EXCEPT !.next = @ + 2, !.pending = FALSE,
                              !.original = NoInode, !.proposed = NoInode]

\* Mutant of Advanced: the intention of the rank is not cleared.
AdvancedWithIntent(j) == [j EXCEPT !.next = @ + 1]

\* The journal past the current rank.
Advanced(j) == [j EXCEPT !.next = @ + 1, !.pending = FALSE,
                         !.original = NoInode, !.proposed = NoInode]

Record ==
    /\ pc = "record"
    /\ Save(Advanced(mem), "loop")
    /\ UNCHANGED <<choice, files, unsynced, human, bounds>>

\* run: any error of step stops the walk on a conflict, the intention kept.
SaveConflict ==
    LET stopped == [mem EXCEPT !.state = "Conflict",
                               !.original = IF mem.pending THEN @ ELSE NoInode,
                               !.proposed = IF mem.pending THEN @ ELSE NoInode] IN
    /\ pc = "failed"
    /\ Save(stopped, "idle")
    /\ UNCHANGED <<choice, files, unsynced, human, bounds>>

\* Mutant of Finish: the last rank is not waited for.
FinishEarly ==
    /\ pc = "loop" /\ mem.next >= N
    /\ Save([mem EXCEPT !.state = IF mem.undo THEN "RolledBack" ELSE "Committed"], "idle")
    /\ UNCHANGED <<choice, files, unsynced, human, bounds>>

\* run: the whole batch is walked.
Finish ==
    /\ pc = "loop" /\ mem.next > N
    /\ Save([mem EXCEPT !.state = IF mem.undo THEN "RolledBack" ELSE "Committed"], "idle")
    /\ UNCHANGED <<choice, files, unsynced, human, bounds>>

(***************************************************************************)
(* resolve: the human decides a conflict.                                  *)
(***************************************************************************)

\* settle: did the stopped step itself move the files?
Moved(j) == j.pending /\ AtHome(j) = j.proposed /\ AtSlot(j) = j.original

\* The step took place: both sides hold the version it meant.
TookPlace(j) ==
    /\ Moved(j)
    /\ Look(AtHome(j)) = Proposed(j) /\ Look(AtSlot(j)) = Expected(j)

\* Mutant of CarriedEdit: what the rename carried away is left in the slot.
CarriedEditLeft(j) == FALSE /\ Moved(j)

\* The rename carried an edit of the human into the slot.
CarriedEdit(j) ==
    /\ Moved(j)
    /\ Look(AtHome(j)) = Proposed(j) /\ Look(AtSlot(j)) # Expected(j)
    /\ Expected(j) # "absent"

Resolve(decision) ==
    /\ pc = "idle" /\ disk.state = "Conflict" /\ disk.next <= N
    /\ decision = "RollBack" => ~disk.undo
    /\ mem' = disk /\ choice' = decision
    /\ pc' = CASE TookPlace(disk)   -> "settled"
               [] CarriedEdit(disk) -> "bringBack"
               [] OTHER             -> "unsettled"
    /\ UNCHANGED <<disk, files, unsynced, human, bounds>>

\* settle: swap back, so that the edit shows again at home.  A refused rename
\* refuses the decision and leaves the conflict.
BringBack ==
    /\ pc = "bringBack"
    /\ \/ /\ IF Proposed(mem) = "absent" THEN CanMoveIn(mem) ELSE CanExchange(mem)
          /\ SwapNames(Dir(mem), mem.next)
          /\ pc' = "broughtBack" /\ UNCHANGED <<mem, choice>>
       \/ /\ ~IF Proposed(mem) = "absent" THEN CanMoveIn(mem) ELSE CanExchange(mem)
          /\ pc' = "idle" /\ mem' = disk /\ choice' = "KeepMine"
          /\ UNCHANGED <<home, slot, unsynced>>
    /\ UNCHANGED <<disk, content, human, bounds>>

\* The journal after a decision: a rank that did not take place is left to the
\* human; RollBack also leaves alone the ranks not reached yet and turns around.
Decided(j, decision, settled) ==
    LET rank == j.next
        mine == j.kept \cup (IF settled THEN {} ELSE {rank}) IN
    IF decision = "KeepMine"
       THEN [Advanced(j) EXCEPT !.kept = mine,
                                !.state = IF j.undo THEN "Undoing" ELSE "Applying"]
       ELSE [NoJournal EXCEPT !.state = "Undoing", !.undo = TRUE,
                              !.kept = mine \cup (rank + 1) .. N]

SaveResolution ==
    /\ pc \in {"settled", "unsettled", "broughtBack"}
    /\ Save(Decided(mem, choice, pc = "settled"), "loop")
    /\ choice' = "KeepMine"
    /\ unsynced' = IF pc = "broughtBack" THEN {} ELSE unsynced
    /\ UNCHANGED <<files, human, bounds>>

(***************************************************************************)
(* Failures.                                                               *)
(***************************************************************************)

\* An I/O error inside step: full disk, unreadable file, failed synchronisation.
IoError ==
    /\ faults < MaxFaults /\ faults' = faults + 1
    /\ AtStep \/ pc \in {"identify", "metadata", "intent", "decide", "rename", "verify"}
    /\ pc' = "failed"
    /\ mem' = IF pc = "intent" THEN [mem EXCEPT !.pending = TRUE] ELSE mem
    /\ UNCHANGED <<disk, choice, files, unsynced, human, crashes>>

\* The service stops; what was in memory is lost.  If the machine loses power,
\* a rename that was not synchronised may be lost too.
Crash ==
    /\ crashes < MaxCrashes /\ crashes' = crashes + 1
    /\ pc # "idle" \/ unsynced # {}
    /\ pc' = "idle" /\ mem' = disk /\ choice' = "KeepMine"
    /\ \/ UNCHANGED <<home, slot, unsynced>>
       \/ /\ PowerLoss
          /\ \E lost \in unsynced :
              /\ home' = [home EXCEPT ![lost[2]] = slot[lost[1]][lost[2]]]
              /\ slot' = [slot EXCEPT ![lost[1]][lost[2]] = home[lost[2]]]
          /\ unsynced' = {}
       \/ PowerLoss /\ unsynced # {} /\ unsynced' = {} /\ UNCHANGED <<home, slot>>
    /\ UNCHANGED <<disk, content, human, faults>>

(***************************************************************************)
(* The human, whose edits no lock holds back.                              *)
(***************************************************************************)

\* An editor opens a document and will write to that inode, wherever it goes.
HumanOpens(r) ==
    /\ "inplace" \in HumanMoves /\ spent # Edits
    /\ home[r] # NoInode /\ held[r] = NoInode
    /\ held' = [held EXCEPT ![r] = home[r]]
    /\ UNCHANGED <<service, files, unsynced, spent, authored, touched, bounds>>

\* The edits still worth keeping once the human overwrites content c with e.
Superseding(c, e) == (authored \ {c}) \cup e

\* The editor saves in place and closes.
HumanSaves(r, e) ==
    /\ held[r] # NoInode
    /\ content' = [content EXCEPT ![held[r]] = e]
    /\ held' = [held EXCEPT ![r] = NoInode]
    /\ spent' = spent \cup {e}
    /\ authored' = Superseding(content[held[r]], IF held[r] \in Linked THEN {e} ELSE {})
    /\ touched' = touched \cup {r}
    /\ UNCHANGED <<service, home, slot, unsynced, bounds>>

\* Saving by rename, or creating the document: a new inode under the name.  The
\* human may also put the initial content back.
HumanReplaces(r, e) ==
    /\ "replace" \in HumanMoves
    /\ \E i \in Free, c \in {e, "before"} :
        /\ home' = [home EXCEPT ![r] = i]
        /\ content' = [content EXCEPT ![i] = c]
        /\ authored' = Superseding(Look(home[r]), {c} \cap Edits)
    /\ unsynced' = unsynced \ (Dirs \X {r})
    /\ spent' = spent \cup {e}
    /\ touched' = touched \cup {r}
    /\ UNCHANGED <<service, slot, held, bounds>>

HumanDeletes(r, e) ==
    /\ "delete" \in HumanMoves /\ home[r] # NoInode
    /\ home' = [home EXCEPT ![r] = NoInode]
    /\ authored' = Superseding(content[home[r]], {})
    /\ unsynced' = unsynced \ (Dirs \X {r})
    /\ spent' = spent \cup {e}
    /\ touched' = touched \cup {r}
    /\ UNCHANGED <<service, slot, content, held, bounds>>

Human == \E r \in Ranks :
    \/ HumanOpens(r)
    \/ \E e \in Edits \ spent :
        HumanSaves(r, e) \/ HumanReplaces(r, e) \/ HumanDeletes(r, e)

\* The steps of a running command.
Step == \/ Skip \/ CheckOriginal \/ Identify \/ FreezeProposed \/ SaveIntent \/ Decide \/ Rename
        \/ Verify \/ Record \/ SaveConflict \/ Finish \/ BringBack \/ SaveResolution

Next == \/ Apply \/ Recover \/ Step
        \/ \E keepChanged \in BOOLEAN : Undo(keepChanged)
        \/ \E decision \in {"KeepMine", "RollBack"} : Resolve(decision)
        \/ IoError \/ Crash \/ Human

Spec == Init /\ [][Next]_vars

\* A running command is a thread the system schedules; an interrupted or stopped
\* publication is taken up again by whoever asked for it.
FairSpec ==
    /\ Spec
    /\ WF_vars(Step)
    /\ WF_vars(Recover)
    /\ WF_vars(\E decision \in {"KeepMine", "RollBack"} : Resolve(decision))

(***************************************************************************)
(* Properties.                                                             *)
(***************************************************************************)

\* Whatever the journal on disk is when the service stops, read_journal accepts
\* it again (publication.rs, the consistency test of read_journal).
JournalReadable == Readable(disk)

\* What the human wrote, and did not overwrite or delete, is still in a file of
\* the home directory or of displaced/: no rename of step or settle unlinks it.
NoHumanLoss == \A e \in authored : \E i \in Linked : content[i] = e

\* A document the human leaves alone always shows one whole version, before or
\* after, whatever the point at which the service or the machine stops.
NeverTorn == \A r \in Ranks \ touched : Look(home[r]) \in {Before(r), After(r)}

\* A batch recorded as done is done: every document the human left alone shows
\* the published version once Committed, unless an I/O error made the human keep
\* it, and the initial one once RolledBack.
OutcomeAtomic == \A r \in Ranks \ touched :
    /\ disk.state = "Committed" =>
        Look(home[r]) = IF r \in disk.kept THEN Before(r) ELSE After(r)
    /\ disk.state = "RolledBack" =>
        Look(home[r]) = Before(r) \/ (r \in disk.kept /\ faults > 0)

\* When resolve leaves a rank to the human, the home directory does not show the
\* mission's version while the human's version lies displaced.
KeepMineBringsBack ==
    pc \in {"unsettled", "broughtBack"} => ~
                          /\ Look(AtHome(mem)) = Proposed(mem)
                          /\ Look(AtSlot(mem)) \in authored

\* A rename the directories were not synchronised after belongs to the rank whose
\* intention is still in the journal, or to one left to the human: the journal
\* never counts as carried what a loss of power can take back (the comment of run:
\* neither a synchronisation error nor an uncertain state on disk is masked).
DoneIsSynced ==
    \A u \in unsynced : \/ disk.pending /\ u = <<Dir(disk), disk.next>>
                        \/ u[2] \in disk.kept

\* Once a rank is left to the human, no step of the service changes the document.
KeptLeftAlone ==
    [][UNCHANGED <<human, crashes>> => \A r \in disk.kept : home'[r] = home[r]]_vars

\* The journal on disk only goes forward: no rank is walked twice in a direction,
\* an undo never turns back into a publication, what was left to the human stays
\* so, and a batch rolled back is never taken up again.
JournalForward ==
    [][ /\ disk.undo => disk'.undo
        /\ disk.undo = disk'.undo => disk.next <= disk'.next
        /\ disk.kept \subseteq disk'.kept
        /\ disk.state # "RolledBack" ]_disk

\* With crashes, I/O errors and edits in finite number, a publication that has
\* started ends Committed or RolledBack.
Settles ==
    disk.state \in {"Applying", "Undoing", "Conflict"}
        ~> disk.state \in {"Committed", "RolledBack"}

(***************************************************************************)
(* What the batch promises for the documents the human leaves alone.       *)
(***************************************************************************)
Promise == INSTANCE Batch WITH
    Docs    <- Ranks,
    phase   <- disk.state,
    undoing <- disk.undo,
    kept    <- disk.kept,
    doc     <- [r \in Ranks |-> IF r \in touched THEN "human"
                                ELSE IF Look(home[r]) = After(r) THEN "after"
                                ELSE "before"]

\* The publication implements the batch: whatever stops it, a document left alone
\* changes only in the direction of the batch, and the batch ends only when all
\* its documents have arrived.
ImplementsBatch == Promise!Spec

=============================================================================
