-------------------------- MODULE PublicationProofs --------------------------
(***************************************************************************)
(* Theorems about the publication, for any number of entries, edits,       *)
(* crashes and faults.                                                     *)
(***************************************************************************)
EXTENDS Publication, TLAPS

\* Where step has an entry in hand, and where resolve has one.
StepPlaces    == {"identify", "metadata", "intent", "decide", "rename", "verify",
                  "record", "failed"}
ResolvePlaces == {"bringBack", "broughtBack", "settled", "unsettled"}

\* The strengthening of TypeOK and JournalReadable: the journal in memory is as
\* readable as the one on disk, an intention is never about a rank left to the
\* human, and a command past the head of the loop has an entry in hand.
Cursor(j) == j \in Journal /\ Readable(j) /\ (j.pending => j.next \notin j.kept)

Standing(p, j) ==
    /\ p \in Places
    /\ p \in {"loop"} \cup StepPlaces => j.state \in {"Applying", "Undoing"}
    /\ p \in StepPlaces => j.next <= N /\ j.next \notin j.kept
    /\ p \in ResolvePlaces => j.state = "Conflict" /\ j.next <= N

\* The files and what is known of them have their types.
FilesOK ==
    /\ home \in [Ranks -> Link]
    /\ slot \in [Dirs -> [Ranks -> Link]]
    /\ content \in [Inodes -> Contents]
    /\ unsynced \in SUBSET (Dirs \X Ranks)

HumanOK ==
    /\ held \in [Ranks -> Link]
    /\ spent \in SUBSET Edits
    /\ authored \in SUBSET Edits
    /\ touched \in SUBSET Ranks

CommandOK ==
    /\ Cursor(disk) /\ Cursor(mem) /\ Standing(pc, mem)
    /\ choice \in {"KeepMine", "RollBack"}

BoundsOK == crashes \in Nat /\ faults \in Nat

IInv == CommandOK /\ FilesOK /\ HumanOK /\ BoundsOK

\* IInv holds what TypeOK and JournalReadable ask.
LEMMA IInvImplies == IInv => TypeOK /\ JournalReadable
BY DEF IInv, CommandOK, FilesOK, HumanOK, BoundsOK, Cursor, Standing, TypeOK, JournalReadable

\* The first journal and the first files satisfy IInv.
LEMMA InitIInv == Init => IInv
BY ConstantsAssumption
DEF Init, IInv, CommandOK, FilesOK, HumanOK, BoundsOK, Cursor, Standing, Readable, NoJournal,
    Journal, States, Places, Link, Dirs, Contents, StepPlaces, ResolvePlaces, Ranks

(***************************************************************************)
(* The journals that the service makes are journals it can read again.     *)
(***************************************************************************)

\* A journal about an entry designates a rank, a direction and two names.
LEMMA Reads ==
    ASSUME FilesOK, NEW j \in Journal, j.next <= N
    PROVE  /\ j.next \in Ranks /\ Dir(j) \in Dirs
           /\ AtHome(j) \in Link /\ AtSlot(j) \in Link
BY ConstantsAssumption DEF FilesOK, Journal, Dir, Dirs, AtHome, AtSlot, Ranks

\* apply and undo begin a journal at the first rank.
LEMMA FreshCursor ==
    ASSUME NEW kept \in SUBSET Ranks
    PROVE  /\ Cursor([NoJournal EXCEPT !.state = "Applying"])
           /\ Cursor([NoJournal EXCEPT !.state = "Undoing", !.undo = TRUE, !.kept = kept])
<1> DEFINE applying == [NoJournal EXCEPT !.state = "Applying"]
           undoing  == [NoJournal EXCEPT !.state = "Undoing", !.undo = TRUE, !.kept = kept]
<1>1. NoJournal \in Journal /\ NoJournal.next = 1 /\ ~NoJournal.pending /\ ~NoJournal.undo
    BY ConstantsAssumption DEF NoJournal, Journal, States, Link, Ranks
<1>2. applying \in Journal /\ undoing \in Journal
    BY <1>1 DEF Journal, States
<1>3. /\ applying.state = "Applying" /\ ~applying.undo /\ ~applying.pending
      /\ undoing.state = "Undoing" /\ undoing.undo /\ ~undoing.pending
    BY <1>1 DEF Journal
<1>4. QED
    BY <1>2, <1>3 DEF Cursor, Readable

\* The loop of run moves a walking journal past its rank.
LEMMA AdvancedCursor ==
    ASSUME NEW j, Cursor(j), j.state \in {"Applying", "Undoing"}, j.next <= N
    PROVE  /\ Cursor(Advanced(j))
           /\ ~j.pending => Cursor([j EXCEPT !.next = @ + 1])
<1>1. j \in Journal /\ j.next + 1 \in 1 .. (N + 1) /\ NoInode \in Link
    BY ConstantsAssumption DEF Cursor, Journal, Link
<1>2. Advanced(j) \in Journal
    BY <1>1 DEF Advanced, Journal
<1>3. [j EXCEPT !.next = @ + 1] \in Journal
    BY <1>1 DEF Journal
<1>4. /\ Advanced(j).state = j.state /\ Advanced(j).undo = j.undo /\ ~Advanced(j).pending
      /\ ~j.pending => LET skipped == [j EXCEPT !.next = @ + 1] IN
            skipped.state = j.state /\ skipped.undo = j.undo /\ ~skipped.pending
    BY <1>1 DEF Advanced, Journal
<1>5. QED
    BY <1>1, <1>2, <1>3, <1>4 DEF Cursor, Readable

\* step notes inodes and its intention in a journal about an entry.
LEMMA NotedCursor ==
    ASSUME NEW j, Cursor(j), NEW i \in Link, j.next <= N, j.next \notin j.kept,
           j.state \in {"Applying", "Undoing"}
    PROVE  /\ Cursor([j EXCEPT !.original = i])
           /\ Cursor([j EXCEPT !.proposed = i])
           /\ Cursor([j EXCEPT !.pending = TRUE])
BY DEF Cursor, Readable, Journal, States

\* The journal a walk stops on, its intention kept if it had one.
Stopped(j) == [j EXCEPT !.state = "Conflict",
                        !.original = IF j.pending THEN @ ELSE NoInode,
                        !.proposed = IF j.pending THEN @ ELSE NoInode]

\* run ends a walk on a conflict.
LEMMA StoppedCursor ==
    ASSUME NEW j, Cursor(j), j.next <= N,
           j.state \in {"Applying", "Undoing"}
    PROVE  Cursor(Stopped(j))
<1>1. j \in Journal /\ "Conflict" \in States /\ NoInode \in Link
    BY DEF Cursor, States, Link
<1>2. Stopped(j) \in Journal
    BY <1>1 DEF Journal, Stopped
<1>3. /\ Stopped(j).state = "Conflict" /\ Stopped(j).next = j.next
      /\ Stopped(j).pending = j.pending /\ Stopped(j).kept = j.kept
    BY <1>1 DEF Journal, Stopped
<1>4. QED
    BY <1>2, <1>3 DEF Cursor, Readable

\* run ends a walk at the end of the batch.
LEMMA FinishedCursor ==
    ASSUME NEW j, Cursor(j), j.next > N, j.state \in {"Applying", "Undoing"}
    PROVE  Cursor([j EXCEPT !.state = IF j.undo THEN "RolledBack" ELSE "Committed"])
<1> DEFINE done == [j EXCEPT !.state = IF j.undo THEN "RolledBack" ELSE "Committed"]
<1>1. j \in Journal /\ j.next = N + 1 /\ j.undo \in BOOLEAN /\ ~j.pending
    BY ConstantsAssumption DEF Cursor, Journal, Readable
<1>2. done \in Journal
    BY <1>1 DEF Journal, States
<1>3. /\ done.state = IF j.undo THEN "RolledBack" ELSE "Committed"
      /\ done.next = j.next /\ done.undo = j.undo /\ ~done.pending
    BY <1>1 DEF Journal
<1>4. QED
    BY <1>1, <1>2, <1>3 DEF Cursor, Readable

\* A decision turns a journal in conflict into one that walks on or turns around.
LEMMA DecidedCursor ==
    ASSUME NEW j, Cursor(j), j.state = "Conflict",
           NEW decision \in {"KeepMine", "RollBack"}, NEW settled \in BOOLEAN
    PROVE  /\ Cursor(Decided(j, decision, settled))
           /\ Decided(j, decision, settled).state \in {"Applying", "Undoing"}
<1> DEFINE mine == j.kept \cup (IF settled THEN {} ELSE {j.next})
           walk == IF j.undo THEN "Undoing" ELSE "Applying"
<1>1. /\ j \in Journal /\ j.next <= N /\ j.next \in Ranks /\ j.undo \in BOOLEAN
      /\ j.next + 1 \in 1 .. (N + 1) /\ NoInode \in Link
    BY ConstantsAssumption DEF Cursor, Journal, Readable, Link, Ranks
<1>2. mine \in SUBSET Ranks /\ mine \cup (j.next + 1) .. N \in SUBSET Ranks
    BY <1>1, ConstantsAssumption DEF Journal, Ranks
<1>3. CASE decision = "KeepMine"
    <2> DEFINE on == [j EXCEPT !.next = j.next + 1, !.pending = FALSE, !.original = NoInode,
                               !.proposed = NoInode, !.kept = mine, !.state = walk]
    <2>1. Decided(j, decision, settled) = on
        BY <1>1, <1>3 DEF Decided, Advanced, Journal
    <2>2. on \in Journal
        BY <1>1, <1>2 DEF Journal, States
    <2>3. on.state = walk /\ on.undo = j.undo /\ ~on.pending
        BY <1>1 DEF Journal
    <2>4. QED
        BY <1>1, <2>1, <2>2, <2>3 DEF Cursor, Readable
<1>4. CASE decision = "RollBack"
    <2>1. Cursor([NoJournal EXCEPT !.state = "Undoing", !.undo = TRUE,
                                   !.kept = mine \cup (j.next + 1) .. N])
        BY <1>2, FreshCursor
    <2>2. QED
        BY <1>4, <2>1 DEF Decided, NoJournal
<1>5. QED
    BY <1>3, <1>4

(***************************************************************************)
(* Every action preserves IInv.                                            *)
(***************************************************************************)

\* The rename of two names leaves an inode or none under each.
LEMMA SwapFiles ==
    ASSUME FilesOK, NEW d \in Dirs, NEW r \in Ranks, SwapNames(d, r), UNCHANGED content
    PROVE  FilesOK'
BY DEF FilesOK, SwapNames

\* The commands that change no file move from a journal that can be read to another.
LEMMA JournalSteps ==
    ASSUME CommandOK, FilesOK,
           \/ Apply \/ Recover \/ Skip \/ CheckOriginal \/ Identify \/ SaveIntent \/ Decide
           \/ Record \/ SaveConflict \/ Finish \/ IoError \/ Verify
           \/ \E keepChanged \in BOOLEAN : Undo(keepChanged)
           \/ \E decision \in {"KeepMine", "RollBack"} : Resolve(decision)
           \/ SaveResolution
    PROVE  CommandOK'
<1> USE DEF CommandOK, Standing, StepPlaces, ResolvePlaces, Places
<1>1. CASE Apply
    <2>1. Cursor([NoJournal EXCEPT !.state = "Applying"])
        BY FreshCursor
    <2>2. [NoJournal EXCEPT !.state = "Applying"].state = "Applying"
        BY DEF NoJournal
    <2>3. QED
        BY <1>1, <2>1, <2>2 DEF Apply, Save
<1>2. ASSUME NEW keepChanged \in BOOLEAN, Undo(keepChanged)
      PROVE  CommandOK'
    <2> DEFINE kept == disk.kept \cup Changed(disk)
               back == [NoJournal EXCEPT !.state = "Undoing", !.undo = TRUE, !.kept = kept]
    <2>1. kept \in SUBSET Ranks
        BY DEF Cursor, Journal, Changed
    <2>2. Cursor(back) /\ back.state = "Undoing"
        BY <2>1, FreshCursor DEF NoJournal
    <2>3. QED
        BY <1>2, <2>2 DEF Undo, Save
<1>3. CASE Recover
    BY <1>3 DEF Recover
<1>4. CASE Skip
    <2>1. mem.next <= N /\ ~mem.pending /\ mem.state \in {"Applying", "Undoing"} /\ mem \in Journal
        BY <1>4, ConstantsAssumption DEF Skip, Cursor, Journal, Ranks
    <2>2. Cursor(mem') /\ mem'.state = mem.state
        BY <1>4, <2>1, AdvancedCursor DEF Skip, Journal
    <2>3. QED
        BY <1>4, <2>1, <2>2 DEF Skip
<1>5. CASE CheckOriginal
    BY <1>5 DEF CheckOriginal, AtStep
<1>6. CASE Identify
    <2>1. /\ mem \in Journal /\ mem.next <= N /\ mem.next \notin mem.kept
          /\ mem.state \in {"Applying", "Undoing"}
        BY <1>6 DEF Identify, Cursor
    <2>2. AtHome(mem) \in Link
        BY <2>1, Reads
    <2>3. Cursor(mem')
        BY <1>6, <2>1, <2>2, NotedCursor DEF Identify
    <2>4. mem'.state = mem.state /\ mem'.next = mem.next /\ mem'.kept = mem.kept
        BY <1>6, <2>1 DEF Identify, Journal
    <2>5. QED
        BY <1>6, <2>1, <2>3, <2>4 DEF Identify
<1>7. CASE SaveIntent
    <2>1. /\ mem \in Journal /\ mem.next <= N /\ mem.next \notin mem.kept
          /\ mem.state \in {"Applying", "Undoing"} /\ NoInode \in Link
        BY <1>7 DEF SaveIntent, Cursor, Link
    <2>2. Cursor(mem')
        BY <1>7, <2>1, NotedCursor DEF SaveIntent, Save
    <2>3. mem'.state = mem.state /\ mem'.next = mem.next /\ mem'.kept = mem.kept
        BY <1>7, <2>1 DEF SaveIntent, Save, Journal
    <2>4. QED
        BY <1>7, <2>1, <2>2, <2>3 DEF SaveIntent, Save
<1>8. CASE Decide
    BY <1>8 DEF Decide, AtStep
<1>9. CASE Verify
    BY <1>9 DEF Verify
<1>10. CASE Record
    <2>1. mem \in Journal /\ mem.next <= N /\ mem.state \in {"Applying", "Undoing"}
        BY <1>10 DEF Record, Cursor
    <2>2. Cursor(Advanced(mem)) /\ Advanced(mem).state = mem.state
        BY <2>1, AdvancedCursor DEF Advanced, Journal
    <2>3. QED
        BY <1>10, <2>1, <2>2 DEF Record, Save
<1>11. CASE SaveConflict
    <2>1. mem \in Journal /\ mem.next <= N /\ mem.state \in {"Applying", "Undoing"}
        BY <1>11 DEF SaveConflict, Cursor
    <2>2. Cursor(Stopped(mem))
        BY <2>1, StoppedCursor
    <2>3. QED
        BY <1>11, <2>2 DEF SaveConflict, Save, Stopped
<1>12. CASE Finish
    <2>1. mem.next > N /\ mem.state \in {"Applying", "Undoing"}
        BY <1>12 DEF Finish
    <2>2. QED
        BY <1>12, <2>1, FinishedCursor DEF Finish, Save
<1>13. ASSUME NEW decision \in {"KeepMine", "RollBack"}, Resolve(decision)
       PROVE  CommandOK'
    BY <1>13 DEF Resolve
<1>14. CASE SaveResolution
    <2>1. mem.state = "Conflict" /\ Cursor(mem) /\ (pc = "settled") \in BOOLEAN
        BY <1>14 DEF SaveResolution
    <2> DEFINE next == Decided(mem, choice, pc = "settled")
    <2>2. Cursor(next) /\ next.state \in {"Applying", "Undoing"}
        BY <2>1, DecidedCursor
    <2>3. QED
        BY <1>14, <2>2 DEF SaveResolution, Save
<1>15. CASE IoError
    <2>1. /\ mem \in Journal /\ mem.next <= N /\ mem.next \notin mem.kept
          /\ mem.state \in {"Applying", "Undoing"} /\ NoInode \in Link
        BY <1>15 DEF IoError, AtStep, Cursor, Link
    <2>2. Cursor(mem')
        BY <1>15, <2>1, NotedCursor DEF IoError
    <2>3. mem'.state = mem.state /\ mem'.next = mem.next /\ mem'.kept = mem.kept
        BY <1>15, <2>1 DEF IoError, Journal
    <2>4. QED
        BY <1>15, <2>1, <2>2, <2>3 DEF IoError
<1>16. QED
    BY <1>1, <1>2, <1>3, <1>4, <1>5, <1>6, <1>7, <1>8, <1>9, <1>10, <1>11, <1>12, <1>13,
       <1>14, <1>15

\* copy_version gives the slot a new inode, or takes the one it finds there.
LEMMA FreezeStep ==
    ASSUME CommandOK, FilesOK, FreezeProposed
    PROVE  CommandOK' /\ FilesOK'
<1>1. /\ mem \in Journal /\ mem.next <= N /\ mem.next \notin mem.kept
      /\ mem.state \in {"Applying", "Undoing"} /\ Cursor(mem)
    BY DEF CommandOK, Standing, StepPlaces, FreezeProposed, Cursor
<1>2. mem.next \in Ranks /\ Dir(mem) \in Dirs /\ AtSlot(mem) \in Link
    BY <1>1, Reads
<1>3. ASSUME NEW i \in Link, mem' = [mem EXCEPT !.proposed = i]
      PROVE  /\ Cursor(mem') /\ mem'.state = mem.state /\ mem'.next = mem.next
             /\ mem'.kept = mem.kept
    BY <1>1, <1>3, NotedCursor DEF Journal
<1>4. \/ pc' = "failed" /\ mem' = mem
      \/ pc' = "intent" /\ (\E i \in Link : mem' = [mem EXCEPT !.proposed = i])
    BY <1>2 DEF FreezeProposed, Free, Link
<1>5. CommandOK'
    BY <1>1, <1>3, <1>4
    DEF CommandOK, Standing, StepPlaces, ResolvePlaces, Places, FreezeProposed
<1>6. FilesOK'
    <2>1. CASE UNCHANGED <<slot, content>>
        BY <2>1 DEF FreezeProposed, FilesOK
    <2>2. CASE \E i \in Free :
                 /\ Proposed(mem) # "absent"
                 /\ slot' = [slot EXCEPT ![Dir(mem)][mem.next] = i]
                 /\ content' = [content EXCEPT ![i] = Proposed(mem)]
        <3>1. Proposed(mem) \in Contents
            BY <2>2 DEF Proposed, Before, After, Contents
        <3>2. QED
            BY <1>2, <2>2, <3>1 DEF FreezeProposed, FilesOK, Free, Link
    <2>3. QED
        BY <2>1, <2>2 DEF FreezeProposed
<1>7. QED
    BY <1>5, <1>6

\* A rename of step or of settle, or its refusal.
LEMMA RenameStep ==
    ASSUME CommandOK, FilesOK, Rename \/ BringBack
    PROVE  CommandOK' /\ FilesOK'
<1>1. mem \in Journal /\ mem.next <= N
    BY DEF CommandOK, Standing, StepPlaces, ResolvePlaces, Rename, BringBack, Cursor
<1>2. mem.next \in Ranks /\ Dir(mem) \in Dirs
    BY <1>1, Reads
<1>3. FilesOK'
    <2>1. CASE SwapNames(Dir(mem), mem.next)
        BY <1>2, <2>1, SwapFiles DEF Rename, BringBack
    <2>2. CASE UNCHANGED <<home, slot, unsynced>>
        BY <2>2 DEF Rename, BringBack, FilesOK
    <2>3. QED
        BY <2>1, <2>2 DEF Rename, BringBack
<1>4. CommandOK'
    BY DEF CommandOK, Standing, StepPlaces, ResolvePlaces, Places, Rename, BringBack
<1>5. QED
    BY <1>3, <1>4

\* A crash forgets what was in memory, and perhaps the rename not yet on disk.
LEMMA CrashStep ==
    ASSUME CommandOK, FilesOK, Crash
    PROVE  CommandOK' /\ FilesOK'
<1>1. CommandOK'
    BY DEF CommandOK, Standing, StepPlaces, ResolvePlaces, Places, Crash
<1>2. FilesOK'
    <2>1. CASE UNCHANGED <<home, slot>>
        BY <2>1 DEF Crash, FilesOK
    <2>2. CASE \E lost \in unsynced :
                 /\ home' = [home EXCEPT ![lost[2]] = slot[lost[1]][lost[2]]]
                 /\ slot' = [slot EXCEPT ![lost[1]][lost[2]] = home[lost[2]]]
        <3>1. PICK lost \in unsynced :
                 /\ home' = [home EXCEPT ![lost[2]] = slot[lost[1]][lost[2]]]
                 /\ slot' = [slot EXCEPT ![lost[1]][lost[2]] = home[lost[2]]]
            BY <2>2
        <3>2. lost[1] \in Dirs /\ lost[2] \in Ranks
            BY DEF FilesOK
        <3>3. QED
            BY <3>1, <3>2 DEF Crash, FilesOK
    <2>3. QED
        BY <2>1, <2>2 DEF Crash
<1>3. QED
    BY <1>1, <1>2

\* An edit of the human.
LEMMA HumanStep ==
    ASSUME FilesOK, HumanOK, Human
    PROVE  FilesOK' /\ HumanOK'
<1>1. ASSUME NEW r \in Ranks, HumanOpens(r)
      PROVE  FilesOK' /\ HumanOK'
    BY <1>1 DEF HumanOpens, FilesOK, HumanOK, files
<1>2. ASSUME NEW r \in Ranks, NEW e \in Edits \ spent, HumanSaves(r, e)
      PROVE  FilesOK' /\ HumanOK'
    BY <1>2 DEF HumanSaves, Superseding, FilesOK, HumanOK, Contents, Link
<1>3. ASSUME NEW r \in Ranks, NEW e \in Edits \ spent, HumanReplaces(r, e)
      PROVE  FilesOK' /\ HumanOK'
    BY <1>3 DEF HumanReplaces, Superseding, Free, FilesOK, HumanOK, Contents, Link
<1>4. ASSUME NEW r \in Ranks, NEW e \in Edits \ spent, HumanDeletes(r, e)
      PROVE  FilesOK' /\ HumanOK'
    BY <1>4 DEF HumanDeletes, Superseding, FilesOK, HumanOK, Link
<1>5. QED
    BY <1>1, <1>2, <1>3, <1>4 DEF Human

\* Every step preserves IInv.
LEMMA NextIInv == IInv /\ [Next]_vars => IInv'
<1> SUFFICES ASSUME IInv, [Next]_vars PROVE IInv'
    OBVIOUS
<1> USE DEF IInv
<1>1. CASE \/ Apply \/ Recover \/ Skip \/ CheckOriginal \/ Identify \/ SaveIntent \/ Decide
           \/ Record \/ SaveConflict \/ Finish \/ IoError \/ Verify
           \/ \E keepChanged \in BOOLEAN : Undo(keepChanged)
           \/ \E decision \in {"KeepMine", "RollBack"} : Resolve(decision)
           \/ SaveResolution
    <2>1. CommandOK'
        BY <1>1, JournalSteps
    <2>2. UNCHANGED <<home, slot, content>> /\ (unsynced' = unsynced \/ unsynced' = {})
        BY <1>1 DEF Apply, Recover, Skip, CheckOriginal, Identify, SaveIntent, Decide, Record,
                    SaveConflict, Finish, IoError, Verify, Undo, Resolve, SaveResolution, files
    <2>3. FilesOK'
        BY <2>2 DEF FilesOK
    <2>4. UNCHANGED human /\ crashes' = crashes /\ faults' \in Nat
        BY <1>1 DEF Apply, Recover, Skip, CheckOriginal, Identify, SaveIntent, Decide, Record,
                    SaveConflict, Finish, IoError, Verify, Undo, Resolve, SaveResolution,
                    bounds, BoundsOK
    <2>5. QED
        BY <2>1, <2>3, <2>4 DEF human, HumanOK, BoundsOK
<1>2. CASE FreezeProposed
    BY <1>2, FreezeStep DEF FreezeProposed, human, bounds, HumanOK, BoundsOK
<1>3. CASE Rename \/ BringBack
    <2>1. UNCHANGED <<human, bounds>>
        BY <1>3 DEF Rename, BringBack
    <2>2. QED
        BY <1>3, <2>1, RenameStep DEF human, bounds, HumanOK, BoundsOK
<1>4. CASE Crash
    <2>1. UNCHANGED <<human, faults>> /\ crashes' = crashes + 1
        BY <1>4 DEF Crash
    <2>2. QED
        BY <1>4, <2>1, CrashStep DEF human, HumanOK, BoundsOK
<1>5. CASE Human
    <2>1. UNCHANGED <<service, bounds>>
        BY <1>5 DEF Human, HumanOpens, HumanSaves, HumanReplaces, HumanDeletes
    <2>2. QED
        BY <1>5, <2>1, HumanStep DEF service, bounds, CommandOK, BoundsOK
<1>6. CASE UNCHANGED vars
    BY <1>6 DEF vars, service, files, human, bounds, CommandOK, FilesOK, HumanOK, BoundsOK
<1>7. QED
    BY <1>1, <1>2, <1>3, <1>4, <1>5, <1>6 DEF Next, Step

\* Throughout, every variable of the publication has its type.
THEOREM TypeCorrect == Spec => []TypeOK
<1>1. Spec => []IInv
    BY InitIInv, NextIInv, PTL DEF Spec
<1>2. QED
    BY <1>1, IInvImplies, PTL

\* Whenever the service stops, the journal it leaves is one read_journal accepts:
\* no interruption makes a batch unreadable.
THEOREM JournalAlwaysReadable == Spec => []JournalReadable
<1>1. Spec => []IInv
    BY InitIInv, NextIInv, PTL DEF Spec
<1>2. QED
    BY <1>1, IInvImplies, PTL

(***************************************************************************)
(* No loss: what carries an edit stays linked, and its content stays.      *)
(***************************************************************************)

\* Two names that swap what they link leave linked what was.
LEMMA SwapLinked ==
    ASSUME FilesOK, NEW d \in Dirs, NEW r \in Ranks,
           home' = [home EXCEPT ![r] = slot[d][r]],
           slot' = [slot EXCEPT ![d][r] = home[r]]
    PROVE  Linked \subseteq Linked'
<1> SUFFICES ASSUME NEW i \in Linked PROVE i \in Linked'
    OBVIOUS
<1>1. CASE \E t \in Ranks : home[t] = i
    <2>1. PICK t \in Ranks : home[t] = i
        BY <1>1
    <2>2. CASE t = r
        <3>1. slot'[d][r] = i
            BY <2>1, <2>2 DEF FilesOK
        <3>2. QED
            BY <3>1 DEF Linked
    <2>3. CASE t # r
        <3>1. home'[t] = i
            BY <2>1, <2>3 DEF FilesOK
        <3>2. QED
            BY <3>1 DEF Linked
    <2>4. QED
        BY <2>2, <2>3
<1>2. CASE \E b \in Dirs, t \in Ranks : slot[b][t] = i
    <2>1. PICK b \in Dirs, t \in Ranks : slot[b][t] = i
        BY <1>2
    <2>2. CASE b = d /\ t = r
        <3>1. home'[r] = i
            BY <2>1, <2>2 DEF FilesOK
        <3>2. QED
            BY <3>1 DEF Linked
    <2>3. CASE ~(b = d /\ t = r)
        <3>1. slot'[b][t] = i
            BY <2>1, <2>3 DEF FilesOK
        <3>2. QED
            BY <3>1 DEF Linked
    <2>4. QED
        BY <2>2, <2>3
<1>3. QED
    BY <1>1, <1>2 DEF Linked

\* An edit is kept if the inodes that carried edits keep their links and contents.
LEMMA StillKept ==
    ASSUME NoHumanLoss, authored' \subseteq authored,
           \A i \in Linked : content[i] \in authored' => i \in Linked' /\ content'[i] = content[i]
    PROVE  NoHumanLoss'
BY DEF NoHumanLoss

\* No rename of step or settle, and no rename lost with the power, unlinks an edit.
LEMMA SwapKeeps ==
    ASSUME CommandOK, FilesOK, NoHumanLoss, Rename \/ BringBack \/ Crash
    PROVE  NoHumanLoss'
<1>1. UNCHANGED <<content, authored>>
    BY DEF Rename, BringBack, Crash, human
<1>2. CASE UNCHANGED <<home, slot>>
    BY <1>1, <1>2 DEF NoHumanLoss, Linked
<1>3. CASE \E d \in Dirs, r \in Ranks :
             /\ home' = [home EXCEPT ![r] = slot[d][r]]
             /\ slot' = [slot EXCEPT ![d][r] = home[r]]
    <2>1. Linked \subseteq Linked'
        BY <1>3, SwapLinked
    <2>2. QED
        BY <1>1, <2>1, StillKept
<1>4. UNCHANGED <<home, slot>> \/ \E d \in Dirs, r \in Ranks :
             /\ home' = [home EXCEPT ![r] = slot[d][r]]
             /\ slot' = [slot EXCEPT ![d][r] = home[r]]
    <2>1. CASE Rename \/ BringBack
        <3>1. mem \in Journal /\ mem.next <= N
            BY <2>1 DEF CommandOK, Standing, StepPlaces, ResolvePlaces, Rename, BringBack, Cursor
        <3>2. mem.next \in Ranks /\ Dir(mem) \in Dirs
            BY <3>1, Reads
        <3>3. QED
            BY <2>1, <3>2 DEF Rename, BringBack, SwapNames
    <2>2. CASE Crash
        <3>1. \A u \in unsynced : u[1] \in Dirs /\ u[2] \in Ranks
            BY DEF FilesOK
        <3>2. QED
            BY <2>2, <3>1 DEF Crash
    <2>3. QED
        BY <2>1, <2>2
<1>5. QED
    BY <1>2, <1>3, <1>4

\* The copy goes to a new inode, under a name that linked none.
LEMMA FreezeKeeps ==
    ASSUME CommandOK, FilesOK, NoHumanLoss, FreezeProposed
    PROVE  NoHumanLoss'
<1>1. UNCHANGED <<home, authored>>
    BY DEF FreezeProposed, human
<1>2. CASE UNCHANGED <<slot, content>>
    BY <1>1, <1>2 DEF NoHumanLoss, Linked
<1>3. CASE \E i \in Free :
             /\ AtSlot(mem) = NoInode
             /\ slot' = [slot EXCEPT ![Dir(mem)][mem.next] = i]
             /\ content' = [content EXCEPT ![i] = Proposed(mem)]
    <2>1. PICK i \in Free :
             /\ AtSlot(mem) = NoInode
             /\ slot' = [slot EXCEPT ![Dir(mem)][mem.next] = i]
             /\ content' = [content EXCEPT ![i] = Proposed(mem)]
        BY <1>3
    <2>2. i \notin Linked /\ NoInode \notin Linked
        BY ConstantsAssumption DEF Free, Linked
    <2>3. ASSUME NEW k \in Linked
          PROVE  k \in Linked'
        <3>1. ASSUME NEW t \in Ranks, home[t] = k
              PROVE  k \in Linked'
            BY <1>1, <3>1 DEF Linked
        <3>2. ASSUME NEW b \in Dirs, NEW t \in Ranks, slot[b][t] = k
              PROVE  k \in Linked'
            <4>1. k # NoInode
                BY <2>2, <2>3
            <4>2. slot'[b][t] = k
                BY <2>1, <3>2, <4>1 DEF AtSlot, FilesOK
            <4>3. QED
                BY <4>2 DEF Linked
        <3>3. QED
            BY <3>1, <3>2 DEF Linked
    <2>4. \A k \in Linked : content'[k] = content[k]
        BY <2>1, <2>2 DEF FilesOK, Linked
    <2>5. QED
        BY <1>1, <2>3, <2>4, StillKept
<1>4. QED
    BY <1>2, <1>3 DEF FreezeProposed

\* The human loses only what they overwrite or delete.
LEMMA HumanKeeps ==
    ASSUME FilesOK, HumanOK, NoHumanLoss, Human
    PROVE  NoHumanLoss'
<1>1. ASSUME NEW r \in Ranks, HumanOpens(r)
      PROVE  NoHumanLoss'
    BY <1>1 DEF HumanOpens, files, NoHumanLoss, Linked
<1>2. ASSUME NEW r \in Ranks, NEW e \in Edits \ spent, HumanSaves(r, e)
      PROVE  NoHumanLoss'
    <2>1. /\ held[r] \in Inodes /\ Linked' = Linked
          /\ content' = [content EXCEPT ![held[r]] = e]
          /\ authored' = (authored \ {content[held[r]]})
                             \cup (IF held[r] \in Linked THEN {e} ELSE {})
        BY <1>2 DEF HumanSaves, Superseding, HumanOK, Link, Linked
    <2>2. ASSUME NEW a \in authored \ {content[held[r]]}
          PROVE  \E i \in Linked' : content'[i] = a
        <3>1. PICK i \in Linked : content[i] = a
            BY DEF NoHumanLoss
        <3>2. i # held[r] /\ content'[i] = a
            BY <2>1, <3>1 DEF FilesOK, Linked
        <3>3. QED
            BY <2>1, <3>2
    <2>3. ASSUME held[r] \in Linked
          PROVE  \E i \in Linked' : content'[i] = e
        BY <2>1, <2>3 DEF FilesOK
    <2>4. QED
        BY <2>1, <2>2, <2>3 DEF NoHumanLoss
<1>3. ASSUME NEW r \in Ranks, NEW e \in Edits \ spent, HumanReplaces(r, e)
      PROVE  NoHumanLoss'
    <2>1. PICK i \in Free, c \in {e, "before"} :
            /\ home' = [home EXCEPT ![r] = i]
            /\ content' = [content EXCEPT ![i] = c]
            /\ authored' = Superseding(Look(home[r]), {c} \cap Edits)
        BY <1>3 DEF HumanReplaces
    <2>2. i \in Inodes /\ i \notin Linked /\ i \in Linked' /\ content'[i] = c
        BY <2>1 DEF Free, Linked, FilesOK
    <2>3. ASSUME NEW a \in authored \ {Look(home[r])}
          PROVE  \E k \in Linked' : content'[k] = a
        <3>1. PICK k \in Linked : content[k] = a
            BY DEF NoHumanLoss
        <3>2. home[r] # k
            BY <3>1, ConstantsAssumption DEF Look, Linked
        <3>3. k \in Linked'
            BY <1>3, <2>1, <3>1, <3>2 DEF HumanReplaces, Linked, FilesOK
        <3>4. content'[k] = a
            BY <2>1, <2>2, <3>1 DEF FilesOK
        <3>5. QED
            BY <3>3, <3>4
    <2>4. QED
        BY <2>1, <2>2, <2>3 DEF NoHumanLoss, Superseding
<1>4. ASSUME NEW r \in Ranks, NEW e \in Edits \ spent, HumanDeletes(r, e)
      PROVE  NoHumanLoss'
    <2>1. /\ home' = [home EXCEPT ![r] = NoInode] /\ UNCHANGED <<slot, content>>
          /\ authored' = authored \ {content[home[r]]}
        BY <1>4 DEF HumanDeletes, Superseding
    <2>2. ASSUME NEW k \in Linked, content[k] \in authored'
          PROVE  k \in Linked'
        BY <2>1, <2>2 DEF Linked, FilesOK
    <2>3. QED
        BY <2>1, <2>2, StillKept
<1>5. QED
    BY <1>1, <1>2, <1>3, <1>4 DEF Human

\* Whatever the human wrote and did not overwrite or delete stays in a file of
\* the home directory or of displaced/: for any batch, any edits and any crashes,
\* neither the walk nor its recovery unlinks the human's work.
THEOREM NothingLost == Spec => []NoHumanLoss
<1>1. Init => NoHumanLoss
    BY DEF Init, NoHumanLoss
<1>2. IInv /\ NoHumanLoss /\ [Next]_vars => NoHumanLoss'
    <2> SUFFICES ASSUME IInv, NoHumanLoss, [Next]_vars PROVE NoHumanLoss'
        OBVIOUS
    <2>1. CASE Rename \/ BringBack \/ Crash
        BY <2>1, SwapKeeps DEF IInv
    <2>2. CASE FreezeProposed
        BY <2>2, FreezeKeeps DEF IInv
    <2>3. CASE Human
        BY <2>3, HumanKeeps DEF IInv
    <2>4. CASE UNCHANGED <<files, authored>>
        BY <2>4 DEF files, NoHumanLoss, Linked
    <2>5. QED
        BY <2>1, <2>2, <2>3, <2>4
        DEF Next, Step, Apply, Undo, Recover, Skip, CheckOriginal, Identify, SaveIntent, Decide,
            Verify, Record, SaveConflict, Finish, Resolve, SaveResolution, IoError, human, vars
<1>3. Spec => []IInv
    BY InitIInv, NextIInv, PTL DEF Spec
<1>4. QED
    BY <1>1, <1>2, <1>3, PTL DEF Spec

(***************************************************************************)
(* The journal goes forward, and what is left to the human is left alone.  *)
(***************************************************************************)

\* What the memory of the command may know that the disk does not: a rank skipped,
\* an inode noted.  A decision carried out is one resolve accepted, and only a
\* workspace never published is Open.
Shadow ==
    /\ mem.state = disk.state /\ mem.undo = disk.undo /\ mem.kept = disk.kept
    /\ disk.next <= mem.next
    /\ disk.state = "Open" => disk = NoJournal
    /\ pc = "bringBack" => mem.pending
    /\ pc \in ResolvePlaces /\ choice = "RollBack" => ~mem.undo

\* No step separates the memory of the command from its journal further than that.
LEMMA NextShadow == IInv /\ Shadow /\ [Next]_vars => Shadow'
<1> SUFFICES ASSUME IInv, Shadow, [Next]_vars PROVE Shadow'
    OBVIOUS
<1>1. mem \in Journal /\ disk \in Journal /\ mem.next \in Nat /\ disk.next \in Nat
    BY ConstantsAssumption DEF IInv, CommandOK, Cursor, Journal
<1>2. CASE \/ Apply \/ Record \/ SaveConflict \/ Finish \/ SaveIntent
           \/ \E keepChanged \in BOOLEAN : Undo(keepChanged)
    <2>1. mem' = disk' /\ pc' \in {"loop", "idle", "decide"}
        BY <1>2 DEF Apply, Record, SaveConflict, Finish, SaveIntent, Undo, Save
    <2>2. disk' \in Journal
        BY NextIInv DEF IInv, CommandOK, Cursor
    <2>3. disk'.next \in Nat
        BY <2>2, ConstantsAssumption DEF Journal
    <2>4. disk'.state # "Open"
        BY <1>1, <1>2 DEF Apply, Record, SaveConflict, Finish, SaveIntent, Undo, Save, Advanced,
                          Journal, NoJournal, IInv, CommandOK, Standing, StepPlaces
    <2>5. QED
        BY <2>1, <2>3, <2>4 DEF Shadow, ResolvePlaces
<1>3. CASE SaveResolution
    <2>1. mem' = disk' /\ pc' = "loop" /\ disk' \in Journal
        BY <1>3, NextIInv DEF SaveResolution, Save, IInv, CommandOK, Cursor
    <2>2. disk'.next \in Nat
        BY <2>1, ConstantsAssumption DEF Journal
    <2>3. disk'.state # "Open"
        BY <1>3, DecidedCursor DEF SaveResolution, Save, IInv, CommandOK, Standing, ResolvePlaces
    <2>4. QED
        BY <2>1, <2>2, <2>3 DEF Shadow, ResolvePlaces
<1>4. CASE Recover \/ Crash
    <2>1. mem' = disk' /\ disk' = disk /\ pc' \in {"loop", "idle"}
        BY <1>4 DEF Recover, Crash
    <2>2. QED
        BY <1>1, <2>1 DEF Shadow, ResolvePlaces
<1>5. ASSUME NEW decision \in {"KeepMine", "RollBack"}, Resolve(decision)
      PROVE  Shadow'
    BY <1>1, <1>5 DEF Resolve, Shadow, CarriedEdit, Moved
<1>6. CASE BringBack
    BY <1>1, <1>6 DEF BringBack, Shadow, ResolvePlaces
<1>7. CASE \/ CheckOriginal \/ Identify \/ FreezeProposed \/ Decide \/ Rename \/ Verify
           \/ Skip \/ IoError
    <2>1. /\ disk' = disk /\ pc' \in {"loop"} \cup StepPlaces
          /\ mem'.state = mem.state /\ mem'.undo = mem.undo /\ mem'.kept = mem.kept
          /\ mem'.next = mem.next \/ mem'.next = mem.next + 1
        BY <1>1, <1>7 DEF CheckOriginal, Identify, FreezeProposed, Decide, Rename, Verify, Skip,
                          IoError, StepPlaces, Journal
    <2>2. QED
        BY <1>1, <2>1 DEF Shadow, StepPlaces, ResolvePlaces
<1>8. CASE Human \/ UNCHANGED vars
    <2>1. UNCHANGED service
        BY <1>8 DEF Human, HumanOpens, HumanSaves, HumanReplaces, HumanDeletes, vars
    <2>2. QED
        BY <2>1 DEF Shadow, service
<1>9. QED
    BY <1>2, <1>3, <1>4, <1>5, <1>6, <1>7, <1>8 DEF Next, Step

\* The publication starts, and stays, with a memory that follows its journal.
LEMMA FollowsJournal == Spec => [](IInv /\ Shadow)
<1>1. Init => Shadow
    BY DEF Init, Shadow, NoJournal, ResolvePlaces
<1>2. QED
    BY <1>1, InitIInv, NextIInv, NextShadow, PTL DEF Spec

\* What the journal may become in one step.
Forward ==
    /\ disk.undo => disk'.undo
    /\ disk.undo = disk'.undo => disk.next <= disk'.next
    /\ disk.kept \subseteq disk'.kept
    /\ disk.state # "RolledBack"

\* A decision moves the journal forward.
LEMMA DecisionForward ==
    ASSUME IInv, Shadow, SaveResolution
    PROVE  Forward
<1>1. mem \in Journal /\ mem.next \in Nat /\ disk.next \in Nat /\ choice \in {"KeepMine", "RollBack"}
    BY ConstantsAssumption DEF IInv, CommandOK, Cursor, Journal
<1>2. pc \in ResolvePlaces /\ mem.state = "Conflict" /\ disk' = Decided(mem, choice, pc = "settled")
    BY DEF SaveResolution, Save, ResolvePlaces, IInv, CommandOK, Standing
<1>3. CASE choice = "KeepMine"
    <2>1. /\ disk'.undo = mem.undo /\ disk'.next = mem.next + 1
          /\ mem.kept \subseteq disk'.kept
        BY <1>1, <1>2, <1>3 DEF Decided, Advanced, Journal
    <2>2. QED
        BY <1>1, <1>2, <2>1 DEF Forward, Shadow
<1>4. CASE choice = "RollBack"
    <2>1. disk'.undo /\ mem.kept \subseteq disk'.kept
        BY <1>1, <1>2, <1>4 DEF Decided, NoJournal
    <2>2. QED
        BY <1>1, <1>2, <1>4, <2>1 DEF Forward, Shadow
<1>5. QED
    BY <1>1, <1>3, <1>4

\* The journal on disk only goes forward: recover and resolve never make a rank
\* walk twice in one direction, never turn an undo back into a publication and
\* never take back what was left to the human.
THEOREM JournalGoesForward == Spec => JournalForward
<1>1. IInv /\ Shadow /\ [Next]_vars => Forward \/ UNCHANGED disk
    <2> SUFFICES ASSUME IInv, Shadow, [Next]_vars PROVE Forward \/ UNCHANGED disk
        OBVIOUS
    <2>1. mem \in Journal /\ disk \in Journal /\ mem.next \in 1 .. (N + 1) /\ disk.next \in Nat
        BY ConstantsAssumption DEF IInv, CommandOK, Cursor, Journal
    <2>2. CASE Apply
        <3>1. disk = NoJournal /\ disk' = [NoJournal EXCEPT !.state = "Applying"]
            BY <2>2 DEF Apply, Save, Shadow
        <3>2. QED
            BY <3>1 DEF Forward, NoJournal
    <2>3. ASSUME NEW keepChanged \in BOOLEAN, Undo(keepChanged)
          PROVE  Forward
        BY <2>1, <2>3 DEF Undo, Save, Forward, IInv, CommandOK, Cursor, Readable, NoJournal
    <2>4. CASE SaveIntent \/ Record \/ SaveConflict
        <3>1. /\ disk'.undo = mem.undo /\ disk'.kept = mem.kept
              /\ disk'.next = mem.next \/ disk'.next = mem.next + 1
            BY <2>1, <2>4 DEF SaveIntent, Record, SaveConflict, Save, Advanced, Journal
        <3>2. disk.state # "RolledBack"
            BY <2>4 DEF SaveIntent, Record, SaveConflict, IInv, CommandOK, Standing, StepPlaces,
                        Shadow
        <3>3. QED
            BY <2>1, <3>1, <3>2 DEF Forward, Shadow
    <2>5. CASE Finish
        <3>1. disk'.undo = mem.undo /\ disk'.kept = mem.kept /\ disk'.next = mem.next
            BY <2>1, <2>5 DEF Finish, Save, Journal
        <3>2. disk.state # "RolledBack"
            BY <2>5 DEF Finish, IInv, CommandOK, Standing, Shadow
        <3>3. QED
            BY <2>1, <3>1, <3>2 DEF Forward, Shadow
    <2>6. CASE SaveResolution
        BY <2>6, DecisionForward
    <2>7. QED
        BY <2>2, <2>3, <2>4, <2>5, <2>6
        DEF Next, Step, Recover, Skip, CheckOriginal, Identify, FreezeProposed, Decide, Rename,
            Verify, BringBack, Resolve, IoError, Crash, Human, HumanOpens, HumanSaves,
            HumanReplaces, HumanDeletes, service, vars
<1>2. QED
    BY <1>1, FollowsJournal, PTL DEF Spec, JournalForward, Forward

\* Once a rank is left to the human, no step of the service changes the document:
\* neither the walk, nor its undo, nor a later decision.
THEOREM KeptStaysAlone == Spec => KeptLeftAlone
<1> DEFINE Alone == UNCHANGED <<human, crashes>> => \A r \in disk.kept : home'[r] = home[r]
<1>1. IInv /\ Shadow /\ [Next]_vars => Alone
    <2> SUFFICES ASSUME IInv, Shadow, [Next]_vars, UNCHANGED <<human, crashes>>,
                        NEW r \in disk.kept
                 PROVE  home'[r] = home[r]
        OBVIOUS
    <2>1. CASE Rename \/ BringBack
        <3>1. mem.next \notin disk.kept
            BY <2>1 DEF Rename, BringBack, IInv, CommandOK, Cursor, Standing, StepPlaces, Shadow
        <3>2. home' = home \/ home' = [home EXCEPT ![mem.next] = slot[Dir(mem)][mem.next]]
            BY <2>1 DEF Rename, BringBack, SwapNames
        <3>3. r \in Ranks /\ home \in [Ranks -> Link]
            BY DEF IInv, CommandOK, FilesOK, Cursor, Journal
        <3>4. QED
            BY <3>1, <3>2, <3>3
    <2>2. CASE Human
        BY <2>2 DEF Human, HumanOpens, HumanSaves, HumanReplaces, HumanDeletes, human, files
    <2>3. CASE Crash
        BY <2>3, ConstantsAssumption DEF Crash, IInv, BoundsOK
    <2>4. QED
        BY <2>1, <2>2, <2>3
        DEF Next, Step, Apply, Undo, Recover, Skip, CheckOriginal, Identify, FreezeProposed,
            SaveIntent, Decide, Verify, Record, SaveConflict, Finish, Resolve, SaveResolution,
            IoError, files, vars
<1>2. QED
    BY <1>1, FollowsJournal, PTL DEF Spec, KeptLeftAlone
=============================================================================
