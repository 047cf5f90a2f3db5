-------------------------- MODULE PublicationPromise --------------------------
(***************************************************************************)
(* The publication keeps the promise of Batch, for any number of entries,  *)
(* edits, crashes and faults: documents left alone are never torn, a batch *)
(* recorded as done is done, every step of the walk, its recovery and its  *)
(* decisions is a step of the batch or none, and what resolve leaves to    *)
(* the human is not behind the mission's version.                          *)
(***************************************************************************)
EXTENDS PublicationProofs

(***************************************************************************)
(* Whose an inode is.                                                      *)
(***************************************************************************)

\* The names of rank r link inode i, or its editor has it open.
Names(i, r) == home[r] = i \/ \E d \in Dirs : slot[d][r] = i
Has(i, r)   == Names(i, r) \/ held[r] = i

\* No inode is of two ranks, and none has two names.
Apart == \A r, t \in Ranks : \A i \in Inodes : Has(i, r) /\ Has(i, t) => r = t
OneName == \A r \in Ranks :
    /\ \A d \in Dirs : home[r] = slot[d][r] => home[r] = NoInode
    /\ slot["apply"][r] = slot["undo"][r] => slot["apply"][r] = NoInode
Owned == Apart /\ OneName

\* Two names that swap what they link change no owner.
LEMMA SwapOwned ==
    ASSUME FilesOK, HumanOK, Owned, NEW d \in Dirs, NEW r \in Ranks,
           home' = [home EXCEPT ![r] = slot[d][r]],
           slot' = [slot EXCEPT ![d][r] = home[r]],
           held' = held
    PROVE  Owned'
<1>1. \A i, t : t \in Ranks => (Has(i, t)' <=> Has(i, t))
    BY DEF Has, Names, FilesOK
<1>2. Apart'
    BY <1>1 DEF Owned, Apart
<1>3. OneName'
    BY DEF Owned, OneName, FilesOK, Dirs
<1>4. QED
    BY <1>2, <1>3 DEF Owned

\* A name that linked nothing is given a new inode.
LEMMA NewOwned ==
    ASSUME FilesOK, HumanOK, Owned, NEW i \in Free, NEW r \in Ranks, held' = held,
           \/ home' = [home EXCEPT ![r] = i] /\ slot' = slot
           \/ \E d \in Dirs : slot' = [slot EXCEPT ![d][r] = i] /\ home' = home
    PROVE  Owned'
<1>1. i \in Inodes /\ i # NoInode /\ \A t \in Ranks : ~Has(i, t)
    BY ConstantsAssumption DEF Free, Linked, Has, Names
<1>2. \A k, t : t \in Ranks /\ Has(k, t)' => Has(k, t) \/ (k = i /\ t = r)
    BY DEF Has, Names, FilesOK
<1>3. Apart'
    BY <1>1, <1>2 DEF Owned, Apart
<1>4. OneName'
    BY <1>1 DEF Owned, OneName, FilesOK, Dirs, Has, Names
<1>5. QED
    BY <1>3, <1>4 DEF Owned

\* No step gives an inode two names or two owners.
LEMMA NextOwned == IInv /\ Owned /\ [Next]_vars => Owned'
<1> SUFFICES ASSUME IInv, Owned, [Next]_vars PROVE Owned'
    OBVIOUS
<1>1. FilesOK /\ HumanOK
    BY DEF IInv
<1>2. CASE UNCHANGED <<home, slot, held>>
    BY <1>2 DEF Owned, Apart, OneName, Has, Names
<1>3. CASE Rename \/ BringBack
    <2>1. mem.next \in Ranks /\ Dir(mem) \in Dirs
        BY <1>1, <1>3, Reads DEF IInv, CommandOK, Standing, StepPlaces, ResolvePlaces, Rename,
                                 BringBack, Cursor
    <2>2. held' = held
        BY <1>3 DEF Rename, BringBack, human
    <2>3. QED
        BY <1>1, <1>2, <1>3, <2>1, <2>2, SwapOwned DEF Rename, BringBack, SwapNames
<1>4. CASE FreezeProposed
    <2>1. mem.next \in Ranks /\ Dir(mem) \in Dirs
        BY <1>1, <1>4, Reads DEF IInv, CommandOK, Standing, StepPlaces, FreezeProposed, Cursor
    <2>2. held' = held /\ home' = home
        BY <1>4 DEF FreezeProposed, human
    <2>3. slot' = slot \/ \E i \in Free : slot' = [slot EXCEPT ![Dir(mem)][mem.next] = i]
        BY <1>4 DEF FreezeProposed
    <2>4. QED
        BY <1>1, <1>2, <2>1, <2>2, <2>3, NewOwned
<1>5. CASE Crash
    <2>1. held' = held /\ \A u \in unsynced : u[1] \in Dirs /\ u[2] \in Ranks
        BY <1>1, <1>5 DEF Crash, human, FilesOK
    <2>2. \/ UNCHANGED <<home, slot>>
          \/ \E u \in unsynced : /\ home' = [home EXCEPT ![u[2]] = slot[u[1]][u[2]]]
                                /\ slot' = [slot EXCEPT ![u[1]][u[2]] = home[u[2]]]
        BY <1>5 DEF Crash
    <2>3. QED
        BY <1>1, <1>2, <2>1, <2>2, SwapOwned
<1>6. CASE Human
    <2>1. ASSUME NEW r \in Ranks, HumanOpens(r)
          PROVE  Owned'
        <3>1. UNCHANGED <<home, slot>> /\ held' = [held EXCEPT ![r] = home[r]]
            BY <2>1 DEF HumanOpens, files
        <3>2. \A k, t : t \in Ranks => (Has(k, t)' => Has(k, t))
            BY <1>1, <3>1 DEF Has, Names, HumanOK
        <3>3. QED
            BY <3>1, <3>2 DEF Owned, Apart, OneName
    <2>2. ASSUME NEW r \in Ranks, NEW e \in Edits \ spent, HumanSaves(r, e)
          PROVE  Owned'
        <3>1. UNCHANGED <<home, slot>> /\ held' = [held EXCEPT ![r] = NoInode]
            BY <2>2 DEF HumanSaves
        <3>2. \A k \in Inodes, t \in Ranks : Has(k, t)' => Has(k, t)
            BY <1>1, <3>1, ConstantsAssumption DEF Has, Names, HumanOK
        <3>3. QED
            BY <3>1, <3>2 DEF Owned, Apart, OneName
    <2>3. ASSUME NEW r \in Ranks, NEW e \in Edits \ spent, HumanReplaces(r, e)
          PROVE  Owned'
        BY <1>1, <2>3, NewOwned DEF HumanReplaces
    <2>4. ASSUME NEW r \in Ranks, NEW e \in Edits \ spent, HumanDeletes(r, e)
          PROVE  Owned'
        <3>1. UNCHANGED <<slot, held>> /\ home' = [home EXCEPT ![r] = NoInode]
            BY <2>4 DEF HumanDeletes
        <3>2. \A k \in Inodes, t \in Ranks : Has(k, t)' => Has(k, t)
            BY <1>1, <3>1, ConstantsAssumption DEF Has, Names, FilesOK
        <3>3. Apart'
            BY <3>2 DEF Owned, Apart
        <3>4. OneName'
            BY <1>1, <3>1 DEF Owned, OneName, FilesOK
        <3>5. QED
            BY <3>3, <3>4 DEF Owned
    <2>5. QED
        BY <1>6, <2>1, <2>2, <2>3, <2>4 DEF Human
<1>7. QED
    BY <1>2, <1>3, <1>4, <1>5, <1>6
    DEF Next, Step, Apply, Undo, Recover, Skip, CheckOriginal, Identify, SaveIntent, Decide, Verify,
        Record, SaveConflict, Finish, Resolve, SaveResolution, IoError, human, files, vars

(***************************************************************************)
(* What a step leaves of a document.                                       *)
(***************************************************************************)

\* The names of rank r link what they linked, nothing they link is rewritten, and
\* no rename of them is left unsynchronised that was not.
Same(r) ==
    /\ home'[r] = home[r] /\ \A d \in Dirs : slot'[d][r] = slot[d][r]
    /\ \A i \in Inodes : Names(i, r) => content'[i] = content[i]
    /\ \A d \in Dirs : <<d, r>> \in unsynced' => <<d, r>> \in unsynced

\* What a name of the rank shows is then what it showed.
LEMMA SameLook ==
    ASSUME FilesOK, NEW r \in Ranks, Same(r)
    PROVE  /\ Look(home[r])' = Look(home[r])
           /\ \A d \in Dirs : Look(slot[d][r])' = Look(slot[d][r])
           /\ \A i \in Link : i = NoInode \/ Names(i, r) =>
                 /\ Look(i)' = Look(i)
                 /\ i = NoInode \/ Names(i, r)'
BY DEF Same, FilesOK, Look, Names, Link, Dirs

\* The human reaches only the document they edit.
LEMMA HumanSame ==
    ASSUME IInv, Owned, Human
    PROVE  /\ UNCHANGED <<service, bounds>> /\ touched \subseteq touched'
           /\ unsynced' \subseteq unsynced /\ slot' = slot
           /\ touched' = touched \/ \E r \in Ranks : touched' = touched \cup {r}
           /\ \A r \in Ranks \ touched' : Same(r)
<1>1. FilesOK /\ HumanOK
    BY DEF IInv
<1>2. ASSUME NEW r \in Ranks, HumanOpens(r)
      PROVE  \A t \in Ranks : Same(t)
    BY <1>2 DEF HumanOpens, files, Same
<1>3. ASSUME NEW r \in Ranks, NEW e \in Edits \ spent, HumanSaves(r, e)
      PROVE  \A t \in Ranks \ {r} : Same(t)
    <2>1. held[r] \in Inodes /\ \A t \in Ranks \ {r} : ~Names(held[r], t)
        BY <1>1, <1>3 DEF HumanSaves, HumanOK, Link, Owned, Apart, Has
    <2>2. QED
        BY <1>1, <1>3, <2>1 DEF HumanSaves, Same, FilesOK
<1>4. ASSUME NEW r \in Ranks, NEW e \in Edits \ spent, HumanReplaces(r, e)
      PROVE  \A t \in Ranks \ {r} : Same(t)
    <2>1. \A i \in Free, t \in Ranks : ~Names(i, t)
        BY DEF Free, Linked, Names
    <2>2. PICK i \in Free, c \in {e, "before"} :
            home' = [home EXCEPT ![r] = i] /\ content' = [content EXCEPT ![i] = c]
        BY <1>4 DEF HumanReplaces
    <2>3. slot' = slot /\ unsynced' \subseteq unsynced
        BY <1>4 DEF HumanReplaces
    <2>4. QED
        BY <1>1, <2>1, <2>2, <2>3 DEF Same, FilesOK
<1>5. ASSUME NEW r \in Ranks, NEW e \in Edits \ spent, HumanDeletes(r, e)
      PROVE  \A t \in Ranks \ {r} : Same(t)
    BY <1>1, <1>5 DEF HumanDeletes, Same, FilesOK
<1>6. ASSUME NEW r \in Ranks, HumanOpens(r) \/ \E e \in Edits \ spent :
                  HumanSaves(r, e) \/ HumanReplaces(r, e) \/ HumanDeletes(r, e)
      PROVE  /\ UNCHANGED <<service, bounds, slot>> /\ unsynced' \subseteq unsynced
             /\ touched' = touched \/ touched' = touched \cup {r}
    BY <1>6 DEF HumanOpens, HumanSaves, HumanReplaces, HumanDeletes, files
<1>7. ASSUME NEW r \in Ranks, \E e \in Edits \ spent :
                  HumanSaves(r, e) \/ HumanReplaces(r, e) \/ HumanDeletes(r, e)
      PROVE  r \in touched'
    BY <1>7 DEF HumanSaves, HumanReplaces, HumanDeletes
<1>8. QED
    BY <1>2, <1>3, <1>4, <1>5, <1>6, <1>7 DEF Human

\* copy_version writes to a new inode only, and fills only an empty slot.
LEMMA FreezeSame ==
    ASSUME IInv, FreezeProposed
    PROVE  /\ mem.next \in Ranks /\ Dir(mem) \in Dirs
           /\ \A r \in Ranks \ {mem.next} : Same(r)
           /\ home' = home /\ unsynced' = unsynced
           /\ \A r \in Ranks, i \in Link : i = NoInode \/ Names(i, r) =>
                 /\ Look(i)' = Look(i)
                 /\ i = NoInode \/ Names(i, r)'
           /\ \A d \in Dirs : slot'[d][mem.next] = slot[d][mem.next] \/ d = Dir(mem)
           /\ \/ UNCHANGED slot
              \/ AtSlot(mem) = NoInode /\ (Look(AtSlot(mem)))' = Proposed(mem)
<1>1. FilesOK /\ mem.next \in Ranks /\ Dir(mem) \in Dirs /\ AtSlot(mem) \in Link
    BY Reads DEF IInv, CommandOK, Standing, StepPlaces, FreezeProposed, Cursor
<1>2. home' = home /\ unsynced' = unsynced
    BY DEF FreezeProposed
<1>3. CASE UNCHANGED <<slot, content>>
    BY <1>1, <1>2, <1>3 DEF Same, Names, Look
<1>4. CASE \E i \in Free :
             /\ AtSlot(mem) = NoInode /\ mem' = [mem EXCEPT !.proposed = i]
             /\ slot' = [slot EXCEPT ![Dir(mem)][mem.next] = i]
             /\ content' = [content EXCEPT ![i] = Proposed(mem)]
    <2>1. PICK i \in Free :
             /\ AtSlot(mem) = NoInode /\ mem' = [mem EXCEPT !.proposed = i]
             /\ slot' = [slot EXCEPT ![Dir(mem)][mem.next] = i]
             /\ content' = [content EXCEPT ![i] = Proposed(mem)]
        BY <1>4
    <2>2. i \in Inodes /\ i # NoInode /\ \A t \in Ranks : ~Names(i, t)
        BY ConstantsAssumption DEF Free, Linked, Names
    <2>3. \A r \in Ranks \ {mem.next} : Same(r)
        BY <1>1, <1>2, <2>1, <2>2 DEF Same, FilesOK
    <2>4. \A r \in Ranks, k \in Link : k = NoInode \/ Names(k, r) =>
                 /\ Look(k)' = Look(k)
                 /\ k = NoInode \/ Names(k, r)'
        <3> SUFFICES ASSUME NEW r \in Ranks, NEW k \in Link, k # NoInode, Names(k, r)
                     PROVE  Look(k)' = Look(k) /\ Names(k, r)'
            BY DEF Look
        <3>1. Look(k)' = Look(k)
            BY <1>1, <2>1, <2>2 DEF Look, FilesOK, Link
        <3>2. Names(k, r)'
            BY <1>1, <1>2, <2>1 DEF Names, AtSlot, FilesOK
        <3>3. QED
            BY <3>1, <3>2
    <2>5. mem \in Journal /\ (AtSlot(mem))' = i
        BY <1>1, <2>1 DEF AtSlot, Dir, FilesOK, IInv, CommandOK, Cursor, Journal
    <2>6. (Look(AtSlot(mem)))' = Proposed(mem)
        BY <1>1, <2>1, <2>2, <2>5 DEF Look, FilesOK
    <2>7. \A d \in Dirs : slot'[d][mem.next] = slot[d][mem.next] \/ d = Dir(mem)
        BY <1>1, <2>1 DEF FilesOK
    <2>8. QED
        BY <1>1, <1>2, <2>1, <2>3, <2>4, <2>6, <2>7
<1>5. QED
    BY <1>3, <1>4 DEF FreezeProposed

\* A swap touches one rank, keeps its inodes under its names, and writes nothing.
Swapped(d, r) ==
    /\ home' = [home EXCEPT ![r] = slot[d][r]]
    /\ slot' = [slot EXCEPT ![d][r] = home[r]]
    /\ UNCHANGED content

LEMMA SwapSame ==
    ASSUME FilesOK, NEW d \in Dirs, NEW r \in Ranks, Swapped(d, r)
    PROVE  /\ home'[r] = slot[d][r] /\ slot'[d][r] = home[r]
           /\ \A t \in Ranks \ {r} : home'[t] = home[t] /\ \A b \in Dirs : slot'[b][t] = slot[b][t]
           /\ \A b \in Dirs \ {d}, t \in Ranks : slot'[b][t] = slot[b][t]
           /\ \A i : Look(i)' = Look(i)
           /\ \A t \in Ranks, i \in Link : Names(i, t)' <=> Names(i, t)
BY DEF Swapped, FilesOK, Names, Look

\* The steps that move no file.
Quiet ==
    \/ Apply \/ Recover \/ Skip \/ CheckOriginal \/ Identify \/ SaveIntent \/ Decide
    \/ Record \/ SaveConflict \/ Finish \/ IoError \/ Verify \/ SaveResolution
    \/ \E keepChanged \in BOOLEAN : Undo(keepChanged)
    \/ \E decision \in {"KeepMine", "RollBack"} : Resolve(decision)

LEMMA QuietSame ==
    ASSUME Quiet
    PROVE  /\ UNCHANGED <<home, slot, content, held, touched, crashes>>
           /\ unsynced' = unsynced \/ unsynced' = {}
           /\ faults' = faults \/ IoError
           /\ \A r \in Ranks : Same(r)
<1>1. /\ UNCHANGED <<home, slot, content, held, touched, crashes>>
      /\ unsynced' = unsynced \/ unsynced' = {}
      /\ faults' = faults \/ IoError
    BY DEF Quiet, Apply, Recover, Skip, CheckOriginal, Identify, SaveIntent, Decide, Record,
           SaveConflict, Finish, IoError, Verify, SaveResolution, Undo, Resolve, files, human, bounds
<1>2. QED
    BY <1>1 DEF Same

LEMMA NextCases ==
    ASSUME [Next]_vars
    PROVE  Quiet \/ FreezeProposed \/ Rename \/ BringBack \/ Crash \/ Human \/ UNCHANGED vars
BY DEF Next, Step, Quiet

\* A crash takes back nothing but the rename that was not synchronised.
LEMMA CrashSame ==
    ASSUME IInv, Crash
    PROVE  /\ mem' = disk /\ pc' = "idle" /\ UNCHANGED <<disk, held, touched, faults, content>>
           /\ unsynced' = unsynced \/ unsynced' = {}
           /\ \/ UNCHANGED <<home, slot>>
              \/ /\ PowerLoss /\ unsynced' = {}
                 /\ \E u \in unsynced : u[1] \in Dirs /\ u[2] \in Ranks /\ Swapped(u[1], u[2])
<1>1. \A u \in unsynced : u[1] \in Dirs /\ u[2] \in Ranks
    BY DEF IInv, FilesOK
<1>2. QED
    BY <1>1 DEF Crash, human, Swapped

(***************************************************************************)
(* What a command knows of a document left alone.                          *)
(***************************************************************************)

\* An intention in memory is the one on disk, but for the moment it is written;
\* between the two journals there are only ranks left to the human.
Intention ==
    /\ disk.pending => mem = disk
    /\ mem.pending /\ pc # "failed" => disk.pending
    /\ pc \in {"decide", "rename", "verify", "record", "bringBack", "broughtBack"} => mem.pending
    /\ pc \in {"identify", "metadata", "intent"} => ~mem.pending
    /\ \A r \in Ranks : disk.next <= r /\ r < mem.next => r \in disk.kept

\* No step separates an intention from its journal.
LEMMA NextIntention == IInv /\ Shadow /\ Intention /\ [Next]_vars => Intention'
<1> SUFFICES ASSUME IInv, Shadow, Intention, [Next]_vars PROVE Intention'
    OBVIOUS
<1>1. /\ mem \in Journal /\ disk \in Journal /\ mem.next \in Nat /\ disk.next \in Nat
      /\ Cursor(mem) /\ Cursor(disk) /\ Standing(pc, mem) /\ Ranks \subseteq Nat
    BY ConstantsAssumption DEF IInv, CommandOK, Cursor, Journal, Ranks
<1>2. ASSUME mem' = disk', disk'.next \in Nat,
             pc' \in {"idle", "loop", "settled", "unsettled", "failed"}
      PROVE  Intention'
    <2>1. mem'.next = disk'.next /\ mem'.pending = disk'.pending
        BY <1>2
    <2>2. \A r \in Ranks : ~(disk'.next <= r /\ r < mem'.next)
        BY <1>1, <1>2, <2>1
    <2>3. QED
        BY <1>2, <2>1, <2>2, Zenon DEF Intention
<1>3. disk'.next \in Nat
    BY NextIInv, ConstantsAssumption DEF IInv, CommandOK, Cursor, Journal
<1>4. CASE \/ Apply \/ Recover \/ Record \/ SaveConflict \/ Finish \/ SaveResolution \/ Crash
           \/ \E keepChanged \in BOOLEAN : Undo(keepChanged)
    BY <1>2, <1>3, <1>4
    DEF Apply, Recover, Record, SaveConflict, Finish, SaveResolution, Crash, Undo, Save
<1>5. ASSUME NEW decision \in {"KeepMine", "RollBack"}, Resolve(decision)
      PROVE  Intention'
    BY <1>1, <1>5 DEF Resolve, Intention, CarriedEdit, Moved
<1>6. CASE SaveIntent
    <2>1. mem' = disk' /\ pc' = "decide" /\ mem'.pending
        BY <1>1, <1>6 DEF SaveIntent, Save, Journal
    <2>2. \A r \in Ranks : ~(disk'.next <= r /\ r < mem'.next)
        BY <1>1, <1>3, <2>1
    <2>3. QED
        BY <2>1, <2>2 DEF Intention
<1>7. CASE Skip
    <2>1. ~mem.pending /\ mem.next \in mem.kept /\ mem' = [mem EXCEPT !.next = @ + 1]
        BY <1>1, <1>7 DEF Skip, Cursor
    <2>2. ~mem'.pending /\ mem'.next = mem.next + 1 /\ disk' = disk /\ pc' = "loop"
        BY <1>1, <1>7, <2>1 DEF Journal, Skip
    <2>3. mem.next \in disk.kept /\ ~disk.pending
        BY <2>1 DEF Shadow, Intention
    <2>4. QED
        BY <1>1, <2>2, <2>3 DEF Intention
<1>8. CASE Identify \/ FreezeProposed
    <2>1. ~mem.pending /\ ~disk.pending /\ disk' = disk
        BY <1>8 DEF Identify, FreezeProposed, Intention
    <2>2. /\ mem'.pending = mem.pending /\ mem'.next = mem.next
          /\ pc' \in {"metadata", "intent", "failed"}
        BY <1>1, <1>8 DEF Identify, FreezeProposed, Journal
    <2>3. QED
        BY <2>1, <2>2 DEF Intention
<1>9. CASE IoError
    <2>1. disk' = disk /\ mem'.next = mem.next /\ pc' = "failed"
        BY <1>1, <1>9 DEF IoError, Journal
    <2>2. disk.pending => mem' = mem
        BY <1>9 DEF IoError, Intention
    <2>3. QED
        BY <2>1, <2>2 DEF Intention
<1>10. CASE CheckOriginal \/ Decide \/ Rename \/ Verify
    BY <1>10 DEF CheckOriginal, Decide, Rename, Verify, AtStep, Intention
<1>11. CASE BringBack
    BY <1>3, <1>11, <1>2 DEF BringBack, Intention
<1>12. CASE Human \/ UNCHANGED vars
    <2>1. UNCHANGED service
        BY <1>12 DEF Human, HumanOpens, HumanSaves, HumanReplaces, HumanDeletes, vars
    <2>2. QED
        BY <2>1 DEF Intention, service
<1>13. QED
    BY <1>4, <1>5, <1>6, <1>7, <1>8, <1>9, <1>10, <1>11, <1>12 DEF Next, Step

\* An inode noted for rank r, or none, still under one of its names, shows version v.
Notes(i, r, v) == i \in Link /\ (i = NoInode \/ Names(i, r)) /\ Look(i) = v

NotMoved(j) == AtHome(j) = j.original /\ AtSlot(j) = j.proposed

\* What each place of step has found out about the document, if it is left alone.
Noted == mem.next \in Ranks \ touched =>
    /\ pc \in {"identify", "metadata", "intent"} => Look(AtHome(mem)) = Expected(mem)
    /\ pc \in {"metadata", "intent"} => mem.original = AtHome(mem)
    /\ pc = "intent" => mem.proposed = AtSlot(mem) /\ Look(AtSlot(mem)) = Proposed(mem)
    /\ mem.pending => /\ Notes(mem.original, mem.next, Expected(mem))
                      /\ Notes(mem.proposed, mem.next, Proposed(mem))
    /\ pc = "rename" => NotMoved(mem)
    /\ pc \in {"verify", "record"} => Moved(mem)
    /\ pc \notin {"bringBack", "broughtBack"}

\* What a loss of power can bring back under a name is a whole version too.
WholeBehind == \A u \in unsynced : u[2] \notin touched =>
    Look(slot[u[1]][u[2]]) \in {Before(u[2]), After(u[2])}

WInv == Owned /\ Intention /\ Noted /\ NeverTorn /\ WholeBehind

\* What rank r names stays named, and shows what it showed.
Keeps(r) == \A i \in Link : i = NoInode \/ Names(i, r) =>
    /\ Look(i)' = Look(i)
    /\ i = NoInode \/ Names(i, r)'

LEMMA IntentStays ==
    ASSUME mem.next \in Ranks, \A r \in Ranks : r = mem.next => Keeps(r),
           Notes(mem.original, mem.next, Expected(mem)),
           Notes(mem.proposed, mem.next, Proposed(mem)),
           mem'.undo = mem.undo, mem'.next = mem.next,
           mem'.original = mem.original, mem'.proposed = mem.proposed
    PROVE  /\ Notes(mem.original, mem.next, Expected(mem))'
           /\ Notes(mem.proposed, mem.next, Proposed(mem))'
<1>1. Expected(mem)' = Expected(mem) /\ Proposed(mem)' = Proposed(mem)
    BY DEF Expected, Proposed, Before, After
<1>2. Look(mem.original)' = Look(mem.original) /\ Look(mem.proposed)' = Look(mem.proposed)
    BY DEF Keeps, Notes, Look
<1>3. /\ mem.original = NoInode \/ Names(mem.original, mem.next)'
      /\ mem.proposed = NoInode \/ Names(mem.proposed, mem.next)'
    BY DEF Keeps, Notes, Names
<1>4. QED
    BY <1>1, <1>2, <1>3 DEF Notes, Names

\* A journal without intention, at the head of the loop or at rest, knows nothing.
LEMMA NotedNothing ==
    ASSUME ~mem'.pending, pc' \in {"idle", "loop", "failed", "settled", "unsettled"}
    PROVE  Noted'
BY DEF Noted

\* The command goes on, or the human edits elsewhere: what was known still holds.
LEMMA NotedQuiet ==
    ASSUME IInv, Shadow, WInv, Quiet
    PROVE  Noted'
<1>1. /\ FilesOK /\ mem \in Journal /\ disk \in Journal /\ Cursor(mem) /\ Cursor(disk)
      /\ Standing(pc, mem) /\ touched' = touched /\ Noted /\ Intention
      /\ UNCHANGED <<home, slot, content>> /\ \A r \in Ranks : Same(r)
    BY QuietSame DEF IInv, CommandOK, Cursor, WInv
<1>2. \A r \in Ranks : Keeps(r)
    BY <1>1, SameLook DEF Keeps
<1>3. /\ mem.next \in Ranks => AtHome(mem) \in Link /\ AtSlot(mem) \in Link /\ Dir(mem) \in Dirs
      /\ disk.next \in Ranks => AtHome(disk) \in Link /\ AtSlot(disk) \in Link /\ Dir(disk) \in Dirs
    BY <1>1, Reads, ConstantsAssumption DEF Ranks, Journal
<1>4. CASE \/ Apply \/ Record \/ Finish \/ SaveResolution
           \/ \E keepChanged \in BOOLEAN : Undo(keepChanged)
    <2>1. pc' \in {"loop", "idle"} /\ mem' = disk'
        BY <1>4 DEF Apply, Record, Finish, SaveResolution, Undo, Save
    <2>2. ~disk'.pending
        <3>1. CASE Apply \/ \E keepChanged \in BOOLEAN : Undo(keepChanged)
            BY <3>1 DEF Apply, Undo, Save, NoJournal
        <3>2. CASE Record
            BY <1>1, <3>2 DEF Record, Save, Advanced, Journal
        <3>3. CASE Finish
            BY <1>1, <3>3, ConstantsAssumption DEF Finish, Save, Cursor, Readable, Journal
        <3>4. CASE SaveResolution
            BY <1>1, <3>4 DEF SaveResolution, Save, Decided, Advanced, Journal, NoJournal
        <3>5. QED
            BY <1>4, <3>1, <3>2, <3>3, <3>4
    <2>3. QED
        BY <2>1, <2>2, NotedNothing
<1>5. CASE Recover \/ \E decision \in {"KeepMine", "RollBack"} : Resolve(decision)
    <2>1. mem' = disk /\ pc' \in {"loop", "settled", "unsettled", "bringBack"}
        BY <1>5 DEF Recover, Resolve
    <2>2. CASE ~disk.pending
        BY <1>5, <2>1, <2>2, NotedNothing DEF Recover, Resolve, CarriedEdit, Moved
    <2>3. CASE disk.pending /\ disk.next \in Ranks \ touched
        <3>1. mem = disk /\ mem' = mem
            BY <1>1, <2>1, <2>3 DEF Intention
        <3>2. /\ Notes(mem.original, mem.next, Expected(mem))
              /\ Notes(mem.proposed, mem.next, Proposed(mem))
            BY <1>1, <2>3, <3>1 DEF Noted
        <3>3. ~CarriedEdit(disk)
            BY <3>1, <3>2 DEF CarriedEdit, Moved, Notes
        <3>4. pc' # "bringBack"
            BY <1>5, <3>3 DEF Recover, Resolve
        <3>5. /\ Notes(mem.original, mem.next, Expected(mem))'
              /\ Notes(mem.proposed, mem.next, Proposed(mem))'
            BY <1>2, <2>3, <3>1, <3>2, IntentStays
        <3>6. QED
            BY <2>1, <3>4, <3>5 DEF Noted
    <2>4. CASE disk.next \notin Ranks \ touched
        BY <1>1, <2>1, <2>4 DEF Noted
    <2>5. QED
        BY <2>2, <2>3, <2>4
<1>6. CASE Skip
    <2>1. ~mem.pending /\ pc' = "loop" /\ mem' = [mem EXCEPT !.next = @ + 1]
        BY <1>1, <1>6 DEF Skip, Cursor
    <2>2. QED
        BY <1>1, <2>1, NotedNothing DEF Journal
<1>7. CASE \/ CheckOriginal \/ Identify \/ SaveIntent \/ Decide \/ Verify \/ SaveConflict \/ IoError
    <2>1. /\ mem'.next = mem.next /\ mem'.undo = mem.undo
          /\ mem.pending => mem'.original = mem.original /\ mem'.proposed = mem.proposed
          /\ mem'.proposed = mem.proposed \/ pc' = "idle"
        BY <1>1, <1>7 DEF CheckOriginal, Identify, SaveIntent, Decide, Verify, SaveConflict,
                          IoError, Save, Journal, Intention
    <2> SUFFICES ASSUME mem.next \in Ranks \ touched PROVE Noted'
        BY <1>1, <2>1 DEF Noted
    <2>2. /\ Expected(mem)' = Expected(mem) /\ Proposed(mem)' = Proposed(mem)
          /\ AtHome(mem)' = AtHome(mem) /\ AtSlot(mem)' = AtSlot(mem)
          /\ Look(AtHome(mem))' = Look(AtHome(mem)) /\ Look(AtSlot(mem))' = Look(AtSlot(mem))
        BY <1>1, <2>1 DEF Expected, Proposed, AtHome, AtSlot, Dir, Look, Before, After
    <2>3. mem.pending => /\ Notes(mem.original, mem.next, Expected(mem))'
                         /\ Notes(mem.proposed, mem.next, Proposed(mem))'
        BY <1>1, <1>2, <2>1, IntentStays DEF Noted
    <2>4. CASE CheckOriginal
        BY <1>1, <2>2, <2>3, <2>4 DEF CheckOriginal, Noted
    <2>5. CASE Identify
        <3>1. mem'.original = AtHome(mem) /\ mem'.pending = mem.pending /\ pc' = "metadata"
            BY <1>1, <2>5 DEF Identify, Journal
        <3>2. QED
            BY <1>1, <2>2, <2>3, <2>5, <3>1 DEF Identify, Noted
    <2>6. CASE SaveIntent \/ (IoError /\ pc = "intent")
        <3>1. /\ mem'.original = mem.original /\ mem'.proposed = mem.proposed
              /\ pc' \in {"decide", "failed"} /\ pc = "intent"
            BY <1>1, <2>6 DEF SaveIntent, IoError, Save, Journal
        <3>2. /\ Notes(mem.original, mem.next, Expected(mem))
              /\ Notes(mem.proposed, mem.next, Proposed(mem))
            BY <1>1, <1>3, <3>1 DEF Noted, Notes, Names, AtHome, AtSlot
        <3>3. /\ Notes(mem.original, mem.next, Expected(mem))'
              /\ Notes(mem.proposed, mem.next, Proposed(mem))'
            BY <1>2, <2>1, <3>1, <3>2, IntentStays
        <3>4. QED
            BY <3>1, <3>3 DEF Noted
    <2>7. CASE SaveConflict \/ (IoError /\ pc # "intent")
        <3>1. mem'.pending = mem.pending /\ pc' \in {"idle", "failed"}
            BY <1>1, <2>7 DEF SaveConflict, IoError, Save, Journal
        <3>2. QED
            BY <2>3, <3>1 DEF Noted
    <2>8. CASE Decide
        <3>1. mem' = mem /\ pc' \in {"rename", "verify", "failed"}
              /\ (pc' = "rename" => NotMoved(mem)) /\ (pc' = "verify" => Moved(mem))
            BY <1>1, <2>8 DEF Decide, AtStep, Intention, NotMoved, Moved
        <3>2. (NotMoved(mem) => NotMoved(mem)') /\ (Moved(mem) => Moved(mem)')
            BY <2>2, <3>1 DEF NotMoved, Moved
        <3>3. QED
            BY <2>3, <3>1, <3>2 DEF Noted
    <2>9. CASE Verify
        <3>1. mem' = mem /\ pc' \in {"record", "failed"} /\ Moved(mem)
            BY <1>1, <2>9 DEF Verify, Noted
        <3>2. Moved(mem)'
            BY <2>2, <3>1 DEF Moved
        <3>3. QED
            BY <2>3, <3>1, <3>2 DEF Noted
    <2>10. QED
        BY <1>7, <2>4, <2>5, <2>6, <2>7, <2>8, <2>9
<1>8. QED
    BY <1>4, <1>5, <1>6, <1>7 DEF Quiet

\* copy_version, the renames, a crash and the human keep what is known, or undo it.
LEMMA NotedMoves ==
    ASSUME IInv, Shadow, WInv, FreezeProposed \/ Rename \/ BringBack \/ Crash \/ Human
    PROVE  Noted'
<1>1. /\ FilesOK /\ mem \in Journal /\ disk \in Journal /\ Cursor(mem) /\ Cursor(disk)
      /\ Standing(pc, mem) /\ Noted /\ Intention /\ Owned
    BY DEF IInv, CommandOK, Cursor, WInv
<1>2. \A r \in Ranks : Same(r) => Keeps(r)
    BY <1>1, SameLook DEF Keeps
<1>3. \A d \in Dirs, r \in Ranks : Swapped(d, r) => \A t \in Ranks : Keeps(t)
    BY <1>1, SwapSame DEF Keeps
<1>4. CASE Human
    <2>1. UNCHANGED service /\ touched \subseteq touched' /\ \A r \in Ranks \ touched' : Same(r)
        BY <1>1, <1>4, HumanSame
    <2>2. mem' = mem /\ pc' = pc
        BY <2>1 DEF service
    <2> SUFFICES ASSUME mem.next \in Ranks \ touched' PROVE Noted'
        BY <2>2 DEF Noted
    <2>3. /\ mem.next \notin touched /\ Dir(mem) \in Dirs
          /\ \A r \in Ranks : r = mem.next => Same(r) /\ Keeps(r)
        BY <1>2, <2>1 DEF Dir, Dirs
    <2>4. /\ Expected(mem)' = Expected(mem) /\ Proposed(mem)' = Proposed(mem)
          /\ AtHome(mem)' = AtHome(mem) /\ AtSlot(mem)' = AtSlot(mem)
        BY <2>2, <2>3 DEF Expected, Proposed, AtHome, AtSlot, Dir, Before, After, Same
    <2>5. Look(AtHome(mem))' = Look(AtHome(mem)) /\ Look(AtSlot(mem))' = Look(AtSlot(mem))
        BY <1>1, <2>2, <2>3, <2>4, SameLook DEF AtHome, AtSlot, Look
    <2>6. mem.pending => /\ Notes(mem.original, mem.next, Expected(mem))'
                         /\ Notes(mem.proposed, mem.next, Proposed(mem))'
        BY <1>1, <2>2, <2>3, IntentStays DEF Noted
    <2>7. (NotMoved(mem) => NotMoved(mem)') /\ (Moved(mem) => Moved(mem)')
        BY <2>2, <2>4 DEF NotMoved, Moved
    <2>8. QED
        BY <1>1, <2>2, <2>3, <2>4, <2>5, <2>6, <2>7 DEF Noted
<1>5. CASE Crash
    <2>1. mem' = disk /\ pc' = "idle" /\ touched' = touched /\ \A r \in Ranks : Keeps(r)
        <3>1. CASE UNCHANGED <<home, slot, content>>
            BY <1>5, <3>1, CrashSame DEF Keeps, Look, Names
        <3>2. QED
            BY <1>3, <1>5, <3>1, CrashSame
    <2>2. CASE disk.pending /\ disk.next \in Ranks \ touched
        BY <1>1, <2>1, <2>2, IntentStays DEF Noted, Intention
    <2>3. QED
        BY <2>1, <2>2 DEF Noted
<1>6. CASE Rename
    <2>1. /\ mem' = mem /\ mem.pending /\ touched' = touched /\ pc = "rename"
          /\ mem.next \in Ranks /\ Dir(mem) \in Dirs
        BY <1>1, <1>6, Reads DEF Rename, human, Intention, Standing, StepPlaces
    <2>2. CASE Swapped(Dir(mem), mem.next) /\ pc' = "verify"
        <3> SUFFICES ASSUME mem.next \notin touched PROVE Noted'
            BY <2>1 DEF Noted
        <3>1. NotMoved(mem)
            BY <1>1, <2>1 DEF Noted
        <3>2. home'[mem.next] = AtSlot(mem) /\ slot'[Dir(mem)][mem.next] = AtHome(mem)
            BY <1>1, <2>1, <2>2, SwapSame DEF AtHome, AtSlot
        <3>3. AtHome(mem)' = AtSlot(mem) /\ AtSlot(mem)' = AtHome(mem)
            BY <2>1, <3>2 DEF AtHome, AtSlot, Dir
        <3>4. Moved(mem)'
            BY <2>1, <3>1, <3>3 DEF Moved, NotMoved
        <3>5. \A r \in Ranks : Keeps(r)
            BY <1>3, <2>1, <2>2
        <3>6. QED
            BY <1>1, <2>1, <2>2, <3>4, <3>5, IntentStays DEF Noted
    <2>3. CASE UNCHANGED <<home, slot, content>> /\ pc' = "failed"
        <3>1. \A r \in Ranks : Keeps(r)
            BY <2>3 DEF Keeps, Look, Names
        <3>2. QED
            BY <1>1, <2>1, <2>3, <3>1, IntentStays DEF Noted
    <2>4. QED
        BY <1>6, <2>2, <2>3 DEF Rename, SwapNames, Swapped
<1>7. CASE BringBack
    <2>1. /\ mem.next \in touched /\ touched' = touched
          /\ mem' = mem \/ (mem' = disk /\ pc' = "idle")
        BY <1>1, <1>7, ConstantsAssumption
        DEF BringBack, Noted, human, Standing, ResolvePlaces, Ranks, Journal
    <2>2. disk.pending => disk = mem
        BY <1>1 DEF Intention
    <2>3. QED
        BY <2>1, <2>2 DEF Noted
<1>8. CASE FreezeProposed
    <2>1. /\ mem.next \in Ranks /\ Dir(mem) \in Dirs /\ pc = "metadata" /\ ~mem.pending
          /\ touched' = touched /\ home' = home
          /\ AtHome(mem) \in Link /\ \A i \in Link : i = NoInode \/ home[mem.next] = i => Look(i)' = Look(i)
        BY <1>1, <1>8, FreezeSame, Reads DEF Names, FreezeProposed, human, Intention, Standing, StepPlaces
    <2>2. CASE pc' = "failed" /\ mem' = mem
        BY <2>1, <2>2, NotedNothing
    <2>3. ASSUME NEW i, mem' = [mem EXCEPT !.proposed = i], pc' = "intent",
                 AtSlot(mem)' = i, (Look(AtSlot(mem)))' = Proposed(mem)
          PROVE  Noted'
        <3> SUFFICES ASSUME mem.next \notin touched PROVE Noted'
            BY <1>1, <2>1, <2>3 DEF Noted, Journal
        <3>1. /\ mem'.next = mem.next /\ mem'.undo = mem.undo /\ ~mem'.pending
              /\ mem'.original = mem.original /\ mem'.proposed = i
            BY <1>1, <2>1, <2>3 DEF Journal
        <3>2. /\ Expected(mem)' = Expected(mem) /\ Proposed(mem)' = Proposed(mem)
              /\ AtHome(mem)' = AtHome(mem)
            BY <2>1, <3>1 DEF Expected, Proposed, AtHome, Before, After
        <3>3. Look(AtHome(mem))' = Look(AtHome(mem))
            BY <2>1, <3>2 DEF AtHome, Look
        <3>4. QED
            BY <1>1, <2>1, <2>3, <3>1, <3>2, <3>3 DEF Noted
    <2>4. CASE \/ /\ Look(AtSlot(mem)) = Proposed(mem) /\ UNCHANGED <<slot, content>>
                  /\ mem' = [mem EXCEPT !.proposed = AtSlot(mem)] /\ pc' = "intent"
        <3>1. AtSlot(mem)' = AtSlot(mem)
            BY <1>1, <2>4 DEF AtSlot, Dir, Journal
        <3>2. QED
            BY <2>3, <2>4, <3>1 DEF Look
    <2>5. CASE \E i \in Free : /\ mem' = [mem EXCEPT !.proposed = i] /\ pc' = "intent"
                               /\ slot' = [slot EXCEPT ![Dir(mem)][mem.next] = i]
                               /\ content' = [content EXCEPT ![i] = Proposed(mem)]
        <3>1. PICK i \in Free : /\ mem' = [mem EXCEPT !.proposed = i] /\ pc' = "intent"
                               /\ slot' = [slot EXCEPT ![Dir(mem)][mem.next] = i]
                               /\ content' = [content EXCEPT ![i] = Proposed(mem)]
            BY <2>5
        <3>2. AtSlot(mem)' = i
            BY <1>1, <2>1, <3>1 DEF AtSlot, Dir, Journal, FilesOK
        <3>3. (Look(AtSlot(mem)))' = Proposed(mem)
            BY <1>1, <3>1, <3>2, ConstantsAssumption DEF Look, FilesOK, Free
        <3>4. QED
            BY <2>3, <3>1, <3>2, <3>3
    <2>6. QED
        BY <1>8, <2>2, <2>4, <2>5 DEF FreezeProposed
<1>9. QED
    BY <1>4, <1>5, <1>6, <1>7, <1>8

\* No step shows part of a version at home, nor puts one where a loss of power
\* could bring it back from.
LEMMA WholeStays ==
    ASSUME IInv, Shadow, WInv, [Next]_vars
    PROVE  NeverTorn' /\ WholeBehind'
<1>1. /\ FilesOK /\ NeverTorn /\ WholeBehind /\ Noted /\ Owned /\ touched \subseteq Ranks
      /\ \A u \in unsynced : u[1] \in Dirs /\ u[2] \in Ranks /\ u = <<u[1], u[2]>>
    BY DEF WInv, IInv, FilesOK, HumanOK
<1>2. /\ \A r \in Ranks : Before(r)' = Before(r) /\ After(r)' = After(r)
      /\ Expected(mem) \in {Before(mem.next), After(mem.next)}
      /\ Proposed(mem) \in {Before(mem.next), After(mem.next)}
    BY DEF Before, After, Expected, Proposed
<1>3. ASSUME touched \subseteq touched', unsynced' \subseteq unsynced,
             \A r \in Ranks \ touched' : Same(r)
      PROVE  NeverTorn' /\ WholeBehind'
    BY <1>1, <1>2, <1>3, SameLook DEF NeverTorn, WholeBehind
<1>4. CASE Quiet
    BY <1>3, <1>4, QuietSame
<1>5. CASE Human
    BY <1>1, <1>3, <1>5, HumanSame
<1>6. CASE UNCHANGED vars
    BY <1>3, <1>6 DEF vars, files, human, Same
<1>7. CASE FreezeProposed
    <2>1. /\ touched' = touched /\ unsynced' = unsynced /\ home' = home
          /\ mem'.next = mem.next /\ mem'.undo = mem.undo
          /\ mem.next \in Ranks /\ Dir(mem) \in Dirs
        BY <1>7, FreezeSame DEF FreezeProposed, human, IInv, CommandOK, Cursor, Journal
    <2>2. \A r \in Ranks : home[r] \in Link /\ Look(home[r])' = Look(home[r])
        BY <1>1, <1>7, <2>1, FreezeSame DEF FilesOK, Names, Look
    <2>3. NeverTorn'
        BY <1>1, <1>2, <2>1, <2>2 DEF NeverTorn
    <2>4. \A d \in Dirs, r \in Ranks \ {mem.next} : Look(slot[d][r])' = Look(slot[d][r])
        BY <1>1, <1>7, FreezeSame, SameLook
    <2>5. \A d \in Dirs : \/ Look(slot[d][mem.next])' = Look(slot[d][mem.next])
                          \/ Look(slot[d][mem.next])' = Proposed(mem)
        <3>1. AtSlot(mem)' = slot'[Dir(mem)][mem.next]
            BY <2>1 DEF AtSlot, Dir
        <3>2. \A d \in Dirs : slot[d][mem.next] \in Link /\ (slot[d][mem.next] = NoInode \/ Names(slot[d][mem.next], mem.next))
            BY <1>1, <2>1 DEF FilesOK, Names
        <3>3. \A i \in Link : i = NoInode \/ Names(i, mem.next) => Look(i)' = Look(i)
            BY <1>7, <2>1, FreezeSame
        <3>4. \A d \in Dirs : slot'[d][mem.next] = slot[d][mem.next]
                              \/ (d = Dir(mem) /\ (Look(AtSlot(mem)))' = Proposed(mem))
            BY <1>7, FreezeSame
        <3>5. QED
            BY <2>1, <3>1, <3>2, <3>3, <3>4 DEF Look
    <2>6. WholeBehind'
        BY <1>1, <1>2, <2>1, <2>4, <2>5 DEF WholeBehind
    <2>7. QED
        BY <2>3, <2>6
<1>8. CASE Rename \/ BringBack
    <2>1. /\ mem.next \in Ranks /\ Dir(mem) \in Dirs /\ touched' = touched /\ content' = content
        BY <1>8, <1>1, Reads DEF IInv, CommandOK, Standing, StepPlaces, ResolvePlaces, Rename,
                                 BringBack, Cursor, human
    <2>2. CASE UNCHANGED <<home, slot, unsynced>>
        BY <1>3, <2>1, <2>2 DEF Same
    <2>3. CASE Swapped(Dir(mem), mem.next) /\ unsynced' = {<<Dir(mem), mem.next>>}
        <3>1. /\ \A t \in Ranks \ {mem.next} : home'[t] = home[t]
              /\ home'[mem.next] = AtSlot(mem) /\ slot'[Dir(mem)][mem.next] = AtHome(mem)
              /\ \A i : Look(i)' = Look(i)
            BY <1>1, <2>1, <2>3, SwapSame DEF AtSlot, AtHome
        <3>2. mem.next \notin touched => Rename /\ Look(AtSlot(mem)) = Proposed(mem)
            BY <1>1, <1>8, <2>1 DEF BringBack, Rename, Noted, NotMoved, Notes, WInv, Intention
        <3>3. NeverTorn'
            BY <1>1, <1>2, <2>1, <3>1, <3>2 DEF NeverTorn, Look
        <3>4. mem.next \notin touched => Look(AtHome(mem)) \in {Before(mem.next), After(mem.next)}
            BY <1>1, <2>1 DEF NeverTorn, AtHome
        <3>5. WholeBehind'
            BY <1>2, <2>1, <2>3, <3>1, <3>4 DEF WholeBehind, Look
        <3>6. QED
            BY <3>3, <3>5
    <2>4. QED
        BY <1>8, <2>1, <2>2, <2>3 DEF Rename, BringBack, SwapNames, Swapped
<1>9. CASE Crash
    <2>1. touched' = touched /\ content' = content /\ (unsynced' = unsynced \/ unsynced' = {})
        BY <1>9, CrashSame
    <2>2. CASE UNCHANGED <<home, slot>>
        BY <1>3, <2>1, <2>2 DEF Same
    <2>3. ASSUME NEW u \in unsynced, u[1] \in Dirs, u[2] \in Ranks, Swapped(u[1], u[2]), unsynced' = {}
          PROVE  NeverTorn' /\ WholeBehind'
        <3>1. /\ \A t \in Ranks \ {u[2]} : home'[t] = home[t]
              /\ home'[u[2]] = slot[u[1]][u[2]]
              /\ \A i : Look(i)' = Look(i)
            BY <1>1, <2>3, SwapSame
        <3>2. NeverTorn'
            BY <1>1, <1>2, <2>1, <2>3, <3>1 DEF NeverTorn, WholeBehind, Look
        <3>3. QED
            BY <2>3, <3>2 DEF WholeBehind
    <2>4. QED
        BY <1>9, <2>2, <2>3, CrashSame
<1>10. QED
    BY <1>4, <1>5, <1>6, <1>7, <1>8, <1>9, NextCases

\* What is known and what is whole stay so together.
LEMMA NextWInv == IInv /\ Shadow /\ WInv /\ [Next]_vars => WInv'
<1> SUFFICES ASSUME IInv, Shadow, WInv, [Next]_vars PROVE WInv'
    OBVIOUS
<1>1. Owned' /\ Intention' /\ NeverTorn' /\ WholeBehind'
    BY NextOwned, NextIntention, WholeStays DEF WInv
<1>2. CASE UNCHANGED vars
    <2>1. UNCHANGED <<mem, pc, home, slot, content, touched>>
        BY <1>2 DEF vars, service, files, human
    <2>2. Noted'
        BY <2>1 DEF WInv, Noted, Notes, Names, Moved, NotMoved, AtHome, AtSlot, Dir, Expected,
                    Proposed, Before, After, Look
    <2>3. QED
        BY <1>1, <2>2 DEF WInv
<1>3. CASE Quiet \/ FreezeProposed \/ Rename \/ BringBack \/ Crash \/ Human
    BY <1>1, <1>3, NotedQuiet, NotedMoves DEF WInv
<1>4. QED
    BY <1>2, <1>3, NextCases

\* The publication starts, and stays, with a command that knows where it stands.
LEMMA KnowsItsPlace == Spec => [](IInv /\ Shadow /\ WInv)
<1>1. Init => WInv
    <2> SUFFICES ASSUME Init PROVE WInv
        OBVIOUS
    <2>1. \A r, t \in Ranks : home[r] = home[t] /\ home[r] # NoInode => r = t
        BY DEF Init
    <2>2. Owned
        BY <2>1, ConstantsAssumption DEF Init, Owned, Apart, OneName, Has, Names, Dirs
    <2>3. Intention /\ Noted /\ WholeBehind
        BY ConstantsAssumption DEF Init, Intention, Noted, WholeBehind, NoJournal, Ranks
    <2>4. NeverTorn
        BY ConstantsAssumption DEF Init, NeverTorn, Look, Before
    <2>5. QED
        BY <2>2, <2>3, <2>4 DEF WInv
<1>2. QED
    BY <1>1, NextWInv, FollowsJournal, PTL DEF Spec

\* A document the human leaves alone shows one whole version, before or after,
\* at every moment: whatever stops the service or the machine, and whatever
\* I/O errors step meets (the promise of publication.rs to the human).
THEOREM NeverTornHolds == Spec => []NeverTorn
BY KnowsItsPlace, PTL DEF WInv

(***************************************************************************)
(* What no edit of the human can disturb.                                  *)
(***************************************************************************)

\* At rest, and while resolve decides, memory and journal are one.
AtRest == pc \in {"idle"} \cup ResolvePlaces => mem = disk

\* The walk stops on a rank it was to walk.
StopsOnRank == disk.state = "Conflict" => disk.next \notin disk.kept

\* A rank is recorded once its rename is synchronised.
SyncedFirst == pc = "record" => unsynced = {}

\* Before the batch turns, nothing is under the names an undo uses.
UndoUnused == ~disk.undo =>
    /\ \A r \in Ranks : slot["undo"][r] = NoInode
    /\ \A r \in Ranks : <<"undo", r>> \notin unsynced

Bare == AtRest /\ StopsOnRank /\ SyncedFirst /\ UndoUnused /\ faults <= MaxFaults

LEMMA NextBare == IInv /\ Shadow /\ Bare /\ [Next]_vars => Bare'
<1> SUFFICES ASSUME IInv, Shadow, Bare, [Next]_vars PROVE Bare'
    OBVIOUS
<1>1. /\ mem \in Journal /\ disk \in Journal /\ Cursor(mem) /\ Standing(pc, mem) /\ FilesOK
      /\ faults \in Nat /\ mem.undo = disk.undo /\ mem.kept = disk.kept /\ Dir(mem) = Dir(disk)
    BY DEF IInv, CommandOK, Cursor, BoundsOK, Shadow, Dir
<1>2. AtRest'
    <2>1. CASE \/ Apply \/ Record \/ SaveConflict \/ Finish \/ SaveResolution \/ SaveIntent
               \/ Recover \/ Crash \/ \E keepChanged \in BOOLEAN : Undo(keepChanged)
               \/ \E decision \in {"KeepMine", "RollBack"} : Resolve(decision)
        <3>1. CASE Recover \/ Crash \/ \E decision \in {"KeepMine", "RollBack"} : Resolve(decision)
            BY <3>1 DEF Recover, Crash, Resolve, AtRest
        <3>2. ASSUME NEW j, NEW p, Save(j, p)
              PROVE  AtRest'
            BY <3>2 DEF Save, AtRest
        <3>3. QED
            BY <2>1, <3>1, <3>2
            DEF Apply, Record, SaveConflict, Finish, SaveResolution, SaveIntent, Undo
    <2>2. CASE \/ Skip \/ CheckOriginal \/ Identify \/ Decide \/ FreezeProposed \/ Rename \/ Verify
               \/ IoError
        BY <2>2 DEF Skip, CheckOriginal, Identify, Decide, FreezeProposed, Rename, Verify, IoError,
                    AtRest, ResolvePlaces
    <2>3. CASE BringBack
        BY <2>3 DEF BringBack, Bare, AtRest, ResolvePlaces
    <2>4. CASE UNCHANGED service
        BY <2>4 DEF service, Bare, AtRest
    <2>5. QED
        BY <2>1, <2>2, <2>3, <2>4
        DEF Next, Step, Human, HumanOpens, HumanSaves, HumanReplaces, HumanDeletes, vars
<1>3. StopsOnRank'
    <2>1. CASE SaveConflict
        BY <1>1, <2>1 DEF SaveConflict, Save, StopsOnRank, Standing, StepPlaces, Journal
    <2>2. CASE UNCHANGED disk
        BY <2>2 DEF Bare, StopsOnRank
    <2>3. CASE disk'.state # "Conflict"
        BY <2>3 DEF StopsOnRank
    <2>4. CASE \/ Apply \/ Record \/ Finish \/ SaveIntent
               \/ \E keepChanged \in BOOLEAN : Undo(keepChanged)
        <3>1. disk'.state # "Conflict"
            BY <1>1, <2>4 DEF Apply, Record, Finish, SaveIntent, Undo, Save, Advanced, NoJournal,
                              Standing, StepPlaces, Journal
        <3>2. QED
            BY <2>3, <3>1
    <2>5. CASE SaveResolution
        <3>1. disk'.state \in {"Applying", "Undoing"}
            BY <1>1, <2>5, DecidedCursor
            DEF SaveResolution, Save, Standing, ResolvePlaces, IInv, CommandOK
        <3>2. QED
            BY <2>3, <3>1
    <2>6. QED
        BY <2>1, <2>2, <2>4, <2>5
        DEF Next, Step, Recover, Crash, Skip, CheckOriginal, Identify, Decide, FreezeProposed, Rename,
            Verify, IoError, BringBack, Resolve, Human, HumanOpens, HumanSaves, HumanReplaces,
            HumanDeletes, vars, service
<1>4. SyncedFirst'
    <2>1. CASE pc' = pc /\ unsynced' \subseteq unsynced
        BY <2>1 DEF Bare, SyncedFirst
    <2>2. pc' # "record" \/ Verify \/ (pc' = pc /\ unsynced' \subseteq unsynced)
        BY DEF Next, Step, Apply, Undo, Recover, Skip, CheckOriginal, Identify, FreezeProposed,
            SaveIntent, Decide, Rename, Verify, Record, SaveConflict, Finish, BringBack, Resolve,
            SaveResolution, IoError, Crash, Human, HumanOpens, HumanSaves, HumanReplaces,
            HumanDeletes, service, vars, Save
    <2>3. QED
        BY <2>1, <2>2 DEF SyncedFirst, Verify
<1>5. faults' <= MaxFaults
    <2>1. faults' = faults \/ (faults < MaxFaults /\ faults' = faults + 1)
        BY DEF Next, Step, Apply, Undo, Recover, Skip, CheckOriginal, Identify, FreezeProposed,
            SaveIntent, Decide, Rename, Verify, Record, SaveConflict, Finish, BringBack, Resolve,
            SaveResolution, IoError, Crash, Human, HumanOpens, HumanSaves, HumanReplaces,
            HumanDeletes, bounds, vars
    <2>2. QED
        BY <1>1, <2>1, ConstantsAssumption DEF Bare
<1>6. disk.undo => disk'.undo
    <2>1. CASE UNCHANGED disk
        BY <2>1
    <2>2. CASE Apply
        BY <2>2 DEF Apply, Shadow, NoJournal
    <2>3. CASE SaveIntent \/ Record \/ SaveConflict \/ Finish
        BY <1>1, <2>3 DEF SaveIntent, Record, SaveConflict, Finish, Save, Advanced, Journal
    <2>4. CASE SaveResolution \/ \E keepChanged \in BOOLEAN : Undo(keepChanged)
        BY <1>1, <2>4 DEF SaveResolution, Undo, Save, Decided, Advanced, Journal, NoJournal
    <2>5. QED
        BY <2>1, <2>2, <2>3, <2>4
        DEF Next, Step, Recover, Crash, Skip, CheckOriginal, Identify, Decide, FreezeProposed, Rename,
            Verify, IoError, BringBack, Resolve, Human, HumanOpens, HumanSaves, HumanReplaces,
            HumanDeletes, vars, service
<1>7. UndoUnused'
    <2> SUFFICES ASSUME ~disk'.undo PROVE UndoUnused'
        BY DEF UndoUnused
    <2>1. /\ ~disk.undo /\ Dir(mem) = "apply" /\ UndoUnused
        BY <1>1, <1>6 DEF Dir, Bare
    <2>2. CASE Quiet
        BY <2>1, <2>2, QuietSame DEF UndoUnused
    <2>3. CASE FreezeProposed
        <3>1. /\ unsynced' = unsynced /\ mem.next \in Ranks
              /\ slot' = slot \/ \E i : slot' = [slot EXCEPT !["apply"][mem.next] = i]
            BY <2>1, <2>3, FreezeSame DEF FreezeProposed
        <3>2. QED
            BY <1>1, <2>1, <3>1 DEF UndoUnused, FilesOK, Dirs
    <2>4. CASE Rename \/ BringBack
        <3>1. /\ unsynced' = unsynced \/ unsynced' = {<<"apply", mem.next>>}
              /\ slot' = slot \/ slot' = [slot EXCEPT !["apply"][mem.next] = home[mem.next]]
            BY <2>1, <2>4 DEF Rename, BringBack, SwapNames
        <3>2. slot'["undo"] = slot["undo"]
            BY <1>1, <3>1 DEF FilesOK, Dirs
        <3>3. \A r \in Ranks : <<"undo", r>> \notin unsynced'
            BY <2>1, <3>1 DEF UndoUnused
        <3>4. QED
            BY <2>1, <3>2, <3>3 DEF UndoUnused
    <2>5. CASE Crash
        <3>1. unsynced' = unsynced \/ unsynced' = {}
            BY <2>5, CrashSame
        <3>2. ASSUME NEW u \in unsynced, u[1] \in Dirs, u[2] \in Ranks, Swapped(u[1], u[2])
              PROVE  slot'["undo"] = slot["undo"]
            <4>1. u = <<u[1], u[2]>>
                BY <1>1 DEF FilesOK
            <4>2. u[1] # "undo"
                BY <2>1, <3>2, <4>1 DEF UndoUnused
            <4>3. QED
                BY <1>1, <3>2, <4>2 DEF Swapped, FilesOK, Dirs
        <3>3. slot'["undo"] = slot["undo"]
            BY <2>5, <3>2, CrashSame
        <3>4. QED
            BY <2>1, <3>1, <3>3 DEF UndoUnused
    <2>6. CASE Human \/ UNCHANGED vars
        <3>1. slot' = slot /\ unsynced' \subseteq unsynced
            BY <2>6 DEF Human, HumanOpens, HumanSaves, HumanReplaces, HumanDeletes, vars, files
        <3>2. QED
            BY <2>1, <3>1 DEF UndoUnused
    <2>7. QED
        BY <2>2, <2>3, <2>4, <2>5, <2>6, NextCases
<1>8. QED
    BY <1>2, <1>3, <1>4, <1>5, <1>7 DEF Bare

(***************************************************************************)
(* Where each document left alone stands.                                  *)
(***************************************************************************)

\* Either no rename is lost with the power, or step meets no I/O error.  An I/O
\* error between a rename and its synchronisation, then a decision of the human
\* and a loss of power, do take back what the journal counts as done (the run
\* PublicationSyncError).
Steady == ~PowerLoss \/ MaxFaults = 0

Leaves(undo, r)   == IF undo THEN After(r) ELSE Before(r)
Installs(undo, r) == IF undo THEN Before(r) ELSE After(r)

\* A document left alone, seen from the journal: left to the human, walked, or
\* not reached yet.  The rank of an intention may be on either side.
KeptShows(r) ==
    \/ Look(home[r]) = Before(r)
    \/ disk.undo /\ faults > 0 /\ Look(home[r]) = After(r)

Unreached(r) ==
    /\ Look(home[r]) = Leaves(disk.undo, r)
    /\ \/ slot[Dir(disk)][r] = NoInode
       \/ Look(slot[Dir(disk)][r]) = Installs(disk.undo, r)

Position(r) ==
    /\ r \in disk.kept => KeptShows(r)
    /\ r \notin disk.kept /\ r < disk.next => Look(home[r]) = Installs(disk.undo, r)
    /\ r \notin disk.kept /\ (r > disk.next \/ (r = disk.next /\ ~disk.pending)) => Unreached(r)

\* Only an I/O error stops the walk on a document left alone, and whoever settles
\* it finds it whole on one side.
Foreseen == mem.next \in Ranks \ touched =>
    /\ mem.pending => NotMoved(mem) \/ Moved(mem)
    /\ pc = "failed" \/ mem.state = "Conflict" => faults > 0
    /\ pc = "settled" => Look(AtHome(mem)) = Proposed(mem)
    /\ pc = "unsettled" => Look(AtHome(mem)) = Expected(mem)

\* Without I/O errors, only the rename of the intention on disk can be lost.
Pinned == MaxFaults = 0 => \A u \in unsynced : u[2] \notin touched =>
    disk.pending /\ u = <<Dir(disk), disk.next>>

PInv == (\A r \in Ranks \ touched : Position(r)) /\ Foreseen /\ Pinned

\* A journal that does not change says the same of a document that does not.
LEMMA PositionStill ==
    ASSUME FilesOK, BoundsOK, NEW r \in Ranks, Same(r), Position(r),
           disk' = disk, faults' = faults \/ faults' = faults + 1
    PROVE  Position(r)'
<1>1. /\ Look(home[r])' = Look(home[r]) /\ Dir(disk) \in Dirs /\ Dir(disk)' = Dir(disk)
      /\ \A d \in Dirs : slot'[d][r] = slot[d][r] /\ Look(slot[d][r])' = Look(slot[d][r])
      /\ faults > 0 => faults' > 0
    BY SameLook DEF Same, Dir, Dirs, BoundsOK
<1>2. Look(slot[Dir(disk)][r])' = Look(slot[Dir(disk)][r])
    BY <1>1 DEF Look
<1>3. /\ Leaves(disk.undo, r)' = Leaves(disk.undo, r)
      /\ Installs(disk.undo, r)' = Installs(disk.undo, r)
      /\ Before(r)' = Before(r) /\ After(r)' = After(r)
    BY DEF Leaves, Installs, Before, After
<1>4. KeptShows(r) => KeptShows(r)'
    BY <1>1, <1>3 DEF KeptShows
<1>5. Unreached(r) => Unreached(r)'
    BY <1>1, <1>2, <1>3 DEF Unreached
<1>6. QED
    BY <1>1, <1>3, <1>4, <1>5 DEF Position

\* The walk moves its journal only past ranks that are where it says.
LEMMA PositionQuiet ==
    ASSUME IInv, Shadow, WInv, Bare, PInv, Quiet, NEW r \in Ranks \ touched
    PROVE  Position(r)'
<1>1. /\ FilesOK /\ mem \in Journal /\ disk \in Journal /\ Cursor(mem) /\ Cursor(disk) /\ BoundsOK
      /\ Standing(pc, mem) /\ Noted /\ Intention /\ Position(r) /\ Foreseen /\ Bare
      /\ UNCHANGED <<home, slot, content>> /\ Same(r)
      /\ r \in Nat /\ disk.next \in Nat /\ mem.next \in Nat /\ N \in Nat /\ 1 <= r /\ r <= N
      /\ mem.state = disk.state /\ mem.undo = disk.undo /\ mem.kept = disk.kept
      /\ disk.next <= mem.next
    BY QuietSame, ConstantsAssumption DEF IInv, CommandOK, Cursor, WInv, PInv, Shadow, Ranks, Journal
<1>2. /\ Before(r)' = Before(r) /\ After(r)' = After(r)
      /\ Look(home[r])' = Look(home[r])
      /\ \A d \in Dirs : slot'[d][r] = slot[d][r] /\ Look(slot[d][r])' = Look(slot[d][r])
    BY <1>1, SameLook DEF Before, After, Same
\* A journal of the same direction, its ranks in between left to the human.
<1>3. ASSUME disk'.undo = disk.undo, disk'.kept = disk.kept, disk'.next \in Nat, faults' = faults,
             disk.next <= disk'.next, disk'.next = disk.next /\ disk.pending => disk'.pending,
             r \notin disk.kept /\ disk.next <= r /\ r < disk'.next => Look(home[r]) = Installs(disk.undo, r)
      PROVE  Position(r)'
    <2>1. /\ Leaves(disk.undo, r)' = Leaves(disk.undo, r)
          /\ Installs(disk.undo, r)' = Installs(disk.undo, r)
          /\ Dir(disk)' = Dir(disk) /\ Dir(disk) \in Dirs
        BY <1>2, <1>3 DEF Leaves, Installs, Dir, Dirs
    <2>2. KeptShows(r) => KeptShows(r)'
        BY <1>2, <1>3 DEF KeptShows
    <2>3. Unreached(r) => Unreached(r)'
        BY <1>1, <1>2, <2>1 DEF Unreached, Look
    <2>4. QED
        BY <1>1, <1>2, <1>3, <2>1, <2>2, <2>3 DEF Position
<1>4. CASE \/ Recover \/ Skip \/ CheckOriginal \/ Identify \/ Decide \/ IoError \/ Verify
           \/ \E decision \in {"KeepMine", "RollBack"} : Resolve(decision)
    <2>1. disk' = disk /\ (faults' = faults \/ faults' = faults + 1)
        BY <1>4, QuietSame DEF Quiet, Recover, Skip, CheckOriginal, Identify, Decide, IoError, Verify, Resolve
    <2>2. QED
        BY <1>1, <2>1, PositionStill
<1>5. CASE Apply
    <2>1. disk = NoJournal /\ disk' = [NoJournal EXCEPT !.state = "Applying"] /\ Look(home[r]) = Before(r)
        BY <1>5 DEF Apply, Save, Shadow
    <2>2. /\ disk'.undo = disk.undo /\ disk'.next = disk.next /\ disk'.pending = disk.pending
          /\ disk'.kept = disk.kept /\ faults' = faults
        BY <1>5, <2>1 DEF NoJournal, Apply, bounds
    <2>3. QED
        BY <1>1, <1>3, <2>2
<1>6. CASE SaveIntent
    <2>1. /\ disk'.undo = disk.undo /\ disk'.next = mem.next /\ disk'.pending /\ disk'.kept = disk.kept
          /\ faults' = faults
        BY <1>1, <1>6 DEF SaveIntent, Save, Journal, bounds
    <2>2. QED
        BY <1>1, <1>3, <2>1 DEF Intention
<1>7. CASE Record
    <2>1. /\ disk'.undo = disk.undo /\ disk'.next = mem.next + 1 /\ disk'.kept = disk.kept
          /\ faults' = faults /\ disk = mem
        BY <1>1, <1>7 DEF Record, Save, Advanced, Journal, bounds, Intention
    <2>2. r = mem.next => Look(home[r]) = Installs(disk.undo, r)
        BY <1>1, <1>7, <2>1 DEF Record, Noted, Moved, Notes, AtHome, Proposed, Installs, Intention
    <2>3. QED
        BY <1>1, <1>3, <2>1, <2>2
<1>8. CASE SaveConflict \/ Finish
    <2>1. /\ disk'.undo = disk.undo /\ disk'.next = mem.next /\ disk'.kept = disk.kept
          /\ disk'.pending = mem.pending /\ faults' = faults
        BY <1>1, <1>8 DEF SaveConflict, Finish, Save, Journal, bounds
    <2>2. QED
        BY <1>1, <1>3, <2>1 DEF Intention
<1>9. ASSUME NEW keepChanged \in BOOLEAN, Undo(keepChanged)
      PROVE  Position(r)'
    <2>1. /\ disk'.undo /\ disk'.next = 1 /\ ~disk'.pending /\ disk'.kept = disk.kept \cup Changed(disk)
          /\ faults' = faults
        BY <1>1, <1>9 DEF Undo, Save, NoJournal, bounds
    <2>2. ~disk.undo /\ disk.next = N + 1
        BY <1>1, <1>9 DEF Undo, Cursor, Readable
    <2>3. r \in disk.kept => Look(home[r]) = Before(r)
        BY <1>1, <2>2 DEF Position, KeptShows
    <2>4. r \notin disk.kept => Look(home[r]) = After(r) /\ r \notin disk'.kept
        BY <1>1, <2>1, <2>2 DEF Position, Installs, Changed
    <2>5. slot["undo"][r] = NoInode
        BY <1>1, <2>2 DEF Bare, UndoUnused
    <2>6. KeptShows(r)' \/ r \notin disk.kept
        BY <1>2, <2>3 DEF KeptShows
    <2>7. Unreached(r)' \/ r \in disk.kept
        BY <1>1, <1>2, <2>1, <2>4, <2>5 DEF Unreached, Leaves, Dir
    <2>8. ~(r < disk'.next) /\ (r \in disk'.kept <=> r \in disk.kept)
        BY <1>1, <2>1, <2>4
    <2>9. QED
        BY <2>6, <2>7, <2>8 DEF Position
<1>10. CASE SaveResolution
    <2>1. /\ mem = disk /\ mem.state = "Conflict" /\ mem.next <= N /\ pc \in ResolvePlaces
          /\ faults' = faults
          /\ disk' = Decided(mem, choice, pc = "settled")
        BY <1>1, <1>10 DEF SaveResolution, Save, AtRest, Bare, ResolvePlaces, Standing, bounds
    <2>2. r = mem.next => /\ pc = "settled" => Look(home[r]) = Installs(disk.undo, r)
                          /\ pc # "settled" => Look(home[r]) = Leaves(disk.undo, r)
                          /\ faults > 0
        BY <1>1, <1>10, <2>1
        DEF SaveResolution, Foreseen, Noted, AtHome, Proposed, Expected, Installs, Leaves
    <2>3. mem.next \notin mem.kept
        BY <1>1, <2>1 DEF Bare, StopsOnRank
    <2>4. CASE choice = "KeepMine"
        <3>1. /\ disk'.undo = disk.undo /\ disk'.next = mem.next + 1 /\ ~disk'.pending
              /\ disk'.kept = disk.kept \cup (IF pc = "settled" THEN {} ELSE {mem.next})
            BY <1>1, <2>1, <2>4 DEF Decided, Advanced, Journal
        <3>2. CASE r # mem.next \/ pc = "settled"
            <4>1. /\ Leaves(disk.undo, r)' = Leaves(disk.undo, r)
                  /\ Installs(disk.undo, r)' = Installs(disk.undo, r)
                  /\ Dir(disk)' = Dir(disk) /\ Dir(disk) \in Dirs
                BY <1>2, <3>1 DEF Leaves, Installs, Dir, Dirs
            <4>2. KeptShows(r) => KeptShows(r)'
                BY <1>2, <2>1, <3>1 DEF KeptShows
            <4>3. Unreached(r) => Unreached(r)'
                BY <1>1, <1>2, <4>1 DEF Unreached, Look
            <4>4. r \in disk'.kept <=> r \in disk.kept
                BY <3>1, <3>2
            <4>5. QED
                BY <1>1, <1>2, <2>1, <2>2, <3>1, <3>2, <4>1, <4>2, <4>3, <4>4 DEF Position
        <3>3. CASE r = mem.next /\ pc # "settled"
            <4>1. KeptShows(r)' /\ r \in disk'.kept
                BY <1>1, <1>2, <2>1, <2>2, <3>1, <3>3 DEF KeptShows, Leaves, Journal, BoundsOK
            <4>2. QED
                BY <4>1 DEF Position
        <3>4. QED
            BY <3>2, <3>3
    <2>5. CASE choice = "RollBack"
        <3>1. /\ ~disk.undo /\ disk'.undo /\ disk'.next = 1 /\ ~disk'.pending
              /\ disk'.kept = (disk.kept \cup (IF pc = "settled" THEN {} ELSE {mem.next}))
                                 \cup (mem.next + 1) .. N
            BY <1>1, <2>1, <2>5 DEF Decided, NoJournal, Shadow
        <3>2. slot["undo"][r] = NoInode
            BY <1>1, <3>1 DEF Bare, UndoUnused
        <3>3. r \in disk'.kept => Look(home[r]) = Before(r)
            BY <1>1, <2>1, <2>2, <3>1 DEF Position, KeptShows, Unreached, Leaves
        <3>4. r \notin disk'.kept => Look(home[r]) = After(r)
            BY <1>1, <2>1, <2>2, <3>1 DEF Position, Installs
        <3>5. KeptShows(r)' \/ r \notin disk'.kept
            BY <1>2, <3>3 DEF KeptShows
        <3>6. Unreached(r)' \/ r \in disk'.kept
            BY <1>1, <1>2, <3>1, <3>2, <3>4 DEF Unreached, Leaves, Dir
        <3>7. ~(r < disk'.next)
            BY <1>1, <3>1
        <3>8. QED
            BY <3>5, <3>6, <3>7 DEF Position
    <2>6. QED
        BY <2>4, <2>5 DEF IInv, CommandOK
<1>11. QED
    BY <1>4, <1>5, <1>6, <1>7, <1>8, <1>9, <1>10 DEF Quiet

\* A copy, a rename or its loss moves only the rank the journal speaks of.
LEMMA PositionMoves ==
    ASSUME IInv, Shadow, WInv, Bare, PInv, Steady,
           FreezeProposed \/ Rename \/ BringBack \/ Crash \/ Human,
           NEW r \in Ranks \ touched'
    PROVE  Position(r)'
<1>1. /\ FilesOK /\ mem \in Journal /\ disk \in Journal /\ Cursor(mem) /\ Cursor(disk) /\ BoundsOK
      /\ Standing(pc, mem) /\ Noted /\ Intention /\ Foreseen /\ Bare /\ Pinned
      /\ r \in Nat /\ disk.next \in Nat
      /\ Dir(mem) = Dir(disk) /\ mem.undo = disk.undo /\ mem.kept = disk.kept
    BY ConstantsAssumption DEF IInv, CommandOK, Cursor, WInv, PInv, Shadow, Ranks, Journal, Dir
<1>2. disk' = disk /\ faults' = faults /\ touched \subseteq touched'
    BY <1>1, HumanSame DEF FreezeProposed, Rename, BringBack, Crash, service, bounds, human, WInv
<1>3. r \notin touched /\ Position(r)
    BY <1>2 DEF PInv
<1>4. CASE Same(r)
    BY <1>1, <1>2, <1>3, <1>4, PositionStill
<1>5. CASE disk.pending /\ r = disk.next
    BY <1>1, <1>2, <1>5 DEF Position, Cursor
<1>6. CASE Human
    BY <1>4, <1>6, HumanSame DEF WInv
<1>7. CASE Rename \/ BringBack
    <2>1. mem.next \in Ranks /\ Dir(mem) \in Dirs
        BY <1>1, <1>7, Reads DEF Standing, StepPlaces, ResolvePlaces, Rename, BringBack
    <2>2. \/ UNCHANGED <<home, slot, content, unsynced>>
          \/ Swapped(Dir(mem), mem.next) /\ unsynced' = {<<Dir(mem), mem.next>>}
        BY <1>7 DEF Rename, BringBack, SwapNames, Swapped
    <2>3. r # mem.next => Same(r)
        BY <1>1, <2>1, <2>2, SwapSame DEF Same, Swapped
    <2>4. r = mem.next => disk.pending /\ r = disk.next
        BY <1>1, <1>3, <1>7 DEF Rename, BringBack, Intention, Noted
    <2>5. QED
        BY <1>4, <1>5, <2>3, <2>4
<1>8. CASE Crash
    <2>1. CASE UNCHANGED <<home, slot>>
        BY <1>4, <1>8, <2>1, CrashSame DEF Same
    <2>2. ASSUME NEW u \in unsynced, u[1] \in Dirs, u[2] \in Ranks, PowerLoss,
                 Swapped(u[1], u[2]), unsynced' = {}
          PROVE  Position(r)'
        <3>1. r # u[2] => Same(r)
            BY <1>1, <2>2, SwapSame DEF Same, Swapped
        <3>2. r = u[2] => disk.pending /\ r = disk.next
            BY <1>1, <1>3, <2>2 DEF Steady, Pinned
        <3>3. QED
            BY <1>4, <1>5, <3>1, <3>2
    <2>3. QED
        BY <1>8, <2>1, <2>2, CrashSame
<1>9. CASE FreezeProposed
    <2>1. r # mem.next => Same(r)
        BY <1>9, FreezeSame
    <2>2. CASE r = mem.next
        <3>1. /\ home' = home /\ Dir(disk) \in Dirs /\ home[r] \in Link /\ slot[Dir(disk)][r] \in Link
              /\ \A i \in Link : i = NoInode \/ Names(i, r) => Look(i)' = Look(i)
              /\ \/ UNCHANGED slot
                 \/ (Look(AtSlot(mem)))' = Proposed(mem)
            BY <1>1, <1>9, FreezeSame DEF FilesOK
        <3>2. mem'.next = mem.next /\ mem'.undo = mem.undo
            BY <1>1, <1>9 DEF FreezeProposed, Journal
        <3>3. AtSlot(mem)' = slot'[Dir(disk)][r] /\ Proposed(mem) = Installs(disk.undo, r)
            BY <1>1, <2>2, <3>2 DEF AtSlot, Dir, Proposed, Installs
        <3>4. Look(home[r])' = Look(home[r])
            BY <3>1 DEF Names, Look
        <3>5. \/ slot'[Dir(disk)][r] = slot[Dir(disk)][r]
                 /\ Look(slot[Dir(disk)][r])' = Look(slot[Dir(disk)][r])
              \/ Look(slot[Dir(disk)][r])' = Installs(disk.undo, r)
            BY <1>2, <3>1, <3>3 DEF Names, Look, Dir
        <3>6. /\ Leaves(disk.undo, r)' = Leaves(disk.undo, r)
              /\ Installs(disk.undo, r)' = Installs(disk.undo, r)
              /\ Before(r)' = Before(r) /\ After(r)' = After(r) /\ Dir(disk)' = Dir(disk)
            BY <1>2 DEF Leaves, Installs, Before, After, Dir
        <3>7. KeptShows(r) => KeptShows(r)'
            BY <1>2, <3>4, <3>6 DEF KeptShows
        <3>8. Unreached(r) => Unreached(r)'
            BY <1>2, <3>4, <3>5, <3>6 DEF Unreached
        <3>9. QED
            BY <1>2, <1>3, <3>4, <3>6, <3>7, <3>8 DEF Position
    <2>3. QED
        BY <1>4, <2>1, <2>2
<1>10. QED
    BY <1>6, <1>7, <1>8, <1>9

\* Without I/O errors, the journal never leaves a rename of a document behind.
LEMMA NextPinned ==
    ASSUME IInv, Shadow, WInv, Bare, PInv, [Next]_vars
    PROVE  Pinned'
<1> SUFFICES ASSUME MaxFaults = 0, NEW u \in unsynced', u[2] \notin touched'
             PROVE  disk'.pending /\ u = <<Dir(disk)', disk'.next>>
    BY DEF Pinned
<1>1. /\ mem \in Journal /\ disk \in Journal /\ Standing(pc, mem) /\ Cursor(mem) /\ Cursor(disk)
      /\ Intention /\ Foreseen /\ Bare /\ Dir(mem) = Dir(disk) /\ mem.undo = disk.undo
      /\ faults = 0 /\ FilesOK /\ Pinned
    BY DEF IInv, CommandOK, Cursor, WInv, PInv, Shadow, Dir, Bare, BoundsOK
<1>2. CASE Rename \/ BringBack
    <2>1. disk.pending /\ mem = disk
        BY <1>1, <1>2 DEF Rename, BringBack, Intention
    <2>2. u \in unsynced \/ u = <<Dir(disk), disk.next>>
        BY <1>2, <2>1 DEF Rename, BringBack, SwapNames
    <2>3. UNCHANGED <<disk, touched>>
        BY <1>2 DEF Rename, BringBack, human
    <2>4. QED
        BY <1>1, <2>1, <2>2, <2>3 DEF Pinned, Dir
<1>3. CASE u \in unsynced /\ u[2] \notin touched
    <2>1. disk.pending /\ u = <<Dir(disk), disk.next>> /\ mem = disk /\ mem.next \in Ranks \ touched
        BY <1>1, <1>3 DEF Pinned, FilesOK, Intention
    <2>2. pc # "record" /\ pc # "failed" /\ mem.state # "Conflict"
        <3>1. pc # "record"
            BY <1>1, <1>3 DEF Bare, SyncedFirst
        <3>2. ~(faults > 0)
            BY <1>1
        <3>3. QED
            BY <1>1, <2>1, <3>1, <3>2 DEF Foreseen
    <2>3. ~Record /\ ~SaveConflict /\ ~SaveResolution
        BY <1>1, <2>2 DEF Record, SaveConflict, SaveResolution, Standing, ResolvePlaces
    <2>4. ~Apply /\ ~Finish /\ ~SaveIntent /\ ~\E keepChanged \in BOOLEAN : Undo(keepChanged)
        <3>1. ~Apply
            BY <2>1 DEF Apply, Shadow, NoJournal
        <3>2. ~Finish
            BY <1>1, <2>1, ConstantsAssumption DEF Finish, Ranks
        <3>3. ~SaveIntent
            BY <1>1, <2>1 DEF SaveIntent, Intention
        <3>4. ~\E keepChanged \in BOOLEAN : Undo(keepChanged)
            BY <1>1, <2>1 DEF Undo, Cursor, Readable
        <3>5. QED
            BY <3>1, <3>2, <3>3, <3>4
    <2>5. disk' = disk
        BY <2>3, <2>4
        DEF Next, Step, Recover, Crash, Skip, CheckOriginal, Identify, Decide, FreezeProposed, Rename,
            Verify, IoError, BringBack, Resolve, Human, HumanOpens, HumanSaves, HumanReplaces,
            HumanDeletes, vars, service
    <2>6. QED
        BY <2>1, <2>5 DEF Dir
<1>4. CASE ~(Rename \/ BringBack)
    <2>1. unsynced' \subseteq unsynced /\ touched \subseteq touched'
        BY <1>4, QuietSame, CrashSame, HumanSame, NextCases
        DEF FreezeProposed, vars, human, WInv
    <2>2. QED
        BY <1>3, <2>1
<1>5. QED
    BY <1>2, <1>4

\* A version of the document that is "absent" is no file, and no file is "absent".
LEMMA AbsentIsNone ==
    ASSUME FilesOK, NEW i \in Link
    PROVE  Look(i) = "absent" <=> i = NoInode
BY ConstantsAssumption DEF FilesOK, Look, Link, Contents

\* A document left alone is as step expects it before the intention is written.
LEMMA NotStoppedBefore ==
    ASSUME IInv, Shadow, WInv, Bare, PInv, mem.next \in Ranks \ touched, ~mem.pending,
           mem.next \notin mem.kept
    PROVE  /\ Look(AtHome(mem)) = Expected(mem)
           /\ AtSlot(mem) = NoInode \/ Look(AtSlot(mem)) = Proposed(mem)
<1>1. /\ mem \in Journal /\ disk \in Journal /\ ~disk.pending /\ disk.next <= mem.next
      /\ mem.undo = disk.undo /\ mem.kept = disk.kept /\ Position(mem.next)
      /\ mem.next \in Nat /\ disk.next \in Nat
    BY ConstantsAssumption DEF IInv, CommandOK, Cursor, Shadow, WInv, Intention, PInv, Journal
<1>2. Unreached(mem.next)
    BY <1>1 DEF Position
<1>3. Dir(disk) = Dir(mem)
    BY <1>1 DEF Dir
<1>4. QED
    BY <1>1, <1>2, <1>3 DEF Unreached, Leaves, Installs, AtHome, AtSlot, Expected, Proposed

\* Once it is written, the names agree with it, and the rename is possible.
LEMMA NotStoppedAfter ==
    ASSUME IInv, Shadow, WInv, Bare, PInv, mem.next \in Ranks \ touched, mem.pending
    PROVE  /\ NotMoved(mem) => /\ Look(AtHome(mem)) = Expected(mem)
                               /\ Look(AtSlot(mem)) = Proposed(mem)
                               /\ CanRename(mem)
           /\ Moved(mem) => TookPlace(mem)
           /\ NotMoved(mem) \/ Moved(mem)
<1>1. /\ FilesOK /\ AtHome(mem) \in Link /\ AtSlot(mem) \in Link /\ mem.next \in Ranks
      /\ Foreseen /\ Noted
    BY Reads, ConstantsAssumption DEF IInv, CommandOK, Cursor, WInv, PInv, Ranks, Journal
<1>2. Look(mem.original) = Expected(mem) /\ Look(mem.proposed) = Proposed(mem)
    BY <1>1 DEF Noted, Notes
<1>3. Expected(mem) # "absent" \/ Proposed(mem) # "absent"
    BY DEF Expected, Proposed, Before, After
<1>4. NotMoved(mem) => CanRename(mem)
    BY <1>1, <1>2, <1>3, AbsentIsNone DEF NotMoved, CanRename, CanExchange, CanMoveIn, CanMoveOut
<1>5. QED
    BY <1>1, <1>2, <1>4 DEF NotMoved, Moved, TookPlace, Foreseen

\* The steps that move no file stop on a document left alone only by an I/O error.
LEMMA ForeseenQuiet ==
    ASSUME IInv, Shadow, WInv, Bare, PInv, Quiet
    PROVE  Foreseen'
<1>1. /\ FilesOK /\ mem \in Journal /\ disk \in Journal /\ Cursor(mem) /\ Cursor(disk) /\ BoundsOK
      /\ Standing(pc, mem) /\ Noted /\ Intention /\ Foreseen /\ Bare
      /\ UNCHANGED <<home, slot, content, touched>> /\ (faults' = faults \/ IoError)
      /\ mem.state = disk.state /\ mem.undo = disk.undo /\ mem.kept = disk.kept
    BY QuietSame DEF IInv, CommandOK, Cursor, WInv, PInv, Shadow
<1>2. ASSUME ~mem'.pending, pc' \in {"loop", "idle"}, mem'.state # "Conflict"
      PROVE  Foreseen'
    BY <1>2 DEF Foreseen
<1>3. CASE Apply \/ \E keepChanged \in BOOLEAN : Undo(keepChanged)
    BY <1>2, <1>3 DEF Apply, Undo, Save, NoJournal
<1>4. CASE Skip
    BY <1>1, <1>2, <1>4 DEF Skip, Cursor, Standing, Journal
<1>5. CASE Record
    BY <1>1, <1>2, <1>5 DEF Record, Save, Advanced, Standing, StepPlaces, Journal
<1>6. CASE Finish
    BY <1>1, <1>2, <1>6, ConstantsAssumption DEF Finish, Save, Cursor, Readable, Journal
<1>7. CASE SaveResolution
    <2>1. mem'.state \in {"Applying", "Undoing"} /\ pc' = "loop"
        BY <1>1, <1>7, DecidedCursor DEF SaveResolution, Save, Standing, ResolvePlaces, IInv, CommandOK
    <2>2. ~mem'.pending
        BY <1>1, <1>7 DEF SaveResolution, Save, Decided, Advanced, Journal, NoJournal
    <2>3. QED
        BY <1>2, <2>1, <2>2
<1>8. ASSUME mem'.next = mem.next, mem'.undo = mem.undo
      PROVE  /\ AtHome(mem)' = AtHome(mem) /\ AtSlot(mem)' = AtSlot(mem)
             /\ Look(AtHome(mem))' = Look(AtHome(mem))
             /\ Expected(mem)' = Expected(mem) /\ Proposed(mem)' = Proposed(mem)
    BY <1>1, <1>8 DEF AtHome, AtSlot, Dir, Look, Expected, Proposed, Before, After
<1>9. CASE Recover
    <2>1. mem' = disk /\ pc' = "loop" /\ disk.state # "Conflict"
        BY <1>9 DEF Recover
    <2>2. CASE ~disk.pending
        BY <1>2, <2>1, <2>2
    <2>3. CASE disk.pending
        <3>1. mem' = mem
            BY <1>1, <2>1, <2>3 DEF Intention
        <3>2. (NotMoved(mem) => NotMoved(mem)') /\ (Moved(mem) => Moved(mem)')
            BY <1>8, <3>1 DEF NotMoved, Moved
        <3>3. QED
            BY <1>1, <2>1, <3>1, <3>2 DEF Foreseen
    <2>4. QED
        BY <2>2, <2>3
<1>10. ASSUME NEW decision \in {"KeepMine", "RollBack"}, Resolve(decision)
       PROVE  Foreseen'
    <2>1. mem' = mem /\ mem = disk /\ mem.state = "Conflict" /\ faults' = faults
        BY <1>1, <1>10 DEF Resolve, Bare, AtRest, bounds
    <2> SUFFICES ASSUME mem.next \in Ranks \ touched PROVE Foreseen'
        BY <1>1, <2>1 DEF Foreseen
    <2>2. (NotMoved(mem) => NotMoved(mem)') /\ (Moved(mem) => Moved(mem)')
        BY <1>8, <2>1 DEF NotMoved, Moved
    <2>3. pc' = "settled" => Look(AtHome(mem)) = Proposed(mem)
        BY <1>10, <2>1 DEF Resolve, TookPlace
    <2>4. pc' = "unsettled" => Look(AtHome(mem)) = Expected(mem)
        <3>1. pc' = "unsettled" => ~TookPlace(mem)
            BY <1>10, <2>1 DEF Resolve
        <3>2. CASE mem.pending
            BY <3>1, <3>2, NotStoppedAfter
        <3>3. CASE ~mem.pending
            BY <1>1, <2>1, <3>3, NotStoppedBefore DEF Bare, StopsOnRank
        <3>4. QED
            BY <3>2, <3>3
    <2>5. pc' \in {"settled", "unsettled", "bringBack"}
        BY <1>10 DEF Resolve
    <2>6. QED
        BY <1>1, <1>8, <2>1, <2>2, <2>3, <2>4, <2>5 DEF Foreseen
<1>11. CASE CheckOriginal \/ Decide \/ Verify
    <2>1. mem' = mem /\ faults' = faults /\ mem.state # "Conflict" /\ mem.next \notin mem.kept
        BY <1>1, <1>11 DEF CheckOriginal, Decide, Verify, AtStep, Standing, StepPlaces, bounds
    <2> SUFFICES ASSUME mem.next \in Ranks \ touched PROVE Foreseen'
        BY <1>1, <2>1 DEF Foreseen
    <2>2. (NotMoved(mem) => NotMoved(mem)') /\ (Moved(mem) => Moved(mem)')
        BY <1>8, <2>1 DEF NotMoved, Moved
    <2>3. pc' \in {"identify", "rename", "verify", "record"}
        <3>1. CASE CheckOriginal
            BY <2>1, <3>1, NotStoppedBefore DEF CheckOriginal
        <3>2. CASE Decide
            <4>1. mem.pending
                BY <1>1, <3>2 DEF Decide, Intention
            <4>2. QED
                BY <3>2, <4>1, NotStoppedAfter DEF Decide, NotMoved, Moved
        <3>3. CASE Verify
            <4>1. mem.pending /\ Moved(mem)
                BY <1>1, <3>3 DEF Verify, Intention, Noted
            <4>2. QED
                BY <3>3, <4>1, NotStoppedAfter DEF Verify, Verified, Moved, TookPlace
        <3>4. QED
            BY <1>11, <3>1, <3>2, <3>3
    <2>4. QED
        BY <1>1, <2>1, <2>2, <2>3 DEF Foreseen
<1>12. CASE Identify
    BY <1>1, <1>12 DEF Identify, Foreseen, Intention, Standing, StepPlaces, Journal
<1>13. CASE SaveIntent \/ IoError \/ SaveConflict
    <2>1. /\ mem'.next = mem.next /\ mem'.undo = mem.undo
          /\ mem.pending => mem'.original = mem.original /\ mem'.proposed = mem.proposed
          /\ pc' \in {"decide", "failed", "idle"}
        BY <1>1, <1>13 DEF SaveIntent, IoError, SaveConflict, Save, Journal, Intention
    <2> SUFFICES ASSUME mem.next \in Ranks \ touched PROVE Foreseen'
        BY <1>1, <2>1 DEF Foreseen
    <2>2. mem'.pending => NotMoved(mem)' \/ Moved(mem)'
        <3>1. CASE mem.pending
            BY <1>1, <1>8, <2>1, <3>1 DEF Foreseen, NotMoved, Moved
        <3>2. CASE ~mem.pending
            <4>1. mem'.pending => /\ pc = "intent"
                                  /\ mem'.original = mem.original /\ mem'.proposed = mem.proposed
                BY <1>1, <1>13, <3>2 DEF SaveIntent, IoError, SaveConflict, Save, Journal
            <4>2. QED
                BY <1>1, <1>8, <2>1, <4>1 DEF Noted, NotMoved
        <3>3. QED
            BY <3>1, <3>2
    <2>3. pc' = "failed" \/ mem'.state = "Conflict" => faults' > 0
        <3>1. CASE IoError
            BY <1>1, <3>1 DEF IoError, BoundsOK
        <3>2. CASE SaveIntent
            BY <1>1, <3>2 DEF SaveIntent, Save, Standing, StepPlaces, Journal
        <3>3. CASE SaveConflict
            BY <1>1, <3>3 DEF SaveConflict, Foreseen, bounds
        <3>4. QED
            BY <1>13, <3>1, <3>2, <3>3
    <2>4. QED
        BY <2>1, <2>2, <2>3 DEF Foreseen
<1>14. QED
    BY <1>3, <1>4, <1>5, <1>6, <1>7, <1>9, <1>10, <1>11, <1>12, <1>13 DEF Quiet

\* Nor do the steps that move one, nor the human elsewhere.
LEMMA ForeseenMoves ==
    ASSUME IInv, Shadow, WInv, Bare, PInv, Steady,
           FreezeProposed \/ Rename \/ BringBack \/ Crash \/ Human
    PROVE  Foreseen'
<1>1. /\ FilesOK /\ mem \in Journal /\ disk \in Journal /\ Cursor(mem) /\ Cursor(disk) /\ BoundsOK
      /\ Standing(pc, mem) /\ Noted /\ Intention /\ Foreseen /\ Bare /\ Pinned /\ Owned
      /\ mem.state = disk.state
    BY DEF IInv, CommandOK, Cursor, WInv, PInv, Shadow
<1>2. faults' = faults /\ touched \subseteq touched'
    BY <1>1, HumanSame DEF FreezeProposed, Rename, BringBack, Crash, bounds, human
<1> SUFFICES ASSUME mem'.next \in Ranks \ touched' PROVE Foreseen'
    BY DEF Foreseen
<1>3. CASE Human
    <2>1. UNCHANGED <<mem, pc>> /\ \A r \in Ranks : r = mem.next => Same(r)
        BY <1>1, <1>3, HumanSame DEF service
    <2>2. Dir(mem) \in Dirs /\ mem.next \in Ranks \ touched
        BY <1>2, <2>1 DEF Dir, Dirs
    <2>3. AtHome(mem)' = AtHome(mem) /\ AtSlot(mem)' = AtSlot(mem)
        BY <2>1, <2>2 DEF AtHome, AtSlot, Dir, Same
    <2>4. Look(AtHome(mem))' = Look(AtHome(mem))
        BY <1>1, <2>1, <2>2, SameLook DEF AtHome, Look
    <2>5. Expected(mem)' = Expected(mem) /\ Proposed(mem)' = Proposed(mem)
        BY <2>1 DEF Expected, Proposed, Before, After
    <2>6. (NotMoved(mem) => NotMoved(mem)') /\ (Moved(mem) => Moved(mem)')
        BY <2>1, <2>3 DEF NotMoved, Moved
    <2>7. QED
        BY <1>1, <1>2, <2>1, <2>2, <2>4, <2>5, <2>6 DEF Foreseen
<1>4. CASE FreezeProposed
    <2>1. /\ mem'.next = mem.next /\ mem'.pending = mem.pending /\ mem'.state = mem.state
          /\ mem.next \notin mem.kept /\ mem.state # "Conflict" /\ ~mem.pending
          /\ mem.next \in Ranks \ touched
        BY <1>1, <1>2, <1>4 DEF FreezeProposed, Intention, Standing, StepPlaces, Journal
    <2>2. pc' = "intent"
        <3>1. Look(AtHome(mem)) = Expected(mem)
            BY <1>1, <1>4, <2>1 DEF FreezeProposed, Noted
        <3>2. AtSlot(mem) = NoInode \/ Look(AtSlot(mem)) = Proposed(mem)
            BY <2>1, NotStoppedBefore
        <3>3. QED
            BY <1>4, <3>1, <3>2 DEF FreezeProposed
    <2>3. QED
        BY <2>1, <2>2 DEF Foreseen
<1>5. CASE Rename
    <2>1. /\ mem' = mem /\ mem.pending /\ mem.next \in Ranks \ touched /\ mem.state # "Conflict"
          /\ NotMoved(mem) /\ Dir(mem) \in Dirs
        BY <1>1, <1>2, <1>5 DEF Rename, Intention, Noted, Standing, StepPlaces, Dir, Dirs
    <2>2. CanRename(mem)
        BY <2>1, NotStoppedAfter
    <2>3. Swapped(Dir(mem), mem.next) /\ pc' = "verify"
        BY <1>5, <2>2 DEF Rename, SwapNames, Swapped
    <2>4. home'[mem.next] = AtSlot(mem) /\ slot'[Dir(mem)][mem.next] = AtHome(mem)
        BY <1>1, <2>1, <2>3, SwapSame DEF AtHome, AtSlot
    <2>5. AtHome(mem)' = AtSlot(mem) /\ AtSlot(mem)' = AtHome(mem)
        BY <2>1, <2>4 DEF AtHome, AtSlot, Dir
    <2>6. Moved(mem)'
        BY <2>1, <2>5 DEF Moved, NotMoved
    <2>7. QED
        BY <2>1, <2>3, <2>6 DEF Foreseen
<1>6. CASE BringBack
    <2>1. mem.next \in Ranks => mem.next \in touched
        BY <1>1, <1>6 DEF BringBack, Noted
    <2>2. mem' = mem \/ (mem' = disk /\ mem = disk)
        BY <1>1, <1>6 DEF BringBack, Bare, AtRest, ResolvePlaces
    <2>3. QED
        BY <1>2, <2>1, <2>2
<1>7. CASE Crash
    <2>1. mem' = disk /\ disk' = disk /\ pc' = "idle" /\ touched' = touched
        BY <1>7, CrashSame
    <2>2. disk.state = "Conflict" => faults' > 0
        BY <1>1, <1>2, <2>1 DEF Standing, Foreseen, Bare, AtRest, ResolvePlaces, Places, StepPlaces
    <2>3. disk.pending => NotMoved(mem)' \/ Moved(mem)'
        <3> SUFFICES ASSUME disk.pending PROVE NotMoved(mem)' \/ Moved(mem)'
            OBVIOUS
        <3>1. mem' = mem /\ mem = disk /\ mem.pending /\ mem.next \in Ranks \ touched /\ Dir(mem) \in Dirs
            BY <1>1, <2>1 DEF Intention, Dir, Dirs
        <3>2. NotMoved(mem) \/ Moved(mem)
            BY <1>1, <3>1 DEF Foreseen
        <3>3. CASE UNCHANGED <<home, slot>>
            BY <3>1, <3>2, <3>3 DEF NotMoved, Moved, AtHome, AtSlot, Dir
        <3>4. ASSUME NEW u \in unsynced, u[1] \in Dirs, u[2] \in Ranks, PowerLoss,
                     Swapped(u[1], u[2])
              PROVE  NotMoved(mem)' \/ Moved(mem)'
            <4>1. CASE u[2] = mem.next
                <5>1. u = <<Dir(mem), mem.next>>
                    BY <3>1, <3>4, <1>1, <4>1 DEF Steady, Pinned
                <5>2. Swapped(Dir(mem), mem.next)
                    BY <3>4, <5>1
                <5>3. home'[mem.next] = AtSlot(mem) /\ slot'[Dir(mem)][mem.next] = AtHome(mem)
                    BY <1>1, <3>1, <5>2, SwapSame DEF AtHome, AtSlot
                <5>4. AtHome(mem)' = AtSlot(mem) /\ AtSlot(mem)' = AtHome(mem)
                    BY <3>1, <5>3 DEF AtHome, AtSlot, Dir
                <5>5. QED
                    BY <3>1, <3>2, <5>4 DEF NotMoved, Moved
            <4>2. CASE u[2] # mem.next
                <5>1. home'[mem.next] = home[mem.next] /\ slot'[Dir(mem)][mem.next] = slot[Dir(mem)][mem.next]
                    BY <1>1, <3>1, <3>4, <4>2, SwapSame
                <5>2. AtHome(mem)' = AtHome(mem) /\ AtSlot(mem)' = AtSlot(mem)
                    BY <3>1, <5>1 DEF AtHome, AtSlot, Dir
                <5>3. QED
                    BY <3>1, <3>2, <5>2 DEF NotMoved, Moved
            <4>3. QED
                BY <4>1, <4>2
        <3>5. QED
            BY <1>7, <3>3, <3>4, CrashSame
    <2>4. QED
        BY <2>1, <2>2, <2>3 DEF Foreseen
<1>8. QED
    BY <1>3, <1>4, <1>5, <1>6, <1>7

LEMMA NextPInv == IInv /\ Shadow /\ WInv /\ Bare /\ PInv /\ Steady /\ [Next]_vars => PInv'
<1> SUFFICES ASSUME IInv, Shadow, WInv, Bare, PInv, Steady, [Next]_vars PROVE PInv'
    OBVIOUS
<1>1. CASE UNCHANGED vars
    <2>1. UNCHANGED <<disk, mem, pc, home, slot, content, touched, faults, unsynced>>
        BY <1>1 DEF vars, service, files, human, bounds
    <2>2. \A r \in Ranks : Position(r) => Position(r)'
        BY <2>1, PositionStill DEF IInv, Same
    <2>3. Foreseen'
        BY <2>1 DEF PInv, Foreseen, NotMoved, Moved, AtHome, AtSlot, Dir, Look, Expected, Proposed,
                    Before, After
    <2>4. QED
        BY <2>1, <2>2, <2>3, NextPinned DEF PInv
<1>2. CASE Quiet
    <2>1. touched' = touched
        BY <1>2, QuietSame
    <2>2. \A r \in Ranks \ touched' : Position(r)'
        BY <1>2, <2>1, PositionQuiet
    <2>3. QED
        BY <1>2, <2>2, ForeseenQuiet, NextPinned DEF PInv
<1>3. CASE FreezeProposed \/ Rename \/ BringBack \/ Crash \/ Human
    <2>1. \A r \in Ranks \ touched' : Position(r)'
        BY <1>3, PositionMoves
    <2>2. QED
        BY <1>3, <2>1, ForeseenMoves, NextPinned DEF PInv
<1>4. QED
    BY <1>1, <1>2, <1>3, NextCases

\* Under Steady, the publication starts, and stays, with every document in position.
LEMMA StaysInPosition ==
    ASSUME Steady PROVE Spec => [](IInv /\ Shadow /\ WInv /\ Bare /\ PInv)
<1>1. Init => Bare /\ PInv
    <2> SUFFICES ASSUME Init PROVE Bare /\ PInv
        OBVIOUS
    <2>1. Bare
        <3>1. AtRest /\ StopsOnRank /\ SyncedFirst
            BY DEF Init, AtRest, StopsOnRank, SyncedFirst, NoJournal
        <3>2. UndoUnused
            BY DEF Init, UndoUnused, Dirs
        <3>3. faults <= MaxFaults
            BY ConstantsAssumption DEF Init
        <3>4. QED
            BY <3>1, <3>2, <3>3 DEF Bare
    <2>2. \A r \in Ranks : Position(r)
        <3> SUFFICES ASSUME NEW r \in Ranks PROVE Position(r)
            OBVIOUS
        <3>1. Look(home[r]) = Before(r)
            BY ConstantsAssumption DEF Init, Look, Before
        <3>2. slot["apply"][r] = NoInode
            BY DEF Init, Dirs
        <3>3. disk.next = 1 /\ disk.kept = {} /\ ~disk.undo /\ r \in Nat /\ r >= 1
            BY ConstantsAssumption DEF Init, NoJournal, Ranks
        <3>4. QED
            BY <3>1, <3>2, <3>3 DEF Position, Unreached, Leaves, Dir
    <2>3. Foreseen /\ Pinned
        BY DEF Init, Foreseen, Pinned, NoJournal
    <2>4. QED
        BY <2>1, <2>2, <2>3 DEF PInv
<1>2. QED
    BY <1>1, NextBare, NextPInv, KnowsItsPlace, PTL DEF Spec

\* A batch recorded as done is done: Committed, every document the human left
\* alone shows the published version unless it was kept, and RolledBack the initial
\* one, however the walk was interrupted (run, recover, resolve and undo).  Steady
\* is needed: PublicationSyncError shows a document taken back without it.
THEOREM OutcomeIsAtomic == ASSUME Steady PROVE Spec => []OutcomeAtomic
<1>1. IInv /\ Bare /\ PInv => OutcomeAtomic
    <2> SUFFICES ASSUME IInv, Bare, PInv, NEW r \in Ranks \ touched
                 PROVE  /\ disk.state = "Committed" =>
                              Look(home[r]) = IF r \in disk.kept THEN Before(r) ELSE After(r)
                        /\ disk.state = "RolledBack" =>
                              Look(home[r]) = Before(r) \/ (r \in disk.kept /\ faults > 0)
        BY DEF OutcomeAtomic
    <2>1. Position(r) /\ r \in Nat /\ r <= N /\ N \in Nat
        BY ConstantsAssumption DEF PInv, Ranks
    <2>2. Readable(disk)
        BY DEF IInv, CommandOK, Cursor
    <2>3. QED
        BY <2>1, <2>2 DEF Position, KeptShows, Installs, Readable
<1>2. QED
    BY <1>1, StaysInPosition, PTL

(***************************************************************************)
(* The publication implements the batch.                                   *)
(***************************************************************************)

\* What the batch sees of the documents.
Doc == [r \in Ranks |-> IF r \in touched THEN "human"
                        ELSE IF Look(home[r]) = After(r) THEN "after"
                        ELSE "before"]

SourceOf(j) == IF j.undo THEN "after" ELSE "before"
TargetOf(j) == IF j.undo THEN "before" ELSE "after"

\* A document left alone shows the version of one side, and not of the other.
LEMMA DocReads ==
    ASSUME NEW r \in Ranks \ touched, NEW undo \in BOOLEAN
    PROVE  /\ Look(home[r]) = Before(r) => Doc[r] = "before"
           /\ Look(home[r]) = After(r) => Doc[r] = "after"
           /\ Look(home[r]) = Leaves(undo, r) => Doc[r] = IF undo THEN "after" ELSE "before"
           /\ Look(home[r]) = Installs(undo, r) => Doc[r] = IF undo THEN "before" ELSE "after"
BY DEF Doc, Before, After, Leaves, Installs

\* The batch sees nothing of a step that changes no document left alone.
LEMMA DocSame ==
    ASSUME touched' = touched, \A r \in Ranks \ touched : Look(home[r])' = Look(home[r])
    PROVE  Doc' = Doc
BY DEF Doc, After

\* The batch sees one document change.
LEMMA DocChanges ==
    ASSUME NEW d \in Ranks \ touched, touched' = touched, NEW v,
           \A r \in Ranks \ (touched \cup {d}) : Look(home[r])' = Look(home[r]),
           Doc'[d] = v
    PROVE  Doc' = [Doc EXCEPT ![d] = v]
BY DEF Doc, After

\* What the batch says of a rank a decision leaves to the human, or turns around.
LEMMA DecisionKept ==
    ASSUME IInv, Shadow, WInv, Bare, PInv, SaveResolution
    PROVE  /\ disk.state = "Conflict"
           /\ \E mine \in SUBSET Ranks :
                /\ disk'.kept = disk.kept \cup mine
                /\ \/ /\ disk'.undo = disk.undo
                      /\ disk'.state = IF disk.undo THEN "Undoing" ELSE "Applying"
                   \/ ~disk.undo /\ disk'.undo /\ disk'.state = "Undoing"
                /\ \A r \in (mine \ disk.kept) \ touched : Doc[r] = SourceOf(disk)
<1>1. /\ mem = disk /\ disk.state = "Conflict" /\ disk.next \in Ranks /\ disk \in Journal
      /\ disk' = Decided(disk, choice, pc = "settled") /\ choice \in {"KeepMine", "RollBack"}
      /\ disk.undo \in BOOLEAN /\ disk.next \notin disk.kept /\ N \in Nat
    BY ConstantsAssumption
    DEF SaveResolution, Save, Bare, AtRest, StopsOnRank, ResolvePlaces, IInv, CommandOK, Standing,
        Cursor, Journal, Ranks
<1>2. pc # "settled" /\ disk.next \notin touched => Doc[disk.next] = SourceOf(disk)
    <2> SUFFICES ASSUME pc # "settled", disk.next \notin touched PROVE Doc[disk.next] = SourceOf(disk)
        OBVIOUS
    <2>1. pc = "unsettled"
        BY <1>1 DEF SaveResolution, WInv, Noted
    <2>2. Look(home[disk.next]) = Leaves(disk.undo, disk.next)
        BY <1>1, <2>1 DEF PInv, Foreseen, AtHome, Expected, Leaves
    <2>3. QED
        BY <1>1, <2>2, DocReads DEF SourceOf
<1>3. CASE choice = "KeepMine"
    <2> DEFINE mine == IF pc = "settled" THEN {} ELSE {disk.next}
    <2>1. /\ disk'.undo = disk.undo /\ disk'.kept = disk.kept \cup mine
          /\ disk'.state = IF disk.undo THEN "Undoing" ELSE "Applying"
        BY <1>1, <1>3 DEF Decided, Advanced, Journal
    <2>2. mine \in SUBSET Ranks /\ \A r \in (mine \ disk.kept) \ touched : Doc[r] = SourceOf(disk)
        BY <1>1, <1>2
    <2>3. QED
        BY <1>1, <2>1, <2>2
<1>4. CASE choice = "RollBack"
    <2> DEFINE mine == (IF pc = "settled" THEN {} ELSE {disk.next}) \cup (disk.next + 1) .. N
    <2>1. /\ ~disk.undo /\ disk'.undo /\ disk'.state = "Undoing"
          /\ disk'.kept = disk.kept \cup mine
        BY <1>1, <1>4 DEF Decided, NoJournal, Shadow, SaveResolution, ResolvePlaces
    <2>2. mine \in SUBSET Ranks
        BY <1>1 DEF Ranks
    <2>3. ASSUME NEW r \in (mine \ disk.kept) \ touched
          PROVE  Doc[r] = SourceOf(disk)
        <3>1. CASE r = disk.next
            BY <1>2, <2>3, <3>1
        <3>2. CASE r # disk.next
            <4>1. r > disk.next /\ r \in Ranks \ touched
                BY <1>1, <2>2, <2>3, <3>2 DEF Ranks
            <4>2. Look(home[r]) = Leaves(disk.undo, r)
                BY <1>1, <2>3, <4>1 DEF PInv, Position, Unreached
            <4>3. QED
                BY <1>1, <4>1, <4>2, DocReads DEF SourceOf
        <3>3. QED
            BY <3>1, <3>2
    <2>4. QED
        BY <1>1, <2>1, <2>2, <2>3
<1>5. QED
    BY <1>1, <1>3, <1>4

\* Every step of the publication is a step of the batch, or none.
LEMMA NextPromise ==
    IInv /\ Shadow /\ WInv /\ Bare /\ PInv /\ Steady /\ [Next]_vars => [Promise!Next]_(Promise!vars)
<1> SUFFICES ASSUME IInv, Shadow, WInv, Bare, PInv, Steady, [Next]_vars
             PROVE  [Promise!Next]_(Promise!vars)
    OBVIOUS
<1>1. /\ mem \in Journal /\ disk \in Journal /\ Cursor(mem) /\ Cursor(disk) /\ Standing(pc, mem)
      /\ FilesOK /\ Noted /\ Intention /\ Foreseen /\ Pinned /\ Bare
      /\ mem.state = disk.state /\ mem.undo = disk.undo /\ mem.kept = disk.kept
      /\ disk.undo \in BOOLEAN /\ mem.next \in Nat /\ disk.next \in Nat /\ N \in Nat
      /\ disk.next <= mem.next /\ Ranks \subseteq Nat
    BY ConstantsAssumption DEF IInv, CommandOK, Cursor, WInv, PInv, Shadow, Journal, Ranks
<1>2. ASSUME disk'.state = disk.state, disk'.undo = disk.undo, disk'.kept = disk.kept, Doc' = Doc
      PROVE  UNCHANGED Promise!vars
    BY <1>2 DEF Doc, Promise!vars
<1>3. CASE Quiet
    <2>1. Doc' = Doc
        BY <1>3, QuietSame, DocSame DEF Look
    <2>2. CASE Apply
        <3>1. disk = NoJournal /\ disk' = [NoJournal EXCEPT !.state = "Applying"]
            BY <2>2 DEF Apply, Save, Shadow
        <3>2. /\ disk.state = "Open" /\ disk'.state = "Applying" /\ disk'.undo = disk.undo
              /\ disk'.kept = disk.kept
            BY <3>1 DEF NoJournal
        <3>3. Promise!Begin
            BY <2>1, <3>2 DEF Promise!Begin, Doc
        <3>4. QED
            BY <3>3 DEF Promise!Next
    <2>3. ASSUME NEW keepChanged \in BOOLEAN, Undo(keepChanged)
          PROVE  Promise!Undo
        <3>1. /\ disk.state = "Committed" /\ disk'.state = "Undoing" /\ disk'.undo
              /\ disk'.kept = disk.kept \cup Changed(disk)
            BY <2>3 DEF Undo, Save, NoJournal
        <3>2. ~disk.undo /\ disk.next = N + 1
            BY <1>1, <3>1 DEF Cursor, Readable
        <3>3. \A r \in (Changed(disk) \ disk.kept) : r \in Ranks /\ Doc[r] = "human"
            BY <1>1, <3>2, ConstantsAssumption DEF Changed, Doc, PInv, Position, Installs, Ranks
        <3>4. Changed(disk) \in SUBSET Ranks
            BY DEF Changed
        <3>5. QED
            BY <2>1, <3>1, <3>3, <3>4 DEF Promise!Undo, Doc
    <2>4. CASE SaveConflict
        <3>1. /\ disk.state \in {"Applying", "Undoing"} /\ disk'.state = "Conflict"
              /\ disk'.undo = disk.undo /\ disk'.kept = disk.kept
            BY <1>1, <2>4 DEF SaveConflict, Save, Standing, StepPlaces, Journal
        <3>2. Promise!Stop
            BY <2>1, <3>1 DEF Promise!Stop, Promise!Moving, Doc
        <3>3. QED
            BY <3>2 DEF Promise!Next
    <2>5. CASE Finish
        <3>1. /\ disk.state \in {"Applying", "Undoing"} /\ mem.next > N
              /\ disk'.state = IF disk.undo THEN "RolledBack" ELSE "Committed"
              /\ disk'.undo = disk.undo /\ disk'.kept = disk.kept
            BY <1>1, <2>5 DEF Finish, Save, Standing, Journal
        <3>2. ASSUME NEW r \in Ranks \ disk.kept
              PROVE  Doc[r] \in {TargetOf(disk), "human"}
            <4>1. r < disk.next
                BY <1>1, <3>1, ConstantsAssumption DEF Intention, Ranks
            <4>2. CASE r \in touched
                BY <4>2 DEF Doc
            <4>3. CASE r \notin touched
                BY <1>1, <4>1, <4>3, DocReads DEF PInv, Position, TargetOf
            <4>4. QED
                BY <4>2, <4>3
        <3>3. Promise!Finish
            BY <2>1, <3>1, <3>2
            DEF Promise!Finish, Promise!Moving, Promise!Show, Promise!Target, TargetOf, Doc
        <3>4. QED
            BY <3>3 DEF Promise!Next
    <2>6. CASE SaveResolution
        <3>1. PICK mine \in SUBSET Ranks :
                /\ disk.state = "Conflict"
                /\ disk'.kept = disk.kept \cup mine
                /\ \/ /\ disk'.undo = disk.undo
                      /\ disk'.state = IF disk.undo THEN "Undoing" ELSE "Applying"
                   \/ ~disk.undo /\ disk'.undo /\ disk'.state = "Undoing"
                /\ \A r \in (mine \ disk.kept) \ touched : Doc[r] = SourceOf(disk)
            BY <2>6, DecisionKept
        <3>2. \A r \in mine \ disk.kept : Doc[r] \in {SourceOf(disk), "human"}
            BY <3>1 DEF Doc
        <3>3. Promise!KeepMine \/ Promise!RollBack
            BY <1>1, <2>1, <3>1, <3>2
            DEF Promise!KeepMine, Promise!RollBack, Promise!Show, Promise!Source, SourceOf, Doc
        <3>4. QED
            BY <3>3 DEF Promise!Next
    <2>7. CASE \/ Recover \/ Skip \/ CheckOriginal \/ Identify \/ Decide \/ IoError \/ Verify
               \/ SaveIntent \/ Record
               \/ \E decision \in {"KeepMine", "RollBack"} : Resolve(decision)
        <3>1. disk'.state = disk.state /\ disk'.undo = disk.undo /\ disk'.kept = disk.kept
            BY <1>1, <2>7 DEF Recover, Skip, CheckOriginal, Identify, Decide, IoError, Verify, Resolve,
                              SaveIntent, Record, Save, Advanced, Journal
        <3>2. QED
            BY <1>2, <2>1, <3>1
    <2>8. QED
        BY <1>3, <2>2, <2>3, <2>4, <2>5, <2>6, <2>7 DEF Quiet, Promise!Next
\* A document left alone that changes is the one of the intention, and has two sides.
<1>4. ASSUME NEW d \in Dirs, NEW r \in Ranks, Swapped(d, r), UNCHANGED <<disk, touched>>,
             r \notin touched => /\ disk.state \in {"Applying", "Undoing"} /\ r \notin disk.kept
                                 /\ r = disk.next /\ mem = disk /\ d = Dir(disk)
                                 /\ NotMoved(mem) \/ Moved(mem)
                                 /\ mem.pending
      PROVE  [Promise!Next]_(Promise!vars)
    <2>1. \A t \in Ranks \ {r} : Look(home[t])' = Look(home[t])
        BY <1>1, <1>4, SwapSame DEF Look
    <2>2. CASE r \in touched
        BY <1>2, <1>4, <2>1, <2>2, DocSame
    <2>3. CASE r \notin touched
        <3>1. /\ Look(home[r])' = Look(slot[d][r])
              /\ AtHome(mem) = home[r] /\ AtSlot(mem) = slot[d][r]
            BY <1>1, <1>4, <2>3, SwapSame DEF Look, AtHome, AtSlot
        <3>2. /\ NotMoved(mem) => Look(home[r]) = Expected(mem) /\ Look(slot[d][r]) = Proposed(mem)
              /\ Moved(mem) => Look(home[r]) = Proposed(mem) /\ Look(slot[d][r]) = Expected(mem)
            BY <1>4, <2>3, <3>1, NotStoppedAfter DEF TookPlace
        <3>3. /\ Expected(mem) = Leaves(disk.undo, r) /\ Proposed(mem) = Installs(disk.undo, r)
            BY <1>4, <2>3 DEF Expected, Proposed, Leaves, Installs
        <3>4. ASSUME Look(home[r])' = Installs(disk.undo, r)
              PROVE  Doc'[r] = TargetOf(disk)
            BY <1>4, <2>3, <3>4 DEF Doc, Installs, TargetOf, Before, After
        <3>5. ASSUME Look(home[r])' = Leaves(disk.undo, r)
              PROVE  Doc'[r] = SourceOf(disk)
            BY <1>4, <2>3, <3>5 DEF Doc, Leaves, SourceOf, Before, After
        <3>6. CASE NotMoved(mem)
            <4>1. Doc[r] = SourceOf(disk) /\ Doc'[r] = TargetOf(disk)
                BY <1>1, <2>3, <3>1, <3>2, <3>3, <3>4, <3>6, DocReads DEF SourceOf
            <4>2. Doc' = [Doc EXCEPT ![r] = TargetOf(disk)]
                BY <1>4, <2>1, <2>3, <4>1, DocChanges
            <4>3. Promise!Arrive(r)
                BY <1>4, <2>3, <4>1, <4>2
                DEF Promise!Arrive, Promise!Moving, Promise!Source, Promise!Target, SourceOf, TargetOf, Doc
            <4>4. QED
                BY <4>3 DEF Promise!Next
        <3>7. CASE Moved(mem)
            <4>1. Doc[r] = TargetOf(disk) /\ Doc'[r] = SourceOf(disk)
                BY <1>1, <2>3, <3>1, <3>2, <3>3, <3>5, <3>7, DocReads DEF TargetOf
            <4>2. Doc' = [Doc EXCEPT ![r] = SourceOf(disk)]
                BY <1>4, <2>1, <2>3, <4>1, DocChanges
            <4>3. Promise!Lose(r)
                BY <1>4, <2>3, <4>1, <4>2
                DEF Promise!Lose, Promise!Moving, Promise!Source, Promise!Target, SourceOf, TargetOf, Doc
            <4>4. QED
                BY <4>3 DEF Promise!Next
        <3>8. QED
            BY <1>4, <2>3, <3>6, <3>7
    <2>4. QED
        BY <2>2, <2>3
<1>5. CASE Rename \/ BringBack
    <2>1. /\ mem.next \in Ranks /\ Dir(mem) \in Dirs /\ UNCHANGED <<disk, touched, content>>
          /\ disk.pending /\ mem = disk
        BY <1>1, <1>5, Reads
        DEF Standing, StepPlaces, ResolvePlaces, Rename, BringBack, human, Intention
    <2>2. CASE UNCHANGED home
        BY <1>2, <2>1, <2>2, DocSame DEF Look
    <2>3. CASE Swapped(Dir(mem), mem.next)
        <3>1. mem.next \notin touched => /\ disk.state \in {"Applying", "Undoing"}
                                         /\ NotMoved(mem)
            BY <1>1, <1>5, <2>1 DEF BringBack, Rename, Noted, Standing, StepPlaces
        <3>2. disk.next \notin disk.kept
            BY <1>1, <2>1 DEF Cursor
        <3>3. QED
            BY <1>4, <2>1, <2>3, <3>1, <3>2
    <2>4. QED
        BY <1>5, <2>1, <2>2, <2>3 DEF Rename, BringBack, SwapNames, Swapped
<1>6. CASE Crash
    <2>1. UNCHANGED <<disk, touched, content>>
        BY <1>6, CrashSame
    <2>2. CASE UNCHANGED home
        BY <1>2, <2>1, <2>2, DocSame DEF Look
    <2>3. ASSUME NEW u \in unsynced, u[1] \in Dirs, u[2] \in Ranks, PowerLoss, Swapped(u[1], u[2])
          PROVE  [Promise!Next]_(Promise!vars)
        <3>1. ASSUME u[2] \notin touched
              PROVE  /\ disk.state \in {"Applying", "Undoing"} /\ u[2] \notin disk.kept
                     /\ u[2] = disk.next /\ mem = disk /\ u[1] = Dir(disk)
                     /\ NotMoved(mem) \/ Moved(mem)
                     /\ mem.pending
            <4>1. disk.pending /\ u[1] = Dir(disk) /\ u[2] = disk.next /\ mem = disk /\ MaxFaults = 0
                BY <1>1, <2>3, <3>1 DEF Steady, Pinned, Intention
            <4>2. disk.next \notin disk.kept /\ (NotMoved(mem) \/ Moved(mem))
                BY <1>1, <2>3, <3>1, <4>1 DEF Cursor, Foreseen
            <4>3. disk.state # "Conflict"
                BY <1>1, <2>3, <3>1, <4>1 DEF Foreseen, Bare, IInv, BoundsOK
            <4>4. disk.state \in {"Applying", "Undoing"}
                BY <1>1, <4>1, <4>3 DEF Cursor, Readable, Journal, States, Shadow, NoJournal
            <4>5. QED
                BY <4>1, <4>2, <4>4
        <3>2. QED
            BY <1>4, <2>1, <2>3, <3>1
    <2>4. QED
        BY <1>6, <2>2, <2>3, CrashSame
<1>7. CASE FreezeProposed
    <2>1. UNCHANGED <<disk, touched, home>>
        BY <1>7 DEF FreezeProposed, human
    <2>2. \A r \in Ranks : Look(home[r])' = Look(home[r])
        BY <1>1, <1>7, <2>1, FreezeSame DEF FilesOK, Names, Look
    <2>3. QED
        BY <1>2, <2>1, <2>2, DocSame
<1>8. CASE Human
    <2>1. disk' = disk /\ \A r \in Ranks \ touched' : Look(home[r])' = Look(home[r])
        BY <1>1, <1>8, HumanSame, SameLook DEF service, WInv
    <2>2. CASE touched' = touched
        BY <1>2, <2>1, <2>2, DocSame
    <2>3. ASSUME NEW r \in Ranks \ touched, touched' = touched \cup {r}
          PROVE  Promise!Edit(r)
        <3>1. Doc[r] # "human"
            BY <2>3 DEF Doc
        <3>2. Doc' = [Doc EXCEPT ![r] = "human"]
            BY <2>1, <2>3 DEF Doc, After
        <3>3. QED
            BY <2>1, <3>1, <3>2 DEF Promise!Edit, Doc
    <2>4. QED
        BY <1>8, <2>2, <2>3, HumanSame DEF WInv, Promise!Next
<1>9. CASE UNCHANGED vars
    BY <1>2, <1>9, DocSame DEF vars, service, files, human, Look
<1>10. QED
    BY <1>3, <1>5, <1>6, <1>7, <1>8, <1>9, NextCases

\* The publication implements the batch: whatever stops the walk, and whatever
\* the human edits meanwhile, a document left alone changes only in the direction
\* of the batch, is never left to the human once reached, and the batch ends only
\* when every document it did not leave to the human has arrived.
THEOREM PublicationKeepsPromise == ASSUME Steady PROVE Spec => ImplementsBatch
<1>1. Init => Promise!Init
    <2> SUFFICES ASSUME Init PROVE Promise!Init
        OBVIOUS
    <2>1. disk.state = "Open" /\ disk.undo = FALSE /\ disk.kept = {} /\ touched = {}
        BY DEF Init, NoJournal
    <2>2. \A r \in Ranks : Look(home[r]) = Before(r)
        BY ConstantsAssumption DEF Init, Look, Before
    <2>3. Doc = [r \in Ranks |-> "before"]
        BY <2>1, <2>2 DEF Doc, Before, After
    <2>4. QED
        BY <2>1, <2>3 DEF Promise!Init, Doc
<1>2. QED
    BY <1>1, NextPromise, StaysInPosition, PTL DEF Spec, ImplementsBatch, Promise!Spec

(***************************************************************************)
(* What is synchronised, when no I/O error is met.                         *)
(***************************************************************************)

\* The rename of an intention that no synchronisation has followed yet.
Awaits(j) == j.pending /\ <<Dir(j), j.next>> \in unsynced
Vacant(j) == AtHome(j) = NoInode /\ AtSlot(j) = NoInode

\* Such a rename is found again by recover, verified before it is recorded, and
\* never counted as done by settle.
SInv ==
    /\ DoneIsSynced
    /\ Awaits(disk) =>
        /\ disk.state \in {"Applying", "Undoing"} => AtHome(disk) = disk.proposed
        /\ disk.state = "Conflict" \/ pc = "failed" => ~Moved(disk) \/ Vacant(disk)
        /\ pc \notin {"rename", "settled", "record"}
    /\ pc = "rename" => AtSlot(mem) = mem.proposed
    /\ pc = "bringBack" => AtSlot(mem) = mem.original

\* The two versions of a rank differ, so both names cannot be vacant and right.
LEMMA NotBothVacant ==
    ASSUME NEW j, AtHome(j) = AtSlot(j)
    PROVE  /\ ~(Look(AtHome(j)) = Expected(j) /\ Look(AtSlot(j)) = Proposed(j))
           /\ ~(Look(AtHome(j)) = Proposed(j) /\ Look(AtSlot(j)) = Expected(j))
BY DEF Expected, Proposed, Before, After

\* The human moves no slot, and a document they save anew is no longer awaited.
LEMMA HumanUnsynced ==
    ASSUME FilesOK, Human
    PROVE  /\ UNCHANGED <<disk, mem, pc, slot>> /\ unsynced' \subseteq unsynced
           /\ \A u \in unsynced' : u[2] \in Ranks => home'[u[2]] = home[u[2]]
<1>1. ASSUME NEW r \in Ranks, HumanOpens(r) \/ \E e \in Edits \ spent : HumanSaves(r, e)
      PROVE  UNCHANGED <<disk, mem, pc, slot, home, unsynced>>
    BY <1>1 DEF HumanOpens, HumanSaves, files, service
<1>2. ASSUME NEW r \in Ranks, \E e \in Edits \ spent : HumanReplaces(r, e) \/ HumanDeletes(r, e)
      PROVE  /\ UNCHANGED <<disk, mem, pc, slot>> /\ unsynced' = unsynced \ (Dirs \X {r})
             /\ \E i : home' = [home EXCEPT ![r] = i]
    BY <1>2 DEF HumanReplaces, HumanDeletes, service
<1>3. ASSUME NEW r \in Ranks, unsynced' = unsynced \ (Dirs \X {r})
      PROVE  \A u \in unsynced' : u[2] # r
    BY <1>3 DEF FilesOK
<1>4. QED
    BY <1>1, <1>2, <1>3 DEF Human, FilesOK

LEMMA NextSInv ==
    MaxFaults = 0 /\ IInv /\ Shadow /\ Owned /\ Intention /\ Bare /\ SInv /\ [Next]_vars => SInv'
<1> SUFFICES ASSUME MaxFaults = 0, IInv, Shadow, Owned, Intention, Bare, SInv, [Next]_vars PROVE SInv'
    OBVIOUS
<1>1. /\ mem \in Journal /\ disk \in Journal /\ Cursor(mem) /\ Cursor(disk) /\ Standing(pc, mem)
      /\ FilesOK /\ mem.state = disk.state /\ mem.undo = disk.undo /\ mem.kept = disk.kept
      /\ Dir(mem) = Dir(disk) /\ ~IoError /\ DoneIsSynced
      /\ \A u \in unsynced : u[1] \in Dirs /\ u[2] \in Ranks /\ u = <<u[1], u[2]>>
    <2>1. faults \in Nat /\ faults <= 0
        BY DEF IInv, BoundsOK, Bare
    <2>2. QED
        BY <2>1 DEF IInv, CommandOK, Cursor, Shadow, Dir, IoError, FilesOK, SInv
\* A journal without intention awaits nothing.
<1>2. ASSUME ~disk'.pending, pc' \notin {"rename", "bringBack"}, \A u \in unsynced' : u[2] \in disk'.kept
      PROVE  SInv'
    BY <1>2 DEF SInv, DoneIsSynced, Awaits
\* Nothing to synchronise, nothing to await.
<1>3. ASSUME unsynced' = {}, pc' \notin {"rename", "bringBack"}
      PROVE  SInv'
    BY <1>3 DEF SInv, DoneIsSynced, Awaits
\* Neither the journal nor the files move.
<1>4. ASSUME UNCHANGED <<disk, home, slot, unsynced>>,
             Awaits(disk) => pc' \notin {"rename", "settled", "record"},
             Awaits(disk) /\ pc' = "failed" => ~Moved(disk) \/ Vacant(disk),
             pc' = "rename" => (AtSlot(mem) = mem.proposed)',
             pc' = "bringBack" => (AtSlot(mem) = mem.original)'
      PROVE  SInv'
    <2>1. /\ Awaits(disk)' = Awaits(disk) /\ AtHome(disk)' = AtHome(disk)
          /\ Moved(disk)' = Moved(disk) /\ Vacant(disk)' = Vacant(disk)
        BY <1>4 DEF Awaits, AtHome, Moved, Vacant, AtSlot, Dir
    <2>2. DoneIsSynced'
        BY <1>1, <1>4 DEF DoneIsSynced, Dir
    <2>3. QED
        BY <1>4, <2>1, <2>2 DEF SInv
<1>5. CASE \/ Apply \/ Finish \/ \E keepChanged \in BOOLEAN : Undo(keepChanged)
    <2>1. ~disk.pending
        BY <1>1, <1>5, ConstantsAssumption
        DEF Apply, Finish, Undo, Shadow, NoJournal, Cursor, Readable, Intention, Journal
    <2>2. ~disk'.pending /\ disk.kept \subseteq disk'.kept /\ unsynced' = unsynced /\ pc' \in {"loop", "idle"}
        <3>1. CASE Apply \/ \E keepChanged \in BOOLEAN : Undo(keepChanged)
            BY <3>1 DEF Apply, Undo, Save, NoJournal, Shadow
        <3>2. CASE Finish
            BY <1>1, <3>2, ConstantsAssumption DEF Finish, Save, Cursor, Readable, Journal
        <3>3. QED
            BY <1>5, <3>1, <3>2
    <2>3. QED
        BY <1>1, <1>2, <2>1, <2>2 DEF DoneIsSynced
<1>6. CASE Recover \/ Skip \/ CheckOriginal \/ Identify
    <2>1. UNCHANGED <<disk, home, slot, unsynced>> /\ pc' \in {"loop", "identify", "failed", "metadata"}
        BY <1>6 DEF Recover, Skip, CheckOriginal, Identify, files
    <2>2. pc' = "failed" => ~Awaits(disk)
        BY <1>6 DEF Recover, Skip, CheckOriginal, Identify, Awaits, Intention
    <2>3. QED
        BY <1>4, <2>1, <2>2
<1>7. CASE FreezeProposed
    <2>1. ~disk.pending /\ disk' = disk /\ unsynced' = unsynced /\ pc' \in {"intent", "failed"}
        BY <1>7 DEF FreezeProposed, Intention
    <2>2. QED
        BY <1>1, <1>2, <2>1 DEF DoneIsSynced
<1>8. CASE SaveIntent
    <2>1. ~disk.pending /\ unsynced' = unsynced /\ pc' = "decide" /\ \A u \in unsynced : u[2] \in disk.kept
        BY <1>1, <1>8 DEF SaveIntent, Save, Intention, DoneIsSynced
    <2>2. /\ disk'.kept = disk.kept /\ disk'.next = mem.next /\ mem.next \notin mem.kept
        BY <1>1, <1>8 DEF SaveIntent, Save, Journal, Standing, StepPlaces
    <2>3. ~Awaits(disk)'
        BY <1>1, <2>1, <2>2 DEF Awaits
    <2>4. QED
        BY <2>1, <2>2, <2>3 DEF SInv, DoneIsSynced
<1>9. CASE Decide
    <2>1. /\ UNCHANGED <<disk, mem, home, slot, unsynced>> /\ pc' \in {"rename", "verify", "failed"}
          /\ mem = disk /\ mem.state \in {"Applying", "Undoing"} /\ mem.pending /\ mem.next \in Ranks
          /\ Dir(mem) \in Dirs
        BY <1>1, <1>9, Reads DEF Decide, AtStep, files, Intention, Standing, StepPlaces
    <2>2. AtHome(disk) = AtSlot(disk) => Vacant(disk)
        BY <1>1, <2>1 DEF Owned, OneName, AtHome, AtSlot, Vacant
    <2>3. Awaits(disk) => AtHome(disk) = disk.proposed
        BY <2>1 DEF SInv
    <2>4. pc' = "rename" => /\ AtHome(mem) = mem.original /\ AtSlot(mem) = mem.proposed
                            /\ Look(AtHome(mem)) = Expected(mem) /\ Look(AtSlot(mem)) = Proposed(mem)
        BY <1>9 DEF Decide
    <2>5. Awaits(disk) => pc' # "rename"
        BY <2>1, <2>3, <2>4, NotBothVacant
    <2>6. Awaits(disk) /\ pc' = "failed" => ~Moved(disk) \/ Vacant(disk)
        <3>1. pc' = "failed" /\ Moved(mem) => AtHome(mem) = mem.original /\ AtSlot(mem) = mem.proposed
            BY <1>9 DEF Decide, Moved
        <3>2. QED
            BY <2>1, <2>2, <2>3, <3>1
    <2>7. pc' = "rename" => (AtSlot(mem) = mem.proposed)'
        BY <2>1, <2>4 DEF AtSlot, Dir
    <2>8. QED
        BY <1>4, <2>1, <2>5, <2>6, <2>7
<1>10. CASE Rename
    <2>1. /\ mem' = mem /\ disk' = disk /\ mem = disk /\ mem.next \in Ranks /\ Dir(mem) \in Dirs
          /\ disk.pending /\ mem.state \in {"Applying", "Undoing"} /\ AtSlot(mem) = mem.proposed
          /\ ~Awaits(disk)
        BY <1>1, <1>10, Reads DEF Rename, Intention, Standing, StepPlaces, SInv
    <2>2. CASE SwapNames(Dir(mem), mem.next) /\ pc' = "verify"
        <3>1. AtHome(disk)' = disk'.proposed
            BY <1>1, <2>1, <2>2 DEF SwapNames, AtHome, AtSlot, FilesOK
        <3>2. DoneIsSynced'
            BY <2>1, <2>2 DEF SwapNames, DoneIsSynced, Dir
        <3>3. QED
            BY <2>1, <2>2, <3>1, <3>2 DEF SInv
    <2>3. CASE UNCHANGED <<home, slot, unsynced>> /\ pc' = "failed"
        BY <1>4, <2>1, <2>3
    <2>4. QED
        BY <1>10, <2>2, <2>3 DEF Rename
<1>11. CASE Verify
    BY <1>3, <1>11 DEF Verify
<1>12. CASE Record
    BY <1>3, <1>12 DEF Record, Save, Bare, SyncedFirst
<1>13. CASE SaveConflict
    <2>1. /\ disk'.pending = mem.pending /\ disk'.next = mem.next /\ disk'.undo = mem.undo
          /\ disk'.kept = disk.kept /\ disk'.state = "Conflict"
          /\ mem.pending => disk'.original = mem.original /\ disk'.proposed = mem.proposed
          /\ UNCHANGED <<home, slot, unsynced>> /\ pc' = "idle" /\ mem.next \notin mem.kept
        BY <1>1, <1>13 DEF SaveConflict, Save, Journal, files, Standing, StepPlaces
    <2>2. DoneIsSynced'
        BY <1>1, <2>1 DEF DoneIsSynced, Intention, Dir
    <2>3. Awaits(disk)' => Awaits(disk) /\ mem = disk
        BY <1>1, <2>1 DEF Awaits, DoneIsSynced, Intention, Dir
    <2>4. Awaits(disk)' => ~Moved(disk)' \/ Vacant(disk)'
        <3> SUFFICES ASSUME Awaits(disk)' PROVE ~Moved(disk)' \/ Vacant(disk)'
            OBVIOUS
        <3>1. ~Moved(disk) \/ Vacant(disk)
            BY <1>13, <2>3 DEF SInv, SaveConflict
        <3>2. AtHome(disk)' = AtHome(disk) /\ AtSlot(disk)' = AtSlot(disk)
            BY <2>1, <2>3 DEF AtHome, AtSlot, Dir
        <3>3. QED
            BY <2>1, <2>3, <3>1, <3>2 DEF Moved, Vacant, Awaits
    <2>5. QED
        BY <2>1, <2>2, <2>4 DEF SInv
<1>14. ASSUME NEW decision \in {"KeepMine", "RollBack"}, Resolve(decision)
       PROVE  SInv'
    <2>1. /\ UNCHANGED <<disk, home, slot, unsynced>> /\ mem' = disk /\ disk.state = "Conflict"
          /\ pc' \in {"settled", "bringBack", "unsettled"}
          /\ (pc' = "settled" => TookPlace(disk)) /\ (pc' = "bringBack" => Moved(disk))
        BY <1>14 DEF Resolve, files, CarriedEdit
    <2>2. Awaits(disk) => pc' # "settled"
        <3>1. Awaits(disk) /\ TookPlace(disk) => AtHome(disk) = AtSlot(disk)
            BY <2>1 DEF SInv, TookPlace, Vacant
        <3>2. QED
            BY <2>1, <3>1, NotBothVacant DEF TookPlace
    <2>3. pc' = "bringBack" => (AtSlot(mem) = mem.original)'
        BY <2>1 DEF Moved, AtSlot, Dir
    <2>4. QED
        BY <1>4, <2>1, <2>2, <2>3
<1>15. CASE BringBack
    <2>1. /\ disk' = disk /\ mem = disk /\ disk.pending /\ mem.next \in Ranks /\ Dir(mem) \in Dirs
          /\ AtSlot(disk) = disk.original /\ disk.state = "Conflict"
        BY <1>1, <1>15, Reads DEF BringBack, Intention, Standing, ResolvePlaces, SInv
    <2>2. CASE SwapNames(Dir(mem), mem.next) /\ pc' = "broughtBack"
        <3>1. AtHome(disk)' = AtSlot(disk) /\ AtSlot(disk)' = AtHome(disk)
            BY <1>1, <2>1, <2>2 DEF SwapNames, AtHome, AtSlot, FilesOK, Dir
        <3>2. AtHome(disk) = AtSlot(disk) => Vacant(disk)
            BY <1>1, <2>1 DEF Owned, OneName, AtHome, AtSlot, Vacant
        <3>3. ~Moved(disk)' \/ Vacant(disk)'
            BY <2>1, <3>1, <3>2 DEF Moved, Vacant
        <3>4. DoneIsSynced'
            BY <2>1, <2>2 DEF SwapNames, DoneIsSynced, Dir
        <3>5. QED
            BY <2>1, <2>2, <3>3, <3>4 DEF SInv
    <2>3. CASE UNCHANGED <<home, slot, unsynced>> /\ pc' = "idle"
        BY <1>4, <2>1, <2>3
    <2>4. QED
        BY <1>15, <2>2, <2>3 DEF BringBack
<1>16. CASE SaveResolution
    <2>1. /\ mem = disk /\ disk' = Decided(mem, choice, pc = "settled") /\ pc' = "loop"
          /\ pc = "broughtBack" => unsynced' = {}
          /\ pc # "broughtBack" => unsynced' = unsynced
          /\ pc \in {"settled", "unsettled", "broughtBack"}
        BY <1>16 DEF SaveResolution, Save, Bare, AtRest, ResolvePlaces
    <2>2. /\ ~disk'.pending
          /\ disk.kept \cup (IF pc = "settled" THEN {} ELSE {disk.next}) \subseteq disk'.kept
        BY <1>1, <2>1 DEF Decided, Advanced, Journal, NoJournal
    <2>3. pc = "settled" => \A u \in unsynced : u[2] \in disk.kept
        BY <1>1 DEF SInv, DoneIsSynced, Awaits
    <2>4. pc = "unsettled" => \A u \in unsynced : u[2] \in disk'.kept
        BY <1>1, <2>2 DEF DoneIsSynced
    <2>5. QED
        BY <1>2, <2>1, <2>2, <2>3, <2>4
<1>17. CASE Crash
    <2>1. UNCHANGED <<disk>> /\ pc' = "idle"
        BY <1>17, CrashSame
    <2>2. CASE unsynced' = {}
        BY <1>3, <2>1, <2>2
    <2>3. CASE UNCHANGED <<home, slot, unsynced>>
        BY <1>4, <2>1, <2>3
    <2>4. QED
        BY <1>17, <2>2, <2>3 DEF Crash
<1>18. CASE Human
    <2>1. /\ UNCHANGED <<disk, mem, pc, slot>> /\ unsynced' \subseteq unsynced
          /\ \A u \in unsynced' : home'[u[2]] = home[u[2]]
        BY <1>1, <1>18, HumanUnsynced
    <2>2. Awaits(disk)' => Awaits(disk) /\ AtHome(disk)' = AtHome(disk) /\ AtSlot(disk)' = AtSlot(disk)
        BY <2>1 DEF Awaits, Dir, AtHome, AtSlot
    <2>3. Awaits(disk)' /\ (~Moved(disk) \/ Vacant(disk)) => ~Moved(disk)' \/ Vacant(disk)'
        BY <2>1, <2>2 DEF Moved, Vacant
    <2>4. AtSlot(mem)' = AtSlot(mem) /\ DoneIsSynced'
        BY <1>1, <2>1 DEF AtSlot, Dir, DoneIsSynced
    <2>5. QED
        BY <2>1, <2>2, <2>3, <2>4 DEF SInv
<1>19. CASE UNCHANGED vars
    <2>1. UNCHANGED <<disk, mem, pc, home, slot, unsynced>>
        BY <1>19 DEF vars, service, files
    <2>2. AtSlot(mem)' = AtSlot(mem)
        BY <2>1 DEF AtSlot, Dir
    <2>3. QED
        BY <1>4, <2>1, <2>2 DEF SInv
<1>20. QED
    BY <1>1, <1>5, <1>6, <1>7, <1>8, <1>9, <1>10, <1>11, <1>12, <1>13, <1>14, <1>15, <1>16, <1>17,
       <1>18, <1>19 DEF Next, Step

\* Without I/O errors, the journal never counts as carried what a loss of power can
\* take back: a rename not synchronised is the one of the intention on disk, or of
\* a rank left to the human (the comment of run on uncertain synchronisations).
THEOREM DoneStaysSynced == ASSUME MaxFaults = 0 PROVE Spec => []DoneIsSynced
<1>1. Init => Bare /\ SInv
    <2> SUFFICES ASSUME Init PROVE Bare /\ SInv
        OBVIOUS
    <2>1. AtRest /\ StopsOnRank /\ SyncedFirst
        BY DEF Init, AtRest, StopsOnRank, SyncedFirst, NoJournal
    <2>2. UndoUnused /\ faults <= MaxFaults
        BY DEF Init, UndoUnused, Dirs
    <2>3. SInv
        BY DEF Init, SInv, DoneIsSynced, Awaits
    <2>4. QED
        BY <2>1, <2>2, <2>3 DEF Bare
<1>2. WInv => Owned /\ Intention
    BY DEF WInv
<1>3. SInv => DoneIsSynced
    BY DEF SInv
<1>4. QED
    BY <1>1, <1>2, <1>3, NextBare, NextSInv, KnowsItsPlace, PTL DEF Spec

(***************************************************************************)
(* What resolve leaves to the human, when editors save in place.           *)
(***************************************************************************)

\* An editor that saves by renaming a new file over the name makes resolve leave
\* the mission's version at home (the configuration PublicationSavedByRename).
SavedInPlace == "replace" \notin HumanMoves

\* Nothing lies displaced behind the version that the direction installs for rank r.
Cleared(r) ==
    \/ slot[Dir(disk)][r] = NoInode
    \/ Installs(disk.undo, r) # "absent" /\ Look(home[r]) # Installs(disk.undo, r)

\* The inodes that step noted: none where the version is absent, and the one it found
\* at home never shows the version it installs.
Noting(j) ==
    /\ j.original = NoInode <=> Expected(j) = "absent"
    /\ j.proposed = NoInode <=> Proposed(j) = "absent"
    /\ j.original # NoInode => content[j.original] # Proposed(j)

\* A rank still to walk is cleared, or its rename is done and resolve looks at it.
Ahead == \A r \in Ranks \ disk.kept : r >= disk.next =>
    Cleared(r) \/ (r = disk.next /\ disk.pending /\ Moved(disk))

\* What each place of the command has found under the two names.
Found ==
    /\ pc \in {"identify", "metadata"} /\ Expected(mem) = "absent" => AtHome(mem) = NoInode
    /\ pc = "metadata" => /\ AtHome(mem) \in {mem.original, NoInode}
                          /\ Expected(mem) = "absent" => mem.original = NoInode
    /\ pc = "rename" => AtSlot(mem) = mem.proposed /\ AtHome(mem) \in {mem.original, NoInode}
    /\ pc = "bringBack" => /\ AtSlot(mem) = mem.original /\ mem.original # NoInode
                           /\ AtHome(mem) \in {mem.proposed, NoInode}
    /\ pc \in {"unsettled", "broughtBack"} => Cleared(mem.next)

\* A rename that may be lost with the power is the one noted, or its way back.
Swapping == PowerLoss /\ Awaits(disk) => Moved(disk) \/ NotMoved(disk)

KInv ==
    /\ mem.pending \/ pc = "intent" => Noting(mem)
    /\ Ahead /\ Found /\ Swapping

\* The two versions of an entry differ, whichever the direction, and only one may be absent.
LEMMA TwoVersions ==
    ASSUME IInv, Shadow, mem.next \in Ranks
    PROVE  /\ Expected(mem) = Leaves(disk.undo, mem.next) /\ Proposed(mem) = Installs(disk.undo, mem.next)
           /\ AtHome(mem) = home[mem.next] /\ AtSlot(mem) = slot[Dir(disk)][mem.next]
           /\ AtHome(mem) \in Link /\ AtSlot(mem) \in Link /\ Dir(mem) = Dir(disk) /\ Dir(disk) \in Dirs
           /\ Expected(mem) # Proposed(mem)
           /\ Proposed(mem) \in {"before", "after", "absent"}
<1>1. mem \in Journal /\ FilesOK /\ mem.undo = disk.undo
    BY DEF IInv, CommandOK, Cursor, Shadow
<1>2. Dir(mem) = Dir(disk) /\ Dir(disk) \in Dirs
    BY <1>1 DEF Dir, Dirs
<1>3. AtHome(mem) \in Link /\ AtSlot(mem) \in Link
    BY <1>1, <1>2 DEF AtHome, AtSlot, FilesOK
<1>4. QED
    BY <1>1, <1>2, <1>3 DEF Expected, Proposed, Leaves, Installs, Before, After, AtHome, AtSlot

\* The files rest and the journal advances: what was ahead still is.
LEMMA AheadStays ==
    ASSUME IInv, IInv', Ahead, UNCHANGED <<home, slot, content>>,
           disk'.undo = disk.undo, disk.kept \subseteq disk'.kept, disk.next <= disk'.next,
           disk.pending => \/ disk'.pending /\ disk'.next = disk.next
                              /\ disk'.original = disk.original /\ disk'.proposed = disk.proposed
                           \/ disk'.next > disk.next \/ disk.next \in disk'.kept
    PROVE  Ahead'
<1>1. disk.next \in Nat /\ disk'.next \in Nat
    BY ConstantsAssumption DEF IInv, CommandOK, Cursor, Journal
<1>2. SUFFICES ASSUME NEW r \in Ranks \ disk'.kept, r >= disk'.next
               PROVE  Cleared(r)' \/ (r = disk'.next /\ disk'.pending /\ Moved(disk)')
    BY DEF Ahead
<1>3. r \in Nat /\ r >= disk.next /\ r \notin disk.kept
    BY <1>1, <1>2, ConstantsAssumption DEF Ranks
<1>4. CASE Cleared(r)
    BY <1>4 DEF Cleared, Dir, Look
<1>5. CASE r = disk.next /\ disk.pending /\ Moved(disk)
    <2>1. /\ disk'.pending /\ disk'.next = disk.next
          /\ disk'.original = disk.original /\ disk'.proposed = disk.proposed
        BY <1>1, <1>2, <1>5
    <2>2. Moved(disk)'
        BY <1>5, <2>1 DEF Moved, AtHome, AtSlot, Dir
    <2>3. QED
        BY <1>5, <2>1, <2>2
<1>6. QED
    BY <1>2, <1>3, <1>4, <1>5 DEF Ahead

\* A batch that turns finds nothing under the names of the undo.
LEMMA AheadTurns ==
    ASSUME ~disk.undo, disk'.undo, Bare, slot' = slot
    PROVE  Ahead'
BY DEF Ahead, Cleared, Dir, Bare, UndoUnused

\* A command that has no entry in hand keeps what is ahead.
LEMMA KInvAtHead ==
    ASSUME Ahead', ~mem'.pending, pc' \in {"loop", "idle", "failed"}, ~disk'.pending
    PROVE  KInv'
BY DEF KInv, Found, Swapping, Awaits

\* The files and the journal rest, and the command moves.
LEMMA KInvAtRest ==
    ASSUME IInv, IInv', KInv, UNCHANGED <<disk, home, slot, content>>, unsynced' \subseteq unsynced,
           mem'.next = mem.next, mem'.undo = mem.undo,
           mem'.pending \/ pc' = "intent" =>
               /\ mem.pending \/ pc = "intent"
               /\ mem'.original = mem.original /\ mem'.proposed = mem.proposed,
           Found'
    PROVE  KInv'
<1>1. Ahead'
    <2>1. Moved(disk)' = Moved(disk)
        BY DEF Moved, AtHome, AtSlot, Dir
    <2>2. \A r \in Ranks : Cleared(r)' = Cleared(r)
        BY DEF Cleared, Dir, Look
    <2>3. QED
        BY <2>1, <2>2 DEF KInv, Ahead
<1>2. mem'.pending \/ pc' = "intent" => Noting(mem)'
    BY DEF KInv, Noting, Expected, Proposed, Before, After
<1>3. Swapping'
    <2>1. Moved(disk)' = Moved(disk) /\ NotMoved(disk)' = NotMoved(disk)
          /\ (Awaits(disk)' => Awaits(disk))
        BY DEF Moved, NotMoved, Awaits, AtHome, AtSlot, Dir
    <2>2. QED
        BY <2>1 DEF KInv, Swapping
<1>4. QED
    BY <1>1, <1>2, <1>3 DEF KInv

\* The commands begin, record a rank, end, or carry a decision out.
LEMMA KInvSaves ==
    ASSUME IInv, IInv', Shadow, Intention, Bare, KInv,
           \/ Apply \/ Record \/ Finish \/ SaveResolution
           \/ \E keepChanged \in BOOLEAN : Undo(keepChanged)
    PROVE  KInv'
<1>1. /\ mem \in Journal /\ disk \in Journal /\ Cursor(mem) /\ Standing(pc, mem) /\ Cursor(disk)
      /\ mem.state = disk.state /\ mem.undo = disk.undo /\ mem.kept = disk.kept
      /\ disk.next <= mem.next /\ mem.next \in Nat /\ disk.next \in Nat /\ Ahead
    BY ConstantsAssumption DEF IInv, CommandOK, Cursor, Shadow, Journal, KInv
<1>2. UNCHANGED <<home, slot, content>> /\ mem' = disk' /\ pc' \in {"loop", "idle"}
    BY DEF Apply, Record, Finish, SaveResolution, Undo, Save, files
<1>3. CASE Apply
    <2>1. disk.undo = FALSE /\ disk.kept = {} /\ disk.next = 1 /\ ~disk.pending
        BY <1>3 DEF Apply, Shadow, NoJournal
    <2>2. /\ disk'.undo = FALSE /\ disk'.kept = {} /\ disk'.next = 1 /\ ~disk'.pending
        BY <1>3 DEF Apply, Save, NoJournal
    <2>3. disk'.undo = disk.undo /\ disk'.kept = disk.kept /\ disk'.next = disk.next
        BY <2>1, <2>2
    <2>4. Ahead'
        BY <1>1, <1>2, <2>1, <2>3, AheadStays
    <2>5. QED
        BY <1>2, <2>2, <2>4, KInvAtHead
<1>4. CASE \E keepChanged \in BOOLEAN : Undo(keepChanged)
    <2>1. /\ ~disk.undo /\ disk'.undo /\ ~disk'.pending
        BY <1>1, <1>4 DEF Undo, Save, NoJournal, Cursor, Readable
    <2>2. QED
        BY <1>2, <2>1, AheadTurns, KInvAtHead
<1>5. CASE Record
    <2>1. /\ disk'.undo = disk.undo /\ disk'.kept = disk.kept /\ disk'.next = mem.next + 1
          /\ ~disk'.pending
        BY <1>1, <1>5 DEF Record, Save, Advanced, Journal
    <2>2. Ahead'
        BY <1>1, <1>2, <2>1, AheadStays
    <2>3. QED
        BY <1>2, <2>1, <2>2, KInvAtHead
<1>6. CASE Finish
    <2>1. ~mem.pending /\ ~disk.pending
        BY <1>1, <1>6, ConstantsAssumption DEF Finish, Cursor, Readable, Intention
    <2>2. /\ disk'.undo = disk.undo /\ disk'.kept = disk.kept /\ disk'.next = mem.next
          /\ ~disk'.pending
        BY <1>1, <1>6, <2>1 DEF Finish, Save, Journal
    <2>3. Ahead'
        BY <1>1, <1>2, <2>1, <2>2, AheadStays
    <2>4. QED
        BY <1>2, <2>2, <2>3, KInvAtHead
<1>7. CASE SaveResolution
    <2>1. /\ mem = disk /\ disk' = Decided(mem, choice, pc = "settled")
          /\ choice = "RollBack" => ~mem.undo
        BY <1>7 DEF SaveResolution, Save, Bare, AtRest, ResolvePlaces, Shadow
    <2>2. CASE choice = "KeepMine"
        <3>1. /\ disk'.undo = disk.undo /\ disk.kept \subseteq disk'.kept /\ ~disk'.pending
              /\ disk'.next = disk.next + 1
            BY <1>1, <2>1, <2>2 DEF Decided, Advanced, Journal
        <3>2. Ahead'
            BY <1>1, <1>2, <3>1, AheadStays
        <3>3. QED
            BY <1>2, <3>1, <3>2, KInvAtHead
    <2>3. CASE choice = "RollBack"
        <3>1. ~disk.undo /\ disk'.undo /\ ~disk'.pending
            BY <2>1, <2>3 DEF Decided, NoJournal
        <3>2. QED
            BY <1>2, <3>1, AheadTurns, KInvAtHead
    <2>4. QED
        BY <2>2, <2>3 DEF IInv, CommandOK
<1>8. QED
    BY <1>3, <1>4, <1>5, <1>6, <1>7

\* The command looks, notes, writes its intention, and stops.
LEMMA KInvWalks ==
    ASSUME IInv, IInv', Shadow, Intention, KInv, PowerLoss => DoneIsSynced,
           \/ Recover \/ Skip \/ CheckOriginal \/ Identify \/ SaveIntent \/ Decide \/ Verify
           \/ SaveConflict \/ IoError
    PROVE  KInv'
<1>1. /\ mem \in Journal /\ disk \in Journal /\ Cursor(mem) /\ Standing(pc, mem) /\ Cursor(disk)
      /\ mem.undo = disk.undo /\ mem.kept = disk.kept
      /\ disk.next <= mem.next /\ mem.next \in Nat /\ disk.next \in Nat
      /\ Ahead /\ Found /\ Swapping /\ FilesOK
    BY ConstantsAssumption DEF IInv, CommandOK, Cursor, Shadow, Journal, KInv
<1>2. UNCHANGED <<home, slot, content>> /\ unsynced' \subseteq unsynced
    BY DEF Recover, Skip, CheckOriginal, Identify, SaveIntent, Decide, Verify, SaveConflict, IoError,
           files
<1>3. CASE Recover \/ Skip
    <2>1. /\ disk' = disk /\ pc' = "loop" /\ unsynced' = unsynced
          /\ mem' = disk \/ ~mem'.pending
        BY <1>1, <1>3 DEF Recover, Skip, Cursor, Journal
    <2>2. mem'.pending => mem' = mem
        BY <2>1 DEF Intention
    <2>3. Found'
        BY <2>1 DEF Found
    <2>4. Ahead'
        BY <1>1, <1>2, <2>1, AheadStays
    <2>5. mem'.pending => Noting(mem)'
        BY <1>2, <2>2 DEF KInv, Noting, Expected, Proposed, Before, After
    <2>6. Swapping'
        BY <1>1, <1>2, <2>1 DEF Swapping, Awaits, Moved, NotMoved, AtHome, AtSlot, Dir
    <2>7. QED
        BY <2>1, <2>3, <2>4, <2>5, <2>6 DEF KInv
<1>4. CASE CheckOriginal
    <2>1. /\ UNCHANGED <<disk, mem>> /\ mem.next \in Ranks /\ ~mem.pending
          /\ pc' = IF Look(AtHome(mem)) = Expected(mem) THEN "identify" ELSE "failed"
        BY <1>1, <1>4, Reads DEF CheckOriginal, AtStep
    <2>2. AtHome(mem)' = AtHome(mem) /\ Expected(mem)' = Expected(mem)
        BY <1>2, <2>1 DEF AtHome, Expected, Before, After
    <2>3. pc' = "identify" /\ Expected(mem) = "absent" => AtHome(mem) = NoInode
        BY <1>1, <2>1, AbsentIsNone, TwoVersions
    <2>4. Found'
        BY <2>1, <2>2, <2>3 DEF Found
    <2>5. QED
        BY <1>2, <2>1, <2>4, KInvAtRest
<1>5. CASE Identify
    <2>1. /\ disk' = disk /\ mem' = [mem EXCEPT !.original = AtHome(mem)] /\ pc' = "metadata"
          /\ pc = "identify" /\ ~mem.pending /\ ~mem'.pending
          /\ mem'.next = mem.next /\ mem'.undo = mem.undo /\ mem'.original = AtHome(mem)
        BY <1>1, <1>5 DEF Identify, Intention, Journal
    <2>2. AtHome(mem)' = AtHome(mem) /\ Expected(mem)' = Expected(mem)
        BY <1>2, <2>1 DEF AtHome, Expected, Before, After
    <2>3. Found'
        BY <1>1, <2>1, <2>2 DEF Found
    <2>4. QED
        BY <1>2, <2>1, <2>3, KInvAtRest
<1>6. CASE Decide
    <2>1. UNCHANGED <<disk, mem>> /\ pc' \in {"rename", "verify", "failed"}
          /\ (pc' = "rename" => AtHome(mem) = mem.original /\ AtSlot(mem) = mem.proposed)
          /\ pc # "intent"
        BY <1>6 DEF Decide, AtStep
    <2>2. AtHome(mem)' = AtHome(mem) /\ AtSlot(mem)' = AtSlot(mem)
        BY <1>2, <2>1 DEF AtHome, AtSlot, Dir
    <2>3. Found'
        BY <2>1, <2>2 DEF Found
    <2>4. QED
        BY <1>2, <2>1, <2>3, KInvAtRest
<1>7. CASE Verify \/ IoError
    <2>1. /\ disk' = disk /\ pc' \in {"record", "failed"}
          /\ mem'.next = mem.next /\ mem'.undo = mem.undo
          /\ mem'.original = mem.original /\ mem'.proposed = mem.proposed
          /\ mem'.pending => mem.pending \/ pc = "intent"
        BY <1>1, <1>7 DEF Verify, IoError, Journal
    <2>2. Found'
        BY <2>1 DEF Found
    <2>3. QED
        BY <1>2, <2>1, <2>2, KInvAtRest
\* A new intention awaits no rename.
<1>8. ASSUME ~disk.pending, disk'.next = mem.next, disk'.kept = disk.kept, mem.next \notin mem.kept
      PROVE  PowerLoss => ~Awaits(disk)'
    BY <1>1, <1>2, <1>8 DEF DoneIsSynced, Awaits
<1>9. CASE SaveIntent
    <2>1. /\ ~disk.pending /\ mem' = disk' /\ pc' = "decide" /\ mem.next \notin mem.kept
          /\ disk'.next = mem.next /\ disk'.undo = mem.undo /\ disk'.kept = disk.kept
          /\ disk'.original = mem.original /\ disk'.proposed = mem.proposed
          /\ pc = "intent"
        BY <1>1, <1>9 DEF SaveIntent, Save, Intention, Standing, StepPlaces, Journal
    <2>2. Ahead'
        BY <1>1, <1>2, <2>1, AheadStays
    <2>3. Noting(mem)'
        BY <1>2, <2>1 DEF KInv, Noting, Expected, Proposed, Before, After
    <2>4. Swapping' /\ Found'
        BY <1>8, <2>1 DEF Swapping, Found
    <2>5. QED
        BY <2>2, <2>3, <2>4 DEF KInv
<1>10. CASE SaveConflict
    <2>1. /\ mem' = disk' /\ pc' = "idle" /\ mem.next \notin mem.kept
          /\ disk'.next = mem.next /\ disk'.undo = mem.undo /\ disk'.kept = disk.kept
          /\ disk'.pending = mem.pending /\ unsynced' = unsynced
          /\ mem.pending => disk'.original = mem.original /\ disk'.proposed = mem.proposed
        BY <1>1, <1>10 DEF SaveConflict, Save, Standing, StepPlaces, Journal
    <2>2. disk.pending => mem = disk
        BY DEF Intention
    <2>3. Ahead'
        BY <1>1, <1>2, <2>1, <2>2, AheadStays
    <2>4. mem'.pending => Noting(mem)'
        BY <1>2, <2>1 DEF KInv, Noting, Expected, Proposed, Before, After
    <2>5. Found'
        BY <2>1 DEF Found
    <2>6. Swapping'
        <3>1. CASE ~disk.pending
            BY <1>8, <2>1, <3>1 DEF Swapping
        <3>2. CASE disk.pending
            BY <1>1, <1>2, <2>1, <2>2, <3>2 DEF Swapping, Awaits, Moved, NotMoved, AtHome, AtSlot, Dir
        <3>3. QED
            BY <3>1, <3>2
    <2>7. QED
        BY <2>1, <2>3, <2>4, <2>5, <2>6 DEF KInv
<1>11. QED
    BY <1>3, <1>4, <1>5, <1>6, <1>7, <1>9, <1>10

\* resolve looks at a rank that is cleared, or at a rename that is done.
LEMMA KInvResolves ==
    ASSUME IInv, IInv', Shadow, Intention, Bare, KInv,
           NEW decision \in {"KeepMine", "RollBack"}, Resolve(decision)
    PROVE  KInv'
<1>1. /\ mem \in Journal /\ disk \in Journal /\ FilesOK /\ mem = disk /\ mem' = mem
      /\ mem.next \in Ranks /\ mem.next \notin disk.kept /\ UNCHANGED <<disk, home, slot, content>>
      /\ unsynced' = unsynced /\ pc = "idle"
      /\ pc' = CASE TookPlace(disk)   -> "settled"
                 [] CarriedEdit(disk) -> "bringBack"
                 [] OTHER             -> "unsettled"
    BY Reads DEF IInv, CommandOK, Cursor, Resolve, files, Bare, AtRest, StopsOnRank
<1>2. /\ AtHome(mem)' = AtHome(mem) /\ AtSlot(mem)' = AtSlot(mem) /\ Cleared(mem.next)' = Cleared(mem.next)
    BY <1>1 DEF AtHome, AtSlot, Dir, Cleared, Look
<1>3. mem.pending => Noting(mem)
    BY DEF KInv
<1>4. pc' = "bringBack" => /\ AtSlot(mem) = mem.original /\ mem.original # NoInode
                           /\ AtHome(mem) = mem.proposed
    BY <1>1, <1>3 DEF CarriedEdit, Moved, Noting
<1>5. pc' = "unsettled" => Cleared(mem.next)
    <2> SUFFICES ASSUME pc' = "unsettled", ~Cleared(mem.next) PROVE FALSE
        OBVIOUS
    <2>1. mem.pending /\ Moved(mem) /\ Noting(mem)
        BY <1>1, <1>3, ConstantsAssumption DEF KInv, Ahead, Ranks
    <2>2. ~TookPlace(mem) /\ ~CarriedEdit(mem)
        BY <1>1
    <2>3. Look(AtHome(mem)) = Proposed(mem) => AtSlot(mem) = NoInode /\ Expected(mem) = "absent"
        BY <2>1, <2>2 DEF TookPlace, CarriedEdit, Moved, Noting
    <2>4. Look(AtHome(mem)) # Proposed(mem)
        BY <2>1, <2>2, <2>3 DEF TookPlace, Look
    <2>5. Proposed(mem) # "absent"
        BY <2>1, <2>4 DEF Moved, Noting, Look
    <2>6. QED
        BY <1>1, <2>4, <2>5, TwoVersions DEF Cleared
<1>6. Found'
    BY <1>1, <1>2, <1>4, <1>5 DEF Found
<1>7. QED
    BY <1>1, <1>6, KInvAtRest

\* copy_version fills a slot behind a document that does not show the same version.
LEMMA KInvFreezes ==
    ASSUME IInv, IInv', Shadow, Intention, KInv, PowerLoss => DoneIsSynced, FreezeProposed
    PROVE  KInv'
<1>1. /\ mem \in Journal /\ disk \in Journal /\ FilesOK /\ mem.next \in Ranks
      /\ mem.kept = disk.kept /\ mem.undo = disk.undo
      /\ ~mem.pending /\ ~disk.pending /\ pc = "metadata" /\ UNCHANGED <<disk, home, unsynced>>
      /\ AtHome(mem) \in Link /\ AtSlot(mem) \in Link
    BY Reads DEF IInv, CommandOK, Cursor, Standing, StepPlaces, FreezeProposed, Intention, Shadow
<1>2. /\ AtHome(mem) \in {mem.original, NoInode}
      /\ Expected(mem) = "absent" => mem.original = NoInode
    BY <1>1 DEF KInv, Found
<1>3. CASE pc' = "failed" /\ UNCHANGED <<mem, slot, content>>
    <2>1. Found'
        BY <1>3 DEF Found
    <2>2. QED
        BY <1>1, <1>3, <2>1, KInvAtRest
<1>4. CASE /\ Expected(mem) # "absent" => Look(AtHome(mem)) = Expected(mem)
           /\ \E i \in Link :
                 /\ mem' = [mem EXCEPT !.proposed = i] /\ pc' = "intent"
                 /\ \/ i = AtSlot(mem) /\ Look(i) = Proposed(mem) /\ UNCHANGED <<slot, content>>
                    \/ /\ i \in Free /\ Proposed(mem) # "absent"
                       /\ slot' = [slot EXCEPT ![Dir(mem)][mem.next] = i]
                       /\ content' = [content EXCEPT ![i] = Proposed(mem)]
    <2>1. PICK i \in Link :
                 /\ mem' = [mem EXCEPT !.proposed = i] /\ pc' = "intent"
                 /\ \/ i = AtSlot(mem) /\ Look(i) = Proposed(mem) /\ UNCHANGED <<slot, content>>
                    \/ /\ i \in Free /\ Proposed(mem) # "absent"
                       /\ slot' = [slot EXCEPT ![Dir(mem)][mem.next] = i]
                       /\ content' = [content EXCEPT ![i] = Proposed(mem)]
        BY <1>4
    <2>2. /\ mem'.next = mem.next /\ mem'.undo = mem.undo /\ ~mem'.pending
          /\ mem'.original = mem.original /\ mem'.proposed = i
        BY <1>1, <2>1 DEF Journal
    <2>3. Expected(mem)' = Expected(mem) /\ Proposed(mem)' = Proposed(mem)
        BY <2>2 DEF Expected, Proposed, Before, After
    <2>4. Look(AtHome(mem)) = Expected(mem) /\ AtHome(mem) = mem.original
          /\ (mem.original = NoInode <=> Expected(mem) = "absent")
        BY <1>1, <1>2, <1>4, AbsentIsNone DEF Look
    <2>5. \A r \in Ranks : Look(home[r])' = Look(home[r])
        <3> SUFFICES ASSUME NEW r \in Ranks PROVE Look(home[r])' = Look(home[r])
            OBVIOUS
        <3>1. home[r] \in Link /\ (i \in Free => home[r] # i)
            BY <1>1, ConstantsAssumption DEF FilesOK, Free, Linked
        <3>2. QED
            BY <1>1, <2>1, <3>1 DEF Look, FilesOK, Link
    <2>6. Noting(mem)'
        <3>1. i = NoInode <=> Proposed(mem) = "absent"
            BY <1>1, <2>1, AbsentIsNone, ConstantsAssumption DEF Free
        <3>2. mem.original # NoInode => content'[mem.original] = Expected(mem)
            BY <1>1, <2>4, <2>5 DEF AtHome, Look
        <3>3. QED
            BY <1>1, <2>2, <2>3, <2>4, <3>1, <3>2, TwoVersions DEF Noting
    <2>7. Ahead'
        <3> SUFFICES ASSUME NEW r \in Ranks \ disk.kept, r >= disk.next PROVE Cleared(r)'
            BY <1>1 DEF Ahead
        <3>1. Cleared(r)
            BY <1>1 DEF KInv, Ahead
        <3>2. CASE UNCHANGED slot
            BY <1>1, <2>5, <3>1, <3>2 DEF Cleared, Dir
        <3>3. CASE r # mem.next /\ slot' = [slot EXCEPT ![Dir(mem)][mem.next] = i]
            <4>1. slot'[Dir(disk)][r] = slot[Dir(disk)][r]
                BY <1>1, <3>3, TwoVersions DEF FilesOK
            <4>2. QED
                BY <1>1, <2>5, <3>1, <4>1 DEF Cleared, Dir
        <3>4. CASE r = mem.next /\ Proposed(mem) # "absent"
            <4>1. Look(home[r])' # Proposed(mem) /\ Proposed(mem) = Installs(disk.undo, r)
                BY <1>1, <2>4, <2>5, <3>4, TwoVersions
            <4>2. QED
                BY <1>1, <3>4, <4>1 DEF Cleared
        <3>5. QED
            BY <2>1, <3>2, <3>3, <3>4
    <2>8. Found'
        BY <2>1 DEF Found
    <2>9. Swapping'
        BY <1>1 DEF Swapping, Awaits
    <2>10. QED
        BY <2>6, <2>7, <2>8, <2>9 DEF KInv
<1>5. Free \subseteq Link
    BY DEF Free, Link
<1>6. QED
    BY <1>1, <1>3, <1>4, <1>5 DEF FreezeProposed

\* A swap of the noted names moves one rank.
LEMMA SwapAhead ==
    ASSUME IInv, Ahead, disk.next \in Ranks, disk' = disk,
           NEW d \in Dirs, Swapped(d, disk.next),
           Cleared(disk.next)' \/ (disk.pending /\ Moved(disk)')
    PROVE  Ahead'
<1>1. FilesOK
    BY DEF IInv
<1> SUFFICES ASSUME NEW r \in Ranks \ disk.kept, r >= disk.next, r # disk.next PROVE Cleared(r)'
    BY DEF Ahead
<1>2. Cleared(r)
    BY DEF Ahead
<1>3. home'[r] = home[r] /\ slot'[Dir(disk)][r] = slot[Dir(disk)][r] /\ Look(home[r])' = Look(home[r])
    BY <1>1, SwapSame, Reads DEF Dir, Dirs, FilesOK, Swapped, Look
<1>4. QED
    BY <1>2, <1>3 DEF Cleared, Dir

\* step renames what it noted, and resolve brings it back.
LEMMA KInvSwaps ==
    ASSUME IInv, IInv', Shadow, Intention, Bare, KInv, Rename \/ BringBack
    PROVE  KInv'
<1>1. /\ mem \in Journal /\ FilesOK /\ mem = disk /\ mem.next \in Ranks /\ mem.pending /\ disk' = disk
      /\ content' = content /\ Noting(mem) /\ Ahead
    BY Reads DEF IInv, CommandOK, Cursor, Standing, StepPlaces, ResolvePlaces, Rename, BringBack,
                 Intention, KInv
<1>2. Dir(mem) \in Dirs /\ AtHome(mem) \in Link /\ AtSlot(mem) \in Link
    BY <1>1, TwoVersions
<1>3. ASSUME UNCHANGED <<mem, home, slot, unsynced>>, pc' \in {"failed", "idle"}
      PROVE  KInv'
    <2>1. Found'
        BY <1>3 DEF Found
    <2>2. QED
        BY <1>1, <1>3, <2>1, KInvAtRest
<1>4. ASSUME mem' = mem, SwapNames(Dir(mem), mem.next)
      PROVE  /\ Swapped(Dir(disk), disk.next)
             /\ AtHome(disk)' = AtSlot(mem) /\ AtSlot(disk)' = AtHome(mem)
             /\ Noting(mem)'
    <2>1. Swapped(Dir(disk), disk.next)
        BY <1>1, <1>4 DEF SwapNames, Swapped
    <2>2. AtHome(disk)' = AtSlot(mem) /\ AtSlot(disk)' = AtHome(mem)
        BY <1>1, <1>2, <2>1, SwapSame DEF AtHome, AtSlot, Dir
    <2>3. Noting(mem)'
        BY <1>1, <1>4 DEF Noting, Expected, Proposed, Before, After
    <2>4. QED
        BY <2>1, <2>2, <2>3
<1>5. CASE Rename
    <2>1. mem' = mem /\ pc = "rename" /\ AtSlot(mem) = mem.proposed /\ AtHome(mem) \in {mem.original, NoInode}
        BY <1>5 DEF Rename, KInv, Found
    <2>2. CASE CanRename(mem) /\ SwapNames(Dir(mem), mem.next) /\ pc' = "verify"
        <3>1. AtHome(mem) = mem.original
            BY <1>1, <2>1, <2>2 DEF CanRename, CanMoveIn, CanMoveOut, CanExchange, Noting
        <3>2. Moved(disk)'
            BY <1>1, <1>4, <2>1, <2>2, <3>1 DEF Moved
        <3>3. Ahead'
            BY <1>1, <1>2, <1>4, <2>1, <2>2, <3>2, SwapAhead
        <3>4. Found' /\ Swapping'
            BY <2>2, <3>2 DEF Found, Swapping
        <3>5. QED
            BY <1>4, <2>1, <2>2, <3>3, <3>4 DEF KInv
    <2>3. CASE pc' = "failed" /\ UNCHANGED <<home, slot, unsynced>>
        BY <1>3, <2>1, <2>3
    <2>4. QED
        BY <1>5, <2>2, <2>3 DEF Rename
<1>6. CASE BringBack
    <2>1. /\ pc = "bringBack" /\ AtSlot(mem) = mem.original /\ mem.original # NoInode
          /\ AtHome(mem) \in {mem.proposed, NoInode}
        BY <1>6 DEF BringBack, KInv, Found
    <2>2. CASE /\ IF Proposed(mem) = "absent" THEN CanMoveIn(mem) ELSE CanExchange(mem)
               /\ SwapNames(Dir(mem), mem.next)
               /\ pc' = "broughtBack" /\ mem' = mem
        <3>1. AtHome(mem) = mem.proposed
            BY <1>1, <2>1, <2>2 DEF CanMoveIn, CanExchange, Noting
        <3>2. NotMoved(disk)'
            BY <1>1, <1>4, <2>1, <2>2, <3>1 DEF NotMoved
        <3>3. Cleared(mem.next)'
            <4>1. slot'[Dir(disk)][mem.next] = mem.proposed /\ home'[mem.next] = mem.original
                BY <1>1, <1>4, <2>1, <2>2, <3>1 DEF AtHome, AtSlot, Dir
            <4>2. Look(home[mem.next])' = content[mem.original]
                BY <1>1, <2>1, <2>2, <4>1 DEF Look
            <4>3. Proposed(mem) = Installs(disk.undo, mem.next)
                BY <1>1, TwoVersions
            <4>4. QED
                BY <1>1, <2>1, <2>2, <4>1, <4>2, <4>3 DEF Cleared, Dir, Noting
        <3>4. Ahead'
            BY <1>1, <1>2, <1>4, <2>2, <3>3, SwapAhead
        <3>5. Found' /\ Swapping'
            BY <2>2, <3>2, <3>3 DEF Found, Swapping
        <3>6. QED
            BY <1>4, <2>2, <3>4, <3>5 DEF KInv
    <2>3. CASE pc' = "idle" /\ mem' = disk /\ UNCHANGED <<home, slot, unsynced>>
        BY <1>1, <1>3, <2>3
    <2>4. QED
        BY <1>6, <2>2, <2>3 DEF BringBack
<1>7. QED
    BY <1>5, <1>6

\* What may be lost with the power is the rename noted, and it comes back either way.
LEMMA KInvCrashes ==
    ASSUME IInv, IInv', Shadow, Intention, KInv, PowerLoss => DoneIsSynced, Crash
    PROVE  KInv'
<1>1. /\ disk \in Journal /\ FilesOK /\ Cursor(disk) /\ disk.next \in Nat
      /\ mem' = disk /\ pc' = "idle" /\ disk' = disk /\ content' = content
    BY CrashSame, ConstantsAssumption DEF IInv, CommandOK, Cursor, Journal
<1>2. disk.pending => mem = disk /\ Noting(disk)
    BY DEF Intention, KInv
<1>3. mem'.pending \/ pc' = "intent" => Noting(mem)'
    BY <1>1, <1>2 DEF Noting, Expected, Proposed, Before, After
<1>4. Found'
    BY <1>1 DEF Found
<1>5. CASE UNCHANGED <<home, slot>>
    <2>1. unsynced' \subseteq unsynced
        BY CrashSame
    <2>2. Ahead'
        BY <1>1, <1>5, AheadStays DEF KInv
    <2>3. Swapping'
        BY <1>1, <1>5, <2>1 DEF KInv, Swapping, Awaits, Moved, NotMoved, AtHome, AtSlot, Dir
    <2>4. QED
        BY <1>3, <1>4, <2>2, <2>3 DEF KInv
<1>6. CASE /\ PowerLoss /\ unsynced' = {}
           /\ \E u \in unsynced : u[1] \in Dirs /\ u[2] \in Ranks /\ Swapped(u[1], u[2])
    <2>1. PICK u \in unsynced : u[1] \in Dirs /\ u[2] \in Ranks /\ Swapped(u[1], u[2])
        BY <1>6
    <2>2. Swapping'
        BY <1>6 DEF Swapping, Awaits
    <2>3. CASE u[2] \in disk.kept
        <3>1. \A r \in Ranks \ disk.kept : /\ home'[r] = home[r] /\ slot'[Dir(disk)][r] = slot[Dir(disk)][r]
                                          /\ Look(home[r])' = Look(home[r])
            BY <1>1, <2>1, <2>3, SwapSame DEF Dir, Dirs, Look
        <3>2. disk.pending => disk.next \in Ranks \ disk.kept
            BY <1>1, Reads DEF Cursor, Readable
        <3>3. disk.pending /\ Moved(disk) => Moved(disk)'
            BY <1>1, <3>1, <3>2 DEF Moved, AtHome, AtSlot, Dir
        <3>4. Ahead'
            BY <1>1, <3>1, <3>3 DEF KInv, Ahead, Cleared, Dir
        <3>5. QED
            BY <1>3, <1>4, <2>2, <3>4 DEF KInv
    <2>4. CASE disk.pending /\ u = <<Dir(disk), disk.next>>
        <3>1. /\ mem = disk /\ Noting(disk) /\ u[1] = Dir(disk) /\ u[2] = disk.next
              /\ disk.next \in Ranks /\ Dir(disk) \in Dirs /\ Swapped(Dir(disk), disk.next)
            BY <1>2, <2>1, <2>4
        <3>2. Moved(disk) \/ NotMoved(disk)
            BY <1>6, <2>4 DEF KInv, Swapping, Awaits
        <3>3. AtHome(disk)' = AtSlot(disk) /\ AtSlot(disk)' = AtHome(disk)
            BY <1>1, <3>1, SwapSame DEF AtHome, AtSlot, Dir
        <3>4. CASE NotMoved(disk)
            <4>1. Moved(disk)'
                BY <1>1, <2>4, <3>3, <3>4 DEF NotMoved, Moved
            <4>2. QED
                BY <1>1, <1>3, <1>4, <2>2, <2>4, <3>1, <4>1, SwapAhead DEF KInv
        <3>5. CASE Moved(disk)
            <4>1. slot'[Dir(disk)][disk.next] = disk.proposed /\ home'[disk.next] = disk.original
                BY <1>1, <3>3, <3>5 DEF Moved, AtHome, AtSlot, Dir
            <4>2. disk.original = NoInode => Look(home[disk.next])' = "absent"
                BY <1>1, <4>1 DEF Look
            <4>3. disk.original # NoInode => Look(home[disk.next])' = content[disk.original]
                BY <1>1, <4>1 DEF Look
            <4>4. Proposed(disk) = Installs(disk.undo, disk.next)
                BY <3>1, TwoVersions
            <4>5. Cleared(disk.next)'
                BY <1>1, <3>1, <4>1, <4>2, <4>3, <4>4 DEF Cleared, Dir, Noting
            <4>6. QED
                BY <1>1, <1>3, <1>4, <2>2, <3>1, <4>5, SwapAhead DEF KInv
        <3>6. QED
            BY <3>2, <3>4, <3>5
    <2>5. QED
        BY <1>6, <2>1, <2>3, <2>4 DEF DoneIsSynced
<1>7. QED
    BY <1>5, <1>6, CrashSame

\* The human who saves in place or deletes shows no version of the batch.
LEMMA KInvEdited ==
    ASSUME SavedInPlace, IInv, IInv', Shadow, Intention, KInv, Human
    PROVE  KInv'
<1>1. /\ mem \in Journal /\ disk \in Journal /\ FilesOK /\ HumanOK
      /\ UNCHANGED <<disk, mem, pc, slot>> /\ unsynced' \subseteq unsynced
      /\ mem.undo = disk.undo /\ Dir(mem) = Dir(disk) /\ Dir(disk) \in Dirs
    BY HumanUnsynced DEF IInv, CommandOK, Cursor, Shadow, Dir, Dirs
<1>2. \A r \in Ranks : /\ home'[r] \in {home[r], NoInode} /\ (home[r] = NoInode => home'[r] = NoInode)
                       /\ home'[r] # home[r] => \A d \in Dirs : <<d, r>> \notin unsynced'
    <2>1. ASSUME NEW t \in Ranks, HumanOpens(t) \/ \E e \in Edits \ spent : HumanSaves(t, e)
          PROVE  home' = home
        BY <2>1 DEF HumanOpens, HumanSaves, files
    <2>2. ASSUME NEW t \in Ranks, \E e \in Edits \ spent : HumanDeletes(t, e)
          PROVE  home' = [home EXCEPT ![t] = NoInode] /\ unsynced' = unsynced \ (Dirs \X {t})
        BY <2>2 DEF HumanDeletes
    <2>3. home' = home \/ \E t \in Ranks : /\ home' = [home EXCEPT ![t] = NoInode]
                                          /\ unsynced' = unsynced \ (Dirs \X {t})
        BY <2>1, <2>2 DEF Human, HumanReplaces, SavedInPlace
    <2>4. CASE home' = home
        BY <2>4
    <2>5. ASSUME NEW t \in Ranks, home' = [home EXCEPT ![t] = NoInode],
                 unsynced' = unsynced \ (Dirs \X {t}), NEW r \in Ranks
          PROVE  /\ home'[r] \in {home[r], NoInode} /\ (home[r] = NoInode => home'[r] = NoInode)
                 /\ home'[r] # home[r] => \A d \in Dirs : <<d, r>> \notin unsynced'
        BY <1>1, <2>5 DEF FilesOK
    <2>6. QED
        BY <2>3, <2>4, <2>5
<1>3. \A i \in Inodes : content'[i] = content[i] \/ content'[i] \in Edits
    BY <1>1 DEF Human, HumanOpens, HumanSaves, HumanReplaces, HumanDeletes, SavedInPlace, files, FilesOK
<1>4. \A e \in Edits : e \notin {"before", "after", "absent"}
    BY ConstantsAssumption
<1>5. \A r \in Ranks : Cleared(r) => Cleared(r)'
    <2> SUFFICES ASSUME NEW r \in Ranks, Cleared(r), slot[Dir(disk)][r] # NoInode PROVE Cleared(r)'
        BY <1>1 DEF Cleared, Dir
    <2>1. Installs(disk.undo, r) # "absent" /\ Look(home[r]) # Installs(disk.undo, r)
        BY DEF Cleared
    <2>2. home[r] \in Link /\ Installs(disk.undo, r) \in {"before", "after", "absent"}
        BY <1>1 DEF FilesOK, Installs, Before, After
    <2>3. Look(home[r])' # Installs(disk.undo, r)
        <3>1. CASE home'[r] = NoInode
            BY <2>1, <3>1 DEF Look
        <3>2. CASE home'[r] = home[r] /\ home[r] # NoInode
            BY <1>3, <1>4, <2>1, <2>2, <3>2 DEF Look, Link
        <3>3. QED
            BY <1>2, <3>1, <3>2
    <2>4. QED
        BY <1>1, <2>1, <2>3 DEF Cleared
<1>6. mem.next \in Ranks =>
        /\ AtHome(mem)' \in {AtHome(mem), NoInode} /\ (AtHome(mem) = NoInode => AtHome(mem)' = NoInode)
        /\ AtSlot(mem)' = AtSlot(mem) /\ Expected(mem)' = Expected(mem) /\ Proposed(mem)' = Proposed(mem)
    BY <1>1, <1>2 DEF AtHome, AtSlot, Dir, Expected, Proposed, Before, After
<1>7. mem.pending \/ pc = "intent" => mem.next \in Ranks
    BY <1>1, Reads DEF IInv, CommandOK, Cursor, Readable, Standing, StepPlaces
<1>8. mem.pending \/ pc = "intent" => Noting(mem)'
    <2> SUFFICES ASSUME mem.pending \/ pc = "intent" PROVE Noting(mem)'
        OBVIOUS
    <2>1. Noting(mem) /\ mem.next \in Ranks /\ mem.original \in Link
        BY <1>1, <1>7 DEF KInv, Journal
    <2>2. mem.original # NoInode => content'[mem.original] # Proposed(mem)
        BY <1>3, <1>4, <2>1, TwoVersions DEF Noting, Link
    <2>3. QED
        BY <1>1, <1>6, <2>1, <2>2 DEF Noting
<1>9. pc \in {"identify", "metadata", "rename", "bringBack", "unsettled", "broughtBack"} => mem.next \in Ranks
    BY <1>1, Reads DEF IInv, CommandOK, Standing, StepPlaces, ResolvePlaces
<1>10. Found'
    BY <1>1, <1>5, <1>6, <1>9 DEF KInv, Found
<1>11. disk.pending => disk = mem /\ disk.next \in Ranks /\ Noting(disk)
    BY <1>7 DEF Intention, KInv
<1>12. Ahead'
    <2> SUFFICES ASSUME NEW r \in Ranks \ disk.kept, r >= disk.next
                 PROVE  Cleared(r)' \/ (r = disk.next /\ disk.pending /\ Moved(disk)')
        BY <1>1 DEF Ahead
    <2>1. CASE Cleared(r)
        BY <1>5, <2>1
    <2>2. CASE r = disk.next /\ disk.pending /\ Moved(disk)
        <3>1. disk = mem /\ mem.next \in Ranks /\ Noting(mem)
            BY <1>11, <2>2
        <3>2. CASE AtHome(mem)' = AtHome(mem)
            <4>1. Moved(disk)'
                BY <1>1, <1>6, <2>2, <3>1, <3>2 DEF Moved
            <4>2. QED
                BY <2>2, <4>1
        <3>3. CASE AtHome(mem)' # AtHome(mem)
            <4>1. home'[r] = NoInode /\ AtHome(mem) # NoInode
                BY <1>1, <1>2, <2>2, <3>1, <3>3 DEF AtHome
            <4>2. Proposed(mem) # "absent" /\ Proposed(mem) = Installs(disk.undo, r)
                BY <2>2, <3>1, <4>1, TwoVersions DEF Moved, Noting
            <4>3. QED
                BY <1>1, <4>1, <4>2 DEF Cleared, Look
        <3>4. QED
            BY <3>2, <3>3
    <2>3. QED
        BY <2>1, <2>2 DEF KInv, Ahead
<1>13. Swapping'
    <2> SUFFICES ASSUME PowerLoss, Awaits(disk)' PROVE Moved(disk)' \/ NotMoved(disk)'
        BY DEF Swapping
    <2>1. /\ disk.pending /\ Awaits(disk) /\ <<Dir(disk), disk.next>> \in unsynced'
        BY <1>1 DEF Awaits, Dir
    <2>2. disk = mem /\ mem.next \in Ranks
        BY <1>11, <2>1
    <2>3. AtHome(mem)' = AtHome(mem)
        BY <1>1, <1>2, <2>1, <2>2 DEF AtHome
    <2>4. Moved(disk) \/ NotMoved(disk)
        BY <2>1 DEF KInv, Swapping
    <2>5. QED
        BY <1>1, <1>6, <2>2, <2>3, <2>4 DEF Moved, NotMoved
<1>14. QED
    BY <1>1, <1>8, <1>10, <1>12, <1>13 DEF KInv

\* Where a rename may be lost, none is lost that the journal counts as carried.
Synced == PowerLoss => SInv

LEMMA NextKInv ==
    ASSUME SavedInPlace, Steady, IInv, Shadow, WInv, Bare, Synced, KInv, [Next]_vars
    PROVE  Bare' /\ Synced' /\ KInv'
<1>1. /\ IInv' /\ Bare' /\ Owned /\ Intention /\ (PowerLoss => DoneIsSynced)
    BY NextIInv, NextBare DEF WInv, Synced, SInv
<1>2. Synced'
    BY <1>1, NextSInv DEF Synced, Steady
<1>3. CASE \/ Apply \/ Record \/ Finish \/ SaveResolution
           \/ \E keepChanged \in BOOLEAN : Undo(keepChanged)
    BY <1>1, <1>2, <1>3, KInvSaves
<1>4. CASE \/ Recover \/ Skip \/ CheckOriginal \/ Identify \/ SaveIntent \/ Decide \/ Verify
           \/ SaveConflict \/ IoError
    BY <1>1, <1>2, <1>4, KInvWalks
<1>5. CASE \E decision \in {"KeepMine", "RollBack"} : Resolve(decision)
    BY <1>1, <1>2, <1>5, KInvResolves
<1>6. CASE FreezeProposed
    BY <1>1, <1>2, <1>6, KInvFreezes
<1>7. CASE Rename \/ BringBack
    BY <1>1, <1>2, <1>7, KInvSwaps
<1>8. CASE Crash
    BY <1>1, <1>2, <1>8, KInvCrashes
<1>9. CASE Human
    BY <1>1, <1>2, <1>9, KInvEdited
<1>10. CASE UNCHANGED vars
    <2>1. UNCHANGED <<disk, mem, pc, home, slot, content, unsynced>>
        BY <1>10 DEF vars, service, files
    <2>2. /\ AtHome(mem)' = AtHome(mem) /\ AtSlot(mem)' = AtSlot(mem)
          /\ Expected(mem)' = Expected(mem) /\ Cleared(mem.next)' = Cleared(mem.next)
        BY <2>1 DEF AtHome, AtSlot, Dir, Expected, Before, After, Cleared, Look
    <2>3. Found'
        BY <2>1, <2>2 DEF KInv, Found
    <2>4. QED
        BY <1>1, <1>2, <2>1, <2>3, KInvAtRest
<1>11. QED
    BY <1>1, <1>2, <1>3, <1>4, <1>5, <1>6, <1>7, <1>8, <1>9, <1>10, NextCases DEF Quiet

\* When resolve leaves a rank to the human, the home directory does not show the
\* mission's version while the human's lies displaced (the comment of
\* Resolution::KeepMine), as long as the human's editors save in place: whatever
\* stops the service or the machine between the rename and the decision.
THEOREM KeepMineGivesBack ==
    ASSUME SavedInPlace, Steady
    PROVE  Spec => []KeepMineBringsBack
<1>1. Init => Bare /\ Synced /\ KInv
    <2> SUFFICES ASSUME Init PROVE Bare /\ Synced /\ KInv
        OBVIOUS
    <2>1. AtRest /\ StopsOnRank /\ SyncedFirst
        BY DEF Init, AtRest, StopsOnRank, SyncedFirst, NoJournal
    <2>2. UndoUnused /\ faults <= MaxFaults
        BY ConstantsAssumption DEF Init, UndoUnused, Dirs
    <2>3. Synced
        BY DEF Init, Synced, SInv, DoneIsSynced, Awaits
    <2>4. Ahead
        BY DEF Init, Ahead, Cleared, Dir, Dirs
    <2>5. KInv
        BY <2>4 DEF Init, KInv, Found, Swapping, Awaits, NoJournal
    <2>6. QED
        BY <2>1, <2>2, <2>3, <2>5 DEF Bare
<1>2. IInv /\ Shadow /\ KInv => KeepMineBringsBack
    <2> SUFFICES ASSUME IInv, Shadow, KInv, pc \in {"unsettled", "broughtBack"},
                        Look(AtHome(mem)) = Proposed(mem)
                 PROVE  Look(AtSlot(mem)) \notin authored
        BY DEF KeepMineBringsBack
    <2>1. mem.next \in Ranks
        BY Reads DEF IInv, CommandOK, Cursor, Standing, ResolvePlaces
    <2>2. AtSlot(mem) = NoInode
        BY <2>1, TwoVersions DEF KInv, Found, Cleared
    <2>3. Look(AtSlot(mem)) = "absent" /\ authored \subseteq Edits
        BY <2>2 DEF Look, IInv, HumanOK
    <2>4. QED
        BY <2>3, ConstantsAssumption
<1>3. QED
    BY <1>1, <1>2, NextKInv, KnowsItsPlace, PTL DEF Spec
===============================================================================
