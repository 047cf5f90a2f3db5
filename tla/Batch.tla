-------------------------------- MODULE Batch --------------------------------
(***************************************************************************)
(* What a publication promises (ADR 0022 and 0058, publication.rs): the    *)
(* documents of a batch change one by one from the version before to the   *)
(* version after, the batch is Committed once all have, and undoing it     *)
(* brings them back.  A document the human edits is no longer the batch's  *)
(* concern, and a conflict waits for a decision that leaves documents to   *)
(* the human.                                                              *)
(***************************************************************************)
CONSTANT Docs

VARIABLES
    phase,    \* the state of the batch, WorkspaceState in the code
    undoing,  \* the batch goes towards the versions before
    kept,     \* the documents left to the human
    doc       \* doc[d]: the version that shows, "human" once the human edited it

vars == <<phase, undoing, kept, doc>>

Phases == {"Open", "Applying", "Undoing", "Committed", "RolledBack", "Conflict"}

TypeOK ==
    /\ phase \in Phases
    /\ undoing \in BOOLEAN
    /\ kept \in SUBSET Docs
    /\ doc \in [Docs -> {"before", "after", "human"}]

Init ==
    /\ phase = "Open" /\ undoing = FALSE /\ kept = {}
    /\ doc = [d \in Docs |-> "before"]

\* Every document of D shows version v, or the human's.
Show(D, v) == \A d \in D : doc[d] \in {v, "human"}

Source == IF undoing THEN "after" ELSE "before"
Target == IF undoing THEN "before" ELSE "after"
Moving == phase \in {"Applying", "Undoing"}

Begin ==
    /\ phase = "Open" /\ phase' = "Applying"
    /\ UNCHANGED <<undoing, kept, doc>>

\* A document of the batch arrives, all at once.
Arrive(d) ==
    /\ Moving /\ d \notin kept /\ doc[d] = Source
    /\ doc' = [doc EXCEPT ![d] = Target]
    /\ UNCHANGED <<phase, undoing, kept>>

\* A loss of power takes an arrival back while the batch is not over.
Lose(d) ==
    /\ Moving \/ phase = "Conflict"
    /\ d \notin kept /\ doc[d] = Target
    /\ doc' = [doc EXCEPT ![d] = Source]
    /\ UNCHANGED <<phase, undoing, kept>>

Edit(d) ==
    /\ doc[d] # "human" /\ doc' = [doc EXCEPT ![d] = "human"]
    /\ UNCHANGED <<phase, undoing, kept>>

Stop ==
    /\ Moving /\ phase' = "Conflict"
    /\ UNCHANGED <<undoing, kept, doc>>

\* The human keeps their version and the batch goes on in the same direction.
KeepMine ==
    /\ phase = "Conflict" /\ phase' = IF undoing THEN "Undoing" ELSE "Applying"
    /\ \E mine \in SUBSET Docs :
        /\ Show(mine \ kept, Source)
        /\ kept' = kept \cup mine
    /\ UNCHANGED <<undoing, doc>>

\* The human calls the whole batch off; what it did not reach stays as it is.
RollBack ==
    /\ phase = "Conflict" /\ ~undoing
    /\ phase' = "Undoing" /\ undoing' = TRUE
    /\ \E mine \in SUBSET Docs :
        /\ Show(mine \ kept, "before")
        /\ kept' = kept \cup mine
    /\ UNCHANGED doc

Undo ==
    /\ phase = "Committed" /\ phase' = "Undoing" /\ undoing' = TRUE
    /\ \E mine \in SUBSET Docs :
        /\ \A d \in mine \ kept : doc[d] = "human"
        /\ kept' = kept \cup mine
    /\ UNCHANGED doc

Finish ==
    /\ Moving /\ Show(Docs \ kept, Target)
    /\ phase' = IF undoing THEN "RolledBack" ELSE "Committed"
    /\ UNCHANGED <<undoing, kept, doc>>

Next == \/ Begin \/ Stop \/ KeepMine \/ RollBack \/ Undo \/ Finish
        \/ \E d \in Docs : Arrive(d) \/ Lose(d) \/ Edit(d)

Spec == Init /\ [][Next]_vars

\* A batch that is over holds: Committed, a document left alone shows the version
\* after unless it was kept, which then still shows the version before.
OverHolds == \A d \in Docs :
    /\ phase = "Committed" /\ d \notin kept => doc[d] \in {"after", "human"}
    /\ phase \in {"Applying", "Committed"} /\ d \in kept => doc[d] \in {"before", "human"}
    /\ phase = "RolledBack" /\ d \notin kept => doc[d] \in {"before", "human"}
=============================================================================
