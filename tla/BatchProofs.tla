------------------------------ MODULE BatchProofs ------------------------------
(***************************************************************************)
(* What follows from the promise of Batch, for any set of documents: a     *)
(* batch that is over holds.  The publication implements Batch             *)
(* (PublicationKeepsPromise of PublicationPromise), so it inherits this.   *)
(***************************************************************************)
EXTENDS Batch, TLAPS

\* The direction is the one the phase says, and it turns at most once.
Direction ==
    /\ phase \in {"Open", "Applying", "Committed"} => ~undoing
    /\ phase \in {"Undoing", "RolledBack"} => undoing

\* While the batch has not turned, what was left to the human was never reached.
KeptUnreached == ~undoing => Show(kept, "before")

\* A batch that is over shows its target wherever nothing was left to the human.
Over == phase \in {"Committed", "RolledBack"} => Show(Docs \ kept, Target)

IInv == TypeOK /\ Direction /\ KeptUnreached /\ Over

\* The open batch satisfies IInv.
LEMMA InitIInv == Init => IInv
  BY DEF Init, IInv, TypeOK, Phases, Direction, KeptUnreached, Over, Show

\* Every step of the promise keeps IInv.
LEMMA NextIInv == IInv /\ [Next]_vars => IInv'
  <1> SUFFICES ASSUME IInv, [Next]_vars PROVE IInv'
    OBVIOUS
  <1> USE DEF IInv, TypeOK, Phases, Direction, KeptUnreached, Over, Show, Source, Target, Moving
  <1>1. CASE Begin
    BY <1>1 DEF Begin
  <1>2. CASE Stop
    BY <1>2 DEF Stop
  <1>3. CASE KeepMine
    BY <1>3 DEF KeepMine
  <1>4. CASE RollBack
    BY <1>4 DEF RollBack
  <1>5. CASE Undo
    BY <1>5 DEF Undo
  <1>6. CASE Finish
    BY <1>6 DEF Finish
  <1>7. ASSUME NEW d \in Docs, Arrive(d) \/ Lose(d) PROVE IInv'
    BY <1>7 DEF Arrive, Lose
  <1>8. ASSUME NEW d \in Docs, Edit(d) PROVE IInv'
    BY <1>8 DEF Edit
  <1>9. CASE UNCHANGED vars
    BY <1>9 DEF vars
  <1> QED
    BY <1>1, <1>2, <1>3, <1>4, <1>5, <1>6, <1>7, <1>8, <1>9 DEF Next

\* A batch that is Committed or RolledBack holds: every document not left to the
\* human shows the version of that outcome or the human's, and one left to the human
\* before any turn still shows the version before (what the end of run promises).
THEOREM OutcomeHolds == Spec => []OverHolds
  <1>1. IInv => OverHolds
    BY DEF IInv, TypeOK, Direction, KeptUnreached, Over, OverHolds, Show, Target
  <1> QED
    BY <1>1, InitIInv, NextIInv, PTL DEF Spec
================================================================================
