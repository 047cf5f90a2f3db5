-------------------------------- MODULE Outbox --------------------------------
(***************************************************************************)
(* The outbox of agentd (runtime.rs: record, journal_a_envoyer,            *)
(* journal_recu; bin/prophet-agentd.rs: enregistrer, vider_le_journal,     *)
(* ecrire, relire) and the audit log it sends to (Ledger).                 *)
(*                                                                         *)
(* A command changes a mission and records what it did; the event waits in *)
(* the outbox, which is part of the state agentd saves.  Some commands     *)
(* save under the lock that made the change, some after it is released,    *)
(* and a publication that capd refuses is recorded and not saved at all.   *)
(* Sending is one sender at a time, after each command and every two       *)
(* seconds: it takes a copy of the outbox, sends event after event, gives  *)
(* up after five seconds without an answer, and removes an event once the  *)
(* log has it or refuses it for good.                                      *)
(*                                                                         *)
(* Keys are fresh: here, numbers in the order of the commands.  The outbox *)
(* is in that order too, and is modelled as the set of its keys.           *)
(***************************************************************************)
EXTENDS Ledger

CONSTANT
    QueueMax   \* events that wait for the log at most (JOURNAL_EN_ATTENTE_MAX)

ASSUME OutboxAssumption == /\ IsFiniteSet(Keys) /\ Keys = 1 .. Cardinality(Keys)
                           /\ QueueMax \in Nat \ {0}

VARIABLES
    running, \* agentd is running
    mem,     \* what agentd holds: the outbox, and done, the keys of the changes it knows
    disk,    \* taches.json, the same as last saved
    fresh,   \* the number of the next key
    unsaved, \* commands that have recorded their change and not saved yet
    sending, \* the sender: batch it goes through, slot of its call (or NoCall), and whether any was received
    dropped  \* history: keys given up, because the outbox was full or the log refuses them

ovars == <<running, mem, disk, fresh, unsaved, sending, dropped>>
vars == <<lvars, ovars>>

NoCall == 0
Idle == [batch |-> {}, slot |-> NoCall, received |-> FALSE]
Nothing == [queue |-> {}, done |-> {}]
Oldest(q) == CHOOSE k \in q : \A j \in q : k <= j

-------------------------------------------------------------------------------
(* Commands.                                                               *)

\* Runtime::record: the oldest event goes when the outbox is full.
Overflow == IF Cardinality(mem.queue) >= QueueMax THEN {Oldest(mem.queue)} ELSE {}
\* Mutant: the outbox is not bounded.
RecordedWithoutBound == [queue |-> mem.queue \cup {fresh}, done |-> mem.done \cup {fresh}]
Recorded == [queue |-> (mem.queue \ Overflow) \cup {fresh}, done |-> mem.done \cup {fresh}]

Record ==
    /\ running /\ fresh \in Keys
    /\ mem' = Recorded
    /\ dropped' = dropped \cup Overflow
    /\ fresh' = fresh + 1

\* ecrire: a temporary file, synchronised, renamed over the state.
Saves(m) == disk' = m /\ UNCHANGED faults
SaveFails == Strike("save") /\ UNCHANGED disk

\* task.prepare: the change and the save are under one lock.
RecordAndSave ==
    /\ Record
    /\ Saves(mem') \/ SaveFails
    /\ UNCHANGED <<running, unsaved, sending, files, up, store, call, bus, today>>

\* task.spawn, task.cancel, task.apply: the lock is released, then enregistrer takes it again.
RecordThenSave ==
    /\ Record
    /\ unsaved' = unsaved + 1
    /\ UNCHANGED <<running, disk, sending, lvars>>
Enregistrer ==
    /\ running /\ unsaved > 0
    /\ unsaved' = unsaved - 1
    /\ Saves(mem) \/ SaveFails
    /\ UNCHANGED <<running, mem, fresh, sending, dropped, files, up, store, call, bus, today>>

\* refuser_la_publication: recorded, and left to a later save.
RecordRefusal ==
    /\ Record
    /\ UNCHANGED <<running, disk, unsaved, sending, lvars>>

-------------------------------------------------------------------------------
(* vider_le_journal.                                                       *)

FreeSlots == {c \in Calls : call[c].at = "free"}

TakeBatch ==
    /\ running /\ sending = Idle /\ mem.queue # {}
    /\ sending' = [Idle EXCEPT !.batch = mem.queue]
    /\ UNCHANGED <<running, mem, disk, fresh, unsaved, dropped, lvars>>

SendNext ==
    /\ running /\ sending.batch # {} /\ sending.slot = NoCall
    /\ FreeSlots # {}
    /\ LET c == CHOOSE x \in FreeSlots : TRUE
       IN /\ Ask(c, Oldest(sending.batch))
          /\ sending' = [sending EXCEPT !.slot = c]
    /\ UNCHANGED <<running, mem, disk, fresh, unsaved, dropped>>

\* Mutant: a refusal for good is taken for a failure that may pass, and keeps its event.
ReceivedOrRetried ==
    /\ running /\ sending.slot # NoCall
    /\ call[sending.slot].at = "answered"
    /\ call[sending.slot].result \in {"written", "known", "refused"}
    /\ mem' = IF call[sending.slot].result = "refused" THEN mem
              ELSE [mem EXCEPT !.queue = @ \ {Oldest(sending.batch)}]
    /\ call' = [call EXCEPT ![sending.slot] = FreeCall]
    /\ sending' = IF call[sending.slot].result = "refused" THEN Idle
                  ELSE [batch |-> sending.batch \ {Oldest(sending.batch)}, slot |-> NoCall,
                       received |-> TRUE]
    /\ UNCHANGED <<running, disk, fresh, unsaved, dropped, files, up, store, bus, today, faults>>

\* The log has the event, or refuses it for good: it leaves the outbox.
Received ==
    /\ running /\ sending.slot # NoCall
    /\ call[sending.slot].at = "answered"
    /\ call[sending.slot].result \in {"written", "known", "refused"}
    /\ LET k == Oldest(sending.batch)
       IN /\ mem' = [mem EXCEPT !.queue = @ \ {k}]
          /\ dropped' = IF call[sending.slot].result = "refused" THEN dropped \cup {k} ELSE dropped
    /\ call' = [call EXCEPT ![sending.slot] = FreeCall]
    /\ sending' = [batch |-> sending.batch \ {Oldest(sending.batch)}, slot |-> NoCall,
                       received |-> TRUE]
    /\ UNCHANGED <<running, disk, fresh, unsaved, files, up, store, bus, today, faults>>

\* Mutant: an error is skipped over, and the next event is sent.
SkipOver ==
    /\ running /\ sending.slot # NoCall
    /\ call[sending.slot].at = "answered" /\ call[sending.slot].result = "failed"
    /\ call' = [call EXCEPT ![sending.slot] = FreeCall]
    /\ sending' = [sending EXCEPT !.batch = @ \ {Oldest(@)}, !.slot = NoCall]
    /\ UNCHANGED <<running, mem, disk, fresh, unsaved, dropped, files, up, store, bus, today, faults>>

\* An error that may pass stops the sending.
BreakOff ==
    /\ running /\ sending.slot # NoCall
    /\ call[sending.slot].at = "answered" /\ call[sending.slot].result = "failed"
    /\ call' = [call EXCEPT ![sending.slot] = FreeCall]
    /\ sending' = [Idle EXCEPT !.received = sending.received]
    /\ UNCHANGED <<running, mem, disk, fresh, unsaved, dropped, files, up, store, bus, today, faults>>

\* Five seconds without an answer stop it too: the call goes on without a caller.
Unheard == IF sending.slot = NoCall THEN call
           ELSE [call EXCEPT ![sending.slot].heard = FALSE]
GiveUp ==
    /\ running /\ sending.slot # NoCall
    /\ Strike("timeout")
    /\ call' = Unheard
    /\ sending' = [Idle EXCEPT !.received = sending.received]
    /\ UNCHANGED <<running, mem, disk, fresh, unsaved, dropped, files, up, store, bus, today>>

\* What was received is saved, when anything was; a save that fails is only logged.
SaveReceived ==
    /\ running /\ sending.batch = {} /\ sending.received
    /\ Saves(mem) \/ SaveFails
    /\ sending' = Idle
    /\ UNCHANGED <<running, mem, fresh, unsaved, dropped, files, up, store, call, bus, today>>

-------------------------------------------------------------------------------
(* Stops and starts.                                                       *)

AgentStop ==
    /\ running
    /\ Strike("agent_crash")
    /\ running' = FALSE /\ mem' = Nothing /\ unsaved' = 0 /\ sending' = Idle
    /\ call' = Unheard
    /\ UNCHANGED <<disk, fresh, dropped, files, up, store, bus, today>>

\* Mutant: the events that waited are not taken up again.
AgentStartAfresh ==
    /\ ~running
    /\ running' = TRUE /\ mem' = [disk EXCEPT !.queue = {}] /\ disk' = mem'
    /\ UNCHANGED <<fresh, unsaved, sending, dropped, lvars>>

\* main: relire, reprendre, and the state is written again before the socket opens.
AgentStart ==
    /\ ~running
    /\ running' = TRUE /\ mem' = disk
    /\ UNCHANGED <<disk, fresh, unsaved, sending, dropped, lvars>>

\* The power goes for both services at once.
PowerLoss ==
    /\ PowerCut
    /\ running' = FALSE /\ mem' = Nothing /\ unsaved' = 0 /\ sending' = Idle
    /\ UNCHANGED <<disk, fresh, dropped>>

-------------------------------------------------------------------------------
Init ==
    /\ LedgerInit
    /\ running = TRUE /\ mem = Nothing /\ disk = Nothing
    /\ fresh = 1 /\ unsaved = 0 /\ sending = Idle /\ dropped = {}

Send == TakeBatch \/ SendNext \/ Received \/ BreakOff \/ SaveReceived
Next ==
    \/ (LedgerStep \/ Listen) /\ UNCHANGED ovars
    \/ RecordAndSave \/ RecordThenSave \/ Enregistrer \/ RecordRefusal
    \/ Send \/ GiveUp \/ AgentStop \/ AgentStart

Spec == Init /\ [][Next]_vars
\* The same on a machine that may lose power (AuditPowerLoss.cfg).
PowerSpec == Init /\ [][Next \/ PowerLoss]_vars

\* Both services are restarted when they stop (prophet.nix), the timer of agentd fires every
\* two seconds, a command that has recorded saves, and a call that reached the log is handled.
FairSpec ==
    /\ Spec
    /\ WF_vars(Send) /\ WF_vars(Enregistrer) /\ WF_vars(AgentStart)
    /\ WF_vars(Open /\ UNCHANGED ovars)
    /\ \A c \in Calls : WF_vars(Handle(c) /\ UNCHANGED ovars)

-------------------------------------------------------------------------------
(* Properties.                                                             *)

OutboxStates == [queue : SUBSET Keys, done : SUBSET Keys]

\* The variables have the types of the structures they stand for.
TypeOK ==
    /\ LedgerTypeOK
    /\ running \in BOOLEAN /\ mem \in OutboxStates /\ disk \in OutboxStates
    /\ fresh \in 1 .. Cardinality(Keys) + 1 /\ unsaved \in Nat
    /\ dropped \subseteq Keys
    /\ sending \in [batch : SUBSET Keys, slot : Calls \cup {NoCall}, received : BOOLEAN]
    /\ Cardinality(mem.queue) <= QueueMax

\* A change that agentd has saved has its event in the saved outbox, in the log, or was given
\* up loudly, whatever stops in between (ADR 0059; vider_le_journal, reprendre).
NothingLost == disk.done \subseteq disk.queue \cup InLog \cup dropped

\* The keys of the log in the order of its numbers.
Trail ==
    LET n == Cardinality(EventPlaces)
        Rank(p) == Cardinality({q \in EventPlaces : SortsBefore(q, p)}) + 1
    IN [i \in 1 .. n |-> Piece(CHOOSE p \in EventPlaces : Rank(p) = i).event.key]

\* agentd and the log together are an audit trail: one event per change, in the order of the
\* changes, never taken back (AuditTrail).
Abstract == INSTANCE AuditTrail WITH done <- disk.done, trail <- Trail, given <- dropped
TrailKept == Abstract!Spec

\* Again and again, every change saved so far is in the log or was given up (ADR 0059: "a log
\* stopped, then started again, receives what happened in between").
Delivered == []<>(disk.done \subseteq InLog \cup dropped)
===============================================================================
