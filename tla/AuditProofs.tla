----------------------------- MODULE AuditProofs ------------------------------
(***************************************************************************)
(* Proofs about the audit log and the outbox of agentd.  For any number of *)
(* events, calls, restarts, time-outs and failed saves, and any clock: the *)
(* log holds an event once, its chain is verified, its queries find every  *)
(* event and its subscribers see each number once; a saved change is never *)
(* lost, and agentd and the log keep the trail that AuditTrail promises.   *)
(*                                                                         *)
(* All of it needs that no write of the log fails: the assumption Sound.   *)
(* LedgerDisk.cfg shows what is lost without it.  The chain needs that the *)
(* service stops with its events in the order of the files, OrderedStops:  *)
(* LedgerMidnight.cfg shows the stop that breaks it.  Losses of power are  *)
(* no part of Spec: AuditPowerLoss.cfg shows what they take.               *)
(***************************************************************************)
EXTENDS Outbox, TLAPS, SequenceTheorems, FiniteSetTheorems

Sound == "disk" \notin Faults

\* What a call tells: its record has the fields of its step, and once its event is written,
\* its key is in the log.
CallTells(r, log) ==
    /\ "at" \in DOMAIN r
    /\ r.at \in {"free", "waiting", "sealing", "publishing", "answered"}
    /\ r.at # "free" => {"key", "heard"} \subseteq DOMAIN r
    /\ r.at = "waiting" => "day" \in DOMAIN r /\ r.day \in Days
    /\ r.at \in {"sealing", "publishing"} => r.key \in log
    /\ r.at = "answered" => /\ "result" \in DOMAIN r
                            /\ r.result \in {"written", "known"} => r.key \in log

\* The files are sequences of pieces, the memory is a record, the calls are a table.
Shape ==
    /\ \E S : files \in [Days -> Seq(S)]
    /\ DOMAIN store = {"next", "head", "index", "idems", "firsts", "since"}
    /\ today \in Days
    /\ \E S : call \in [Calls -> S]

\* The strengthening of WrittenOnce: a running service has indexed the key of every event,
\* and the calls tell of events that are in the log.
LogInv ==
    /\ Shape
    /\ \A c \in Calls : CallTells(call[c], InLog)
    /\ WrittenOnce
    /\ up => DOMAIN store.idems = InLog

-------------------------------------------------------------------------------
\* A piece that is put adds one place, and changes no other.
LEMMA PutAddsOnePlace ==
    ASSUME NEW day, NEW e, NEW json, NEW end, PutPiece(day, e, json, end),
           NEW S, files \in [Days -> Seq(S)]
    PROVE  /\ \E T : files' \in [Days -> Seq(T)]
           /\ \A p \in Places : p \in Places' /\ Piece(p)' = Piece(p)
           /\ \A p \in Places' \ Places : /\ p = <<day, Len(files[day]) + 1>>
                                          /\ Piece(p)' = [event |-> e, json |-> json, end |-> end]
<1> DEFINE piece == [event |-> e, json |-> json, end |-> end]
           T == S \cup {piece}
           old == files[day]
<1>1. files' = [files EXCEPT ![day] = Append(old, piece)]
  BY DEF PutPiece
<1>2. \A d \in Days : files[d] \in Seq(T)
  <2> TAKE d \in Days
  <2>1. files[d] \in Seq(S) OBVIOUS
  <2>2. \A i \in 1 .. Len(files[d]) : files[d][i] \in T
    BY <2>1, ElementOfSeq
  <2> QED BY <2>1, <2>2, IsASeq, LenProperties
<1>3. ASSUME day \in Days
      PROVE  /\ Append(old, piece) \in Seq(T)
             /\ Len(old) \in Nat
             /\ Len(Append(old, piece)) = Len(old) + 1
             /\ \A i \in 1 .. Len(old) : Append(old, piece)[i] = old[i]
             /\ Append(old, piece)[Len(old) + 1] = piece
  <2>1. old \in Seq(T) BY <1>2, <1>3
  <2>2. piece \in T OBVIOUS
  <2> HIDE DEF T, piece, old
  <2> QED BY <2>1, <2>2, AppendProperties, LenProperties
<1> HIDE DEF T, piece
<1>4. files' \in [Days -> Seq(T)]
  BY <1>1, <1>2, <1>3
<1>5. \A d \in Days : d # day => files'[d] = files[d]
  BY <1>1
<1>6. day \in Days => files'[day] = Append(old, piece)
  BY <1>1
<1>7. ASSUME NEW p \in Places PROVE p \in Places' /\ Piece(p)' = Piece(p)
  <2>0. PICK d \in Days : \E j \in 1 .. Len(files[d]) : p = <<d, j>>
    BY <1>7 DEF Places
  <2>1. PICK i \in 1 .. Len(files[d]) : p = <<d, i>>
    BY <2>0
  <2>2. i \in 1 .. Len(files'[d]) /\ files'[d][i] = files[d][i]
    <3>1. CASE d = day BY <3>1, <1>3, <1>6, <2>1
    <3>2. CASE d # day BY <3>2, <1>5
    <3> QED BY <3>1, <3>2
  <2> QED BY <2>1, <2>2 DEF Places, Piece
<1>8. ASSUME NEW p \in Places', p \notin Places
      PROVE  p = <<day, Len(old) + 1>> /\ Piece(p)' = piece
  <2>0. PICK d \in Days : \E j \in 1 .. Len(files'[d]) : p = <<d, j>>
    BY <1>8 DEF Places
  <2>1. PICK i \in 1 .. Len(files'[d]) : p = <<d, i>>
    BY <2>0
  <2>2. i \notin 1 .. Len(files[d])
    BY <2>1, <1>8 DEF Places
  <2>3. d = day BY <2>1, <2>2, <1>5
  <2>4. i = Len(old) + 1 BY <2>1, <2>2, <2>3, <1>3, <1>6
  <2> QED BY <2>1, <2>3, <2>4, <1>3, <1>6 DEF Piece
<1> QED BY <1>4, <1>7, <1>8 DEF piece

\* A seal adds no event; an event adds its key.
LEMMA PutTellsOneKey ==
    ASSUME NEW day, NEW e, PutPiece(day, e, TRUE, TRUE), Shape, WrittenOnce,
           ~e.seal => e.key \notin InLog
    PROVE  /\ \E S : files' \in [Days -> Seq(S)]
           /\ WrittenOnce'
           /\ InLog \subseteq InLog'
           /\ InLog' \subseteq InLog \cup (IF e.seal THEN {} ELSE {e.key})
           /\ ~e.seal => e.key \in InLog' \/ day \notin Days
<1>1. PICK S : files \in [Days -> Seq(S)] BY DEF Shape
<1>0. PICK new : new = <<day, Len(files[day]) + 1>>
  OBVIOUS
<1> DEFINE piece == [event |-> e, json |-> TRUE, end |-> TRUE]
<1>2. /\ \E T : files' \in [Days -> Seq(T)]
      /\ \A p \in Places : p \in Places' /\ Piece(p)' = Piece(p)
      /\ \A p \in Places' \ Places : p = new /\ Piece(p)'.event = e
  <2>1. piece.event = e OBVIOUS
  <2>2. \A p \in Places' \ Places : p = new /\ Piece(p)' = piece
    BY <1>0, <1>1, PutAddsOnePlace
  <2> QED BY <1>1, <2>1, <2>2, PutAddsOnePlace
<1>3. \A p \in EventPlaces : p \in EventPlaces' /\ Piece(p)'.event.key = Piece(p).event.key
  BY <1>2 DEF EventPlaces
<1>4. \A p \in EventPlaces' \ EventPlaces :
          p = new /\ ~e.seal /\ Piece(p)'.event.key = e.key
  BY <1>2 DEF EventPlaces
<1>5. \A p \in EventPlaces : Piece(p).event.key \in InLog
  BY DEF InLog
<1>6. WrittenOnce'
  BY <1>3, <1>4, <1>5 DEF WrittenOnce
<1>7. InLog \subseteq InLog'
  BY <1>3 DEF InLog
<1>8. InLog' \subseteq InLog \cup (IF e.seal THEN {} ELSE {e.key})
  BY <1>3, <1>4 DEF InLog
<1>9. ASSUME ~e.seal, day \in Days PROVE e.key \in InLog'
  <2>1. /\ Len(files[day]) \in Nat
        /\ files'[day] = Append(files[day], [event |-> e, json |-> TRUE, end |-> TRUE])
    BY <1>1, <1>9, LenProperties DEF PutPiece
  <2>2. Len(files'[day]) = Len(files[day]) + 1
    BY <1>1, <1>9, <2>1
  <2>3. new \in Places'
    BY <1>0, <1>9, <2>1, <2>2 DEF Places
  <2>4. new \notin Places
    BY <1>0, <2>1 DEF Places
  <2>5. Piece(new)'.event = e
    BY <1>2, <2>3, <2>4
  <2>6. new \in EventPlaces'
    BY <1>9, <2>3, <2>5 DEF EventPlaces
  <2> QED BY <2>5, <2>6 DEF InLog
<1> QED BY <1>2, <1>6, <1>7, <1>8, <1>9

\* What the files tell does not change while they do not.
LEMMA FilesAlone ==
    ASSUME UNCHANGED files
    PROVE  InLog' = InLog /\ WrittenOnce' = WrittenOnce
BY DEF InLog, WrittenOnce, EventPlaces, Places, Piece

\* A call whose caller still listens keeps its key and its caller until the caller reads it.
CallKept(c) == call[c].at # "free" /\ call[c].heard => /\ call'[c].at # "free"
                                                       /\ call'[c].heard
                                                       /\ call'[c].key = call[c].key

\* A step on one call keeps what the other calls tell.
LEMMA OneCallMoves ==
    ASSUME NEW c \in Calls, NEW r, NEW log, NEW log2,
           call' = [call EXCEPT ![c] = r], \E S : call \in [Calls -> S],
           \A d \in Calls : CallTells(call[d], log),
           log \subseteq log2, CallTells(r, log2)
    PROVE  /\ \E S : call' \in [Calls -> S]
           /\ \A d \in Calls : CallTells(call'[d], log2)
           /\ call'[c] = r
           /\ \A d \in Calls : d # c => call'[d] = call[d]
<1>1. PICK S : call \in [Calls -> S] OBVIOUS
<1>2. call' \in [Calls -> S \cup {r}] BY <1>1
<1>3. call'[c] = r BY <1>1
<1>4. \A d \in Calls : d # c => call'[d] = call[d] BY <1>1
<1>5. \A d \in Calls : CallTells(call[d], log2) BY DEF CallTells
<1> QED BY <1>2, <1>3, <1>4, <1>5

\* The steps of ledger.append that write nothing.
LEMMA QuietStep ==
    ASSUME LogInv, NEW c \in Calls, Known(c) \/ Refuse(c) \/ Publish(c) \/ Hang(c)
    PROVE  LogInv' /\ InLog' = InLog /\ \A d \in Calls : CallKept(d)
<1>1. UNCHANGED files /\ UNCHANGED <<up, store, today>>
  BY DEF Known, Refuse, Publish, Hang
<1>2. InLog' = InLog /\ WrittenOnce' = WrittenOnce
  BY <1>1, FilesAlone
<1>3. PICK r : /\ call' = [call EXCEPT ![c] = r]
               /\ CallTells(r, InLog)
               /\ r = FreeCall => call[c].heard = FALSE \/ ~call[c].heard
               /\ r # FreeCall => r.at # "free" /\ r.key = call[c].key /\ r.heard = call[c].heard
  <2>1. CASE Known(c) \/ Refuse(c) \/ (Publish(c) /\ Answer(c, "written"))
    <3>1. PICK result : /\ Answer(c, result)
                        /\ result \in {"written", "known"} => call[c].key \in InLog
      <4>1. CASE Known(c) BY <4>1 DEF Known, LogInv
      <4>2. CASE Refuse(c) BY <4>2 DEF Refuse
      <4>3. CASE Publish(c) /\ Answer(c, "written")
        <5>1. call[c].key \in InLog BY <4>3 DEF Publish, LogInv, CallTells
        <5> QED BY <4>3, <5>1
      <4> QED BY <2>1, <4>1, <4>2, <4>3
    <3> DEFINE r == [at |-> "answered", key |-> call[c].key, heard |-> call[c].heard,
                     result |-> result]
    <3>2. CallTells(r, InLog) BY <3>1 DEF CallTells
    <3>3. r # FreeCall BY DEF FreeCall
    <3>4. call' = [call EXCEPT ![c] = r] BY <3>1 DEF Answer
    <3>5. r.at # "free" /\ r.key = call[c].key /\ r.heard = call[c].heard
      OBVIOUS
    <3> HIDE DEF r
    <3> QED BY <3>2, <3>3, <3>4, <3>5
  <2>2. CASE Hang(c)
    <3>1. CallTells(FreeCall, InLog) BY DEF CallTells, FreeCall
    <3> QED BY <2>2, <3>1 DEF Hang
  <2>3. CASE Publish(c) /\ Publishing(c, Tail(call[c].numbers))
    <3>1. PICK s : Publishing(c, s) BY <2>3
    <3> DEFINE r == [at |-> "publishing", key |-> call[c].key, heard |-> call[c].heard,
                     numbers |-> s]
    <3>2. CallTells(r, InLog) BY <2>3 DEF CallTells, Publish, LogInv
    <3>3. r # FreeCall /\ r.at # "free" BY DEF FreeCall
    <3>4. call' = [call EXCEPT ![c] = r] BY <3>1 DEF Publishing
    <3>5. r.key = call[c].key /\ r.heard = call[c].heard OBVIOUS
    <3> HIDE DEF r
    <3> QED BY <3>2, <3>3, <3>4, <3>5
  <2> QED BY <2>1, <2>2, <2>3 DEF Publish
<1>4. /\ \E S : call' \in [Calls -> S]
      /\ \A d \in Calls : CallTells(call'[d], InLog)
      /\ call'[c] = r
      /\ \A d \in Calls : d # c => call'[d] = call[d]
  BY <1>3, OneCallMoves DEF LogInv, Shape
<1>5. LogInv'
  BY <1>1, <1>2, <1>4 DEF LogInv, Shape
<1>6. \A d \in Calls : CallKept(d)
  BY <1>3, <1>4 DEF CallKept
<1> QED BY <1>2, <1>5, <1>6

\* What Remembered indexes.
LEMMA RememberedKeys ==
    ASSUME Shape, NEW day, NEW e
    PROVE  /\ DOMAIN Remembered(day, e) = DOMAIN store
           /\ DOMAIN Remembered(day, e).idems =
                DOMAIN store.idems \cup (IF e.seal THEN {} ELSE {e.key})
BY DEF Remembered, Shape, With

\* With Sound, no write fails.
LEMMA NoStrike ==
    ASSUME Sound
    PROVE  ~Strike("disk")
BY DEF Sound, Strike

\* The steps that write: the event itself, and the seal after it.
LEMMA AppendStep ==
    ASSUME Sound, LogInv, NEW c \in Calls, AppendEvent(c)
    PROVE  LogInv' /\ InLog \subseteq InLog' /\ \A d \in Calls : CallKept(d)
<1>1. PICK e : e = EventAtHead(call[c].key, FALSE) OBVIOUS
<1>2. PICK r : r = [at |-> "sealing", key |-> call[c].key, heard |-> call[c].heard, seq |-> e.seq]
  OBVIOUS
<1>3. PICK day : day = call[c].day OBVIOUS
<1>4. /\ PutPiece(day, e, TRUE, TRUE)
      /\ store' = Remembered(day, e)
      /\ call' = [call EXCEPT ![c] = r]
      /\ UNCHANGED <<up, today>> /\ up
  <2>1. ~WriteFails(call[c].day, EventAtHead(call[c].key, FALSE))
    BY NoStrike DEF WriteFails
  <2> QED BY <1>1, <1>2, <1>3, <2>1 DEF AppendEvent
<1>5. ~e.seal /\ e.key = call[c].key
  BY <1>1 DEF EventAtHead
<1>6. call[c].key \notin DOMAIN store.idems /\ call[c].at = "waiting"
  BY DEF AppendEvent
<1>7. day \in Days /\ e.key \notin InLog
  BY <1>3, <1>4, <1>5, <1>6 DEF LogInv, CallTells
<1>8. /\ \E S : files' \in [Days -> Seq(S)]
      /\ WrittenOnce'
      /\ InLog \subseteq InLog'
      /\ InLog' = InLog \cup {e.key}
  BY <1>4, <1>5, <1>7, PutTellsOneKey DEF LogInv
<1>9. CallTells(r, InLog')
  BY <1>2, <1>5, <1>8 DEF CallTells
<1>10. /\ \E S : call' \in [Calls -> S]
       /\ \A d \in Calls : CallTells(call'[d], InLog')
       /\ call'[c] = r
       /\ \A d \in Calls : d # c => call'[d] = call[d]
  <2>1. PICK log : log = InLog OBVIOUS
  <2>2. PICK log2 : log2 = InLog' OBVIOUS
  <2>3. \A d \in Calls : CallTells(call[d], log)
    BY <2>1 DEF LogInv
  <2>4. \E S : call \in [Calls -> S] BY DEF LogInv, Shape
  <2>5. log \subseteq log2 /\ CallTells(r, log2)
    BY <1>8, <1>9, <2>1, <2>2
  <2>6. call' = [call EXCEPT ![c] = r] BY <1>4
  <2> QED BY <2>2, <2>3, <2>4, <2>5, <2>6, OneCallMoves
<1>11. /\ DOMAIN store' = DOMAIN store
       /\ DOMAIN store'.idems = DOMAIN store.idems \cup {e.key}
  BY <1>4, <1>5, RememberedKeys DEF LogInv
<1>12. LogInv'
  BY <1>4, <1>8, <1>10, <1>11 DEF LogInv, Shape
<1>13. \A d \in Calls : CallKept(d)
  BY <1>2, <1>10 DEF CallKept
<1> QED BY <1>8, <1>12, <1>13

LEMMA SealStep ==
    ASSUME Sound, LogInv, NEW c \in Calls, MaybeSeal(c)
    PROVE  LogInv' /\ InLog \subseteq InLog' /\ \A d \in Calls : CallKept(d)
<1>1. /\ DOMAIN store' = DOMAIN store
      /\ DOMAIN store'.idems = DOMAIN store.idems
      /\ \E S : files' \in [Days -> Seq(S)]
      /\ WrittenOnce' /\ InLog' = InLog
      /\ UNCHANGED <<up, today>>
      /\ \E numbers : Publishing(c, numbers)
  <2>1. CASE UNCHANGED <<files, store>> /\ \E numbers : Publishing(c, numbers)
    BY <2>1, FilesAlone DEF LogInv, Shape, MaybeSeal
  <2>2. ASSUME NEW e, e = EventAtHead(NoKey, TRUE),
               PutPiece(today, e, TRUE, TRUE),
               store' = [Remembered(today, e) EXCEPT !.since = 0],
               \E numbers : Publishing(c, numbers)
        PROVE  <1>1!1 /\ <1>1!2 /\ <1>1!3 /\ <1>1!4 /\ <1>1!5 /\ <1>1!6
    <3>1. e.seal BY <2>2 DEF EventAtHead
    <3>2. /\ \E S : files' \in [Days -> Seq(S)]
          /\ WrittenOnce' /\ InLog' = InLog
      BY <2>2, <3>1, PutTellsOneKey DEF LogInv
    <3>3. /\ DOMAIN Remembered(today, e) = DOMAIN store
          /\ DOMAIN Remembered(today, e).idems = DOMAIN store.idems
      BY <3>1, RememberedKeys DEF LogInv
    <3>4. DOMAIN store' = DOMAIN store /\ store'.idems = Remembered(today, e).idems
      BY <2>2, <3>3 DEF LogInv, Shape
    <3> QED BY <2>2, <3>2, <3>3, <3>4 DEF MaybeSeal
  <2>3. ~WriteFails(today, EventAtHead(NoKey, TRUE))
    BY NoStrike DEF WriteFails
  <2> QED BY <2>1, <2>2, <2>3 DEF MaybeSeal
<1>2. PICK numbers : Publishing(c, numbers) BY <1>1
<1>3. PICK r : r = [at |-> "publishing", key |-> call[c].key, heard |-> call[c].heard,
                    numbers |-> numbers]
  OBVIOUS
<1>4. call' = [call EXCEPT ![c] = r] BY <1>2, <1>3 DEF Publishing
<1>5. CallTells(r, InLog)
  BY <1>3 DEF CallTells, LogInv, MaybeSeal
<1>6. /\ \E S : call' \in [Calls -> S]
      /\ \A d \in Calls : CallTells(call'[d], InLog)
      /\ call'[c] = r
      /\ \A d \in Calls : d # c => call'[d] = call[d]
  BY <1>4, <1>5, OneCallMoves DEF LogInv, Shape
<1>7. LogInv' BY <1>1, <1>6 DEF LogInv, Shape
<1>8. \A d \in Calls : CallKept(d) BY <1>3, <1>6 DEF CallKept
<1> QED BY <1>1, <1>7, <1>8

\* Stops, starts, the clock, and the callers.
LEMMA StopStep ==
    ASSUME LogInv, Stop
    PROVE  LogInv' /\ InLog' = InLog /\ \A d \in Calls : CallKept(d)
<1>1. UNCHANGED files /\ ~up' /\ store' = FreshStore /\ call' = Cut /\ today' = today
  BY DEF Stop
<1>2. InLog' = InLog /\ WrittenOnce' = WrittenOnce
  BY <1>1, FilesAlone
<1>3. \E S : call' \in [Calls -> S]
  <2>1. call' \in [Calls -> {call'[c] : c \in Calls}]
    BY <1>1 DEF Cut
  <2> QED BY <2>1
<1>4. ASSUME NEW c \in Calls PROVE CallTells(call'[c], InLog) /\ CallKept(c)
  <2>1. CallTells(call[c], InLog) BY DEF LogInv
  <2>2. CASE call[c].at \in {"free", "answered"}
    <3>1. call'[c] = call[c] BY <1>1, <2>2 DEF Cut
    <3> QED BY <2>1, <3>1 DEF CallKept
  <2>3. CASE call[c].at \notin {"free", "answered"}
    <3>1. call'[c] = [at |-> "answered", key |-> call[c].key, heard |-> call[c].heard,
                      result |-> "failed"]
      BY <1>1, <2>3 DEF Cut
    <3> QED BY <3>1 DEF CallKept, CallTells
  <2> QED BY <2>2, <2>3
<1> QED BY <1>1, <1>2, <1>3, <1>4 DEF LogInv, Shape, FreshStore

LEMMA OpenStep ==
    ASSUME LogInv, Open
    PROVE  LogInv' /\ InLog' = InLog /\ \A d \in Calls : CallKept(d)
<1>1. UNCHANGED <<files, call, today>> /\ store' = Rebuilt
  BY DEF Open
<1>2. InLog' = InLog /\ WrittenOnce' = WrittenOnce
  BY <1>1, FilesAlone
<1>3. /\ DOMAIN store' = {"next", "head", "index", "idems", "firsts", "since"}
      /\ DOMAIN store'.idems = InLog
  <2>1. CASE Places = {}
    <3>1. InLog = {} BY <2>1 DEF InLog, EventPlaces
    <3> QED BY <1>1, <2>1, <3>1 DEF Rebuilt, FreshStore, Empty
  <2>2. CASE Places # {}
    BY <1>1, <2>2 DEF Rebuilt, InLog, EventPlaces
  <2> QED BY <2>1, <2>2
<1> QED BY <1>1, <1>2, <1>3 DEF LogInv, Shape, CallKept

LEMMA ClockStep ==
    ASSUME LogInv, Midnight \/ SetBack
    PROVE  LogInv' /\ InLog' = InLog /\ \A d \in Calls : CallKept(d)
<1>1. UNCHANGED <<files, up, store, call>> /\ today' \in Days
  BY DEF Midnight, SetBack
<1>2. InLog' = InLog /\ WrittenOnce' = WrittenOnce
  BY <1>1, FilesAlone
<1> QED BY <1>1, <1>2 DEF LogInv, Shape, CallKept

\* Every step of the service.
LEMMA LedgerStepKeeps ==
    ASSUME Sound, LogInv, LedgerStep
    PROVE  LogInv' /\ InLog \subseteq InLog' /\ \A d \in Calls : CallKept(d)
BY QuietStep, AppendStep, SealStep, StopStep, OpenStep, ClockStep DEF LedgerStep, Handle

\* A caller that only touches its call: what it puts there is free, or tells no more than before.
LEMMA CallerStep ==
    ASSUME LogInv, UNCHANGED <<files, up, store, today>>,
           \/ call' = call
           \/ \E c \in Calls : \E r : call' = [call EXCEPT ![c] = r] /\ CallTells(r, InLog)
    PROVE  LogInv' /\ InLog' = InLog
<1>1. InLog' = InLog /\ WrittenOnce' = WrittenOnce
  BY FilesAlone
<1>2. (\E S : call' \in [Calls -> S]) /\ \A d \in Calls : CallTells(call'[d], InLog)
  <2>1. CASE call' = call BY <2>1 DEF LogInv, Shape
  <2>2. CASE \E c \in Calls : \E r : call' = [call EXCEPT ![c] = r] /\ CallTells(r, InLog)
    BY <2>2, OneCallMoves DEF LogInv, Shape
  <2> QED BY <2>1, <2>2
<1> QED BY <1>1, <1>2 DEF LogInv, Shape

LEMMA AskTells ==
    ASSUME LogInv, NEW c \in Calls, NEW k, Ask(c, k)
    PROVE  /\ LogInv' /\ InLog' = InLog
           /\ call'[c].at # "free" /\ call'[c].heard /\ call'[c].key = k
           /\ \A d \in Calls : CallKept(d)
<1>1. PICK r : /\ call' = [call EXCEPT ![c] = r]
               /\ CallTells(r, InLog)
               /\ r.at # "free" /\ r.heard /\ r.key = k
  <2>1. CASE up
    <3> DEFINE r == [at |-> "waiting", key |-> k, heard |-> TRUE, day |-> today]
    <3>1. CallTells(r, InLog) BY DEF CallTells, LogInv, Shape
    <3>2. call' = [call EXCEPT ![c] = r] BY <2>1 DEF Ask
    <3>3. r.at # "free" /\ r.heard /\ r.key = k OBVIOUS
    <3> HIDE DEF r
    <3> QED BY <3>1, <3>2, <3>3
  <2>2. CASE ~up
    <3> DEFINE r == [at |-> "answered", key |-> k, heard |-> TRUE, result |-> "failed"]
    <3>1. CallTells(r, InLog) BY DEF CallTells
    <3>2. call' = [call EXCEPT ![c] = r] BY <2>2 DEF Ask
    <3>3. r.at # "free" /\ r.heard /\ r.key = k OBVIOUS
    <3> HIDE DEF r
    <3> QED BY <3>1, <3>2, <3>3
  <2> QED BY <2>1, <2>2
<1>2. call'[c] = r /\ \A d \in Calls : d # c => call'[d] = call[d]
  BY <1>1, OneCallMoves DEF LogInv, Shape
<1>3. LogInv' /\ InLog' = InLog
  BY <1>1, CallerStep DEF Ask
<1>4. \A d \in Calls : CallKept(d)
  BY <1>1, <1>2 DEF CallKept, Ask
<1> QED BY <1>1, <1>2, <1>3, <1>4

-------------------------------------------------------------------------------
LEMMA LogInvInit ==
    ASSUME LedgerInit
    PROVE  LogInv
<1>1. Places = {}
  BY DEF LedgerInit, Places
<1>2. InLog = {} /\ WrittenOnce
  BY <1>1 DEF InLog, WrittenOnce, EventPlaces
<1>3. files \in [Days -> Seq({})] /\ today \in Days
  BY EmptySeq DEF LedgerInit
<1>4. call \in [Calls -> {FreeCall}] /\ \A c \in Calls : CallTells(call[c], InLog)
  BY DEF LedgerInit, CallTells, FreeCall
<1> QED BY <1>2, <1>3, <1>4 DEF LogInv, Shape, LedgerInit, FreshStore, Empty

\* An event is written once, whatever a client of the log sends again, and whenever the log
\* restarts (Store::append, rebuild_index).
THEOREM LedgerWritesOnce == ASSUME Sound PROVE LedgerSpec => []WrittenOnce
<1>1. LedgerInit => LogInv BY LogInvInit
<1>2. LogInv /\ [LedgerNext]_lvars => LogInv'
  <2> SUFFICES ASSUME LogInv, [LedgerNext]_lvars PROVE LogInv'
    OBVIOUS
  <2>1. CASE LedgerStep BY <2>1, LedgerStepKeeps
  <2>2. ASSUME NEW c \in Calls, Leave(c) PROVE LogInv'
    <3>1. PICK r : r = [call[c] EXCEPT !.heard = FALSE] OBVIOUS
    <3>2. CallTells(call[c], InLog) BY DEF LogInv
    <3>3. CallTells(r, InLog) BY <3>1, <3>2 DEF CallTells
    <3>4. call' = [call EXCEPT ![c] = r] BY <2>2, <3>1 DEF Leave
    <3> QED BY <2>2, <3>3, <3>4, CallerStep DEF Leave
  <2>3. ASSUME NEW c \in Calls, Collect(c) PROVE LogInv'
    <3>1. CallTells(FreeCall, InLog) BY DEF CallTells, FreeCall
    <3> QED BY <2>3, <3>1, CallerStep DEF Collect
  <2>4. ASSUME NEW c \in Calls, NEW k \in Keys, Ask(c, k) PROVE LogInv'
    BY <2>4, AskTells
  <2>5. CASE UNCHANGED lvars BY <2>5, CallerStep DEF lvars
  <2> QED BY <2>1, <2>2, <2>3, <2>4, <2>5 DEF LedgerNext
<1>3. LogInv => WrittenOnce BY DEF LogInv
<1> QED BY <1>1, <1>2, <1>3, PTL DEF LedgerSpec

-------------------------------------------------------------------------------
(* The outbox.                                                             *)

\* What agentd knows is told, waiting or given up.
Accounted(m) == m.done \subseteq m.queue \cup InLog \cup dropped

\* The strengthening of NothingLost: what agentd holds is accounted for as well, and the call
\* it waits for is the one that carries the oldest event of its batch.
OutboxInv ==
    /\ LogInv
    /\ mem \in OutboxStates /\ disk \in OutboxStates
    /\ running => Accounted(mem)
    /\ Accounted(disk)
    /\ sending.slot # NoCall =>
          /\ sending.slot \in Calls
          /\ call[sending.slot].at # "free"
          /\ call[sending.slot].heard
          /\ call[sending.slot].key = Oldest(sending.batch)

\* The call the outbox waits for, after a step that keeps its caller.
LEMMA SenderKept ==
    ASSUME OutboxInv, sending' = sending, \A d \in Calls : CallKept(d)
    PROVE  sending'.slot # NoCall =>
              /\ sending'.slot \in Calls
              /\ call'[sending'.slot].at # "free"
              /\ call'[sending'.slot].heard
              /\ call'[sending'.slot].key = Oldest(sending'.batch)
BY DEF OutboxInv, CallKept

\* What is accounted for stays so when the log and what was given up only grow.
LEMMA AccountedStays ==
    ASSUME InLog \subseteq InLog', dropped \subseteq dropped'
    PROVE  \A m : Accounted(m) => m.done \subseteq m.queue \cup InLog' \cup dropped'
BY DEF Accounted

\* A command: what it records waits, and what falls out of a full outbox is given up.
LEMMA RecordAccounts ==
    ASSUME OutboxInv, Record, UNCHANGED files
    PROVE  /\ mem' \in OutboxStates /\ Accounted(mem)'
           /\ InLog' = InLog /\ dropped \subseteq dropped'
<1>1. InLog' = InLog BY FilesAlone
<1>2. mem' = [queue |-> (mem.queue \ Overflow) \cup {fresh}, done |-> mem.done \cup {fresh}]
  BY DEF Record, Recorded
<1>3. fresh \in Keys /\ dropped' = dropped \cup Overflow /\ running
  BY DEF Record
<1>4. mem' \in OutboxStates
  BY <1>2, <1>3 DEF OutboxInv, OutboxStates
<1>5. Accounted(mem)' BY <1>1, <1>2, <1>3 DEF OutboxInv, Accounted
<1> QED BY <1>1, <1>3, <1>4, <1>5

LEMMA CommandStep ==
    ASSUME OutboxInv, RecordAndSave \/ RecordThenSave \/ RecordRefusal
    PROVE  OutboxInv'
<1>1. /\ Record /\ UNCHANGED <<running, sending, files, up, store, call, today>>
      /\ disk' = mem' \/ disk' = disk
  BY DEF RecordAndSave, RecordThenSave, RecordRefusal, Saves, SaveFails, lvars
<1>2. /\ mem' \in OutboxStates /\ Accounted(mem)'
      /\ InLog' = InLog /\ dropped \subseteq dropped'
  BY <1>1, RecordAccounts
<1>3. LogInv' BY <1>1, CallerStep DEF OutboxInv
<1>4. disk' \in OutboxStates /\ Accounted(disk)'
  <2>1. CASE disk' = mem' BY <1>2, <2>1 DEF Accounted
  <2>2. CASE disk' = disk BY <1>2, <2>2, AccountedStays DEF OutboxInv, Accounted
  <2> QED BY <1>1, <2>1, <2>2
<1> QED BY <1>1, <1>2, <1>3, <1>4 DEF OutboxInv

\* The log moves, and agentd does not.
LEMMA LogMoves ==
    ASSUME Sound, OutboxInv, LedgerStep, UNCHANGED ovars
    PROVE  OutboxInv'
<1>1. LogInv' /\ InLog \subseteq InLog' /\ \A d \in Calls : CallKept(d)
  BY LedgerStepKeeps DEF OutboxInv
<1>2. UNCHANGED <<running, mem, disk, sending, dropped>> BY DEF ovars
<1>3. (running => Accounted(mem))' /\ Accounted(disk)'
  BY <1>1, <1>2, AccountedStays DEF OutboxInv, Accounted
<1>4. sending'.slot # NoCall =>
              /\ sending'.slot \in Calls
              /\ call'[sending'.slot].at # "free"
              /\ call'[sending'.slot].heard
              /\ call'[sending'.slot].key = Oldest(sending'.batch)
  BY <1>1, <1>2, SenderKept
<1> QED BY <1>1, <1>2, <1>3, <1>4 DEF OutboxInv

\* A subscriber that comes, or reads, moves nothing else.
LEMMA ListenMoves ==
    ASSUME Listen
    PROVE  UNCHANGED <<files, up, store, call, today>>
BY DEF Listen, Subscribe, Receive

LEMMA ListenStep ==
    ASSUME OutboxInv, Listen, UNCHANGED ovars
    PROVE  OutboxInv'
<1>1. UNCHANGED <<files, up, store, call, today>> BY ListenMoves
<1>2. UNCHANGED <<running, mem, disk, sending, dropped>> BY DEF ovars
<1>3. LogInv' /\ InLog' = InLog BY <1>1, CallerStep DEF OutboxInv
<1> QED BY <1>1, <1>2, <1>3 DEF OutboxInv, Accounted

\* Steps of agentd that leave the log and its calls alone.
LEMMA SaveStep ==
    ASSUME OutboxInv, Enregistrer \/ TakeBatch \/ SaveReceived \/ AgentStart \/ UNCHANGED vars
    PROVE  OutboxInv'
<1>1. /\ UNCHANGED <<files, up, store, call, today, dropped>>
      /\ sending' = sending \/ sending'.slot = NoCall
      /\ \/ mem' = mem /\ running' = running
         \/ mem' = disk
      /\ disk' = disk \/ (disk' = mem /\ running)
  <2>1. CASE Enregistrer BY <2>1 DEF Enregistrer, Saves, SaveFails
  <2>2. CASE TakeBatch BY <2>2 DEF TakeBatch, lvars, Idle
  <2>3. CASE SaveReceived BY <2>3 DEF SaveReceived, Saves, SaveFails, Idle
  <2>4. CASE AgentStart BY <2>4 DEF AgentStart, lvars
  <2>5. CASE UNCHANGED vars BY <2>5 DEF vars, lvars, ovars
  <2> QED BY <2>1, <2>2, <2>3, <2>4, <2>5
<1>2. LogInv' /\ InLog' = InLog BY <1>1, CallerStep DEF OutboxInv
<1>3. mem' \in OutboxStates /\ disk' \in OutboxStates
  BY <1>1 DEF OutboxInv
<1>4. (running => Accounted(mem))' /\ Accounted(disk)'
  BY <1>1, <1>2 DEF OutboxInv, Accounted
<1>5. sending'.slot # NoCall =>
              /\ sending'.slot \in Calls
              /\ call'[sending'.slot].at # "free"
              /\ call'[sending'.slot].heard
              /\ call'[sending'.slot].key = Oldest(sending'.batch)
  BY <1>1 DEF OutboxInv
<1> QED BY <1>2, <1>3, <1>4, <1>5 DEF OutboxInv

LEMMA SendStep ==
    ASSUME OutboxInv, SendNext
    PROVE  OutboxInv'
<1>1. PICK c \in Calls : Ask(c, Oldest(sending.batch)) /\ sending' = [sending EXCEPT !.slot = c]
  <2>1. (CHOOSE x \in FreeSlots : TRUE) \in FreeSlots BY DEF SendNext
  <2> QED BY <2>1 DEF SendNext, FreeSlots
<1>2. UNCHANGED <<running, mem, disk, dropped, files>>
  BY <1>1 DEF SendNext, Ask
<1>3. LogInv' /\ InLog' = InLog
      /\ call'[c].at # "free" /\ call'[c].heard /\ call'[c].key = Oldest(sending.batch)
  BY <1>1, AskTells DEF OutboxInv
<1>4. (running => Accounted(mem))' /\ Accounted(disk)'
  BY <1>2, <1>3 DEF OutboxInv, Accounted
<1>5. sending'.slot # NoCall =>
              /\ sending'.slot \in Calls
              /\ call'[sending'.slot].at # "free"
              /\ call'[sending'.slot].heard
              /\ call'[sending'.slot].key = Oldest(sending'.batch)
  <2>1. sending.slot = NoCall BY DEF SendNext
  <2>2. (sending'.slot = c /\ sending'.batch = sending.batch) \/ sending'.slot = NoCall
    BY <1>1, <2>1
  <2> QED BY <1>3, <2>2
<1> QED BY <1>2, <1>3, <1>4, <1>5 DEF OutboxInv

\* An answer is read: what leaves the outbox is in the log, or refused for good.
LEMMA ReceiveStep ==
    ASSUME OutboxInv, Received \/ BreakOff
    PROVE  OutboxInv'
<1> DEFINE c == sending.slot
           k == Oldest(sending.batch)
<1>1. /\ c \in Calls /\ call[c].key = k /\ call[c].at = "answered" /\ running
      /\ call' = [call EXCEPT ![c] = FreeCall]
      /\ UNCHANGED <<running, disk, files, up, store, today>>
      /\ sending'.slot = NoCall
  BY DEF OutboxInv, Received, BreakOff, Idle
<1>2. LogInv' /\ InLog' = InLog
  <2>1. CallTells(FreeCall, InLog) BY DEF CallTells, FreeCall
  <2> HIDE DEF c
  <2> QED BY <1>1, <2>1, CallerStep DEF OutboxInv
<1>3. /\ dropped \subseteq dropped'
      /\ \/ mem' = mem
         \/ mem' = [mem EXCEPT !.queue = @ \ {k}] /\ k \in InLog \cup dropped'
  <2>1. CASE BreakOff BY <2>1 DEF BreakOff
  <2>2. CASE Received
    <3>1. CallTells(call[c], InLog) BY <1>1 DEF OutboxInv, LogInv
    <3>2. mem' = [mem EXCEPT !.queue = @ \ {k}] BY <2>2 DEF Received
    <3>3. CASE call[c].result = "refused" BY <2>2, <3>2, <3>3 DEF Received
    <3>4. CASE call[c].result \in {"written", "known"}
      BY <1>1, <2>2, <3>1, <3>2, <3>4 DEF Received, CallTells
    <3> QED BY <2>2, <3>3, <3>4 DEF Received
  <2> QED BY <2>1, <2>2
<1> HIDE DEF c, k
<1>4. mem' \in OutboxStates
  BY <1>3 DEF OutboxInv, OutboxStates
<1>5. Accounted(mem)'
  <2>1. CASE mem' = mem BY <1>1, <1>2, <1>3, <2>1, AccountedStays DEF OutboxInv, Accounted
  <2>2. CASE mem' = [mem EXCEPT !.queue = @ \ {k}] /\ k \in InLog \cup dropped'
    <3>1. mem'.queue = mem.queue \ {k} /\ mem'.done = mem.done
      BY <2>2 DEF OutboxInv, OutboxStates
    <3> QED BY <1>1, <1>2, <1>3, <2>2, <3>1 DEF OutboxInv, Accounted
  <2> QED BY <1>3, <2>1, <2>2
<1>6. Accounted(disk)'
  BY <1>1, <1>2, <1>3, AccountedStays DEF OutboxInv, Accounted
<1> QED BY <1>1, <1>2, <1>4, <1>5, <1>6 DEF OutboxInv

\* The sender goes: its call is left without a caller.
LEMMA LeaveStep ==
    ASSUME OutboxInv, GiveUp \/ AgentStop
    PROVE  OutboxInv'
<1>1. /\ UNCHANGED <<files, up, store, today, disk, dropped>>
      /\ call' = Unheard
      /\ sending'.slot = NoCall
      /\ \/ mem' = mem /\ running' = running
         \/ mem' = Nothing /\ running' = FALSE
  <2>1. CASE GiveUp BY <2>1 DEF GiveUp, Idle
  <2>2. CASE AgentStop BY <2>2 DEF AgentStop, Idle
  <2> QED BY <2>1, <2>2
<1>2. LogInv' /\ InLog' = InLog
  <2>1. CASE sending.slot = NoCall BY <1>1, <2>1, CallerStep DEF OutboxInv, Unheard
  <2>2. CASE sending.slot # NoCall
    <3>1. PICK r : r = [call[sending.slot] EXCEPT !.heard = FALSE] OBVIOUS
    <3>2. sending.slot \in Calls BY <2>2 DEF OutboxInv
    <3>3. CallTells(call[sending.slot], InLog) BY <3>2 DEF OutboxInv, LogInv
    <3>4. CallTells(r, InLog) BY <3>1, <3>3 DEF CallTells
    <3>5. call' = [call EXCEPT ![sending.slot] = r] BY <1>1, <2>2, <3>1 DEF Unheard
    <3> QED BY <1>1, <3>2, <3>4, <3>5, CallerStep DEF OutboxInv
  <2> QED BY <2>1, <2>2
<1>3. mem' \in OutboxStates /\ (running => Accounted(mem))' /\ Accounted(disk)'
  BY <1>1, <1>2 DEF OutboxInv, Accounted, OutboxStates, Nothing
<1> QED BY <1>1, <1>2, <1>3 DEF OutboxInv

LEMMA OutboxInvInit ==
    ASSUME Init
    PROVE  OutboxInv
<1>1. LogInv BY LogInvInit DEF Init
<1> QED BY <1>1 DEF Init, OutboxInv, OutboxStates, Nothing, Accounted, Idle

LEMMA OutboxInvNext ==
    ASSUME Sound, OutboxInv, [Next]_vars
    PROVE  OutboxInv'
<1>1. CASE LedgerStep /\ UNCHANGED ovars BY <1>1, LogMoves
<1>2. CASE RecordAndSave \/ RecordThenSave \/ RecordRefusal BY <1>2, CommandStep
<1>3. CASE Enregistrer \/ AgentStart \/ UNCHANGED vars BY <1>3, SaveStep
<1>4. CASE Send BY <1>4, SaveStep, SendStep, ReceiveStep DEF Send
<1>5. CASE GiveUp \/ AgentStop BY <1>5, LeaveStep
<1>6. CASE Listen /\ UNCHANGED ovars BY <1>6, ListenStep
<1> QED BY <1>1, <1>2, <1>3, <1>4, <1>5, <1>6 DEF Next

\* A change that agentd has saved is told, still waits in the saved outbox, or was given up
\* loudly, whatever stops in between (ADR 0059; vider_le_journal, reprendre).
THEOREM SavedIsNotLost == ASSUME Sound PROVE Spec => []NothingLost
<1>1. Init => OutboxInv BY OutboxInvInit
<1>2. OutboxInv /\ [Next]_vars => OutboxInv' BY OutboxInvNext
<1>3. OutboxInv => NothingLost BY DEF OutboxInv, Accounted, NothingLost
<1> QED BY <1>1, <1>2, <1>3, PTL DEF Spec

\* What agentd sends again is written once.
THEOREM OutboxWritesOnce == ASSUME Sound PROVE Spec => []WrittenOnce
<1>1. Init => OutboxInv BY OutboxInvInit
<1>2. OutboxInv /\ [Next]_vars => OutboxInv' BY OutboxInvNext
<1>3. OutboxInv => WrittenOnce BY DEF OutboxInv, LogInv
<1> QED BY <1>1, <1>2, <1>3, PTL DEF Spec


\* A set of numbers that is not empty has a least one.
LEMMA LeastNumber ==
    ASSUME NEW T \in SUBSET Nat, T # {}
    PROVE  \E n \in T : \A k \in T : n <= k
<1> DEFINE R == OpToRel(<, Nat)
<1>1. IsWellFoundedOn(R, Nat) BY NatLessThanWellFounded
<1>2. \A k, n \in Nat : <<k, n>> \in R <=> k < n BY DEF OpToRel
<1> HIDE DEF R
<1>3. PICK n \in T : \A k \in T : ~(<<k, n>> \in R) BY <1>1, WFMin
<1>4. ASSUME NEW k \in T PROVE n <= k
  <2>1. k \in Nat /\ n \in Nat OBVIOUS
  <2>2. ~(<<k, n>> \in R) BY <1>3
  <2>3. ~(k < n) BY <1>2, <2>1, <2>2
  <2> QED BY <2>1, <2>3
<1> QED BY <1>4

-------------------------------------------------------------------------------
(* The chain of the events, and the memory that follows it.               *)

\* A service that stops finds its events in the order of their numbers.
OrderedStops == "midnight_crash" \notin Faults

SeqOf(p) == Piece(p).event.seq
Whole == \A p \in Places : Piece(p).json /\ Piece(p).end

\* The numbers of the log are those below m, once each.
Numbered(m) ==
    /\ \A p \in Places : SeqOf(p) \in 0 .. m - 1
    /\ \A n \in 0 .. m - 1 : \E p \in Places : SeqOf(p) = n
    /\ up => store.next = m

\* Each event holds the hash of the one numbered before it.
Chained ==
    /\ \A p, q \in Places : SeqOf(p) = SeqOf(q) => p = q
    /\ \A p \in Places : SeqOf(p) = 0 => Piece(p).event.prev = Genesis
    /\ \A p, q \in Places :
          SeqOf(q) = SeqOf(p) + 1 => Piece(q).event.prev = Hash(Piece(p).event)

\* The memory of a running service agrees with the files.
Indexed ==
    /\ \A p \in Places : SeqOf(p) + 1 = store.next => store.head = Hash(Piece(p).event)
    /\ store.next = 0 => store.head = Genesis
    /\ DOMAIN store.index = 0 .. store.next - 1
    /\ \A p \in Places : store.index[SeqOf(p)] = p
    /\ \A t : t \in DOMAIN store.firsts <=> \E p \in EventPlaces : TaskOf[Piece(p).event.key] = t
    /\ \A p \in EventPlaces : store.firsts[TaskOf[Piece(p).event.key]] \in 0 .. SeqOf(p)

\* The strengthening of ChainVerifies and of QueriesComplete; a service that is down has left
\* its events in the order of their numbers, and rebuild_index relies on it.
ChainInv ==
    /\ Whole /\ Chained
    /\ IF up THEN Indexed ELSE InOrder /\ store = FreshStore
    /\ \E m \in Nat : Numbered(m)

-------------------------------------------------------------------------------
\* A place is a day and a rank in its file.
LEMMA PlacesArePairs ==
    ASSUME Shape
    PROVE  /\ \A p \in Places : /\ p = <<p[1], p[2]>>
                                /\ p[1] \in Days /\ p[1] \in Nat
                                /\ p[2] \in Nat /\ p[2] \in 1 .. Len(files[p[1]])
           /\ \A d \in Days : Len(files[d]) \in Nat
           /\ \A d \in Days : \A i \in 1 .. Len(files[d]) : <<d, i>> \in Places
<1>1. \A d \in Days : Len(files[d]) \in Nat
  BY LenProperties DEF Shape
<1>2. Days \subseteq Nat BY LedgerAssumption
<1>3. ASSUME NEW p \in Places
      PROVE  p = <<p[1], p[2]>> /\ p[1] \in Days /\ p[2] \in 1 .. Len(files[p[1]])
  <2>1. PICK d \in Days : p \in {<<d, i>> : i \in 1 .. Len(files[d])}
    BY <1>3 DEF Places
  <2>2. PICK i \in 1 .. Len(files[d]) : p = <<d, i>>
    BY <2>1
  <2> QED BY <2>2
<1>4. \A d \in Days : \A i \in 1 .. Len(files[d]) : <<d, i>> \in Places
  BY DEF Places
<1> QED BY <1>1, <1>2, <1>3, <1>4

\* The places are in one order.
LEMMA BeforeIsTotal ==
    ASSUME Shape
    PROVE  /\ \A p, q \in Places : p = q \/ Before(p, q) \/ Before(q, p)
           /\ \A p \in Places : ~Before(p, p)
           /\ \A p, q \in Places : Before(p, q) => ~Before(q, p)
BY PlacesArePairs DEF Before

\* A whole line that is put is one place more, the last of its file, and the others stay.
LEMMA PutPlace ==
    ASSUME Shape, NEW day \in Days, NEW e, PutPiece(day, e, TRUE, TRUE)
    PROVE  \E new : /\ new = <<day, Len(files[day]) + 1>>
                    /\ new \notin Places /\ Places' = Places \cup {new}
                    /\ Piece(new)' = [event |-> e, json |-> TRUE, end |-> TRUE]
                    /\ \A p \in Places : Piece(p)' = Piece(p)
<1>1. PICK S : files \in [Days -> Seq(S)] BY DEF Shape
<1>0. PICK new : new = <<day, Len(files[day]) + 1>>
  OBVIOUS
<1>2. /\ \A p \in Places : p \in Places' /\ Piece(p)' = Piece(p)
      /\ \A p \in Places' \ Places : /\ p = new
                                     /\ Piece(p)' = [event |-> e, json |-> TRUE, end |-> TRUE]
  BY <1>0, <1>1, PutAddsOnePlace
<1>3. /\ Len(files[day]) \in Nat
      /\ files'[day] = Append(files[day], [event |-> e, json |-> TRUE, end |-> TRUE])
  BY <1>1, LenProperties DEF PutPiece
<1>4. Len(files'[day]) = Len(files[day]) + 1
  BY <1>1, <1>3
<1>5. new \in Places' BY <1>0, <1>3, <1>4 DEF Places
<1>6. new \notin Places
  <2> SUFFICES ASSUME new \in Places PROVE FALSE OBVIOUS
  <2>1. new[2] \in 1 .. Len(files[new[1]]) BY PlacesArePairs
  <2> QED BY <2>1, <1>0, <1>3
<1> QED BY <1>0, <1>2, <1>5, <1>6

\* The memory after an event, or after a seal.
Follows(s, day, e) ==
    \/ s = Remembered(day, e)
    \/ s = [Remembered(day, e) EXCEPT !.since = 0]

LEMMA RememberedFields ==
    ASSUME Shape, NEW day, NEW e, NEW s, Follows(s, day, e)
    PROVE  /\ DOMAIN s = DOMAIN store
           /\ s.next = store.next + 1 /\ s.head = Hash(e)
           /\ s.index = With(store.index, e.seq, <<day, Len(files[day]) + 1>>)
           /\ s.firsts = IF e.seal THEN store.firsts ELSE WithFirst(store.firsts, TaskOf[e.key], e.seq)
<1> DEFINE r == Remembered(day, e)
<1>1. /\ DOMAIN r = DOMAIN store
      /\ r.next = store.next + 1 /\ r.head = Hash(e)
      /\ r.index = With(store.index, e.seq, <<day, Len(files[day]) + 1>>)
      /\ r.firsts = IF e.seal THEN store.firsts ELSE WithFirst(store.firsts, TaskOf[e.key], e.seq)
  BY DEF Remembered, Shape
<1> HIDE DEF r
<1>2. CASE s = r BY <1>1, <1>2
<1>3. CASE s = [r EXCEPT !.since = 0]
  <2>1. DOMAIN s = DOMAIN r BY <1>3
  <2>2. s.next = r.next /\ s.head = r.head /\ s.index = r.index /\ s.firsts = r.firsts
    BY <1>1, <1>3 DEF Shape
  <2> QED BY <1>1, <2>1, <2>2
<1> QED BY <1>2, <1>3 DEF r, Follows

\* An event put at the head of the log, and remembered, keeps the chain.
LEMMA ChainGrows ==
    ASSUME Shape, ChainInv, up, up', NEW day \in Days, NEW key, NEW seal \in BOOLEAN,
           NEW e, e = EventAtHead(key, seal), PutPiece(day, e, TRUE, TRUE),
           Follows(store', day, e)
    PROVE  ChainInv'
<1>1. e.seq = store.next /\ e.prev = store.head /\ e.key = key /\ e.seal = seal
  BY DEF EventAtHead
<1>2. PICK new : /\ new = <<day, Len(files[day]) + 1>>
                 /\ new \notin Places /\ Places' = Places \cup {new}
                 /\ Piece(new)' = [event |-> e, json |-> TRUE, end |-> TRUE]
                 /\ \A p \in Places : Piece(p)' = Piece(p)
  BY PutPlace
<1>3. PICK m \in Nat : Numbered(m) BY DEF ChainInv
<1>4. store.next = m /\ \A p \in Places : SeqOf(p) \in 0 .. m - 1
  BY <1>3 DEF Numbered
<1>5. /\ SeqOf(new)' = m /\ Piece(new)'.event = e /\ Piece(new)'.json /\ Piece(new)'.end
      /\ \A p \in Places : SeqOf(p)' = SeqOf(p)
  BY <1>1, <1>2, <1>4 DEF SeqOf
<1>6. /\ store'.next = m + 1 /\ store'.head = Hash(e)
      /\ store'.index = With(store.index, m, new)
      /\ store'.firsts = IF seal THEN store.firsts ELSE WithFirst(store.firsts, TaskOf[key], m)
  BY <1>1, <1>2, <1>4, RememberedFields
<1>7. Whole' BY <1>2, <1>5 DEF ChainInv, Whole
<1>8. Chained'
  <2>1. \A p, q \in Places' : SeqOf(p)' = SeqOf(q)' => p = q
    BY <1>2, <1>4, <1>5 DEF ChainInv, Chained
  <2>2. ASSUME NEW p \in Places', SeqOf(p)' = 0 PROVE Piece(p)'.event.prev = Genesis
    BY <1>1, <1>2, <1>4, <1>5, <2>2 DEF ChainInv, Chained, Indexed
  <2>3. ASSUME NEW p \in Places', NEW q \in Places', SeqOf(q)' = SeqOf(p)' + 1
        PROVE  Piece(q)'.event.prev = Hash(Piece(p)'.event)
    <3>1. CASE p \in Places /\ q \in Places
      BY <3>1, <1>2, <1>5, <2>3 DEF ChainInv, Chained
    <3>2. CASE p \in Places /\ q = new
      <4>1. SeqOf(p) + 1 = store.next BY <3>2, <1>4, <1>5, <2>3
      <4> QED BY <3>2, <4>1, <1>1, <1>2, <1>5 DEF ChainInv, Indexed
    <3>3. CASE p = new
      BY <3>3, <1>2, <1>4, <1>5, <2>3
    <3> QED BY <3>1, <3>2, <3>3, <1>2
  <2> QED BY <2>1, <2>2, <2>3 DEF Chained
<1>9. Numbered(m + 1)'
  <2>1. \A p \in Places' : SeqOf(p)' \in 0 .. m
    BY <1>2, <1>4, <1>5
  <2>2. \A n \in 0 .. m : \E p \in Places' : SeqOf(p)' = n
    BY <1>2, <1>3, <1>5 DEF Numbered
  <2> QED BY <1>6, <2>1, <2>2 DEF Numbered
<1>10. Indexed'
  <2>1. \A p \in Places' : SeqOf(p)' + 1 = store'.next => store'.head = Hash(Piece(p)'.event)
    BY <1>2, <1>4, <1>5, <1>6
  <2>2. store'.next # 0 BY <1>6
  <2>3. DOMAIN store'.index = 0 .. store'.next - 1
    BY <1>4, <1>6 DEF ChainInv, Indexed, With
  <2>4. \A p \in Places' : store'.index[SeqOf(p)'] = p
    BY <1>2, <1>4, <1>5, <1>6 DEF ChainInv, Indexed, With
  <2>5. EventPlaces' = EventPlaces \cup (IF seal THEN {} ELSE {new})
    BY <1>1, <1>2, <1>5 DEF EventPlaces
  <2>6. \A p \in EventPlaces : Piece(p)'.event.key = Piece(p).event.key /\ p \in Places
    BY <1>2 DEF EventPlaces
  <2>7. Piece(new)'.event.key = key BY <1>1, <1>5
  <2>8. /\ \A t : t \in DOMAIN store'.firsts <=>
                     \E p \in EventPlaces' : TaskOf[Piece(p)'.event.key] = t
        /\ \A p \in EventPlaces' : store'.firsts[TaskOf[Piece(p)'.event.key]] \in 0 .. SeqOf(p)'
    <3>0. /\ \A t : t \in DOMAIN store.firsts <=> \E p \in EventPlaces : TaskOf[Piece(p).event.key] = t
          /\ \A p \in EventPlaces : store.firsts[TaskOf[Piece(p).event.key]] \in 0 .. SeqOf(p)
      BY DEF ChainInv, Indexed
    <3>1. CASE seal
      BY <3>0, <3>1, <1>5, <1>6, <2>5, <2>6
    <3>2. CASE ~seal
      <4>1. store'.firsts = WithFirst(store.firsts, TaskOf[key], m) BY <1>6, <3>2
      <4>2. \A t : t \in DOMAIN store'.firsts <=> t \in DOMAIN store.firsts \/ t = TaskOf[key]
        BY <4>1 DEF WithFirst, With
      <4>3. \A t \in DOMAIN store.firsts : store'.firsts[t] = store.firsts[t]
        BY <4>1 DEF WithFirst, With
      <4>4. TaskOf[key] \notin DOMAIN store.firsts => store'.firsts[TaskOf[key]] = m
        BY <4>1 DEF WithFirst, With
      <4>5. \A t : t \in DOMAIN store'.firsts <=>
                     \E p \in EventPlaces' : TaskOf[Piece(p)'.event.key] = t
        BY <3>0, <3>2, <4>2, <2>5, <2>6, <2>7
      <4>6. \A p \in EventPlaces : store'.firsts[TaskOf[Piece(p)'.event.key]] \in 0 .. SeqOf(p)'
        BY <3>0, <4>3, <2>6, <1>5
      <4>7. store'.firsts[TaskOf[key]] \in 0 .. m
        <5>1. CASE TaskOf[key] \in DOMAIN store.firsts
          <6>1. PICK p \in EventPlaces : TaskOf[Piece(p).event.key] = TaskOf[key] BY <3>0, <5>1
          <6>2. SeqOf(p) \in 0 .. m - 1 BY <1>4, <2>6
          <6>3. store.firsts[TaskOf[key]] \in 0 .. SeqOf(p) BY <3>0, <6>1
          <6> QED BY <4>3, <5>1, <6>2, <6>3
        <5>2. CASE TaskOf[key] \notin DOMAIN store.firsts
          BY <4>4, <5>2
        <5> QED BY <5>1, <5>2
      <4> QED BY <4>5, <4>6, <4>7, <2>5, <2>7, <1>5, <3>2
    <3> QED BY <3>1, <3>2
  <2> QED BY <2>1, <2>2, <2>3, <2>4, <2>8 DEF Indexed
<1> QED BY <1>7, <1>8, <1>9, <1>10 DEF ChainInv

-------------------------------------------------------------------------------
\* What a stopped service reads again: its last line has the last number.
LEMMA LastIsLast ==
    ASSUME Shape, ChainInv, ~up, NEW m \in Nat, Numbered(m), Places # {}
    PROVE  LastPlace \in Places /\ SeqOf(LastPlace) = m - 1
<1>1. m > 0 BY DEF Numbered
<1>2. PICK p \in Places : SeqOf(p) = m - 1 BY <1>1 DEF Numbered
<1>3. \A q \in Places : q = p \/ Before(q, p)
  <2> SUFFICES ASSUME NEW q \in Places, Before(p, q) PROVE FALSE
    BY BeforeIsTotal
  <2>1. SeqOf(p) < SeqOf(q) BY DEF ChainInv, InOrder, SeqOf
  <2> QED BY <1>1, <1>2, <2>1 DEF Numbered
<1>4. LastPlace \in Places /\ \A q \in Places : q = LastPlace \/ Before(q, LastPlace)
  BY <1>3 DEF LastPlace
<1>5. LastPlace = p BY <1>3, <1>4, BeforeIsTotal
<1> QED BY <1>2, <1>5

\* rebuild_index finds the memory the service had.
LEMMA ChainReopens ==
    ASSUME Shape, ChainInv, Open
    PROVE  ChainInv'
<1>1. ~up /\ up' /\ store' = Rebuilt /\ UNCHANGED files
  BY DEF Open
<1>2. /\ Places' = Places /\ EventPlaces' = EventPlaces
      /\ \A p : Piece(p)' = Piece(p)
  BY <1>1 DEF Places, EventPlaces, Piece
<1>3. PICK m \in Nat : Numbered(m) BY DEF ChainInv
<1>4. Whole' /\ Chained'
  BY <1>2 DEF ChainInv, Whole, Chained, SeqOf
<1>5. \A p : SeqOf(p)' = SeqOf(p) BY <1>2 DEF SeqOf
<1>6. CASE Places = {}
  <2>1. store' = FreshStore BY <1>1, <1>6 DEF Rebuilt
  <2>2. EventPlaces = {} BY <1>6 DEF EventPlaces
  <2>3. m = 0 BY <1>3, <1>6 DEF Numbered
  <2>4. Indexed' BY <1>2, <1>6, <2>1, <2>2 DEF Indexed, FreshStore, Empty
  <2>5. Numbered(0)' BY <1>2, <1>6, <2>1 DEF Numbered, FreshStore
  <2> QED BY <1>1, <1>4, <2>4, <2>5 DEF ChainInv
<1>7. CASE Places # {}
  <2> DEFINE events == {p \in Places : ~Piece(p).event.seal}
             LastOf(ps) == CHOOSE p \in ps : \A q \in ps : q = p \/ Before(q, p)
             FirstOf(ps) == CHOOSE p \in ps : \A q \in ps : q = p \/ Before(p, q)
  <2>1. /\ store'.next = SeqOf(LastPlace) + 1
        /\ store'.head = Hash(Piece(LastPlace).event)
        /\ store'.index = [n \in {SeqOf(p) : p \in Places} |->
                              LastOf({p \in Places : SeqOf(p) = n})]
        /\ store'.firsts = [t \in {TaskOf[Piece(p).event.key] : p \in events} |->
                              SeqOf(FirstOf({p \in events : TaskOf[Piece(p).event.key] = t}))]
    BY <1>1, <1>7 DEF Rebuilt, SeqOf
  <2>2. LastPlace \in Places /\ SeqOf(LastPlace) = m - 1
    BY <1>1, <1>3, <1>7, LastIsLast
  <2>3. store'.next = m BY <2>1, <2>2
  <2>4. \A p, q \in Places : SeqOf(p) = SeqOf(q) => p = q
    BY DEF ChainInv, Chained
  <2>5. \A p \in Places : SeqOf(p) + 1 = m => store'.head = Hash(Piece(p).event)
    BY <2>1, <2>2, <2>4, <1>3 DEF Numbered
  <2>6. m # 0 BY <2>2, <1>3 DEF Numbered
  <2>7. {SeqOf(p) : p \in Places} = 0 .. m - 1
    BY <1>3 DEF Numbered
  <2>8. ASSUME NEW p \in Places PROVE store'.index[SeqOf(p)] = p
    <3>1. {q \in Places : SeqOf(q) = SeqOf(p)} = {p} BY <2>4
    <3>2. LastOf({p}) = p OBVIOUS
    <3>3. store'.index[SeqOf(p)] = LastOf({q \in Places : SeqOf(q) = SeqOf(p)})
      BY <2>1
    <3> QED BY <3>1, <3>2, <3>3
  <2>9. ASSUME NEW p \in events
        PROVE  store'.firsts[TaskOf[Piece(p).event.key]] \in 0 .. SeqOf(p)
    <3> DEFINE t == TaskOf[Piece(p).event.key]
               mine == {q \in events : TaskOf[Piece(q).event.key] = t}
    <3>1. p \in mine /\ mine \subseteq Places OBVIOUS
    <3>2. store'.firsts[t] = SeqOf(FirstOf(mine)) BY <2>1
    <3> HIDE DEF t, mine
    <3>3. \A q \in Places : SeqOf(q) \in Nat BY <1>3 DEF Numbered
    <3>4. PICK n \in {SeqOf(q) : q \in mine} : \A k \in {SeqOf(q) : q \in mine} : n <= k
      <4>1. {SeqOf(q) : q \in mine} \in SUBSET Nat BY <3>1, <3>3
      <4>2. {SeqOf(q) : q \in mine} # {} BY <3>1
      <4>3. PICK numbers : numbers = {SeqOf(q) : q \in mine} OBVIOUS
      <4>4. numbers \in SUBSET Nat /\ numbers # {} BY <4>1, <4>2, <4>3
      <4>5. \E n \in numbers : \A k \in numbers : n <= k BY <4>4, LeastNumber
      <4> QED BY <4>3, <4>5
    <3>5. PICK r \in mine : SeqOf(r) = n BY <3>4
    <3>6. \A q \in mine : q = r \/ Before(r, q)
      <4> SUFFICES ASSUME NEW q \in mine, Before(q, r) PROVE FALSE
        BY <3>1, <3>5, BeforeIsTotal
      <4>1. SeqOf(q) < SeqOf(r) BY <3>1, <3>5, <1>1 DEF ChainInv, InOrder, SeqOf
      <4>2. n <= SeqOf(q) BY <3>4
      <4>3. SeqOf(q) \in Nat /\ SeqOf(r) \in Nat BY <3>1, <3>3
      <4> QED BY <3>5, <4>1, <4>2, <4>3
    <3>7. FirstOf(mine) \in mine /\ \A q \in mine : q = FirstOf(mine) \/ Before(FirstOf(mine), q)
      BY <3>6
    <3> HIDE DEF FirstOf
    <3>8. FirstOf(mine) = p \/ SeqOf(FirstOf(mine)) < SeqOf(p)
      BY <3>1, <3>7, <1>1 DEF ChainInv, InOrder, SeqOf
    <3> QED BY <3>1, <3>2, <3>3, <3>7, <3>8 DEF t
  <2>10. \A t : t \in DOMAIN store'.firsts <=> \E p \in events : TaskOf[Piece(p).event.key] = t
    BY <2>1
  <2>11. events = EventPlaces BY DEF EventPlaces
  <2> HIDE DEF events, LastOf, FirstOf
  <2>12. Indexed'
    <3>1. DOMAIN store'.index = 0 .. store'.next - 1 BY <2>1, <2>3, <2>7
    <3>2. \A p \in Places' : SeqOf(p)' + 1 = store'.next => store'.head = Hash(Piece(p)'.event)
      BY <1>2, <1>5, <2>3, <2>5
    <3>3. \A p \in Places' : store'.index[SeqOf(p)'] = p BY <1>2, <1>5, <2>8
    <3>4. \A t : t \in DOMAIN store'.firsts <=>
                    \E p \in EventPlaces' : TaskOf[Piece(p)'.event.key] = t
      BY <1>2, <2>10, <2>11
    <3>5. \A p \in EventPlaces' : store'.firsts[TaskOf[Piece(p)'.event.key]] \in 0 .. SeqOf(p)'
      BY <1>2, <1>5, <2>9, <2>11
    <3> QED BY <2>3, <2>6, <3>1, <3>2, <3>3, <3>4, <3>5 DEF Indexed
  <2>13. Numbered(m)' BY <1>2, <1>3, <1>5, <2>3 DEF Numbered
  <2> QED BY <1>1, <1>4, <2>12, <2>13 DEF ChainInv
<1> QED BY <1>6, <1>7

\* Steps that neither write nor stop.
LEMMA ChainAlone ==
    ASSUME ChainInv, UNCHANGED <<files, up, store>>
    PROVE  ChainInv'
<1>1. /\ Places' = Places /\ EventPlaces' = EventPlaces
      /\ \A p : Piece(p)' = Piece(p) /\ SeqOf(p)' = SeqOf(p)
  BY DEF Places, EventPlaces, Piece, SeqOf
<1>2. Whole' /\ Chained' /\ (Indexed => Indexed') /\ (InOrder => InOrder')
  BY <1>1 DEF ChainInv, Whole, Chained, Indexed, InOrder
<1>3. PICK m \in Nat : Numbered(m) BY DEF ChainInv
<1>4. Numbered(m)' BY <1>1, <1>3 DEF Numbered
<1> QED BY <1>2, <1>4 DEF ChainInv

\* A service that stops in order leaves what it needs to start again.
LEMMA ChainStops ==
    ASSUME OrderedStops, ChainInv, Stop
    PROVE  ChainInv'
<1>1. InOrder /\ ~up' /\ store' = FreshStore /\ UNCHANGED files
  BY DEF Stop, Strike, OrderedStops
<1>2. /\ Places' = Places
      /\ \A p : Piece(p)' = Piece(p) /\ SeqOf(p)' = SeqOf(p)
  BY <1>1 DEF Places, Piece, SeqOf
<1>3. Whole' /\ Chained' /\ InOrder'
  BY <1>1, <1>2 DEF ChainInv, Whole, Chained, InOrder
<1>4. PICK m \in Nat : Numbered(m) BY DEF ChainInv
<1>5. Numbered(m)' BY <1>1, <1>2, <1>4 DEF Numbered
<1> QED BY <1>1, <1>3, <1>5 DEF ChainInv

\* Every step of the service keeps the chain.
LEMMA ChainStep ==
    ASSUME Sound, OrderedStops, LogInv, ChainInv, LedgerStep
    PROVE  ChainInv'
<1> USE DEF LogInv
<1>1. ASSUME NEW c \in Calls, Known(c) \/ Refuse(c) \/ Publish(c) \/ Hang(c) PROVE ChainInv'
  BY <1>1, ChainAlone DEF Known, Refuse, Publish, Hang
<1>2. ASSUME NEW c \in Calls, AppendEvent(c) PROVE ChainInv'
  <2>1. PICK day, e : /\ day = call[c].day /\ e = EventAtHead(call[c].key, FALSE)
    OBVIOUS
  <2>2. ~WriteFails(day, e) BY NoStrike DEF WriteFails
  <2>3. PutPiece(day, e, TRUE, TRUE) /\ store' = Remembered(day, e) /\ up /\ up'
    BY <1>2, <2>1, <2>2 DEF AppendEvent
  <2>4. day \in Days BY <1>2, <2>1 DEF AppendEvent, CallTells
  <2>5. Follows(store', day, e) BY <2>3 DEF Follows
  <2> QED BY <2>1, <2>3, <2>4, <2>5, ChainGrows
<1>3. ASSUME NEW c \in Calls, MaybeSeal(c) PROVE ChainInv'
  <2>1. PICK e : e = EventAtHead(NoKey, TRUE) OBVIOUS
  <2>2. ~WriteFails(today, e) BY NoStrike DEF WriteFails
  <2>3. \/ UNCHANGED <<files, up, store>>
        \/ /\ PutPiece(today, e, TRUE, TRUE) /\ up /\ up'
           /\ Follows(store', today, e)
    BY <1>3, <2>1, <2>2 DEF MaybeSeal, Follows
  <2>4. today \in Days BY DEF Shape
  <2> QED BY <2>1, <2>3, <2>4, ChainGrows, ChainAlone
<1>4. CASE Midnight \/ SetBack BY <1>4, ChainAlone DEF Midnight, SetBack
<1> QED BY <1>1, <1>2, <1>3, <1>4, ChainStops, ChainReopens DEF LedgerStep, Handle

LEMMA ChainInvInit ==
    ASSUME LedgerInit
    PROVE  ChainInv
<1>1. Places = {} BY DEF LedgerInit, Places
<1>2. EventPlaces = {} BY <1>1 DEF EventPlaces
<1>3. Whole /\ Chained BY <1>1 DEF Whole, Chained
<1>4. Indexed BY <1>1, <1>2 DEF LedgerInit, Indexed, FreshStore, Empty
<1>5. Numbered(0) BY <1>1 DEF LedgerInit, Numbered, FreshStore
<1> QED BY <1>3, <1>4, <1>5 DEF LedgerInit, ChainInv

\* What the chain says of ledger.verify.
LEMMA ChainIsVerified ==
    ASSUME Shape, ChainInv
    PROVE  VerifyOk
<1>1. PICK m \in Nat : Numbered(m) BY DEF ChainInv
<1>2. \A p \in Places : SeqOf(p) \in 0 .. m - 1 BY <1>1 DEF Numbered
<1>3. AllReadable
  <2> SUFFICES ASSUME NEW p \in Places PROVE Readable(p) BY DEF AllReadable
  <2>1. Piece(p).json /\ Piece(p).end BY DEF ChainInv, Whole
  <2>2. ASSUME p[2] > 1 PROVE files[p[1]][p[2] - 1].end
    <3> DEFINE q == <<p[1], p[2] - 1>>
    <3>1. q \in Places BY <2>2, PlacesArePairs
    <3> QED BY <3>1 DEF ChainInv, Whole, Piece
  <2> QED BY <2>1, <2>2 DEF Readable, StartsLine, EndsLine
<1>4. \A p, q \in Places : SortsBefore(p, q) <=> SeqOf(p) < SeqOf(q)
  <2> SUFFICES ASSUME NEW p \in Places, NEW q \in Places
               PROVE SortsBefore(p, q) <=> SeqOf(p) < SeqOf(q)
    OBVIOUS
  <2>1. SeqOf(p) = SeqOf(q) => ~Before(p, q)
    BY BeforeIsTotal DEF ChainInv, Chained
  <2> QED BY <2>1 DEF SortsBefore, SeqOf
<1>5. ASSUME NEW q \in Places
      PROVE  LET earlier == {p \in Places : SortsBefore(p, q)}
             IN IF earlier = {} THEN Piece(q).event.prev = Genesis
                ELSE \E p \in earlier :
                         /\ \A r \in earlier : r = p \/ SortsBefore(r, p)
                         /\ Piece(q).event.seq = Piece(p).event.seq + 1
                         /\ Piece(q).event.prev = Hash(Piece(p).event)
  <2> DEFINE earlier == {p \in Places : SortsBefore(p, q)}
  <2>1. earlier = {p \in Places : SeqOf(p) < SeqOf(q)} BY <1>4
  <2> HIDE DEF earlier
  <2>2. CASE SeqOf(q) = 0
    <3>1. earlier = {} BY <1>2, <2>1, <2>2
    <3>2. Piece(q).event.prev = Genesis BY <2>2 DEF ChainInv, Chained
    <3> QED BY <3>1, <3>2 DEF earlier
  <2>3. CASE SeqOf(q) # 0
    <3>1. SeqOf(q) - 1 \in 0 .. m - 1 BY <1>2, <2>3
    <3>2. PICK p \in Places : SeqOf(p) = SeqOf(q) - 1 BY <1>1, <3>1 DEF Numbered
    <3>3. SeqOf(q) = SeqOf(p) + 1 BY <1>2, <3>2
    <3>4. p \in earlier BY <1>2, <2>1, <3>3
    <3>5. \A r \in earlier : r = p \/ SortsBefore(r, p)
      <4> SUFFICES ASSUME NEW r \in earlier PROVE r = p \/ SortsBefore(r, p)
        OBVIOUS
      <4>1. r \in Places /\ SeqOf(r) < SeqOf(q) BY <2>1
      <4>2. SeqOf(r) = SeqOf(p) \/ SeqOf(r) < SeqOf(p) BY <1>2, <3>3, <4>1
      <4> QED BY <1>4, <4>1, <4>2 DEF ChainInv, Chained
    <3>6. Piece(q).event.prev = Hash(Piece(p).event) BY <3>3 DEF ChainInv, Chained
    <3> QED BY <3>3, <3>4, <3>5, <3>6 DEF earlier, SeqOf
  <2> QED BY <2>2, <2>3
<1> QED BY <1>3, <1>5 DEF VerifyOk

\* What the index says of a query.
LEMMA ChainAnswersQueries ==
    ASSUME Shape, ChainInv
    PROVE  QueriesComplete
<1> SUFFICES ASSUME up, NEW t \in Range(TaskOf), NEW n \in 0 .. MaxEvents
             PROVE  QueryTask(t, n) = {p \in EventPlaces : TaskOf[Piece(p).event.key] = t
                                                         /\ Piece(p).event.seq >= n}
  BY DEF QueriesComplete
<1>1. PICK m \in Nat : Numbered(m) BY DEF ChainInv
<1>2. \A p \in Places : SeqOf(p) \in 0 .. m - 1 BY <1>1 DEF Numbered
<1>3. store.next = m /\ Indexed BY <1>1 DEF Numbered, ChainInv
<1>4. ASSUME NEW from \in Nat PROVE ScanFrom(from) = {p \in Places : SeqOf(p) >= from}
  <2> SUFFICES ASSUME NEW p \in Places, SeqOf(p) >= from
               PROVE  \E q \in IndexedFrom(from) : q[1] = p[1] /\ q[2] <= p[2]
    BY DEF ScanFrom, SeqOf
  <2>1. SeqOf(p) \in DOMAIN store.index /\ store.index[SeqOf(p)] = p
    BY <1>2, <1>3 DEF Indexed
  <2>2. p \in IndexedFrom(from) BY <2>1 DEF IndexedFrom
  <2>3. p[2] <= p[2] BY PlacesArePairs
  <2> QED BY <2>2, <2>3
<1>5. n \in Nat BY LedgerAssumption
<1>6. CASE t \notin DOMAIN store.firsts
  BY <1>3, <1>6 DEF Indexed, QueryTask
<1>7. CASE t \in DOMAIN store.firsts
  <2>1. PICK r \in EventPlaces : TaskOf[Piece(r).event.key] = t BY <1>3, <1>7 DEF Indexed
  <2>2. store.firsts[t] \in Nat
    <3>1. store.firsts[t] \in 0 .. SeqOf(r) BY <1>3, <2>1 DEF Indexed
    <3>2. SeqOf(r) \in Nat BY <1>2 DEF EventPlaces
    <3> QED BY <3>1, <3>2
  <2>3. PICK start : start = IF n > store.firsts[t] THEN n ELSE store.firsts[t]
    OBVIOUS
  <2>4. start \in Nat BY <1>5, <2>2, <2>3
  <2>5. QueryTask(t, n) = {p \in {q \in Places : SeqOf(q) >= start} :
                              ~Piece(p).event.seal /\ TaskOf[Piece(p).event.key] = t}
    BY <1>4, <1>7, <2>3, <2>4 DEF QueryTask
  <2>6. ASSUME NEW p \in EventPlaces, TaskOf[Piece(p).event.key] = t
        PROVE  SeqOf(p) >= start <=> SeqOf(p) >= n
    <3>1. store.firsts[t] \in 0 .. SeqOf(p) BY <1>3, <2>6 DEF Indexed
    <3>2. SeqOf(p) \in Nat BY <1>2 DEF EventPlaces
    <3> QED BY <1>5, <2>2, <2>3, <3>1, <3>2
  <2> QED BY <2>5, <2>6 DEF EventPlaces, SeqOf
<1> QED BY <1>6, <1>7


-------------------------------------------------------------------------------
(* The types of the log.                                                   *)

Hashes == Seq(Nat \X (Keys \cup {NoKey}) \X BOOLEAN)

LedgerTypes ==
    /\ files \in [Days -> Seq(Pieces)]
    /\ up \in BOOLEAN /\ today \in Days /\ faults \in 0 .. MaxFaults
    /\ call \in [Calls -> CallStates]
    /\ bus \in Buses
    /\ up => store.next \in Nat /\ store.head \in Hashes

\* The fields of a call at each of its steps.
LEMMA CallFields ==
    ASSUME NEW r \in CallStates
    PROVE  /\ r.at \in {"free", "waiting", "sealing", "publishing", "answered"}
           /\ r.at # "free" => r.key \in Keys /\ r.heard \in BOOLEAN
           /\ r.at = "free" => r = FreeCall
           /\ r.at = "waiting" => r.day \in Days
           /\ r.at = "sealing" => r.seq \in Nat
           /\ r.at = "publishing" => r.numbers \in Seq(Nat) \ {<< >>}
BY DEF CallStates, FreeCall

\* The records of a call at each of its steps.
LEMMA CallRecords ==
    /\ FreeCall \in CallStates
    /\ \A k \in Keys, h \in BOOLEAN :
          /\ \A d \in Days : [at |-> "waiting", key |-> k, heard |-> h, day |-> d] \in CallStates
          /\ \A n \in Nat : [at |-> "sealing", key |-> k, heard |-> h, seq |-> n] \in CallStates
          /\ \A s \in Seq(Nat) \ {<< >>} :
                [at |-> "publishing", key |-> k, heard |-> h, numbers |-> s] \in CallStates
          /\ \A x \in {"written", "known", "refused", "failed"} :
                [at |-> "answered", key |-> k, heard |-> h, result |-> x] \in CallStates
BY DEF CallStates, FreeCall

\* A caller that has gone leaves its call at its step.
LEMMA GoneRecord ==
    ASSUME NEW r \in CallStates, r.at # "free"
    PROVE  [r EXCEPT !.heard = FALSE] \in CallStates
<1>1. CASE r \in [at : {"waiting"}, key : Keys, heard : BOOLEAN, day : Days]
  BY <1>1 DEF CallStates
<1>2. CASE r \in [at : {"sealing"}, key : Keys, heard : BOOLEAN, seq : Nat]
  BY <1>2 DEF CallStates
<1>3. CASE r \in [at : {"publishing"}, key : Keys, heard : BOOLEAN,
                  numbers : Seq(Nat) \ {<< >>}]
  BY <1>3 DEF CallStates
<1>4. CASE r \in [at : {"answered"}, key : Keys, heard : BOOLEAN,
                  result : {"written", "known", "refused", "failed"}]
  BY <1>4 DEF CallStates
<1> QED BY <1>1, <1>2, <1>3, <1>4 DEF CallStates

\* The hash of an event is one.
LEMMA HashTyped ==
    ASSUME NEW e, e.prev \in Hashes, e.seq \in Nat, e.key \in Keys \cup {NoKey}, e.seal \in BOOLEAN
    PROVE  Hash(e) \in Hashes
<1>1. <<e.seq, e.key, e.seal>> \in Nat \X (Keys \cup {NoKey}) \X BOOLEAN OBVIOUS
<1> QED BY <1>1, AppendProperties DEF Hash, Hashes

\* What is written and remembered has its type.
LEMMA WritingTyped ==
    ASSUME LedgerTypes, Shape, up, NEW day \in Days, NEW key \in Keys \cup {NoKey},
           NEW seal \in BOOLEAN, NEW e, e = EventAtHead(key, seal), PutPiece(day, e, TRUE, TRUE),
           Follows(store', day, e)
    PROVE  /\ files' \in [Days -> Seq(Pieces)]
           /\ store'.next \in Nat /\ store'.head \in Hashes
           /\ e.seq \in Nat
<1>1. e = [seq |-> store.next, prev |-> store.head, key |-> key, seal |-> seal]
  BY DEF EventAtHead
<1>2. store.next \in Nat /\ store.head \in Hashes BY DEF LedgerTypes
<1>3. e.seq \in Nat /\ e.prev \in Hashes /\ e.key \in Keys \cup {NoKey} /\ e.seal \in BOOLEAN
  BY <1>1, <1>2
<1>4. PICK piece : piece = [event |-> e, json |-> TRUE, end |-> TRUE] OBVIOUS
<1>5. piece \in Pieces BY <1>1, <1>2, <1>4 DEF Pieces, Hashes
<1>6. Append(files[day], piece) \in Seq(Pieces)
  BY <1>5, AppendProperties DEF LedgerTypes
<1>7. files' \in [Days -> Seq(Pieces)]
  BY <1>4, <1>6 DEF PutPiece, LedgerTypes
<1>8. store'.next = store.next + 1 /\ store'.head = Hash(e)
  BY <1>2, RememberedFields
<1> QED BY <1>2, <1>3, <1>7, <1>8, HashTyped

\* Only an allowed fault strikes, and they are counted.
LEMMA StrikeCounted ==
    ASSUME faults \in 0 .. MaxFaults, NEW kind, Strike(kind)
    PROVE  faults' \in 0 .. MaxFaults
BY LedgerAssumption DEF Strike

\* What is left to publish after the first of several numbers.
LEMMA TailLeaves ==
    ASSUME NEW s \in Seq(Nat), s # << >>, Len(s) # 1
    PROVE  Tail(s) \in Seq(Nat) \ {<< >>}
<1>1. Len(s) \in Nat /\ Len(s) # 0 BY EmptySeq
<1>2. Tail(s) \in Seq(Nat) /\ Len(Tail(s)) = Len(s) - 1 BY <1>1
<1>3. Len(Tail(s)) # 0 BY <1>1, <1>2
<1>4. Tail(s) # << >> BY <1>3, EmptySeq
<1> QED BY <1>2, <1>4

\* The steps of the service.
LEMMA TypesServed ==
    ASSUME Sound, LogInv, ChainInv, LedgerTypes, NEW c \in Calls, Handle(c)
    PROVE  LedgerTypes'
<1> USE DEF LedgerTypes
<1>0. call[c] \in CallStates OBVIOUS
<1>a. ASSUME NEW result \in {"written", "known", "refused", "failed"}, Answer(c, result),
             call[c].at # "free"
      PROVE  call' \in [Calls -> CallStates]
  <2>1. [at |-> "answered", key |-> call[c].key, heard |-> call[c].heard, result |-> result]
           \in CallStates
    BY <1>0, <1>a, CallFields, CallRecords
  <2> QED BY <1>a, <2>1 DEF Answer
<1>1. CASE Known(c) \/ Refuse(c)
  <2>1. call[c].at # "free" /\ UNCHANGED <<files, up, store, bus, today, faults>>
    BY <1>1 DEF Known, Refuse
  <2>2. \E x \in {"known", "failed", "refused"} : Answer(c, x)
    <3>1. CASE Refuse(c) BY <3>1 DEF Refuse
    <3>2. CASE Known(c)
      <4>1. PICK x : /\ x = IF EndsLine(store.index[store.idems[call[c].key]])
                               /\ Piece(store.index[store.idems[call[c].key]]).json
                            THEN "known" ELSE "failed"
        OBVIOUS
      <4>2. Answer(c, x) BY <3>2, <4>1 DEF Known
      <4> QED BY <4>1, <4>2
    <3> QED BY <1>1, <3>1, <3>2
  <2>3. call' \in [Calls -> CallStates] BY <1>a, <2>1, <2>2
  <2> QED BY <2>1, <2>3
<1>2. CASE AppendEvent(c)
  <2>1. PICK day, e : day = call[c].day /\ e = EventAtHead(call[c].key, FALSE) OBVIOUS
  <2>2. ~WriteFails(day, e) BY NoStrike DEF WriteFails
  <2>3. /\ PutPiece(day, e, TRUE, TRUE) /\ store' = Remembered(day, e) /\ up
        /\ call' = [call EXCEPT ![c] = [at |-> "sealing", key |-> call[c].key,
                                        heard |-> call[c].heard, seq |-> e.seq]]
        /\ UNCHANGED <<up, bus, today, faults>> /\ call[c].at = "waiting"
    BY <1>2, <2>1, <2>2 DEF AppendEvent
  <2>4. day \in Days /\ call[c].key \in Keys /\ call[c].heard \in BOOLEAN
    BY <1>0, <2>1, <2>3, CallFields
  <2>5. /\ files' \in [Days -> Seq(Pieces)]
        /\ store'.next \in Nat /\ store'.head \in Hashes /\ e.seq \in Nat
    BY <2>1, <2>3, <2>4, WritingTyped DEF LogInv, Follows
  <2>6. [at |-> "sealing", key |-> call[c].key, heard |-> call[c].heard, seq |-> e.seq]
           \in CallStates
    BY <2>4, <2>5, CallRecords
  <2>7. call' \in [Calls -> CallStates] BY <2>3, <2>6
  <2> QED BY <2>3, <2>5, <2>7
<1>3. CASE MaybeSeal(c)
  <2>1. PICK e : e = EventAtHead(NoKey, TRUE) OBVIOUS
  <2>2. ~WriteFails(today, e) BY NoStrike DEF WriteFails
  <2>3. call[c].key \in Keys /\ call[c].heard \in BOOLEAN /\ call[c].seq \in Nat
    BY <1>0, <1>3, CallFields DEF MaybeSeal
  <2>a. ASSUME NEW s \in Seq(Nat) \ {<< >>}, Publishing(c, s)
        PROVE  call' \in [Calls -> CallStates]
    <3>1. [at |-> "publishing", key |-> call[c].key, heard |-> call[c].heard, numbers |-> s]
             \in CallStates
      BY <2>3, CallRecords
    <3> QED BY <2>a, <3>1 DEF Publishing
  <2>4. CASE Publishing(c, <<call[c].seq>>) /\ UNCHANGED <<files, store, faults>>
    <3>1. <<call[c].seq>> \in Seq(Nat) \ {<< >>} BY <2>3
    <3> QED BY <1>3, <2>4, <3>1, <2>a DEF MaybeSeal
  <2>5. CASE /\ PutPiece(today, e, TRUE, TRUE)
             /\ store' = [Remembered(today, e) EXCEPT !.since = 0]
             /\ Publishing(c, <<call[c].seq, e.seq>>)
             /\ UNCHANGED faults
    <3>1. up /\ UNCHANGED <<up, bus, today>> BY <1>3 DEF MaybeSeal
    <3>2. /\ files' \in [Days -> Seq(Pieces)]
          /\ store'.next \in Nat /\ store'.head \in Hashes /\ e.seq \in Nat
      BY <2>1, <2>5, <3>1, WritingTyped DEF LogInv, Follows
    <3>3. <<call[c].seq, e.seq>> \in Seq(Nat) \ {<< >>} BY <2>3, <3>2
    <3>4. call' \in [Calls -> CallStates] BY <2>5, <2>a, <3>3
    <3> QED BY <2>5, <3>1, <3>2, <3>4
  <2> QED BY <1>3, <2>1, <2>2, <2>4, <2>5 DEF MaybeSeal
<1>4. CASE Publish(c)
  <2>1. PICK s : s = call[c].numbers OBVIOUS
  <2>2. call[c].at = "publishing" /\ s \in Seq(Nat) \ {<< >>}
    BY <1>0, <1>4, <2>1, CallFields DEF Publish
  <2>3. call[c].key \in Keys /\ call[c].heard \in BOOLEAN BY <1>0, <2>2, CallFields
  <2>4. Head(s) \in Nat BY <2>2
  <2>5. Append(bus.sent, Head(s)) \in Seq(Nat) BY <2>4, AppendProperties DEF Buses
  <2>6. bus' = [bus EXCEPT !.sent = Append(bus.sent, Head(s))] BY <1>4, <2>1 DEF Publish
  <2>7. bus' \in Buses BY <2>5, <2>6 DEF Buses
  <2>8. call' \in [Calls -> CallStates]
    <3>1. CASE Len(s) = 1
      <4>1. Answer(c, "written") BY <1>4, <2>1, <3>1 DEF Publish
      <4> QED BY <1>a, <2>2, <4>1
    <3>2. CASE Len(s) # 1
      <4>1. Tail(s) \in Seq(Nat) \ {<< >>} BY <2>2, <3>2, TailLeaves
      <4>2. [at |-> "publishing", key |-> call[c].key, heard |-> call[c].heard,
             numbers |-> Tail(s)] \in CallStates
        BY <2>3, <4>1, CallRecords
      <4> QED BY <1>4, <2>1, <3>2, <4>2 DEF Publish, Publishing
    <3> QED BY <3>1, <3>2
  <2> QED BY <1>4, <2>7, <2>8 DEF Publish
<1>5. CASE Hang(c) BY <1>5, CallRecords DEF Hang
<1> QED BY <1>1, <1>2, <1>3, <1>4, <1>5 DEF Handle

\* The bus of a service that starts.
LEMMA NewBusTyped == NewBus \in Buses
BY EmptySeq DEF NewBus, Buses

LEMMA TypesStep ==
    ASSUME Sound, LogInv, ChainInv, LedgerTypes, LedgerStep
    PROVE  LedgerTypes'
<1> USE DEF LedgerTypes
<1>1. CASE Stop
  <2>1. /\ ~up' /\ up' \in BOOLEAN /\ bus' = NewBus /\ call' = Cut /\ UNCHANGED <<files, today>>
        /\ faults' \in 0 .. MaxFaults
    BY <1>1, StrikeCounted DEF Stop
  <2>2. NewBus \in Buses BY NewBusTyped
  <2>3. ASSUME NEW c \in Calls
        PROVE (IF call[c].at \in {"free", "answered"} THEN call[c]
               ELSE [at |-> "answered", key |-> call[c].key,
                     heard |-> call[c].heard, result |-> "failed"]) \in CallStates
    <3>1. call[c] \in CallStates OBVIOUS
    <3> QED BY <3>1, CallFields, CallRecords
  <2>4. call' \in [Calls -> CallStates] BY <2>1, <2>3 DEF Cut
  <2> QED BY <2>1, <2>2, <2>4
<1>2. CASE Open
  <2>1. ~up /\ up' /\ store' = Rebuilt /\ UNCHANGED <<files, call, bus, today, faults>>
        /\ up' = TRUE
    BY <1>2 DEF Open
  <2>2. CASE Places = {}
    <3>1. store' = FreshStore BY <2>1, <2>2 DEF Rebuilt
    <3>2. Genesis \in Hashes BY EmptySeq DEF Genesis, Hashes
    <3> QED BY <2>1, <3>1, <3>2 DEF FreshStore
  <2>3. CASE Places # {}
    <3>1. PICK m \in Nat : Numbered(m) BY DEF ChainInv
    <3>2. LastPlace \in Places BY <2>1, <2>3, <3>1, LastIsLast DEF LogInv
    <3>3. PICK p \in Places : p = LastPlace BY <3>2
    <3>4. Piece(p) \in Pieces
      <4>1. p[1] \in Days /\ p[2] \in 1 .. Len(files[p[1]]) BY PlacesArePairs DEF LogInv
      <4>2. files[p[1]] \in Seq(Pieces) BY <4>1
      <4> QED BY <4>1, <4>2, ElementOfSeq DEF Piece
    <3>5. /\ Piece(p).event.seq \in Nat /\ Piece(p).event.prev \in Hashes
          /\ Piece(p).event.key \in Keys \cup {NoKey} /\ Piece(p).event.seal \in BOOLEAN
      BY <3>4 DEF Pieces, Hashes
    <3>6. store'.next = Piece(p).event.seq + 1 /\ store'.head = Hash(Piece(p).event)
      BY <2>1, <2>3, <3>3 DEF Rebuilt
    <3> QED BY <2>1, <3>5, <3>6, HashTyped
  <2> QED BY <2>2, <2>3
<1>3. CASE Midnight BY <1>3 DEF Midnight
<1>4. CASE SetBack BY <1>4, StrikeCounted DEF SetBack
<1> QED BY <1>1, <1>2, <1>3, <1>4, TypesServed DEF LedgerStep

LEMMA LedgerTypesInit ==
    ASSUME LedgerInit
    PROVE  LedgerTypes
<1>1. NewBus \in Buses /\ Genesis \in Hashes /\ \A d \in Days : << >> \in Seq(Pieces)
  BY EmptySeq, NewBusTyped DEF Genesis, Hashes
<1> QED BY <1>1, CallRecords, LedgerAssumption DEF LedgerInit, LedgerTypes, FreshStore

\* With the chain, they are the types of LedgerTypeOK.
LEMMA LedgerTyped ==
    ASSUME LedgerTypes, ChainInv
    PROVE  LedgerTypeOK
<1>1. ASSUME up PROVE /\ DOMAIN store.index = 0 .. store.next - 1
                      /\ \A n \in DOMAIN store.index : /\ store.index[n] \in Places
                                                       /\ Piece(store.index[n]).event.seq = n
  <2>1. PICK m \in Nat : Numbered(m) BY DEF ChainInv
  <2>2. store.next = m /\ Indexed BY <1>1, <2>1 DEF Numbered, ChainInv
  <2>3. ASSUME NEW n \in 0 .. m - 1
        PROVE  store.index[n] \in Places /\ Piece(store.index[n]).event.seq = n
    <3>1. PICK p \in Places : SeqOf(p) = n BY <2>1 DEF Numbered
    <3>2. store.index[n] = p BY <2>2, <3>1 DEF Indexed
    <3> QED BY <3>1, <3>2 DEF SeqOf
  <2> QED BY <2>2, <2>3 DEF Indexed
<1> QED BY <1>1 DEF LedgerTypes, LedgerTypeOK


-------------------------------------------------------------------------------
(* The numbers on their way to the subscribers.                            *)

\* What a call has written and not published yet.
InHand(c) == IF call[c].at = "sealing" THEN {call[c].seq}
             ELSE IF call[c].at = "publishing" THEN Range(call[c].numbers) ELSE {}
Hands == UNION {InHand(c) : c \in Calls}
OnePlaceEach(s) == \A i, j \in DOMAIN s : s[i] = s[j] => i = j

\* A call that seals has written the last number, and only one seals at a time.
Sealing ==
    /\ \A c \in Calls : call[c].at = "sealing" => call[c].seq + 1 = store.next
    /\ \A c, d \in Calls : call[c].at = "sealing" /\ call[d].at = "sealing" => c = d

\* A number is in one hand, or published once.
Apart ==
    /\ \A c \in Calls : call[c].at = "publishing" => OnePlaceEach(call[c].numbers)
    /\ \A c, d \in Calls : c # d => InHand(c) \cap InHand(d) = {}
    /\ Hands \cap Range(bus.sent) = {}
    /\ OnePlaceEach(bus.sent)

\* What was written since the service started, and no more, is published or in a hand.
Covered ==
    /\ Range(bus.sent) \cup Hands \subseteq DOMAIN store.index
    /\ \E b \in Nat : \A n \in DOMAIN store.index : n >= b <=> n \in Range(bus.sent) \cup Hands

\* A subscriber was given what it went past, but for what the bus no longer held.
Reading ==
    /\ bus.from \in 1 .. bus.next /\ bus.next \in 1 .. Len(bus.sent) + 1
    /\ OnePlaceEach(bus.seen)
    /\ \A i \in DOMAIN bus.seen : \E p \in 1 .. bus.next - 1 : bus.seen[i] = bus.sent[p]
    /\ \A p \in bus.from .. bus.next - 1 :
          bus.sent[p] \in Range(bus.seen) \/ p <= Len(bus.sent) - Capacity

BusInv ==
    /\ Sealing /\ Apart /\ Covered /\ Reading
    /\ ~up => bus = NewBus /\ \A c \in Calls : call[c].at \in {"free", "answered"}

\* A call that stays at its step with what it holds, or holds nothing before and after.
KeepsHand(c) ==
    \/ {call[c].at, call'[c].at} \subseteq {"free", "waiting", "answered"}
    \/ call[c].at = "sealing" /\ call'[c].at = "sealing" /\ call'[c].seq = call[c].seq
    \/ call[c].at = "publishing" /\ call'[c].at = "publishing" /\ call'[c].numbers = call[c].numbers

LEMMA HandKept ==
    ASSUME NEW c, KeepsHand(c)
    PROVE  /\ InHand(c)' = InHand(c)
           /\ call'[c].at = "sealing" <=> call[c].at = "sealing"
           /\ call'[c].at = "publishing" <=> call[c].at = "publishing"
           /\ call[c].at = "sealing" => call'[c].seq = call[c].seq
           /\ call[c].at = "publishing" => call'[c].numbers = call[c].numbers
BY DEF KeepsHand, InHand

\* Steps that publish nothing and write nothing.
LEMMA HandsAlone ==
    ASSUME BusInv, UNCHANGED <<up, store, bus>>, \A c \in Calls : KeepsHand(c),
           ~up => \A c \in Calls : call'[c].at # "waiting"
    PROVE  BusInv'
<1>1. \A c \in Calls : /\ InHand(c)' = InHand(c)
                       /\ call'[c].at = "sealing" <=> call[c].at = "sealing"
                       /\ call'[c].at = "publishing" <=> call[c].at = "publishing"
                       /\ call[c].at = "sealing" => call'[c].seq = call[c].seq
                       /\ call[c].at = "publishing" => call'[c].numbers = call[c].numbers
  BY HandKept
<1>2. Hands' = Hands BY <1>1 DEF Hands
<1>3. Sealing' BY <1>1 DEF BusInv, Sealing
<1>4. Apart' BY <1>1, <1>2 DEF BusInv, Apart, OnePlaceEach
<1>5. Covered' BY <1>2 DEF BusInv, Covered
<1>6. Reading' BY DEF BusInv, Reading, OnePlaceEach
<1>7. ~up' => bus' = NewBus /\ \A c \in Calls : call'[c].at \in {"free", "answered"}
  BY DEF BusInv, KeepsHand
<1> QED BY <1>3, <1>4, <1>5, <1>6, <1>7 DEF BusInv

\* The hands of the calls, when one call moves.
LEMMA OneHandMoves ==
    ASSUME NEW c \in Calls, NEW r, call \in [Calls -> CallStates], call' = [call EXCEPT ![c] = r]
    PROVE  /\ call'[c] = r
           /\ \A d \in Calls : d # c => call'[d] = call[d] /\ InHand(d)' = InHand(d)
           /\ Hands' = InHand(c)' \cup UNION {InHand(d) : d \in Calls \ {c}}
           /\ Hands = InHand(c) \cup UNION {InHand(d) : d \in Calls \ {c}}
<1>1. call'[c] = r /\ \A d \in Calls : d # c => call'[d] = call[d] OBVIOUS
<1>2. \A d \in Calls : d # c => InHand(d)' = InHand(d) BY <1>1 DEF InHand
<1>3. Hands' = InHand(c)' \cup UNION {InHand(d) : d \in Calls \ {c}}
  BY <1>2 DEF Hands
<1>4. Hands = InHand(c) \cup UNION {InHand(d) : d \in Calls \ {c}} BY DEF Hands
<1> QED BY <1>1, <1>2, <1>3, <1>4

\* The handlers that answer without writing.
LEMMA AnswersKeepHands ==
    ASSUME LedgerTypes, BusInv, NEW c \in Calls, Known(c) \/ Refuse(c) \/ Hang(c)
    PROVE  BusInv'
<1>1. UNCHANGED <<up, store, bus>> BY DEF Known, Refuse, Hang
<1>2. call[c].at \in {"waiting", "answered"} BY DEF Known, Refuse, Hang
<1>3. PICK r : call' = [call EXCEPT ![c] = r] /\ r.at \in {"free", "answered"}
  <2>1. CASE Hang(c)
    <3>1. call' = [call EXCEPT ![c] = FreeCall] /\ FreeCall.at = "free"
      BY <2>1 DEF Hang, FreeCall
    <3> QED BY <3>1
  <2>2. CASE Known(c) \/ Refuse(c)
    <3>1. PICK x : Answer(c, x) BY <2>2 DEF Known, Refuse
    <3> DEFINE r == [at |-> "answered", key |-> call[c].key, heard |-> call[c].heard, result |-> x]
    <3>2. call' = [call EXCEPT ![c] = r] /\ r.at = "answered" BY <3>1 DEF Answer
    <3> QED BY <3>2
  <2> QED BY <2>1, <2>2
<1>4. call'[c] = r /\ \A d \in Calls : d # c => call'[d] = call[d]
  BY <1>3, OneHandMoves DEF LedgerTypes
<1>5. \A d \in Calls : KeepsHand(d)
  <2>1. \A d \in Calls : call[d].at \in {"free", "waiting", "sealing", "publishing", "answered"}
    BY CallFields DEF LedgerTypes
  <2> QED BY <1>2, <1>3, <1>4, <2>1 DEF KeepsHand
<1>6. ~up => \A d \in Calls : call'[d].at # "waiting"
  BY <1>3, <1>4 DEF BusInv
<1> QED BY <1>1, <1>5, <1>6, HandsAlone

\* A number that is written goes into the hand of its call.
LEMMA AppendHands ==
    ASSUME Sound, LogInv, ChainInv, LedgerTypes, BusInv, NEW c \in Calls, AppendEvent(c)
    PROVE  BusInv'
<1>1. PICK day, e : day = call[c].day /\ e = EventAtHead(call[c].key, FALSE) OBVIOUS
<1>2. ~WriteFails(day, e) BY NoStrike DEF WriteFails
<1>3. PICK r : r = [at |-> "sealing", key |-> call[c].key, heard |-> call[c].heard, seq |-> e.seq]
  OBVIOUS
<1>4. /\ PutPiece(day, e, TRUE, TRUE) /\ store' = Remembered(day, e) /\ up
      /\ call' = [call EXCEPT ![c] = r]
      /\ UNCHANGED <<up, bus>> /\ call[c].at = "waiting"
      /\ \A d \in Calls : call[d].at # "sealing"
  BY <1>1, <1>2, <1>3 DEF AppendEvent, LockFree
<1>5. PICK m \in Nat : store.next = m /\ DOMAIN store.index = 0 .. m - 1
  BY <1>4 DEF ChainInv, Indexed, Numbered
<1>6. e.seq = m BY <1>1, <1>5 DEF EventAtHead
<1>7. store'.next = m + 1 /\ DOMAIN store'.index = 0 .. m
  <2>1. Follows(store', day, e) BY <1>4 DEF Follows
  <2>2. store'.next = store.next + 1
        /\ store'.index = With(store.index, e.seq, <<day, Len(files[day]) + 1>>)
    BY <2>1, RememberedFields DEF LogInv
  <2> QED BY <1>5, <1>6, <2>2 DEF With
<1>8. /\ call'[c] = r /\ \A d \in Calls : d # c => call'[d] = call[d] /\ InHand(d)' = InHand(d)
      /\ Hands' = InHand(c)' \cup UNION {InHand(d) : d \in Calls \ {c}}
      /\ Hands = InHand(c) \cup UNION {InHand(d) : d \in Calls \ {c}}
  BY <1>4, OneHandMoves DEF LedgerTypes
<1>9. r.at = "sealing" /\ r.seq = m BY <1>3, <1>6
<1>10. InHand(c) = {} /\ InHand(c)' = {m} BY <1>4, <1>8, <1>9 DEF InHand
<1>11. Hands' = Hands \cup {m} BY <1>8, <1>10
<1>12. m \notin Range(bus.sent) \cup Hands BY <1>5 DEF BusInv, Covered
<1>13. Sealing' BY <1>4, <1>7, <1>8, <1>9 DEF Sealing
<1>14. Apart'
  <2>1. \A d \in Calls : call'[d].at = "publishing" => OnePlaceEach(call'[d].numbers)
    BY <1>8, <1>9 DEF BusInv, Apart
  <2>2. \A d \in Calls : d # c => InHand(d) \subseteq Hands BY DEF Hands
  <2>3. ASSUME NEW a \in Calls, NEW d \in Calls, a # d PROVE InHand(a)' \cap InHand(d)' = {}
    <3>1. CASE a # c /\ d # c BY <2>3, <3>1, <1>8 DEF BusInv, Apart
    <3>2. CASE a = c \/ d = c BY <2>3, <3>2, <1>8, <1>10, <1>12, <2>2
    <3> QED BY <3>1, <3>2
  <2>4. Hands' \cap Range(bus'.sent) = {} BY <1>4, <1>11, <1>12 DEF BusInv, Apart
  <2>5. OnePlaceEach(bus'.sent) BY <1>4 DEF BusInv, Apart
  <2> QED BY <2>1, <2>3, <2>4, <2>5 DEF Apart, OnePlaceEach
<1>15. Covered'
  <2>1. Range(bus'.sent) \cup Hands' = (Range(bus.sent) \cup Hands) \cup {m} BY <1>4, <1>11
  <2>2. PICK b \in Nat : \A n \in 0 .. m - 1 : n >= b <=> n \in Range(bus.sent) \cup Hands
    BY <1>5 DEF BusInv, Covered
  <2>3. PICK b2 : b2 = IF b > m THEN m ELSE b OBVIOUS
  <2>4. b2 \in Nat /\ \A n \in 0 .. m : n >= b2 <=> n \in (Range(bus.sent) \cup Hands) \cup {m}
    BY <2>2, <2>3
  <2>5. Range(bus.sent) \cup Hands \subseteq 0 .. m - 1 BY <1>5 DEF BusInv, Covered
  <2>6. (Range(bus.sent) \cup Hands) \cup {m} \subseteq 0 .. m BY <2>5
  <2> QED BY <1>7, <2>1, <2>4, <2>6 DEF Covered
<1>16. Reading' BY <1>4 DEF BusInv, Reading, OnePlaceEach
<1> QED BY <1>4, <1>13, <1>14, <1>15, <1>16 DEF BusInv

\* A seal goes into the hand of the call that wrote it.
LEMMA SealHands ==
    ASSUME Sound, LogInv, ChainInv, LedgerTypes, BusInv, NEW c \in Calls, MaybeSeal(c)
    PROVE  BusInv'
<1>1. PICK e : e = EventAtHead(NoKey, TRUE) OBVIOUS
<1>2. ~WriteFails(today, e) BY NoStrike DEF WriteFails
<1>3. /\ up /\ UNCHANGED <<up, bus>> /\ call[c].at = "sealing"
      /\ \/ Publishing(c, <<call[c].seq>>) /\ UNCHANGED store
         \/ /\ PutPiece(today, e, TRUE, TRUE) /\ Follows(store', today, e)
            /\ Publishing(c, <<call[c].seq, e.seq>>)
  BY <1>1, <1>2 DEF MaybeSeal, Follows
<1>4. PICK m \in Nat : store.next = m /\ DOMAIN store.index = 0 .. m - 1
  BY <1>3 DEF ChainInv, Indexed, Numbered
<1>5. PICK a : a = call[c].seq OBVIOUS
<1>6. a \in Nat /\ a + 1 = m
  <2>1. call[c] \in CallStates BY DEF LedgerTypes
  <2> QED BY <1>3, <1>4, <1>5, <2>1, CallFields DEF BusInv, Sealing
<1>7. \A d \in Calls : d # c => call[d].at # "sealing" BY <1>3 DEF BusInv, Sealing
<1>8. InHand(c) = {a} BY <1>3, <1>5 DEF InHand
<1>9. PICK b \in Nat : \A n \in 0 .. m - 1 : n >= b <=> n \in Range(bus.sent) \cup Hands
  BY <1>4 DEF BusInv, Covered
<1>10. Range(bus.sent) \cup Hands \subseteq 0 .. m - 1 BY <1>4 DEF BusInv, Covered
<1>r. Reading' BY <1>3 DEF BusInv, Reading, OnePlaceEach
<1>11. CASE Publishing(c, <<call[c].seq>>) /\ UNCHANGED store
  <2>1. PICK r : r = [at |-> "publishing", key |-> call[c].key, heard |-> call[c].heard,
                      numbers |-> <<a>>]
    OBVIOUS
  <2>2. call' = [call EXCEPT ![c] = r] BY <1>5, <1>11, <2>1 DEF Publishing
  <2>3. r.at = "publishing" /\ r.numbers = <<a>> BY <2>1
  <2>4. /\ call'[c] = r
        /\ \A d \in Calls : d # c => call'[d] = call[d] /\ InHand(d)' = InHand(d)
        /\ Hands' = InHand(c)' \cup UNION {InHand(d) : d \in Calls \ {c}}
        /\ Hands = InHand(c) \cup UNION {InHand(d) : d \in Calls \ {c}}
    BY <2>2, OneHandMoves DEF LedgerTypes
  <2>5. Range(<<a>>) = {a} /\ OnePlaceEach(<<a>>) BY DEF Range, OnePlaceEach
  <2>6. InHand(c)' = {a} BY <2>3, <2>4, <2>5 DEF InHand
  <2>7. Hands' = Hands /\ \A d \in Calls : InHand(d)' = InHand(d) BY <1>8, <2>4, <2>6
  <2>8. Sealing' BY <1>7, <2>3, <2>4 DEF Sealing
  <2>9. \A d \in Calls : call'[d].at = "publishing" => OnePlaceEach(call'[d].numbers)
    BY <2>3, <2>4, <2>5 DEF BusInv, Apart
  <2>10. Apart' BY <1>3, <2>7, <2>9 DEF BusInv, Apart, OnePlaceEach
  <2>11. Covered' BY <1>3, <1>11, <2>7 DEF BusInv, Covered
  <2> QED BY <1>3, <1>r, <2>8, <2>10, <2>11 DEF BusInv
<1>12. CASE /\ PutPiece(today, e, TRUE, TRUE) /\ Follows(store', today, e)
            /\ Publishing(c, <<call[c].seq, e.seq>>)
  <2>0. e.seq = m BY <1>1, <1>4 DEF EventAtHead
  <2>1. PICK r : r = [at |-> "publishing", key |-> call[c].key, heard |-> call[c].heard,
                      numbers |-> <<a, m>>]
    OBVIOUS
  <2>2. call' = [call EXCEPT ![c] = r] BY <1>5, <1>12, <2>0, <2>1 DEF Publishing
  <2>3. r.at = "publishing" /\ r.numbers = <<a, m>> BY <2>1
  <2>4. /\ call'[c] = r
        /\ \A d \in Calls : d # c => call'[d] = call[d] /\ InHand(d)' = InHand(d)
        /\ Hands' = InHand(c)' \cup UNION {InHand(d) : d \in Calls \ {c}}
        /\ Hands = InHand(c) \cup UNION {InHand(d) : d \in Calls \ {c}}
    BY <2>2, OneHandMoves DEF LedgerTypes
  <2>5. Range(<<a, m>>) = {a, m} /\ OnePlaceEach(<<a, m>>)
    <3>1. DOMAIN <<a, m>> = {1, 2} /\ <<a, m>>[1] = a /\ <<a, m>>[2] = m OBVIOUS
    <3>2. a # m BY <1>6
    <3> QED BY <3>1, <3>2 DEF Range, OnePlaceEach
  <2>6. InHand(c)' = {a, m} BY <2>3, <2>4, <2>5 DEF InHand
  <2>7. Hands' = Hands \cup {m} BY <1>8, <2>4, <2>6
  <2>8. m \notin Range(bus.sent) \cup Hands BY <1>10
  <2>9. store'.next = m + 1 /\ DOMAIN store'.index = 0 .. m
    <3>1. store'.next = store.next + 1
          /\ store'.index = With(store.index, e.seq, <<today, Len(files[today]) + 1>>)
      BY <1>12, RememberedFields DEF LogInv
    <3> QED BY <1>4, <2>0, <3>1 DEF With
  <2>10. Sealing' BY <1>7, <2>3, <2>4 DEF Sealing
  <2>11. Apart'
    <3>1. \A d \in Calls : call'[d].at = "publishing" => OnePlaceEach(call'[d].numbers)
      BY <2>3, <2>4, <2>5 DEF BusInv, Apart
    <3>2. \A d \in Calls : InHand(d) \subseteq Hands BY DEF Hands
    <3>3. ASSUME NEW f \in Calls, NEW d \in Calls, f # d PROVE InHand(f)' \cap InHand(d)' = {}
      <4>1. InHand(f) \cap InHand(d) = {} BY <3>3 DEF BusInv, Apart
      <4>2. CASE f # c /\ d # c BY <4>1, <4>2, <2>4
      <4>3. CASE f = c \/ d = c BY <3>3, <4>1, <4>3, <1>8, <2>4, <2>6, <2>8, <3>2
      <4> QED BY <4>2, <4>3
    <3>4. Hands' \cap Range(bus'.sent) = {} BY <1>3, <2>7, <2>8 DEF BusInv, Apart
    <3>5. OnePlaceEach(bus'.sent) BY <1>3 DEF BusInv, Apart
    <3> QED BY <3>1, <3>3, <3>4, <3>5 DEF Apart, OnePlaceEach
  <2>12. Covered'
    <3>1. Range(bus'.sent) \cup Hands' = (Range(bus.sent) \cup Hands) \cup {m} BY <1>3, <2>7
    <3>2. PICK b2 : b2 = IF b > m THEN m ELSE b OBVIOUS
    <3>3. b2 \in Nat /\ \A n \in 0 .. m : n >= b2 <=> n \in (Range(bus.sent) \cup Hands) \cup {m}
      BY <1>9, <3>2
    <3>4. (Range(bus.sent) \cup Hands) \cup {m} \subseteq 0 .. m BY <1>10
    <3> QED BY <2>9, <3>1, <3>3, <3>4 DEF Covered
  <2> QED BY <1>3, <1>r, <2>10, <2>11, <2>12 DEF BusInv
<1> QED BY <1>3, <1>11, <1>12

\* What a sequence that holds each number once holds when one more is put at its end.
LEMMA AppendOnce ==
    ASSUME NEW s \in Seq(Nat), NEW n \in Nat, OnePlaceEach(s), n \notin Range(s)
    PROVE  Range(Append(s, n)) = Range(s) \cup {n} /\ OnePlaceEach(Append(s, n))
<1>1. PICK u : u = Append(s, n) OBVIOUS
<1>2. DOMAIN s = 1 .. Len(s) /\ Len(s) \in Nat OBVIOUS
<1>3. /\ DOMAIN u = 1 .. Len(s) + 1 /\ u[Len(s) + 1] = n
      /\ \A i \in 1 .. Len(s) : u[i] = s[i]
  BY <1>1
<1>4. Range(u) = Range(s) \cup {n}
  <2>1. ASSUME NEW i \in 1 .. Len(s) + 1 PROVE u[i] \in Range(s) \cup {n}
    <3>1. CASE i = Len(s) + 1 BY <1>3, <3>1
    <3>2. CASE i \in 1 .. Len(s) BY <1>2, <1>3, <3>2 DEF Range
    <3> QED BY <1>2, <3>1, <3>2
  <2>2. ASSUME NEW i \in 1 .. Len(s) PROVE s[i] \in Range(u)
    <3>1. i \in DOMAIN u /\ u[i] = s[i] BY <1>2, <1>3
    <3> QED BY <3>1 DEF Range
  <2>3. n \in Range(u)
    <3>1. Len(s) + 1 \in DOMAIN u BY <1>2, <1>3
    <3> QED BY <1>3, <3>1 DEF Range
  <2> QED BY <1>2, <1>3, <2>1, <2>2, <2>3 DEF Range
<1>5. ASSUME NEW i \in DOMAIN u, NEW j \in DOMAIN u, u[i] = u[j] PROVE i = j
  <2>1. \A k \in 1 .. Len(s) : u[k] # n BY <1>2, <1>3 DEF Range
  <2>2. CASE i \in 1 .. Len(s) /\ j \in 1 .. Len(s)
    BY <1>2, <1>3, <1>5, <2>2 DEF OnePlaceEach
  <2>3. CASE i = Len(s) + 1 \/ j = Len(s) + 1
    BY <1>2, <1>3, <1>5, <2>1, <2>3
  <2> QED BY <1>2, <1>3, <2>2, <2>3
<1> QED BY <1>1, <1>4, <1>5 DEF OnePlaceEach

\* The first of the numbers a call holds goes to the bus, and the call keeps the others.
LEMMA FirstLeaves ==
    ASSUME NEW s \in Seq(Nat) \ {<< >>}, OnePlaceEach(s)
    PROVE  /\ Head(s) \in Range(s)
           /\ Len(s) = 1 => Range(s) = {Head(s)}
           /\ Len(s) # 1 => Range(Tail(s)) = Range(s) \ {Head(s)} /\ OnePlaceEach(Tail(s))
<1>1. /\ DOMAIN s = 1 .. Len(s) /\ Len(s) \in Nat \ {0} /\ Head(s) = s[1]
  OBVIOUS
<1>2. 1 \in DOMAIN s BY <1>1
<1>3. Head(s) \in Range(s) BY <1>1, <1>2 DEF Range
<1>4. ASSUME Len(s) = 1 PROVE Range(s) = {Head(s)} BY <1>1, <1>4 DEF Range
<1>5. ASSUME Len(s) # 1 PROVE Range(Tail(s)) = Range(s) \ {Head(s)} /\ OnePlaceEach(Tail(s))
  <2>1. PICK t : t = Tail(s) OBVIOUS
  <2>2. DOMAIN t = 1 .. Len(s) - 1 /\ \A i \in 1 .. Len(s) - 1 : t[i] = s[i + 1]
    BY <1>1, <2>1
  <2>3. ASSUME NEW i \in 1 .. Len(s) - 1 PROVE s[i + 1] \in Range(s) \ {s[1]}
    <3>1. i + 1 \in DOMAIN s /\ i + 1 # 1 BY <1>1
    <3> QED BY <1>2, <3>1 DEF Range, OnePlaceEach
  <2>4. ASSUME NEW i \in 1 .. Len(s), s[i] # s[1] PROVE s[i] \in Range(t)
    <3>1. i - 1 \in 1 .. Len(s) - 1 /\ s[(i - 1) + 1] = s[i] BY <1>1, <2>4
    <3> QED BY <2>2, <3>1 DEF Range
  <2>5. Range(t) = Range(s) \ {s[1]} BY <1>1, <2>2, <2>3, <2>4 DEF Range
  <2>6. ASSUME NEW i \in DOMAIN t, NEW j \in DOMAIN t, t[i] = t[j] PROVE i = j
    <3>1. i + 1 \in DOMAIN s /\ j + 1 \in DOMAIN s /\ s[i + 1] = s[j + 1]
      BY <1>1, <2>2, <2>6
    <3>2. i + 1 = j + 1 BY <3>1 DEF OnePlaceEach
    <3> QED BY <1>1, <2>2, <3>2
  <2> QED BY <1>1, <2>1, <2>5, <2>6 DEF OnePlaceEach
<1> QED BY <1>3, <1>4, <1>5

\* One more event on the bus, for a subscriber that does not move.
LEMMA SentAppends ==
    ASSUME bus \in Buses, Reading, NEW n \in Nat, bus' = [bus EXCEPT !.sent = Append(bus.sent, n)]
    PROVE  Reading'
<1>1. /\ bus.sent \in Seq(Nat) /\ bus.from \in Nat /\ bus.next \in Nat /\ bus.seen \in Seq(Nat)
      /\ Len(bus.sent) \in Nat
  BY DEF Buses
<1>2. /\ bus'.sent = Append(bus.sent, n) /\ bus'.from = bus.from /\ bus'.next = bus.next
      /\ bus'.seen = bus.seen
  BY DEF Buses
<1>3. /\ Len(bus'.sent) = Len(bus.sent) + 1
      /\ \A p \in 1 .. Len(bus.sent) : bus'.sent[p] = bus.sent[p]
  BY <1>1, <1>2
<1>4. 1 .. bus.next - 1 \subseteq 1 .. Len(bus.sent)
      /\ bus.from .. bus.next - 1 \subseteq 1 .. bus.next - 1
  BY <1>1 DEF Reading
<1>5. \A i \in DOMAIN bus.seen : \E p \in 1 .. bus.next - 1 : bus.seen[i] = bus'.sent[p]
  BY <1>3, <1>4 DEF Reading
<1>6. ASSUME NEW p \in bus.from .. bus.next - 1
      PROVE  bus'.sent[p] \in Range(bus.seen) \/ p <= Len(bus'.sent) - Capacity
  <2>1. bus'.sent[p] = bus.sent[p] BY <1>3, <1>4
  <2>2. bus.sent[p] \in Range(bus.seen) \/ p <= Len(bus.sent) - Capacity BY DEF Reading
  <2>3. p \in Nat /\ Capacity \in Nat
    BY <1>1, LedgerAssumption DEF LedgerAssumption, Reading
  <2>4. p <= Len(bus.sent) - Capacity => p <= Len(bus'.sent) - Capacity
    BY <1>1, <1>3, <2>3
  <2> QED BY <2>1, <2>2, <2>4
<1>7. bus.from \in 1 .. bus.next /\ bus.next \in 1 .. Len(bus'.sent) + 1
  BY <1>1, <1>3 DEF Reading
<1> QED BY <1>2, <1>5, <1>6, <1>7 DEF Reading, OnePlaceEach

\* What a call holds goes to the bus, one number at a time.
LEMMA PublishHands ==
    ASSUME LedgerTypes, BusInv, NEW c \in Calls, Publish(c)
    PROVE  BusInv'
<1>1. PICK s : s = call[c].numbers OBVIOUS
<1>2. /\ up /\ UNCHANGED <<up, store>> /\ call[c].at = "publishing"
      /\ bus' = [bus EXCEPT !.sent = Append(bus.sent, Head(s))]
  BY <1>1 DEF Publish
<1>3. s \in Seq(Nat) \ {<< >>} /\ bus \in Buses /\ bus.sent \in Seq(Nat)
  <2>1. call[c] \in CallStates /\ bus \in Buses BY DEF LedgerTypes
  <2> QED BY <1>1, <1>2, <2>1, CallFields DEF Buses
<1>4. PICK n \in Nat : n = Head(s) BY <1>3
<1>5. PICK r : r = IF Len(s) = 1
                   THEN [at |-> "answered", key |-> call[c].key, heard |-> call[c].heard,
                         result |-> "written"]
                   ELSE [at |-> "publishing", key |-> call[c].key, heard |-> call[c].heard,
                         numbers |-> Tail(s)]
  OBVIOUS
<1>6. call' = [call EXCEPT ![c] = r] BY <1>1, <1>5 DEF Publish, Answer, Publishing
<1>7. /\ Len(s) = 1 => r.at = "answered"
      /\ Len(s) # 1 => r.at = "publishing" /\ r.numbers = Tail(s)
  BY <1>5
<1>8. /\ call'[c] = r
      /\ \A d \in Calls : d # c => call'[d] = call[d] /\ InHand(d)' = InHand(d)
      /\ Hands' = InHand(c)' \cup UNION {InHand(d) : d \in Calls \ {c}}
      /\ Hands = InHand(c) \cup UNION {InHand(d) : d \in Calls \ {c}}
  BY <1>6, OneHandMoves DEF LedgerTypes
<1>9. OnePlaceEach(s) /\ InHand(c) = Range(s) BY <1>1, <1>2 DEF BusInv, Apart, InHand
<1>10. /\ n \in InHand(c) /\ InHand(c)' = InHand(c) \ {n}
       /\ Len(s) # 1 => OnePlaceEach(Tail(s))
  <2>1. /\ n \in Range(s)
        /\ Len(s) = 1 => Range(s) = {n}
        /\ Len(s) # 1 => Range(Tail(s)) = Range(s) \ {n} /\ OnePlaceEach(Tail(s))
    BY <1>3, <1>4, <1>9, FirstLeaves
  <2>2. CASE Len(s) = 1
    <3>1. InHand(c)' = {} BY <1>7, <1>8, <2>2 DEF InHand
    <3> QED BY <1>9, <2>1, <2>2, <3>1
  <2>3. CASE Len(s) # 1
    <3>1. InHand(c)' = Range(Tail(s)) BY <1>7, <1>8, <2>3 DEF InHand
    <3> QED BY <1>9, <2>1, <2>3, <3>1
  <2> QED BY <2>2, <2>3
<1>11. bus'.sent = Append(bus.sent, n) BY <1>2, <1>3, <1>4 DEF Buses
<1>12. \A d \in Calls : InHand(d) \subseteq Hands BY DEF Hands
<1>13. n \notin Range(bus.sent) /\ OnePlaceEach(bus.sent) BY <1>10, <1>12 DEF BusInv, Apart
<1>14. Range(bus'.sent) = Range(bus.sent) \cup {n} /\ OnePlaceEach(bus'.sent)
  BY <1>3, <1>11, <1>13, AppendOnce
<1>15. Hands' = Hands \ {n}
  <2>1. \A d \in Calls : d # c => n \notin InHand(d) BY <1>10 DEF BusInv, Apart
  <2> QED BY <1>8, <1>10, <2>1
<1>16. Range(bus'.sent) \cup Hands' = Range(bus.sent) \cup Hands
  BY <1>10, <1>12, <1>14, <1>15
<1>17. Sealing' BY <1>2, <1>7, <1>8 DEF BusInv, Sealing
<1>18. Apart'
  <2>1. \A d \in Calls : call'[d].at = "publishing" => OnePlaceEach(call'[d].numbers)
    BY <1>7, <1>8, <1>10 DEF BusInv, Apart
  <2>2. \A d \in Calls : InHand(d)' \subseteq InHand(d) BY <1>8, <1>10
  <2>3. \A a, d \in Calls : a # d => InHand(a)' \cap InHand(d)' = {}
    BY <2>2 DEF BusInv, Apart
  <2>4. Hands' \cap Range(bus'.sent) = {} BY <1>14, <1>15 DEF BusInv, Apart
  <2> QED BY <1>14, <2>1, <2>3, <2>4 DEF Apart, OnePlaceEach
<1>19. Covered' BY <1>2, <1>16 DEF BusInv, Covered
<1>20. Reading' BY <1>2, <1>3, <1>4, SentAppends DEF BusInv
<1> QED BY <1>2, <1>17, <1>18, <1>19, <1>20 DEF BusInv

\* A bus that starts has sent nothing, and nobody has read any of it.
LEMMA NewBusReads ==
    ASSUME bus' = NewBus
    PROVE  Reading' /\ OnePlaceEach(bus'.sent)
BY DEF NewBus, Reading, OnePlaceEach, Range

\* A service that stops has nobody left to tell.
LEMMA StopHands ==
    ASSUME LedgerTypes, Stop
    PROVE  BusInv'
<1>1. ~up' /\ store' = FreshStore /\ bus' = NewBus /\ call' = Cut BY DEF Stop
<1>2. \A c \in Calls : call'[c].at \in {"free", "answered"}
  BY <1>1 DEF Cut
<1>3. \A c \in Calls : InHand(c)' = {} BY <1>2 DEF InHand
<1>4. Hands' = {} /\ Range(bus'.sent) = {} BY <1>1, <1>3 DEF Hands, Range, NewBus
<1>5. OnePlaceEach(bus'.sent) /\ Reading' BY <1>1, NewBusReads
<1>6. DOMAIN store'.index = {} BY <1>1 DEF FreshStore, Empty
<1>7. Sealing' BY <1>2 DEF Sealing
<1>8. Apart' BY <1>2, <1>3, <1>4, <1>5 DEF Apart, OnePlaceEach
<1>9. Covered' BY <1>4, <1>6 DEF Covered
<1> QED BY <1>1, <1>2, <1>5, <1>7, <1>8, <1>9 DEF BusInv

\* A service that starts again has published none of what it finds.
LEMMA OpenHands ==
    ASSUME LogInv, ChainInv, LedgerTypes, BusInv, Open
    PROVE  BusInv'
<1>1. ~up /\ up' /\ UNCHANGED <<call, bus>> BY DEF Open
<1>2. bus = NewBus /\ \A c \in Calls : call[c].at \in {"free", "answered"}
  BY <1>1 DEF BusInv
<1>3. \A c \in Calls : InHand(c)' = {} BY <1>1, <1>2 DEF InHand
<1>4. Hands' = {} /\ Range(bus'.sent) = {} BY <1>1, <1>2, <1>3 DEF Hands, Range, NewBus
<1>5. PICK m \in Nat : DOMAIN store'.index = 0 .. m - 1
  <2>1. ChainInv' BY ChainReopens DEF LogInv
  <2>2. PICK m \in Nat : Numbered(m)' BY <2>1 DEF ChainInv
  <2>3. store'.next = m /\ Indexed' BY <1>1, <2>1, <2>2 DEF ChainInv, Numbered
  <2> QED BY <2>3 DEF Indexed
<1>6. Sealing' BY <1>1, <1>2 DEF Sealing
<1>7. Apart' /\ Reading' BY <1>1, <1>2, <1>3, <1>4, NewBusReads DEF Apart
<1>8. Covered'
  <2>1. \A n \in 0 .. m - 1 : ~(n >= m) OBVIOUS
  <2> QED BY <1>4, <1>5, <2>1 DEF Covered
<1> QED BY <1>1, <1>6, <1>7, <1>8 DEF BusInv

LEMMA BusStep ==
    ASSUME Sound, LogInv, ChainInv, LedgerTypes, BusInv, LedgerStep
    PROVE  BusInv'
<1>1. ASSUME NEW c \in Calls, Handle(c) PROVE BusInv'
  BY <1>1, AnswersKeepHands, AppendHands, SealHands, PublishHands DEF Handle
<1>2. CASE Midnight \/ SetBack
  <2>1. UNCHANGED <<up, store, bus, call>> BY <1>2 DEF Midnight, SetBack
  <2>2. \A c \in Calls : call[c].at \in {"free", "waiting", "sealing", "publishing", "answered"}
    BY CallFields DEF LedgerTypes
  <2>3. \A c \in Calls : KeepsHand(c) BY <2>1, <2>2 DEF KeepsHand
  <2>4. ~up => \A c \in Calls : call'[c].at # "waiting" BY <2>1 DEF BusInv
  <2> QED BY <2>1, <2>3, <2>4, HandsAlone
<1> QED BY <1>1, <1>2, StopHands, OpenHands DEF LedgerStep

LEMMA BusInvInit ==
    ASSUME LedgerInit
    PROVE  BusInv
<1>1. \A c \in Calls : call[c].at = "free" BY DEF LedgerInit, FreeCall
<1>2. \A c \in Calls : InHand(c) = {} BY <1>1 DEF InHand
<1>3. Hands = {} /\ Range(bus.sent) = {} BY <1>2 DEF LedgerInit, Hands, Range, NewBus
<1>4. OnePlaceEach(bus.sent) /\ Reading
  BY DEF LedgerInit, NewBus, Reading, OnePlaceEach, Range
<1>5. DOMAIN store.index = {} BY DEF LedgerInit, FreshStore, Empty
<1> QED BY <1>1, <1>2, <1>3, <1>4, <1>5 DEF LedgerInit, BusInv, Sealing, Apart, Covered

\* A subscriber that reads the next event has not read it before.
LEMMA ReceiveReads ==
    ASSUME bus \in Buses, Reading, OnePlaceEach(bus.sent), Receive
    PROVE  bus' \in Buses /\ Reading' /\ bus'.sent = bus.sent
<1>1. /\ bus.sent \in Seq(Nat) /\ bus.from \in Nat /\ bus.next \in Nat /\ bus.seen \in Seq(Nat)
      /\ Len(bus.sent) \in Nat /\ DOMAIN bus.sent = 1 .. Len(bus.sent)
  BY DEF Buses
<1>2. Capacity \in Nat \ {0} BY LedgerAssumption DEF LedgerAssumption
<1>3. bus.from \in 1 .. bus.next /\ bus.next \in 1 .. Len(bus.sent)
  BY <1>1 DEF Receive, Reading
<1>4. CASE bus' = [bus EXCEPT !.next = @ + 1, !.seen = Append(@, bus.sent[bus.next])]
  <2>1. PICK n \in Nat : n = bus.sent[bus.next] BY <1>1, <1>3
  <2>2. /\ bus'.sent = bus.sent /\ bus'.from = bus.from /\ bus'.next = bus.next + 1
        /\ bus'.seen = Append(bus.seen, n)
    BY <1>4, <2>1 DEF Buses
  <2>3. Append(bus.seen, n) \in Seq(Nat) BY <1>1, AppendProperties
  <2>4. bus' \in Buses
    <3>1. bus' = [bus EXCEPT !.next = bus.next + 1, !.seen = Append(bus.seen, n)] BY <1>4, <2>1
    <3>2. bus.next + 1 \in Nat BY <1>1
    <3> QED BY <2>3, <3>1, <3>2 DEF Buses
  <2>5. n \notin Range(bus.seen)
    <3> SUFFICES ASSUME NEW i \in DOMAIN bus.seen, bus.seen[i] = n PROVE FALSE
      BY DEF Range
    <3>1. PICK p \in 1 .. bus.next - 1 : bus.seen[i] = bus.sent[p] BY DEF Reading
    <3>2. p \in DOMAIN bus.sent /\ bus.next \in DOMAIN bus.sent /\ p # bus.next
      BY <1>1, <1>3
    <3> QED BY <2>1, <3>1, <3>2 DEF OnePlaceEach
  <2>6. Range(bus'.seen) = Range(bus.seen) \cup {n} /\ OnePlaceEach(bus'.seen)
    BY <1>1, <2>2, <2>5, AppendOnce DEF Reading
  <2>7. \A i \in DOMAIN bus'.seen : \E p \in 1 .. bus.next : bus'.seen[i] = bus.sent[p]
    <3> SUFFICES ASSUME NEW x \in Range(bus'.seen) PROVE \E p \in 1 .. bus.next : x = bus.sent[p]
      BY DEF Range
    <3>1. CASE x = n BY <1>1, <1>3, <2>1, <3>1
    <3>2. CASE x \in Range(bus.seen)
      <4>1. PICK p \in 1 .. bus.next - 1 : x = bus.sent[p] BY <3>2 DEF Range, Reading
      <4> QED BY <1>1, <4>1
    <3> QED BY <2>6, <3>1, <3>2
  <2>8. ASSUME NEW p \in bus.from .. bus.next
        PROVE  bus.sent[p] \in Range(bus'.seen) \/ p <= Len(bus.sent) - Capacity
    <3>1. CASE p = bus.next BY <2>1, <2>6, <3>1
    <3>2. CASE p \in bus.from .. bus.next - 1 BY <2>6, <3>2 DEF Reading
    <3> QED BY <1>1, <3>1, <3>2
  <2>9. bus'.from \in 1 .. bus'.next /\ bus'.next \in 1 .. Len(bus'.sent) + 1
        /\ bus'.next - 1 = bus.next
    BY <1>1, <1>3, <2>2
  <2> QED BY <2>2, <2>4, <2>6, <2>7, <2>8, <2>9 DEF Reading
<1>5. CASE /\ bus.next < Len(bus.sent) - Capacity + 1
           /\ bus' = [bus EXCEPT !.next = Len(bus.sent) - Capacity + 1]
  <2>1. /\ bus'.sent = bus.sent /\ bus'.from = bus.from /\ bus'.seen = bus.seen
        /\ bus'.next = Len(bus.sent) - Capacity + 1
    BY <1>5 DEF Buses
  <2>2. bus'.next \in Nat /\ bus.next < bus'.next /\ bus'.next <= Len(bus.sent)
    BY <1>1, <1>2, <1>5, <2>1
  <2>3. bus' \in Buses BY <1>5, <2>1, <2>2 DEF Buses
  <2>4. bus.from \in 1 .. bus'.next /\ bus'.next \in 1 .. Len(bus.sent) + 1
    BY <1>1, <1>3, <2>2
  <2>5. \A i \in DOMAIN bus.seen : \E p \in 1 .. bus'.next - 1 : bus.seen[i] = bus.sent[p]
    <3> SUFFICES ASSUME NEW i \in DOMAIN bus.seen
                 PROVE  \E p \in 1 .. bus'.next - 1 : bus.seen[i] = bus.sent[p]
      OBVIOUS
    <3>1. PICK p \in 1 .. bus.next - 1 : bus.seen[i] = bus.sent[p] BY DEF Reading
    <3>2. p \in 1 .. bus'.next - 1 BY <1>1, <2>2
    <3> QED BY <3>1, <3>2
  <2>6. ASSUME NEW p \in bus.from .. bus'.next - 1 PROVE p <= Len(bus.sent) - Capacity
    BY <1>1, <1>2, <2>1
  <2>7. OnePlaceEach(bus'.seen) BY <2>1 DEF Reading
  <2> QED BY <2>1, <2>3, <2>4, <2>5, <2>6, <2>7 DEF Reading
<1> QED BY <1>4, <1>5 DEF Receive

\* One that comes has nothing to read yet.
LEMMA SubscribeReads ==
    ASSUME bus \in Buses, Subscribe
    PROVE  bus' \in Buses /\ Reading' /\ bus'.sent = bus.sent
<1>1. PICK n : n = Len(bus.sent) + 1 OBVIOUS
<1>2. n \in Nat \ {0} BY <1>1 DEF Buses
<1>3. bus' = [bus EXCEPT !.from = n, !.next = n, !.seen = << >>] BY <1>1 DEF Subscribe
<1>4. /\ bus'.sent = bus.sent /\ bus'.from = n /\ bus'.next = n /\ bus'.seen = << >>
  BY <1>3 DEF Buses
<1>5. bus' \in Buses BY <1>2, <1>3, EmptySeq DEF Buses
<1>6. n \in 1 .. n /\ n \in 1 .. Len(bus.sent) + 1 BY <1>1, <1>2
<1>7. \A p \in n .. n - 1 : FALSE BY <1>2
<1> QED BY <1>4, <1>5, <1>6, <1>7 DEF Reading, OnePlaceEach

LEMMA BusListens ==
    ASSUME LedgerTypes, BusInv, Listen
    PROVE  BusInv' /\ bus' \in Buses
<1>1. UNCHANGED <<up, store, call>> BY ListenMoves
<1>2. bus' \in Buses /\ Reading' /\ bus'.sent = bus.sent
  BY ReceiveReads, SubscribeReads DEF Listen, LedgerTypes, BusInv, Apart
<1>3. \A c \in Calls : InHand(c)' = InHand(c) BY <1>1 DEF InHand
<1>4. Hands' = Hands BY <1>3 DEF Hands
<1>5. Sealing' BY <1>1 DEF BusInv, Sealing
<1>6. Apart' BY <1>1, <1>2, <1>3, <1>4 DEF BusInv, Apart, OnePlaceEach
<1>7. Covered' BY <1>1, <1>2, <1>4 DEF BusInv, Covered
<1>8. up
  <2>1. CASE Subscribe BY <2>1 DEF Subscribe
  <2>2. CASE Receive BY <2>2 DEF Receive, BusInv, NewBus
  <2> QED BY <2>1, <2>2 DEF Listen
<1> QED BY <1>1, <1>2, <1>5, <1>6, <1>7, <1>8 DEF BusInv

LEMMA BusIsFaithful ==
    ASSUME BusInv, LedgerTypes, ChainInv
    PROVE  BusFaithful
<1>1. \A i, j \in DOMAIN bus.seen : bus.seen[i] = bus.seen[j] => i = j
  BY DEF BusInv, Reading, OnePlaceEach
<1>2. /\ bus.sent \in Seq(Nat) /\ bus.from \in Nat /\ bus.next \in Nat
      /\ Len(bus.sent) \in Nat /\ DOMAIN bus.sent = 1 .. Len(bus.sent)
  BY DEF LedgerTypes, Buses
<1>3. Range(bus.seen) \subseteq Range(bus.sent)
  <2> SUFFICES ASSUME NEW i \in DOMAIN bus.seen PROVE bus.seen[i] \in Range(bus.sent)
    BY DEF Range
  <2>1. PICK p \in 1 .. bus.next - 1 : bus.seen[i] = bus.sent[p] BY DEF BusInv, Reading
  <2>2. p \in DOMAIN bus.sent BY <1>2 DEF BusInv, Reading
  <2> QED BY <2>1, <2>2 DEF Range
<1>4. Range(bus.sent) \subseteq DOMAIN store.index BY DEF BusInv, Covered
<1>5. ASSUME NEW n \in DOMAIN store.index \ Range(bus.seen), NEW m \in Range(bus.seen), m < n
      PROVE  \/ OnItsWay(n)
             \/ \E p \in DOMAIN bus.sent :
                   /\ bus.sent[p] = n
                   /\ p \notin bus.from .. bus.next - 1 \/ p <= Len(bus.sent) - Capacity
  <2>1. DOMAIN store.index \subseteq Nat
    <3>1. CASE up
      <4>1. store.next \in Nat BY <3>1 DEF LedgerTypes
      <4> QED BY <3>1, <4>1 DEF ChainInv, Indexed
    <3>2. CASE ~up BY <3>2 DEF ChainInv, FreshStore, Empty
    <3> QED BY <3>1, <3>2
  <2>2. PICK b \in Nat : \A k \in DOMAIN store.index : k >= b <=> k \in Range(bus.sent) \cup Hands
    BY DEF BusInv, Covered
  <2>3. m \in Nat /\ n \in Nat BY <1>3, <1>4, <2>1
  <2>4. m >= b BY <1>3, <1>4, <2>2
  <2>5. n >= b BY <1>5, <2>3, <2>4
  <2>6. CASE n \in Hands
    <3>1. PICK c \in Calls : n \in InHand(c) BY <2>6 DEF Hands
    <3> QED BY <3>1 DEF InHand, OnItsWay
  <2>7. CASE n \in Range(bus.sent)
    <3>1. PICK p \in DOMAIN bus.sent : bus.sent[p] = n BY <2>7 DEF Range
    <3>2. p \in bus.from .. bus.next - 1 => p <= Len(bus.sent) - Capacity
      BY <3>1 DEF BusInv, Reading
    <3> QED BY <3>1, <3>2
  <2> QED BY <2>2, <2>5, <2>6, <2>7
<1> QED BY <1>1, <1>3, <1>4, <1>5 DEF BusFaithful


-------------------------------------------------------------------------------
(* The log, with any client.                                               *)

LedgerInv == LogInv /\ ChainInv /\ LedgerTypes /\ BusInv

LEMMA LedgerInvStep ==
    ASSUME Sound, OrderedStops, LedgerInv, LedgerStep
    PROVE  LedgerInv'
BY LedgerStepKeeps, ChainStep, TypesStep, BusStep DEF LedgerInv

LEMMA LedgerInvInit ==
    ASSUME LedgerInit
    PROVE  LedgerInv
BY LogInvInit, ChainInvInit, LedgerTypesInit, BusInvInit DEF LedgerInv

\* Nothing of the log moves, nor do the calls.
LEMMA LedgerInvAlone ==
    ASSUME LedgerInv, UNCHANGED <<files, up, store, call, bus, today>>, faults' \in 0 .. MaxFaults
    PROVE  LedgerInv'
<1>1. LogInv' BY CallerStep DEF LedgerInv
<1>2. ChainInv' BY ChainAlone DEF LedgerInv
<1>3. LedgerTypes' BY DEF LedgerInv, LedgerTypes
<1>4. \A c \in Calls : call[c].at \in {"free", "waiting", "sealing", "publishing", "answered"}
  BY CallFields DEF LedgerInv, LedgerTypes
<1>5. \A c \in Calls : KeepsHand(c) BY <1>4 DEF KeepsHand
<1>6. ~up => \A c \in Calls : call'[c].at # "waiting" BY DEF LedgerInv, BusInv
<1>7. BusInv' BY <1>5, <1>6, HandsAlone DEF LedgerInv
<1> QED BY <1>1, <1>2, <1>3, <1>7 DEF LedgerInv

\* A caller moves its call, and the log does not move.
LEMMA CallMoves ==
    ASSUME LedgerInv, UNCHANGED <<files, up, store, bus, today>>, faults' \in 0 .. MaxFaults,
           NEW c \in Calls, NEW r \in CallStates, call' = [call EXCEPT ![c] = r],
           CallTells(r, InLog), ~up => r.at # "waiting",
           \/ {call[c].at, r.at} \subseteq {"free", "waiting", "answered"}
           \/ r = [call[c] EXCEPT !.heard = FALSE]
    PROVE  LedgerInv'
<1>0. call \in [Calls -> CallStates] BY DEF LedgerInv, LedgerTypes
<1>1. LogInv' BY CallerStep DEF LedgerInv
<1>2. ChainInv' BY ChainAlone DEF LedgerInv
<1>3. LedgerTypes' BY DEF LedgerInv, LedgerTypes
<1>4. call'[c] = r /\ \A d \in Calls : d # c => call'[d] = call[d] BY <1>0
<1>5. \A d \in Calls : call[d].at \in {"free", "waiting", "sealing", "publishing", "answered"}
  BY <1>0, CallFields
<1>6. KeepsHand(c)
  <2>1. CASE {call[c].at, r.at} \subseteq {"free", "waiting", "answered"}
    BY <1>4, <2>1 DEF KeepsHand
  <2>2. CASE r = [call[c] EXCEPT !.heard = FALSE]
    <3>1. CallTells(call[c], InLog) BY DEF LedgerInv, LogInv
    <3>2. r.at = call[c].at BY <2>2, <3>1 DEF CallTells
    <3>3. r.seq = call[c].seq \/ "seq" \notin DOMAIN call[c] BY <2>2
    <3>4. r.numbers = call[c].numbers \/ "numbers" \notin DOMAIN call[c] BY <2>2
    <3>5. /\ call[c].at = "sealing" => "seq" \in DOMAIN call[c]
          /\ call[c].at = "publishing" => "numbers" \in DOMAIN call[c]
      BY <1>0 DEF CallStates
    <3> QED BY <1>4, <1>5, <3>2, <3>3, <3>4, <3>5 DEF KeepsHand
  <2> QED BY <2>1, <2>2
<1>7. \A d \in Calls : KeepsHand(d) BY <1>4, <1>5, <1>6 DEF KeepsHand
<1>8. ~up => \A d \in Calls : call'[d].at # "waiting" BY <1>4 DEF LedgerInv, BusInv
<1>9. BusInv' BY <1>7, <1>8, HandsAlone DEF LedgerInv
<1> QED BY <1>1, <1>2, <1>3, <1>9 DEF LedgerInv

LEMMA AskMoves ==
    ASSUME LedgerInv, NEW c \in Calls, NEW k \in Keys, Ask(c, k)
    PROVE  LedgerInv'
<1>1. PICK r : /\ r = IF up THEN [at |-> "waiting", key |-> k, heard |-> TRUE, day |-> today]
                            ELSE [at |-> "answered", key |-> k, heard |-> TRUE, result |-> "failed"]
  OBVIOUS
<1>2. call' = [call EXCEPT ![c] = r] BY <1>1 DEF Ask
<1>3. today \in Days /\ faults \in 0 .. MaxFaults BY DEF LedgerInv, LedgerTypes
<1>4. r \in CallStates /\ r.at = (IF up THEN "waiting" ELSE "answered")
  BY <1>1, <1>3, CallRecords
<1>5. CallTells(r, InLog) BY <1>1, <1>3 DEF CallTells
<1>6. call[c].at = "free" /\ UNCHANGED <<files, up, store, bus, today, faults>> BY DEF Ask
<1> QED BY <1>2, <1>3, <1>4, <1>5, <1>6, CallMoves

LEMMA FreeMoves ==
    ASSUME LedgerInv, NEW c \in Calls, call[c].at = "answered",
           call' = [call EXCEPT ![c] = FreeCall], UNCHANGED <<files, up, store, bus, today, faults>>
    PROVE  LedgerInv'
<1>1. FreeCall \in CallStates /\ FreeCall.at = "free" BY CallRecords DEF FreeCall
<1>2. CallTells(FreeCall, InLog) BY DEF CallTells, FreeCall
<1>3. faults \in 0 .. MaxFaults BY DEF LedgerInv, LedgerTypes
<1>4. PICK r : r = FreeCall OBVIOUS
<1> QED BY <1>1, <1>2, <1>3, <1>4, CallMoves

LEMMA GoneMoves ==
    ASSUME LedgerInv, NEW c \in Calls, call[c].at # "free",
           call' = [call EXCEPT ![c].heard = FALSE], UNCHANGED <<files, up, store, bus, today>>,
           faults' \in 0 .. MaxFaults
    PROVE  LedgerInv'
<1>1. PICK r : r = [call[c] EXCEPT !.heard = FALSE] OBVIOUS
<1>2. call[c] \in CallStates /\ CallTells(call[c], InLog) BY DEF LedgerInv, LedgerTypes, LogInv
<1>3. r \in CallStates BY <1>1, <1>2, GoneRecord
<1>4. CallTells(r, InLog) /\ r.at = call[c].at BY <1>1, <1>2 DEF CallTells
<1>5. ~up => r.at # "waiting" BY <1>4 DEF LedgerInv, BusInv
<1>6. call' = [call EXCEPT ![c] = r] BY <1>1
<1> QED BY <1>1, <1>3, <1>4, <1>5, <1>6, CallMoves

LEMMA LedgerInvNext ==
    ASSUME Sound, OrderedStops, LedgerInv, [LedgerNext]_lvars
    PROVE  LedgerInv'
<1>0. faults \in 0 .. MaxFaults BY DEF LedgerInv, LedgerTypes
<1>1. ASSUME NEW c \in Calls, Collect(c) PROVE LedgerInv'
  BY <1>1, FreeMoves DEF Collect
<1>2. ASSUME NEW c \in Calls, Leave(c) PROVE LedgerInv'
  BY <1>0, <1>2, GoneMoves, StrikeCounted DEF Leave
<1>3. ASSUME NEW c \in Calls, NEW k \in Keys, Ask(c, k) PROVE LedgerInv'
  BY <1>3, AskMoves
<1>4. CASE UNCHANGED lvars BY <1>0, <1>4, LedgerInvAlone DEF lvars
<1> QED BY <1>1, <1>2, <1>3, <1>4, LedgerInvStep DEF LedgerNext

\* ledger.verify accepts the log at every moment, whatever its clients send again and wherever
\* its clock goes (prophet-ledger.rs, "the only writer").
THEOREM LogIsVerified ==
    ASSUME Sound, OrderedStops
    PROVE  LedgerSpec => []ChainVerifies
<1>1. LedgerInv => ChainVerifies BY ChainIsVerified DEF LedgerInv, LogInv, ChainVerifies
<1> QED BY <1>1, LedgerInvInit, LedgerInvNext, PTL DEF LedgerSpec

\* A query finds every event of its mission from the number it starts at, whatever file the
\* clock put it in (Store::query, read_since).
THEOREM QueriesFindAll ==
    ASSUME Sound, OrderedStops
    PROVE  LedgerSpec => []QueriesComplete
<1>1. LedgerInv => QueriesComplete BY ChainAnswersQueries DEF LedgerInv, LogInv
<1> QED BY <1>1, LedgerInvInit, LedgerInvNext, PTL DEF LedgerSpec

LEMMA LedgerInvListens ==
    ASSUME LedgerInv, Listen
    PROVE  LedgerInv'
<1>1. UNCHANGED <<files, up, store, call, today>> BY ListenMoves
<1>2. faults' \in 0 .. MaxFaults
  BY StrikeCounted DEF LedgerInv, LedgerTypes, Listen, Subscribe, Receive
<1>3. BusInv' /\ bus' \in Buses BY BusListens DEF LedgerInv
<1>4. LogInv' BY <1>1, CallerStep DEF LedgerInv
<1>5. ChainInv' BY <1>1, ChainAlone DEF LedgerInv
<1>6. LedgerTypes' BY <1>1, <1>2, <1>3 DEF LedgerInv, LedgerTypes
<1> QED BY <1>3, <1>4, <1>5, <1>6 DEF LedgerInv

\* With any clients of the log, a subscriber that comes at any moment and reads at its own pace
\* sees each number once, and misses only what the bus no longer held, what was sent before it
\* came and what is still on its way (subscribe.rs).
THEOREM SubscribersSeeOnce ==
    ASSUME Sound, OrderedStops
    PROVE  ListenedSpec => []BusFaithful
<1>1. LedgerInv => BusFaithful BY BusIsFaithful DEF LedgerInv
<1>2. LedgerInv /\ [LedgerNext \/ Listen]_lvars => LedgerInv'
  BY LedgerInvNext, LedgerInvListens
<1> QED BY <1>1, <1>2, LedgerInvInit, PTL DEF ListenedSpec


-------------------------------------------------------------------------------
(* The types of the outbox.                                                *)

\* Keys are numbers, and a set of them that is not empty has an oldest.
LEMMA KeysAreNumbers ==
    /\ Cardinality(Keys) \in Nat /\ Keys = 1 .. Cardinality(Keys) /\ Keys \subseteq Nat
    /\ \A q \in SUBSET Keys : q # {} => Oldest(q) \in q /\ \A k \in q : Oldest(q) <= k
<1>1. Cardinality(Keys) \in Nat BY OutboxAssumption, FS_CardinalityType
<1>2. Keys = 1 .. Cardinality(Keys) /\ Keys \subseteq Nat BY <1>1, OutboxAssumption
<1>3. ASSUME NEW q \in SUBSET Keys, q # {}
      PROVE  Oldest(q) \in q /\ \A k \in q : Oldest(q) <= k
  <2>1. q \in SUBSET Nat BY <1>2
  <2>2. \E n \in q : \A k \in q : n <= k BY <1>3, <2>1, LeastNumber
  <2> QED BY <2>2 DEF Oldest
<1> QED BY <1>1, <1>2, <1>3

OutboxTypes ==
    /\ running \in BOOLEAN
    /\ fresh \in 1 .. Cardinality(Keys) + 1 /\ unsaved \in Nat
    /\ dropped \subseteq Keys
    /\ sending \in [batch : SUBSET Keys, slot : Calls \cup {NoCall}, received : BOOLEAN]
    /\ Cardinality(mem.queue) <= QueueMax /\ Cardinality(disk.queue) <= QueueMax

\* The sender waits for the event it sends, and a stopped agentd holds nothing.
Sender ==
    /\ sending.slot # NoCall => sending.batch # {}
    /\ running => disk.done \subseteq mem.done
    /\ ~running => mem = Nothing /\ sending = Idle

\* A key told, or in a call, comes after the changes that are known and not settled; the batch
\* holds the known changes older than any of its own.
Told == InLog \cup dropped
InOrderOfKeys ==
    /\ \A k \in InLog : \A i \in mem.done \cup disk.done : i < k => i \in Told
    /\ \A c \in Calls : call[c].at # "free" =>
          \A i \in mem.done \cup disk.done : i < call[c].key => i \in Told
    /\ \A k \in sending.batch :
          \A i \in mem.done \cup disk.done : i < k => i \in Told \cup sending.batch

\* Every key in use was given before the next one.
GivenBefore ==
    /\ \A k \in InLog \cup mem.done \cup disk.done \cup mem.queue \cup disk.queue \cup sending.batch :
          k < fresh
    /\ \A c \in Calls : call[c].at # "free" => call[c].key < fresh

OrderInv == LedgerInv /\ OutboxInv /\ OutboxTypes /\ Sender /\ InOrderOfKeys /\ GivenBefore

-------------------------------------------------------------------------------
\* What a command leaves in the outbox fits.
LEMMA RecordFits ==
    ASSUME OutboxInv, OutboxTypes, Record
    PROVE  /\ Cardinality(mem'.queue) <= QueueMax
           /\ mem'.queue = (mem.queue \ Overflow) \cup {fresh} /\ mem'.done = mem.done \cup {fresh}
           /\ dropped \subseteq dropped' /\ dropped' \subseteq Keys
           /\ fresh' = fresh + 1 /\ fresh' \in 1 .. Cardinality(Keys) + 1
           /\ running /\ fresh \in Keys
<1>1. mem' = [queue |-> (mem.queue \ Overflow) \cup {fresh}, done |-> mem.done \cup {fresh}]
      /\ fresh \in Keys /\ fresh' = fresh + 1 /\ dropped' = dropped \cup Overflow /\ running
  BY DEF Record, Recorded
<1>2. PICK q : q = mem.queue OBVIOUS
<1>3. q \subseteq Keys BY <1>2 DEF OutboxInv, OutboxStates
<1>4. IsFiniteSet(q) /\ Cardinality(q) \in Nat
  BY <1>3, OutboxAssumption, FS_Subset, FS_CardinalityType
<1>5. QueueMax \in Nat \ {0} /\ Cardinality(q) <= QueueMax
  BY <1>2, OutboxAssumption DEF OutboxTypes
<1>6. PICK rest : rest = q \ Overflow OBVIOUS
<1>7. /\ Overflow \subseteq Keys
      /\ IsFiniteSet(rest) /\ Cardinality(rest) \in Nat /\ Cardinality(rest) + 1 <= QueueMax
  <2>1. CASE Cardinality(q) >= QueueMax
    <3>1. q # {} BY <1>5, <2>1, FS_EmptySet
    <3>2. PICK k : k = Oldest(q) OBVIOUS
    <3>3. k \in q BY <1>3, <3>1, <3>2, KeysAreNumbers
    <3>4. Overflow = {k} BY <1>2, <2>1, <3>2 DEF Overflow
    <3>5. IsFiniteSet(q \ {k}) /\ Cardinality(q \ {k}) = Cardinality(q) - 1
      BY <1>4, <3>3, FS_RemoveElement
    <3>6. rest = q \ {k} BY <1>6, <3>4
    <3> QED BY <1>3, <1>4, <1>5, <2>1, <3>3, <3>4, <3>5, <3>6, FS_CardinalityType
  <2>2. CASE ~(Cardinality(q) >= QueueMax)
    <3>1. Overflow = {} BY <1>2, <2>2 DEF Overflow
    <3>2. rest = q BY <1>6, <3>1
    <3> QED BY <1>4, <1>5, <2>2, <3>1, <3>2
  <2> QED BY <2>1, <2>2
<1>8. PICK k : k = fresh OBVIOUS
<1>9. Cardinality(rest \cup {k}) <= QueueMax
  <2>1. Cardinality(rest \cup {k}) = IF k \in rest THEN Cardinality(rest) ELSE Cardinality(rest) + 1
    BY <1>7, FS_AddElement
  <2> QED BY <1>5, <1>7, <2>1
<1>10. mem'.queue = rest \cup {k} BY <1>1, <1>2, <1>6, <1>8
<1>11. fresh' \in 1 .. Cardinality(Keys) + 1 BY <1>1, KeysAreNumbers
<1>12. dropped' \subseteq Keys BY <1>1, <1>7 DEF OutboxTypes
<1> QED BY <1>1, <1>9, <1>10, <1>11, <1>12

\* An outbox that gives up events still fits.
LEMMA FewerFit ==
    ASSUME NEW q \in SUBSET Keys, Cardinality(q) <= QueueMax, NEW k
    PROVE  Cardinality(q \ {k}) <= QueueMax
<1>1. IsFiniteSet(q) /\ Cardinality(q) \in Nat BY OutboxAssumption, FS_Subset, FS_CardinalityType
<1>2. CASE k \in q
  <2>1. Cardinality(q \ {k}) = Cardinality(q) - 1 BY <1>1, <1>2, FS_RemoveElement
  <2> QED BY <1>1, <2>1, OutboxAssumption
<1>3. CASE k \notin q
  <2>1. q \ {k} = q BY <1>3
  <2> QED BY <2>1
<1> QED BY <1>2, <1>3

-------------------------------------------------------------------------------
\* A call keeps its key until it is free, and the log takes the keys of calls.
KeysFromCalls ==
    /\ \A d \in Calls : call'[d].at # "free" => call[d].at # "free" /\ call'[d].key = call[d].key
    /\ \A k \in InLog' : k \in InLog \/ \E c \in Calls : call[c].at # "free" /\ call[c].key = k

LEMMA LedgerStepKeys ==
    ASSUME Sound, LogInv, LedgerStep
    PROVE  KeysFromCalls
<1> DEFINE CallsKeep == \A d \in Calls :
              call'[d].at # "free" => call[d].at # "free" /\ call'[d].key = call[d].key
<1>0. \E S : call \in [Calls -> S] BY DEF LogInv, Shape
<1>a. ASSUME NEW c \in Calls, NEW r, call' = [call EXCEPT ![c] = r], call[c].at # "free",
             r.at # "free" => r.key = call[c].key
      PROVE  CallsKeep
  BY <1>0, <1>a
<1>b. ASSUME NEW c \in Calls, NEW x, Answer(c, x), call[c].at # "free"
      PROVE  CallsKeep
  <2>1. PICK r : r = [at |-> "answered", key |-> call[c].key, heard |-> call[c].heard, result |-> x]
    OBVIOUS
  <2>2. r.key = call[c].key /\ call' = [call EXCEPT ![c] = r] BY <1>b, <2>1 DEF Answer
  <2> HIDE DEF CallsKeep
  <2> QED BY <1>a, <1>b, <2>2
<1>1. ASSUME NEW c \in Calls, Known(c) \/ Refuse(c) \/ Publish(c) PROVE KeysFromCalls
  <2>1. \/ \E x : Answer(c, x)
        \/ \E s : Publishing(c, s)
    BY <1>1 DEF Known, Refuse, Publish
  <2>2. call[c].at # "free" /\ UNCHANGED files BY <1>1 DEF Known, Refuse, Publish
  <2>3. CallsKeep
    <3>1. CASE \E x : Answer(c, x) BY <1>b, <2>2, <3>1
    <3>2. ASSUME NEW s, Publishing(c, s) PROVE CallsKeep
      <4>1. PICK r : r = [at |-> "publishing", key |-> call[c].key, heard |-> call[c].heard,
                          numbers |-> s]
        OBVIOUS
      <4>2. r.key = call[c].key /\ call' = [call EXCEPT ![c] = r] BY <3>2, <4>1 DEF Publishing
      <4> HIDE DEF CallsKeep
      <4> QED BY <1>a, <2>2, <4>2
    <3> QED BY <2>1, <3>1, <3>2
  <2> QED BY <2>2, <2>3, FilesAlone DEF KeysFromCalls
<1>2. ASSUME NEW c \in Calls, Hang(c) PROVE KeysFromCalls
  <2>1. call' = [call EXCEPT ![c] = FreeCall] /\ call[c].at # "free" /\ UNCHANGED files
    BY <1>2 DEF Hang
  <2>2. FreeCall.at = "free" BY DEF FreeCall
  <2>3. CallsKeep BY <1>0, <2>1, <2>2
  <2> QED BY <2>1, <2>3, FilesAlone DEF KeysFromCalls
<1>3. ASSUME NEW c \in Calls, AppendEvent(c) PROVE KeysFromCalls
  <2>1. PICK day, e : day = call[c].day /\ e = EventAtHead(call[c].key, FALSE) OBVIOUS
  <2>2. ~WriteFails(day, e) BY NoStrike DEF WriteFails
  <2>3. PICK r : r = [at |-> "sealing", key |-> call[c].key, heard |-> call[c].heard, seq |-> e.seq]
    OBVIOUS
  <2>4. /\ PutPiece(day, e, TRUE, TRUE) /\ call' = [call EXCEPT ![c] = r]
        /\ call[c].at = "waiting" /\ call[c].key \notin DOMAIN store.idems /\ up
    BY <1>3, <2>1, <2>2, <2>3 DEF AppendEvent
  <2>5. r.key = call[c].key BY <2>3
  <2>6. CallsKeep BY <1>0, <2>4, <2>5
  <2>7. e.key = call[c].key /\ ~e.seal BY <2>1 DEF EventAtHead
  <2>8. e.key \notin InLog BY <2>4, <2>7 DEF LogInv
  <2>9. InLog' \subseteq InLog \cup {e.key}
    BY <2>4, <2>7, <2>8, PutTellsOneKey DEF LogInv
  <2> QED BY <2>4, <2>6, <2>7, <2>9 DEF KeysFromCalls
<1>4. ASSUME NEW c \in Calls, MaybeSeal(c) PROVE KeysFromCalls
  <2>1. PICK e : e = EventAtHead(NoKey, TRUE) OBVIOUS
  <2>2. ~WriteFails(today, e) BY NoStrike DEF WriteFails
  <2>3. /\ call[c].at = "sealing" /\ \E s : Publishing(c, s)
        /\ UNCHANGED files \/ PutPiece(today, e, TRUE, TRUE)
    BY <1>4, <2>1, <2>2 DEF MaybeSeal
  <2>4. PICK s : Publishing(c, s) BY <2>3
  <2>5. PICK r : r = [at |-> "publishing", key |-> call[c].key, heard |-> call[c].heard, numbers |-> s]
    OBVIOUS
  <2>6. call' = [call EXCEPT ![c] = r] /\ r.key = call[c].key BY <2>4, <2>5 DEF Publishing
  <2>7. CallsKeep BY <1>0, <2>3, <2>6
  <2>8. e.seal BY <2>1 DEF EventAtHead
  <2>9. InLog' \subseteq InLog
    <3>1. CASE UNCHANGED files BY <3>1, FilesAlone
    <3>2. CASE PutPiece(today, e, TRUE, TRUE)
      BY <2>8, <3>2, PutTellsOneKey DEF LogInv
    <3> QED BY <2>3, <3>1, <3>2
  <2> QED BY <2>7, <2>9 DEF KeysFromCalls
<1>5. CASE Stop
  <2>1. UNCHANGED files /\ call' = Cut BY <1>5 DEF Stop
  <2>2. CallsKeep BY <2>1 DEF Cut
  <2> QED BY <2>1, <2>2, FilesAlone DEF KeysFromCalls
<1>6. CASE Open \/ Midnight \/ SetBack
  BY <1>6, FilesAlone DEF Open, Midnight, SetBack, KeysFromCalls
<1> QED BY <1>1, <1>2, <1>3, <1>4, <1>5, <1>6 DEF LedgerStep, Handle


-------------------------------------------------------------------------------
(* The order of the keys.                                                  *)

LEMMA NumbersOnly ==
    ASSUME LedgerInv
    PROVE  /\ InLog \subseteq Nat
           /\ \A c \in Calls : call[c].at # "free" => call[c].key \in Keys /\ call[c].key \in Nat
<1>1. NoKey \in Nat /\ Keys \subseteq Nat BY KeysAreNumbers DEF NoKey
<1>2. ASSUME NEW p \in Places PROVE Piece(p).event.key \in Nat
  <2>1. p[1] \in Days /\ p[2] \in 1 .. Len(files[p[1]]) BY PlacesArePairs DEF LedgerInv, LogInv
  <2>2. files[p[1]] \in Seq(Pieces) BY <2>1 DEF LedgerInv, LedgerTypes
  <2>3. Piece(p) \in Pieces BY <2>1, <2>2, ElementOfSeq DEF Piece
  <2> QED BY <1>1, <2>3 DEF Pieces
<1>3. InLog \subseteq Nat BY <1>2 DEF InLog, EventPlaces
<1>4. \A c \in Calls : call[c] \in CallStates BY DEF LedgerInv, LedgerTypes
<1> QED BY <1>1, <1>3, <1>4, CallFields

\* Steps that learn no change and tell none.
LEMMA OrderAlone ==
    ASSUME InOrderOfKeys, GivenBefore, InLog' = InLog, dropped \subseteq dropped', fresh' = fresh,
           mem'.done \cup disk'.done \subseteq mem.done \cup disk.done,
           mem'.queue \cup disk'.queue \subseteq mem.queue \cup disk.queue,
           sending'.batch = sending.batch \/ sending'.batch = {},
           \A d \in Calls : call'[d].at # "free" => call[d].at # "free" /\ call'[d].key = call[d].key
    PROVE  InOrderOfKeys' /\ GivenBefore'
<1>1. Told \subseteq Told' BY DEF Told
<1>2. InOrderOfKeys' BY <1>1 DEF InOrderOfKeys
<1>3. GivenBefore' BY DEF GivenBefore
<1> QED BY <1>2, <1>3

\* The calls of agentd after it leaves one.
LEMMA UnheardKeeps ==
    ASSUME OrderInv, call' = Unheard, UNCHANGED <<files, up, store, bus, today>>,
           faults' \in 0 .. MaxFaults
    PROVE  /\ LedgerInv'
           /\ \A d \in Calls : call'[d].at # "free" => call[d].at # "free" /\ call'[d].key = call[d].key
<1>1. CASE sending.slot = NoCall
  <2>1. call' = call BY <1>1 DEF Unheard
  <2>2. LedgerInv' BY <2>1, LedgerInvAlone DEF OrderInv
  <2> QED BY <2>1, <2>2
<1>2. CASE sending.slot # NoCall
  <2>1. PICK c \in Calls : c = sending.slot BY <1>2 DEF OrderInv, OutboxInv
  <2>2. call' = [call EXCEPT ![c].heard = FALSE] BY <1>2, <2>1 DEF Unheard
  <2>3. call[c].at # "free" BY <1>2, <2>1 DEF OrderInv, OutboxInv
  <2>4. LedgerInv' BY <2>2, <2>3, GoneMoves DEF OrderInv
  <2>5. call \in [Calls -> CallStates] /\ CallTells(call[c], InLog)
    BY DEF OrderInv, LedgerInv, LedgerTypes, LogInv
  <2>6. call'[c].at = call[c].at /\ call'[c].key = call[c].key /\ \A d \in Calls : d # c => call'[d] = call[d]
    BY <2>2, <2>3, <2>5 DEF CallTells
  <2> QED BY <2>4, <2>6
<1> QED BY <1>1, <1>2

\* The log moves, and agentd does not.
LEMMA OrderLogMoves ==
    ASSUME Sound, OrderedStops, OrderInv, LedgerStep, UNCHANGED ovars
    PROVE  LedgerInv' /\ OutboxTypes' /\ Sender' /\ InOrderOfKeys' /\ GivenBefore'
<1>1. LedgerInv' BY LedgerInvStep DEF OrderInv
<1>2. InLog \subseteq InLog' BY LedgerStepKeeps DEF OrderInv, LedgerInv
<1>3. KeysFromCalls BY LedgerStepKeys DEF OrderInv, LedgerInv
<1>4. UNCHANGED <<running, mem, disk, fresh, unsaved, sending, dropped>> BY DEF ovars
<1>5. OutboxTypes' /\ Sender' BY <1>4 DEF OrderInv, OutboxTypes, Sender, OutboxStates
<1>6. Told \subseteq Told' BY <1>2, <1>4 DEF Told
<1>7. InOrderOfKeys' BY <1>3, <1>4, <1>6 DEF OrderInv, InOrderOfKeys, KeysFromCalls
<1>8. GivenBefore' BY <1>3, <1>4 DEF OrderInv, GivenBefore, KeysFromCalls
<1> QED BY <1>1, <1>5, <1>7, <1>8

LEMMA OrderListens ==
    ASSUME OrderInv, Listen, UNCHANGED ovars
    PROVE  LedgerInv' /\ OutboxTypes' /\ Sender' /\ InOrderOfKeys' /\ GivenBefore'
<1>1. LedgerInv' BY LedgerInvListens DEF OrderInv
<1>2. UNCHANGED <<files, call>> BY ListenMoves
<1>3. InLog' = InLog BY <1>2, FilesAlone
<1>4. UNCHANGED <<running, mem, disk, fresh, unsaved, sending, dropped>> BY DEF ovars
<1>5. OutboxTypes' /\ Sender' BY <1>4 DEF OrderInv, OutboxTypes, Sender, OutboxStates
<1>6. Told' = Told BY <1>3, <1>4 DEF Told
<1>7. InOrderOfKeys' /\ GivenBefore'
  BY <1>2, <1>3, <1>4, <1>6 DEF OrderInv, InOrderOfKeys, GivenBefore
<1> QED BY <1>1, <1>5, <1>7

\* A command: its key is the last.
LEMMA OrderCommand ==
    ASSUME OrderInv, RecordAndSave \/ RecordThenSave \/ RecordRefusal
    PROVE  LedgerInv' /\ OutboxTypes' /\ Sender' /\ InOrderOfKeys' /\ GivenBefore'
<1>0. faults \in 0 .. MaxFaults BY DEF OrderInv, LedgerInv, LedgerTypes
<1>1. /\ Record /\ UNCHANGED <<running, sending, files, up, store, call, bus, today>>
      /\ disk' = mem' \/ disk' = disk
      /\ faults' \in 0 .. MaxFaults
      /\ unsaved' \in Nat
  <2>1. CASE RecordAndSave
    BY <1>0, <2>1, StrikeCounted DEF RecordAndSave, Saves, SaveFails, OrderInv, OutboxTypes
  <2>2. CASE RecordThenSave
    BY <1>0, <2>2 DEF RecordThenSave, lvars, OrderInv, OutboxTypes
  <2>3. CASE RecordRefusal
    BY <1>0, <2>3 DEF RecordRefusal, lvars, OrderInv, OutboxTypes
  <2> QED BY <2>1, <2>2, <2>3
<1>2. LedgerInv' BY <1>1, LedgerInvAlone DEF OrderInv
<1>3. InLog' = InLog BY <1>1, FilesAlone
<1>4. /\ Cardinality(mem'.queue) <= QueueMax
      /\ mem'.queue = (mem.queue \ Overflow) \cup {fresh} /\ mem'.done = mem.done \cup {fresh}
      /\ dropped \subseteq dropped' /\ dropped' \subseteq Keys
      /\ fresh' = fresh + 1 /\ fresh' \in 1 .. Cardinality(Keys) + 1
      /\ running /\ fresh \in Keys
  BY <1>1, RecordFits DEF OrderInv
<1>5. OutboxTypes' BY <1>1, <1>4 DEF OrderInv, OutboxTypes
<1>6. Sender'
  <2>1. disk.done \subseteq mem.done BY <1>4 DEF OrderInv, Sender
  <2>2. disk'.done \subseteq mem'.done BY <1>1, <1>4, <2>1
  <2> QED BY <1>1, <1>4, <2>2 DEF OrderInv, Sender
<1>7. /\ InLog \subseteq Nat /\ fresh \in Nat /\ sending.batch \subseteq Nat
      /\ mem.queue \subseteq Nat /\ disk.queue \subseteq Nat /\ mem.done \subseteq Nat
      /\ disk.done \subseteq Nat
      /\ \A c \in Calls : call[c].at # "free" => call[c].key \in Nat
  BY <1>4, NumbersOnly, KeysAreNumbers DEF OrderInv, OutboxInv, OutboxTypes, OutboxStates
<1>8. mem'.done \cup disk'.done \subseteq (mem.done \cup disk.done) \cup {fresh}
  BY <1>1, <1>4
<1>9. InOrderOfKeys'
  <2>1. Told \subseteq Told' BY <1>3, <1>4 DEF Told
  <2>2. ASSUME NEW k \in InLog' PROVE \A i \in mem'.done \cup disk'.done : i < k => i \in Told'
    <3>1. k \in InLog /\ k \in Nat /\ k < fresh BY <1>3, <1>7, <2>2 DEF OrderInv, GivenBefore
    <3>2. \A i \in mem.done \cup disk.done : i < k => i \in Told BY <3>1 DEF OrderInv, InOrderOfKeys
    <3>3. ~(fresh < k) BY <1>7, <3>1
    <3> QED BY <1>8, <2>1, <3>2, <3>3
  <2>3. ASSUME NEW c \in Calls, call'[c].at # "free"
        PROVE  \A i \in mem'.done \cup disk'.done : i < call'[c].key => i \in Told'
    <3>1. PICK k : k = call[c].key OBVIOUS
    <3>2. call'[c].key = k /\ k \in Nat /\ k < fresh
      BY <1>1, <1>7, <2>3, <3>1 DEF OrderInv, GivenBefore
    <3>3. \A i \in mem.done \cup disk.done : i < k => i \in Told
      BY <1>1, <2>3, <3>1 DEF OrderInv, InOrderOfKeys
    <3>4. ~(fresh < k) BY <1>7, <3>2
    <3> QED BY <1>8, <2>1, <3>2, <3>3, <3>4
  <2>4. ASSUME NEW k \in sending'.batch
        PROVE  \A i \in mem'.done \cup disk'.done : i < k => i \in Told' \cup sending'.batch
    <3>1. k \in sending.batch /\ k \in Nat /\ k < fresh BY <1>1, <1>7, <2>4 DEF OrderInv, GivenBefore
    <3>2. \A i \in mem.done \cup disk.done : i < k => i \in Told \cup sending.batch
      BY <3>1 DEF OrderInv, InOrderOfKeys
    <3>3. ~(fresh < k) BY <1>7, <3>1
    <3> QED BY <1>1, <1>8, <2>1, <3>2, <3>3
  <2> QED BY <2>2, <2>3, <2>4 DEF InOrderOfKeys
<1>10. GivenBefore'
  <2>1. ASSUME NEW k, k \in Nat, k < fresh \/ k = fresh PROVE k < fresh'
    BY <1>4, <1>7, <2>1
  <2>2. \A k \in InLog' \cup mem'.done \cup disk'.done \cup mem'.queue \cup disk'.queue \cup sending'.batch :
            k \in Nat /\ (k < fresh \/ k = fresh)
    BY <1>1, <1>3, <1>4, <1>7 DEF OrderInv, GivenBefore
  <2>3. \A c \in Calls : call'[c].at # "free" => call'[c].key \in Nat /\ call'[c].key < fresh
    BY <1>1, <1>7 DEF OrderInv, GivenBefore
  <2> QED BY <2>1, <2>2, <2>3 DEF GivenBefore
<1> QED BY <1>2, <1>5, <1>6, <1>9, <1>10

\* Saves and starts.
LEMMA OrderSaves ==
    ASSUME OrderInv, Enregistrer \/ SaveReceived \/ AgentStart \/ UNCHANGED vars
    PROVE  LedgerInv' /\ OutboxTypes' /\ Sender' /\ InOrderOfKeys' /\ GivenBefore'
<1>0. faults \in 0 .. MaxFaults /\ unsaved \in Nat
  BY DEF OrderInv, LedgerInv, LedgerTypes, OutboxTypes
<1>1. /\ UNCHANGED <<files, up, store, call, bus, today, fresh, dropped>>
      /\ sending' = sending \/ (running /\ running' /\ sending' = Idle)
      /\ \/ mem' = mem /\ running' = running
         \/ ~running /\ running' /\ mem' = disk
      /\ running' \in BOOLEAN
      /\ disk' = disk \/ (disk' = mem /\ mem' = mem /\ running /\ running')
      /\ faults' \in 0 .. MaxFaults /\ unsaved' \in Nat
  <2>1. CASE Enregistrer
    <3>1. unsaved - 1 \in Nat BY <1>0, <2>1 DEF Enregistrer
    <3> QED BY <1>0, <2>1, <3>1, StrikeCounted
            DEF Enregistrer, Saves, SaveFails, OrderInv, OutboxTypes
  <2>2. CASE SaveReceived
    BY <1>0, <2>2, StrikeCounted DEF SaveReceived, Saves, SaveFails, OrderInv, OutboxTypes
  <2>3. CASE AgentStart
    BY <1>0, <2>3 DEF AgentStart, lvars, OrderInv, OutboxTypes
  <2>4. CASE UNCHANGED vars
    BY <1>0, <2>4 DEF vars, lvars, ovars, OrderInv, OutboxTypes
  <2> QED BY <2>1, <2>2, <2>3, <2>4
<1>2. LedgerInv' BY <1>1, LedgerInvAlone DEF OrderInv
<1>3. InLog' = InLog BY <1>1, FilesAlone
<1>4. Idle \in [batch : SUBSET Keys, slot : Calls \cup {NoCall}, received : BOOLEAN]
  BY DEF Idle
<1>5. Idle.batch = {} /\ Idle.slot = NoCall BY DEF Idle
<1>6. OutboxTypes' BY <1>1, <1>4 DEF OrderInv, OutboxTypes
<1>7. Sender' BY <1>1, <1>5 DEF OrderInv, Sender
<1>8. InOrderOfKeys' /\ GivenBefore'
  BY <1>1, <1>3, <1>5, OrderAlone DEF OrderInv
<1> QED BY <1>2, <1>6, <1>7, <1>8

\* A batch: all that waits.
LEMMA OrderTakes ==
    ASSUME OrderInv, TakeBatch
    PROVE  LedgerInv' /\ OutboxTypes' /\ Sender' /\ InOrderOfKeys' /\ GivenBefore'
<1>1. /\ UNCHANGED <<running, mem, disk, fresh, unsaved, dropped, lvars>>
      /\ UNCHANGED <<files, up, store, call, bus, today, faults>>
      /\ running /\ sending = Idle /\ sending' = [Idle EXCEPT !.batch = mem.queue]
  BY DEF TakeBatch, lvars
<1>2. sending' = [batch |-> mem.queue, slot |-> NoCall, received |-> FALSE] BY <1>1 DEF Idle
<1>3. LedgerInv' BY <1>1, LedgerInvAlone DEF OrderInv, LedgerInv, LedgerTypes
<1>4. InLog' = InLog BY <1>1, FilesAlone
<1>5. OutboxTypes' BY <1>1, <1>2 DEF OrderInv, OutboxTypes, OutboxInv, OutboxStates
<1>6. Sender' BY <1>1, <1>2 DEF OrderInv, Sender
<1>7. sending'.batch = mem.queue BY <1>2
<1>8. \A i \in mem.done \cup disk.done : i \in mem.queue \cup InLog \cup dropped
  BY <1>1 DEF OrderInv, Sender, OutboxInv, Accounted
<1>9. InOrderOfKeys' BY <1>1, <1>4, <1>7, <1>8 DEF OrderInv, InOrderOfKeys, Told
<1>10. GivenBefore' BY <1>1, <1>4, <1>7 DEF OrderInv, GivenBefore
<1> QED BY <1>3, <1>5, <1>6, <1>9, <1>10

\* The oldest of the batch is sent.
LEMMA OrderSends ==
    ASSUME OrderInv, SendNext
    PROVE  LedgerInv' /\ OutboxTypes' /\ Sender' /\ InOrderOfKeys' /\ GivenBefore'
<1>1. PICK k : k = Oldest(sending.batch) OBVIOUS
<1>2. PICK c \in Calls : Ask(c, k) /\ sending' = [sending EXCEPT !.slot = c]
  <2>1. (CHOOSE x \in FreeSlots : TRUE) \in FreeSlots BY DEF SendNext
  <2> QED BY <1>1, <2>1 DEF SendNext, FreeSlots
<1>3. /\ UNCHANGED <<running, mem, disk, fresh, unsaved, dropped, files>>
      /\ running /\ sending.batch # {}
  BY <1>2 DEF SendNext, Ask
<1>4. k \in sending.batch /\ k \in Keys /\ \A j \in sending.batch : k <= j
  BY <1>1, <1>3, KeysAreNumbers DEF OrderInv, OutboxTypes
<1>5. LedgerInv' BY <1>2, <1>4, AskMoves DEF OrderInv
<1>6. InLog' = InLog BY <1>3, FilesAlone
<1>7. /\ sending'.batch = sending.batch /\ sending'.received = sending.received
      /\ sending' \in [batch : SUBSET Keys, slot : Calls \cup {NoCall}, received : BOOLEAN]
  BY <1>2 DEF OrderInv, OutboxTypes
<1>8. OutboxTypes' BY <1>3, <1>7 DEF OrderInv, OutboxTypes
<1>9. Sender' BY <1>3, <1>7 DEF OrderInv, Sender
<1>10. call'[c].key = k /\ \A d \in Calls : d # c => call'[d] = call[d]
  <2>1. call \in [Calls -> CallStates] BY DEF OrderInv, LedgerInv, LedgerTypes
  <2> QED BY <1>2, <2>1 DEF Ask
<1>11. \A i \in mem.done \cup disk.done : i < k => i \in Told
  <2> SUFFICES ASSUME NEW i \in mem.done \cup disk.done, i < k PROVE i \in Told
    OBVIOUS
  <2>1. i \in Told \cup sending.batch BY <1>4 DEF OrderInv, InOrderOfKeys
  <2>2. i \in Nat /\ k \in Nat BY <1>4, KeysAreNumbers DEF OrderInv, OutboxInv, OutboxStates
  <2>3. i \notin sending.batch BY <1>4, <2>2
  <2> QED BY <2>1, <2>3
<1>12. InOrderOfKeys'
  BY <1>3, <1>6, <1>7, <1>10, <1>11 DEF OrderInv, InOrderOfKeys, Told
<1>13. k < fresh BY <1>4 DEF OrderInv, GivenBefore
<1>14. GivenBefore'
  BY <1>3, <1>6, <1>7, <1>10, <1>13 DEF OrderInv, GivenBefore
<1> QED BY <1>5, <1>8, <1>9, <1>12, <1>14

\* An answer is read.
LEMMA OrderReceives ==
    ASSUME OrderInv, Received \/ BreakOff
    PROVE  LedgerInv' /\ OutboxTypes' /\ Sender' /\ InOrderOfKeys' /\ GivenBefore'
<1>1. PICK c, k : c = sending.slot /\ k = Oldest(sending.batch) OBVIOUS
<1>2. /\ call' = [call EXCEPT ![c] = FreeCall] /\ call[c].at = "answered"
      /\ c # NoCall /\ running
      /\ UNCHANGED <<running, disk, fresh, unsaved, files, up, store, bus, today, faults>>
  BY <1>1 DEF Received, BreakOff
<1>3. c \in Calls BY <1>1, <1>2 DEF OrderInv, OutboxInv
<1>4. LedgerInv' BY <1>2, <1>3, FreeMoves DEF OrderInv
<1>5. InLog' = InLog BY <1>2, FilesAlone
<1>6. \A d \in Calls : call'[d].at # "free" => call[d].at # "free" /\ call'[d].key = call[d].key
  <2>1. call \in [Calls -> CallStates] BY DEF OrderInv, LedgerInv, LedgerTypes
  <2>2. FreeCall.at = "free" BY DEF FreeCall
  <2> QED BY <1>2, <1>3, <2>1, <2>2
<1>7. CASE BreakOff
  <2>1. mem' = mem /\ dropped' = dropped /\ sending' = [Idle EXCEPT !.received = sending.received]
    BY <1>7 DEF BreakOff
  <2>2. /\ sending'.batch = {} /\ sending'.slot = NoCall
        /\ sending' \in [batch : SUBSET Keys, slot : Calls \cup {NoCall}, received : BOOLEAN]
    BY <2>1 DEF Idle, OrderInv, OutboxTypes
  <2>3. OutboxTypes' BY <1>2, <2>1, <2>2 DEF OrderInv, OutboxTypes
  <2>4. Sender' BY <1>2, <2>1, <2>2 DEF OrderInv, Sender
  <2>5. InOrderOfKeys' /\ GivenBefore'
    BY <1>2, <1>5, <1>6, <2>1, <2>2, OrderAlone DEF OrderInv
  <2> QED BY <1>4, <2>3, <2>4, <2>5
<1>8. CASE Received
  <2>1. /\ mem' = [mem EXCEPT !.queue = @ \ {k}]
        /\ dropped' = IF call[c].result = "refused" THEN dropped \cup {k} ELSE dropped
        /\ sending' = [batch |-> sending.batch \ {k}, slot |-> NoCall, received |-> TRUE]
        /\ call[c].result \in {"written", "known", "refused"}
    BY <1>1, <1>8 DEF Received
  <2>2. mem'.queue = mem.queue \ {k} /\ mem'.done = mem.done /\ mem.queue \subseteq Keys
    BY <2>1 DEF OrderInv, OutboxInv, OutboxStates
  <2>3. k \in Keys
    BY <1>1, <1>2, KeysAreNumbers DEF OrderInv, OutboxTypes, Sender
  <2>4. sending'.batch = sending.batch \ {k} /\ sending'.slot = NoCall BY <2>1
  <2>5. OutboxTypes'
    <3>1. Cardinality(mem'.queue) <= QueueMax
      BY <2>2, FewerFit DEF OrderInv, OutboxTypes
    <3>2. sending' \in [batch : SUBSET Keys, slot : Calls \cup {NoCall}, received : BOOLEAN]
      BY <2>1 DEF OrderInv, OutboxTypes
    <3>3. dropped' \subseteq Keys BY <2>1, <2>3 DEF OrderInv, OutboxTypes
    <3> QED BY <1>2, <3>1, <3>2, <3>3 DEF OrderInv, OutboxTypes
  <2>6. Sender' BY <1>2, <2>2, <2>4 DEF OrderInv, Sender
  <2>7. k \in InLog \cup dropped'
    <3>1. CallTells(call[c], InLog) BY <1>3 DEF OrderInv, LedgerInv, LogInv
    <3>2. call[c].key = k BY <1>1, <1>2 DEF OrderInv, OutboxInv
    <3> QED BY <1>2, <2>1, <3>1, <3>2 DEF CallTells
  <2>8. Told \subseteq Told' /\ k \in Told' BY <1>5, <2>1, <2>7 DEF Told
  <2>9. InOrderOfKeys' BY <1>2, <1>5, <1>6, <2>2, <2>4, <2>8 DEF OrderInv, InOrderOfKeys
  <2>10. GivenBefore' BY <1>2, <1>5, <1>6, <2>2, <2>4 DEF OrderInv, GivenBefore
  <2> QED BY <1>4, <2>5, <2>6, <2>9, <2>10
<1> QED BY <1>7, <1>8

\* The sender goes, or agentd does.
LEMMA OrderLeaves ==
    ASSUME OrderInv, GiveUp \/ AgentStop
    PROVE  LedgerInv' /\ OutboxTypes' /\ Sender' /\ InOrderOfKeys' /\ GivenBefore'
<1>0. faults \in 0 .. MaxFaults /\ sending.received \in BOOLEAN
  BY DEF OrderInv, LedgerInv, LedgerTypes, OutboxTypes
<1>1. /\ UNCHANGED <<files, up, store, bus, today, disk, fresh, dropped>>
      /\ call' = Unheard /\ faults' \in 0 .. MaxFaults
      /\ \/ /\ mem' = mem /\ running /\ running' = running /\ unsaved' = unsaved
            /\ sending' = [Idle EXCEPT !.received = sending.received]
         \/ mem' = Nothing /\ running' = FALSE /\ unsaved' = 0 /\ sending' = Idle
  BY <1>0, StrikeCounted DEF GiveUp, AgentStop
<1>2. /\ LedgerInv'
      /\ \A d \in Calls : call'[d].at # "free" => call[d].at # "free" /\ call'[d].key = call[d].key
  BY <1>1, UnheardKeeps
<1>3. InLog' = InLog BY <1>1, FilesAlone
<1>4. /\ sending'.batch = {} /\ sending'.slot = NoCall
      /\ sending' \in [batch : SUBSET Keys, slot : Calls \cup {NoCall}, received : BOOLEAN]
  <2>1. PICK got \in BOOLEAN : sending' = [batch |-> {}, slot |-> NoCall, received |-> got]
    <3>1. CASE sending' = Idle BY <3>1 DEF Idle
    <3>2. CASE sending' = [Idle EXCEPT !.received = sending.received] BY <1>0, <3>2 DEF Idle
    <3> QED BY <1>1, <3>1, <3>2
  <2> QED BY <2>1
<1>5. /\ Nothing.done = {} /\ Nothing.queue = {}
      /\ Cardinality({}) <= QueueMax
  BY FS_EmptySet, OutboxAssumption DEF Nothing
<1>6. OutboxTypes'
  <2>1. Cardinality(mem'.queue) <= QueueMax
    BY <1>1, <1>5 DEF OrderInv, OutboxTypes
  <2>2. unsaved' \in Nat BY <1>1 DEF OrderInv, OutboxTypes
  <2>3. running' \in BOOLEAN
    <3>1. running \in BOOLEAN /\ FALSE \in BOOLEAN BY DEF OrderInv, OutboxTypes
    <3>2. running' = running \/ running' = FALSE BY <1>1
    <3> QED BY <3>1, <3>2
  <2> QED BY <1>1, <1>4, <2>1, <2>2, <2>3 DEF OrderInv, OutboxTypes
<1>7. Sender' BY <1>1, <1>4 DEF OrderInv, Sender
<1>8. InOrderOfKeys' /\ GivenBefore'
  BY <1>1, <1>2, <1>3, <1>4, <1>5, OrderAlone DEF OrderInv
<1> QED BY <1>2, <1>6, <1>7, <1>8

LEMMA OrderInit ==
    ASSUME Init
    PROVE  OrderInv
<1>1. LedgerInv /\ OutboxInv BY LedgerInvInit, OutboxInvInit DEF Init
<1>2. Nothing.done = {} /\ Nothing.queue = {} /\ Idle.batch = {} /\ Idle.slot = NoCall
  BY DEF Nothing, Idle
<1>3. Cardinality({}) <= QueueMax BY FS_EmptySet, OutboxAssumption
<1>4. Idle \in [batch : SUBSET Keys, slot : Calls \cup {NoCall}, received : BOOLEAN]
  BY DEF Idle
<1>5. 1 \in 1 .. Cardinality(Keys) + 1 BY KeysAreNumbers
<1>6. InLog = {}
  <2>1. Places = {} BY DEF Init, LedgerInit, Places
  <2> QED BY <2>1 DEF InLog, EventPlaces
<1>7. OutboxTypes BY <1>2, <1>3, <1>4, <1>5 DEF Init, OutboxTypes
<1>8. Sender BY <1>2 DEF Init, Sender
<1>9. \A c \in Calls : call[c].at = "free" BY DEF Init, LedgerInit, FreeCall
<1>10. InOrderOfKeys /\ GivenBefore BY <1>2, <1>6, <1>9 DEF Init, InOrderOfKeys, GivenBefore
<1> QED BY <1>1, <1>7, <1>8, <1>10 DEF OrderInv

LEMMA OrderNext ==
    ASSUME Sound, OrderedStops, OrderInv, [Next]_vars
    PROVE  OrderInv'
<1>1. OutboxInv' BY OutboxInvNext DEF OrderInv
<1>2. LedgerInv' /\ OutboxTypes' /\ Sender' /\ InOrderOfKeys' /\ GivenBefore'
  <2>1. CASE LedgerStep /\ UNCHANGED ovars BY <2>1, OrderLogMoves
  <2>2. CASE RecordAndSave \/ RecordThenSave \/ RecordRefusal BY <2>2, OrderCommand
  <2>3. CASE Enregistrer \/ AgentStart \/ UNCHANGED vars BY <2>3, OrderSaves
  <2>4. CASE Send
    BY <2>4, OrderSaves, OrderTakes, OrderSends, OrderReceives DEF Send
  <2>5. CASE GiveUp \/ AgentStop BY <2>5, OrderLeaves
  <2>6. CASE Listen /\ UNCHANGED ovars BY <2>6, OrderListens
  <2> QED BY <2>1, <2>2, <2>3, <2>4, <2>5, <2>6 DEF Next
<1> QED BY <1>1, <1>2 DEF OrderInv

\* The variables of agentd and of the log keep their types; the outbox keeps its bound.
THEOREM OutboxTyped ==
    ASSUME Sound, OrderedStops
    PROVE  Spec => []TypeOK
<1>1. OrderInv => TypeOK
  BY LedgerTyped DEF OrderInv, LedgerInv, OutboxInv, OutboxTypes, TypeOK
<1> QED BY <1>1, OrderInit, OrderNext, PTL DEF Spec

\* What agentd sends again and again leaves the log with one verified chain.
THEOREM OutboxLogIsVerified ==
    ASSUME Sound, OrderedStops
    PROVE  Spec => []ChainVerifies
<1>1. OrderInv => ChainVerifies
  BY ChainIsVerified DEF OrderInv, LedgerInv, LogInv, ChainVerifies
<1> QED BY <1>1, OrderInit, OrderNext, PTL DEF Spec

\* A subscriber sees what agentd sends as it would see the events of any client (subscribe.rs).
THEOREM OutboxSubscribersSeeOnce ==
    ASSUME Sound, OrderedStops
    PROVE  Spec => []BusFaithful
<1>1. OrderInv => BusFaithful BY BusIsFaithful DEF OrderInv, LedgerInv
<1> QED BY <1>1, OrderInit, OrderNext, PTL DEF Spec


-------------------------------------------------------------------------------
(* The trail: the events in the order of their numbers.                    *)

RankOf(p) == Cardinality({q \in EventPlaces : SortsBefore(q, p)}) + 1
AtRank(i) == CHOOSE p \in EventPlaces : RankOf(p) = i

\* Each rank is that of one event.
Ranked ==
    /\ IsFiniteSet(EventPlaces)
    /\ \A p \in EventPlaces : RankOf(p) \in 1 .. Cardinality(EventPlaces)
    /\ \A i \in 1 .. Cardinality(EventPlaces) : \E p \in EventPlaces : RankOf(p) = i
    /\ \A p, q \in EventPlaces : RankOf(p) = RankOf(q) => p = q

\* The trail tells the key of each event at its rank.
TrailTells ==
    /\ Cardinality(EventPlaces) \in Nat
    /\ Trail = [i \in 1 .. Cardinality(EventPlaces) |-> Trail[i]]
    /\ \A p \in EventPlaces : Trail[RankOf(p)] = Piece(p).event.key

LEMMA TrailTold ==
    ASSUME Ranked
    PROVE  TrailTells
<1>1. Cardinality(EventPlaces) \in Nat BY FS_CardinalityType DEF Ranked
<1>2. Trail = [i \in 1 .. Cardinality(EventPlaces) |-> Piece(AtRank(i)).event.key]
  BY DEF Trail, RankOf, AtRank
<1>3. ASSUME NEW p \in EventPlaces PROVE Trail[RankOf(p)] = Piece(p).event.key
  <2>1. PICK i \in 1 .. Cardinality(EventPlaces) : i = RankOf(p) BY DEF Ranked
  <2>2. AtRank(i) \in EventPlaces /\ RankOf(AtRank(i)) = i BY <2>1 DEF AtRank
  <2>3. AtRank(i) = p BY <2>1, <2>2 DEF Ranked
  <2> QED BY <1>2, <2>1, <2>3
<1> QED BY <1>1, <1>2, <1>3 DEF TrailTells

\* What the trail tells is what the log holds.
LEMMA TrailIsLog ==
    ASSUME Ranked, TrailTells
    PROVE  {Trail[i] : i \in DOMAIN Trail} = InLog
<1>1. DOMAIN Trail = 1 .. Cardinality(EventPlaces) BY DEF TrailTells
<1>2. \A p \in EventPlaces : RankOf(p) \in DOMAIN Trail BY <1>1 DEF Ranked
<1>3. \A i \in DOMAIN Trail : \E p \in EventPlaces : Trail[i] = Piece(p).event.key
  BY <1>1 DEF Ranked, TrailTells
<1>4. ASSUME NEW k, k \in {Trail[i] : i \in DOMAIN Trail} PROVE k \in InLog
  <2>1. PICK i \in DOMAIN Trail : k = Trail[i] BY <1>4
  <2>2. PICK p \in EventPlaces : k = Piece(p).event.key BY <1>3, <2>1
  <2> QED BY <2>2 DEF InLog
<1>5. ASSUME NEW k \in InLog PROVE k \in {Trail[i] : i \in DOMAIN Trail}
  <2>1. PICK p \in EventPlaces : k = Piece(p).event.key BY DEF InLog
  <2>2. PICK i : i = RankOf(p) OBVIOUS
  <2>3. i \in DOMAIN Trail /\ Trail[i] = k BY <1>2, <2>1, <2>2 DEF TrailTells
  <2> QED BY <2>3
<1> QED BY <1>4, <1>5

\* Files that do not change, and seals, leave the trail.
LEMMA TrailAlone ==
    ASSUME Ranked, EventPlaces' = EventPlaces,
           \A p \in EventPlaces : Piece(p)' = Piece(p)
    PROVE  Ranked' /\ Trail' = Trail
<1>1. ASSUME NEW p \in EventPlaces PROVE RankOf(p)' = RankOf(p)
  <2>1. \A q \in EventPlaces : SortsBefore(q, p)' <=> SortsBefore(q, p)
    BY DEF SortsBefore, Before
  <2>2. {q \in EventPlaces' : SortsBefore(q, p)'} = {q \in EventPlaces : SortsBefore(q, p)}
    BY <2>1
  <2> QED BY <2>2 DEF RankOf
<1>2. Ranked' BY <1>1 DEF Ranked
<1>3. \A i \in 1 .. Cardinality(EventPlaces) : AtRank(i)' = AtRank(i) /\ AtRank(i) \in EventPlaces
  BY <1>1 DEF AtRank, Ranked
<1>4. Trail = [i \in 1 .. Cardinality(EventPlaces) |-> Piece(AtRank(i)).event.key]
  BY DEF Trail, RankOf, AtRank
<1>5. Trail' = [i \in 1 .. Cardinality(EventPlaces') |-> Piece(AtRank(i))'.event.key]
  BY DEF Trail, RankOf, AtRank
<1>6. \A i \in 1 .. Cardinality(EventPlaces) : Piece(AtRank(i))' = Piece(AtRank(i))
  BY <1>3 DEF Piece
<1> QED BY <1>2, <1>4, <1>5, <1>6

\* An event takes the next rank.
LEMMA TrailGrows ==
    ASSUME Shape, ChainInv, up, Ranked, Ranked' => TrailTells', TrailTells,
           NEW day \in Days, NEW key, NEW e, e = EventAtHead(key, FALSE), PutPiece(day, e, TRUE, TRUE)
    PROVE  Ranked' /\ Trail' = Append(Trail, key)
<1>1. e.seq = store.next /\ e.key = key /\ e.seal = FALSE BY DEF EventAtHead
<1>2. PICK new : /\ new = <<day, Len(files[day]) + 1>>
                 /\ new \notin Places /\ Places' = Places \cup {new}
                 /\ Piece(new)' = [event |-> e, json |-> TRUE, end |-> TRUE]
                 /\ \A p \in Places : Piece(p)' = Piece(p)
  BY PutPlace
<1>3. PICK m \in Nat : Numbered(m) BY DEF ChainInv
<1>4. store.next = m /\ \A p \in Places : Piece(p).event.seq \in 0 .. m - 1
  BY <1>3 DEF Numbered, SeqOf
<1>5. Piece(new)'.event = e /\ e.seq = m
  <2>1. PICK pc : pc = Piece(new)' OBVIOUS
  <2>2. pc.event = e BY <1>2, <2>1
  <2>3. e.seq = m BY <1>1, <1>4
  <2> QED BY <2>1, <2>2, <2>3
<1>6. EventPlaces' = EventPlaces \cup {new} /\ new \notin EventPlaces
  BY <1>1, <1>2, <1>5 DEF EventPlaces
<1>7. EventPlaces \subseteq Places BY DEF EventPlaces
<1>8. PICK n : n = Cardinality(EventPlaces) OBVIOUS
<1>9. /\ n \in Nat /\ IsFiniteSet(EventPlaces') /\ Cardinality(EventPlaces') = n + 1
  BY <1>6, <1>8, FS_AddElement, FS_CardinalityType DEF Ranked
<1>10. \A p, q \in EventPlaces : SortsBefore(q, p)' <=> SortsBefore(q, p)
  BY <1>2, <1>7 DEF SortsBefore, Before
<1>11. \A p \in EventPlaces : ~SortsBefore(new, p)' /\ SortsBefore(p, new)'
  <2> SUFFICES ASSUME NEW p \in EventPlaces PROVE ~SortsBefore(new, p)' /\ SortsBefore(p, new)'
    OBVIOUS
  <2>1. PICK a : a = Piece(p)'.event.seq OBVIOUS
  <2>2. PICK b : b = Piece(new)'.event.seq OBVIOUS
  <2>3. a \in 0 .. m - 1 BY <1>2, <1>4, <1>7, <2>1
  <2>4. b = m BY <1>5, <2>2
  <2>5. a < b /\ ~(b < a) /\ a # b BY <2>3, <2>4
  <2> QED BY <2>1, <2>2, <2>5 DEF SortsBefore
<1>12. ~SortsBefore(new, new)'
  <2>1. day \in Nat /\ Len(files[day]) \in Nat BY PlacesArePairs, LedgerAssumption
  <2>2. new[1] \in Nat /\ new[2] \in Nat BY <1>2, <2>1
  <2>3. \A a \in Nat : ~(a < a) OBVIOUS
  <2>4. ~(new[1] < new[1] \/ (new[1] = new[1] /\ new[2] < new[2])) BY <2>2, <2>3
  <2>5. PICK b : b = Piece(new)'.event.seq OBVIOUS
  <2>6. b = m BY <1>5, <2>5
  <2>7. ~(b < b) BY <2>3, <2>6
  <2> QED BY <2>4, <2>5, <2>7 DEF SortsBefore, Before
<1>13. ASSUME NEW p \in EventPlaces PROVE RankOf(p)' = RankOf(p)
  <2>1. {q \in EventPlaces' : SortsBefore(q, p)'} = {q \in EventPlaces : SortsBefore(q, p)}
    BY <1>6, <1>10, <1>11
  <2> QED BY <2>1 DEF RankOf
<1>14. RankOf(new)' = n + 1
  <2>1. {q \in EventPlaces' : SortsBefore(q, new)'} = EventPlaces
    BY <1>6, <1>11, <1>12
  <2> QED BY <1>8, <2>1 DEF RankOf
<1>15. Ranked'
  <2>1. \A p \in EventPlaces : RankOf(p) \in 1 .. n BY <1>8 DEF Ranked
  <2>2. \A p \in EventPlaces' : RankOf(p)' \in 1 .. n + 1
    BY <1>6, <1>9, <1>13, <1>14, <2>1
  <2>3. ASSUME NEW i \in 1 .. n + 1 PROVE \E p \in EventPlaces' : RankOf(p)' = i
    <3>1. CASE i = n + 1 BY <1>6, <1>14, <3>1
    <3>2. CASE i # n + 1
      <4>1. i \in 1 .. n BY <1>9, <3>2
      <4>2. PICK p \in EventPlaces : RankOf(p) = i BY <1>8, <4>1 DEF Ranked
      <4> QED BY <1>6, <1>13, <4>2
    <3> QED BY <3>1, <3>2
  <2>4. ASSUME NEW p \in EventPlaces', NEW q \in EventPlaces', RankOf(p)' = RankOf(q)' PROVE p = q
    <3>1. CASE p \in EventPlaces /\ q \in EventPlaces BY <1>13, <2>4, <3>1 DEF Ranked
    <3>2. CASE p = new /\ q \in EventPlaces BY <1>9, <1>13, <1>14, <2>1, <2>4, <3>2
    <3>3. CASE q = new /\ p \in EventPlaces BY <1>9, <1>13, <1>14, <2>1, <2>4, <3>3
    <3> QED BY <1>6, <3>1, <3>2, <3>3
  <2> QED BY <1>9, <2>2, <2>3, <2>4 DEF Ranked
<1>16. TrailTells' BY <1>15
<1>17. PICK s, t : s = Trail /\ t = Trail' OBVIOUS
<1>18. /\ s = [i \in 1 .. n |-> s[i]] /\ t = [i \in 1 .. n + 1 |-> t[i]]
  BY <1>8, <1>9, <1>16, <1>17 DEF TrailTells
<1>19. \A i \in 1 .. n : t[i] = s[i]
  <2> SUFFICES ASSUME NEW i \in 1 .. n PROVE t[i] = s[i]
    OBVIOUS
  <2>1. PICK p \in EventPlaces : RankOf(p) = i BY <1>8 DEF Ranked
  <2>2. s[i] = Piece(p).event.key BY <1>17, <2>1 DEF TrailTells
  <2>3. t[i] = Piece(p)'.event.key BY <1>6, <1>13, <1>16, <1>17, <2>1 DEF TrailTells
  <2> QED BY <1>2, <1>7, <2>2, <2>3
<1>20. t[n + 1] = key
  <2>1. t[n + 1] = Piece(new)'.event.key BY <1>6, <1>14, <1>16, <1>17 DEF TrailTells
  <2> QED BY <1>1, <1>5, <2>1
<1>21. t = Append(s, key)
  <2> DEFINE T == {s[i] : i \in 1 .. n} \cup {key}
  <2>1. s \in [1 .. n -> T] BY <1>18
  <2>2. key \in T OBVIOUS
  <2>3. \A i \in 1 .. n + 1 : t[i] \in T
    <3>1. \A i \in 1 .. n : s[i] \in T BY <2>1
    <3>2. \A i \in 1 .. n + 1 : i \in 1 .. n \/ i = n + 1 BY <1>9
    <3> HIDE DEF T
    <3> QED BY <1>19, <1>20, <2>2, <3>1, <3>2
  <2>4. t \in [1 .. n + 1 -> T] BY <1>18, <2>3
  <2> HIDE DEF T
  <2>5. s \in Seq(T) /\ Len(s) = n
    <3>1. s \in Seq(T) BY <1>9, <2>1, SeqDef
    <3>2. DOMAIN s = 1 .. n BY <2>1
    <3> QED BY <1>9, <3>1, <3>2, LenProperties
  <2>6. t \in Seq(T) /\ Len(t) = n + 1
    <3>1. t \in Seq(T)
      <4>1. n + 1 \in Nat BY <1>9
      <4> QED BY <2>4, <4>1, SeqDef
    <3>2. DOMAIN t = 1 .. n + 1 BY <2>4
    <3> QED BY <1>9, <3>1, <3>2, LenProperties
  <2>7. /\ Append(s, key) \in Seq(T) /\ Len(Append(s, key)) = n + 1
        /\ \A i \in 1 .. n : Append(s, key)[i] = s[i]
        /\ Append(s, key)[n + 1] = key
    BY <2>2, <2>5, AppendProperties
  <2>8. \A i \in 1 .. n + 1 : t[i] = Append(s, key)[i]
    <3>1. \A i \in 1 .. n + 1 : i \in 1 .. n \/ i = n + 1 BY <1>9
    <3> QED BY <1>19, <1>20, <2>7, <3>1
  <2> QED BY <2>6, <2>7, <2>8, SeqEqual
<1> QED BY <1>15, <1>17, <1>21

\* It still does after a step.
LEMMA TrailToldNext == Ranked' => TrailTells'
<1>1. Ranked => TrailTells BY TrailTold
<1> QED BY <1>1, PTL

\* Nothing is written.
LEMMA TrailStays ==
    ASSUME Ranked, UNCHANGED files
    PROVE  Ranked' /\ Trail' = Trail
<1>1. \A p \in EventPlaces : Piece(p)' = Piece(p) BY DEF Piece
<1>2. Places' = Places BY DEF Places
<1>3. EventPlaces' = EventPlaces BY <1>2 DEF EventPlaces, Piece
<1> QED BY <1>1, <1>3, TrailAlone

\* A step of the log writes a key at the end of the trail, that of a call whose event was not in
\* the log, or leaves the trail.
TrailMoves ==
    \/ Trail' = Trail
    \/ \E c \in Calls : /\ call[c].at # "free" /\ call[c].key \notin InLog
                        /\ Trail' = Append(Trail, call[c].key)

LEMMA TrailStep ==
    ASSUME Sound, LedgerInv, Ranked, LedgerStep
    PROVE  Ranked' /\ TrailMoves
<1>0. Shape /\ ChainInv /\ TrailTells /\ today \in Days
  BY TrailTold DEF LedgerInv, LogInv, LedgerTypes
<1>1. CASE UNCHANGED files BY <1>1, TrailStays DEF TrailMoves
<1>2. ASSUME NEW c \in Calls, AppendEvent(c) PROVE Ranked' /\ TrailMoves
  <2>1. PICK day, key, e : day = call[c].day /\ key = call[c].key /\ e = EventAtHead(key, FALSE)
    OBVIOUS
  <2>2. ~WriteFails(day, e) BY NoStrike DEF WriteFails
  <2>3. /\ PutPiece(day, e, TRUE, TRUE) /\ up /\ call[c].at = "waiting"
        /\ key \notin DOMAIN store.idems
    BY <1>2, <2>1, <2>2 DEF AppendEvent
  <2>4. day \in Days BY <2>1, <2>3, CallFields DEF LedgerInv, LedgerTypes
  <2>5. key \notin InLog BY <2>3 DEF LedgerInv, LogInv
  <2>6. Ranked' /\ Trail' = Append(Trail, key)
    BY <1>0, <2>1, <2>3, <2>4, TrailToldNext, TrailGrows
  <2> QED BY <2>1, <2>3, <2>5, <2>6 DEF TrailMoves
<1>3. ASSUME NEW c \in Calls, MaybeSeal(c) PROVE Ranked' /\ TrailMoves
  <2>1. PICK e : e = EventAtHead(NoKey, TRUE) OBVIOUS
  <2>2. ~WriteFails(today, e) BY NoStrike DEF WriteFails
  <2>3. UNCHANGED files \/ PutPiece(today, e, TRUE, TRUE) BY <1>3, <2>1, <2>2 DEF MaybeSeal
  <2>4. CASE PutPiece(today, e, TRUE, TRUE)
    <3>1. PICK new : /\ new \notin Places /\ Places' = Places \cup {new}
                     /\ Piece(new)' = [event |-> e, json |-> TRUE, end |-> TRUE]
                     /\ \A p \in Places : Piece(p)' = Piece(p)
      BY <1>0, <2>4, PutPlace
    <3>2. Piece(new)'.event.seal = TRUE
      <4>1. PICK pc : pc = Piece(new)' OBVIOUS
      <4>2. pc.event = e BY <3>1, <4>1
      <4>3. e.seal = TRUE BY <2>1 DEF EventAtHead
      <4> QED BY <4>1, <4>2, <4>3
    <3>3. EventPlaces' = EventPlaces BY <3>1, <3>2 DEF EventPlaces
    <3>4. \A p \in EventPlaces : Piece(p)' = Piece(p) BY <3>1 DEF EventPlaces
    <3> QED BY <3>3, <3>4, TrailAlone DEF TrailMoves
  <2> QED BY <1>1, <2>3, <2>4
<1>4. ASSUME NEW c \in Calls, Known(c) \/ Refuse(c) \/ Publish(c) \/ Hang(c)
      PROVE  UNCHANGED files
  BY <1>4 DEF Known, Refuse, Publish, Hang
<1>5. Stop \/ Open \/ Midnight \/ SetBack => UNCHANGED files
  BY DEF Stop, Open, Midnight, SetBack
<1> QED BY <1>1, <1>2, <1>3, <1>4, <1>5 DEF LedgerStep, Handle

-------------------------------------------------------------------------------
(* The trail that AuditTrail promises.                                     *)

\* A key that is written is told as the promise asks.
LEMMA KeyIsTold ==
    ASSUME OrderInv, Ranked, NEW c \in Calls, call[c].at # "free", call[c].key \notin InLog,
           Trail' = Append(Trail, call[c].key), UNCHANGED ovars
    PROVE  Abstract!Next
<1>1. PICK k : k = call[c].key OBVIOUS
<1>2. Abstract!Told = InLog BY TrailTold, TrailIsLog DEF Abstract!Told
<1>3. /\ k \in Keys /\ k \in Nat /\ InLog \subseteq Nat /\ disk.done \subseteq Nat
  BY <1>1, NumbersOnly, KeysAreNumbers DEF OrderInv, OutboxInv, OutboxStates
<1>4. \A j \in disk.done \ (InLog \cup dropped) : j < k => j = k
  BY <1>1 DEF OrderInv, InOrderOfKeys, Told
<1>5. ASSUME k \in disk.done \ dropped, NEW j \in InLog PROVE j < k
  <2>1. ~(k < j) BY <1>1, <1>5 DEF OrderInv, InOrderOfKeys, Told
  <2>2. j # k /\ j \in Nat BY <1>1, <1>3, <1>5
  <2> QED BY <1>3, <2>1, <2>2
<1>6. disk' = disk /\ dropped' = dropped BY DEF ovars
<1>7. Abstract!Tell(k) BY <1>1, <1>2, <1>4, <1>5, <1>6 DEF Abstract!Tell
<1> QED BY <1>3, <1>7 DEF Abstract!Next

\* Everything else saves changes, gives some up, or is not seen.
LEMMA AgentSettles ==
    ASSUME OrderInv, OrderInv', UNCHANGED files, Ranked,
           disk' \in {disk, mem, mem'}, disk' # disk => running /\ mem.done \subseteq mem'.done,
           dropped \subseteq dropped'
    PROVE  Ranked' /\ Abstract!Next
<1>1. Ranked' /\ Trail' = Trail BY TrailStays
<1>2. disk'.done \in SUBSET Keys /\ dropped' \in SUBSET Keys
  <2>1. disk' \in OutboxStates /\ dropped' \subseteq Keys BY DEF OrderInv, OutboxInv, OutboxTypes
  <2> QED BY <2>1 DEF OutboxStates
<1>3. disk.done \subseteq disk'.done BY DEF OrderInv, Sender
<1>4. Abstract!Settle BY <1>1, <1>2, <1>3 DEF Abstract!Settle
<1> QED BY <1>1, <1>4 DEF Abstract!Next

LEMMA TrailNext ==
    ASSUME Sound, OrderInv, OrderInv', Ranked, [Next]_vars
    PROVE  Ranked' /\ [Abstract!Next]_<<disk.done, Trail, dropped>>
<1>1. CASE LedgerStep /\ UNCHANGED ovars
  <2>1. Ranked' /\ TrailMoves BY <1>1, TrailStep DEF OrderInv
  <2>2. CASE Trail' = Trail BY <1>1, <2>1, <2>2 DEF ovars
  <2>3. CASE \E c \in Calls : /\ call[c].at # "free" /\ call[c].key \notin InLog
                              /\ Trail' = Append(Trail, call[c].key)
    BY <1>1, <2>1, <2>3, KeyIsTold
  <2> QED BY <2>1, <2>2, <2>3 DEF TrailMoves
<1>2. CASE RecordAndSave \/ RecordThenSave \/ RecordRefusal
  <2>1. UNCHANGED files /\ dropped \subseteq dropped' /\ running
        /\ mem.done \subseteq mem'.done /\ disk' \in {disk, mem'}
    BY <1>2, RecordFits DEF OrderInv, RecordAndSave, RecordThenSave, RecordRefusal, Saves, SaveFails, lvars
  <2> QED BY <2>1, AgentSettles
<1>3. CASE Enregistrer \/ SaveReceived
  <2>1. UNCHANGED <<files, dropped, mem>> /\ running /\ disk' \in {disk, mem}
    BY <1>3 DEF Enregistrer, SaveReceived, Saves, SaveFails
  <2> QED BY <2>1, AgentSettles
<1>4. CASE \/ TakeBatch \/ SendNext \/ Received \/ BreakOff \/ GiveUp \/ AgentStop \/ AgentStart
            \/ (Listen /\ UNCHANGED ovars) \/ UNCHANGED vars
  <2>1. UNCHANGED <<files, disk>> /\ dropped \subseteq dropped'
    <3>1. CASE SendNext BY <3>1 DEF SendNext, Ask
    <3>2. CASE Received BY <3>2 DEF Received
    <3>3. CASE TakeBatch \/ BreakOff \/ GiveUp \/ AgentStop
      BY <3>3 DEF TakeBatch, BreakOff, GiveUp, AgentStop, lvars
    <3>4. CASE AgentStart \/ (Listen /\ UNCHANGED ovars) \/ UNCHANGED vars
      BY <3>4, ListenMoves DEF AgentStart, vars, lvars, ovars
    <3> QED BY <1>4, <3>1, <3>2, <3>3, <3>4
  <2> QED BY <2>1, AgentSettles
<1> QED BY <1>1, <1>2, <1>3, <1>4 DEF Next, Send

\* agentd and the log keep one trail: each change once, in the order of the changes, and nothing
\* taken back, through restarts of either side, answers that come late or never, and saves that
\* fail (ADR 0059).
THEOREM TrailIsKept ==
    ASSUME Sound, OrderedStops
    PROVE  Spec => TrailKept
<1>1. Init => Ranked /\ Abstract!Init
  <2> SUFFICES ASSUME Init PROVE Ranked /\ Abstract!Init
    OBVIOUS
  <2>1. EventPlaces = {} BY DEF Init, LedgerInit, Places, EventPlaces
  <2>2. IsFiniteSet(EventPlaces) /\ Cardinality(EventPlaces) = 0 BY <2>1, FS_EmptySet
  <2>3. Ranked BY <2>1, <2>2 DEF Ranked
  <2>4. Trail = << >> BY <2>2, <2>3, TrailTold DEF TrailTells
  <2>5. disk.done = {} /\ dropped = {} BY DEF Init, Nothing
  <2> QED BY <2>3, <2>4, <2>5 DEF Abstract!Init
<1> QED BY <1>1, OrderInit, OrderNext, TrailNext, PTL DEF Spec, TrailKept, Abstract!Spec
===============================================================================
