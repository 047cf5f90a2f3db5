-------------------------------- MODULE Ledger --------------------------------
(***************************************************************************)
(* The audit log (crate ledger): the store on disk (store.rs) and the      *)
(* service that is its only writer (bin/prophet-ledger.rs).                *)
(*                                                                         *)
(* The log is one file of lines per day.  An event is numbered, holds the  *)
(* hash of the event before it, and is written at the end of the file of   *)
(* the day of its own date, which the service reads before it takes the    *)
(* lock of the store.  Nothing is synchronised: a line is flushed to the   *)
(* operating system and acknowledged.  When the service starts it reads    *)
(* every line again, file after file; a line it cannot read stops it.      *)
(*                                                                         *)
(* A file is modelled as the pieces written to it: a piece is an event     *)
(* whose text is whole or cut short (json), with its newline or without    *)
(* (end).  A hash is the sequence of what it commits to, so that two hashes*)
(* are equal when their texts are.  Events without an idempotence key,     *)
(* payloads and the filters of a query other than task and number are left *)
(* out, and the filter of a subscriber.                                    *)
(***************************************************************************)
EXTENDS Integers, Sequences, FiniteSets, Functions

CONSTANTS
    Keys,      \* idempotence keys of the events sent
    TaskOf,    \* TaskOf[k]: the mission the event tells of
    Forbidden, \* keys whose payload the log refuses for good
    Calls,     \* slots for the calls in progress, naturals
    Days,      \* days, an interval of naturals: the names of the files in order
    Threshold, \* events between two seals (SEUIL_DE_SCELLEMENT)
    Capacity,  \* events the bus keeps for a subscriber (CAPACITY)
    Faults,    \* what may go wrong, subset of FaultKinds
    MaxEvents, \* bound on the events written to the files
    MaxFaults  \* bound on the faults of the run

FaultKinds == {"disk", "power", "clock", "ledger_crash", "midnight_crash",
               "timeout", "agent_crash", "save", "latecomer"}
NoKey == 0

ASSUME LedgerAssumption ==
    /\ NoKey \notin Keys
    /\ Forbidden \subseteq Keys
    /\ Threshold \in Nat \ {0} /\ Capacity \in Nat \ {0}
    /\ Faults \subseteq FaultKinds
    /\ MaxEvents \in Nat /\ MaxFaults \in Nat
    /\ Days # {} /\ Days \subseteq Nat /\ Calls \subseteq Nat \ {0}

VARIABLES
    files,   \* files[d]: the pieces written to the file of day d
    up,      \* the service is running
    store,   \* what the service holds in memory: next, head, index, idems, firsts, since
    call,    \* call[c]: the call in slot c and how far its handler is
    bus,     \* what was sent since the service started; a subscriber: where it began, what it
             \* reads next, what it was given
    today,   \* what the clock of the machine says
    faults   \* faults so far

lvars == <<files, up, store, call, bus, today, faults>>

Genesis == << >>
\* canonical_hash over every field: the number, what the event says, and the hash before.
Hash(e) == Append(e.prev, <<e.seq, e.key, e.seal>>)

FreeCall == [at |-> "free"]
NewBus == [sent |-> << >>, from |-> 1, next |-> 1, seen |-> << >>]
Empty == [x \in {} |-> x]
\* Store::open before it reads a line.
FreshStore == [next |-> 0, head |-> Genesis, index |-> Empty, idems |-> Empty,
               firsts |-> Empty, since |-> 0]

Strike(kind) == kind \in Faults /\ faults < MaxFaults /\ faults' = faults + 1

-------------------------------------------------------------------------------
(* Reading the files.                                                      *)

Places == UNION {{<<d, i>> : i \in 1 .. Len(files[d])} : d \in Days}
Piece(p) == files[p[1]][p[2]]
Before(p, q) == p[1] < q[1] \/ (p[1] = q[1] /\ p[2] < q[2])

\* A line starts at a piece when the one before it ended its line.
StartsLine(p) == p[2] > 1 => files[p[1]][p[2] - 1].end
EndsLine(p) == Piece(p).end \/ p[2] = Len(files[p[1]])
\* serde_json reads the line: one event, whole, alone on its line.
Readable(p) == StartsLine(p) /\ EndsLine(p) /\ Piece(p).json
AllReadable == \A p \in Places : Readable(p)

\* read_since scans every file from the line of its first indexed number >= from, and keeps
\* the numbers >= from; read_all is the scan from every first line.
IndexedFrom(from) == {store.index[s] : s \in {n \in DOMAIN store.index : n >= from}}
\* Mutant: nothing is looked for in files older than that of the first number.
ScanForward(from) == {p \in Places :
    /\ \E q \in IndexedFrom(from) : q[1] = p[1] /\ q[2] <= p[2]
    /\ \E q \in IndexedFrom(from) : /\ q[1] <= p[1]
                                    /\ \A n \in DOMAIN store.index :
                                          n >= from => Piece(q).event.seq <= n
    /\ Piece(p).event.seq >= from}
ScanFrom(from) == {p \in Places :
    /\ \E q \in IndexedFrom(from) : q[1] = p[1] /\ q[2] <= p[2]
    /\ Piece(p).event.seq >= from}
\* query of a task and everything after a number.
QueryTask(task, from) ==
    IF task \notin DOMAIN store.firsts THEN {}
    ELSE LET start == IF from > store.firsts[task] THEN from ELSE store.firsts[task]
         IN {p \in ScanFrom(start) : ~Piece(p).event.seal /\ TaskOf[Piece(p).event.key] = task}

\* verify_chain over read_all, sorted by number (a stable sort: the order of the files
\* decides between equal numbers).
SortsBefore(p, q) ==
    LET m == Piece(p).event.seq  n == Piece(q).event.seq
    IN m < n \/ (m = n /\ Before(p, q))
VerifyOk ==
    /\ AllReadable
    /\ \A q \in Places :
        LET earlier == {p \in Places : SortsBefore(p, q)}
        IN IF earlier = {} THEN Piece(q).event.prev = Genesis
           ELSE \E p \in earlier :
                    /\ \A r \in earlier : r = p \/ SortsBefore(r, p)
                    /\ Piece(q).event.seq = Piece(p).event.seq + 1
                    /\ Piece(q).event.prev = Hash(Piece(p).event)

-------------------------------------------------------------------------------
(* Writing a line.                                                         *)

\* Mutant: the chain starts again with each file.
EventOfItsDay(key, seal) ==
    [seq |-> store.next, prev |-> IF files[today] = << >> THEN Genesis ELSE store.head,
     key |-> key, seal |-> seal]
EventAtHead(key, seal) == [seq |-> store.next, prev |-> store.head, key |-> key, seal |-> seal]
With(f, x, v) == [y \in DOMAIN f \cup {x} |-> IF y = x THEN v ELSE f[y]]
WithFirst(f, x, v) == IF x \in DOMAIN f THEN f ELSE With(f, x, v)

PutPiece(day, e, json, end) ==
    files' = [files EXCEPT ![day] = Append(@, [event |-> e, json |-> json, end |-> end])]

\* Mutants: the key is not indexed; the number is not counted.
RememberedWithoutKey(day, e) ==
    [store EXCEPT !.next = @ + 1, !.head = Hash(e), !.since = @ + 1,
                  !.index = With(@, e.seq, <<day, Len(files[day]) + 1>>),
                  !.firsts = IF e.seal THEN @ ELSE WithFirst(@, TaskOf[e.key], e.seq)]
\* write_line and append that succeed: the memory follows the file.
Remembered(day, e) ==
    [store EXCEPT
        !.next = @ + 1,
        !.head = Hash(e),
        !.index = With(@, e.seq, <<day, Len(files[day]) + 1>>),
        !.idems = IF e.seal THEN @ ELSE With(@, e.key, e.seq),
        !.firsts = IF e.seal THEN @ ELSE WithFirst(@, TaskOf[e.key], e.seq),
        !.since = @ + 1]

\* A write that fails leaves nothing, a line cut short, a line without its newline, or, when
\* the buffer is flushed again as it is dropped, the whole line; the memory does not follow.
WriteFails(day, e) ==
    /\ Strike("disk")
    /\ \/ UNCHANGED files
       \/ PutPiece(day, e, FALSE, FALSE)
       \/ PutPiece(day, e, TRUE, FALSE)
       \/ PutPiece(day, e, TRUE, TRUE)
    /\ UNCHANGED store

Written == Cardinality(Places)

-------------------------------------------------------------------------------
(* The service: ledger.append, step by step around the lock of the store.  *)

LockFree == \A c \in Calls : call[c].at # "sealing"
Answer(c, result) == call' = [call EXCEPT ![c] = [at |-> "answered", key |-> call[c].key,
                                                  heard |-> call[c].heard, result |-> result]]

\* A caller sends an event; the handler reads the date, then waits for the lock.
Ask(c, k) ==
    /\ call[c].at = "free"
    /\ IF up THEN call' = [call EXCEPT ![c] = [at |-> "waiting", key |-> k, heard |-> TRUE,
                                               day |-> today]]
             ELSE call' = [call EXCEPT ![c] = [at |-> "answered", key |-> k, heard |-> TRUE,
                                               result |-> "failed"]]
    /\ UNCHANGED <<files, up, store, bus, today, faults>>

\* Mutant: an event already written is published again.
KnownAndPublished(c) ==
    /\ up /\ LockFree /\ call[c].at = "waiting"
    /\ call[c].key \in DOMAIN store.idems
    /\ Answer(c, "known")
    /\ bus' = [bus EXCEPT !.sent = Append(@, store.idems[call[c].key])]
    /\ UNCHANGED <<files, up, store, today, faults>>
\* A key already written answers with the event as it is; event_at reads it at its place.
Known(c) ==
    /\ up /\ LockFree /\ call[c].at = "waiting"
    /\ call[c].key \in DOMAIN store.idems
    /\ LET p == store.index[store.idems[call[c].key]]
       IN Answer(c, IF EndsLine(p) /\ Piece(p).json THEN "known" ELSE "failed")
    /\ UNCHANGED <<files, up, store, bus, today, faults>>

\* check_payload refuses the event before anything is written.
Refuse(c) ==
    /\ up /\ LockFree /\ call[c].at = "waiting"
    /\ call[c].key \notin DOMAIN store.idems
    /\ call[c].key \in Forbidden
    /\ Answer(c, "refused")
    /\ UNCHANGED <<files, up, store, bus, today, faults>>

AppendEvent(c) ==
    /\ up /\ LockFree /\ call[c].at = "waiting"
    /\ call[c].key \notin DOMAIN store.idems \cup Forbidden
    /\ Written < MaxEvents
    /\ LET e == EventAtHead(call[c].key, FALSE)
       IN \/ /\ PutPiece(call[c].day, e, TRUE, TRUE)
             /\ store' = Remembered(call[c].day, e)
             /\ call' = [call EXCEPT ![c] = [at |-> "sealing", key |-> @.key, heard |-> @.heard,
                                             seq |-> e.seq]]
             /\ UNCHANGED faults
          \/ /\ WriteFails(call[c].day, e)
             /\ Answer(c, "failed")
    /\ UNCHANGED <<up, bus, today>>

\* maybe_seal: the seal is an event like the others; when it fails the caller is told so,
\* its event is written and is not published.
Publishing(c, numbers) ==
    call' = [call EXCEPT ![c] = [at |-> "publishing", key |-> @.key, heard |-> @.heard,
                                 numbers |-> numbers]]
MaybeSeal(c) ==
    /\ up /\ call[c].at = "sealing"
    /\ IF store.since < Threshold
       THEN Publishing(c, <<call[c].seq>>) /\ UNCHANGED <<files, store, faults>>
       ELSE LET e == EventAtHead(NoKey, TRUE)
            IN \/ /\ PutPiece(today, e, TRUE, TRUE)
                  /\ store' = [Remembered(today, e) EXCEPT !.since = 0]
                  /\ Publishing(c, <<call[c].seq, e.seq>>)
                  /\ UNCHANGED faults
               \/ /\ WriteFails(today, e)
                  /\ Answer(c, "failed")
    /\ UNCHANGED <<up, bus, today>>

\* The lock is released before the bus: two handlers may publish in either order.
Publish(c) ==
    /\ up /\ call[c].at = "publishing"
    /\ bus' = [bus EXCEPT !.sent = Append(@, Head(call[c].numbers))]
    /\ IF Len(call[c].numbers) = 1 THEN Answer(c, "written") ELSE Publishing(c, Tail(call[c].numbers))
    /\ UNCHANGED <<files, up, store, today, faults>>

\* The caller reads its answer, or has gone and nobody does.
Hang(c) ==
    /\ call[c].at = "answered" /\ ~call[c].heard
    /\ call' = [call EXCEPT ![c] = FreeCall]
    /\ UNCHANGED <<files, up, store, bus, today, faults>>

-------------------------------------------------------------------------------
(* Stops, starts, the clock and the power.                                 *)

\* Every call in progress ends with a closed connection.
Cut == [c \in Calls |-> IF call[c].at \in {"free", "answered"} THEN call[c]
                        ELSE [at |-> "answered", key |-> call[c].key,
                              heard |-> call[c].heard, result |-> "failed"]]

\* The end of the process.  A stop that finds an event in a later file than one with a higher
\* number is a fault of its own kind: LedgerMidnight.cfg shows what the start after it does.
InOrder == \A p, q \in Places : Before(p, q) => Piece(p).event.seq < Piece(q).event.seq
Stop ==
    /\ up
    /\ Strike(IF InOrder THEN "ledger_crash" ELSE "midnight_crash")
    /\ up' = FALSE
    /\ store' = FreshStore /\ call' = Cut /\ bus' = NewBus
    /\ UNCHANGED <<files, today>>

\* rebuild_index: the last line of the last file gives the next number and the head, the
\* first line of a task its first number, the last line of a number its place.
LastPlace == CHOOSE p \in Places : \A q \in Places : q = p \/ Before(q, p)
Rebuilt ==
    LET events == {p \in Places : ~Piece(p).event.seal}
        LastOf(ps) == CHOOSE p \in ps : \A q \in ps : q = p \/ Before(q, p)
        FirstOf(ps) == CHOOSE p \in ps : \A q \in ps : q = p \/ Before(p, q)
        seals == Places \ events
    IN IF Places = {} THEN FreshStore
       ELSE [next |-> Piece(LastPlace).event.seq + 1,
             head |-> Hash(Piece(LastPlace).event),
             index |-> [n \in {Piece(p).event.seq : p \in Places} |->
                           LastOf({p \in Places : Piece(p).event.seq = n})],
             idems |-> [k \in {Piece(p).event.key : p \in events} |->
                           Piece(LastOf({p \in events : Piece(p).event.key = k})).event.seq],
             firsts |-> [t \in {TaskOf[Piece(p).event.key] : p \in events} |->
                           Piece(FirstOf({p \in events : TaskOf[Piece(p).event.key] = t})).event.seq],
             since |-> IF seals = {} THEN Cardinality(Places)
                       ELSE Cardinality({p \in Places : Before(LastOf(seals), p)})]

Open ==
    /\ ~up /\ AllReadable
    /\ up' = TRUE /\ store' = Rebuilt
    /\ UNCHANGED <<files, call, bus, today, faults>>

\* The machine loses power: what the system had not written of each file is gone, and the
\* last line that is left may be cut.
PowerCut ==
    /\ Strike("power")
    /\ \E kept \in [Days -> 0 .. MaxEvents], cut \in [Days -> BOOLEAN] :
        /\ \A d \in Days : kept[d] <= Len(files[d]) /\ (cut[d] => kept[d] < Len(files[d]))
        /\ files' = [d \in Days |->
              SubSeq(files[d], 1, kept[d])
              \o IF cut[d] THEN <<[files[d][kept[d] + 1] EXCEPT !.json = FALSE, !.end = FALSE]>>
                           ELSE << >>]
    /\ up' = FALSE /\ store' = FreshStore /\ call' = Cut /\ bus' = NewBus
    /\ UNCHANGED today

\* Midnight, or a clock that is set back.
Midnight ==
    /\ today + 1 \in Days
    /\ today' = today + 1
    /\ UNCHANGED <<files, up, store, call, bus, faults>>
SetBack ==
    /\ Strike("clock")
    /\ today - 1 \in Days
    /\ today' = today - 1
    /\ UNCHANGED <<files, up, store, call, bus>>

-------------------------------------------------------------------------------
(* The subscribers of the bus.                                            *)

\* A subscriber: it begins at what is sent next (Bus::subscribe), and reads one event after
\* the other; one that is late goes to the oldest the channel holds, and is not told.
Subscribe ==
    /\ up /\ Strike("latecomer")
    /\ LET next == Len(bus.sent) + 1
       IN bus' = [bus EXCEPT !.from = next, !.next = next, !.seen = << >>]
    /\ UNCHANGED <<files, up, store, call, today>>
Receive ==
    /\ bus.next <= Len(bus.sent)
    /\ LET oldest == Len(bus.sent) - Capacity + 1
       IN \/ /\ bus.next >= oldest
             /\ bus' = [bus EXCEPT !.next = @ + 1, !.seen = Append(@, bus.sent[bus.next])]
          \/ /\ bus.next < oldest
             /\ bus' = [bus EXCEPT !.next = oldest]
    /\ UNCHANGED <<files, up, store, call, today, faults>>
Listen == Subscribe \/ Receive

-------------------------------------------------------------------------------
LedgerInit ==
    /\ files = [d \in Days |-> << >>]
    /\ up = TRUE /\ store = FreshStore
    /\ call = [c \in Calls |-> FreeCall]
    /\ bus = NewBus
    /\ today \in Days /\ \A d \in Days : today <= d
    /\ faults = 0

Handle(c) == Known(c) \/ Refuse(c) \/ AppendEvent(c) \/ MaybeSeal(c) \/ Publish(c) \/ Hang(c)
LedgerStep == (\E c \in Calls : Handle(c)) \/ Stop \/ Open \/ Midnight \/ SetBack
\* Any client: it sends an event it may have sent before, and reads the answer.
Collect(c) ==
    /\ call[c].at = "answered" /\ call[c].heard
    /\ call' = [call EXCEPT ![c] = FreeCall]
    /\ UNCHANGED <<files, up, store, bus, today, faults>>

\* Or it gives up, and its call is handled all the same.
Leave(c) ==
    /\ call[c].at \in {"waiting", "sealing", "publishing"} /\ call[c].heard
    /\ Strike("timeout")
    /\ call' = [call EXCEPT ![c].heard = FALSE]
    /\ UNCHANGED <<files, up, store, bus, today>>

LedgerNext ==
    \/ LedgerStep
    \/ \E c \in Calls : Collect(c) \/ Leave(c) \/ \E k \in Keys : Ask(c, k)
LedgerSpec == LedgerInit /\ [][LedgerNext]_lvars
\* The same with a subscriber.
ListenedSpec == LedgerInit /\ [][LedgerNext \/ Listen]_lvars

-------------------------------------------------------------------------------
(* Properties.                                                             *)

Pieces == [event : [seq : Nat, prev : Seq(Nat \X (Keys \cup {NoKey}) \X BOOLEAN),
                    key : Keys \cup {NoKey}, seal : BOOLEAN],
           json : BOOLEAN, end : BOOLEAN]
Buses == [sent : Seq(Nat), from : Nat, next : Nat, seen : Seq(Nat)]
CallStates ==
    [at : {"free"}]
    \cup [at : {"waiting"}, key : Keys, heard : BOOLEAN, day : Days]
    \cup [at : {"sealing"}, key : Keys, heard : BOOLEAN, seq : Nat]
    \cup [at : {"publishing"}, key : Keys, heard : BOOLEAN, numbers : Seq(Nat) \ {<< >>}]
    \cup [at : {"answered"}, key : Keys, heard : BOOLEAN,
          result : {"written", "known", "refused", "failed"}]

\* The variables have the types of the structures they stand for, and a running service has
\* indexed every number below the next one, at a place that holds it.
LedgerTypeOK ==
    /\ files \in [Days -> Seq(Pieces)]
    /\ up \in BOOLEAN /\ today \in Days /\ faults \in 0 .. MaxFaults
    /\ call \in [Calls -> CallStates]
    /\ bus \in Buses
    /\ up => /\ DOMAIN store.index = 0 .. store.next - 1
             /\ \A n \in DOMAIN store.index : /\ store.index[n] \in Places
                                               /\ Piece(store.index[n]).event.seq = n

EventPlaces == {p \in Places : ~Piece(p).event.seal}
InLog == {Piece(p).event.key : p \in EventPlaces}

\* Sent again after a lost answer, a restart of either side or a save that failed, an event is
\* written once (ADR 0059; Store::append, rebuild_index).
WrittenOnce == \A p, q \in EventPlaces : Piece(p).event.key = Piece(q).event.key => p = q

\* ledger.verify accepts the log at every moment: one sequence of numbers, each event on the
\* hash of the one before (prophet-ledger.rs, "the only writer").
ChainVerifies == VerifyOk

\* A query that starts from the index finds every event of the mission from that number on,
\* whatever file the clock put it in (Store::query, read_since).
QueriesComplete == up =>
    \A t \in Range(TaskOf), n \in 0 .. MaxEvents :
        QueryTask(t, n) = {p \in EventPlaces : TaskOf[Piece(p).event.key] = t
                                             /\ Piece(p).event.seq >= n}

\* A number is in the hands of a call that will publish it.
OnItsWay(n) ==
    \E c \in Calls :
        \/ call[c].at = "sealing" /\ n \in {call[c].seq, store.next - 1}
        \/ call[c].at = "publishing" /\ n \in Range(call[c].numbers)
\* A subscriber sees each number once and only numbers of the log; one it does not have, above
\* one it has, is on its way, was sent before it came, is still ahead of it, or was followed by
\* as many events as the bus keeps: "un abonné trop lent perd les événements les plus anciens"
\* (subscribe.rs: Subscription::next; the append handler publishes after the lock).
BusFaithful ==
    /\ \A i, j \in DOMAIN bus.seen : bus.seen[i] = bus.seen[j] => i = j
    /\ Range(bus.seen) \subseteq DOMAIN store.index
    /\ \A n \in DOMAIN store.index \ Range(bus.seen) : (\E m \in Range(bus.seen) : m < n) =>
          \/ OnItsWay(n)
          \/ \E p \in DOMAIN bus.sent :
                /\ bus.sent[p] = n
                /\ p \notin bus.from .. bus.next - 1 \/ p <= Len(bus.sent) - Capacity

===============================================================================
