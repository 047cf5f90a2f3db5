# Formal model of Prophet OS

Prophet OS is a set of Rust services that let AI agents work on a human's computer
under rights, approvals and an audit log. This directory holds TLA+ modules that model
its services from their source, configurations that model-check them with TLC on small
instances, and proofs, checked by TLAPS, of the properties that hold for every size.

Contents:

1. The system and its components
2. How the modules are organised
3. Publication: carrying a mission's files into the home directory
4. Broker: tokens, delegation, revocation
5. Approvals: what the human allows
6. Ledger and outbox: the audit log and what is sent to it
7. Missions: their workers and their budgets
8. Sandboxes and the reserve of microVMs
9. Where the code departs from what it says
10. What is proved, what is only model-checked
11. What is not modelled, and why
12. Plan

Paths below are relative to `src/`. A line number is that of the commit in `src/`.

## 1. The system and its components

The services are processes that talk over Unix sockets in `/run/prophet`, one line of
JSON-RPC a message (`crates/prophet-ipc`), with a client that gives up after five
seconds; a service admits a caller by the user of its socket. A mission runs like this:
`agentd` creates a task, obtains a token for it from `capd`, captures a private copy of
the home directory with `sfs`, and runs a model's loop (`providers`, or an official
client started by `pilotd` in the human's session). Every tool call passes through one
registry (`mcp-system`): capd is asked whether the token allows it, the human is asked
when a decision is needed, the tool runs, and the ledger records each step. Code runs
in `sandboxd`'s sandboxes, requests leave through `egress`, secrets stay in `vault`.
At the end the files the mission changed are reviewed, and on the human's order `sfs`
publishes them into the home directory, from where the human may undo them.

| Component (`crates/`) | State it keeps | Operations | Talks to | What makes it correct |
|---|---|---|---|---|
| **sfs, publication** (`publication.rs`) | journal of the batch on disk; slots in `displaced/` | apply, undo, recover, resolve | home directory, commanded by agentd | no document half written, no edit of the human lost, a finished batch is finished, a batch in conflict can go on |
| **capd, broker** (`broker.rs`, `revocations.rs`) | issued tokens and revoked subjects in memory; register of revocations on disk | mint, delegate, check, revoke | every service | delegation only narrows, a revocation is final |
| **capd, approvals** (`approvals.rs`) with **the registry** (`mcp-system/registry.rs`) | queue of questions, decisions, rules, in memory and saved | request, explain, resolve, expire, clear; call, wait, give up | tools, the human | one permission, one irreversible run; a question is not lost; a revoked task stops |
| capd, presence (`presence.rs`) | failures, lock, tickets, the code's hash | set code, prove, use a ticket | the human's screen | tickets end with their time and their code; a lock holds for its five minutes |
| capd, policy (`policy.rs`, `enforce.rs`) | none | decide, translate | broker, sandboxd | refuses more than the token, never less |
| **ledger** (`store.rs`, `prophet-ledger.rs`) | daily files of chained lines, keys, number of the next event | append, read, seal, verify, subscribe | all services append | one sequence, one chain, across days and restarts; what was acknowledged stays |
| **agentd, outbox** (`runtime.rs`, `prophet-agentd.rs`) | state file, events waiting | record, save, send, resume | ledger | every saved change is told once, in order |
| **agentd, missions** (`task.rs`, `budget.rs`, `local.rs`, `prophet-agentd.rs`) | tasks, tables of jobs and sessions, workers | start, attach, take a turn, delegate, cancel, stop everything | capd, sfs, providers, ledger | one thread leads a mission, final states are final, a tree spends no more than its root |
| sfs, workspaces (`workspace.rs`, `review.rs`, `snapshot.rs`) | captures and mission copies | capture, compare, review | agentd | the review shows what will be published |
| **sandboxd** (`prophet-sandboxd.rs`, `manager.rs`, `launch.rs`, `reserve.rs`) | table of sandboxes, reserve of microVMs, kept snapshot | start, run, freeze, thaw, kill, freeze all, refill | agentd, mcp-system | what executes can be stopped; files come home; the reserve refills, from what is installed |
| egress | none between requests | relay | capd, vault | the order of its guards |
| vault | encrypted table, saved | put, get, rotate | egress | a save is all or nothing |
| memoryd | SQLite tables | remember, search, forget | mcp-system | spaces are separate |
| providers | downloads, weights | pull, select, converse | agentd | one complete file after any interruption |
| pilotd | running clients, demands to stop | start, stop | agentd | a demand reaches the client it is for |
| sup, supd | trees of windows with versions | observe, act | surface, mcp-system | a difference applied to a tree gives the next tree |
| prophet-ipc, prophet-daemon | connections | call, serve | all | answers match requests |
| prophet-types | none | parse, canonicalise | all | one text, one meaning |
| surface, shell, prophet-cli, voice, bench, app-editor, browser-bridge, image, kernel, tools | views or none | show, command | all | outside this project |

Hard behaviours, over all of these: the human edits files no lock holds back; a process
or the machine stops between any two writes; a caller gives up while its request is
still handled; a save fails and the answer is given all the same; decisions, revocations
and running tools interleave; numbers of inodes come back. `PROJECT.json` lists them
under `hazards`, each at the line where it bites, with the properties that speak of it
or the part of the plan that will.

## 2. How the modules are organised

| Module | What it is | Extends |
|---|---|---|
| `Publication` | the walk over a batch, step by step, with crashes, faults and edits | |
| `Batch` | what a publication promises, one action per promise | |
| `PublicationProofs`, `BatchProofs` | their theorems | `Publication`, `Batch` |
| `PublicationPromise` | the rest of Publication's theorems, with the refinement of `Batch` | `PublicationProofs` |
| `Broker`, `BrokerProofs` | tokens, chains, register of revocations | |
| `Approvals`, `ApprovalsProofs` | queue of capd, calls of the registry, the human | |
| `Ledger` | the audit log: its files, its index, the append handler step by step | |
| `Outbox` | agentd's outbox, with the log it sends to | `Ledger` |
| `AuditTrail` | what the two promise together | |
| `Missions` | missions, their workers, sessions and clients, the two copies of a budget | |
| `Reserve` | the reserve of microVMs and its kept snapshot | |
| `Sandboxes` | the table of sandboxes, the threads that watch commands | `Reserve` |
| `AuditProofs`, `MissionsProofs`, `SandboxesProofs` | their theorems | `Outbox`, `Missions`, `Sandboxes` |
| `MCPublication`, `MCBroker`, `MCApprovals`, `MCLedger`, `MCOutbox`, `MCMissions`, `MCSandboxes` | instances for TLC: definitions substituted for constants, symmetry sets | |

`Publication` instantiates `Batch` under a refinement mapping (`Promise`) and is checked,
and proved, to implement it (`ImplementsBatch`). `Broker` and `Approvals` meet in one place, the
revocation: `Approvals` reduces `cap.check` to "the task is not revoked", which is
what `Broker` says of it in `RevocationHolds`. `Outbox` composes the sender with the whole of
`Ledger`, and instantiates `AuditTrail` (`Abstract`), which it implements. `Sandboxes` composes the table with the
whole of `Reserve`. `Missions` keeps of the log only what it is told of a mission's end. Definitions whose comment begins with
`Mutant:`, or which follow a definition of the same stem in the same section
(`SwapNamesUnlinking`, `MayDelegateUnknown`...), are faulty variants of the code:
putting one in place of the real one must make a named property fail, and
`PROJECT.json` says which.

Bounds have names everywhere (`MaxCrashes`, `MaxFaults`, `MaxClock`...), are
constants, and appear only in guards of the environment's actions or of a counter of
identities (`MaxAsks`, `Tokens`). No proof uses them but where section 10 says so.

`CHECK_DEADLOCK FALSE` is set in every configuration, because these systems really
stop: a batch over with the edits spent, a queue whose bounded clock and calls are used
up, a broker that refused to start.

## 3. Publication

### The code

`publication.rs` walks a list of ranks fixed by the review. For each rank `step`
(l. 889-999) verifies the document is the version reviewed, freezes a copy of the version
to install in a slot of `displaced/`, notes both inodes in the journal as an intention,
verifies again, exchanges the two names with one `renameat2`, synchronises both directories
and verifies what it did; `run` (l. 741-774) records the rank, or turns any error into a
conflict. `undo` walks the other way; `recover` goes on after an interruption; `resolve`
carries out the human's decision on a conflict, with `settle` (l. 844-887) to bring back
what the exchange carried away. One thread does this: agentd takes a semaphore of one and
the home directory is locked. agentd picks the command by the state of the journal
(`prophet-agentd.rs` 1164-1275, `workspace.rs` 403-535), which is where the guards of the
commands come from.

### The model

| Variable | Code |
|---|---|
| `disk`, `mem` | the journal on disk and the one the command holds: `state`, `undo`, `next`, `kept`, the intention (`pending`, `original`, `proposed`) |
| `pc`, `choice` | where the command stands between two writes or two system calls; the decision it carries out |
| `home`, `slot`, `content` | which inode each name links, in the home directory and in `displaced/`, and what each inode contains |
| `unsynced` | renames a loss of power may take back |
| `held`, `spent`, `authored`, `touched` | the human: open handles, edits made, what they still want kept, documents they touched |

Every write of the journal, every rename and every verification is a step of its own, so a
crash, an edit or an error may fall between any two. What one action groups: the reading of
the documents in `apply`, `settle` and `verify`. The human can be taken to edit before
or after such a reading, because between it and the next rename of the code there is
always another action, where the edit can happen. The two openings of a document in
`check` (content, then inode) are kept apart (`CheckOriginal`, `Identify`): an edit
between them matters. Modes and extended attributes are part of the version of a document.
A command that fails while it saves its journal leaves what a `Crash` leaves, and is one.
Inode numbers are free again as soon as nothing links them or holds them open: the code
tells files apart by number, so the model lets them come back. Names in `displaced/` are
not edited by the human. Conditions that end a command before it changes anything (the workspace
is not reviewed, the file system differs) are left out.

### The runs

| Run | Instance | Question |
|---|---|---|
| `PublicationCrashes` | a rewritten and a deleted document, 2 edits of every kind, 1 crash, losses of power | `TypeOK`, `JournalReadable`, `NoHumanLoss`, `NeverTorn`, `OutcomeAtomic`, `DoneIsSynced` |
| `PublicationFaults` | a rewritten, a created and a deleted document, 1 edit, 1 crash, 1 I/O error | `KeptLeftAlone`, `JournalForward`, `ImplementsBatch` |
| `PublicationSettles` | a rewritten and a deleted document, 1 edit in place or deletion, 1 crash, fairness | `KeepMineBringsBack`, `Settles` |

Why these bounds. Ranks interact through the journal only (one has its intention in it, or is
kept, while another is reached or not yet), so two ranks of different kinds, and three in
the second run, meet every combination of directions. Two edits are what it takes to edit a
document between a verification and the exchange and again between the exchange and the
decision. One crash leaves any journal the code can leave; a second one would start from a state
a first already reaches, since `recover` writes nothing before its first step. Six inodes
for two or three documents let a number come back. In `PublicationFaults` there
is no loss of power: together with an I/O error it is a divergence of the code
(section 9, `PublicationSyncError`). `PublicationSettles` leaves out saving by
rename, for the same reason (`PublicationImpasse`, `PublicationSavedByRename`).

### What they show

- `NoHumanLoss`: whatever the human wrote and did not overwrite or delete is under a
  name, of the home directory or of `displaced/`, after any crash or decision.
- `NeverTorn`: a document left alone shows a whole version, before or after.
- `OutcomeAtomic`: Committed means every document left alone shows the version after
  (or, if left to the human, the version before); RolledBack means it shows the one before.
- `DoneIsSynced`: the journal never counts as carried a rename the power may take back.
- `JournalReadable`: `read_journal`'s consistency test accepts whatever journal is left;
  otherwise no command could touch the batch any more.
- `JournalForward`, `KeptLeftAlone`: no rank is walked twice in one direction, an undo
  never turns back, and a document left to the human is not renamed again.
- `KeepMineBringsBack`: when `resolve` leaves a rank to the human it does not leave
  the mission's version at home with the human's in a slot.
- `Settles`: a publication that started ends Committed or RolledBack.
- `ImplementsBatch`: all the machinery of intentions and inodes does, for documents left
  alone, what `Batch` promises: they change in the direction of the batch, and the
  batch ends when all have arrived.

### Fairness

`WF(Step)`: a running command is a thread the system schedules, and its calls return.
`WF(Recover)`: an interrupted publication is taken up again; agentd calls `recover` on the next
command for the workspace, which is the human's or the client's doing. `WF` of a decision on
a conflict: the human answers in the end, with either decision. Nothing obliges the human to
undo, nor crashes, errors and edits to happen; they are bounded, so they end. Strong
fairness is not needed: once edits have ended, a command that is enabled stays so.

## 4. Broker

### The code and the model

`broker.rs` signs tokens (`mint`, `delegate`), decides requests (`check`) and walks the chain
of parents through the tokens it remembers having issued; `revocations.rs` keeps the
revoked subjects in an append-only file; the handlers `cap.*` of `prophet-capd.rs`
join the two, under one lock, so that one call is answered at a time (`Ready`).

| Variable | Code |
|---|---|
| `token`, `signed` | what each signed token says; holders keep them, restarts included |
| `issued`, `revoked` | memory of the broker, lost at a restart (the second read back from the register) |
| `lines`, `torn`, `unsynced` | the register: whole lines, a fragment without its newline at the end, lines not synchronised |
| `capd`, `writing` | running, down, or refusing to start; the line on its way to the disk |
| `inscribed`, `answered` | history: subjects whose revocation was answered by the call that wrote it; by any call |

A grant is the set of targets its pattern names, and `is_subset_of` is inclusion. The digest of
the parent in a token pins the whole chain above it: the record carries that chain as the
set `above`. The `task.spawn` grant and its `max_depth` are kept apart, since they bound chains.
The Cedar policy and the classes of actions only refuse more; the signature is taken to hold;
the two caches have keys with every input of what they remember. `Inscribe` is the write, its
synchronisation and the answer; `WrittenInPart` is what a crash or an error leaves of a
line; `Start` is `ouvrir`, which removes a fragment and refuses an unreadable line. A request
names at least one grant (`Token::validate`). The times of `broker.rs` have nanoseconds and lifetimes are
whole seconds: the clock counts ticks, `Second` of them to a second, and `Remaining` is the time left to the parent cut to
whole seconds, and at least one (l. 257).

### The runs

| Run | Instance | Question |
|---|---|---|
| `BrokerDelegation` | 3 tokens, 2 grants (one within the other), `task.spawn` absent, without `max_depth` or with 2, lifetimes of 1 and 2 seconds of two ticks, clock to tick 2 | `DelegationNarrows`, `HeldWithinParent` |
| `BrokerRevocation` | 3 tokens, 2 subjects, 2 crashes or losses of power, 2 failed writes | `RevocationHolds`, `ChainKnown` |

Three tokens make a chain with a token in the middle, the shortest where "direct parent" and
"root" differ; two grants make every relation of inclusion; two failed writes and two
crashes are enough to write on a fragment, fail again and start twice. `RevocationHolds` says:
once the call that wrote a revocation has answered, no token whose chain holds the subject
passes `check`, in any later life of capd. `ChainKnown` is why it may: a walk that met an
unknown parent would refuse, and one that stopped short would accept.
Two ticks to a second are what it takes for a parent to have less than a second left and be alive: a child born at tick 1 of
a parent that expires at tick 2 lives until tick 3. `HeldWithinParent` says what the code keeps all the same: a token each of
whose delegations left its parent a second or more outlives none of its ancestors, and any other outlives its parent by no more
than the second that follows its birth. That a child dies before a parent that was alive at its birth is what the comment
of l. 256 says, and `BrokerExpiredParent` refutes it.
`SpawnersBounded` (kept configuration `BrokerSpawners`, with the types), that a chain whose tokens all have a
bounded `task.spawn` is no deeper than its root allows. These are safety properties: no fairness is assumed.

## 5. Approvals

### The code and the model

A call that needs the human's decision goes from the registry (`call_recorded`, `authorize`,
`approbation`) to capd's queue (`request`). capd answers at once when a standing rule covers the
call or when a decision "once" waits for it, and otherwise puts a question; the model makes the
same call again after the decision. capd saves the queue as one file after each change
(`garder`, which only logs a failure) and reads it at its start (`charger`).

| Variable | Code |
|---|---|
| `mem`, `disk` | the queue: `pending`, `resolved`, `once`, `rules` in the order they were made |
| `up`, `revoked` | capd runs; revoked tasks |
| `call`, `late` | the call of each task and where it stands; requests whose caller gave up |
| `yes`, `runs`, `refused`, `open`, `after` | history: permissions given, irreversible runs, refusals for the task, questions that must stay, runs after a revocation |

`Keep(q)` is every save: memory takes the queue, the disk too unless the save fails (a failed
synchronisation of the directory after the rename counts as either). `GiveUp` is the client's
five seconds (`services.rs` 89-130): the request may still be handled afterwards, by
`AnswerNobody`, and a permission consumed then is lost to its caller. A task makes one call at a time.
`Revoke` is one step where the code changes the memory, saves the queue (`prophet-capd.rs` 272) and writes the
register (274) under its lock: a stop between them is not in this module, and the write of the register is `Broker`'s.
The proof of presence that `approval.resolve` asks for, the texts shown, and the entries in the
ledger are left out, so the component is modelled in part. `revoke_rule` exists in
`approvals.rs`, but nothing calls it.

### The runs

| Run | Instance | Question |
|---|---|---|
| `ApprovalsConsent` | 2 tasks of one agent, a reversible and an irreversible call of one name, every scope, 2 questions, 1 crash, 1 call given up | `QuestionsKept`, `OneLateRun`, `IrreversibleRefusalStands` |
| `ApprovalsFaults` | 1 task, an irreversible call, 2 questions, 2 failed saves, 2 crashes, clock past every lifetime | `SpentWithinFaults` |

Two questions let a permission and a refusal, or two rules, cover one call; two tasks
of one agent let a rule of scope "agent" reach the other. Lifetimes are 1 and 2 hours
in place of 1 and 24: what matters is that a question outlives a decision and that the clock
passes both. The number of failed saves must be two at least to tell "each adds one" from "one is
forgiven".

- `SpentWithinFaults`: irreversible runs never exceed the permissions given by more than the
  number of failed saves. With no failed save, one permission is one run, whatever is
  given up, retried or restarted (proved: `PermissionsSpentOnce`).
- `QuestionsKept`: a question put stays on disk until it is decided or lapses, also when its caller gave up.
- `OneLateRun`: a revoked task runs at most the one call capd had let through.
- `IrreversibleRefusalStands`: a refusal for the whole task is not overruled, for irreversible calls,
  by a permission given before, of any scope.

The last three are checked without failed saves. No liveness is claimed: nothing obliges the human
to answer, and nothing in the repository calls `approval.expire`.

## 6. Ledger and outbox

### The code and the model

The ledger (`store.rs`) appends events to one file a day. An event has the next number and the hash of the
event before; the service seals the chain every `SEUIL_DE_SCELLEMENT` events, remembers each
event's idempotence key, and rebuilds all of this from the files when it starts. agentd
(`runtime.rs`, `prophet-agentd.rs`) keeps what it has to tell in an outbox that is part of its saved
state, and one sender at a time empties it.

| Variable | Code |
|---|---|
| `files` | the pieces written to each day's file: whole or cut short, with their newline or without |
| `up`, `store` | the service; its `next`, `head`, `index`, `idems`, `firsts` and count since the last seal |
| `call` | each request and where its handler stands: date read, answered from memory, written, sealing, publishing |
| `bus` | the numbers sent on the broadcast since the start; a subscriber: where it began, what it reads next, what it was given |
| `mem`, `disk` (`Outbox`) | agentd's outbox and the changes it knows, held and saved |
| `unsaved`, `sending`, `dropped` | commands between their record and their save; the sender's copy, its call; events given up |

The date of an event is read by `Ask`, before the lock, as in `brouillon`. The lock of the store is
held over the key, the write and the seal (`AppendEvent`, `MaybeSeal`), and released before the bus
(`Publish`, one event at a time: the seal follows its event in a second step). A hash is the sequence of what it commits to, so equal
hashes mean equal histories.

The bus is a tokio broadcast that keeps the last `Capacity` events (1024 in `subscribe.rs`, any number from one here). A subscriber begins at
what is sent next (`Subscribe`) and reads at its own pace (`Receive`); when the event it is to read is no longer kept, it goes to the
oldest that is, and its caller is not told: the comment of `CAPACITY` says that a late subscriber knows (`RecvError::Lagged`), but
`Subscription::next` skips that answer (l. 69). Nothing in the services subscribes yet, so the subscriber is one that comes at any
moment, once or again, and its filter is left out. `LedgerSpec` is the log with its clients; `ListenedSpec` and the `Spec` of `Outbox` have
the subscriber too.

In `Outbox`, three forms of command are kept apart because a crash finds them in different states:
recorded and saved under one lock (`RecordAndSave`), recorded then saved after the lock is released
(`RecordThenSave`, `Enregistrer`), and recorded without a save (`RecordRefusal`). A sender that gives up after
five seconds leaves its request to be handled (`GiveUp`, and `Handle` afterwards); an event the log refuses for good leaves
the outbox loudly (`Received`, `dropped`). Keys are fresh, so they are numbers in the order of the commands.

### The runs

| Run | Instance | Question |
|---|---|---|
| `LedgerClock` | 4 events of 2 missions, one of them refused for good, 2 clients, 2 days, a seal every 2 events, 2 faults among a clock set back, a stop of the log and a client that gives up | `WrittenOnce`, `ChainVerifies`, `QueriesComplete` |
| `AuditDelivery` | 3 changes, one refused for good, an outbox of 2, a seal every 2 events, a bus that keeps one event, 2 faults among crashes of both, lost answers, failed saves and a subscriber that comes late | `TypeOK`, `NothingLost`, `BusFaithful`, `TrailKept`, `Delivered` |

Two clients are what it takes for a retry to meet the request it repeats; three keys that may be written
make one event before, between and after (two of them, of one mission, are alike: `Symmetry`); two days make every order of dates and numbers. An
outbox of two is full with three changes. A bus of one event is behind as soon as two are sent before they are read; a subscriber is there from the start, and
one that comes later counts as a fault, which bounds it. `MaxEvents` counts seals too. A stop
of the log that finds an event in a later file than one with a higher number is a fault of its own (`InOrder`), which
the run leaves out and `LedgerMidnight` has. Losses of power are in `PowerSpec`, not in `Spec` (`AuditPowerLoss`), and failed writes
in `LedgerDisk`.

- `WrittenOnce`: an event sent again is not written again.
- `ChainVerifies`: `ledger.verify` accepts the log at every moment.
- `QueriesComplete`: a query started from the index misses no event, even one a clock put in an older file.
- `BusFaithful`: a subscriber sees each number at most once, and only numbers of the log. One it has not seen, above one it has, is still in
  its handler's hands, was sent before the subscriber came, is still ahead of it, or was followed by as many events as the bus keeps.
- `NothingLost`: a saved change is in the saved outbox, in the log, or was given up loudly.
- `TrailKept`: agentd and the log implement `AuditTrail`: each change told once, in order, never taken back.
- `Delivered`: again and again, every saved change is in the log or was given up.

Fairness: `Delivered` needs the services to be started again (they are system units), the
timer that empties the outbox, and the handlers, which are threads that run. Faults are bounded, so they end.

## 7. Missions

### The code and the model

`runtime.rs` holds the tasks and saves them; `jobs` (who may be told to stop) and `seances` (open
tool sessions) are tables of the daemon with locks of their own; a local worker (`local.rs`) holds its own
copy of its task and publishes it whole. What can go wrong lies between these copies and locks.

| Variable | Code |
|---|---|
| `tasks`, `disk` | state, steps spent and limit of each mission, in memory and saved |
| `jobs`, `seances`, `clients` | the tables; the thread that holds an official client and the session it took |
| `workers` | each attempt to lead a mission: where it stands, its kind, its parent, its own count, its outcome |
| `stop`, `asked`, `unstarted`, `flagged`, `taken`, `halt` | what has been asked to stop and how far each request is |
| `log`, `used` | what the audit log says of a mission's end; history: steps really taken for a mission and for all it delegates, counted on every mission above the one at work (`Above`) |

A start takes its place (`Reserve`), then begins under another lock (`Begin`), then may have to give its place
back (`GiveBack`). `Charges` is `Control::charge`: the step is counted, published and saved before what was decided
is done. `PlanChild`, `LaunchChild`, `ChildBack`, `Absorb` follow `deleguer` in the parent's thread: half of what
is left is reserved, the child runs, and it is charged to the runtime's copy, then to the worker's. `Conclude`,
`ConcludeLog`, `ConcludePublish`, `Leave` are the end: told to stop by then, a mission is cancelled whatever it did; an
end the log does not confirm is a failure. `Cancel`, `LookUp`, `Retire`, `CancelPlan` are `annuler`, which reads `jobs`, releases
it, then acts. `Halt` is the emergency stop. `Restart` fails what ran.

Budgets are counted in steps, which are counted before they are taken. What is shown is about steps only: tokens are
checked after the turn that spent them, and the wall time of a child is not charged to its parent. `StartClient` is one step where the code looks at
the state of the mission under the lock of the runtime (`prophet-agentd.rs` 1371-1389) and enters the table of jobs under another (1393-1405), and
`Begin` leaves out a thread that the system refuses to make (1576-1605). A worker that panics, children
led by an official client (`deleguer_pilote`), capd's tokens, workspaces and tools are left out; trees stay below
`MAX_DEPTH`. A mission that is done may be undone later (`State::RolledBack`, `runtime.rs` 820), the one move the code
makes from a final state on purpose; publishing and undoing are left out here.

### The run

`Missions`: a root that may be led locally, by sessions or by an official client, its child, two
workers, 3 steps, one place for local jobs and two for sessions, the emergency stop and one fault among a
failed save, a crash, a refusal of the log and an error. The same with three workers (11.3
million states, no liveness, and with the types and `ClientsConcluded`) is the kept configuration
`MissionsCrowded`. Two workers let one attempt meet another for the same mission; three steps leave one
for the child after half is kept; a second fault would meet a mission already failed.

- `BudgetKept`: a mission and all it delegates take no more steps than it was given, and a root no more than the human gave it.
- `OneLeader`: two threads never lead one mission, over three tables and three locks.
- `DoneIsLogged`, `RunningIsLed`: what the service calls done is in the log, what it calls running is led.
- `Stoppable`: a local worker at work can be told to stop, or has been; the property names the one exception of the code.
- `FinalIsFinal`: a final state stays, but for missions of official clients (section 9).
- `WorkersEnd`: every local worker ends, and every session that is withdrawn.

Fairness: the threads of workers run, and a model asked for a turn answers or fails (its request has a
timeout). Nothing is assumed of the human, of clients or of faults.

## 8. Sandboxes and the reserve of microVMs

### The code and the model

`prophet-sandboxd.rs` launches a command under the lock of the table `vivantes`, puts it on the table and
watches it without the lock (`executer_bornee`): its end or its delay, its output, the work
disk that comes back, its place on the table. `manager.rs` signals the group of processes. The reserve
(`reserve.rs`) is a thread that keeps `Target` restored microVMs ready from one snapshot, which it keeps
between two lives of the service beside a mark of the images it was made of.

| Variable | Code |
|---|---|
| `lock`, `vivantes`, `sweep` | the lock of the table and who holds it; the table; what `freeze_all` has still to freeze |
| `runs`, `proc`, `stopped`, `shown` | each request; its process; processes stopped by a signal; the state its handle shows |
| `left`, `strays` | a child that outlives the command, with its output still open, or closed |
| `disk`, `home`, `unfetched` | whose files are on the work disk of each directory; whose came back to each mission; whose could not |
| `snapshot`, `image` | the kept files and their mark; what is installed |
| `thread`, `making`, `ready`, `out`, `made`, `broken` | the refilling thread, the machine it restores, those ready, those taken, what each was made of, an error told |

Files are abstracted to the request whose work disk they were on, and images to their names. `Restart` may
find another image installed. A pid is not given again while a handle has it. Level 1 is level 0 without its
handshake; probes and what the confinement does in the kernel are left out.

A level 0 command may leave a child in its group (`Exit`): there is no pid namespace (`confine.rs` 86-90), and its group and session are the
command's, since seccomp refuses `setsid` and `setpgid`. One that holds the output open keeps the request waiting; one that closed or redirected it does
not, and nothing signals it once the request is answered and the handle is off the table. It ends by itself or with the service. At level 2
`rapatrier` may fail (`Fetch`): the answer says so, and the directory of the machine is removed all the same (`prophet-sandboxd.rs`
190-197), so the files are lost.

`Ask` has no `sandbox.start` at level 2 (l. 99-122), which takes a machine or the shared directory and whose disk is never copied back nor removed:
the machines of `WorkComesHome` and `ReserveRefills` are those of `sandbox.run`.

### The runs

`Sandboxes`: two missions, two requests of kind run or start at level 0 and of kind run at level 2, a reserve of one, two images and one fault
of any kind (a helper, a mapping, a child left behind with its output open or closed, a refusing or failing machine, a failed boot or
restoration, files that cannot be copied back, a crash); 552523 states. Two requests are enough for one to end, or be killed, while the other takes its name; a reserve
of one is empty, taken and refilled. One machine is booted without the reserve at a time (`ColdAtOnce`), because two are a divergence of
the code: the run `SandboxesShareDisk`, expected to fail.

- `Controllable`: whatever executes is on the table under its task, so freezing and killing reach it; but for a child that a command which ended by
  itself left with its output closed, once the request is answered (`SandboxesOutlived`).
- `TableTells`: what is shown frozen does not execute, and what is shown running is not stopped.
- `WorkComesHome`: a mission gets back the files of its own commands and of no others, and of every level 2 command that came to its end
  unless its answer says that they were not copied.
- `MachinesFit`: no machine comes from a snapshot half written or of other images than those installed.
- `RunsAnswer`: every launched request is answered, unless a helper is dead with the lock or a child holds the request's output open for ever (`SandboxesDelay`).
- `ReserveRefills`: a machine taken is replaced, or the reserve says why not.

Fairness: weak for the threads; strong for `Clear`, because the lock of the table is tokio's, given in the order
it is asked for, though others may take it in between. No command has to end, nobody has to thaw it.

## 9. Where the code departs from what it says

One run is expected to fail and `PROJECT.json` (`findings`) quotes the sentence it contradicts:
`SandboxesShareDisk`. Microvms booted without the reserve all use `prophet-vm-<pid of sandboxd>`; with two at a time the second
command's files are written over the first's work disk, and come back to the first mission.

The others are kept as configurations. Each is refuted by TLC (`tlc -config <name>.cfg` on the MC
module of its name), and each states what a comment or a document says:

| Configuration | Property | What happens | Against |
|---|---|---|---|
| `PublicationSavedByRename` | `KeepMineBringsBack` | An editor saves by rename between `step`'s verification and the exchange. The slot then has another inode than the intention noted, `settle` answers at once, and KeepMine leaves the mission's version at home. | comment of `Resolution::KeepMine`, `sfs/src/publication.rs` 73 |
| `PublicationImpasse` | `Settles` | The file to delete goes away between the two openings of `check`, comes back, and is deleted after the conflict: `settle` tries to move a slot that does not exist, and every decision is refused for good. | ADR 0058 l. 73 |
| `PublicationSyncError` | `DoneIsSynced` | The synchronisation of a directory fails after the exchange; the conflict keeps the intention; `settle` sees both files in place and the rank is recorded without any synchronisation. | comment at `sfs/src/publication.rs` 757 |
| `BrokerRevokeRetried` | `AnsweredRevocationHolds` | `cap.revoke` fails to write, is asked again, finds the subject known in memory, writes nothing and answers success; a restart forgets the revocation. | `docs/components/capd.md` 17, 58-60 |
| `BrokerRegisterGlued` | `RegisterReadable` | A line is written in part without a restart; the next line is appended to the fragment, acknowledged, and the next start refuses the register. | header of `capd/src/revocations.rs` 9 |
| `BrokerExpiredParent` | `ChildDiesFirst` | The time left to the parent is cut to whole seconds and raised to one (`whole_seconds().max(1)`, `broker.rs` 257): the child of a living parent with less than a second left, or of an expired one, lives a second. | comment at `broker.rs` 256, `docs/specs/capability-token.md` 59 |
| `BrokerRootDepth` | `DepthWithinRoot` | The depth is bounded by the direct parent's `max_depth`, 3 when it has none (`broker.rs` 241): a chain whose tokens drop their `task.spawn` bound can be deeper than its root allows. | `docs/specs/capability-token.md` 62 |
| `ApprovalsReversible` | `YesSpentOnce` | A permission "once" given to a reversible call is consumed by an irreversible call of the same action and target. | comment at `capd/src/approvals.rs` 240, ADR 0054 l. 21 |
| `ApprovalsUnsaved` | `YesSpentOnce` | The save that records the consumption of a decision fails and is only logged; after a restart the decision is consumed again. | comment at `prophet-capd.rs` 35, ADR 0054 l. 19 |
| `ApprovalsRefusal` | `RefusalStands` | Rules are searched in the order they were made: an older permission hides a later refusal of a reversible call. | `docs/components/capd.md` 94 |
| `ApprovalsForgotten` | `DecisionReadable` | `expire` counts the age of a decision from its question (`approvals.rs` 356): a decision on an old question is forgotten at once. | `docs/components/capd.md` 21, ADR 0041 l. 32 |
| `ApprovalsStale` | `DecisionFresh` | A decision "once" is consumed whatever its age, since nobody calls `approval.expire`. | comment at `approvals.rs` 136 |
| `LedgerMidnight` | `ChainVerifies` | An event dated before midnight is written after one dated after it; at the next start the numbering resumes from the last line of the last file, and two events have one number. | `prophet-ledger.rs`, the only writer |
| `LedgerDisk` | `WrittenOnce` | A full disk cuts a write short; the event sent again is appended to the fragment or written twice, and the next start refuses the file. | ADR 0059 |
| `AuditPowerLoss` | `NothingLost` | The log flushes a line and does not synchronise it; agentd forgets the event it acknowledged, and a loss of power takes it back. | ADR 0059 |
| `MissionsHalt` | `HaltReachesChildren` | The emergency stop takes the missions as they are when it looks; a parent then launches a child, which works on without being told, until its parent sees its own stop. | `prophet-agentd.rs` 830-832 |
| `MissionsOrphan` | `BudgetKept` | A child whose planning was not saved stays planned; started by the human, it is charged to nobody. | `budget.rs` 221 |
| `SandboxesOutlived` | `NothingOutlives` | A level 0 command ends and leaves a child with its output closed: the readers see the end of it, the request is answered, its handle leaves the table, and nothing signals the group any more; the child executes where freezing and killing do not reach. | comment at `sandboxd/src/launch.rs` 152-153 |
| `SandboxesDelay` | `DelayBounds` | A helper that dies before it is ready leaves its launch waiting on a FIFO with the lock of the table; a child that holds the command's output open is read to its own end. Either way the delay does not bound the request. | `docs/components/sandboxd.md` |

Others were met while modelling and are in the actions, named by their comments: a refused launch gives back the place
of whoever holds it by then (`GiveBack`); a cancellation that finds a session still opening leaves it running
off the table; a session opening while its client comes back may publish its end over a
failure (why `FinalIsFinal` leaves clients out); the log may say done and the mission be failed, when a later
append is refused; a killed command's work disk may come home after a later command's; a child that the human starts as soon as it is
planned loses its place in the table of jobs to the thread its parent launches for it (why `Stoppable` is proved for
roots the human starts); the delay kills commands the human has frozen; the thread of the reserve ends for good after one failed restoration.

Configurations that pass and are kept beside the runs: `MissionsCrowded` and
`BrokerSpawners` (larger or with the type invariants the runs leave out).

## 10. What is proved, what is only model-checked

The proofs cover every value of the constants: any number of documents, edits, inodes, tokens,
tasks, missions, machines, crashes and faults. They assume the `ASSUME` of the module (constants have their types,
distinguished values are distinct), which TLC evaluates in every run, and nothing else
unless said below.

**Publication** (`PublicationProofs`): `TypeCorrect`, `JournalAlwaysReadable`, `NothingLost`,
`JournalGoesForward`, `KeptStaysAlone`. Whether a journal is readable depends on where the
command stands: the journal in memory may have an intention only at a rank of the batch, and only
at some places of the walk. `IInv` therefore joins to the types a cursor for each of the two
journals and a relation between `pc` and the memory. `NothingLost` adds to it that
each authored content is in a linked file, and rests on two lemmas: exchanging two
names, or moving one into a free name, unlinks nothing; and the copy frozen in a slot takes an inode
that no name linked. The two action properties need `Shadow`, that the journal in memory
runs ahead of the one on disk only in its intention and its rank.

`PublicationPromise` proves the rest, in four layers over `IInv`:

- `NeverTornHolds`. `WInv`: no inode belongs to two documents and none has two names (`Owned`); what each place of
  `step` has found of a document left alone is still so (`Noted`); and what a loss of power can bring back is whole
  too (`WholeBehind`).
- `OutcomeIsAtomic` and the refinement `PublicationKeepsPromise`. `Bare`: at rest the two journals are one, the walk
  stops on a rank it was to walk, a rank is recorded once its rename is synchronised, and no slot of an undo is used
  before the batch turns. `PInv`: where each document stands between the journal's rank and its list of kept ones.
  Every step then maps to one of `Batch` or to none. Both assume `Steady`: no loss of power, or no I/O error.
  With both, `PublicationSyncError` takes a document back.
- `DoneStaysSynced`, where no I/O error is met (`MaxFaults = 0`; the same configuration is the counterexample). `SInv`: a
  rename no synchronisation followed is the one of the intention on disk, where `recover` finds it again and `settle`
  never counts it as carried.
- `KeepMineGivesBack`, under `Steady` and `SavedInPlace`: the editors do not save by rename (`PublicationSavedByRename`
  shows what happens when one does). `KInv`: each rank still to walk has nothing displaced behind the version the
  direction installs (`Ahead`), because the inodes noted tell the two versions apart (`Noting`) and each place of the
  command knows what is under the two names (`Found`).

**Batch** (`BatchProofs`): `OutcomeHolds`, what a batch that is over shows. `IInv` adds that the
direction is the one the phase says and that, before the batch turns, a document left to the human still
shows the version before. By `PublicationKeepsPromise` it holds of the publication.

**Broker** (`BrokerProofs`): `BrokerTypeCorrect`, `RevocationsHold`, `DelegationsNarrow`, `ChainsKnown`,
`LifetimesHeld`. A revocation holds because it is durable (its line is synchronised, or a
synchronised line stops every start) and known to a running broker; a chain narrows because each delegation is
covered by its parent and the parent's chain is closed; lifetimes hold for any number of ticks to a second. `IInv` is the conjunction of these, and
each is needed: `RevocationHolds` alone says nothing of what a restart reads.

**Approvals** (`ApprovalsProofs`): `PermissionsSpentWithinFaults`, `PermissionsSpentOnce`, `RevokedTasksStop`,
`QuestionsStay`, `RefusalsStay`, `ApprovalsTyped`. The first is an account: for each task and ask, the irreversible runs, the permission
on its way to the registry and those waiting in the queue are at most what the human gave plus
the failed saves. It is kept for the memory and for the disk, since a crash replaces one
by the other; a failed save leaves the disk at most one permission ahead, which the fault pays for. It assumes
`KindsDistinct`: no two calls of one action and target differ in being irreversible. The
configuration `ApprovalsReversible` shows that it is needed. `PermissionsSpentOnce`, `QuestionsStay` and `RefusalsStay`
assume that saves succeed (`MaxFaults = 0`): a question or a refusal that was not saved is lost by a crash.
`RefusalsStay` is `IrreversibleRefusalStands`; its invariant `Refused` says that what the human refused for the whole of a task
that is not revoked is refused by a rule without end, in memory and on disk. That rule covers the call, so no decision "once" is
looked at, and no permission covers an irreversible call. What a revocation leaves of the rules (`Without`) is defined by recursion on their
number; `WithoutKeeps` shows what it returns at the least number at which it could fail, a least number that
`LeastNatural` takes from the library's facts about well-founded relations.

**Audit** (`AuditProofs`): `LedgerWritesOnce`, `LogIsVerified`, `QueriesFindAll`, `SubscribersSeeOnce` of the log;
`OutboxWritesOnce`, `SavedIsNotLost`, `OutboxTyped`, `OutboxLogIsVerified`, `OutboxSubscribersSeeOnce` and the refinement `TrailIsKept` of the log with its
sender. All assume `Sound`: no write of the log fails (`LedgerDisk` shows that it is needed). Those about the chain, and what
rests on it, assume `OrderedStops` too: the service does not stop between two events whose dates the clock put in the other order
(`LedgerMidnight` shows that it is needed). `Spec` and `LedgerSpec` have no losses of power (`AuditPowerLoss`).

- `LogInv` says that the running service remembers exactly the keys that are in its files, and what each call in progress may
  claim of its own key.
- `ChainInv`: the numbers are those below the next one, once each; each event holds the hash of the one before it; and the
  memory's head, index and first numbers agree with the files, or the service is down and the files are in order.
- `BusInv`: each number written since the start is sent once, or in the hand of one call; only the last one is being sealed; and what the subscriber
  was given was sent at places it has passed, each once. It holds for a bus of any capacity: what the subscriber jumped over is what the bus no longer keeps.
- `OutboxInv` adds an account of each change, held and saved: in the outbox, in the log, or given up; and that the call the
  sender waits for carries the oldest event of its copy.
- `OrderInv` adds that whatever is in the log or on its way comes after every older change that is known, so that the log
  grows by its last event only. `TrailIsKept` then needs that the events can be ranked by number (`Ranked`, with the facts on
  cardinality of the library), so that an append to the files is an append to the trail.

**Missions** (`MissionsProofs`): `MissionsHaveOneLeader`, `MissionsDoneAreLogged`, `MissionsRunningAreLed`, `MissionsEndOnce`,
`MissionsAreStoppable`, `BudgetsHold`, `MissionsTyped`, for any tree, workers and budgets. `MInv` ties a worker that leads to the state its mission shows: while
one leads, the mission runs, and every launch, cancellation of a plan and new child needs another state, so that nothing but the
worker moves it. The saved states need `DiskLogged`, that what is saved as done is in the log too, for a restart to keep it true.
`MissionsAreStoppable` has an invariant of the tables, `SInv`: who holds a place of a local mission is on the table, or somebody on its mission was
told to stop (a refused launch gives back the place of whoever holds it by then); and the last child planned is led by
nobody yet. `BudgetsHold` adds an account of the steps, `AInv`. Each step is taken for the worker's mission and for all above it, and
neither copy of a task is right at every moment, so the account follows the worker that leads: what was taken for its mission is within its
own count, unless it waits for a child; then it is within its count and what was taken for that child, which was given no more than what
its parent has left (`Due`). A child at its end has its whole count published before its parent may charge it, and between the two charges
the runtime's copy is ahead of the worker's by exactly that. A step of a worker needs room on every mission above it (`AboveCarries`):
the missions that have room and whose leader waits for the next one down are closed under parents, and `Above` is the least such set.
What is saved stays within what was taken (`Limits`, `Counts`), so that a restart, which drops every count of a worker, keeps it.
`MissionsTyped` adds the requests and the clients (`CInv`).
The last three assume `RootsStart`: the human starts only what the human prepared (`MissionsOrphan` and section 9 show that it is
needed), and rest on `FamiliesAssumption`: a child has one parent, after which it is named.

**Sandboxes** (`SandboxesProofs`): `SandboxesAreControllable`, `MachinesAlwaysFit`, `StatusTellsTheTruth`, `SandboxesTyped`,
`FilesComeHome`. `TInv`: a request being launched
holds the lock and its task has no place on the table; the table lists only requests still being watched;
a live process belongs to a request that is up or reads its output, and owns its place, but for the strays of an answered request that ended
by itself. `RInv`: a mark is only beside
the snapshot it speaks of, and none is there while a snapshot is written over; the thread's place says what the
files hold; no machine is ready twice, taken twice, or both; and two requests never have one machine.
`Shows`: a handle says frozen only of what does not execute, and only what it says frozen or exited is stopped. The types need what the level of a request says of its
processes (`Leveled`), whom `freeze_all` still has to freeze (`Swept`), and that the reserve never exceeds its target (`Sized`).
`FilesComeHome` adds `HInv`: the work disk of a request's directory has that request's files until they are copied or found to be lost, and one
request at a time has the directory of the machines booted without the reserve. It assumes that one such machine is booted at a time (`ColdAtOnce`
is 0 or 1), which `SandboxesShareDisk` shows is needed.

Only model-checked, because the provers cannot reach it: liveness under fairness, `Settles`, `Delivered`, `WorkersEnd`, `RunsAnswer`
and `ReserveRefills`. Only model-checked so far, in configurations beside
the runs: `SpawnersBounded` and `ClientsConcluded`.

## 11. What is not modelled, and why

- *Files and the kernel*: name spaces, Landlock, seccomp, Firecracker, SQLite, the accessibility bus and the
  ciphers are other programs' state. What the code expects of them is modelled only where a property of a
  module rests on it (renames, synchronisation, appended lines, signals, snapshots).
- *Pure functions*: Cedar policies, patterns, canonical JSON, differences of trees, detection of secrets,
  ranking of memories. They have no order of events to explore; differences of trees are a candidate
  for a check over bounded inputs.
- *Views*: surface, shell, prophet-cli, voice, app-editor, bench, browser-bridge send single commands and draw.
- *Image, kernel and tools*: configuration and scripts.
- *Left out of the modelled parts*: of the ledger, `ledger.seal` on demand and batches; of agentd, children led by an official
  client, panics of workers, the preparation of a mission and its workspace; of sandboxd, level 1 and probes.
- *Planned, not yet modelled*: downloads, presence, demands to stop of pilotd (section 12). The first two have their hazard
  in `PROJECT.json`.

## 12. Plan

Done, in this order: Publication, with Batch; Broker; Approvals; Ledger with Outbox and AuditTrail; Missions; Sandboxes with
Reserve; their proofs.

1. **Presence** (failures, the lock of five minutes, tickets that end with their code) and **downloads** (two of one file, a
   resumed part, a crash before the rename): small modules, each with its crash or its clock.
2. **The publication from agentd's side**: agentd stops between the end of the blocking publication and its record
   (`prophet-agentd.rs` 1254): the batch is committed and its task never says so. It composes `Publication`, `Missions` and `Outbox`.
3. Demands to stop of pilotd, with the clients of `Missions`.
4. Proofs that remain: `SpawnersBounded`, `ClientsConcluded`. Those of the modules above, as they come.

The number of runs and of properties is kept small on purpose: what refutes a sentence, and type
invariants, have kept configurations in place of runs.
