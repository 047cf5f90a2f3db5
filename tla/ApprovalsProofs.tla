---------------------------- MODULE ApprovalsProofs ----------------------------
(***************************************************************************)
(* What holds of the approvals for any number of tasks, calls, questions,  *)
(* crashes, lost answers and failed saves.                                 *)
(*                                                                         *)
(* The argument is an account: for each task and ask, the irreversible     *)
(* runs, the permission on its way to the registry and the permissions     *)
(* that wait in the queue never exceed what the human gave.  It is kept    *)
(* for the queue in memory and for the one on disk, because a crash brings *)
(* the disk back; the two differ only by saves that failed, so each of     *)
(* these adds one.  A refusal is kept by the rule it left, in memory and   *)
(* on disk: every operation keeps the rules of the tasks it is not about.  *)
(***************************************************************************)
EXTENDS Approvals, FiniteSetTheorems, WellFoundedInduction, TLAPS

(* A call is irreversible or not by its action and target alone. *)
KindsDistinct == \A c, d \in Calls : c.ask = d.ask => c.irr = d.irr

(* A queue whose decisions are about calls that exist. *)
Sound(q) ==
    /\ q \in [pending : SUBSET Approval, resolved : SUBSET Approval,
              once : SUBSET Approval, rules : {q.rules}]
    /\ IsFiniteSet(q.once)
    /\ \A o \in q.pending \cup q.once : \E c \in Calls : c.ask = o.ask /\ c.irr = o.irr

Shapes ==
    /\ Sound(mem) /\ Sound(disk)
    /\ up \in BOOLEAN
    /\ call \in [Tasks -> Standing]
    /\ late \in SUBSET [task : Tasks, c : Calls]
    /\ next \in Nat \ {0} /\ clock \in Nat /\ faults \in Nat
    /\ yes \in [Tasks -> [Asks -> Nat]] /\ runs \in [Tasks -> [Asks -> Nat]]

(* Permissions for an irreversible call that wait in the queue. *)
Held(q, t, a) == {o \in q.once : o.task = t /\ o.ask = a /\ o.irr /\ o.state = "allow"}

(* One when such a permission is on its way to the registry. *)
Flying(calls, t, a) ==
    IF calls[t].at = "allow" /\ calls[t].c.irr /\ calls[t].c.ask = a THEN 1 ELSE 0

Covered(q, t, a) ==
    runs[t][a] + Flying(call, t, a) + Cardinality(Held(q, t, a)) <= yes[t][a] + faults

Account ==
    \A t \in Tasks, a \in Asks : Covered(disk, t, a) /\ (up => Covered(mem, t, a))

Books == Shapes /\ Account

-----------------------------------------------------------------------------

(* The permissions that wait can be counted. *)
LEMMA HeldFinite ==
    ASSUME NEW q, Sound(q), NEW t, NEW a
    PROVE  IsFiniteSet(Held(q, t, a)) /\ Cardinality(Held(q, t, a)) \in Nat
  <1>1. Held(q, t, a) \subseteq q.once
    BY DEF Held
  <1> QED
    BY <1>1, FS_Subset, FS_CardinalityType DEF Sound

(* A queue with fewer decisions holds no more permissions. *)
LEMMA HeldShrinks ==
    ASSUME NEW q, NEW r, Sound(q), r.once \subseteq q.once, NEW t, NEW a
    PROVE  /\ IsFiniteSet(Held(r, t, a)) /\ Cardinality(Held(r, t, a)) \in Nat
           /\ Cardinality(Held(r, t, a)) <= Cardinality(Held(q, t, a))
  <1>1. Held(r, t, a) \subseteq Held(q, t, a)
    BY DEF Held
  <1> QED
    BY <1>1, HeldFinite, FS_Subset, FS_CardinalityType

(* What one request does to the queue: a permission it grants is one less that waits. *)
LEMMA RequestSpends ==
    ASSUME ApprovalsAssumption, KindsDistinct, Shapes, NEW t \in Tasks, NEW c \in Calls,
           NEW verdict \in {"allow", "deny", "pending"}, Request(t, c, verdict)
    PROVE  /\ next' \in Nat \ {0}
           /\ \E q :
                /\ Sound(q) /\ Keep(q)
                /\ \A u \in Tasks, a \in Asks :
                      Cardinality(Held(q, u, a))
                        + (IF u = t /\ a = c.ask /\ c.irr /\ verdict = "allow" THEN 1 ELSE 0)
                      <= Cardinality(Held(mem, u, a))
  <1>0. Sound(mem)
    BY DEF Shapes
  <1>1. CASE RuleDecides(t, c, verdict)
    <2>1. Keep(mem) /\ next' = next
      BY <1>1 DEF RuleDecides
    <2>2. ~ (c.irr /\ verdict = "allow")
      BY <1>1 DEF RuleDecides, Applicable
    <2>3. \A u \in Tasks, a \in Asks : Cardinality(Held(mem, u, a)) \in Nat
      BY <1>0, HeldFinite
    <2> QED
      BY <1>0, <2>1, <2>2, <2>3 DEF Shapes
  <1>2. CASE OnceDecides(t, c, verdict)
    <2>1. PICK o \in Oldest(Waiting(t, c)) :
              verdict = o.state /\ Keep([mem EXCEPT !.once = @ \ {o}])
      BY <1>2 DEF OnceDecides
    <2> DEFINE q == [mem EXCEPT !.once = @ \ {o}]
    <2>2. o \in mem.once /\ o.task = t /\ o.ask = c.ask
      BY DEF Oldest, Waiting
    <2>3. o.irr = c.irr
      BY <1>0, <2>2 DEF Sound, KindsDistinct
    <2>4. q.once = mem.once \ {o} /\ q.pending = mem.pending /\ q.once \subseteq mem.once
      BY <1>0 DEF Sound
    <2>5. Sound(q)
      <3>1. q \in [pending : SUBSET Approval, resolved : SUBSET Approval,
                   once : SUBSET Approval, rules : {q.rules}]
        BY <1>0 DEF Sound
      <3>2. IsFiniteSet(q.once)
        BY <1>0, <2>4, FS_Subset DEF Sound
      <3> QED
        BY <1>0, <2>4, <3>1, <3>2 DEF Sound
    <2>6. ASSUME NEW u \in Tasks, NEW a \in Asks
          PROVE  Cardinality(Held(q, u, a))
                    + (IF u = t /\ a = c.ask /\ c.irr /\ verdict = "allow" THEN 1 ELSE 0)
                  <= Cardinality(Held(mem, u, a))
      <3>1. CASE u = t /\ a = c.ask /\ c.irr /\ verdict = "allow"
        <4>1. o \in Held(mem, u, a)
          BY <2>1, <2>2, <2>3, <3>1 DEF Held
        <4>2. Held(q, u, a) = Held(mem, u, a) \ {o}
          BY <2>4 DEF Held
        <4>3. IsFiniteSet(Held(mem, u, a)) /\ Cardinality(Held(mem, u, a)) \in Nat
          BY <1>0, HeldFinite
        <4> HIDE DEF q
        <4> DEFINE H == Held(mem, u, a)
        <4>a. IsFiniteSet(H) /\ o \in H
          BY <4>1, <4>3
        <4> HIDE DEF H
        <4>b. Cardinality(H \ {o}) = Cardinality(H) - 1
          BY <4>a, FS_RemoveElement
        <4>4. Cardinality(Held(q, u, a)) = Cardinality(Held(mem, u, a)) - 1
          BY <4>2, <4>b DEF H
        <4> QED
          BY <3>1, <4>3, <4>4
      <3>2. CASE ~ (u = t /\ a = c.ask /\ c.irr /\ verdict = "allow")
        <4>1. /\ Cardinality(Held(q, u, a)) \in Nat
              /\ Cardinality(Held(q, u, a)) <= Cardinality(Held(mem, u, a))
          BY <1>0, <2>4, HeldShrinks
        <4> QED
          BY <3>2, <4>1
      <3> QED
        BY <3>1, <3>2
    <2>7. next' = next /\ Keep(q)
      BY <1>2, <2>1 DEF OnceDecides
    <2> QED
      BY <2>5, <2>6, <2>7 DEF Shapes
  <1>3. CASE Ask(t, c, verdict)
    <2> DEFINE new == [id |-> next, task |-> t, ask |-> c.ask, irr |-> c.irr, made |-> clock,
                       state |-> "pending", decidedAt |-> 0]
    <2> DEFINE q == [mem EXCEPT !.pending = @ \cup {new}]
    <2>1. Keep(q) /\ next' = next + 1 /\ verdict = "pending" /\ next <= MaxAsks
      BY <1>3 DEF Ask
    <2>2. new \in Approval
      BY <2>1 DEF Approval, Shapes, Asks, ApprovalsAssumption
    <2>3. q.once = mem.once /\ q.pending = mem.pending \cup {new}
      BY <1>0 DEF Sound
    <2>4. Sound(q)
      <3>1. q \in [pending : SUBSET Approval, resolved : SUBSET Approval,
                   once : SUBSET Approval, rules : {q.rules}]
        BY <1>0, <2>2 DEF Sound
      <3> QED
        BY <1>0, <2>3, <3>1 DEF Sound
    <2>5. \A u \in Tasks, a \in Asks : Held(q, u, a) = Held(mem, u, a)
      BY <2>3 DEF Held
    <2>6. \A u \in Tasks, a \in Asks : Cardinality(Held(mem, u, a)) \in Nat
      BY <1>0, HeldFinite
    <2>7. next' \in Nat \ {0}
      BY <2>1 DEF Shapes
    <2> HIDE DEF q
    <2>8. \A u \in Tasks, a \in Asks :
              Cardinality(Held(q, u, a))
                + (IF u = t /\ a = c.ask /\ c.irr /\ verdict = "allow" THEN 1 ELSE 0)
              <= Cardinality(Held(mem, u, a))
      BY <2>1, <2>5, <2>6
    <2> QED
      BY <2>1, <2>4, <2>7, <2>8
  <1> QED
    BY <1>1, <1>2, <1>3 DEF Request

-----------------------------------------------------------------------------

(* A queue that balances in memory is kept, saved or not. *)
LEMMA KeptBooks ==
    ASSUME Shapes, up, up' = up, NEW q, Sound(q), Keep(q),
           call' \in [Tasks -> Standing],
           yes' \in [Tasks -> [Asks -> Nat]], runs' \in [Tasks -> [Asks -> Nat]],
           \A t \in Tasks, a \in Asks :
              /\ runs'[t][a] + Flying(call', t, a) + Cardinality(Held(q, t, a))
                    <= yes'[t][a] + faults
              /\ runs'[t][a] + Flying(call', t, a) + Cardinality(Held(disk, t, a))
                    <= yes'[t][a] + faults + 1
    PROVE  Account' /\ Sound(mem)' /\ Sound(disk)' /\ faults' \in Nat
  <1>1. mem' = q /\ Sound(q)
    BY DEF Keep
  <1>2. faults \in Nat /\ Sound(disk)
    BY DEF Shapes
  <1>3. \/ disk' = q /\ faults' = faults
        \/ disk' = disk /\ faults' = faults + 1
    BY DEF Keep
  <1>4. Sound(mem)' /\ Sound(disk)' /\ faults' \in Nat
    BY <1>1, <1>2, <1>3 DEF Sound
  <1>5. ASSUME NEW t \in Tasks, NEW a \in Asks
        PROVE  Covered(disk, t, a)' /\ Covered(mem, t, a)'
    <2>1. /\ Cardinality(Held(q, t, a)) \in Nat /\ Cardinality(Held(disk, t, a)) \in Nat
      BY <1>1, <1>2, HeldFinite
    <2>2. Flying(call', t, a) \in Nat
      BY DEF Flying
    <2>3. runs'[t][a] \in Nat /\ yes'[t][a] \in Nat
      OBVIOUS
    <2>4. Covered(mem, t, a)'
      BY <1>1, <1>2, <1>3, <2>1, <2>2, <2>3 DEF Covered
    <2>5. Covered(disk, t, a)'
      BY <1>1, <1>2, <1>3, <2>1, <2>2, <2>3 DEF Covered
    <2> QED
      BY <2>4, <2>5
  <1> QED
    BY <1>4, <1>5 DEF Account

(* The numbers the account adds up. *)
LEMMA Numbers ==
    ASSUME Shapes, NEW t \in Tasks, NEW a \in Asks
    PROVE  /\ Cardinality(Held(mem, t, a)) \in Nat /\ Cardinality(Held(disk, t, a)) \in Nat
           /\ runs[t][a] \in Nat /\ yes[t][a] \in Nat /\ faults \in Nat
           /\ Flying(call, t, a) \in {0, 1}
  BY HeldFinite DEF Shapes, Flying

(* The account is balanced at the start. *)
LEMMA InitBooks == ASSUME ApprovalsAssumption, Init PROVE Books
  <1>1. Sound(Empty) /\ \A t \in Tasks, a \in Asks : Held(Empty, t, a) = {}
    BY FS_EmptySet DEF Empty, Sound, Held
  <1>2. Shapes
    BY <1>1 DEF Init, Shapes, Idle, Standing
  <1>3. Cardinality({}) = 0
    BY FS_EmptySet
  <1>4. Account
    BY <1>1, <1>3 DEF Init, Account, Covered, Flying, Idle
  <1> QED
    BY <1>2, <1>4 DEF Books

(* An answer moves a permission from the queue to the call. *)
LEMMA AnswerKeeps ==
    ASSUME ApprovalsAssumption, KindsDistinct, Books, NEW t \in Tasks, Answer(t)
    PROVE  Books'
  <1>1. PICK verdict \in {"allow", "deny", "pending"} :
            /\ Request(t, call[t].c, verdict)
            /\ call' = [call EXCEPT ![t] = [at |-> verdict, c |-> @.c]]
    BY DEF Answer
  <1>2. call[t].at = "asking" /\ call[t] \in Standing /\ call[t].c \in Calls /\ Shapes /\ up
    BY <1>1 DEF Answer, Books, Shapes, Standing, Idle, Request
  <1> DEFINE c == call[t].c
  <1> DEFINE Gain(u, a) == IF u = t /\ a = c.ask /\ c.irr /\ verdict = "allow" THEN 1 ELSE 0
  <1>3. PICK q :
            /\ Sound(q) /\ Keep(q) /\ next' \in Nat \ {0}
            /\ \A u \in Tasks, a \in Asks :
                  Cardinality(Held(q, u, a)) + Gain(u, a) <= Cardinality(Held(mem, u, a))
    BY <1>1, <1>2, RequestSpends
  <1>4. UNCHANGED <<up, late, clock, yes, runs>>
    BY DEF Answer
  <1>5. call' \in [Tasks -> Standing]
    BY <1>1, <1>2 DEF Shapes, Standing
  <1>6. \A u \in Tasks, a \in Asks :
            Flying(call', u, a) = (IF u = t THEN Gain(u, a) ELSE Flying(call, u, a))
    BY <1>1, <1>2 DEF Flying, Shapes
  <1>7. \A a \in Asks : Flying(call, t, a) = 0
    BY <1>2 DEF Flying
  <1>8. ASSUME NEW u \in Tasks, NEW a \in Asks
        PROVE  /\ runs'[u][a] + Flying(call', u, a) + Cardinality(Held(q, u, a))
                    <= yes'[u][a] + faults
               /\ runs'[u][a] + Flying(call', u, a) + Cardinality(Held(disk, u, a))
                    <= yes'[u][a] + faults + 1
    <2>1. /\ Cardinality(Held(mem, u, a)) \in Nat /\ Cardinality(Held(disk, u, a)) \in Nat
          /\ runs[u][a] \in Nat /\ yes[u][a] \in Nat /\ faults \in Nat
          /\ Flying(call, u, a) \in {0, 1}
      BY <1>2, Numbers
    <2>2. Covered(disk, u, a) /\ Covered(mem, u, a)
      BY <1>2 DEF Books, Account
    <2>3. Cardinality(Held(q, u, a)) \in Nat
      BY <1>3, HeldFinite
    <2>4. Cardinality(Held(q, u, a)) + Gain(u, a) <= Cardinality(Held(mem, u, a))
      BY <1>3
    <2>5. Gain(u, a) \in {0, 1}
      OBVIOUS
    <2>6. Flying(call', u, a) = (IF u = t THEN Gain(u, a) ELSE Flying(call, u, a))
      BY <1>6
    <2>7. u = t => Flying(call, u, a) = 0
      BY <1>7
    <2>8. runs' = runs /\ yes' = yes
      BY <1>4
    <2>9. u # t => Gain(u, a) = 0
      OBVIOUS
    <2> HIDE DEF Gain
    <2> QED
      BY <2>1, <2>2, <2>3, <2>4, <2>5, <2>6, <2>7, <2>8, <2>9 DEF Covered
  <1>9. yes' \in [Tasks -> [Asks -> Nat]] /\ runs' \in [Tasks -> [Asks -> Nat]] /\ up' = up
    BY <1>2, <1>4 DEF Shapes
  <1>10. Account' /\ Sound(mem)' /\ Sound(disk)' /\ faults' \in Nat
    BY <1>2, <1>3, <1>5, <1>8, <1>9, KeptBooks
  <1>11. Shapes'
    BY <1>2, <1>3, <1>4, <1>5, <1>9, <1>10 DEF Shapes
  <1> QED
    BY <1>10, <1>11 DEF Books

(* A request that nobody waits for spends without a run. *)
LEMMA AnswerNobodyKeeps ==
    ASSUME ApprovalsAssumption, KindsDistinct, Books, NEW r \in late, AnswerNobody(r)
    PROVE  Books'
  <1>1. PICK verdict \in {"allow", "deny", "pending"} : Request(r.task, r.c, verdict)
    BY DEF AnswerNobody
  <1>2. r.task \in Tasks /\ r.c \in Calls /\ Shapes /\ up
    BY <1>1 DEF Books, Shapes, Request
  <1> DEFINE Gain(u, a) ==
        IF u = r.task /\ a = r.c.ask /\ r.c.irr /\ verdict = "allow" THEN 1 ELSE 0
  <1>3. PICK q :
            /\ Sound(q) /\ Keep(q) /\ next' \in Nat \ {0}
            /\ \A u \in Tasks, a \in Asks :
                  Cardinality(Held(q, u, a)) + Gain(u, a) <= Cardinality(Held(mem, u, a))
    BY <1>1, <1>2, RequestSpends
  <1>4. UNCHANGED <<up, call, clock, yes, runs>> /\ late' = late \ {r}
    BY DEF AnswerNobody
  <1>5. ASSUME NEW u \in Tasks, NEW a \in Asks
        PROVE  /\ runs'[u][a] + Flying(call', u, a) + Cardinality(Held(q, u, a))
                    <= yes'[u][a] + faults
               /\ runs'[u][a] + Flying(call', u, a) + Cardinality(Held(disk, u, a))
                    <= yes'[u][a] + faults + 1
    <2>1. /\ Cardinality(Held(mem, u, a)) \in Nat /\ Cardinality(Held(disk, u, a)) \in Nat
          /\ runs[u][a] \in Nat /\ yes[u][a] \in Nat /\ faults \in Nat
          /\ Flying(call, u, a) \in {0, 1}
      BY <1>2, Numbers
    <2>2. Covered(disk, u, a) /\ Covered(mem, u, a)
      BY <1>2 DEF Books, Account
    <2>3. Cardinality(Held(q, u, a)) \in Nat /\ Gain(u, a) \in {0, 1}
      BY <1>3, HeldFinite
    <2>4. Cardinality(Held(q, u, a)) + Gain(u, a) <= Cardinality(Held(mem, u, a))
      BY <1>3
    <2> HIDE DEF Gain
    <2> QED
      BY <1>4, <2>1, <2>2, <2>3, <2>4 DEF Covered
  <1>6. /\ call' \in [Tasks -> Standing] /\ up' = up
        /\ yes' \in [Tasks -> [Asks -> Nat]] /\ runs' \in [Tasks -> [Asks -> Nat]]
    BY <1>2, <1>4 DEF Shapes
  <1>7. Account' /\ Sound(mem)' /\ Sound(disk)' /\ faults' \in Nat
    BY <1>2, <1>3, <1>5, <1>6, KeptBooks
  <1>8. Shapes'
    BY <1>2, <1>3, <1>4, <1>6, <1>7 DEF Shapes
  <1> QED
    BY <1>7, <1>8 DEF Books

(* A step that gives up nothing but calls on their way keeps the account. *)
LEMMA CallsMove ==
    ASSUME Books, UNCHANGED <<mem, disk, up, next, clock, faults, yes, runs>>,
           call' \in [Tasks -> Standing], late' \in SUBSET [task : Tasks, c : Calls],
           \A u \in Tasks, a \in Asks : Flying(call', u, a) <= Flying(call, u, a)
    PROVE  Books'
  <1>1. Shapes'
    BY DEF Books, Shapes, Sound
  <1>2. ASSUME NEW u \in Tasks, NEW a \in Asks
        PROVE  Covered(disk, u, a)' /\ (up' => Covered(mem, u, a)')
    <2>1. /\ Cardinality(Held(mem, u, a)) \in Nat /\ Cardinality(Held(disk, u, a)) \in Nat
          /\ runs[u][a] \in Nat /\ yes[u][a] \in Nat /\ faults \in Nat
          /\ Flying(call, u, a) \in {0, 1}
      BY Numbers DEF Books
    <2>2. Covered(disk, u, a) /\ (up => Covered(mem, u, a))
      BY DEF Books, Account
    <2>3. Flying(call', u, a) \in {0, 1} /\ Flying(call', u, a) <= Flying(call, u, a)
      BY DEF Flying
    <2> QED
      BY <2>1, <2>2, <2>3 DEF Covered
  <1> QED
    BY <1>1, <1>2 DEF Books, Account

(* A run moves the permission on its way to the runs. *)
LEMMA RunKeeps ==
    ASSUME Books, NEW t \in Tasks, Run(t)
    PROVE  Books'
  <1>1. /\ call[t].at = "allow" /\ call[t].c \in Calls /\ call[t].c.ask \in Asks
        /\ call' = [call EXCEPT ![t] = Idle] /\ Shapes
    <2>1. Shapes /\ call[t] \in Standing
      BY DEF Books, Shapes
    <2>2. call[t].at = "allow" /\ call' = [call EXCEPT ![t] = Idle]
      BY DEF Run
    <2>3. call[t].c \in Calls
      BY <2>1, <2>2 DEF Standing, Idle
    <2> QED
      BY <2>1, <2>2, <2>3 DEF Asks
  <1> DEFINE one == call[t].c.ask
  <1>2. runs' = IF call[t].c.irr THEN [runs EXCEPT ![t][one] = @ + 1] ELSE runs
    BY DEF Run
  <1>3. UNCHANGED <<mem, disk, up, late, next, clock, faults, yes>>
    BY DEF Run, counts
  <1>4. call' \in [Tasks -> Standing] /\ runs' \in [Tasks -> [Asks -> Nat]]
    <2>1. runs[t][one] \in Nat
      BY <1>1 DEF Shapes
    <2> QED
      BY <1>1, <1>2, <2>1 DEF Shapes, Standing
  <1>a. Sound(mem)' /\ Sound(disk)'
    BY <1>1, <1>3 DEF Shapes, Sound
  <1>5. Shapes'
    BY <1>1, <1>a, <1>3, <1>4 DEF Shapes
  <1>6. ASSUME NEW u \in Tasks, NEW a \in Asks
        PROVE  Covered(disk, u, a)' /\ (up' => Covered(mem, u, a)')
    <2>1. /\ Cardinality(Held(mem, u, a)) \in Nat /\ Cardinality(Held(disk, u, a)) \in Nat
          /\ runs[u][a] \in Nat /\ yes[u][a] \in Nat /\ faults \in Nat
          /\ Flying(call, u, a) \in {0, 1}
      BY <1>1, Numbers
    <2>2. Covered(disk, u, a) /\ (up => Covered(mem, u, a))
      BY DEF Books, Account
    <2>3. runs'[u][a] + Flying(call', u, a) = runs[u][a] + Flying(call, u, a)
      <3>1. CASE u = t
        <4>1. Flying(call', u, a) = 0
          BY <1>1, <3>1 DEF Flying, Idle, Shapes
        <4>2. Flying(call, u, a) = IF call[t].c.irr /\ a = one THEN 1 ELSE 0
          BY <1>1, <3>1 DEF Flying
        <4>3. runs'[u][a] = IF call[t].c.irr /\ a = one THEN runs[u][a] + 1 ELSE runs[u][a]
          BY <1>1, <1>2, <3>1 DEF Shapes
        <4> QED
          BY <2>1, <4>1, <4>2, <4>3
      <3>2. CASE u # t
        <4>1. Flying(call', u, a) = Flying(call, u, a)
          BY <1>1, <3>2 DEF Flying, Shapes
        <4>2. runs'[u][a] = runs[u][a]
          BY <1>1, <1>2, <3>2 DEF Shapes
        <4> QED
          BY <4>1, <4>2
      <3> QED
        BY <3>1, <3>2
    <2>4. runs'[u][a] \in Nat /\ Flying(call', u, a) \in {0, 1}
      BY <1>4 DEF Flying
    <2> QED
      BY <1>3, <2>1, <2>2, <2>3, <2>4 DEF Covered
  <1> QED
    BY <1>5, <1>6 DEF Books, Account

(* A queue with no more permissions than the one in memory is kept. *)
LEMMA KeepFewer ==
    ASSUME Books, up, NEW q, Sound(q), q.once \subseteq mem.once, Keep(q),
           UNCHANGED <<up, call, late, next, clock, yes, runs>>
    PROVE  Books'
  <1>1. Shapes
    BY DEF Books
  <1>2. ASSUME NEW u \in Tasks, NEW a \in Asks
        PROVE  /\ runs'[u][a] + Flying(call', u, a) + Cardinality(Held(q, u, a))
                    <= yes'[u][a] + faults
               /\ runs'[u][a] + Flying(call', u, a) + Cardinality(Held(disk, u, a))
                    <= yes'[u][a] + faults + 1
    <2>1. /\ Cardinality(Held(mem, u, a)) \in Nat /\ Cardinality(Held(disk, u, a)) \in Nat
          /\ runs[u][a] \in Nat /\ yes[u][a] \in Nat /\ faults \in Nat
          /\ Flying(call, u, a) \in {0, 1}
      BY <1>1, Numbers
    <2>2. Covered(disk, u, a) /\ Covered(mem, u, a)
      BY DEF Books, Account
    <2>3. /\ Cardinality(Held(q, u, a)) \in Nat
          /\ Cardinality(Held(q, u, a)) <= Cardinality(Held(mem, u, a))
      BY <1>1, HeldShrinks DEF Shapes
    <2> QED
      BY <2>1, <2>2, <2>3 DEF Covered
  <1>3. /\ call' \in [Tasks -> Standing] /\ up' = up
        /\ yes' \in [Tasks -> [Asks -> Nat]] /\ runs' \in [Tasks -> [Asks -> Nat]]
    BY <1>1 DEF Shapes
  <1>4. Account' /\ Sound(mem)' /\ Sound(disk)' /\ faults' \in Nat
    BY <1>1, <1>2, <1>3, KeptBooks
  <1>5. Shapes'
    BY <1>1, <1>3, <1>4 DEF Shapes
  <1> QED
    BY <1>4, <1>5 DEF Books

(* A reason joined to a question changes no decision. *)
LEMMA ExplainKeeps ==
    ASSUME Books, NEW a \in mem.pending, Explain(a)
    PROVE  Books'
  <1>1. UNCHANGED <<up, call, late, next, clock, yes, runs>> /\ up /\ Keep(mem)
    BY DEF Explain, caller, counts, history
  <1> QED
    BY <1>1, KeepFewer DEF Books, Shapes

(* A revocation drops rules and no decision. *)
LEMMA RevokeKeeps ==
    ASSUME Books, NEW t \in Tasks, Revoke(t)
    PROVE  Books'
  <1>1. UNCHANGED <<up, call, late, next, clock, yes, runs>> /\ up /\ Keep(Cleared(t))
    BY DEF Revoke, caller, counts, history
  <1>2. Sound(mem)
    BY DEF Books, Shapes
  <1>3. Sound(Cleared(t)) /\ Cleared(t).once \subseteq mem.once
    BY <1>2 DEF Cleared, Sound
  <1> QED
    BY <1>1, <1>3, KeepFewer

(* Forgetting decisions only makes fewer of them. *)
LEMMA ExpireKeeps ==
    ASSUME Books, Expire
    PROVE  Books'
  <1> DEFINE old == {a \in mem.pending : clock >= a.made + PendingLife}
  <1> DEFINE kept == [mem EXCEPT
                !.pending = @ \ old,
                !.resolved = {a \in @ : a.made + ResolvedLife > clock},
                !.once = {a \in @ : a.made + ResolvedLife > clock}]
  <1>1. UNCHANGED <<up, call, late, next, clock, yes, runs>> /\ up
    BY DEF Expire, caller, counts
  <1>2. (mem' = kept /\ UNCHANGED <<disk, faults>>) \/ Keep(kept)
    BY DEF Expire
  <1>3. Sound(mem)
    BY DEF Books, Shapes
  <1>4. /\ kept.once \subseteq mem.once /\ kept.pending \subseteq mem.pending
        /\ kept \in [pending : SUBSET Approval, resolved : SUBSET Approval,
                     once : SUBSET Approval, rules : {kept.rules}]
    BY <1>3 DEF Sound
  <1>5. Sound(kept)
    <2>1. IsFiniteSet(kept.once)
      BY <1>3, <1>4, FS_Subset DEF Sound
    <2> QED
      BY <1>3, <1>4, <2>1 DEF Sound
  <1>6. CASE Keep(kept)
    BY <1>1, <1>4, <1>5, <1>6, KeepFewer
  <1>7. CASE mem' = kept /\ UNCHANGED <<disk, faults>>
    <2>0. Shapes
      BY DEF Books
    <2>a. Sound(mem)' /\ Sound(disk)'
      <3> HIDE DEF kept
      <3> QED
        BY <1>5, <1>7, <2>0 DEF Shapes, Sound
    <2>1. Shapes'
      BY <1>1, <1>7, <2>0, <2>a DEF Shapes
    <2>2. ASSUME NEW u \in Tasks, NEW a \in Asks
          PROVE  Covered(disk, u, a)' /\ (up' => Covered(mem, u, a)')
      <3>1. /\ Cardinality(Held(mem, u, a)) \in Nat /\ runs[u][a] \in Nat
            /\ yes[u][a] \in Nat /\ faults \in Nat /\ Flying(call, u, a) \in {0, 1}
        BY <2>0, Numbers
      <3>2. Covered(disk, u, a) /\ Covered(mem, u, a)
        BY <1>1 DEF Books, Account
      <3>3. /\ Cardinality(Held(kept, u, a)) \in Nat
            /\ Cardinality(Held(kept, u, a)) <= Cardinality(Held(mem, u, a))
        BY <1>3, <1>4, HeldShrinks
      <3> HIDE DEF kept
      <3>4. Covered(disk, u, a)'
        BY <1>1, <1>7, <3>2 DEF Covered
      <3>5. Covered(mem, u, a)'
        BY <1>1, <1>7, <3>1, <3>2, <3>3 DEF Covered
      <3> QED
        BY <3>4, <3>5
    <2> QED
      BY <2>1, <2>2 DEF Books, Account
  <1> QED
    BY <1>2, <1>6, <1>7

(* A decision adds to the queue the permission the human gave. *)
LEMMA ResolveKeeps ==
    ASSUME ApprovalsAssumption, Books, NEW b \in mem.pending, NEW d \in {"allow", "deny"},
           NEW s \in Scopes, Resolve(b, d, s)
    PROVE  Books'
  <1> DEFINE r == [b EXCEPT !.state = d, !.decidedAt = clock]
  <1> DEFINE q == Resolved(b, d, s)
  <1> DEFINE given == d = "allow" /\ b.irr
  <1>1. /\ Keep(q) /\ up
        /\ yes' = IF given THEN [yes EXCEPT ![b.task][b.ask] = @ + 1] ELSE yes
        /\ UNCHANGED <<up, call, late, next, clock, runs>>
    BY DEF Resolve, caller, counts
  <1>2. Shapes /\ Sound(mem) /\ b \in Approval /\ clock \in Nat
    BY DEF Books, Shapes, Sound
  <1>3. /\ r \in Approval /\ r.task = b.task /\ r.ask = b.ask /\ r.irr = b.irr
        /\ r.state = d /\ b.task \in Tasks /\ b.ask \in Asks
    BY <1>2 DEF Approval
  <1>4. /\ q.pending \subseteq mem.pending
        /\ q.once = mem.once \/ q.once = mem.once \cup {r}
        /\ q \in [pending : SUBSET Approval, resolved : SUBSET Approval,
                  once : SUBSET Approval, rules : {q.rules}]
    BY <1>2, <1>3 DEF Sound, Resolved
  <1>5. Sound(q)
    <2>1. IsFiniteSet(q.once)
      BY <1>2, <1>4, FS_AddElement DEF Sound
    <2>2. \E c \in Calls : c.ask = r.ask /\ c.irr = r.irr
      BY <1>2, <1>3 DEF Sound
    <2> HIDE DEF q, r
    <2> QED
      BY <1>2, <1>4, <2>1, <2>2 DEF Sound
  <1>6. yes' \in [Tasks -> [Asks -> Nat]]
    <2>1. yes[b.task][b.ask] \in Nat
      BY <1>2, <1>3 DEF Shapes
    <2> QED
      BY <1>1, <1>2, <1>3, <2>1 DEF Shapes
  <1>7. ASSUME NEW u \in Tasks, NEW a \in Asks
        PROVE  /\ runs'[u][a] + Flying(call', u, a) + Cardinality(Held(q, u, a))
                    <= yes'[u][a] + faults
               /\ runs'[u][a] + Flying(call', u, a) + Cardinality(Held(disk, u, a))
                    <= yes'[u][a] + faults + 1
    <2>1. /\ Cardinality(Held(mem, u, a)) \in Nat /\ Cardinality(Held(disk, u, a)) \in Nat
          /\ runs[u][a] \in Nat /\ yes[u][a] \in Nat /\ faults \in Nat
          /\ Flying(call, u, a) \in {0, 1}
      BY <1>2, Numbers
    <2>2. Covered(disk, u, a) /\ Covered(mem, u, a)
      BY <1>1 DEF Books, Account
    <2>3. yes'[u][a] = IF given /\ u = b.task /\ a = b.ask THEN yes[u][a] + 1 ELSE yes[u][a]
      BY <1>1, <1>2, <1>3 DEF Shapes
    <2>4. Held(q, u, a) \subseteq
            IF given /\ u = b.task /\ a = b.ask THEN Held(mem, u, a) \cup {r} ELSE Held(mem, u, a)
      <3> HIDE DEF q, r
      <3> QED
        BY <1>3, <1>4 DEF Held
    <2>5. IsFiniteSet(Held(mem, u, a))
      BY <1>2, HeldFinite
    <2>6. /\ IsFiniteSet(Held(mem, u, a) \cup {r})
          /\ Cardinality(Held(mem, u, a) \cup {r}) <= Cardinality(Held(mem, u, a)) + 1
          /\ Cardinality(Held(mem, u, a) \cup {r}) \in Nat
      <3> HIDE DEF r
      <3>1. /\ IsFiniteSet(Held(mem, u, a) \cup {r})
            /\ Cardinality(Held(mem, u, a) \cup {r}) =
                 IF r \in Held(mem, u, a) THEN Cardinality(Held(mem, u, a))
                 ELSE Cardinality(Held(mem, u, a)) + 1
        BY <2>5, FS_AddElement
      <3> QED
        BY <2>1, <3>1
    <2>7. Cardinality(Held(q, u, a)) \in Nat
      BY <1>5, HeldFinite
    <2>8. Cardinality(Held(q, u, a)) <=
            Cardinality(Held(mem, u, a)) + (IF given /\ u = b.task /\ a = b.ask THEN 1 ELSE 0)
      <3> HIDE DEF q, r, given
      <3>1. CASE given /\ u = b.task /\ a = b.ask
        <4>1. Cardinality(Held(q, u, a)) <= Cardinality(Held(mem, u, a) \cup {r})
          BY <2>4, <2>6, <3>1, FS_Subset
        <4> QED
          BY <2>1, <2>6, <2>7, <3>1, <4>1
      <3>2. CASE ~ (given /\ u = b.task /\ a = b.ask)
        <4>1. Cardinality(Held(q, u, a)) <= Cardinality(Held(mem, u, a))
          BY <2>4, <2>5, <3>2, FS_Subset
        <4> QED
          BY <2>1, <2>7, <3>2, <4>1
      <3> QED
        BY <3>1, <3>2
    <2> HIDE DEF q, r, given
    <2> QED
      BY <1>1, <2>1, <2>2, <2>3, <2>7, <2>8 DEF Covered
  <1>8. call' \in [Tasks -> Standing] /\ up' = up /\ runs' \in [Tasks -> [Asks -> Nat]]
    BY <1>1, <1>2 DEF Shapes
  <1> HIDE DEF q
  <1>9. Account' /\ Sound(mem)' /\ Sound(disk)' /\ faults' \in Nat
    BY <1>1, <1>2, <1>5, <1>6, <1>7, <1>8, KeptBooks
  <1>10. Shapes'
    BY <1>1, <1>2, <1>6, <1>8, <1>9 DEF Shapes
  <1> QED
    BY <1>9, <1>10 DEF Books

(* Moves of a call that carry no permission further. *)
LEMMA MovesKeep ==
    ASSUME Books, NEW t \in Tasks,
           (\E c \in Calls : Call(t, c)) \/ Report(t) \/ GiveUp(t)
    PROVE  Books'
  <1>1. Shapes /\ call[t] \in Standing
    BY DEF Books, Shapes
  <1>2. UNCHANGED <<mem, disk, up, next, clock, faults, yes, runs>>
    BY DEF Call, Report, GiveUp, counts, history
  <1>3. PICK k \in Standing : call' = [call EXCEPT ![t] = k] /\ k.at # "allow"
    <2>1. CASE \E c \in Calls : Call(t, c)
      <3>1. PICK c \in Calls : Call(t, c)
        BY <2>1
      <3> DEFINE k == [at |-> "asking", c |-> c]
      <3>2. k \in Standing /\ k.at # "allow"
        BY DEF Standing
      <3>3. call' = [call EXCEPT ![t] = k]
        BY <3>1 DEF Call
      <3> QED
        BY <3>2, <3>3
    <2>2. CASE Report(t) \/ GiveUp(t)
      BY <2>2 DEF Report, GiveUp, Standing, Idle
    <2> QED
      BY <2>1, <2>2
  <1>4. call' \in [Tasks -> Standing]
    BY <1>1, <1>3 DEF Shapes
  <1>5. late' \in SUBSET [task : Tasks, c : Calls]
    <2>1. call[t].at = "asking" => call[t].c \in Calls
      BY <1>1 DEF Standing, Idle
    <2> QED
      BY <1>1, <2>1 DEF Shapes, Call, Report, GiveUp
  <1>6. ASSUME NEW u \in Tasks, NEW a \in Asks
        PROVE  Flying(call', u, a) <= Flying(call, u, a)
    <2>1. CASE u = t
      BY <1>1, <1>3, <2>1 DEF Flying, Shapes
    <2>2. CASE u # t
      BY <1>1, <1>3, <2>2 DEF Flying, Shapes
    <2> QED
      BY <2>1, <2>2
  <1> QED
    BY <1>2, <1>4, <1>5, <1>6, CallsMove

(* A crash loses the queue in memory; a restart takes the one on disk. *)
LEMMA CrashKeeps ==
    ASSUME Books, Crash \/ Restart \/ Tick
    PROVE  Books'
  <1>1. Shapes
    BY DEF Books
  <1>2. UNCHANGED <<disk, next, faults, yes, runs>>
    BY DEF Crash, Restart, Tick, counts, history
  <1>3. /\ call' \in [Tasks -> Standing]
        /\ \A u \in Tasks, a \in Asks : Flying(call', u, a) <= Flying(call, u, a)
    <2>1. CASE Crash
      <3>1. call' = [t \in Tasks |-> IF call[t].at = "asking" THEN Idle ELSE call[t]]
        BY <2>1 DEF Crash
      <3>2. call' \in [Tasks -> Standing]
        BY <1>1, <3>1 DEF Shapes, Standing
      <3>3. ASSUME NEW u \in Tasks, NEW a \in Asks
            PROVE  Flying(call', u, a) <= Flying(call, u, a)
        BY <3>1 DEF Flying, Idle
      <3> QED
        BY <3>2, <3>3
    <2>2. CASE Restart \/ Tick
      <3>1. call' = call
        BY <2>2 DEF Restart, Tick, caller
      <3> QED
        BY <1>1, <3>1 DEF Shapes, Flying
    <2> QED
      BY <2>1, <2>2
  <1>4. /\ late' \in SUBSET [task : Tasks, c : Calls]
        /\ clock' \in Nat /\ up' \in BOOLEAN
        /\ up' => mem' = disk \/ (up /\ mem' = mem)
        /\ mem' = disk \/ mem' = mem \/ mem' = Empty
    <2>1. CASE Crash
      BY <1>1, <2>1 DEF Shapes, Crash
    <2>2. CASE Restart
      BY <1>1, <2>2 DEF Shapes, Restart, caller, counts
    <2>3. CASE Tick
      BY <1>1, <2>3 DEF Shapes, Tick, caller
    <2> QED
      BY <2>1, <2>2, <2>3
  <1>5. Sound(Empty)
    BY FS_EmptySet DEF Empty, Sound
  <1>6. Sound(mem)' /\ Sound(disk)'
    BY <1>1, <1>2, <1>4, <1>5 DEF Shapes, Sound
  <1>7. Shapes'
    BY <1>1, <1>2, <1>3, <1>4, <1>6 DEF Shapes
  <1>8. ASSUME NEW u \in Tasks, NEW a \in Asks
        PROVE  Covered(disk, u, a)' /\ (up' => Covered(mem, u, a)')
    <2>1. /\ Cardinality(Held(mem, u, a)) \in Nat /\ Cardinality(Held(disk, u, a)) \in Nat
          /\ runs[u][a] \in Nat /\ yes[u][a] \in Nat /\ faults \in Nat
          /\ Flying(call, u, a) \in {0, 1}
      BY <1>1, Numbers
    <2>2. Covered(disk, u, a) /\ (up => Covered(mem, u, a))
      BY DEF Books, Account
    <2>3. Flying(call', u, a) \in {0, 1} /\ Flying(call', u, a) <= Flying(call, u, a)
      BY <1>3 DEF Flying
    <2>4. Covered(disk, u, a)'
      BY <1>2, <2>1, <2>2, <2>3 DEF Covered
    <2>5. up' => Covered(mem, u, a)'
      BY <1>2, <1>4, <2>1, <2>2, <2>3 DEF Covered
    <2> QED
      BY <2>4, <2>5
  <1> QED
    BY <1>7, <1>8 DEF Books, Account

(* Every step keeps the account. *)
LEMMA StepBooks ==
    ASSUME ApprovalsAssumption, KindsDistinct, Books, [Next]_vars
    PROVE  Books'
  <1>1. CASE \E t \in Tasks, c \in Calls : Call(t, c)
    BY <1>1, MovesKeep
  <1>2. CASE \E t \in Tasks : Answer(t) \/ Run(t) \/ Report(t) \/ GiveUp(t) \/ Revoke(t)
    BY <1>2, AnswerKeeps, RunKeeps, MovesKeep, RevokeKeeps
  <1>3. CASE \E r \in late : AnswerNobody(r)
    BY <1>3, AnswerNobodyKeeps
  <1>4. CASE \E a \in mem.pending : Explain(a)
    BY <1>4, ExplainKeeps
  <1>5. CASE \E a \in mem.pending, d \in {"allow", "deny"}, s \in Scopes : Resolve(a, d, s)
    BY <1>5, ResolveKeeps
  <1>6. CASE Expire
    BY <1>6, ExpireKeeps
  <1>7. CASE Tick \/ Crash \/ Restart
    BY <1>7, CrashKeeps
  <1>8. CASE UNCHANGED vars
    <2>1. UNCHANGED <<mem, disk, up, next, clock, faults, yes, runs, call, late>>
      BY <1>8 DEF vars, caller, counts, history
    <2>2. call' \in [Tasks -> Standing] /\ late' \in SUBSET [task : Tasks, c : Calls]
      BY <2>1 DEF Books, Shapes
    <2>3. \A u \in Tasks, a \in Asks : Flying(call', u, a) <= Flying(call, u, a)
      BY <2>1 DEF Flying
    <2> QED
      BY <2>1, <2>2, <2>3, CallsMove
  <1> QED
    BY <1>1, <1>2, <1>3, <1>4, <1>5, <1>6, <1>7, <1>8 DEF Next

(* The account holds in every behaviour. *)
LEMMA AccountHolds ==
    ASSUME ApprovalsAssumption, KindsDistinct
    PROVE  Spec => []Books
  <1>1. Init => Books
    BY InitBooks
  <1>2. Books /\ [Next]_vars => Books'
    BY StepBooks
  <1> QED
    BY <1>1, <1>2, PTL DEF Spec

-----------------------------------------------------------------------------

(***************************************************************************)
(* Irreversible runs never exceed the permissions given by more than the   *)
(* number of saves that failed (Queue::request consumes a decision "once", *)
(* garder only logs a failed save).                                        *)
(***************************************************************************)
THEOREM PermissionsSpentWithinFaults ==
    ASSUME KindsDistinct
    PROVE  Spec => []SpentWithinFaults
  <1>1. Books => SpentWithinFaults
    <2> SUFFICES ASSUME Books, NEW t \in Tasks, NEW a \in Asks
                 PROVE  runs[t][a] <= yes[t][a] + faults
      BY DEF SpentWithinFaults
    <2>1. /\ Cardinality(Held(disk, t, a)) \in Nat /\ runs[t][a] \in Nat
          /\ yes[t][a] \in Nat /\ faults \in Nat /\ Flying(call, t, a) \in {0, 1}
      BY Numbers DEF Books
    <2> QED
      BY <2>1 DEF Books, Account, Covered
  <1> QED
    BY <1>1, AccountHolds, ApprovalsAssumption, PTL

-----------------------------------------------------------------------------
(* Without a failed save. *)

NoFaults == faults = 0

(* When no save may fail, the queue kept is the queue on disk. *)
LEMMA SavesSucceed ==
    ASSUME MaxFaults = 0, NoFaults, NEW q, Keep(q)
    PROVE  mem' = q /\ disk' = q /\ faults' = faults
  BY DEF Keep, NoFaults

(* Then no request counts a fault. *)
LEMMA RequestSucceeds ==
    ASSUME MaxFaults = 0, NoFaults, NEW t, NEW c, NEW verdict, Request(t, c, verdict)
    PROVE  faults' = faults
  BY SavesSucceed DEF Request, RuleDecides, OnceDecides, Ask

(* Nor does any step. *)
LEMMA FaultsStayZero ==
    ASSUME MaxFaults = 0, NoFaults, [Next]_vars
    PROVE  NoFaults'
  <1>1. ASSUME NEW t \in Tasks, Answer(t) PROVE faults' = faults
    BY <1>1, RequestSucceeds DEF Answer
  <1>2. ASSUME NEW r \in late, AnswerNobody(r) PROVE faults' = faults
    BY <1>2, RequestSucceeds DEF AnswerNobody
  <1>3. ASSUME NEW a \in mem.pending, Explain(a) PROVE faults' = faults
    BY <1>3, SavesSucceed DEF Explain
  <1>4. ASSUME NEW a \in mem.pending, NEW d \in {"allow", "deny"}, NEW s \in Scopes,
               Resolve(a, d, s)
        PROVE  faults' = faults
    BY <1>4, SavesSucceed DEF Resolve
  <1>5. ASSUME NEW t \in Tasks, Revoke(t) PROVE faults' = faults
    BY <1>5, SavesSucceed DEF Revoke
  <1>6. ASSUME Expire PROVE faults' = faults
    <2> DEFINE kept == [mem EXCEPT
                  !.pending = @ \ {a \in mem.pending : clock >= a.made + PendingLife},
                  !.resolved = {a \in @ : a.made + ResolvedLife > clock},
                  !.once = {a \in @ : a.made + ResolvedLife > clock}]
    <2>1. faults' = faults \/ Keep(kept)
      BY <1>6 DEF Expire
    <2> QED
      BY <2>1, SavesSucceed
  <1>7. ASSUME NEW t \in Tasks,
               (\E c \in Calls : Call(t, c)) \/ Run(t) \/ Report(t) \/ GiveUp(t)
        PROVE  faults' = faults
    BY <1>7 DEF Call, Run, Report, GiveUp
  <1>8. Tick \/ Crash \/ Restart \/ UNCHANGED vars => faults' = faults
    BY DEF Tick, Crash, Restart, vars
  <1>9. Expire => faults' = faults
    BY <1>6
  <1>10. faults' = faults
    BY <1>1, <1>2, <1>3, <1>4, <1>5, <1>7, <1>8, <1>9 DEF Next
  <1> QED
    BY <1>10 DEF NoFaults

(***************************************************************************)
(* When every save succeeds, one permission is one irreversible run,       *)
(* whatever crashes, lost answers, repeated calls and expirations happen.  *)
(***************************************************************************)
THEOREM PermissionsSpentOnce ==
    ASSUME KindsDistinct, MaxFaults = 0
    PROVE  Spec => []YesSpentOnce
  <1>1. Init => NoFaults
    BY DEF Init, NoFaults
  <1>2. NoFaults /\ [Next]_vars => NoFaults'
    BY FaultsStayZero
  <1>3. Books /\ NoFaults => YesSpentOnce
    <2> SUFFICES ASSUME Books, NoFaults, NEW t \in Tasks, NEW a \in Asks
                 PROVE  runs[t][a] <= yes[t][a]
      BY DEF YesSpentOnce
    <2>1. /\ Cardinality(Held(disk, t, a)) \in Nat /\ runs[t][a] \in Nat
          /\ yes[t][a] \in Nat /\ faults = 0 /\ Flying(call, t, a) \in {0, 1}
      BY Numbers DEF Books, NoFaults
    <2> QED
      BY <2>1 DEF Books, Account, Covered
  <1> QED
    BY <1>1, <1>2, <1>3, AccountHolds, ApprovalsAssumption, PTL DEF Spec

-----------------------------------------------------------------------------
(* A revoked task *)

(* A task that ran after its revocation has no call on its way, and makes none. *)
LastCall ==
    /\ DOMAIN call = Tasks /\ DOMAIN after = Tasks
    /\ \A t \in Tasks :
          /\ after[t] \in {0, 1}
          /\ after[t] = 1 => t \in revoked /\ call[t] = Idle

(* Every step keeps LastCall: a revoked task starts no call. *)
LEMMA LastCallStep ==
    ASSUME LastCall, [Next]_vars
    PROVE  LastCall'
  <1>1. ASSUME NEW t \in Tasks, NEW c \in Calls, Call(t, c) PROVE LastCall'
    <2>1. after[t] = 0 /\ DOMAIN call' = Tasks
      BY <1>1 DEF LastCall, Call
    <2> QED
      BY <1>1, <2>1 DEF LastCall, Call, history
  <1>2. ASSUME NEW t \in Tasks, Answer(t) \/ Report(t) \/ GiveUp(t) PROVE LastCall'
    <2>1. call[t] # Idle /\ UNCHANGED <<revoked, after>>
      BY <1>2 DEF Answer, Report, GiveUp, Idle, history
    <2>2. after[t] = 0
      BY <2>1 DEF LastCall
    <2>3. DOMAIN call' = Tasks /\ \A u \in Tasks \ {t} : call'[u] = call[u]
      BY <1>2 DEF LastCall, Answer, Report, GiveUp
    <2> QED
      BY <2>1, <2>2, <2>3 DEF LastCall
  <1>3. ASSUME NEW t \in Tasks, Run(t) PROVE LastCall'
    <2>1. call[t] # Idle /\ call' = [call EXCEPT ![t] = Idle] /\ revoked' = revoked
      BY <1>3 DEF Run, Idle
    <2>2. after[t] = 0
      BY <2>1 DEF LastCall
    <2>3. after' = IF t \in revoked THEN [after EXCEPT ![t] = 1] ELSE after
      BY <1>3, <2>2 DEF Run, LastCall
    <2> QED
      BY <2>1, <2>2, <2>3 DEF LastCall
  <1>4. ASSUME NEW t \in Tasks, Revoke(t) PROVE LastCall'
    BY <1>4 DEF LastCall, Revoke, caller, history
  <1>5. CASE Crash
    BY <1>5 DEF LastCall, Crash, history
  <1>6. ASSUME UNCHANGED <<call, revoked, after>> PROVE LastCall'
    BY <1>6 DEF LastCall
  <1>7. ASSUME NEW r \in late, AnswerNobody(r) PROVE LastCall'
    BY <1>7, <1>6 DEF AnswerNobody
  <1>8. ASSUME NEW a \in mem.pending, Explain(a) PROVE LastCall'
    BY <1>8, <1>6 DEF Explain, caller, history
  <1>9. ASSUME NEW a \in mem.pending, NEW d \in {"allow", "deny"}, NEW s \in Scopes,
               Resolve(a, d, s)
        PROVE  LastCall'
    BY <1>9, <1>6 DEF Resolve, caller
  <1>10. ASSUME Expire \/ Tick \/ Restart \/ UNCHANGED vars PROVE LastCall'
    BY <1>10, <1>6 DEF Expire, Tick, Restart, vars, caller, history
  <1> QED
    BY <1>1, <1>2, <1>3, <1>4, <1>5, <1>7, <1>8, <1>9, <1>10 DEF Next

(***************************************************************************)
(* After cap.revoke, at most the call already let through still runs, even *)
(* with decisions "once" left in the queue (call_recorded checks the right *)
(* before it asks for the decision).                                       *)
(***************************************************************************)
THEOREM RevokedTasksStop == Spec => []OneLateRun
  <1>1. Init => LastCall
    BY DEF Init, LastCall
  <1>2. LastCall /\ [Next]_vars => LastCall'
    BY LastCallStep
  <1>3. LastCall => OneLateRun
    BY DEF LastCall, OneLateRun
  <1> QED
    BY <1>1, <1>2, <1>3, PTL DEF Spec

-----------------------------------------------------------------------------
(* The questions *)

Shaped(q) == q \in [pending : {q.pending}, resolved : {q.resolved},
                    once : {q.once}, rules : {q.rules}]

(* The questions of the memory and of the disk are the same, and all the open ones. *)
Before ==
    /\ Shaped(mem) /\ Shaped(disk) /\ NoFaults
    /\ up => mem.pending = disk.pending
    /\ \A id \in open : \E a \in disk.pending : a.id = id

(* A saved queue that holds the open questions keeps Before. *)
LEMMA KeepBefore ==
    ASSUME MaxFaults = 0, Before, up' = up, NEW q, Shaped(q), Keep(q),
           \A id \in open' : \E a \in q.pending : a.id = id
    PROVE  Before'
  <1>1. mem' = q /\ disk' = q /\ faults' = faults
    BY SavesSucceed DEF Before
  <1> QED
    BY <1>1 DEF Before, Shaped, NoFaults

(* A request keeps Before, whatever answers it. *)
LEMMA RequestBefore ==
    ASSUME MaxFaults = 0, Before, up' = up, NEW t, NEW c, NEW verdict, Request(t, c, verdict)
    PROVE  Before'
  <1>1. up /\ Shaped(mem) /\ \A id \in open : \E a \in mem.pending : a.id = id
    BY DEF Request, Before
  <1>2. CASE RuleDecides(t, c, verdict)
    <2>1. Keep(mem) /\ open' = open
      BY <1>2 DEF RuleDecides
    <2> QED
      BY <1>1, <2>1, KeepBefore
  <1>3. CASE OnceDecides(t, c, verdict)
    <2>1. PICK o \in Oldest(Waiting(t, c)) : Keep([mem EXCEPT !.once = @ \ {o}])
      BY <1>3 DEF OnceDecides
    <2> DEFINE q == [mem EXCEPT !.once = @ \ {o}]
    <2>2. Shaped(q) /\ q.pending = mem.pending
      BY <1>1 DEF Shaped
    <2>3. open' = open /\ Keep(q)
      BY <1>3, <2>1 DEF OnceDecides
    <2> HIDE DEF q
    <2> QED
      BY <1>1, <2>2, <2>3, KeepBefore
  <1>4. CASE Ask(t, c, verdict)
    <2> DEFINE new == [id |-> next, task |-> t, ask |-> c.ask, irr |-> c.irr, made |-> clock,
                       state |-> "pending", decidedAt |-> 0]
    <2> DEFINE q == [mem EXCEPT !.pending = @ \cup {new}]
    <2>1. Keep(q) /\ open' = open \cup {next}
      BY <1>4 DEF Ask
    <2>2. Shaped(q) /\ q.pending = mem.pending \cup {new} /\ new.id = next
      BY <1>1 DEF Shaped
    <2> HIDE DEF q, new
    <2> QED
      BY <1>1, <2>1, <2>2, KeepBefore
  <1> QED
    BY <1>2, <1>3, <1>4 DEF Request

(* Every step keeps Before. *)
LEMMA StepBefore ==
    ASSUME MaxFaults = 0, Before, [Next]_vars
    PROVE  Before'
  <1>0. Shaped(mem) /\ (up => \A id \in open : \E a \in mem.pending : a.id = id)
    BY DEF Before
  <1>1. ASSUME NEW t \in Tasks, Answer(t) PROVE Before'
    BY <1>1, RequestBefore DEF Answer
  <1>2. ASSUME NEW r \in late, AnswerNobody(r) PROVE Before'
    BY <1>2, RequestBefore DEF AnswerNobody
  <1>3. ASSUME NEW a \in mem.pending, Explain(a) PROVE Before'
    <2>1. up /\ up' = up /\ Keep(mem) /\ open' = open
      BY <1>3 DEF Explain, history
    <2> QED
      BY <1>0, <2>1, KeepBefore
  <1>4. ASSUME NEW a \in mem.pending, NEW d \in {"allow", "deny"}, NEW s \in Scopes,
               Resolve(a, d, s)
        PROVE  Before'
    <2> DEFINE q == Resolved(a, d, s)
    <2>1. up /\ up' = up /\ Keep(q) /\ open' = open \ {a.id}
      BY <1>4 DEF Resolve
    <2>2. Shaped(q) /\ q.pending = mem.pending \ {a}
      BY <1>0 DEF Shaped, Resolved
    <2> HIDE DEF q
    <2> QED
      BY <1>0, <2>1, <2>2, KeepBefore
  <1>5. ASSUME NEW t \in Tasks, Revoke(t) PROVE Before'
    <2>1. up /\ up' = up /\ Keep(Cleared(t)) /\ open' = open
      BY <1>5 DEF Revoke, history
    <2>2. Shaped(Cleared(t)) /\ Cleared(t).pending = mem.pending
      BY <1>0 DEF Shaped, Cleared
    <2> QED
      BY <1>0, <2>1, <2>2, KeepBefore
  <1>6. ASSUME Expire PROVE Before'
    <2> DEFINE old == {a \in mem.pending : clock >= a.made + PendingLife}
    <2> DEFINE kept == [mem EXCEPT
                  !.pending = @ \ old,
                  !.resolved = {a \in @ : a.made + ResolvedLife > clock},
                  !.once = {a \in @ : a.made + ResolvedLife > clock}]
    <2>1. up /\ up' = up /\ open' = open \ {a.id : a \in old}
      BY <1>6 DEF Expire
    <2>2. \/ old = {} /\ mem' = kept /\ UNCHANGED <<disk, faults>>
          \/ Keep(kept)
      BY <1>6 DEF Expire
    <2>3. Shaped(kept) /\ kept.pending = mem.pending \ old
      BY <1>0 DEF Shaped
    <2> HIDE DEF kept
    <2>4. \A id \in open' : \E a \in kept.pending : a.id = id
      BY <1>0, <2>1, <2>3
    <2>5. CASE Keep(kept)
      BY <2>1, <2>3, <2>4, <2>5, KeepBefore
    <2>6. CASE old = {} /\ mem' = kept /\ UNCHANGED <<disk, faults>>
      BY <2>1, <2>3, <2>6 DEF Before, Shaped, NoFaults
    <2> QED
      BY <2>2, <2>5, <2>6
  <1>7. ASSUME UNCHANGED <<mem, disk, up, faults, open>> PROVE Before'
    BY <1>7 DEF Before, Shaped, NoFaults
  <1>8. ASSUME NEW t \in Tasks,
               (\E c \in Calls : Call(t, c)) \/ Run(t) \/ Report(t) \/ GiveUp(t)
        PROVE  Before'
    BY <1>7, <1>8 DEF Call, Run, Report, GiveUp, history
  <1>9. ASSUME Tick \/ UNCHANGED vars PROVE Before'
    BY <1>7, <1>9 DEF Tick, vars, history
  <1>10. ASSUME Crash PROVE Before'
    BY <1>10 DEF Crash, Before, Shaped, NoFaults, Empty, history
  <1>11. ASSUME Restart PROVE Before'
    BY <1>11 DEF Restart, Before, Shaped, NoFaults, history
  <1> QED
    BY <1>1, <1>2, <1>3, <1>4, <1>5, <1>6, <1>8, <1>9, <1>10, <1>11 DEF Next

(***************************************************************************)
(* When every save succeeds, a question put to the human survives crashes  *)
(* until it is decided or lapses (garder after request, resolve, expire,   *)
(* explain and revoke).                                                    *)
(***************************************************************************)
THEOREM QuestionsStay ==
    ASSUME MaxFaults = 0
    PROVE  Spec => []QuestionsKept
  <1>1. Init => Before
    BY DEF Init, Before, Shaped, Empty, NoFaults
  <1>2. Before /\ [Next]_vars => Before'
    BY StepBefore
  <1>3. Before => QuestionsKept
    BY DEF Before, QuestionsKept
  <1> QED
    BY <1>1, <1>2, <1>3, PTL DEF Spec

-----------------------------------------------------------------------------
(* What the revocation of a task leaves of the rules.  Without is defined by
   recursion on the length, so what it returns is shown of the least length
   at which it could fail. *)

(* A set of natural numbers that is not empty has a least one. *)
LEMMA LeastNatural ==
    ASSUME NEW T \in SUBSET Nat, T # {}
    PROVE  \E x \in T : \A y \in T : x <= y
  <1>1. PICK x \in T : \A y \in T : ~ (<<y, x>> \in OpToRel(<, Nat))
    BY NatLessThanWellFounded, WFMin
  <1>2. \A y \in T : y < x => <<y, x>> \in OpToRel(<, Nat)
    BY DEF OpToRel
  <1>3. \A y \in T : ~ (y < x)
    BY <1>1, <1>2, Zenon
  <1> QED
    BY <1>3

(* f tells, for each i up to n, what is kept of the first i rules of s. *)
Filters(f, s, t, n) ==
    f = [i \in 0 .. n |->
            IF i = 0 THEN <<>>
            ELSE IF s[i].task # t THEN Append(f[i - 1], s[i]) ELSE f[i - 1]]

(* There is such a function. *)
LEMMA FilterExists ==
    ASSUME NEW s, NEW t, NEW n \in Nat
    PROVE  \E f : Filters(f, s, t, n)
  <1> DEFINE Bad == {k \in Nat : ~ \E f : Filters(f, s, t, k)}
  <1> SUFFICES ASSUME Bad # {} PROVE FALSE
    <2>1. Bad = {} => n \notin Bad
      OBVIOUS
    <2> QED
      BY <2>1
  <1>1. PICK k \in Bad : \A j \in Bad : k <= j
    BY LeastNatural
  <1>2. CASE k = 0
    <2>1. Filters([i \in 0 .. 0 |-> <<>>], s, t, 0)
      BY DEF Filters
    <2> QED
      BY <1>1, <1>2, <2>1
  <1>3. CASE k # 0
    <2>1. k \in Nat /\ k - 1 \in Nat /\ ~ (k <= k - 1)
      BY <1>3
    <2>2. PICK f : Filters(f, s, t, k - 1)
      BY <1>1, <2>1
    <2> DEFINE g == [i \in 0 .. k |->
                        IF i = k
                        THEN IF s[k].task # t THEN Append(f[k - 1], s[k]) ELSE f[k - 1]
                        ELSE f[i]]
    <2>3. ASSUME NEW i \in 0 .. k
          PROVE  g[i] = IF i = 0 THEN <<>>
                        ELSE IF s[i].task # t THEN Append(g[i - 1], s[i]) ELSE g[i - 1]
      <3>1. CASE i = k
        <4>1. k - 1 \in 0 .. k /\ k - 1 # k /\ g[k - 1] = f[k - 1]
          BY <2>1
        <4> QED
          BY <1>3, <3>1, <4>1
      <3>2. CASE i # k
        <4>1. i \in 0 .. k - 1 /\ g[i] = f[i]
          BY <2>1, <3>2
        <4>2. f[i] = IF i = 0 THEN <<>>
                     ELSE IF s[i].task # t THEN Append(f[i - 1], s[i]) ELSE f[i - 1]
          BY <2>2, <4>1 DEF Filters
        <4>3. i # 0 => i - 1 \in 0 .. k /\ i - 1 # k
          BY <2>1, <4>1
        <4>4. i # 0 => g[i - 1] = f[i - 1]
          BY <4>3
        <4> HIDE DEF g
        <4> QED
          BY <4>1, <4>2, <4>4
      <3> QED
        BY <3>1, <3>2
    <2>4. g = [i \in 0 .. k |-> g[i]]
      OBVIOUS
    <2> HIDE DEF g
    <2>5. Filters(g, s, t, k)
      BY <2>3, <2>4 DEF Filters
    <2> QED
      BY <2>5
  <1> QED
    BY <1>2, <1>3

(* Without is the last value of such a function. *)
LEMMA WithoutFilters ==
    ASSUME NEW s, NEW t, Len(s) \in Nat
    PROVE  \E f : Filters(f, s, t, Len(s)) /\ Without(s, t) = f[Len(s)]
  <1> DEFINE F == CHOOSE f : Filters(f, s, t, Len(s))
  <1>1. Filters(F, s, t, Len(s))
    <2> HIDE DEF Filters
    <2>1. \E f : Filters(f, s, t, Len(s))
      BY FilterExists
    <2> QED
      BY <2>1
  <1>2. Without(s, t) = F[Len(s)]
    BY DEF Without, Filters
  <1> QED
    BY <1>1, <1>2

(* Every rule of another task among the first n is in q. *)
KeepsOthers(q, s, t, n) ==
    \A i \in 1 .. n : s[i].task # t => \E j \in 1 .. Len(q) : q[j] = s[i]

(* What is left is a sequence of rules, and no rule of another task is lost. *)
LEMMA WithoutKeeps ==
    ASSUME NEW R, NEW s \in Seq(R), NEW t
    PROVE  Without(s, t) \in Seq(R) /\ KeepsOthers(Without(s, t), s, t, Len(s))
  <1>1. PICK f : Filters(f, s, t, Len(s)) /\ Without(s, t) = f[Len(s)]
    BY WithoutFilters
  <1> DEFINE Good(k) == f[k] \in Seq(R) /\ KeepsOthers(f[k], s, t, k)
  <1> DEFINE Bad == {k \in 0 .. Len(s) : ~ Good(k)}
  <1>2. ASSUME NEW k \in 1 .. Len(s), Good(k - 1) PROVE Good(k)
    <2>1. f[k] = IF s[k].task # t THEN Append(f[k - 1], s[k]) ELSE f[k - 1]
      <3>1. k \in 0 .. Len(s) /\ k # 0
        OBVIOUS
      <3> QED
        BY <1>1, <3>1 DEF Filters
    <2>2. s[k] \in R /\ f[k - 1] \in Seq(R)
      BY <1>2
    <2>3. CASE s[k].task # t
      <3> DEFINE p == f[k - 1]
      <3>1. f[k] = Append(p, s[k]) /\ f[k] \in Seq(R) /\ Len(f[k]) = Len(p) + 1
        BY <2>1, <2>2, <2>3
      <3>2. f[k][Len(f[k])] = s[k] /\ \A j \in 1 .. Len(p) : f[k][j] = p[j]
        BY <2>2, <3>1
      <3>3. Len(p) \in Nat
        BY <2>2
      <3>4. ASSUME NEW i \in 1 .. k, s[i].task # t
            PROVE  \E j \in 1 .. Len(f[k]) : f[k][j] = s[i]
        <4>1. CASE i = k
          BY <3>1, <3>2, <3>3, <4>1
        <4>2. CASE i # k
          <5>1. i \in 1 .. k - 1
            BY <4>2
          <5>2. PICK j \in 1 .. Len(p) : p[j] = s[i]
            BY <1>2, <3>4, <5>1 DEF KeepsOthers
          <5> QED
            BY <3>1, <3>2, <3>3, <5>2
        <4> QED
          BY <4>1, <4>2
      <3> QED
        BY <3>1, <3>4 DEF KeepsOthers
    <2>4. CASE s[k].task = t
      <3>1. \A i \in 1 .. k : s[i].task # t => i \in 1 .. k - 1
        BY <2>4
      <3> QED
        BY <1>2, <2>1, <2>2, <2>4, <3>1 DEF KeepsOthers
    <2> QED
      BY <2>3, <2>4
  <1>3. Good(0)
    <2>1. f[0] = <<>>
      BY <1>1 DEF Filters
    <2> QED
      BY <2>1 DEF KeepsOthers
  <1> SUFFICES Good(Len(s))
    BY <1>1
  <1> HIDE DEF Good
  <1> SUFFICES ASSUME Bad # {} PROVE FALSE
    <2>1. Len(s) \in 0 .. Len(s)
      OBVIOUS
    <2>2. Bad = {} => Len(s) \notin Bad
      OBVIOUS
    <2> HIDE DEF Bad
    <2>3. ~ Good(Len(s)) => Len(s) \in Bad
      BY <2>1 DEF Bad
    <2> QED
      BY <2>2, <2>3
  <1>4. PICK k \in Bad : \A j \in Bad : k <= j
    <2>1. Bad \in SUBSET Nat
      OBVIOUS
    <2> HIDE DEF Bad
    <2> QED
      BY <2>1, LeastNatural
  <1>5. k # 0 /\ k \in 1 .. Len(s) /\ k - 1 \in 0 .. Len(s) /\ ~ (k <= k - 1)
    BY <1>3, <1>4
  <1> QED
    BY <1>2, <1>4, <1>5

-----------------------------------------------------------------------------
(* The types. *)

(* A queue that is kept has its type, saved or not. *)
LEMMA KeepTypes ==
    ASSUME TypeOK, NEW q \in Queue, Keep(q)
    PROVE  mem' \in Queue /\ disk' \in Queue /\ faults' \in Nat
  BY DEF TypeOK, Keep

(* A request keeps the types of what it touches. *)
LEMMA RequestTypes ==
    ASSUME ApprovalsAssumption, TypeOK, NEW t \in Tasks, NEW c \in Calls, NEW verdict,
           Request(t, c, verdict)
    PROVE  /\ mem' \in Queue /\ disk' \in Queue /\ faults' \in Nat
           /\ next' \in 1 .. MaxAsks + 1 /\ open' \in SUBSET (1 .. MaxAsks)
  <1>0. mem \in Queue /\ next \in 1 .. MaxAsks + 1 /\ open \in SUBSET (1 .. MaxAsks)
    BY DEF TypeOK
  <1>1. CASE RuleDecides(t, c, verdict)
    BY <1>0, <1>1, KeepTypes DEF RuleDecides
  <1>2. CASE OnceDecides(t, c, verdict)
    <2>1. PICK o \in Oldest(Waiting(t, c)) : Keep([mem EXCEPT !.once = @ \ {o}])
      BY <1>2 DEF OnceDecides
    <2>2. [mem EXCEPT !.once = @ \ {o}] \in Queue
      BY <1>0 DEF Queue
    <2> QED
      BY <1>0, <1>2, <2>1, <2>2, KeepTypes DEF OnceDecides
  <1>3. CASE Ask(t, c, verdict)
    <2> DEFINE new == [id |-> next, task |-> t, ask |-> c.ask, irr |-> c.irr, made |-> clock,
                       state |-> "pending", decidedAt |-> 0]
    <2> DEFINE q == [mem EXCEPT !.pending = @ \cup {new}]
    <2>1. Keep(q) /\ next <= MaxAsks /\ next' = next + 1 /\ open' = open \cup {next}
      BY <1>3 DEF Ask
    <2>2. next \in 1 .. MaxAsks /\ next' \in 1 .. MaxAsks + 1
      BY <1>0, <2>1 DEF ApprovalsAssumption
    <2>3. new \in Approval
      BY <2>2 DEF Approval, TypeOK, Asks, ApprovalsAssumption
    <2> HIDE DEF new
    <2>4. q \in Queue
      BY <1>0, <2>3 DEF Queue
    <2> HIDE DEF q
    <2> QED
      BY <1>0, <2>1, <2>2, <2>4, KeepTypes
  <1> QED
    BY <1>1, <1>2, <1>3 DEF Request

(* A decision leaves a queue. *)
LEMMA ResolvedTyped ==
    ASSUME ApprovalsAssumption, TypeOK, NEW a \in mem.pending,
           NEW d \in {"allow", "deny"}, NEW s \in Scopes
    PROVE  /\ Resolved(a, d, s) \in Queue
           /\ Rule(a, d, Effective(a, d, s)) \in StandingRule
           /\ a \in Approval
  <1> DEFINE r == [a EXCEPT !.state = d, !.decidedAt = clock]
  <1> DEFINE e == Effective(a, d, s)
  <1> DEFINE rule == Rule(a, d, e)
  <1>1. mem \in Queue /\ clock \in Nat /\ a \in Approval
    BY DEF TypeOK, Queue
  <1>2. r \in Approval
    BY <1>1 DEF Approval
  <1>3. rule \in StandingRule
    BY <1>1 DEF Rule, StandingRule, Approval, NoEnd, ApprovalsAssumption
  <1>4. Resolved(a, d, s) =
            [mem EXCEPT !.pending = @ \ {a},
                        !.resolved = @ \cup {r},
                        !.once = IF e = "once" THEN @ \cup {r} ELSE @,
                        !.rules = IF e = "once" THEN @ ELSE Append(@, rule)]
    BY DEF Resolved
  <1> HIDE DEF r, e, rule
  <1>5. mem.rules \in Seq(StandingRule) /\ Append(mem.rules, rule) \in Seq(StandingRule)
    BY <1>1, <1>3 DEF Queue
  <1>6. Resolved(a, d, s) \in Queue
    <2>1. CASE e = "once"
      <3>1. Resolved(a, d, s) =
                [mem EXCEPT !.pending = @ \ {a}, !.resolved = @ \cup {r},
                            !.once = @ \cup {r}, !.rules = @]
        BY <1>4, <2>1
      <3> QED
        BY <1>1, <1>2, <3>1 DEF Queue
    <2>2. CASE e # "once"
      <3> DEFINE more == Append(mem.rules, rule)
      <3>1. Resolved(a, d, s) =
                [mem EXCEPT !.pending = @ \ {a}, !.resolved = @ \cup {r},
                            !.once = @, !.rules = more]
        BY <1>4, <2>2
      <3>2. more \in Seq(StandingRule)
        BY <1>5
      <3> HIDE DEF more
      <3> QED
        BY <1>1, <1>2, <3>1, <3>2 DEF Queue
    <2> QED
      BY <2>1, <2>2
  <1> QED
    BY <1>1, <1>3, <1>6 DEF rule, e

(* Every step keeps the types. *)
LEMMA StepTyped ==
    ASSUME ApprovalsAssumption, TypeOK, [Next]_vars
    PROVE  TypeOK'
  <1> USE DEF caller, counts, history
  <1>1. ASSUME NEW t \in Tasks, NEW c \in Calls, Call(t, c) PROVE TypeOK'
    BY <1>1 DEF Call, TypeOK, Standing
  <1>2. ASSUME NEW t \in Tasks, Answer(t) PROVE TypeOK'
    <2>1. PICK verdict \in {"allow", "deny", "pending"} :
              /\ Request(t, call[t].c, verdict)
              /\ call' = [call EXCEPT ![t] = [at |-> verdict, c |-> @.c]]
      BY <1>2 DEF Answer
    <2>2. call[t].c \in Calls
      BY <1>2 DEF Answer, TypeOK, Standing, Idle
    <2>3. call' \in [Tasks -> Standing]
      BY <2>1, <2>2 DEF TypeOK, Standing
    <2> QED
      BY <1>2, <2>1, <2>2, <2>3, RequestTypes DEF Answer, TypeOK
  <1>3. ASSUME NEW t \in Tasks, Run(t) PROVE TypeOK'
    <2>1. call[t].c \in Calls /\ call[t].c.ask \in Asks
      BY <1>3 DEF Run, TypeOK, Standing, Idle, Asks
    <2>2. call' \in [Tasks -> Standing]
      BY <1>3 DEF Run, TypeOK, Standing
    <2>3. runs' \in [Tasks -> [Asks -> Nat]]
      BY <1>3, <2>1 DEF Run, TypeOK
    <2>4. after' \in [Tasks -> Nat]
      BY <1>3 DEF Run, TypeOK
    <2> QED
      BY <1>3, <2>2, <2>3, <2>4 DEF Run, TypeOK
  <1>4. ASSUME NEW t \in Tasks, Report(t) PROVE TypeOK'
    BY <1>4 DEF Report, TypeOK, Standing
  <1>5. ASSUME NEW t \in Tasks, GiveUp(t) PROVE TypeOK'
    <2>1. call[t].c \in Calls
      BY <1>5 DEF GiveUp, TypeOK, Standing
    <2>2. call' \in [Tasks -> Standing] /\ late' \in SUBSET [task : Tasks, c : Calls]
      BY <1>5, <2>1 DEF GiveUp, TypeOK, Standing
    <2> QED
      BY <1>5, <2>2 DEF GiveUp, TypeOK
  <1>6. ASSUME NEW r \in late, AnswerNobody(r) PROVE TypeOK'
    <2>1. PICK verdict : Request(r.task, r.c, verdict)
      BY <1>6 DEF AnswerNobody
    <2>2. r.task \in Tasks /\ r.c \in Calls
      BY DEF TypeOK
    <2> QED
      BY <1>6, <2>1, <2>2, RequestTypes DEF AnswerNobody, TypeOK
  <1>7. ASSUME NEW a \in mem.pending, Explain(a) PROVE TypeOK'
    BY <1>7, KeepTypes DEF Explain, TypeOK
  <1>8. ASSUME NEW a \in mem.pending, NEW d \in {"allow", "deny"}, NEW s \in Scopes,
               Resolve(a, d, s)
        PROVE  TypeOK'
    <2>1. Resolved(a, d, s) \in Queue /\ a.task \in Tasks /\ a.ask \in Asks
      BY ResolvedTyped DEF Approval
    <2>2. mem' \in Queue /\ disk' \in Queue /\ faults' \in Nat
      BY <1>8, <2>1, KeepTypes DEF Resolve
    <2>3. yes' \in [Tasks -> [Asks -> Nat]]
      <3>1. yes \in [Tasks -> [Asks -> Nat]]
        BY DEF TypeOK
      <3>2. yes' = yes \/ yes' = [yes EXCEPT ![a.task][a.ask] = @ + 1]
        BY <1>8 DEF Resolve
      <3> QED
        BY <2>1, <3>1, <3>2
    <2>4. refused' \in SUBSET (Tasks \X Asks)
      <3>1. refused \in SUBSET (Tasks \X Asks) /\ <<a.task, a.ask>> \in Tasks \X Asks
        BY <2>1 DEF TypeOK
      <3>2. refused' = refused \/ refused' = refused \cup {<<a.task, a.ask>>}
        BY <1>8 DEF Resolve
      <3> QED
        BY <3>1, <3>2
    <2>5. open' \in SUBSET (1 .. MaxAsks)
      BY <1>8 DEF Resolve, TypeOK
    <2> QED
      BY <1>8, <2>2, <2>3, <2>4, <2>5 DEF Resolve, TypeOK
  <1>9. ASSUME NEW t \in Tasks, Revoke(t) PROVE TypeOK'
    <2>1. mem \in Queue
      BY DEF TypeOK
    <2>2. Without(mem.rules, t) \in Seq(StandingRule)
      BY <2>1, WithoutKeeps DEF Queue
    <2>3. Cleared(t) \in Queue
      BY <2>1, <2>2 DEF Cleared, Queue
    <2> QED
      BY <1>9, <2>3, KeepTypes DEF Revoke, TypeOK
  <1>10. ASSUME Expire PROVE TypeOK'
    <2> DEFINE old == {a \in mem.pending : clock >= a.made + PendingLife}
    <2> DEFINE kept == [mem EXCEPT
                  !.pending = @ \ old,
                  !.resolved = {a \in @ : a.made + ResolvedLife > clock},
                  !.once = {a \in @ : a.made + ResolvedLife > clock}]
    <2>1. /\ (mem' = kept /\ UNCHANGED <<disk, faults>>) \/ Keep(kept)
          /\ open' = open \ {a.id : a \in old}
      BY <1>10 DEF Expire
    <2>2. kept \in Queue
      BY DEF TypeOK, Queue
    <2> HIDE DEF kept
    <2>3. mem' \in Queue /\ disk' \in Queue /\ faults' \in Nat
      BY <2>1, <2>2, KeepTypes DEF TypeOK
    <2> QED
      BY <1>10, <2>1, <2>3 DEF Expire, TypeOK
  <1>11. ASSUME Tick PROVE TypeOK'
    BY <1>11 DEF Tick, TypeOK
  <1>12. ASSUME Crash PROVE TypeOK'
    <2>1. Empty \in Queue
      BY DEF Empty, Queue
    <2>2. call' \in [Tasks -> Standing]
      BY <1>12 DEF Crash, TypeOK, Standing
    <2>3. /\ mem' = Empty /\ up' = FALSE /\ late' = {} /\ crashes' = crashes + 1
          /\ UNCHANGED <<disk, revoked, next, clock, faults, losses, history>>
      BY <1>12 DEF Crash
    <2>4. mem' \in Queue /\ disk' \in Queue /\ up' \in BOOLEAN /\ crashes' \in Nat
      <3>1. mem' \in Queue
        BY <2>1, <2>3, Zenon
      <3>2. disk' \in Queue /\ up' \in BOOLEAN
        BY <2>3, Zenon DEF TypeOK
      <3>3. crashes' \in Nat
        BY <2>3 DEF TypeOK
      <3> QED
        BY <3>1, <3>2, <3>3
    <2>5. late' \in SUBSET [task : Tasks, c : Calls]
      <3>1. {} \in SUBSET [task : Tasks, c : Calls]
        OBVIOUS
      <3> QED
        BY <2>3, <3>1, Zenon
    <2>6. UNCHANGED <<revoked, next, clock, faults, losses, yes, runs, refused, open, after>>
      BY <2>3
    <2> QED
      BY <2>2, <2>4, <2>5, <2>6 DEF TypeOK
  <1>13. ASSUME Restart PROVE TypeOK'
    BY <1>13 DEF Restart, TypeOK
  <1>14. ASSUME UNCHANGED vars PROVE TypeOK'
    BY <1>14 DEF vars, TypeOK
  <1> QED
    BY <1>1, <1>2, <1>3, <1>4, <1>5, <1>6, <1>7, <1>8, <1>9, <1>10, <1>11, <1>12, <1>13, <1>14
    DEF Next

LEMMA InitTyped == ASSUME ApprovalsAssumption, Init PROVE TypeOK
  <1>1. Empty \in Queue
    BY DEF Empty, Queue
  <1>2. call \in [Tasks -> Standing]
    BY DEF Init, Standing
  <1> QED
    BY <1>1, <1>2 DEF Init, TypeOK, ApprovalsAssumption

(***************************************************************************)
(* The queue, the calls and the history keep to their types: in            *)
(* particular the rules stay a sequence of standing rules when a           *)
(* revocation takes those of a task away (clear_task_rules).               *)
(***************************************************************************)
THEOREM ApprovalsTyped == Spec => []TypeOK
  <1>1. Init => TypeOK
    BY InitTyped, ApprovalsAssumption
  <1>2. TypeOK /\ [Next]_vars => TypeOK'
    BY StepTyped, ApprovalsAssumption
  <1> QED
    BY <1>1, <1>2, PTL DEF Spec

-----------------------------------------------------------------------------
(* The refusals. *)

(* A standing refusal of a by task t, for as long as the task. *)
Refuses(rule, t, a) ==
    rule.decision = "deny" /\ rule.task = t /\ rule.ask = a /\ rule.until = NoEnd

Refusing(rules, t, a) == \E i \in 1 .. Len(rules) : Refuses(rules[i], t, a)

(* What the human refused for the whole task is refused by a rule, in memory and on disk. *)
RefusedBy(rules, gone, said) ==
    \A t \in Tasks \ gone, a \in Asks : <<t, a>> \in said => Refusing(rules, t, a)

Refused ==
    /\ TypeOK /\ NoFaults /\ clock <= MaxClock
    /\ RefusedBy(disk.rules, revoked, refused)
    /\ up => RefusedBy(mem.rules, revoked, refused)

(* A saved queue that refuses what is refused keeps Refused. *)
LEMMA KeepRefused ==
    ASSUME MaxFaults = 0, Refused, TypeOK', NEW q, Keep(q), clock' = clock,
           RefusedBy(q.rules, revoked', refused')
    PROVE  Refused'
  <1>1. mem' = q /\ disk' = q /\ faults' = faults
    BY SavesSucceed DEF Refused
  <1> QED
    BY <1>1 DEF Refused, NoFaults

(* A request touches no rule. *)
LEMMA RequestRefused ==
    ASSUME MaxFaults = 0, Refused, TypeOK', NEW t, NEW c, NEW verdict, Request(t, c, verdict),
           UNCHANGED <<revoked, refused, clock>>
    PROVE  Refused'
  <1>0. mem \in Queue /\ RefusedBy(mem.rules, revoked', refused')
    BY DEF Refused, TypeOK, Request
  <1>1. CASE RuleDecides(t, c, verdict)
    BY <1>0, <1>1, KeepRefused DEF RuleDecides
  <1>2. CASE OnceDecides(t, c, verdict)
    <2>1. PICK o \in Oldest(Waiting(t, c)) : Keep([mem EXCEPT !.once = @ \ {o}])
      BY <1>2 DEF OnceDecides
    <2> DEFINE q == [mem EXCEPT !.once = @ \ {o}]
    <2>2. q.rules = mem.rules
      BY <1>0 DEF Queue
    <2>3. Keep(q)
      BY <2>1
    <2> HIDE DEF q
    <2> QED
      BY <1>0, <2>2, <2>3, KeepRefused
  <1>3. CASE Ask(t, c, verdict)
    <2> DEFINE q == [mem EXCEPT !.pending = @ \cup
                        {[id |-> next, task |-> t, ask |-> c.ask, irr |-> c.irr,
                          made |-> clock, state |-> "pending", decidedAt |-> 0]}]
    <2>1. Keep(q)
      BY <1>3 DEF Ask
    <2>2. q.rules = mem.rules
      BY <1>0 DEF Queue
    <2> HIDE DEF q
    <2> QED
      BY <1>0, <2>1, <2>2, KeepRefused
  <1> QED
    BY <1>1, <1>2, <1>3 DEF Request

(* A decision adds a rule at the end: the refusals there were stay, and a new one is there. *)
LEMMA ResolveRefused ==
    ASSUME MaxFaults = 0, Refused, TypeOK', NEW a \in mem.pending,
           NEW d \in {"allow", "deny"}, NEW s \in Scopes, Resolve(a, d, s)
    PROVE  Refused'
  <1> DEFINE e == Effective(a, d, s)
  <1> DEFINE rule == Rule(a, d, e)
  <1> DEFINE q == Resolved(a, d, s)
  <1>1. Keep(q) /\ up /\ revoked' = revoked /\ clock' = clock
    BY DEF Resolve, counts
  <1>2. rule \in StandingRule /\ mem.rules \in Seq(StandingRule)
    BY ResolvedTyped, ApprovalsAssumption DEF Refused, TypeOK, Queue
  <1>3. q.rules = IF e = "once" THEN mem.rules ELSE Append(mem.rules, rule)
    BY DEF Resolved, Refused, TypeOK, Queue
  <1>4. refused' = IF d = "deny" /\ s = "task" THEN refused \cup {<<a.task, a.ask>>} ELSE refused
    BY DEF Resolve
  <1>5. d = "deny" /\ s = "task" => e # "once" /\ Refuses(rule, a.task, a.ask)
    BY DEF Effective, Rule, Refuses
  <1>6. ASSUME NEW t \in Tasks \ revoked, NEW b \in Asks, <<t, b>> \in refused
        PROVE  Refusing(q.rules, t, b)
    <2>1. PICK i \in 1 .. Len(mem.rules) : Refuses(mem.rules[i], t, b)
      BY <1>1, <1>6 DEF Refused, RefusedBy, Refusing
    <2> HIDE DEF q, rule
    <2>2. i \in 1 .. Len(q.rules) /\ q.rules[i] = mem.rules[i]
      BY <1>2, <1>3
    <2> QED
      BY <2>1, <2>2 DEF Refusing
  <1>7. ASSUME d = "deny", s = "task"
        PROVE  Refusing(q.rules, a.task, a.ask)
    <2> HIDE DEF q, rule
    <2>1. q.rules = Append(mem.rules, rule)
      BY <1>3, <1>5, <1>7
    <2>2. Len(q.rules) \in 1 .. Len(q.rules) /\ q.rules[Len(q.rules)] = rule
      BY <1>2, <2>1
    <2> QED
      BY <1>5, <1>7, <2>2 DEF Refusing
  <1>8. RefusedBy(q.rules, revoked', refused')
    <2> SUFFICES ASSUME NEW t \in Tasks \ revoked, NEW b \in Asks, <<t, b>> \in refused'
                 PROVE  Refusing(q.rules, t, b)
      BY <1>1 DEF RefusedBy
    <2> HIDE DEF q, rule, e
    <2>1. CASE <<t, b>> \in refused
      BY <1>6, <2>1
    <2>2. CASE <<t, b>> \notin refused
      <3>1. d = "deny" /\ s = "task" /\ <<t, b>> = <<a.task, a.ask>>
        BY <1>4, <2>2
      <3> QED
        BY <1>7, <3>1
    <2> QED
      BY <2>1, <2>2
  <1> HIDE DEF q
  <1> QED
    BY <1>1, <1>8, KeepRefused

(* A revocation takes away no rule of another task. *)
LEMMA RevokeRefused ==
    ASSUME MaxFaults = 0, Refused, TypeOK', NEW t \in Tasks, Revoke(t)
    PROVE  Refused'
  <1> DEFINE q == Cleared(t)
  <1>1. /\ Keep(q) /\ up /\ revoked' = revoked \cup {t} /\ clock' = clock
        /\ refused' = refused
    BY DEF Revoke, counts, history
  <1>2. mem.rules \in Seq(StandingRule) /\ q.rules = Without(mem.rules, t)
    BY DEF Refused, TypeOK, Queue, Cleared
  <1>3. KeepsOthers(q.rules, mem.rules, t, Len(mem.rules))
    BY <1>2, WithoutKeeps
  <1> HIDE DEF q
  <1>4. ASSUME NEW u \in Tasks \ revoked', NEW a \in Asks, <<u, a>> \in refused
        PROVE  Refusing(q.rules, u, a)
    <2>1. PICK i \in 1 .. Len(mem.rules) : Refuses(mem.rules[i], u, a)
      BY <1>1, <1>4 DEF Refused, RefusedBy, Refusing
    <2>2. mem.rules[i].task # t
      BY <1>1, <2>1 DEF Refuses
    <2>3. PICK j \in 1 .. Len(q.rules) : q.rules[j] = mem.rules[i]
      BY <1>3, <2>2 DEF KeepsOthers
    <2> QED
      BY <2>1, <2>3 DEF Refusing
  <1>5. RefusedBy(q.rules, revoked', refused')
    BY <1>1, <1>4 DEF RefusedBy
  <1> QED
    BY <1>1, <1>5, KeepRefused

(* Every step keeps Refused. *)
LEMMA StepRefused ==
    ASSUME MaxFaults = 0, Refused, [Next]_vars
    PROVE  Refused'
  <1>0. TypeOK' /\ NoFaults' /\ RefusedBy(disk.rules, revoked, refused)
    BY StepTyped, FaultsStayZero, ApprovalsAssumption DEF Refused
  <1>1. ASSUME NEW t \in Tasks, Answer(t) PROVE Refused'
    BY <1>0, <1>1, RequestRefused DEF Answer
  <1>2. ASSUME NEW r \in late, AnswerNobody(r) PROVE Refused'
    BY <1>0, <1>2, RequestRefused DEF AnswerNobody
  <1>3. ASSUME NEW a \in mem.pending, Explain(a) PROVE Refused'
    <2>1. up /\ Keep(mem) /\ UNCHANGED <<revoked, refused, clock>>
      BY <1>3 DEF Explain, counts, history
    <2> QED
      BY <1>0, <2>1, KeepRefused DEF Refused
  <1>4. ASSUME NEW a \in mem.pending, NEW d \in {"allow", "deny"}, NEW s \in Scopes,
               Resolve(a, d, s)
        PROVE  Refused'
    BY <1>0, <1>4, ResolveRefused
  <1>5. ASSUME NEW t \in Tasks, Revoke(t) PROVE Refused'
    BY <1>0, <1>5, RevokeRefused
  <1>6. ASSUME Expire PROVE Refused'
    <2> DEFINE old == {a \in mem.pending : clock >= a.made + PendingLife}
    <2> DEFINE kept == [mem EXCEPT
                  !.pending = @ \ old,
                  !.resolved = {a \in @ : a.made + ResolvedLife > clock},
                  !.once = {a \in @ : a.made + ResolvedLife > clock}]
    <2>1. /\ up /\ UNCHANGED <<up, revoked, refused, clock>>
          /\ \/ mem' = kept /\ UNCHANGED <<disk, faults>>
             \/ Keep(kept)
      BY <1>6 DEF Expire, counts
    <2>2. kept.rules = mem.rules
      BY DEF Refused, TypeOK, Queue
    <2> HIDE DEF kept
    <2>3. CASE Keep(kept)
      BY <1>0, <2>1, <2>2, <2>3, KeepRefused DEF Refused
    <2>4. CASE mem' = kept /\ UNCHANGED <<disk, faults>>
      BY <1>0, <2>1, <2>2, <2>4 DEF Refused
    <2> QED
      BY <2>1, <2>3, <2>4
  <1>7. ASSUME UNCHANGED <<mem, disk, up, revoked, refused>>, clock' <= MaxClock
        PROVE  Refused'
    BY <1>0, <1>7 DEF Refused
  <1>8. ASSUME NEW t \in Tasks,
               (\E c \in Calls : Call(t, c)) \/ Run(t) \/ Report(t) \/ GiveUp(t)
        PROVE  Refused'
    BY <1>7, <1>8 DEF Call, Run, Report, GiveUp, history, counts, Refused
  <1>9. ASSUME Tick PROVE Refused'
    <2>1. clock' <= MaxClock
      BY <1>9, ApprovalsAssumption DEF Tick, Refused, TypeOK, ApprovalsAssumption
    <2> QED
      BY <1>7, <1>9, <2>1 DEF Tick, history
  <1>10. ASSUME Crash PROVE Refused'
    BY <1>0, <1>10 DEF Crash, Refused, history
  <1>11. ASSUME Restart PROVE Refused'
    BY <1>0, <1>11 DEF Restart, Refused, history, counts
  <1>12. ASSUME UNCHANGED vars PROVE Refused'
    BY <1>7, <1>12 DEF vars, history, counts, Refused
  <1> QED
    BY <1>1, <1>2, <1>3, <1>4, <1>5, <1>6, <1>8, <1>9, <1>10, <1>11, <1>12 DEF Next

(* An irreversible request that the human refused for the task is not allowed. *)
LEMMA RefusedIsDenied ==
    ASSUME Refused, NEW t \in Tasks \ revoked, NEW c \in Calls, c.irr,
           <<t, c.ask>> \in refused, NEW verdict, Request(t, c, verdict)
    PROVE  verdict # "allow"
  <1>1. PICK i \in 1 .. Len(mem.rules) : Refuses(mem.rules[i], t, c.ask)
    BY DEF Refused, RefusedBy, Refusing, Request, Asks
  <1>2. i \in DOMAIN mem.rules
    BY <1>1 DEF Refused, TypeOK, Queue
  <1>3. Covers(mem.rules[i], t, c.ask)
    BY <1>1, ApprovalsAssumption DEF Covers, Refuses, NoEnd, Refused, TypeOK, ApprovalsAssumption
  <1>4. i \in Applicable(t, c)
    BY <1>1, <1>2, <1>3 DEF Applicable, Refuses
  <1>5. ASSUME RuleDecides(t, c, verdict) PROVE verdict # "allow"
    BY <1>5 DEF RuleDecides, Applicable
  <1>6. ASSUME Ask(t, c, verdict) PROVE verdict # "allow"
    BY <1>6 DEF Ask
  <1> QED
    BY <1>4, <1>5, <1>6 DEF Request, OnceDecides

(* The step of IrreversibleRefusalStands. *)
LEMMA RefusedStep ==
    ASSUME Refused, [Next]_vars, NEW t \in Tasks \ revoked,
           call[t].at = "asking", call[t].c.irr, <<t, call[t].c.ask>> \in refused
    PROVE  call'[t].at # "allow"
  <1>0. call \in [Tasks -> Standing] /\ call[t] # Idle /\ call[t].c \in Calls
    BY DEF Refused, TypeOK, Standing, Idle
  <1>1. ASSUME NEW u \in Tasks, Answer(u) PROVE call'[t].at # "allow"
    <2>1. PICK verdict \in {"allow", "deny", "pending"} :
              /\ Request(u, call[u].c, verdict)
              /\ call' = [call EXCEPT ![u] = [at |-> verdict, c |-> @.c]]
      BY <1>1 DEF Answer
    <2>2. CASE u = t
      <3>1. verdict # "allow"
        BY <1>0, <2>1, <2>2, RefusedIsDenied
      <3> QED
        BY <1>0, <2>1, <2>2, <3>1
    <2>3. CASE u # t
      BY <1>0, <2>1, <2>3
    <2> QED
      BY <2>2, <2>3
  <1>2. ASSUME NEW u \in Tasks,
               (\E c \in Calls : Call(u, c)) \/ Run(u) \/ Report(u) \/ GiveUp(u)
        PROVE  call'[t].at # "allow"
    BY <1>0, <1>2 DEF Call, Run, Report, GiveUp, Idle
  <1>3. ASSUME Crash PROVE call'[t].at # "allow"
    BY <1>0, <1>3 DEF Crash, Idle
  <1>4. ASSUME call' = call PROVE call'[t].at # "allow"
    BY <1>4
  <1>5. ASSUME NEW r \in late, AnswerNobody(r) PROVE call' = call
    BY <1>5 DEF AnswerNobody
  <1>6. ASSUME NEW a \in mem.pending, NEW d \in {"allow", "deny"}, NEW s \in Scopes,
               Resolve(a, d, s)
        PROVE  call' = call
    BY <1>6 DEF Resolve, caller
  <1>7. ASSUME NEW u \in Tasks, Revoke(u) PROVE call' = call
    BY <1>7 DEF Revoke, caller
  <1>8. ASSUME NEW a \in mem.pending, Explain(a) PROVE call' = call
    BY <1>8 DEF Explain, caller
  <1>9. Expire \/ Tick \/ Restart \/ UNCHANGED vars => call' = call
    BY DEF Expire, Tick, Restart, vars, caller
  <1> QED
    BY <1>1, <1>2, <1>3, <1>4, <1>5, <1>6, <1>7, <1>8, <1>9 DEF Next

(***************************************************************************)
(* When every save succeeds, an irreversible call that the human refused   *)
(* for the whole task is not allowed while the task lives, whatever the    *)
(* human allowed before and whatever crashes happen (request looks at the  *)
(* rules before the decisions "once", and resolve saves the rule).         *)
(***************************************************************************)
THEOREM RefusalsStay ==
    ASSUME MaxFaults = 0
    PROVE  Spec => IrreversibleRefusalStands
  <1>1. Init => Refused
    <2> SUFFICES ASSUME Init PROVE Refused
      OBVIOUS
    <2>1. TypeOK
      BY InitTyped, ApprovalsAssumption
    <2> QED
      BY <2>1, ApprovalsAssumption DEF Init, Refused, RefusedBy, NoFaults, ApprovalsAssumption
  <1>2. Refused /\ [Next]_vars => Refused'
    BY StepRefused
  <1>3. Refused /\ [Next]_vars
            => [\A t \in Tasks \ revoked :
                    call[t].at = "asking" /\ call[t].c.irr => ~ Overruled(t)]_vars
    BY RefusedStep DEF Overruled
  <1> QED
    BY <1>1, <1>2, <1>3, PTL DEF Spec, IrreversibleRefusalStands

===============================================================================
