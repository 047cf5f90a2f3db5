----------------------------- MODULE BrokerProofs -----------------------------
(***************************************************************************)
(* What holds of the broker for every number of tokens, subjects, grants,  *)
(* crashes and failed writes.  The invariant says what is on disk for an   *)
(* answered revocation and what the memory makes of it, and that a chain   *)
(* of parents is closed, narrowing and known to the broker.                *)
(***************************************************************************)
EXTENDS Broker, TLAPS

(* The chain above a token is signed, and its parent is part of it. *)
ChainClosed ==
    /\ issued \subseteq signed
    /\ \A t \in signed :
        /\ token[t].above \subseteq signed
        /\ token[t].parent # NoToken => token[t].parent \in token[t].above

(* Every grant is covered by a grant of each token above. *)
ChainNarrows ==
    \A t \in signed : \A a \in token[t].above : \A g \in token[t].grants :
        Covered(g, token[a].grants)

(* An answered revocation is durable, under its own name or in a line that *)
(* stops every start; a running broker has it in memory.                   *)
Durable ==
    /\ inscribed \subseteq lines \ unsynced \/ Glued \in lines \ unsynced
    /\ capd = "up" => inscribed \subseteq revoked
    /\ writing # NoToken => capd = "up" /\ writing \in revoked

IInv == TypeOK /\ ChainClosed /\ ChainKnown /\ ChainNarrows /\ HeldWithinParent /\ Durable

-----------------------------------------------------------------------------

(* Signing a record changes the record of one token that was not signed. *)
LEMMA IssuedType ==
    ASSUME BrokerAssumption, TypeOK, NEW t \in Tokens, NEW r \in Record, Issue(t, r)
    PROVE  /\ token' \in [Tokens -> Record]
           /\ signed' \in SUBSET Tokens /\ issued' \in SUBSET Tokens
           /\ t \notin signed
           /\ signed' = signed \cup {t} /\ issued' = issued \cup {t}
           /\ token'[t] = r
           /\ \A s \in signed : token'[s] = token[s]
  BY DEF TypeOK, Issue

(* The record that a mint signs. *)
LEMMA MintedRecord ==
    ASSUME BrokerAssumption, TypeOK, NEW t \in Tokens, NEW s \in Subjects, NEW ttl \in TTLs,
           NEW spawn \in Spawns, NEW requested \in SUBSET Grants,
           Mint(t, s, requested, spawn, ttl)
    PROVE  \E r \in Record : Issue(t, r) /\ r.above = {} /\ r.parent = NoToken
  <1>1. DEFINE granted == {g \in requested : Covered(g, Ceiling)}
  <1>2. DEFINE r == [sub |-> s, parent |-> NoToken, above |-> {}, grants |-> granted,
                     spawn |-> IF SpawnCovered(spawn, CeilingSpawn) THEN spawn ELSE NoSpawn,
                     born |-> clock, exp |-> clock + ttl * Second]
  <1>3. Issue(t, r)
    BY DEF Mint
  <1>4. clock \in Nat /\ clock + ttl * Second \in Nat
    BY DEF TypeOK, BrokerAssumption
  <1>5. (IF SpawnCovered(spawn, CeilingSpawn) THEN spawn ELSE NoSpawn) \in Spawns
    BY DEF Spawns
  <1>6. granted \in SUBSET Grants
    OBVIOUS
  <1>7. r \in Record
    BY <1>4, <1>5, <1>6 DEF Record
  <1> QED
    BY <1>3, <1>7

(* Whole seconds, and lifetimes no longer than them, do not pass what they were counted from. *)
LEMMA WholeSeconds ==
    ASSUME NEW left \in Nat, NEW second \in Nat \ {0}, left >= second
    PROVE  /\ left \div second \in Nat
           /\ \A n \in Nat : n <= left \div second => n * second <= left
  <1>1. left \div second \in Nat /\ (left \div second) * second <= left
    OBVIOUS
  <1>2. ASSUME NEW n \in Nat, n <= left \div second
        PROVE  n * second <= (left \div second) * second
    BY <1>1, <1>2
  <1>3. ASSUME NEW n \in Nat, n <= left \div second
        PROVE  n * second <= left
    <2>1. n * second \in Nat /\ (left \div second) * second \in Nat
      BY <1>1
    <2> QED
      BY <1>1, <1>2, <1>3, <2>1
  <1> QED
    BY <1>1, <1>3

(* The record that a delegation signs, and what it owes to its parent. *)
LEMMA DelegatedRecord ==
    ASSUME BrokerAssumption, TypeOK, NEW p \in Tokens, NEW t \in Tokens, NEW s \in Subjects,
           NEW ttl \in TTLs, NEW spawn \in Spawns, NEW requested \in SUBSET Grants,
           Delegate(p, t, s, requested, spawn, ttl)
    PROVE  /\ p \in issued
           /\ \E r \in Record :
                /\ Issue(t, r)
                /\ r.above = token[p].above \cup {p}
                /\ r.parent = p
                /\ \A g \in r.grants : Covered(g, token[p].grants)
                /\ r.born + Second <= token[p].exp => r.exp <= token[p].exp
                /\ r.exp <= token[p].exp \/ r.exp <= r.born + Second
  <1> DEFINE r == [sub |-> s, parent |-> p, above |-> token[p].above \cup {p},
                   grants |-> requested, spawn |-> spawn, born |-> clock,
                   exp |-> clock + Shorter(ttl, Remaining(p)) * Second]
  <1>1. Issue(t, r) /\ p \in issued /\ \A g \in requested : Covered(g, token[p].grants)
    BY DEF Delegate, MayDelegate
  <1>2. token[p] \in Record
    BY DEF TypeOK
  <1>3. token[p].exp \in Nat /\ token[p].above \in SUBSET Tokens /\ clock \in Nat /\ ttl \in Nat
    BY <1>2 DEF Record, TypeOK, BrokerAssumption
  <1>4. /\ clock + Shorter(ttl, Remaining(p)) * Second \in Nat
        /\ clock + Second <= token[p].exp
              => clock + Shorter(ttl, Remaining(p)) * Second <= token[p].exp
    <2>1. CASE token[p].exp >= clock + Second
      <3>1. token[p].exp - clock \in Nat /\ token[p].exp - clock >= Second
        BY <1>3, <2>1 DEF BrokerAssumption
      <3>2. Shorter(ttl, Remaining(p)) \in Nat
            /\ Shorter(ttl, Remaining(p)) <= (token[p].exp - clock) \div Second
        BY <1>3, <2>1, <3>1, WholeSeconds DEF Shorter, Remaining, BrokerAssumption
      <3>3. Shorter(ttl, Remaining(p)) * Second \in Nat
            /\ Shorter(ttl, Remaining(p)) * Second <= token[p].exp - clock
        BY <3>1, <3>2, WholeSeconds DEF BrokerAssumption
      <3> QED
        BY <1>3, <3>3
    <2>2. CASE ~ token[p].exp >= clock + Second
      <3>1. Shorter(ttl, Remaining(p)) \in Nat
        BY <1>3, <2>2 DEF Shorter, Remaining
      <3>2. Shorter(ttl, Remaining(p)) * Second \in Nat
        BY <3>1 DEF BrokerAssumption
      <3> QED
        BY <1>3, <2>2, <3>2 DEF BrokerAssumption
    <2> QED
      BY <2>1, <2>2
  <1>5. \/ clock + Shorter(ttl, Remaining(p)) * Second <= token[p].exp
        \/ clock + Shorter(ttl, Remaining(p)) * Second <= clock + Second
    <2>1. CASE clock + Second <= token[p].exp
      BY <1>4, <2>1
    <2>2. CASE ~ clock + Second <= token[p].exp
      <3>1. Shorter(ttl, Remaining(p)) = 1
        BY <1>3, <2>2 DEF Shorter, Remaining, BrokerAssumption
      <3> QED
        BY <1>3, <3>1 DEF BrokerAssumption
    <2> QED
      BY <2>1, <2>2
  <1>6. r \in Record
    BY <1>3, <1>4 DEF Record
  <1> QED
    BY <1>1, <1>4, <1>5, <1>6

-----------------------------------------------------------------------------
(* The chains *)

Chains == ChainClosed /\ ChainKnown /\ ChainNarrows /\ HeldWithinParent

(* A root token has no chain above it. *)
LEMMA MintKeepsChains ==
    ASSUME BrokerAssumption, TypeOK, Chains, NEW t \in Tokens, NEW r \in Record,
           Issue(t, r), r.above = {}, r.parent = NoToken
    PROVE  Chains'
  <1>1. /\ signed' = signed \cup {t} /\ issued' = issued \cup {t} /\ t \notin signed
        /\ token'[t] = r /\ \A s \in signed : token'[s] = token[s]
    BY IssuedType
  <1>2. \A s \in signed : token[s].above \subseteq signed
    BY DEF Chains, ChainClosed
  <1>3. ChainClosed'
    BY <1>1 DEF Chains, ChainClosed
  <1>4. ChainKnown'
    BY <1>1 DEF Chains, ChainClosed, ChainKnown
  <1>5. ChainNarrows'
    BY <1>1, <1>2 DEF Chains, ChainNarrows, Covered
  <1>6. AncestorsOutlive'
    <2> SUFFICES ASSUME NEW u \in signed', NEW a \in token'[u].above, InTime(u)'
                 PROVE  token'[u].exp <= token'[a].exp
      BY DEF AncestorsOutlive
    <2>1. u \in signed /\ a \in signed /\ a \in token[u].above
      BY <1>1, <1>2
    <2>2. InTime(u)
      BY <1>1, <1>2, <2>1 DEF Chains, ChainClosed, InTime
    <2>3. token[u].exp <= token[a].exp
      BY <2>1, <2>2 DEF Chains, HeldWithinParent, AncestorsOutlive
    <2> QED
      BY <1>1, <2>1, <2>3
  <1>7. SecondAtMost'
    BY <1>1 DEF Chains, ChainClosed, HeldWithinParent, SecondAtMost
  <1> QED
    BY <1>3, <1>4, <1>5, <1>6, <1>7 DEF Chains, HeldWithinParent

(* A delegated token has its parent's chain and its parent above it. *)
LEMMA DelegateKeepsChains ==
    ASSUME BrokerAssumption, TypeOK, Chains, NEW t \in Tokens, NEW r \in Record,
           NEW p \in issued, Issue(t, r), r.above = token[p].above \cup {p}, r.parent = p,
           \A g \in r.grants : Covered(g, token[p].grants),
           r.born + Second <= token[p].exp => r.exp <= token[p].exp,
           r.exp <= token[p].exp \/ r.exp <= r.born + Second
    PROVE  Chains'
  <1>1. /\ signed' = signed \cup {t} /\ issued' = issued \cup {t} /\ t \notin signed
        /\ token'[t] = r /\ \A s \in signed : token'[s] = token[s]
    BY IssuedType
  <1>2. \A s \in signed : token[s].above \subseteq signed
    BY DEF Chains, ChainClosed
  <1>3. p \in signed /\ r.above \subseteq signed /\ t \notin r.above
    BY <1>1, <1>2 DEF Chains, ChainClosed
  <1>4. ChainClosed'
    BY <1>1, <1>3 DEF Chains, ChainClosed
  <1>5. ChainKnown'
    BY <1>1, <1>3 DEF Chains, ChainClosed, ChainKnown
  <1>6. ChainNarrows'
    <2> SUFFICES ASSUME NEW u \in signed', NEW a \in token'[u].above, NEW g \in token'[u].grants
                 PROVE  Covered(g, token'[a].grants)
      BY DEF ChainNarrows, Covered
    <2>1. CASE u \in signed
      BY <1>1, <1>2, <2>1 DEF Chains, ChainNarrows
    <2>2. CASE u = t
      <3>1. token'[a] = token[a] /\ a \in token[p].above \cup {p} /\ g \in r.grants
        BY <1>1, <1>3, <2>2
      <3>2. PICK q \in token[p].grants : g \subseteq q
        BY <3>1 DEF Covered
      <3>3. CASE a = p
        BY <3>1, <3>2, <3>3 DEF Covered
      <3>4. CASE a \in token[p].above
        <4>1. PICK h \in token[a].grants : q \subseteq h
          BY <1>3, <3>4 DEF Chains, ChainNarrows, Covered
        <4> QED
          BY <3>1, <3>2, <4>1 DEF Covered
      <3> QED
        BY <3>1, <3>3, <3>4
    <2> QED
      BY <1>1, <2>1, <2>2
  <1>7. AncestorsOutlive'
    <2> SUFFICES ASSUME NEW u \in signed', NEW a \in token'[u].above, InTime(u)'
                 PROVE  token'[u].exp <= token'[a].exp
      BY DEF AncestorsOutlive
    <2>1. CASE u \in signed
      <3>1. a \in signed /\ a \in token[u].above
        BY <1>1, <1>2, <2>1
      <3>2. InTime(u)
        BY <1>1, <1>2, <2>1 DEF Chains, ChainClosed, InTime
      <3> QED
        BY <1>1, <2>1, <3>1, <3>2 DEF Chains, HeldWithinParent, AncestorsOutlive
    <2>2. CASE u = t
      <3>1. p # NoToken /\ r.exp <= token[p].exp
        BY <1>1, <1>3, <2>2 DEF BrokerAssumption, TypeOK, InTime
      <3>2. InTime(p)
        BY <1>1, <1>2, <1>3, <2>2 DEF Chains, ChainClosed, InTime
      <3>3. a \in token[p].above \cup {p} /\ a \in signed
        BY <1>1, <1>3, <2>2
      <3>4. token[p].exp <= token[a].exp
        <4>1. CASE a \in token[p].above
          BY <1>3, <3>2, <4>1 DEF Chains, HeldWithinParent, AncestorsOutlive
        <4>2. CASE a = p
          BY <4>2, <1>3 DEF TypeOK, Record
        <4> QED
          BY <3>3, <4>1, <4>2
      <3>5. token[p].exp \in Nat /\ token[a].exp \in Nat /\ r.exp \in Nat
        BY <1>3, <3>3 DEF TypeOK, Record
      <3> QED
        BY <1>1, <2>2, <3>1, <3>3, <3>4, <3>5
    <2> QED
      BY <1>1, <2>1, <2>2
  <1>8. SecondAtMost'
    <2>1. \A u \in signed : token'[u] = token[u]
              /\ (token[u].parent # NoToken => token'[token[u].parent] = token[token[u].parent])
      BY <1>1, <1>2 DEF Chains, ChainClosed
    <2>2. token'[t].parent # NoToken => token'[token'[t].parent] = token[p]
      BY <1>1, <1>3
    <2> QED
      BY <1>1, <1>3, <2>1, <2>2 DEF Chains, HeldWithinParent, SecondAtMost
  <1> QED
    BY <1>4, <1>5, <1>6, <1>7, <1>8 DEF Chains, HeldWithinParent

(* A step that signs nothing keeps the chains, whether the broker forgets or not. *)
LEMMA ChainsUntouched ==
    ASSUME Chains, token' = token, signed' = signed, issued' = issued \/ issued' = {}
    PROVE  Chains'
  <1>1. ChainClosed'
    BY DEF Chains, ChainClosed
  <1>2. ChainKnown'
    BY DEF Chains, ChainKnown
  <1>3. ChainNarrows'
    BY DEF Chains, ChainNarrows, Covered
  <1>4. HeldWithinParent'
    BY DEF Chains, HeldWithinParent, AncestorsOutlive, SecondAtMost, InTime
  <1> QED
    BY <1>1, <1>2, <1>3, <1>4 DEF Chains

-----------------------------------------------------------------------------
(* The register *)

(* A line written in part takes no synchronised line away. *)
LEMMA PartKeepsDurableLines ==
    ASSUME BrokerAssumption, TypeOK, writing # NoToken, WrittenInPart
    PROVE  /\ lines' \in SUBSET (Subjects \cup {Glued})
           /\ unsynced' \in SUBSET (Subjects \cup {Glued})
           /\ torn' \in BOOLEAN
           /\ lines \ unsynced \subseteq lines' \ unsynced'
  <1> USE DEF WrittenInPart, TypeOK, register, Line
  <1>1. CASE UNCHANGED register
    BY <1>1
  <1>2. CASE torn' = TRUE /\ UNCHANGED <<lines, unsynced>>
    BY <1>2
  <1>3. CASE /\ lines' = lines \cup {Line}
             /\ unsynced' = unsynced \cup ({Line} \ lines)
             /\ torn' = FALSE
    BY <1>3 DEF BrokerAssumption
  <1> QED
    BY <1>1, <1>2, <1>3

-----------------------------------------------------------------------------
(* The invariant *)

(* The invariant holds at the start. *)
LEMMA InitHolds == ASSUME BrokerAssumption, Init PROVE IInv
  <1>1. TypeOK
    BY DEF Init, TypeOK, Blank, Record, Spawns
  <1>2. ChainClosed /\ ChainKnown /\ ChainNarrows /\ HeldWithinParent /\ Durable
    BY DEF Init, ChainClosed, ChainKnown, ChainNarrows, HeldWithinParent, AncestorsOutlive,
           SecondAtMost, Durable
  <1> QED
    BY <1>1, <1>2 DEF IInv

(* Every step keeps the invariant. *)
LEMMA StepHolds == ASSUME BrokerAssumption, IInv, [Next]_vars PROVE IInv'
  <1> SUFFICES TypeOK' /\ Chains' /\ Durable'
    BY DEF IInv, Chains
  <1>0. TypeOK /\ Chains /\ Durable
    BY DEF IInv, Chains
  <1>1. ASSUME NEW t \in Tokens, NEW s \in Subjects, NEW ttl \in TTLs, NEW spawn \in Spawns,
               NEW requested \in SUBSET Grants \ {{}}, Mint(t, s, requested, spawn, ttl)
        PROVE  TypeOK' /\ Chains' /\ Durable'
    <2>1. PICK r \in Record : Issue(t, r) /\ r.above = {} /\ r.parent = NoToken
      BY <1>0, <1>1, MintedRecord
    <2>2. UNCHANGED <<revoked, register, capd, writing, clock, crashes, faults, history>>
      BY <1>1 DEF Mint
    <2>3. TypeOK'
      BY <1>0, <2>1, <2>2, IssuedType DEF TypeOK, register, history
    <2>4. Chains'
      BY <1>0, <2>1, MintKeepsChains
    <2>5. Durable'
      BY <1>0, <2>2 DEF Durable, register, history
    <2> QED
      BY <2>3, <2>4, <2>5
  <1>2. ASSUME NEW t \in Tokens, NEW s \in Subjects, NEW ttl \in TTLs, NEW spawn \in Spawns,
               NEW requested \in SUBSET Grants \ {{}}, NEW p \in Tokens,
               Delegate(p, t, s, requested, spawn, ttl)
        PROVE  TypeOK' /\ Chains' /\ Durable'
    <2>1. p \in issued
      BY <1>0, <1>2, DelegatedRecord
    <2>2. PICK r \in Record :
              /\ Issue(t, r) /\ r.above = token[p].above \cup {p} /\ r.parent = p
              /\ \A g \in r.grants : Covered(g, token[p].grants)
              /\ r.born + Second <= token[p].exp => r.exp <= token[p].exp
              /\ r.exp <= token[p].exp \/ r.exp <= r.born + Second
      BY <1>0, <1>2, DelegatedRecord
    <2>3. UNCHANGED <<revoked, register, capd, writing, clock, crashes, faults, history>>
      BY <1>2 DEF Delegate
    <2>4. TypeOK'
      BY <1>0, <2>2, <2>3, IssuedType DEF TypeOK, register, history
    <2>5. Chains'
      BY <1>0, <2>1, <2>2, DelegateKeepsChains
    <2>6. Durable'
      BY <1>0, <2>3 DEF Durable, register, history
    <2> QED
      BY <2>4, <2>5, <2>6
  <1>3. ASSUME NEW s \in Subjects, Revoke(s) PROVE TypeOK' /\ Chains' /\ Durable'
    <2>1. TypeOK'
      BY <1>0, <1>3 DEF Revoke, Ready, TypeOK, tokens, register, history
    <2>2. Chains'
      BY <1>0, <1>3, ChainsUntouched DEF Revoke, tokens
    <2>3. Durable'
      BY <1>0, <1>3 DEF Revoke, Ready, Durable, register, history
    <2> QED
      BY <2>1, <2>2, <2>3
  <1>4. ASSUME NEW s \in Subjects, RevokeAgain(s) PROVE TypeOK' /\ Chains' /\ Durable'
    <2>1. TypeOK'
      BY <1>0, <1>4 DEF RevokeAgain, TypeOK, tokens, register
    <2>2. Chains'
      BY <1>0, <1>4, ChainsUntouched DEF RevokeAgain, tokens
    <2>3. Durable'
      BY <1>0, <1>4 DEF RevokeAgain, Ready, Durable, register
    <2> QED
      BY <2>1, <2>2, <2>3
  <1>5. CASE Inscribe
    <2>1. writing \in Subjects /\ Line \in Subjects \cup {Glued}
      BY <1>0, <1>5 DEF Inscribe, TypeOK, Line
    <2>2. TypeOK'
      BY <1>0, <1>5, <2>1 DEF Inscribe, TypeOK, tokens
    <2>3. Chains'
      BY <1>0, <1>5, ChainsUntouched DEF Inscribe, tokens
    <2>4. Durable'
      <3>1. Line \in lines' \ unsynced' /\ lines \ unsynced \subseteq lines' \ unsynced'
        BY <1>5 DEF Inscribe
      <3>2. inscribed' = inscribed \cup {writing} /\ writing' = NoToken
        BY <1>5 DEF Inscribe
      <3>3. Line = Glued \/ Line = writing
        BY DEF Line
      <3>4. inscribed' \subseteq revoked' /\ capd' = capd
        BY <1>0, <1>5, <3>2 DEF Inscribe, Durable
      <3> QED
        BY <1>0, <3>1, <3>2, <3>3, <3>4 DEF Durable
    <2> QED
      BY <2>2, <2>3, <2>4
  <1>6. CASE InscribeFails
    <2>1. /\ lines' \in SUBSET (Subjects \cup {Glued}) /\ unsynced' \in SUBSET (Subjects \cup {Glued})
          /\ torn' \in BOOLEAN
          /\ lines \ unsynced \subseteq lines' \ unsynced'
      BY <1>0, <1>6, PartKeepsDurableLines DEF InscribeFails
    <2>2. TypeOK'
      BY <1>0, <1>6, <2>1 DEF InscribeFails, TypeOK, tokens, history, BrokerAssumption
    <2>3. Chains'
      BY <1>0, <1>6, ChainsUntouched DEF InscribeFails, tokens
    <2>4. Durable'
      BY <1>0, <1>6, <2>1 DEF InscribeFails, Durable, history
    <2> QED
      BY <2>2, <2>3, <2>4
  <1>7. CASE Crash
    <2>1. /\ lines' \in SUBSET (Subjects \cup {Glued}) /\ unsynced' \in SUBSET (Subjects \cup {Glued})
          /\ torn' \in BOOLEAN
          /\ lines \ unsynced \subseteq lines' \ unsynced'
      <3>1. CASE writing # NoToken
        BY <1>0, <1>7, <3>1, PartKeepsDurableLines DEF Crash
      <3>2. CASE writing = NoToken
        BY <1>0, <1>7, <3>2 DEF Crash, TypeOK, register
      <3> QED
        BY <3>1, <3>2
    <2>2. TypeOK'
      BY <1>0, <1>7, <2>1 DEF Crash, Stop, TypeOK, history, BrokerAssumption
    <2>3. Chains'
      BY <1>0, <1>7, ChainsUntouched DEF Crash, Stop
    <2>4. Durable'
      BY <1>0, <1>7, <2>1 DEF Crash, Stop, Durable, history
    <2> QED
      BY <2>2, <2>3, <2>4
  <1>8. CASE PowerLoss
    <2>1. /\ lines' \in SUBSET (Subjects \cup {Glued}) /\ unsynced' = {}
          /\ lines \ unsynced \subseteq lines' /\ torn' = torn
      BY <1>0, <1>8 DEF PowerLoss, TypeOK
    <2>2. TypeOK'
      BY <1>0, <1>8, <2>1 DEF PowerLoss, Stop, TypeOK, history, BrokerAssumption
    <2>3. Chains'
      BY <1>0, <1>8, ChainsUntouched DEF PowerLoss, Stop
    <2>4. Durable'
      BY <1>0, <1>8, <2>1 DEF PowerLoss, Stop, Durable, history
    <2> QED
      BY <2>2, <2>3, <2>4
  <1>9. CASE Start
    <2>1. UNCHANGED <<lines, unsynced, writing>> /\ UNCHANGED history
      BY <1>9 DEF Start
    <2>2. TypeOK'
      BY <1>0, <1>9 DEF Start, TypeOK, tokens, history
    <2>3. Chains'
      BY <1>0, <1>9, ChainsUntouched DEF Start, tokens
    <2>4. capd' = "up" => inscribed' \subseteq revoked'
      BY <1>0, <1>9 DEF Start, Durable, history
    <2>5. Durable'
      BY <1>0, <1>9, <2>1, <2>4 DEF Start, Durable, history
    <2> QED
      BY <2>2, <2>3, <2>5
  <1>10. CASE Tick
    <2>1. TypeOK'
      BY <1>0, <1>10 DEF Tick, TypeOK, tokens, register, history
    <2>2. Chains'
      BY <1>0, <1>10, ChainsUntouched DEF Tick, tokens
    <2>3. Durable'
      BY <1>0, <1>10 DEF Tick, Durable, register, history
    <2> QED
      BY <2>1, <2>2, <2>3
  <1>11. CASE UNCHANGED vars
    <2>1. TypeOK'
      BY <1>0, <1>11 DEF vars, TypeOK
    <2>2. Chains'
      BY <1>0, <1>11, ChainsUntouched DEF vars
    <2>3. Durable'
      BY <1>0, <1>11 DEF vars, Durable
    <2> QED
      BY <2>1, <2>2, <2>3
  <1> QED
    BY <1>1, <1>2, <1>3, <1>4, <1>5, <1>6, <1>7, <1>8, <1>9, <1>10, <1>11 DEF Next

(* The invariant holds in every behaviour. *)
LEMMA Invariance == Spec => []IInv
  <1>1. Init => IInv
    BY InitHolds, BrokerAssumption
  <1>2. IInv /\ [Next]_vars => IInv'
    BY StepHolds, BrokerAssumption
  <1> QED
    BY <1>1, <1>2, PTL DEF Spec

-----------------------------------------------------------------------------

(* The variables of the broker keep to their types. *)
THEOREM BrokerTypeCorrect == Spec => []TypeOK
  <1>1. IInv => TypeOK
    BY DEF IInv
  <1> QED
    BY <1>1, Invariance, PTL

(* A revocation answered by the call that wrote it holds for the subject and   *)
(* all its descendants, across every crash, power loss and restart: cap.revoke *)
(* and Revocations::ouvrir.                                                    *)
THEOREM RevocationsHold == Spec => []RevocationHolds
  <1>1. IInv => RevocationHolds
    <2> SUFFICES ASSUME IInv, NEW t \in signed, NEW target \in Targets, capd = "up",
                        NEW s \in Chain(t) \cap inscribed
                 PROVE  ~ Check(t, target)
      BY DEF RevocationHolds
    <2>1. s \in revoked
      BY DEF IInv, Durable
    <2>2. PICK a \in token[t].above \cup {t} : s = token[a].sub
      BY DEF Chain
    <2>3. HasRevokedAncestor(t)
      BY <2>1, <2>2 DEF HasRevokedAncestor
    <2> QED
      BY <2>3 DEF Check
  <1> QED
    BY <1>1, Invariance, PTL

(* No chain of delegations reaches a target that a token of the chain lacked: *)
(* the subset test of delegate against the direct parent is enough.           *)
THEOREM DelegationsNarrow == Spec => []DelegationNarrows
  <1>1. IInv => DelegationNarrows
    BY DEF IInv, ChainNarrows, Covered, DelegationNarrows, FindGrant
  <1> QED
    BY <1>1, Invariance, PTL

(* The broker remembers the whole chain above each token it remembers, so the *)
(* depth it counts is the depth of the chain.                                 *)
THEOREM ChainsKnown == Spec => []ChainKnown
  <1>1. IInv => ChainKnown
    BY DEF IInv
  <1> QED
    BY <1>1, Invariance, PTL

(* A chain delegated with at least a second left to each parent outlives   *)
(* none of its tokens, and a child of a parent with less than that, or     *)
(* expired, lives a second at most: the lifetime that delegate computes    *)
(* from the direct parent in whole seconds, and at least one.              *)
THEOREM LifetimesHeld == Spec => []HeldWithinParent
  <1>1. IInv => HeldWithinParent
    BY DEF IInv
  <1> QED
    BY <1>1, Invariance, PTL

===============================================================================
