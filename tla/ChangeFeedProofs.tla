--------------------------- MODULE ChangeFeedProofs ----------------------------
(****************************************************************************)
(* INV-S5 for any number of tenants, sessions, readers and ids, any page    *)
(* size, any hash of tenants onto lock keys, and both dialects.             *)
(*                                                                          *)
(* The argument: a session with uncommitted feed rows holds its tenant's    *)
(* ordering lock (LockInv), so two sessions of one tenant never hold        *)
(* uncommitted ids at once, so every uncommitted id is above every committed*)
(* one (NothingStranded). Cursors and high-water marks are committed ids    *)
(* (PositionInv), so nothing can later commit at or below them.             *)
(****************************************************************************)
EXTENDS ChangeFeed, FiniteSetTheorems, TLAPS

\* Ids are handed out from 1 upwards; every id in use has been handed out.
SeqInv ==
  /\ \A e \in feed : e.id > 0 /\ e.id <= seq
  /\ \A w \in Writers : tx[w] # NoTx =>
       \A e \in tx[w].entries : e.id > 0 /\ e.id <= seq /\ e.tenant = tx[w].tenant

\* A session about to insert, or with rows inserted, holds the ordering lock.
LockInv ==
  \A w \in Writers :
    (tx[w] # NoTx /\ (\/ tx[w].st = "locked"
                      \/ tx[w].entries # {}
                      \/ Dialect = "sqlite" /\ tx[w].st = "written"))
      => holder[OrderLock(tx[w].tenant)] = w

FiniteInv ==
  /\ IsFiniteSet(feed)
  /\ \A w \in Writers : tx[w] # NoTx => IsFiniteSet(tx[w].entries)

\* n is the start of the feed or the id of a committed entry of tenant t.
Position(t, n) == n = 0 \/ \E e \in feed : e.tenant = t /\ e.id = n

PositionInv ==
  \A r \in Readers : /\ Position(TenantOf[r], cursor[r])
                     /\ poll[r] # Idle => Position(TenantOf[r], poll[r].high)

GotInv == \A r \in Readers : \A i \in got[r] : i <= cursor[r]

IInv == TypeOK /\ SeqInv /\ LockInv /\ FiniteInv /\ NothingStranded /\ PositionInv /\ GotInv /\ ExactlyOnce
--------------------------------------------------------------------------------
USE ChangeFeedAssumption

LEMMA OrderLockType == ASSUME NEW t \in Tenants PROVE OrderLock(t) \in LockKeys
<1>1. AdvisoryKey[t] \in LockKeys
  OBVIOUS
<1> QED BY <1>1 DEF OrderLock

\* A page is a prefix of what lies after the cursor.
LEMMA PageIsPrefix ==
  ASSUME NEW r \in Readers, IsFiniteSet(feed), TypeOK,
         NEW e \in After(r), NEW f \in Read(r), e.id <= f.id
  PROVE  e \in Read(r)
<1> DEFINE B(x) == {y \in After(r) : y.id < x.id}
<1>1. IsFiniteSet(After(r))
  BY FS_Subset DEF After, Log!InScope
<1>2. e.id \in Nat /\ f.id \in Nat /\ (\A y \in After(r) : y.id \in Nat) /\ f \in After(r)
  BY DEF After, Read, Log!InScope, TypeOK, Log!Entry
<1>3. B(e) \subseteq B(f)
  BY <1>2
<1>4. IsFiniteSet(B(f)) /\ IsFiniteSet(B(e))
  BY <1>1, FS_Subset
<1>5. Cardinality(B(e)) <= Cardinality(B(f)) /\ Cardinality(B(e)) \in Nat /\ Cardinality(B(f)) \in Nat
  BY <1>3, <1>4, FS_Subset, FS_CardinalityType
<1>6. Cardinality(B(f)) < Limit
  BY DEF Read
<1> QED BY <1>5, <1>6 DEF Read

\* A short page is everything after the cursor.
LEMMA ShortPageIsAll ==
  ASSUME NEW r \in Readers, IsFiniteSet(feed), Cardinality(After(r)) < Limit
  PROVE  Read(r) = After(r)
<1>1. IsFiniteSet(After(r))
  BY FS_Subset DEF After, Log!InScope
<1>2. ASSUME NEW e \in After(r)
      PROVE  Cardinality({f \in After(r) : f.id < e.id}) < Limit
  <2> DEFINE B == {f \in After(r) : f.id < e.id}
  <2>1. B \subseteq After(r)
    OBVIOUS
  <2>2. IsFiniteSet(B) /\ Cardinality(B) <= Cardinality(After(r))
    BY <1>1, <2>1, FS_Subset
  <2>3. Cardinality(B) \in Nat /\ Cardinality(After(r)) \in Nat
    BY <1>1, <2>2, FS_CardinalityType
  <2> QED BY <2>2, <2>3
<1> QED BY <1>2 DEF Read
--------------------------------------------------------------------------------
LEMMA TypeStep == TypeOK /\ [Next]_vars => TypeOK'
<1> SUFFICES ASSUME TypeOK, [Next]_vars PROVE TypeOK'
  OBVIOUS
<1> USE DEF TypeOK
<1>1. ASSUME NEW w \in Writers, NEW t \in Tenants, Begin(w, t) PROVE TypeOK'
  BY <1>1 DEF Begin, Tx, readerVars
<1>2. ASSUME NEW w \in Writers, Write(w) PROVE TypeOK'
  <2>1. tx[w] \in Tx
    BY <1>2 DEF Write, NoTx
  <2>2. tx' \in [Writers -> Tx \cup {NoTx}]
    BY <1>2, <2>1 DEF Write, Tx
  <2>3. holder' \in [LockKeys -> Writers \cup {NoWriter}]
    BY <1>2, <2>1, OrderLockType DEF Write, Tx
  <2> QED BY <1>2, <2>2, <2>3 DEF Write, readerVars
<1>3. ASSUME NEW w \in Writers, serializeAppend(w) PROVE TypeOK'
  <2>1. tx[w] \in Tx
    BY <1>3 DEF serializeAppend, NoTx
  <2>2. tx' \in [Writers -> Tx \cup {NoTx}]
    BY <1>3, <2>1 DEF serializeAppend, Tx
  <2>3. holder' \in [LockKeys -> Writers \cup {NoWriter}]
    BY <1>3, <2>1, OrderLockType DEF serializeAppend, Tx
  <2> QED BY <1>3, <2>2, <2>3 DEF serializeAppend, readerVars
<1>4. ASSUME NEW w \in Writers, NEW key \in Keys, Append(w, key) PROVE TypeOK'
  <2>1. tx[w] \in Tx
    BY <1>4 DEF Append, NoTx
  <2>2. [id |-> seq + 1, tenant |-> tx[w].tenant, key |-> key] \in Log!Entry
    BY <2>1 DEF Tx, Log!Entry
  <2>3. tx' \in [Writers -> Tx \cup {NoTx}]
    BY <1>4, <2>1, <2>2 DEF Append, Tx
  <2> QED BY <1>4, <2>3 DEF Append, readerVars
<1>5. ASSUME NEW w \in Writers, Commit(w) PROVE TypeOK'
  <2>1. tx[w] \in Tx
    BY <1>5 DEF Commit, NoTx
  <2> QED BY <1>5, <2>1 DEF Commit, Release, readerVars, Tx
<1>6. ASSUME NEW w \in Writers, Rollback(w) PROVE TypeOK'
  BY <1>6 DEF Rollback, Release, readerVars
<1>7. ASSUME NEW r \in Readers, HighWater(r) PROVE TypeOK'
  BY <1>7 DEF HighWater
<1>8. ASSUME NEW r \in Readers, readChanges(r) PROVE TypeOK'
  <2>1. poll[r].high \in Nat
    BY <1>8 DEF readChanges
  <2>4. \A e \in Read(r) : e.id \in Nat
    BY DEF Read, After, Log!InScope, Log!Entry
  <2>2. Log!Ids(Read(r)) \subseteq Nat
    BY <2>4 DEF Log!Ids
  <2>3. got' \in [Readers -> SUBSET Nat]
    BY <1>8, <2>2 DEF readChanges
  <2>5. cursor' \in [Readers -> Nat]
    BY <1>8, <2>1, <2>4 DEF readChanges, Resume
  <2>6. poll' \in [Readers -> [st : {"serving"}, high : Nat] \cup {Idle}]
    BY <1>8 DEF readChanges
  <2> QED BY <1>8, <2>3, <2>5, <2>6 DEF readChanges
<1>9. ASSUME NEW r \in Readers, LoseAnswer(r) PROVE TypeOK'
  BY <1>9 DEF LoseAnswer
<1>10. CASE UNCHANGED vars
  BY <1>10 DEF vars
<1> QED BY <1>1, <1>2, <1>3, <1>4, <1>5, <1>6, <1>7, <1>8, <1>9, <1>10 DEF Next

\* What a committing session adds to the feed: its rows, all of one tenant.
LEMMA SeqStep == TypeOK /\ SeqInv /\ [Next]_vars => SeqInv'
<1> SUFFICES ASSUME TypeOK, SeqInv, [Next]_vars PROVE SeqInv'
  OBVIOUS
<1> USE DEF SeqInv
<1>0. seq \in Nat /\ (\A e \in feed : e.id \in Nat)
  BY DEF TypeOK, Log!Entry
<1>1. ASSUME NEW w \in Writers, NEW t \in Tenants, Begin(w, t) PROVE SeqInv'
  BY <1>1 DEF Begin, TypeOK
<1>2. ASSUME NEW w \in Writers, Write(w) PROVE SeqInv'
  BY <1>2 DEF Write, TypeOK, NoTx, Tx
<1>3. ASSUME NEW w \in Writers, serializeAppend(w) PROVE SeqInv'
  BY <1>3 DEF serializeAppend, TypeOK, NoTx, Tx
<1>4. ASSUME NEW w \in Writers, NEW key \in Keys, Append(w, key) PROVE SeqInv'
  <2>1. tx[w] \in Tx /\ tx[w] # NoTx
    BY <1>4 DEF Append, TypeOK, NoTx
  <2>2. \A v \in Writers \ {w} : tx'[v] = tx[v]
    BY <1>4 DEF Append, TypeOK
  <2>3. /\ tx'[w].tenant = tx[w].tenant
        /\ tx'[w].entries = tx[w].entries \cup {[id |-> seq + 1, tenant |-> tx[w].tenant, key |-> key]}
    BY <1>4, <2>1 DEF Append, TypeOK, Tx
  <2>4. \A v \in Writers : tx[v] # NoTx => \A e \in tx[v].entries : e.id \in Nat
    BY DEF TypeOK, Tx, Log!Entry
  <2>5. seq' = seq + 1 /\ feed' = feed
    BY <1>4 DEF Append
  <2> QED BY <1>0, <2>1, <2>2, <2>3, <2>4, <2>5
<1>5. ASSUME NEW w \in Writers, Commit(w) PROVE SeqInv'
  BY <1>5 DEF Commit, TypeOK, NoTx
<1>6. ASSUME NEW w \in Writers, Rollback(w) PROVE SeqInv'
  BY <1>6 DEF Rollback, TypeOK, NoTx
<1>7. ASSUME NEW r \in Readers, HighWater(r) \/ readChanges(r) \/ LoseAnswer(r) PROVE SeqInv'
  BY <1>7 DEF HighWater, readChanges, LoseAnswer
<1>8. CASE UNCHANGED vars
  BY <1>8 DEF vars
<1> QED BY <1>1, <1>2, <1>3, <1>4, <1>5, <1>6, <1>7, <1>8 DEF Next

LEMMA LockStep == TypeOK /\ LockInv /\ [Next]_vars => LockInv'
<1> SUFFICES ASSUME TypeOK, LockInv, [Next]_vars PROVE LockInv'
  OBVIOUS
<1> USE DEF LockInv
<1>1. ASSUME NEW w \in Writers, NEW t \in Tenants, Begin(w, t) PROVE LockInv'
  BY <1>1 DEF Begin, TypeOK, OrderLock
<1>2. ASSUME NEW w \in Writers, Write(w) PROVE LockInv'
  <2>1. tx[w] \in Tx /\ tx[w] # NoTx /\ tx[w].tenant \in Tenants
    BY <1>2 DEF Write, TypeOK, NoTx, Tx
  <2>2. tx' = [tx EXCEPT ![w] = tx'[w]] /\ tx'[w].tenant = tx[w].tenant
        /\ tx'[w].entries = tx[w].entries /\ tx'[w].st = "written" /\ tx'[w] # NoTx
    BY <1>2, <2>1 DEF Write, TypeOK, Tx, NoTx
  <2>3. CASE Dialect = "sqlite"
    <3>1. OrderLock(tx[w].tenant) \in LockKeys
      BY <2>1, OrderLockType
    <3>2. holder[OrderLock(tx[w].tenant)] = NoWriter
          /\ holder' = [holder EXCEPT ![OrderLock(tx[w].tenant)] = w]
      BY <1>2, <2>3 DEF Write
    <3>3. \A v \in Writers \ {w} : tx'[v] = tx[v]
      BY <1>2 DEF Write, TypeOK
    <3> QED BY <2>1, <2>2, <3>1, <3>2, <3>3 DEF TypeOK, OrderLock
  <2>4. CASE Dialect # "sqlite"
    BY <1>2, <2>1, <2>2, <2>4 DEF Write, TypeOK, OrderLock
  <2> QED BY <2>3, <2>4
<1>3. ASSUME NEW w \in Writers, serializeAppend(w) PROVE LockInv'
  <2>1. tx[w] \in Tx /\ tx[w] # NoTx /\ tx[w].tenant \in Tenants
    BY <1>3 DEF serializeAppend, TypeOK, NoTx, Tx
  <2>2. tx'[w].tenant = tx[w].tenant /\ tx'[w].entries = tx[w].entries
    BY <1>3, <2>1 DEF serializeAppend, TypeOK, Tx
  <2>3. \A v \in Writers \ {w} : tx'[v] = tx[v]
    BY <1>3 DEF serializeAppend, TypeOK
  <2>4. CASE Dialect = "postgres"
    <3>1. OrderLock(tx[w].tenant) \in LockKeys
      BY <2>1, OrderLockType
    <3>2. holder[OrderLock(tx[w].tenant)] \in {NoWriter, w}
          /\ holder' = [holder EXCEPT ![OrderLock(tx[w].tenant)] = w]
      BY <1>3, <2>4 DEF serializeAppend
    <3> QED BY <2>1, <2>2, <2>3, <3>1, <3>2 DEF TypeOK, OrderLock
  <2>5. CASE Dialect = "sqlite"
    <3>1. holder' = holder /\ tx[w].st = "written"
      BY <1>3, <2>5 DEF serializeAppend
    <3>2. holder[OrderLock(tx[w].tenant)] = w
      BY <2>1, <2>5, <3>1
    <3> QED BY <2>2, <2>3, <3>1, <3>2 DEF OrderLock
  <2> QED BY <2>4, <2>5
<1>4. ASSUME NEW w \in Writers, NEW key \in Keys, Append(w, key) PROVE LockInv'
  <2>1. tx[w] \in Tx /\ tx[w] # NoTx /\ tx[w].st = "locked"
    BY <1>4 DEF Append, TypeOK, NoTx
  <2>2. tx'[w].tenant = tx[w].tenant /\ holder' = holder
    BY <1>4, <2>1 DEF Append, TypeOK, Tx
  <2>3. \A v \in Writers \ {w} : tx'[v] = tx[v]
    BY <1>4 DEF Append, TypeOK
  <2> QED BY <2>1, <2>2, <2>3 DEF OrderLock
<1>5. ASSUME NEW w \in Writers, Commit(w) \/ Rollback(w) PROVE LockInv'
  <2>1. tx' = [tx EXCEPT ![w] = NoTx] /\ Release(w)
    BY <1>5 DEF Commit, Rollback
  <2>2. SUFFICES ASSUME NEW v \in Writers, tx'[v] # NoTx,
                        \/ tx'[v].st = "locked"
                        \/ tx'[v].entries # {}
                        \/ Dialect = "sqlite" /\ tx'[v].st = "written"
                 PROVE  holder'[OrderLock(tx'[v].tenant)] = v
    BY DEF OrderLock
  <2>3. v # w /\ tx'[v] = tx[v] /\ tx[v] # NoTx
    BY <2>1, <2>2 DEF TypeOK
  <2>4. OrderLock(tx[v].tenant) \in LockKeys
    BY <2>3, OrderLockType DEF TypeOK, Tx
  <2>5. holder[OrderLock(tx[v].tenant)] = v
    BY <2>2, <2>3
  <2> QED BY <2>1, <2>3, <2>4, <2>5 DEF Release
<1>7. ASSUME NEW r \in Readers, HighWater(r) \/ readChanges(r) \/ LoseAnswer(r) PROVE LockInv'
  BY <1>7 DEF HighWater, readChanges, LoseAnswer, OrderLock
<1>8. CASE UNCHANGED vars
  BY <1>8 DEF vars, OrderLock
<1> QED BY <1>1, <1>2, <1>3, <1>4, <1>5, <1>7, <1>8 DEF Next

LEMMA FiniteStep == TypeOK /\ FiniteInv /\ [Next]_vars => FiniteInv'
<1> SUFFICES ASSUME TypeOK, FiniteInv, [Next]_vars PROVE FiniteInv'
  OBVIOUS
<1> USE DEF FiniteInv
<1>1. ASSUME NEW w \in Writers, NEW t \in Tenants, Begin(w, t) PROVE FiniteInv'
  BY <1>1, FS_EmptySet DEF Begin, TypeOK
<1>2. ASSUME NEW w \in Writers, Write(w) \/ serializeAppend(w) PROVE FiniteInv'
  <2>1. tx[w] \in Tx /\ tx[w] # NoTx
    BY <1>2 DEF Write, serializeAppend, TypeOK, NoTx
  <2>2. tx'[w].entries = tx[w].entries /\ (\A v \in Writers \ {w} : tx'[v] = tx[v]) /\ feed' = feed
    BY <1>2, <2>1 DEF Write, serializeAppend, TypeOK, Tx
  <2> QED BY <2>1, <2>2
<1>4. ASSUME NEW w \in Writers, NEW key \in Keys, Append(w, key) PROVE FiniteInv'
  <2>1. tx[w] \in Tx /\ tx[w] # NoTx
    BY <1>4 DEF Append, TypeOK, NoTx
  <2>2. PICK e : tx'[w].entries = tx[w].entries \cup {e}
    BY <1>4, <2>1 DEF Append, TypeOK, Tx
  <2>3. (\A v \in Writers \ {w} : tx'[v] = tx[v]) /\ feed' = feed
    BY <1>4 DEF Append, TypeOK
  <2>4. IsFiniteSet(tx[w].entries \cup {e})
    BY <2>1, FS_AddElement
  <2> QED BY <2>2, <2>3, <2>4
<1>5. ASSUME NEW w \in Writers, Commit(w) PROVE FiniteInv'
  <2>1. tx[w] # NoTx
    BY <1>5 DEF Commit, NoTx
  <2>2. IsFiniteSet(feed')
    BY <1>5, <2>1, FS_Union DEF Commit
  <2> QED BY <1>5, <2>2 DEF Commit, TypeOK
<1>6. ASSUME NEW w \in Writers, Rollback(w) PROVE FiniteInv'
  BY <1>6 DEF Rollback, TypeOK
<1>7. ASSUME NEW r \in Readers, HighWater(r) \/ readChanges(r) \/ LoseAnswer(r) PROVE FiniteInv'
  BY <1>7 DEF HighWater, readChanges, LoseAnswer
<1>8. CASE UNCHANGED vars
  BY <1>8 DEF vars
<1> QED BY <1>1, <1>2, <1>4, <1>5, <1>6, <1>7, <1>8 DEF Next

\* The heart of order.go: when w commits, no other session of its tenant can
\* have rows in flight, because both would hold the same lock.
LEMMA StrandedStep ==
  TypeOK /\ SeqInv /\ LockInv /\ NothingStranded /\ [Next]_vars => NothingStranded'
<1> SUFFICES ASSUME TypeOK, SeqInv, LockInv, NothingStranded, [Next]_vars PROVE NothingStranded'
  OBVIOUS
<1> USE DEF NothingStranded
<1>1. ASSUME NEW w \in Writers, NEW t \in Tenants, Begin(w, t) PROVE NothingStranded'
  BY <1>1 DEF Begin, TypeOK
<1>2. ASSUME NEW w \in Writers, Write(w) \/ serializeAppend(w) PROVE NothingStranded'
  <2>1. tx[w] \in Tx /\ tx[w] # NoTx
    BY <1>2 DEF Write, serializeAppend, TypeOK, NoTx
  <2>2. /\ tx'[w].entries = tx[w].entries /\ tx'[w].tenant = tx[w].tenant
        /\ \A v \in Writers \ {w} : tx'[v] = tx[v]
        /\ feed' = feed
    BY <1>2, <2>1 DEF Write, serializeAppend, TypeOK, Tx
  <2> QED BY <2>1, <2>2
<1>4. ASSUME NEW w \in Writers, NEW key \in Keys, Append(w, key) PROVE NothingStranded'
  <2>1. tx[w] \in Tx /\ tx[w] # NoTx
    BY <1>4 DEF Append, TypeOK, NoTx
  <2>2. /\ tx'[w].tenant = tx[w].tenant
        /\ tx'[w].entries = tx[w].entries \cup {[id |-> seq + 1, tenant |-> tx[w].tenant, key |-> key]}
        /\ \A v \in Writers \ {w} : tx'[v] = tx[v]
        /\ feed' = feed
    BY <1>4, <2>1 DEF Append, TypeOK, Tx
  <2>3. \A f \in feed : f.id < seq + 1
    BY DEF SeqInv, TypeOK, Log!Entry
  <2> QED BY <2>1, <2>2, <2>3
<1>5. ASSUME NEW w \in Writers, Commit(w) PROVE NothingStranded'
  <2>1. tx[w] \in Tx /\ tx[w] # NoTx
    BY <1>5 DEF Commit, TypeOK, NoTx
  <2>2. feed' = feed \cup tx[w].entries /\ tx' = [tx EXCEPT ![w] = NoTx]
    BY <1>5 DEF Commit
  <2>3. SUFFICES ASSUME NEW v \in Writers, tx'[v] # NoTx, NEW e \in tx'[v].entries, NEW f \in feed',
                        f.tenant = tx'[v].tenant
                 PROVE  f.id < e.id
    BY <2>2
  <2>4. v # w /\ tx'[v] = tx[v] /\ tx[v] # NoTx
    BY <2>2, <2>3 DEF TypeOK
  <2>5. CASE f \in feed
    BY <2>3, <2>4, <2>5
  <2>6. CASE f \in tx[w].entries
    <3>1. tx[w].tenant = tx[v].tenant
      BY <2>1, <2>3, <2>4, <2>6 DEF SeqInv
    <3>2. holder[OrderLock(tx[w].tenant)] = w /\ holder[OrderLock(tx[v].tenant)] = v
      BY <2>1, <2>3, <2>4, <2>6 DEF LockInv
    <3> QED BY <2>4, <3>1, <3>2
  <2> QED BY <2>2, <2>3, <2>5, <2>6
<1>6. ASSUME NEW w \in Writers, Rollback(w) PROVE NothingStranded'
  BY <1>6 DEF Rollback, TypeOK
<1>7. ASSUME NEW r \in Readers, HighWater(r) \/ readChanges(r) \/ LoseAnswer(r) PROVE NothingStranded'
  BY <1>7 DEF HighWater, readChanges, LoseAnswer
<1>8. CASE UNCHANGED vars
  BY <1>8 DEF vars
<1> QED BY <1>1, <1>2, <1>4, <1>5, <1>6, <1>7, <1>8 DEF Next

\* feed only grows, so a position stays one.
LEMMA FeedGrows == [Next]_vars => feed \subseteq feed'
BY DEF Next, Begin, Write, serializeAppend, Append, Commit, Rollback, HighWater, readChanges, LoseAnswer, vars

\* What one answer does to the reader that receives it.
LEMMA AnswerMoves ==
  ASSUME TypeOK, FiniteInv, PositionInv, NEW r \in Readers, readChanges(r)
  PROVE  /\ Position(TenantOf[r], cursor'[r])
         /\ cursor'[r] \in Nat /\ cursor'[r] >= cursor[r]
         /\ \A e \in Read(r) : e.id <= cursor'[r]
         /\ \A e \in After(r) : e.id <= cursor'[r] => e \in Read(r)
<1>1. poll[r].high \in Nat /\ Position(TenantOf[r], poll[r].high) /\ cursor[r] \in Nat
      /\ Position(TenantOf[r], cursor[r])
  BY DEF readChanges, TypeOK, PositionInv
<1>2. \A e \in After(r) : e \in feed /\ e.id \in Nat /\ e.id > cursor[r] /\ e.tenant = TenantOf[r]
  BY DEF After, Log!InScope, TypeOK, Log!Entry
<1>3. Read(r) \subseteq After(r)
  BY DEF Read
<1>4. CASE Read(r) = {} /\ cursor' = [cursor EXCEPT ![r] = Resume(r, cursor[r])]
  <2>1. cursor'[r] = Resume(r, cursor[r])
    BY <1>4 DEF TypeOK
  <2>2. cursor'[r] \in {cursor[r], poll[r].high} /\ cursor'[r] >= cursor[r]
    BY <1>1, <2>1 DEF Resume
  <2>3. \A e \in After(r) : e.id <= cursor'[r] => e \in Read(r)
    <3>1. CASE Cardinality(After(r)) < Limit
      BY <1>4, <3>1, ShortPageIsAll DEF FiniteInv
    <3>2. CASE ~(Cardinality(After(r)) < Limit)
      <4>1. cursor'[r] = cursor[r]
        BY <2>1, <3>2 DEF Resume
      <4> QED BY <1>1, <1>2, <4>1
    <3> QED BY <3>1, <3>2
  <2> QED BY <1>1, <1>4, <2>2, <2>3
<1>5. ASSUME NEW last \in Read(r), \A f \in Read(r) : f.id <= last.id,
             cursor' = [cursor EXCEPT ![r] = Resume(r, last.id)]
      PROVE  /\ Position(TenantOf[r], cursor'[r])
             /\ cursor'[r] \in Nat /\ cursor'[r] >= cursor[r]
             /\ \A e \in Read(r) : e.id <= cursor'[r]
             /\ \A e \in After(r) : e.id <= cursor'[r] => e \in Read(r)
  <2>0. last \in feed /\ last.id \in Nat /\ last.id > cursor[r] /\ last.tenant = TenantOf[r]
    BY <1>2, <1>3
  <2>1. cursor'[r] = Resume(r, last.id)
    BY <1>5 DEF TypeOK
  <2>2. cursor'[r] \in {last.id, poll[r].high} /\ cursor'[r] >= last.id
    BY <1>1, <2>0, <2>1 DEF Resume
  <2>3. Position(TenantOf[r], last.id)
    BY <2>0 DEF Position
  <2>4. \A e \in After(r) : e.id <= cursor'[r] => e \in Read(r)
    <3>1. CASE Cardinality(After(r)) < Limit
      BY <3>1, ShortPageIsAll DEF FiniteInv
    <3>2. CASE ~(Cardinality(After(r)) < Limit)
      <4>1. cursor'[r] = last.id
        BY <2>1, <3>2 DEF Resume
      <4> QED BY <4>1, PageIsPrefix DEF FiniteInv
    <3> QED BY <3>1, <3>2
  <2>5. \A e \in Read(r) : e.id <= cursor'[r]
    BY <1>1, <1>2, <1>3, <1>5, <2>0, <2>2
  <2>6. cursor'[r] \in Nat /\ cursor'[r] >= cursor[r]
    BY <1>1, <2>0, <2>2
  <2> QED BY <1>1, <2>2, <2>3, <2>4, <2>5, <2>6
<1> QED BY <1>4, <1>5 DEF readChanges

LEMMA PositionStep ==
  TypeOK /\ FiniteInv /\ PositionInv /\ [Next]_vars => PositionInv'
<1> SUFFICES ASSUME TypeOK, FiniteInv, PositionInv, [Next]_vars PROVE PositionInv'
  OBVIOUS
<1>1. ASSUME cursor' = cursor, poll' = poll PROVE PositionInv'
  <2>1. feed \subseteq feed'
    BY FeedGrows
  <2> QED BY <1>1, <2>1 DEF PositionInv, Position
<1>2. ASSUME NEW r \in Readers, HighWater(r) PROVE PositionInv'
  <2>1. PICK n \in 0..MaxId : IsHighWater(TenantOf[r], n)
                              /\ poll' = [poll EXCEPT ![r] = [st |-> "serving", high |-> n]]
    BY <1>2 DEF HighWater
  <2>2. Position(TenantOf[r], n)
    BY <2>1 DEF IsHighWater, Position, Log!Ids
  <2>3. cursor' = cursor /\ feed' = feed
    BY <1>2 DEF HighWater
  <2>4. ASSUME NEW q \in Readers, poll'[q] # Idle PROVE Position(TenantOf[q], poll'[q].high)
    <3>1. CASE q = r
      BY <2>1, <2>2, <3>1 DEF TypeOK
    <3>2. CASE q # r
      BY <2>1, <2>4, <3>2 DEF PositionInv, TypeOK
    <3> QED BY <3>1, <3>2
  <2> QED BY <2>3, <2>4 DEF PositionInv, Position
<1>3. ASSUME NEW r \in Readers, readChanges(r) PROVE PositionInv'
  <2>1. Position(TenantOf[r], cursor'[r])
    BY <1>3, AnswerMoves
  <2>2. \A q \in Readers \ {r} : cursor'[q] = cursor[q] /\ poll'[q] = poll[q]
    BY <1>3 DEF readChanges, TypeOK
  <2>3. poll'[r] = Idle /\ feed' = feed
    BY <1>3 DEF readChanges, TypeOK
  <2> QED BY <2>1, <2>2, <2>3 DEF PositionInv, Position
<1>4. ASSUME NEW r \in Readers, LoseAnswer(r) PROVE PositionInv'
  <2>1. feed' = feed /\ cursor' = cursor /\ poll' = [poll EXCEPT ![r] = Idle]
    BY <1>4 DEF LoseAnswer
  <2>2. \A q \in Readers : poll'[q] # Idle => poll'[q] = poll[q]
    BY <2>1 DEF TypeOK
  <2> QED BY <2>1, <2>2 DEF PositionInv, Position
<1>5. ASSUME NEW w \in Writers, \/ \E t \in Tenants : Begin(w, t)
                                \/ Write(w) \/ serializeAppend(w)
                                \/ \E key \in Keys : Append(w, key)
                                \/ Commit(w) \/ Rollback(w)
      PROVE  PositionInv'
  BY <1>1, <1>5 DEF Begin, Write, serializeAppend, Append, Commit, Rollback, readerVars
<1>6. CASE UNCHANGED vars
  BY <1>1, <1>6 DEF vars
<1> QED BY <1>2, <1>3, <1>4, <1>5, <1>6 DEF Next

LEMMA GotStep ==
  TypeOK /\ FiniteInv /\ PositionInv /\ GotInv /\ [Next]_vars => GotInv'
<1> SUFFICES ASSUME TypeOK, FiniteInv, PositionInv, GotInv, [Next]_vars PROVE GotInv'
  OBVIOUS
<1>1. ASSUME cursor' = cursor, got' = got PROVE GotInv'
  BY <1>1 DEF GotInv
<1>2. ASSUME NEW r \in Readers, readChanges(r) PROVE GotInv'
  <2>1. cursor'[r] \in Nat /\ cursor'[r] >= cursor[r] /\ \A e \in Read(r) : e.id <= cursor'[r]
    BY <1>2, AnswerMoves
  <2>2. \A q \in Readers \ {r} : cursor'[q] = cursor[q] /\ got'[q] = got[q]
    BY <1>2 DEF readChanges, TypeOK
  <2>3. got'[r] = got[r] \cup Log!Ids(Read(r))
    BY <1>2 DEF readChanges, TypeOK
  <2>4. ASSUME NEW i \in got'[r] PROVE i <= cursor'[r]
    <3>1. CASE i \in got[r]
      BY <2>1, <3>1 DEF GotInv, TypeOK
    <3>2. CASE i \in Log!Ids(Read(r))
      BY <2>1, <3>2 DEF Log!Ids
    <3> QED BY <2>3, <3>1, <3>2
  <2> QED BY <2>2, <2>4 DEF GotInv
<1>3. ASSUME NEW r \in Readers, HighWater(r) \/ LoseAnswer(r) PROVE GotInv'
  BY <1>1, <1>3 DEF HighWater, LoseAnswer
<1>5. ASSUME NEW w \in Writers, \/ \E t \in Tenants : Begin(w, t)
                                \/ Write(w) \/ serializeAppend(w)
                                \/ \E key \in Keys : Append(w, key)
                                \/ Commit(w) \/ Rollback(w)
      PROVE  GotInv'
  BY <1>1, <1>5 DEF Begin, Write, serializeAppend, Append, Commit, Rollback, readerVars
<1>6. CASE UNCHANGED vars
  BY <1>1, <1>6 DEF vars
<1> QED BY <1>2, <1>3, <1>5, <1>6 DEF Next

\* A committing session's rows are above every position of their tenant.
LEMMA CommitAbove ==
  ASSUME TypeOK, SeqInv, NothingStranded, NEW w \in Writers, Commit(w),
         NEW e \in tx[w].entries, NEW n \in Nat, Position(e.tenant, n)
  PROVE  n < e.id
<1>1. tx[w] # NoTx
  BY DEF Commit, NoTx
<1>2. e.id \in Nat /\ e.id > 0 /\ e.tenant = tx[w].tenant
  BY <1>1 DEF SeqInv, TypeOK, Tx, Log!Entry
<1>3. CASE n = 0
  BY <1>2, <1>3
<1>4. ASSUME NEW f \in feed, f.tenant = e.tenant, f.id = n PROVE n < e.id
  BY <1>1, <1>2, <1>4 DEF NothingStranded
<1> QED BY <1>3, <1>4 DEF Position

LEMMA ExactlyOnceStep == IInv /\ [Next]_vars => ExactlyOnce'
<1> SUFFICES ASSUME IInv, [Next]_vars PROVE ExactlyOnce'
  OBVIOUS
<1> USE DEF IInv
<1>1. ASSUME cursor' = cursor, got' = got, feed' = feed PROVE ExactlyOnce'
  BY <1>1 DEF ExactlyOnce, Log!InScope
<1>2. ASSUME NEW r \in Readers, readChanges(r) PROVE ExactlyOnce'
  <2>1. /\ cursor'[r] \in Nat /\ cursor'[r] >= cursor[r]
        /\ \A e \in Read(r) : e.id <= cursor'[r]
        /\ \A e \in After(r) : e.id <= cursor'[r] => e \in Read(r)
    BY <1>2, AnswerMoves
  <2>2. \A q \in Readers \ {r} : cursor'[q] = cursor[q] /\ got'[q] = got[q]
    BY <1>2 DEF readChanges, TypeOK
  <2>3. got'[r] = got[r] \cup Log!Ids(Read(r)) /\ feed' = feed
    BY <1>2 DEF readChanges, TypeOK
  <2>4. ASSUME NEW e \in Log!InScope(r, feed) PROVE e.id <= cursor'[r] <=> e.id \in got'[r]
    <3>1. e.id \in Nat /\ cursor[r] \in Nat
      BY DEF Log!InScope, TypeOK, Log!Entry
    <3>2. CASE e.id <= cursor[r]
      BY <2>1, <2>3, <3>1, <3>2 DEF ExactlyOnce
    <3>3. CASE e.id > cursor[r]
      <4>1. e \in After(r)
        BY <3>3 DEF After
      <4>2. ASSUME e.id <= cursor'[r] PROVE e.id \in got'[r]
        BY <2>1, <2>3, <4>1, <4>2 DEF Log!Ids
      <4>3. ASSUME e.id \in got'[r] PROVE e.id <= cursor'[r]
        <5>1. e.id \notin got[r]
          BY <3>1, <3>3 DEF GotInv
        <5> QED BY <2>1, <2>3, <4>3, <5>1 DEF Log!Ids
      <4> QED BY <4>2, <4>3
    <3> QED BY <3>1, <3>2, <3>3
  <2>5. \A q \in Readers : Log!InScope(q, feed') = Log!InScope(q, feed)
    BY <2>3
  <2> QED BY <2>2, <2>3, <2>4, <2>5 DEF ExactlyOnce, Log!InScope
<1>3. ASSUME NEW w \in Writers, Commit(w) PROVE ExactlyOnce'
  <2>1. feed' = feed \cup tx[w].entries /\ cursor' = cursor /\ got' = got
    BY <1>3 DEF Commit, readerVars
  <2>2. SUFFICES ASSUME NEW r \in Readers, NEW e \in tx[w].entries, e.tenant = TenantOf[r]
                 PROVE  e.id > cursor[r] /\ e.id \notin got[r]
    <3>1. ASSUME NEW r \in Readers, NEW e \in feed', e.tenant = TenantOf[r], e.key \in ScopeOf[r]
          PROVE  e.id <= cursor[r] <=> e.id \in got[r]
      <4>1. CASE e \in feed
        BY <3>1, <4>1 DEF ExactlyOnce, Log!InScope
      <4>2. CASE e \in tx[w].entries
        <5>1. e.id > cursor[r] /\ e.id \notin got[r]
          BY <2>2, <3>1, <4>2
        <5>2. e.id \in Nat /\ cursor[r] \in Nat
          BY <1>3, <4>2 DEF Commit, NoTx, TypeOK, Tx, Log!Entry
        <5> QED BY <5>1, <5>2
      <4> QED BY <2>1, <3>1, <4>1, <4>2
    <3> QED BY <2>1, <3>1 DEF ExactlyOnce, Log!InScope
  <2>3. cursor[r] \in Nat /\ Position(e.tenant, cursor[r])
    BY <2>2 DEF PositionInv, TypeOK
  <2>4. cursor[r] < e.id
    BY <1>3, <2>2, <2>3, CommitAbove
  <2>5. e.id \in Nat
    BY <1>3 DEF Commit, NoTx, TypeOK, Tx, Log!Entry
  <2> QED BY <2>3, <2>4, <2>5 DEF GotInv
<1>4. ASSUME NEW r \in Readers, HighWater(r) \/ LoseAnswer(r) PROVE ExactlyOnce'
  BY <1>1, <1>4 DEF HighWater, LoseAnswer
<1>5. ASSUME NEW w \in Writers, \/ \E t \in Tenants : Begin(w, t)
                                \/ Write(w) \/ serializeAppend(w)
                                \/ \E key \in Keys : Append(w, key)
                                \/ Rollback(w)
      PROVE  ExactlyOnce'
  BY <1>1, <1>5 DEF Begin, Write, serializeAppend, Append, Rollback, readerVars
<1>6. CASE UNCHANGED vars
  BY <1>1, <1>6 DEF vars
<1> QED BY <1>2, <1>3, <1>4, <1>5, <1>6 DEF Next
--------------------------------------------------------------------------------
LEMMA InitIInv == Init => IInv
<1> SUFFICES ASSUME Init PROVE IInv
  OBVIOUS
<1> USE DEF Init
<1>1. TypeOK
  BY DEF TypeOK
<1>2. FiniteInv
  BY FS_EmptySet DEF FiniteInv
<1>3. SeqInv /\ LockInv /\ NothingStranded
  BY DEF SeqInv, LockInv, NothingStranded
<1>4. PositionInv /\ GotInv
  BY DEF PositionInv, Position, GotInv
<1>5. ExactlyOnce
  BY DEF ExactlyOnce, Log!InScope
<1> QED BY <1>1, <1>2, <1>3, <1>4, <1>5 DEF IInv

LEMMA IInvStep == IInv /\ [Next]_vars => IInv'
BY TypeStep, SeqStep, LockStep, FiniteStep, StrandedStep, PositionStep, GotStep, ExactlyOnceStep DEF IInv

\* The inductive invariant holds in every reachable state.
THEOREM Inductive == Spec => []IInv
BY InitIInv, IInvStep, PTL DEF Spec

\* Every state has its types.
THEOREM TypeCorrect == Spec => []TypeOK
<1>1. IInv => TypeOK
  BY DEF IInv
<1> QED BY <1>1, Inductive, PTL

\* order.go for any number of sessions and tenants: no uncommitted id lies below
\* a committed one of the same tenant.
THEOREM NoneStranded == Spec => []NothingStranded
<1>1. IInv => NothingStranded
  BY DEF IInv
<1> QED BY <1>1, Inductive, PTL

\* INV-S5 for any scope, page size and schedule: a reader holds exactly what its
\* cursor has passed.
THEOREM ReadExactlyOnce == Spec => []ExactlyOnce
<1>1. IInv => ExactlyOnce
  BY DEF IInv
<1> QED BY <1>1, Inductive, PTL

\* readChanges never sends a reader back.
THEOREM NeverRewinds == Spec => CursorNeverRewinds
<1>1. IInv /\ [Next]_vars => [\A r \in Readers : cursor'[r] >= cursor[r]]_vars
  <2> SUFFICES ASSUME IInv, [Next]_vars, NEW q \in Readers PROVE cursor'[q] >= cursor[q]
    OBVIOUS
  <2>0. cursor[q] \in Nat
    BY DEF IInv, TypeOK
  <2>1. ASSUME NEW r \in Readers, readChanges(r) PROVE cursor'[q] >= cursor[q]
    <3>1. cursor'[r] >= cursor[r]
      BY <2>1, AnswerMoves DEF IInv
    <3>2. q # r => cursor'[q] = cursor[q]
      BY <2>1 DEF readChanges, IInv, TypeOK
    <3> QED BY <2>0, <3>1, <3>2
  <2>2. CASE cursor' = cursor
    BY <2>0, <2>2
  <2> QED BY <2>1, <2>2 DEF Next, Begin, Write, serializeAppend, Append, Commit, Rollback,
                            HighWater, LoseAnswer, readerVars, vars
<1> QED BY <1>1, Inductive, PTL DEF Spec, CursorNeverRewinds

\* A reader only ever receives entries of its own tenant and scope.
ScopeInv == \A r \in Readers : got[r] \subseteq Log!Ids(Log!InScope(r, feed))

LEMMA ScopeStep == TypeOK /\ ScopeInv /\ [Next]_vars => ScopeInv'
<1> SUFFICES ASSUME TypeOK, ScopeInv, [Next]_vars PROVE ScopeInv'
  OBVIOUS
<1>0. \A r \in Readers : Log!Ids(Log!InScope(r, feed)) \subseteq Log!Ids(Log!InScope(r, feed'))
  BY FeedGrows DEF Log!Ids, Log!InScope
<1>1. ASSUME NEW r \in Readers, readChanges(r) PROVE ScopeInv'
  <2>1. got' = [got EXCEPT ![r] = got[r] \cup Log!Ids(Read(r))] /\ feed' = feed
    BY <1>1 DEF readChanges
  <2>2. Log!Ids(Read(r)) \subseteq Log!Ids(Log!InScope(r, feed))
    BY DEF Log!Ids, Read, After
  <2> QED BY <2>1, <2>2 DEF ScopeInv, TypeOK, Log!Ids, Log!InScope
<1>2. CASE got' = got
  BY <1>0, <1>2 DEF ScopeInv, Log!Ids, Log!InScope
<1> QED BY <1>1, <1>2 DEF Next, Begin, Write, serializeAppend, Append, Commit, Rollback,
                          HighWater, LoseAnswer, readerVars, vars

\* INV-S5 as an implementation: every step of the sessions and readers is a
\* Publish, a Deliver or no step of the ordered log.
THEOREM Refinement == Spec => ImplementsLog
<1>1. Init => Log!LogInit /\ ScopeInv
  BY DEF Init, Log!LogInit, ScopeInv
<1>2. IInv /\ ScopeInv /\ [Next]_vars => [Log!LogNext]_Log!logVars
  <2> SUFFICES ASSUME IInv, ScopeInv, [Next]_vars PROVE [Log!LogNext]_Log!logVars
    OBVIOUS
  <2>1. ASSUME NEW w \in Writers, Commit(w) PROVE Log!LogNext
    <3>1. tx[w] \in Tx /\ tx[w] # NoTx /\ feed' = feed \cup tx[w].entries /\ got' = got
      BY <2>1 DEF Commit, IInv, TypeOK, NoTx, readerVars
    <3>2. tx[w].tenant \in Tenants /\ tx[w].entries \subseteq Log!Entry
      BY <3>1 DEF Tx
    <3>3. ASSUME NEW e \in feed' \ feed
          PROVE  /\ e \in Log!Entry /\ e.tenant = tx[w].tenant
                 /\ \A f \in feed : f.tenant = tx[w].tenant => f.id < e.id
      BY <3>1, <3>2 DEF IInv, SeqInv, NothingStranded
    <3>4. Log!Publish(tx[w].tenant)
      BY <3>1, <3>3 DEF Log!Publish
    <3> QED BY <3>2, <3>4 DEF Log!LogNext
  <2>2. ASSUME NEW r \in Readers, readChanges(r) PROVE [Log!LogNext]_Log!logVars
    <3> DEFINE prefix == Log!Ids({e \in Log!InScope(r, feed) : e.id <= cursor'[r]})
    <3>1. /\ Position(TenantOf[r], cursor'[r]) /\ cursor'[r] \in Nat
          /\ cursor'[r] >= cursor[r] /\ feed' = feed
      BY <2>2, AnswerMoves DEF IInv, readChanges
    <3>2. ExactlyOnce' /\ ScopeInv'
      BY ExactlyOnceStep, ScopeStep DEF IInv
    <3>3. got'[r] = prefix
      BY <3>1, <3>2 DEF ExactlyOnce, ScopeInv, Log!Ids, Log!InScope
    <3>4. got' = [got EXCEPT ![r] = prefix] /\ got[r] \subseteq prefix
      <4>1. got' = [got EXCEPT ![r] = got'[r]]
        BY <2>2 DEF readChanges, IInv, TypeOK
      <4>2. got[r] \subseteq got'[r]
        BY <2>2 DEF readChanges, IInv, TypeOK
      <4> QED BY <3>3, <4>1, <4>2
    <3>5. CASE cursor'[r] = 0
      <4>1. \A e \in feed : e.id \in Nat /\ e.id > 0
        BY DEF IInv, SeqInv, TypeOK, Log!Entry
      <4>2. prefix = {}
        BY <3>5, <4>1 DEF Log!Ids, Log!InScope
      <4>3. got' = got
        BY <3>4, <4>2 DEF IInv, TypeOK
      <4> QED BY <3>1, <4>3 DEF Log!logVars
    <3>6. CASE cursor'[r] # 0
      <4>1. cursor'[r] \in Log!Ids(feed)
        BY <3>1, <3>6 DEF Position, Log!Ids
      <4>2. Log!Deliver(r, cursor'[r])
        BY <3>1, <3>4 DEF Log!Deliver
      <4> QED BY <4>1, <4>2 DEF Log!LogNext
    <3> QED BY <3>5, <3>6
  <2>3. CASE feed' = feed /\ got' = got
    BY <2>3 DEF Log!logVars
  <2> QED BY <2>1, <2>2, <2>3 DEF Next, Begin, Write, serializeAppend, Append, Rollback,
                                  HighWater, LoseAnswer, readerVars, vars
<1>3. IInv /\ ScopeInv /\ [Next]_vars => ScopeInv'
  BY ScopeStep DEF IInv
<1> QED BY <1>1, <1>2, <1>3, Inductive, PTL DEF Spec, ImplementsLog, Log!LogSpec
================================================================================
