----------------------------- MODULE WriteProofs -----------------------------
(****************************************************************************)
(* A write from the outbox of the web replica (module Replica) to the       *)
(* gateway that executes it once (module Idempotency).                      *)
(*                                                                          *)
(* The replica. Types rest on FeedRows: what the feed names exists.         *)
(* NoSilentLoss is an account of where a command is (QueueInv). A purge     *)
(* lasts because an object that is not held has no rows (PurgeInv). That a  *)
(* replica which has caught up agrees with the server is Agreed, said of    *)
(* every row at every moment: covered by the snapshot, nothing of it to     *)
(* send, nothing of it to fetch. What a rollback or a replayed answer puts  *)
(* back must then be the row as it is, which is where it needs scenarios in *)
(* which nothing is refused (Unrefused) or nobody else writes (Uncontested).*)
(*                                                                          *)
(* The gateway. The reserve-first protocol of kernel/api for any number of  *)
(* keys, requests, handlers and faults; where it says so, as long as the    *)
(* acknowledgement of a COMMIT is not lost ("commitlost" \notin Faults):    *)
(* with that fault a second execution is possible. A handler past its       *)
(* reservation owns its key's row (Owns) and is alone in that (Alone),      *)
(* because the INSERT succeeds only where there is no row and nobody else   *)
(* deletes one. Owning says how often the mutation has committed so far, so *)
(* exec starts from zero and a key is given back only at zero.              *)
(****************************************************************************)
EXTENDS Replica, Idempotency, WellFoundedInduction, FiniteSetTheorems, TLAPS

(* The least and the largest of a set of naturals, and pages. *)

\* A nonempty set of naturals has a least element.
LEMMA Least ==
  ASSUME NEW S, S \subseteq Nat, S # {}
  PROVE  Min(S) \in S /\ \A y \in S : Min(S) <= y
<1> DEFINE R == OpToRel(<, Nat)
<1>1. IsWellFoundedOn(R, Nat)
  BY NatLessThanWellFounded
<1>2. PICK x \in S : \A y \in S : ~(<<y, x>> \in R)
  <2> HIDE DEF R
  <2> QED BY <1>1, WFMin
<1>3. \A y \in S : x <= y
  <2> SUFFICES ASSUME NEW y \in S, ~(x <= y) PROVE FALSE
    OBVIOUS
  <2>1. x \in Nat /\ y \in Nat /\ y < x
    OBVIOUS
  <2>2. <<y, x>> \in R
    BY <2>1 DEF OpToRel
  <2> QED BY <1>2, <2>2
<1> QED BY <1>2, <1>3 DEF Min

\* A finite one has a largest element: the one with the fewest above it.
LEMMA Largest ==
  ASSUME NEW S, S \subseteq Nat, S # {}, IsFiniteSet(S)
  PROVE  Max(S) \in S /\ \A y \in S : Max(S) >= y
<1> DEFINE Above(x) == {y \in S : y > x}
           T == {Cardinality(Above(x)) : x \in S}
<1>1. \A x \in S : IsFiniteSet(Above(x)) /\ Cardinality(Above(x)) \in Nat
  <2> SUFFICES ASSUME NEW x \in S PROVE IsFiniteSet(Above(x)) /\ Cardinality(Above(x)) \in Nat
    OBVIOUS
  <2>1. Above(x) \subseteq S
    OBVIOUS
  <2> HIDE DEF Above
  <2> QED BY <2>1, FS_Subset, FS_CardinalityType
<1>2. T \subseteq Nat /\ T # {}
  <2> HIDE DEF Above
  <2> QED BY <1>1
<1>3. PICK x \in S : \A y \in S : Cardinality(Above(x)) <= Cardinality(Above(y))
  <2>1. Min(T) \in T /\ \A n \in T : Min(T) <= n
    <3> HIDE DEF T
    <3> QED BY <1>2, Least
  <2> HIDE DEF Above
  <2> QED BY <2>1
<1>4. \A y \in S : x >= y
  <2> SUFFICES ASSUME NEW y \in S, ~(x >= y) PROVE FALSE
    OBVIOUS
  <2>1. x \in Nat /\ y \in Nat /\ y > x
    OBVIOUS
  <2>2. Above(y) \subseteq Above(x) /\ y \in Above(x) /\ y \notin Above(y)
    <3>1. \A z \in S : z > y => z > x
      BY <2>1
    <3>2. ~(y > y)
      BY <2>1
    <3> QED BY <2>1, <3>1, <3>2, Zenon
  <2>3. Cardinality(Above(y)) < Cardinality(Above(x))
    <3>1. PICK A, B : A = Above(y) /\ B = Above(x)
      OBVIOUS
    <3>2. A \subseteq B /\ A # B /\ IsFiniteSet(B) /\ Cardinality(A) \in Nat /\ Cardinality(B) \in Nat
      <4> HIDE DEF Above
      <4> QED BY <1>1, <2>2, <3>1
    <3>3. Cardinality(A) <= Cardinality(B) /\ (Cardinality(B) = Cardinality(A) => B = A)
      <4> HIDE DEF Above
      <4> QED BY <3>2, FS_Subset
    <3> HIDE DEF Above
    <3> QED BY <3>1, <3>2, <3>3
  <2>4. Cardinality(Above(x)) <= Cardinality(Above(y)) /\ Cardinality(Above(x)) \in Nat /\ Cardinality(Above(y)) \in Nat
    <3> HIDE DEF Above
    <3> QED BY <1>1, <1>3
  <2> HIDE DEF Above
  <2> QED BY <2>3, <2>4
<1> QED BY <1>4 DEF Max

\* The first n of a finite set of naturals. A short page is the whole set; a full one is
\* everything up to its largest element.
LEMMA PageOf ==
  ASSUME NEW S, S \subseteq Nat, IsFiniteSet(S), NEW P, P = FirstOf(S)
  PROVE  /\ P \subseteq S /\ IsFiniteSet(P)
         /\ Cardinality(P) # PageSize => P = S
         /\ Cardinality(P) = PageSize => /\ Max(P) \in P
                                  /\ \A x \in S : x \in P <=> x <= Max(P)
<1>0. PageSize \in Nat \ {0}
  BY ReplicaAssumption
<1> DEFINE UpTo(x) == {y \in S : y <= x}
<1>1. \A x \in S : IsFiniteSet(UpTo(x)) /\ Cardinality(UpTo(x)) \in Nat
  <2> SUFFICES ASSUME NEW x \in S PROVE IsFiniteSet(UpTo(x)) /\ Cardinality(UpTo(x)) \in Nat
    OBVIOUS
  <2>1. UpTo(x) \subseteq S
    OBVIOUS
  <2> HIDE DEF UpTo
  <2> QED BY <2>1, FS_Subset, FS_CardinalityType
<1>2. P \subseteq S /\ IsFiniteSet(P) /\ Cardinality(P) \in Nat
  <2>1. P \subseteq S
    BY DEF FirstOf
  <2> QED BY <2>1, FS_Subset, FS_CardinalityType
<1>p. \A x : x \in P <=> x \in S /\ Cardinality(UpTo(x)) <= PageSize
  BY DEF FirstOf
<1>u. \A x, y : y \in UpTo(x) <=> y \in S /\ y <= x
  OBVIOUS
<1> HIDE DEF UpTo
<1>3. \A x \in P, y \in S : y <= x => y \in P
  <2> SUFFICES ASSUME NEW x \in P, NEW y \in S, y <= x PROVE y \in P
    OBVIOUS
  <2>0. x \in S /\ x \in Nat /\ y \in Nat
    BY <1>p
  <2>1. UpTo(y) \subseteq UpTo(x)
    <3> SUFFICES ASSUME NEW z \in UpTo(y) PROVE z \in UpTo(x)
      OBVIOUS
    <3>1. z \in S /\ z <= y /\ z \in Nat
      BY <1>u
    <3> QED BY <2>0, <3>1, <1>u
  <2>2. Cardinality(UpTo(y)) <= Cardinality(UpTo(x))
    BY <2>0, <2>1, <1>1, FS_Subset
  <2> QED BY <1>0, <1>p, <1>1, <2>0, <2>2
<1>4. P # {} => /\ Max(P) \in P /\ \A y \in P : Max(P) >= y
                /\ P = UpTo(Max(P))
  <2> SUFFICES ASSUME P # {} PROVE Max(P) \in P /\ (\A y \in P : Max(P) >= y) /\ P = UpTo(Max(P))
    OBVIOUS
  <2>1. Max(P) \in P /\ \A y \in P : Max(P) >= y
    BY <1>2, Largest
  <2>2. Max(P) \in Nat /\ \A y \in P : y \in Nat
    BY <1>2, <2>1
  <2>3. \A y : y \in P <=> y \in UpTo(Max(P))
    BY <1>u, <1>3, <1>2, <2>1, <2>2
  <2> QED BY <2>1, <2>3
<1>5. Cardinality(P) <= PageSize
  <2>1. CASE P = {}
    BY <1>0, <2>1, FS_EmptySet
  <2>2. CASE P # {}
    BY <2>2, <1>4, <1>p
  <2> QED BY <2>1, <2>2
<1>6. P # S => Cardinality(P) = PageSize
  <2> SUFFICES ASSUME P # S PROVE Cardinality(P) = PageSize
    OBVIOUS
  <2> DEFINE D == S \ P
  <2>1. D # {} /\ D \subseteq Nat
    BY <1>2
  <2>2. PICK m : m = Min(D)
    OBVIOUS
  <2>3. m \in D /\ \A y \in D : m <= y
    BY <2>1, <2>2, Least
  <2>4. m \in S /\ m \notin P /\ m \in Nat
    BY <2>3
  <2>5. UpTo(m) = P \cup {m}
    <3>1. ASSUME NEW y, y \in UpTo(m) PROVE y \in P \cup {m}
      <4>1. y \in S /\ y <= m /\ y \in Nat
        BY <3>1, <1>u
      <4> QED BY <4>1, <2>3, <2>4
    <3>2. ASSUME NEW y, y \in P PROVE y \in UpTo(m)
      <4>1. y \in S /\ y \in Nat
        BY <3>2, <1>2
      <4>2. y <= m
        BY <4>1, <2>4, <1>3, <3>2
      <4> QED BY <4>1, <4>2, <1>u
    <3>3. m \in UpTo(m)
      BY <2>4, <1>u
    <3> QED BY <3>1, <3>2, <3>3
  <2>6. Cardinality(UpTo(m)) = Cardinality(P) + 1
    BY <2>4, <2>5, <1>2, FS_AddElement
  <2>7. ~(Cardinality(UpTo(m)) <= PageSize)
    BY <2>4, <1>p
  <2> QED BY <2>6, <2>7, <1>5, <1>2, <1>0
<1>7. Cardinality(P) = PageSize => P # {}
  BY <1>0, FS_EmptySet
<1>8. ASSUME Cardinality(P) = PageSize, NEW x \in S PROVE x \in P <=> x <= Max(P)
  BY <1>8, <1>7, <1>4, <1>u
<1> QED BY <1>2, <1>4, <1>6, <1>7, <1>8
--------------------------------------------------------------------------------
\* The events that are counted.
Kinds == {"edit", "reject", "busy", "lost", "offline", "grant", "module", "wipe"}

\* An event takes one from its own count and leaves the others alone.
LEMMA SpendOne ==
  ASSUME left \in Budget, NEW k \in Kinds, Spend(k)
  PROVE  /\ left' \in Budget /\ left'.write = left.write
         /\ left[k] > 0 /\ left'[k] = left[k] - 1
         /\ \A j \in Kinds \ {k} : left'[j] = left[j]
<1>1. CASE k = "edit"
  BY <1>1 DEF Spend, Kinds, Budget
<1>2. CASE k = "reject"
  BY <1>2 DEF Spend, Kinds, Budget
<1>3. CASE k = "busy"
  BY <1>3 DEF Spend, Kinds, Budget
<1>4. CASE k = "lost"
  BY <1>4 DEF Spend, Kinds, Budget
<1>5. CASE k = "offline"
  BY <1>5 DEF Spend, Kinds, Budget
<1>6. CASE k = "grant"
  BY <1>6 DEF Spend, Kinds, Budget
<1>7. CASE k = "module"
  BY <1>7 DEF Spend, Kinds, Budget
<1>8. CASE k = "wipe"
  BY <1>8 DEF Spend, Kinds, Budget
<1> QED BY <1>1, <1>2, <1>3, <1>4, <1>5, <1>6, <1>7, <1>8 DEF Kinds

\* A page in hand is of one object's rows and their values.
SnapType ==
  pc = "snapshot" =>
    /\ snap.obj \in Objects /\ snap.next \in Rows \cup {0}
    /\ DOMAIN snap.data \subseteq RowsOf(snap.obj)
    /\ \A r \in DOMAIN snap.data : snap.data[r] \in Value

\* What is in the feed exists: a page of changes never lacks a row.
FeedRows == \A i \in DOMAIN feed : srv[feed[i]] # None

\* The number of an edit is a value.
EditBound == \E s \in Scenarios : left.edit <= s.budget.edit

\* TypeOK is not inductive alone: pull stores what the feed points at, hydrate what the page holds.
ReplicaTypes == TypeOK /\ SnapType /\ FeedRows /\ EditBound

\* What the assumptions say of rows and objects.
LEMMA RowFacts ==
  /\ \A c \in Commands : RowOf[c] \in Rows /\ MethodOf[c] \in {"POST", "PATCH", "DELETE"}
  /\ \A r \in Rows : ObjectOf[r] \in Objects /\ r \in Nat /\ r > 0
  /\ \A o \in Objects : o \in Nat
  BY ReplicaAssumption

\* None, Gone and Null are no values; a command is one.
LEMMA ValueFacts ==
  /\ \A v \in Value : v # None /\ v # Gone /\ v # Null
  /\ None # Gone /\ None # Null /\ Gone # Null
  /\ Commands \subseteq Value
<1>1. Commands \subseteq Value
  <2> DEFINE U == UNION {0..s.budget.edit : s \in Scenarios}
  <2>1. Value = U \cup Commands
    BY Zenon DEF Value
  <2> HIDE DEF U
  <2> QED BY <2>1
<1> QED BY <1>1, ReplicaAssumption

\* A line of _hydration is never None.
LEMMA ProgressFacts ==
  /\ \A p \in Progress : p # None /\ p.after \in Nat /\ p.after \in Rows \cup {0} /\ p.done \in BOOLEAN
  /\ \A a \in Rows \cup {0}, d \in BOOLEAN : [after |-> a, done |-> d] \in Progress
<1>1. \A p \in Progress : p # None
  BY ReplicaAssumption
<1>2. Rows \cup {0} \subseteq Nat
  BY ReplicaAssumption
<1> QED BY <1>1, <1>2 DEF Progress

\* The values a scenario brings in: 0 and the numbers of its edits.
LEMMA ZeroIsValue ==
  ASSUME NEW s \in Scenarios
  PROVE  s.budget \in Budget /\ s.hydrated \in BOOLEAN /\ 0 \in Value /\ \A n \in Nat : n <= s.budget.edit => n \in Value
<1>1. s.budget \in Budget /\ s.budget.edit \in Nat /\ s.hydrated \in BOOLEAN
  BY ReplicaAssumption DEF Budget
<1>2. \A n \in Nat : n <= s.budget.edit => n \in 0..s.budget.edit
  BY <1>1
<1>3. \A n \in 0..s.budget.edit : n \in Value
  BY DEF Value
<1> QED BY <1>1, <1>2, <1>3

\* The head of the outbox and what is behind it.
LEMMA HeadAndTail ==
  ASSUME NEW q \in Seq(Entry), q # <<>>
  PROVE  /\ Len(q) \in Nat \ {0} /\ q[1] \in Entry /\ 1 \in DOMAIN q
         /\ q[1].cmd \in Commands /\ q[1].before \in Value \cup {Gone} /\ q[1].tries \in 0..MaxAttempts
         /\ Tail(q) \in Seq(Entry) /\ Len(Tail(q)) = Len(q) - 1
         /\ DOMAIN Tail(q) = 1..(Len(q) - 1) /\ DOMAIN q = 1..Len(q)
         /\ \A i \in DOMAIN Tail(q) : Tail(q)[i] = q[i + 1] /\ i + 1 \in DOMAIN q
<1>1. Len(q) \in Nat \ {0} /\ q[1] \in Entry /\ 1 \in DOMAIN q
  OBVIOUS
<1> QED BY <1>1 DEF Entry

\* An entry of the outbox is a command of some row.
LEMMA EntryFacts ==
  ASSUME TypeOK
  PROVE  \A i \in DOMAIN outbox :
           /\ outbox[i] \in Entry /\ outbox[i].cmd \in Commands /\ outbox[i].cmd \in InOutbox
           /\ RowOf[outbox[i].cmd] \in Rows /\ i \in Nat /\ i >= 1
<1>1. outbox \in Seq(Entry) /\ DOMAIN outbox = 1..Len(outbox) /\ Len(outbox) \in Nat
  BY DEF TypeOK
<1>2. \A i \in DOMAIN outbox : outbox[i] \in Entry /\ i \in Nat /\ i >= 1
  BY <1>1
<1>3. \A i \in DOMAIN outbox : outbox[i].cmd \in Commands
  BY <1>2 DEF Entry
<1> QED BY <1>2, <1>3, RowFacts DEF InOutbox

\* The types hold at the start, on a filled replica and on an empty one.
LEMMA InitTypes == Init => ReplicaTypes
<1> SUFFICES ASSUME Init PROVE ReplicaTypes
  OBVIOUS
<1>1. PICK s \in Scenarios :
        /\ left = s.budget
        /\ IF s.hydrated
             THEN /\ tab = [r \in Rows |-> IF r \in NewRows THEN Gone ELSE 0]
                  /\ hyd = [o \in Objects |-> [after |-> 0, done |-> TRUE]]
                  /\ meta = Objects
             ELSE /\ tab = [r \in Rows |-> Gone]
                  /\ hyd = [o \in Objects |-> None]
                  /\ meta = None
  BY DEF Init
<1>2. left \in Budget /\ left.edit \in Nat /\ 0 \in Value
  BY <1>1, ZeroIsValue DEF Budget
<1>3. tab \in [Rows -> Value \cup {Gone}] /\ meta \in (SUBSET Objects) \cup {None} /\ index \in (SUBSET Objects) \cup {None}
  <2>1. meta = Objects \/ meta = None
    BY <1>1
  <2>2. index = meta
    BY DEF Init
  <2>3. CASE s.hydrated
    BY <1>1, <1>2, <2>1, <2>2, <2>3
  <2>4. CASE ~s.hydrated
    BY <1>1, <1>2, <2>1, <2>2, <2>4
  <2> QED BY <2>3, <2>4
<1>4. hyd \in [Objects -> Progress \cup {None}]
  BY <1>1, ProgressFacts
<1>5. srv \in [Rows -> Value \cup {Gone, None}] /\ resp \in [Commands -> Value \cup {Gone, Null, None}]
  BY <1>2 DEF Init
<1>6. TypeOK
  <2>1. feed \in Seq(Rows) /\ outbox \in Seq(Entry) /\ cursor \in 0..Len(feed)
    BY DEF Init
  <2>2. granted \subseteq Objects /\ enabled \subseteq Objects /\ wiped \in BOOLEAN /\ tray \subseteq Commands /\ pc = "idle"
        /\ issued \subseteq Commands /\ dropped \subseteq Commands /\ known \subseteq Objects
    BY DEF Init
  <2> QED BY <1>2, <1>3, <1>4, <1>5, <2>1, <2>2 DEF TypeOK
<1>7. EditBound
  BY <1>1, <1>2 DEF EditBound
<1> QED BY <1>6, <1>7 DEF Init, ReplicaTypes, SnapType, FeedRows

\* A write leaves its own value or an archived row.
LEMMA AfterType ==
  ASSUME TypeOK, NEW c \in Commands
  PROVE  After(c) \in Value \cup {Gone} /\ After(c) \in {Gone, c} /\ After(c) # None
<1>1. After(c) \in {Gone, c}
  BY DEF After
<1> QED BY <1>1, ValueFacts

\* What an execution may change: the command's answer and the command's row, which exists
\* from then on and has one more entry in the feed.
LEMMA ExecuteFacts ==
  ASSUME TypeOK, NEW c \in Commands, Execute(c)
  PROVE  /\ srv' \in [Rows -> Value \cup {Gone, None}] /\ feed' \in Seq(Rows)
         /\ resp' \in [Commands -> Value \cup {Gone, Null, None}]
         /\ resp'[c] # None /\ \A d \in Commands \ {c} : resp'[d] = resp[d]
         /\ \A r \in Rows \ {RowOf[c]} : srv'[r] = srv[r]
         /\ \A r \in Rows : srv[r] # None => srv'[r] # None
         /\ Len(feed) <= Len(feed') /\ \A i \in 1..Len(feed) : feed'[i] = feed[i]
         /\ \/ resp[c] # None /\ UNCHANGED <<srv, feed, resp>>
            \/ /\ resp[c] = None /\ Executable(c) /\ Len(feed') = Len(feed) + 1
               /\ feed'[Len(feed')] = RowOf[c] /\ srv'[RowOf[c]] = After(c)
               /\ resp'[c] = IF MethodOf[c] = "DELETE" THEN Null ELSE After(c)
<1>1. CASE resp[c] # None /\ UNCHANGED <<srv, feed, resp>>
  BY <1>1 DEF TypeOK
<1>2. CASE resp[c] = None /\ Executable(c) /\ srv' = [srv EXCEPT ![RowOf[c]] = After(c)]
           /\ feed' = Append(feed, RowOf[c])
           /\ resp' = [resp EXCEPT ![c] = IF MethodOf[c] = "DELETE" THEN Null ELSE After(c)]
  <2>1. RowOf[c] \in Rows /\ After(c) \in Value \cup {Gone} /\ After(c) # None /\ Null # None
    BY RowFacts, ValueFacts, AfterType
  <2>2. srv' \in [Rows -> Value \cup {Gone, None}] /\ srv'[RowOf[c]] = After(c)
        /\ (\A r \in Rows \ {RowOf[c]} : srv'[r] = srv[r])
    BY <1>2, <2>1 DEF TypeOK
  <2>3. resp' \in [Commands -> Value \cup {Gone, Null, None}] /\ (\A d \in Commands \ {c} : resp'[d] = resp[d])
        /\ resp'[c] = IF MethodOf[c] = "DELETE" THEN Null ELSE After(c)
    BY <1>2, <2>1 DEF TypeOK
  <2>4. feed' \in Seq(Rows) /\ Len(feed') = Len(feed) + 1 /\ feed'[Len(feed')] = RowOf[c]
        /\ (\A i \in 1..Len(feed) : feed'[i] = feed[i]) /\ Len(feed) \in Nat
    BY <1>2, <2>1 DEF TypeOK
  <2>5. \A r \in Rows : srv[r] # None => srv'[r] # None
    BY <2>1, <2>2
  <2> QED BY <1>2, <2>1, <2>2, <2>3, <2>4, <2>5
<1> QED BY <1>1, <1>2 DEF Execute

\* hydrate works on an object that is held and not done.
LEMMA NextObjectFacts ==
  ASSUME TypeOK, Unhydrated # {}
  PROVE  NextObject \in Objects /\ hyd[NextObject] \in Progress /\ hyd[NextObject] # None /\ ~hyd[NextObject].done
<1>1. Unhydrated \subseteq Nat
  BY RowFacts DEF Unhydrated
<1>2. NextObject \in Unhydrated
  BY <1>1, Least DEF NextObject
<1> QED BY <1>2 DEF Unhydrated, TypeOK

\* A page of the feed: with room to spare it is all that is visible, else all that is
\* visible up to its last entry.
LEMMA FeedPage ==
  ASSUME TypeOK
  PROVE  /\ Page \subseteq Visible /\ Visible \subseteq 1..Len(feed) /\ \A i \in Visible : i > cursor
         /\ ~FullPage => Page = Visible
         /\ FullPage => /\ Max(Page) \in Page
                        /\ \A i \in Visible : i \in Page <=> i <= Max(Page)
<1>1. cursor \in Nat /\ Len(feed) \in Nat
  BY DEF TypeOK
<1>2. Visible \subseteq 1..Len(feed) /\ \A i \in Visible : i > cursor
  BY <1>1 DEF Visible
<1>3. IsFiniteSet(1..Len(feed))
  BY <1>1, FS_Interval
<1>4. IsFiniteSet(Visible)
  BY <1>2, <1>3, FS_Subset
<1>5. Visible \subseteq Nat
  BY <1>2
<1> QED BY <1>2, <1>4, <1>5, PageOf DEF Page, FullPage

\* A page of a snapshot holds live rows after the last one; a short one holds all of them.
LEMMA SnapshotPage ==
  ASSUME TypeOK, ListPage, NextObject \in computeScope
  PROVE  /\ snap'.obj = NextObject /\ snap'.next \in Rows \cup {0}
         /\ DOMAIN snap'.data \subseteq RowsOf(NextObject)
         /\ \A r \in DOMAIN snap'.data : /\ r > hyd[NextObject].after /\ snap'.data[r] = srv[r]
                                         /\ srv[r] \notin {None, Gone} /\ (snap'.next = 0 \/ r <= snap'.next)
         /\ \A r \in RowsOf(NextObject) :
              r > hyd[NextObject].after /\ srv[r] \notin {None, Gone} /\ (snap'.next = 0 \/ r <= snap'.next)
                => r \in DOMAIN snap'.data
         /\ snap'.next # 0 => snap'.next > hyd[NextObject].after
<1> DEFINE live == {r \in RowsOf(NextObject) : r > hyd[NextObject].after /\ srv[r] \notin {None, Gone}}
           page == FirstOf(live)
<1>1. /\ snap' = [obj |-> NextObject, data |-> [r \in page |-> srv[r]],
                  next |-> IF Cardinality(page) = PageSize THEN Max(page) ELSE 0]
  BY DEF ListPage
<1>2. live \subseteq Rows /\ live \subseteq Nat /\ IsFiniteSet(live)
  <2>1. live \subseteq Rows
    BY DEF RowsOf
  <2>2. Rows \subseteq Nat /\ IsFiniteSet(Rows)
    BY ReplicaAssumption
  <2> HIDE DEF live
  <2> QED BY <2>1, <2>2, FS_Subset
<1>l. \A r : r \in live <=> r \in RowsOf(NextObject) /\ r > hyd[NextObject].after /\ srv[r] \notin {None, Gone}
  OBVIOUS
<1>r. RowsOf(NextObject) \subseteq Rows /\ \A r \in Rows : r \in Nat /\ r # 0
  BY ReplicaAssumption DEF RowsOf
<1> HIDE DEF live
<1>3. /\ page \subseteq live
      /\ Cardinality(page) # PageSize => page = live
      /\ Cardinality(page) = PageSize => Max(page) \in page /\ \A x \in live : x \in page <=> x <= Max(page)
  BY <1>2, PageOf
<1> HIDE DEF page
<1>4. snap'.obj = NextObject /\ DOMAIN snap'.data = page /\ (\A r \in page : snap'.data[r] = srv[r])
      /\ snap'.next = IF Cardinality(page) = PageSize THEN Max(page) ELSE 0
  BY <1>1
<1>5. snap'.next \in Rows \cup {0} /\ (snap'.next # 0 => snap'.next > hyd[NextObject].after)
  BY <1>3, <1>4, <1>l, <1>r
<1>6. \A r \in live : snap'.next = 0 \/ r <= snap'.next <=> r \in page
  BY <1>3, <1>4, <1>l, <1>r
<1> QED BY <1>3, <1>4, <1>5, <1>6, <1>l

\* An execution announces a row that exists, and no row ceases to exist.
LEMMA FeedGrows ==
  ASSUME TypeOK, FeedRows, NEW c \in Commands, Execute(c)
  PROVE  FeedRows'
<1>1. RowOf[c] \in Rows /\ After(c) # None
  BY RowFacts, AfterType
<1>2. \A i \in 1..Len(feed) : feed[i] \in Rows
  BY DEF TypeOK
<1>3. feed' \in Seq(Rows) /\ Len(feed) \in Nat /\ DOMAIN feed = 1..Len(feed) /\ DOMAIN feed' = 1..Len(feed')
  BY ExecuteFacts DEF TypeOK
<1>4. \A r \in Rows : srv[r] # None => srv'[r] # None
  BY ExecuteFacts
<1>5. ASSUME NEW i \in 1..Len(feed') PROVE srv'[feed'[i]] # None
  <2>1. CASE i \in 1..Len(feed)
    <3>1. feed'[i] = feed[i]
      BY <2>1, ExecuteFacts
    <3> QED BY <1>2, <1>3, <1>4, <2>1, <3>1 DEF FeedRows
  <2>2. CASE i \notin 1..Len(feed)
    <3>1. Len(feed') = Len(feed) + 1 /\ feed'[Len(feed')] = RowOf[c] /\ srv'[RowOf[c]] = After(c)
      <4>1. ~(feed' = feed)
        BY <2>2
      <4> QED BY <4>1, ExecuteFacts
    <3>2. i = Len(feed')
      BY <1>3, <2>2, <3>1
    <3> QED BY <1>1, <3>1, <3>2
  <2> QED BY <2>1, <2>2
<1> QED BY <1>3, <1>5 DEF FeedRows

\* Every step keeps the types: one case per action.
LEMMA TypesStep == ReplicaTypes /\ [Next]_vars => ReplicaTypes'
<1> SUFFICES ASSUME ReplicaTypes, [Next]_vars PROVE ReplicaTypes'
  OBVIOUS
<1>0. TypeOK /\ SnapType /\ FeedRows /\ EditBound /\ left \in Budget
  BY DEF ReplicaTypes, TypeOK
<1> USE DEF ReplicaTypes, server, client
<1>eb. ASSUME left' = left \/ \E k \in Kinds : Spend(k) PROVE EditBound' /\ left' \in Budget
  <2>1. CASE left' = left
    BY <1>0, <2>1 DEF EditBound
  <2>2. CASE \E k \in Kinds : Spend(k)
    <3>1. PICK k \in Kinds : Spend(k)
      BY <2>2
    <3>2. left' \in Budget /\ left'[k] = left[k] - 1 /\ \A j \in Kinds \ {k} : left'[j] = left[j]
      BY <1>0, <3>1, SpendOne
    <3>3. left.edit \in Nat /\ left'.edit <= left.edit /\ left'.edit \in Nat
      <4>1. CASE k = "edit"
        BY <1>0, <3>2, <4>1 DEF Budget
      <4>2. CASE k # "edit"
        BY <1>0, <3>2, <4>2 DEF Budget, Kinds
      <4> QED BY <4>1, <4>2
    <3>4. PICK s \in Scenarios : left.edit <= s.budget.edit
      BY <1>0 DEF EditBound
    <3>5. s.budget.edit \in Nat
      BY ZeroIsValue DEF Budget
    <3> QED BY <3>2, <3>3, <3>4, <3>5 DEF EditBound
  <2> QED BY <1>eb, <2>1, <2>2
<1>1. ASSUME NEW r \in Rows, Edit(r) PROVE ReplicaTypes'
  <2>1. left.edit \in Value
    <3>1. PICK s \in Scenarios : left.edit <= s.budget.edit
      BY <1>0 DEF EditBound
    <3> QED BY <1>0, <3>1, ZeroIsValue DEF Budget
  <2>2. PICK v \in {left.edit, Gone} : srv' = [srv EXCEPT ![r] = v]
    BY <1>1 DEF Edit
  <2>3. v \in Value \cup {Gone} /\ v # None
    BY <2>1, <2>2, ValueFacts
  <2>4. srv' \in [Rows -> Value \cup {Gone, None}] /\ \A q \in Rows : srv[q] # None => srv'[q] # None
    BY <1>0, <2>2, <2>3 DEF TypeOK
  <2>5. feed' = Append(feed, r) /\ srv'[r] # None
    BY <1>0, <1>1, <2>2, <2>3 DEF Edit, TypeOK
  <2>6. feed' \in Seq(Rows) /\ Len(feed') = Len(feed) + 1 /\ feed'[Len(feed')] = r
        /\ (\A i \in 1..Len(feed) : feed'[i] = feed[i]) /\ Len(feed) \in Nat /\ \A i \in 1..Len(feed) : feed[i] \in Rows
    BY <1>0, <2>5 DEF TypeOK
  <2>7. FeedRows'
    BY <1>0, <2>4, <2>5, <2>6 DEF FeedRows
  <2>8. EditBound' /\ left' \in Budget
    BY <1>1, <1>eb DEF Edit, Kinds
  <2>9. cursor' \in 0..Len(feed')
    BY <1>0, <1>1, <2>6 DEF Edit, TypeOK
  <2>10. SnapType'
    BY <1>0, <1>1 DEF Edit, SnapType
  <2>11. TypeOK'
    BY <1>0, <1>1, <2>4, <2>6, <2>8, <2>9 DEF Edit, TypeOK
  <2> QED BY <2>7, <2>8, <2>10, <2>11
<1>2. ASSUME NEW o \in Objects, SetGrant(o) \/ SetModule(o) PROVE ReplicaTypes'
  <2>1. Toggle(granted, o) \subseteq Objects /\ Toggle(enabled, o) \subseteq Objects
    BY <1>0 DEF Toggle, TypeOK
  <2>2. EditBound' /\ left' \in Budget
    BY <1>2, <1>eb DEF SetGrant, SetModule, Kinds
  <2>3. granted' \subseteq Objects /\ enabled' \subseteq Objects /\ UNCHANGED <<srv, feed, resp, wiped, client, pc, snap, index, known, issued, dropped>>
    BY <1>0, <1>2, <2>1 DEF SetGrant, SetModule, TypeOK
  <2> QED BY <1>0, <2>2, <2>3 DEF TypeOK, SnapType, FeedRows
<1>3. CASE MarkWiped
  <2>2. EditBound' /\ left' \in Budget
    BY <1>3, <1>eb DEF MarkWiped, Kinds
  <2> QED BY <1>0, <1>3, <2>2 DEF MarkWiped, TypeOK, SnapType, FeedRows
<1>4. ASSUME NEW c \in Commands, enqueue(c) PROVE ReplicaTypes'
  <2>1. RowOf[c] \in Rows /\ c \in Value /\ MaxAttempts \in Nat
    BY RowFacts, ValueFacts, ReplicaAssumption
  <2>2. tab' \in [Rows -> Value \cup {Gone}]
    BY <1>0, <1>4, <2>1 DEF enqueue, TypeOK
  <2>3. [cmd |-> c, before |-> tab[RowOf[c]], tries |-> 0] \in Entry
    BY <1>0, <2>1 DEF TypeOK, Entry
  <2>4. outbox' \in Seq(Entry)
    BY <1>0, <1>4, <2>3 DEF enqueue, TypeOK
  <2>5. left' \in Budget /\ left'.edit = left.edit
    BY <1>0, <1>4 DEF enqueue, Budget
  <2>6. issued' \subseteq Commands
    BY <1>0, <1>4 DEF enqueue, TypeOK
  <2>7. TypeOK'
    BY <1>0, <1>4, <2>2, <2>4, <2>5, <2>6 DEF enqueue, TypeOK
  <2> QED BY <1>0, <1>4, <2>5, <2>7 DEF enqueue, SnapType, FeedRows, EditBound
<1>5. ASSUME NEW c \in Commands, discardConflict(c) PROVE ReplicaTypes'
  BY <1>0, <1>5 DEF discardConflict, TypeOK, SnapType, FeedRows, EditBound
<1>6. CASE open
  <2>1. EditBound' /\ left' \in Budget
    BY <1>6, <1>eb DEF open, Kinds
  <2>2. meta' \in (SUBSET Objects) \cup {None}
    BY <1>0, <1>6 DEF open, TypeOK
  <2>3. hyd' \in [Objects -> Progress \cup {None}]
    BY <1>0, <1>6, ProgressFacts DEF open, TypeOK
  <2>4. index' \in (SUBSET Objects) \cup {None}
    BY <1>0, <1>6, <2>2 DEF open, TypeOK
  <2>5. known' \subseteq Objects
    <3>1. meta' # None
      BY <1>0, <1>6, ReplicaAssumption DEF open, TypeOK
    <3> QED BY <1>0, <1>6, <2>2, <3>1 DEF open, TypeOK
  <2> QED BY <1>0, <1>6, <2>1, <2>2, <2>3, <2>4, <2>5 DEF open, TypeOK, SnapType, FeedRows
<1>h. outbox # <<>> => /\ outbox[1] \in Entry /\ Next1 \in Commands /\ Tail(outbox) \in Seq(Entry)
                       /\ file(outbox[1]) \subseteq Commands /\ rollback(outbox[1]) \in [Rows -> Value \cup {Gone}]
  <2> SUFFICES ASSUME outbox # <<>>
               PROVE  /\ outbox[1] \in Entry /\ Next1 \in Commands /\ Tail(outbox) \in Seq(Entry)
                      /\ file(outbox[1]) \subseteq Commands /\ rollback(outbox[1]) \in [Rows -> Value \cup {Gone}]
    OBVIOUS
  <2>1. outbox \in Seq(Entry) /\ tray \subseteq Commands /\ tab \in [Rows -> Value \cup {Gone}]
    BY <1>0 DEF TypeOK
  <2>2. outbox[1] \in Entry /\ outbox[1].cmd \in Commands /\ outbox[1].before \in Value \cup {Gone} /\ Tail(outbox) \in Seq(Entry)
    BY <2>1, HeadAndTail
  <2>3. RowOf[outbox[1].cmd] \in Rows
    BY <2>2, RowFacts
  <2> QED BY <2>1, <2>2, <2>3 DEF Next1, file, rollback
<1>7. CASE drainEmpty \/ drainWiped \/ hydrateDone
  BY <1>0, <1>7 DEF drainEmpty, drainWiped, hydrateDone, TypeOK, SnapType, FeedRows, EditBound
<1>8. CASE drainUnknown
  BY <1>0, <1>8, <1>h DEF drainUnknown, Draining, TypeOK, SnapType, FeedRows, EditBound
<1>9. CASE drainLost
  <2>1. EditBound' /\ left' \in Budget
    BY <1>9, <1>eb DEF drainLost, Kinds
  <2>2. Next1 \in Commands
    BY <1>9, <1>h DEF drainLost, Sendable, Draining
  <2>3. CASE Execute(Next1)
    <3>1. /\ srv' \in [Rows -> Value \cup {Gone, None}] /\ feed' \in Seq(Rows)
          /\ resp' \in [Commands -> Value \cup {Gone, Null, None}]
          /\ Len(feed) <= Len(feed')
      BY <1>0, <2>2, <2>3, ExecuteFacts
    <3>2. cursor' \in 0..Len(feed')
      BY <1>0, <1>9, <3>1 DEF drainLost, TypeOK
    <3>3. FeedRows'
      BY <1>0, <2>2, <2>3, ExecuteFacts, FeedGrows
    <3> QED BY <1>0, <1>9, <2>1, <3>1, <3>2, <3>3 DEF drainLost, TypeOK, SnapType
  <2>4. CASE UNCHANGED <<srv, feed, resp>>
    BY <1>0, <1>9, <2>1, <2>4 DEF drainLost, TypeOK, SnapType, FeedRows
  <2> QED BY <1>9, <2>3, <2>4 DEF drainLost
<1>10. CASE drainAccepted
  <2>2. Next1 \in Commands /\ Execute(Next1) /\ Tail(outbox) \in Seq(Entry)
    BY <1>10, <1>h DEF drainAccepted, Sendable, Draining
  <2>3. /\ srv' \in [Rows -> Value \cup {Gone, None}] /\ feed' \in Seq(Rows)
        /\ resp' \in [Commands -> Value \cup {Gone, Null, None}]
        /\ Len(feed) <= Len(feed') /\ resp'[Next1] # None
    BY <1>0, <2>2, ExecuteFacts
  <2>4. cursor' \in 0..Len(feed')
    BY <1>0, <1>10, <2>3 DEF drainAccepted, TypeOK
  <2>5. FeedRows'
    BY <1>0, <2>2, ExecuteFacts, FeedGrows
  <2>6. tab' \in [Rows -> Value \cup {Gone}]
    <3>1. resp'[Next1] = Null \/ resp'[Next1] \in Value \cup {Gone}
      BY <2>2, <2>3
    <3> QED BY <1>0, <1>10, <2>2, <3>1, RowFacts DEF drainAccepted, TypeOK
  <2> QED BY <1>0, <1>10, <2>2, <2>3, <2>4, <2>5, <2>6 DEF drainAccepted, TypeOK, SnapType, EditBound
<1>11. CASE drainRejected
  <2>1. EditBound' /\ left' \in Budget
    BY <1>11, <1>eb DEF drainRejected, Kinds
  <2> QED BY <1>0, <1>11, <1>h, <2>1 DEF drainRejected, Sendable, Draining, TypeOK, SnapType, FeedRows
<1>12. CASE drainRetryable
  <2>1. EditBound' /\ left' \in Budget
    BY <1>12, <1>eb DEF drainRetryable, Kinds
  <2>2. outbox' \in Seq(Entry) /\ tray' \subseteq Commands /\ tab' \in [Rows -> Value \cup {Gone}]
    <3>1. CASE outbox[1].tries + 1 < MaxAttempts
      <4>1. outbox \in Seq(Entry) /\ outbox # <<>> /\ outbox' = [outbox EXCEPT ![1].tries = @ + 1] /\ MaxAttempts \in Nat
        BY <1>0, <1>12, <3>1, ReplicaAssumption DEF TypeOK, drainRetryable, Sendable, Draining
      <4>2. [outbox[1] EXCEPT !.tries = @ + 1] \in Entry
        <5>1. outbox[1] \in Entry /\ outbox[1].tries \in 0..MaxAttempts
          BY <4>1, HeadAndTail
        <5>2. outbox[1].tries + 1 \in 0..MaxAttempts
          BY <3>1, <4>1, <5>1
        <5> QED BY <5>1, <5>2 DEF Entry
      <4>3. outbox' = [outbox EXCEPT ![1] = [outbox[1] EXCEPT !.tries = @ + 1]]
        BY <4>1
      <4>4. outbox' \in Seq(Entry)
        BY <4>1, <4>2, <4>3, HeadAndTail
      <4> QED BY <1>0, <1>12, <3>1, <4>4 DEF drainRetryable, TypeOK
    <3>2. CASE ~(outbox[1].tries + 1 < MaxAttempts)
      BY <1>12, <1>h, <3>2 DEF drainRetryable, Sendable, Draining
    <3> QED BY <3>1, <3>2
  <2> QED BY <1>0, <1>12, <2>1, <2>2 DEF drainRetryable, TypeOK, SnapType, FeedRows
<1>13. CASE reshape
  <2>1. tab' \in [Rows -> Value \cup {Gone}]
    BY <1>0, <1>13 DEF reshape, TypeOK
  <2>2. hyd' \in [Objects -> Progress \cup {None}]
    BY <1>0, <1>13, ProgressFacts DEF reshape, TypeOK
  <2> QED BY <1>0, <1>13, <2>1, <2>2 DEF reshape, TypeOK, SnapType, FeedRows, EditBound
<1>14. CASE hydrateUnknown
  <2>1. NextObject \in Objects /\ hyd[NextObject] \in Progress
    BY <1>0, <1>14, NextObjectFacts DEF hydrateUnknown
  <2>2. [hyd[NextObject] EXCEPT !.done = TRUE] \in Progress
    BY <2>1 DEF Progress
  <2>3. hyd' \in [Objects -> Progress \cup {None}]
    BY <1>0, <1>14, <2>1, <2>2 DEF hydrateUnknown, TypeOK
  <2> QED BY <1>0, <1>14, <2>3 DEF hydrateUnknown, TypeOK, SnapType, FeedRows, EditBound
<1>15. CASE ListPage
  <2>1. NextObject \in Objects
    BY <1>0, <1>15, NextObjectFacts DEF ListPage
  <2>2. SnapType'
    <3>1. CASE NextObject \in computeScope
      <4>1. \A r \in Rows : srv[r] \notin {None, Gone} => srv[r] \in Value
        BY <1>0 DEF TypeOK
      <4>2. RowsOf(NextObject) \subseteq Rows
        BY DEF RowsOf
      <4> QED BY <1>0, <1>15, <2>1, <3>1, <4>1, <4>2, SnapshotPage DEF SnapType, RowsOf
    <3>2. CASE NextObject \notin computeScope
      BY <1>15, <3>2 DEF ListPage, SnapType
    <3> QED BY <3>1, <3>2
  <2>3. pc' \in {"snapshot", "idle"}
    BY <1>15 DEF ListPage
  <2> QED BY <1>0, <1>15, <2>2, <2>3 DEF ListPage, TypeOK, FeedRows, EditBound
<1>16. CASE hydrate
  <2>1. snap.obj \in Objects /\ snap.next \in Rows \cup {0} /\ (\A r \in DOMAIN snap.data : snap.data[r] \in Value)
    BY <1>0, <1>16 DEF hydrate, SnapType
  <2>2. tab' \in [Rows -> Value \cup {Gone}]
    BY <1>0, <1>16, <2>1 DEF hydrate, TypeOK
  <2>3. hyd' \in [Objects -> Progress \cup {None}]
    <3>1. [after |-> snap.next, done |-> snap.next = 0] \in Progress
      BY <2>1, ProgressFacts
    <3> QED BY <1>0, <1>16, <2>1, <3>1 DEF hydrate, TypeOK
  <2>4. cursor' \in 0..Len(feed')
    BY <1>0, <1>16 DEF hydrate, TypeOK, Resume
  <2> QED BY <1>0, <1>16, <2>2, <2>3, <2>4 DEF hydrate, TypeOK, SnapType, FeedRows, EditBound
<1>17. CASE pull
  <2>1. \A r \in DOMAIN materialize : r \in Rows /\ materialize[r] = srv[r] /\ srv[r] \in Value \cup {Gone}
    <3>1. \A i \in Page : i \in DOMAIN feed /\ feed[i] \in Rows /\ srv[feed[i]] # None
      <4>1. Page \subseteq 1..Len(feed)
        BY <1>0, FeedPage
      <4>2. DOMAIN feed = 1..Len(feed) /\ \A i \in 1..Len(feed) : feed[i] \in Rows
        BY <1>0 DEF TypeOK
      <4> QED BY <1>0, <4>1, <4>2 DEF FeedRows
    <3> QED BY <1>0, <3>1 DEF materialize, TypeOK
  <2>2. tab' \in [Rows -> Value \cup {Gone}]
    BY <1>0, <1>17, <2>1 DEF pull, TypeOK
  <2>3. cursor' \in 0..Len(feed')
    <3>1. FullPage => Max(Page) \in 1..Len(feed)
      BY <1>0, FeedPage
    <3> QED BY <1>0, <1>17, <3>1 DEF pull, TypeOK
  <2>4. pc' \in {"idle", "pull"}
    BY <1>17 DEF pull
  <2> QED BY <1>0, <1>17, <2>2, <2>3, <2>4 DEF pull, TypeOK, SnapType, FeedRows, EditBound
<1>18. CASE wipeReplica
  <2>1. InOutbox \subseteq Commands
    <3>1. \A i \in DOMAIN outbox : outbox[i] \in Entry
      BY <1>0 DEF TypeOK
    <3> QED BY <3>1 DEF InOutbox, Entry
  <2>2. dropped' \subseteq Commands
    BY <1>0, <1>18, <2>1 DEF wipeReplica, TypeOK, InOutbox
  <2>3. outbox' \in Seq(Entry) /\ cursor' \in 0..Len(feed')
    BY <1>0, <1>18 DEF wipeReplica, TypeOK
  <2>4. tab' \in [Rows -> Value \cup {Gone}]
    BY <1>0, <1>18 DEF wipeReplica, TypeOK
  <2> QED BY <1>0, <1>18, <2>2, <2>3, <2>4 DEF wipeReplica, TypeOK, SnapType, FeedRows, EditBound
<1>19. CASE Interrupt
  <2>1. EditBound' /\ left' \in Budget
    BY <1>19, <1>eb DEF Interrupt, Kinds
  <2>2. index' \in (SUBSET Objects) \cup {None}
    BY <1>0, <1>19 DEF Interrupt, TypeOK
  <2> QED BY <1>0, <1>19, <2>1, <2>2 DEF Interrupt, TypeOK, SnapType, FeedRows
<1>20. CASE openWiped \/ wipeStorage \/ UNCHANGED vars
  BY <1>0, <1>20 DEF openWiped, wipeStorage, vars, TypeOK, SnapType, FeedRows, EditBound
<1> QED
  BY <1>1, <1>2, <1>3, <1>4, <1>5, <1>6, <1>7, <1>8, <1>9, <1>10, <1>11, <1>12, <1>13, <1>14, <1>15, <1>16,
     <1>17, <1>18, <1>19, <1>20 DEF Next, User, sync, wake, cycle

\* Rows, outbox, hydration lines, cursor and cycle have their types in every state: a page of
\* changes or of a snapshot (applyPage in core.ts, hydrate in replica.ts) stores only rows the server has,
\* attempts stay within MAX_ATTEMPTS, and the cursor never passes the end of the feed.
THEOREM ReplicaTypeCorrect == Spec => []TypeOK
<1>1. Spec => []ReplicaTypes
  BY InitTypes, TypesStep, PTL DEF Spec
<1>2. ReplicaTypes => TypeOK
  BY DEF ReplicaTypes
<1> QED BY <1>1, <1>2, PTL
--------------------------------------------------------------------------------
(* No write is lost. *)

\* A command is queued at most once.
Distinct == \A i, j \in DOMAIN outbox : outbox[i].cmd = outbox[j].cmd => i = j

\* A command is issued once; only what was issued waits, lies in the tray or was executed.
QueueInv ==
  /\ Distinct
  /\ issued \cap left.write = {}
  /\ InOutbox \subseteq issued /\ tray \subseteq issued
  /\ \A c \in Commands : resp[c] # None => c \in issued
  /\ NoSilentLoss

\* Nothing is queued, filed or executed at the start.
LEMMA InitQueue == Init => QueueInv
  BY DEF Init, QueueInv, Distinct, InOutbox, NoSilentLoss

\* What enters at the end and leaves at the front of the queue.
LEMMA Pushed ==
  ASSUME TypeOK, Distinct, NEW e \in Entry, e.cmd \notin InOutbox, outbox' = Append(outbox, e)
  PROVE  Distinct' /\ InOutbox' = InOutbox \cup {e.cmd}
<1>1. outbox \in Seq(Entry) /\ Len(outbox) \in Nat /\ DOMAIN outbox = 1..Len(outbox)
  BY DEF TypeOK
<1>2. DOMAIN outbox' = 1..(Len(outbox) + 1) /\ (\A i \in 1..Len(outbox) : outbox'[i] = outbox[i])
      /\ outbox'[Len(outbox) + 1] = e
  BY <1>1
<1>3. \A i \in DOMAIN outbox' : i \in DOMAIN outbox \/ i = Len(outbox) + 1
  BY <1>1, <1>2
<1>4. \A i \in DOMAIN outbox : outbox[i].cmd # e.cmd
  BY DEF InOutbox
<1>5. Distinct'
  BY <1>1, <1>2, <1>3, <1>4 DEF Distinct
<1>6. InOutbox' = {outbox'[i].cmd : i \in DOMAIN outbox'}
  BY DEF InOutbox
<1>7. \A c : c \in InOutbox' <=> c \in InOutbox \cup {e.cmd}
  <2>1. ASSUME NEW c, c \in InOutbox' PROVE c \in InOutbox \cup {e.cmd}
    <3>1. PICK i \in DOMAIN outbox' : c = outbox'[i].cmd
      BY <1>6, <2>1
    <3> QED BY <1>1, <1>2, <1>3, <3>1 DEF InOutbox
  <2>2. ASSUME NEW c, c \in InOutbox \cup {e.cmd} PROVE c \in InOutbox'
    <3>1. CASE c = e.cmd
      <4>1. Len(outbox) + 1 \in DOMAIN outbox'
        BY <1>1, <1>2
      <4> QED BY <1>2, <1>6, <3>1, <4>1
    <3>2. CASE c \in InOutbox
      <4>1. PICK i \in DOMAIN outbox : c = outbox[i].cmd
        BY <3>2 DEF InOutbox
      <4>2. i \in DOMAIN outbox' /\ outbox'[i] = outbox[i]
        BY <1>1, <1>2
      <4> QED BY <1>6, <4>1, <4>2
    <3> QED BY <2>2, <3>1, <3>2
  <2> QED BY <2>1, <2>2
<1> QED BY <1>5, <1>7

\* The head leaves: the others stay, and stay distinct.
LEMMA Popped ==
  ASSUME TypeOK, Distinct, outbox # <<>>, outbox' = Tail(outbox)
  PROVE  Distinct' /\ Next1 \in InOutbox /\ Next1 \in Commands /\ InOutbox' = InOutbox \ {Next1}
<1>1. /\ Len(outbox) \in Nat \ {0} /\ 1 \in DOMAIN outbox /\ Next1 \in Commands
      /\ DOMAIN outbox' = 1..(Len(outbox) - 1) /\ DOMAIN outbox = 1..Len(outbox)
      /\ \A i \in DOMAIN outbox' : outbox'[i] = outbox[i + 1] /\ i + 1 \in DOMAIN outbox
  BY HeadAndTail DEF TypeOK, Next1
<1>2. \A i \in DOMAIN outbox' : i \in Nat /\ i + 1 # 1
  BY <1>1
<1>3. Distinct'
  <2> SUFFICES ASSUME NEW i \in DOMAIN outbox', NEW j \in DOMAIN outbox', outbox'[i].cmd = outbox'[j].cmd
               PROVE  i = j
    BY DEF Distinct
  <2>1. i + 1 = j + 1
    BY <1>1 DEF Distinct
  <2> QED BY <1>2, <2>1
<1>4. Next1 \in InOutbox
  BY <1>1 DEF InOutbox, Next1
<1>5. InOutbox' = {outbox'[i].cmd : i \in DOMAIN outbox'}
  BY DEF InOutbox
<1>6. ASSUME NEW c, c \in InOutbox' PROVE c \in InOutbox /\ c # Next1
  <2>1. PICK i \in DOMAIN outbox' : c = outbox'[i].cmd
    BY <1>5, <1>6
  <2>2. c = outbox[i + 1].cmd /\ i + 1 \in DOMAIN outbox /\ i + 1 # 1
    BY <1>1, <1>2, <2>1
  <2> QED BY <1>1, <2>2 DEF InOutbox, Next1, Distinct
<1>7. ASSUME NEW c, c \in InOutbox, c # Next1 PROVE c \in InOutbox'
  <2>1. PICK i \in DOMAIN outbox : c = outbox[i].cmd
    BY <1>7 DEF InOutbox
  <2>2. i \in Nat /\ i # 1 /\ i - 1 \in DOMAIN outbox' /\ (i - 1) + 1 = i
    BY <1>1, <1>7, <2>1 DEF Next1
  <2>3. outbox'[i - 1] = outbox[i]
    BY <1>1, <2>2
  <2> QED BY <1>5, <2>1, <2>2, <2>3
<1> QED BY <1>1, <1>3, <1>4, <1>6, <1>7

\* Steps that neither move a command nor execute one.
LEMMA QueueQuiet ==
  ASSUME QueueInv, UNCHANGED <<outbox, tray, resp, issued, dropped>>, left'.write = left.write
  PROVE  QueueInv'
  BY DEF QueueInv, Distinct, InOutbox, NoSilentLoss

\* An event issues no command.
LEMMA WriteKept ==
  ASSUME left \in Budget, left' = left \/ \E k \in Kinds : Spend(k)
  PROVE  left'.write = left.write
  BY SpendOne

\* The head of the queue is filed.
LEMMA QueueFiled ==
  ASSUME TypeOK, QueueInv, outbox # <<>>, outbox' = Tail(outbox), tray' = file(outbox[1]),
         UNCHANGED <<resp, issued, dropped>>, left'.write = left.write
  PROVE  QueueInv'
<1>1. Distinct' /\ Next1 \in InOutbox /\ InOutbox' = InOutbox \ {Next1} /\ tray' = tray \cup {Next1}
  BY Popped DEF QueueInv, file, Next1
<1> QED BY <1>1 DEF QueueInv, NoSilentLoss

\* A command only moves from the outbox to an executed one, the tray or the dropped.
LEMMA QueueStep == TypeOK /\ QueueInv /\ [Next]_vars => QueueInv'
<1> SUFFICES ASSUME TypeOK, QueueInv, [Next]_vars PROVE QueueInv'
  OBVIOUS
<1>0. left \in Budget
  BY DEF TypeOK
<1>1. CASE (\E r \in Rows : Edit(r)) \/ (\E o \in Objects : SetGrant(o) \/ SetModule(o)) \/ MarkWiped \/ Interrupt
  <2>1. \E k \in Kinds : Spend(k)
    BY <1>1 DEF Edit, SetGrant, SetModule, MarkWiped, Interrupt, Kinds
  <2>2. UNCHANGED <<outbox, tray, resp, issued, dropped>>
    BY <1>1 DEF Edit, SetGrant, SetModule, MarkWiped, Interrupt, client, server
  <2> QED BY <1>0, <2>1, <2>2, WriteKept, QueueQuiet
<1>2. CASE open
  <2>1. left' = left \/ \E k \in Kinds : Spend(k)
    BY <1>2 DEF open, Kinds
  <2>2. UNCHANGED <<outbox, tray, resp, issued, dropped>>
    BY <1>2 DEF open, server
  <2> QED BY <1>0, <2>1, <2>2, WriteKept, QueueQuiet
<1>3. CASE drainEmpty \/ drainWiped \/ reshape \/ hydrateDone \/ hydrateUnknown \/ ListPage \/ hydrate \/ pull
            \/ openWiped \/ wipeStorage \/ UNCHANGED vars
  <2>1. UNCHANGED <<outbox, tray, resp, issued, dropped, left>>
    BY <1>3 DEF drainEmpty, drainWiped, reshape, hydrateDone, hydrateUnknown, ListPage, hydrate, pull, openWiped, wipeStorage,
                vars, client, server
  <2> QED BY <2>1, QueueQuiet
<1>4. ASSUME NEW c \in Commands, enqueue(c) PROVE QueueInv'
  <2>1. c \in left.write /\ left'.write = left.write \ {c} /\ issued' = issued \cup {c} /\ UNCHANGED <<resp, tray, dropped>>
    BY <1>0, <1>4 DEF enqueue, server, Budget
  <2>2. c \notin issued /\ c \notin InOutbox
    BY <2>1 DEF QueueInv
  <2>3. PICK e : e = [cmd |-> c, before |-> tab[RowOf[c]], tries |-> 0]
    OBVIOUS
  <2>4. e \in Entry /\ e.cmd = c /\ outbox' = Append(outbox, e)
    <3>1. RowOf[c] \in Rows /\ MaxAttempts \in Nat
      BY RowFacts, ReplicaAssumption
    <3>2. e \in Entry
      BY <2>3, <3>1 DEF TypeOK, Entry
    <3> QED BY <1>4, <2>3, <3>2 DEF enqueue
  <2>5. Distinct' /\ InOutbox' = InOutbox \cup {c}
    BY <2>2, <2>4, Pushed DEF QueueInv
  <2> QED BY <2>1, <2>2, <2>5 DEF QueueInv, NoSilentLoss
<1>5. ASSUME NEW c \in Commands, discardConflict(c) PROVE QueueInv'
  <2>1. InOutbox' = InOutbox /\ (Distinct => Distinct')
    BY <1>5 DEF discardConflict, InOutbox, Distinct
  <2> QED BY <1>5, <2>1 DEF discardConflict, QueueInv, NoSilentLoss, server
<1>6. CASE drainUnknown \/ drainRejected
  <2>1. left' = left \/ \E k \in Kinds : Spend(k)
    BY <1>6 DEF drainUnknown, drainRejected, Kinds
  <2>2. outbox # <<>> /\ outbox' = Tail(outbox) /\ tray' = file(outbox[1]) /\ UNCHANGED <<resp, issued, dropped>>
    BY <1>6 DEF drainUnknown, drainRejected, Sendable, Draining, server
  <2> QED BY <1>0, <2>1, <2>2, WriteKept, QueueFiled
<1>7. CASE drainRetryable
  <2>1. left'.write = left.write
    BY <1>0, <1>7, WriteKept DEF drainRetryable, Kinds
  <2>2. outbox # <<>> /\ UNCHANGED <<resp, issued, dropped>>
    BY <1>7 DEF drainRetryable, Sendable, Draining, server
  <2>3. CASE outbox[1].tries + 1 < MaxAttempts
    <3>1. outbox \in Seq(Entry) /\ outbox' = [outbox EXCEPT ![1].tries = @ + 1] /\ UNCHANGED tray
      BY <1>7, <2>3 DEF drainRetryable, TypeOK
    <3>2. DOMAIN outbox' = DOMAIN outbox /\ \A i \in DOMAIN outbox : outbox'[i].cmd = outbox[i].cmd
      <4>1. 1 \in DOMAIN outbox /\ outbox[1] \in Entry
        BY <2>2, <3>1, HeadAndTail
      <4> QED BY <3>1, <4>1 DEF Entry
    <3>3. InOutbox' = {outbox'[i].cmd : i \in DOMAIN outbox'}
      BY DEF InOutbox
    <3>4. InOutbox' = InOutbox
      BY <3>2, <3>3 DEF InOutbox
    <3>5. Distinct'
      BY <3>2 DEF Distinct, QueueInv
    <3> QED BY <2>1, <2>2, <3>1, <3>4, <3>5 DEF QueueInv, NoSilentLoss
  <2>4. CASE ~(outbox[1].tries + 1 < MaxAttempts)
    BY <1>7, <2>1, <2>2, <2>4, QueueFiled DEF drainRetryable
  <2> QED BY <2>3, <2>4
<1>8. CASE drainLost
  <2>1. left'.write = left.write
    BY <1>0, <1>8, WriteKept DEF drainLost, Kinds
  <2>2. outbox # <<>> /\ UNCHANGED <<outbox, tray, issued, dropped>>
    BY <1>8 DEF drainLost, Sendable, Draining, client
  <2>3. CASE Execute(Next1)
    <3>1. Next1 \in InOutbox /\ Next1 \in Commands
      BY <2>2, HeadAndTail DEF TypeOK, Next1, InOutbox
    <3>2. resp'[Next1] # None /\ \A d \in Commands \ {Next1} : resp'[d] = resp[d]
      BY <2>3, <3>1, ExecuteFacts
    <3>3. InOutbox' = InOutbox /\ (Distinct => Distinct') /\ issued \subseteq Commands
      BY <2>2 DEF InOutbox, Distinct, TypeOK
    <3> QED BY <2>1, <2>2, <3>1, <3>2, <3>3 DEF QueueInv, NoSilentLoss
  <2>4. CASE UNCHANGED <<srv, feed, resp>>
    BY <2>1, <2>2, <2>4, QueueQuiet
  <2> QED BY <1>8, <2>3, <2>4 DEF drainLost
<1>9. CASE drainAccepted
  <2>1. outbox # <<>> /\ outbox' = Tail(outbox) /\ UNCHANGED <<tray, issued, dropped, left>> /\ Execute(Next1)
    BY <1>9 DEF drainAccepted, Sendable, Draining
  <2>2. Distinct' /\ Next1 \in InOutbox /\ Next1 \in Commands /\ InOutbox' = InOutbox \ {Next1}
    BY <2>1, Popped DEF QueueInv
  <2>3. resp'[Next1] # None /\ (\A d \in Commands \ {Next1} : resp'[d] = resp[d]) /\ issued \subseteq Commands
    BY <2>1, <2>2, ExecuteFacts DEF TypeOK
  <2> QED BY <2>1, <2>2, <2>3 DEF QueueInv, NoSilentLoss
<1>10. CASE wipeReplica
  <2>1. outbox' = <<>> /\ tray' = {} /\ dropped' = dropped \cup InOutbox \cup tray /\ UNCHANGED <<resp, issued, left>>
    BY <1>10 DEF wipeReplica, InOutbox, server
  <2>2. InOutbox' = {} /\ Distinct'
    BY <2>1 DEF InOutbox, Distinct
  <2> QED BY <2>1, <2>2 DEF QueueInv, NoSilentLoss
<1> QED BY <1>1, <1>2, <1>3, <1>4, <1>5, <1>6, <1>7, <1>8, <1>9, <1>10 DEF Next, User, sync, wake, cycle

\* INV-S1 and INV-S4 for any rows, commands, scenarios and bounds: a write that enqueue
\* accepted waits in the outbox, lies in the tray, was executed, or was dropped by the user or
\* a wipe; outbox.ts takes it from the queue only in the transaction that puts it elsewhere.
THEOREM NothingLost == Spec => []NoSilentLoss
<1>1. Spec => [](ReplicaTypes /\ QueueInv)
  <2>1. Init => ReplicaTypes /\ QueueInv
    BY InitTypes, InitQueue
  <2>2. ReplicaTypes /\ QueueInv /\ [Next]_vars => (ReplicaTypes /\ QueueInv)'
    BY TypesStep, QueueStep DEF ReplicaTypes
  <2> QED BY <2>1, <2>2, PTL DEF Spec
<1>2. QueueInv => NoSilentLoss
  BY DEF QueueInv
<1> QED BY <1>1, <1>2, PTL
--------------------------------------------------------------------------------
(* A purge lasts. *)

\* The scenarios of the theorem: modules stay as they are, and the grants change at
\* most twice.
FewGrants == \A s \in Scenarios : s.budget.module = 0 /\ s.budget.grant <= 2

\* A command for the row is waiting.
Queued(r) == \E i \in DOMAIN outbox : RowOf[outbox[i].cmd] = r

\* The row of an object that is not held is not there, unless the object was given back
\* for good after the purge and a page has brought the row.
Purged(r) ==
  hyd[ObjectOf[r]] = None /\ ~Queued(r) => tab[r] = Gone \/ (left.grant = 0 /\ ObjectOf[r] \in granted)

\* Once a grant is withdrawn at most one change of grants is left, so an object that comes
\* back stays; and a cycle past open has a line for every object, so reshape purges them all.
PurgeInv ==
  /\ enabled = Objects /\ meta \in {None, Objects} /\ left.module = 0
  /\ \A o \in Objects : o \notin granted => left.grant <= 1
  /\ left.grant <= 2
  /\ pc \in {"drain", "scope", "hydrate", "snapshot", "pull"} => known = Objects
  /\ pc \in {"drain", "scope"} => \A o \in Objects : hyd[o] # None
  /\ pc \in {"hydrate", "snapshot", "pull"} =>
       \A o \in Objects : hyd[o] = None /\ o \in granted => left.grant = 0
  /\ \A r \in Rows : Purged(r)

\* At the start everything is granted, and held or empty.
LEMMA InitPurge == ASSUME FewGrants PROVE Init => PurgeInv
<1> SUFFICES ASSUME Init PROVE PurgeInv
  OBVIOUS
<1>1. PICK s \in Scenarios : left = s.budget /\ (meta = Objects \/ meta = None)
        /\ (s.hydrated => hyd = [o \in Objects |-> [after |-> 0, done |-> TRUE]])
        /\ (~s.hydrated => tab = [r \in Rows |-> Gone])
  BY DEF Init
<1>2. left.module = 0 /\ left.grant <= 2
  BY <1>1 DEF FewGrants
<1>3. \A r \in Rows : hyd[ObjectOf[r]] = None => tab[r] = Gone
  <2>1. CASE s.hydrated
    <3>1. [after |-> 0, done |-> TRUE] \in Progress
      BY ProgressFacts
    <3>2. [after |-> 0, done |-> TRUE] # None
      BY <3>1, ProgressFacts
    <3>3. \A r \in Rows : hyd[ObjectOf[r]] = [after |-> 0, done |-> TRUE]
      BY <1>1, <2>1, RowFacts
    <3> QED BY <3>2, <3>3
  <2>2. CASE ~s.hydrated
    BY <1>1, <2>2
  <2> QED BY <2>1, <2>2
<1> QED BY <1>1, <1>2, <1>3 DEF Init, PurgeInv, Purged

\* Steps that leave the rows, the queue and what is held alone.
LEMMA PurgeQuiet ==
  ASSUME TypeOK, PurgeInv, UNCHANGED <<enabled, meta, granted, hyd, tab, outbox, known>>,
         left'.module = left.module, left'.grant = left.grant,
         \/ pc' = pc \/ pc' \in {"idle", "wiping"} \/ (pc = "drain" /\ pc' = "scope")
         \/ (pc \in {"hydrate", "snapshot", "pull"} /\ pc' \in {"hydrate", "snapshot", "pull"})
  PROVE  PurgeInv'
<1>1. \A r \in Rows : Purged(r)'
  BY DEF PurgeInv, Purged, Queued
<1>2. CASE pc' = pc \/ pc' \in {"idle", "wiping"} \/ (pc = "drain" /\ pc' = "scope")
  BY <1>1, <1>2 DEF PurgeInv
<1>3. CASE pc \in {"hydrate", "snapshot", "pull"} /\ pc' \in {"hydrate", "snapshot", "pull"}
  BY <1>1, <1>3 DEF PurgeInv
<1> QED BY <1>2, <1>3

\* An event that is neither leaves the grants and the modules alone.
LEMMA SpendOther ==
  ASSUME left \in Budget, left' = left \/ \E k \in Kinds \ {"grant", "module"} : Spend(k)
  PROVE  left'.module = left.module /\ left'.grant = left.grant
  BY SpendOne DEF Kinds

\* While the queue is drained every object is held.
LEMMA PurgeDrain ==
  ASSUME TypeOK, PurgeInv, pc = "drain", pc' \in {"drain", "scope"}, UNCHANGED <<enabled, meta, granted, hyd, known>>,
         left'.module = left.module, left'.grant = left.grant
  PROVE  PurgeInv'
<1>1. \A r \in Rows : hyd[ObjectOf[r]] # None
  BY RowFacts DEF PurgeInv
<1>2. \A r \in Rows : Purged(r)'
  BY <1>1 DEF Purged
<1> QED BY <1>2 DEF PurgeInv

\* No rollback, answer or page brings a row of a purged object back: one case per action.
LEMMA PurgeStep == ReplicaTypes /\ PurgeInv /\ [Next]_vars => PurgeInv'
<1> SUFFICES ASSUME ReplicaTypes, PurgeInv, [Next]_vars PROVE PurgeInv'
  OBVIOUS
<1>0. TypeOK /\ SnapType /\ left \in Budget
  BY DEF TypeOK, ReplicaTypes
<1>o. \A r \in Rows : ObjectOf[r] \in Objects
  BY RowFacts
<1> USE DEF client, server
<1>1. CASE (\E r \in Rows : Edit(r)) \/ MarkWiped \/ Interrupt
  <2>1. \E k \in Kinds \ {"grant", "module"} : Spend(k)
    BY <1>1 DEF Edit, MarkWiped, Interrupt, Kinds
  <2>2. UNCHANGED <<enabled, meta, granted, hyd, tab, outbox, known>> /\ (pc' = pc \/ pc' = "idle")
    BY <1>1 DEF Edit, MarkWiped, Interrupt
  <2> QED BY <1>0, <2>1, <2>2, SpendOther, PurgeQuiet
<1>2. ASSUME NEW o \in Objects, SetModule(o) PROVE PurgeInv'
  BY <1>0, <1>2, SpendOne DEF SetModule, PurgeInv, Kinds
<1>3. ASSUME NEW o \in Objects, SetGrant(o) PROVE PurgeInv'
  <2>1. left.grant > 0 /\ left'.grant = left.grant - 1 /\ left'.module = left.module /\ left.grant \in Nat
    BY <1>0, <1>3, SpendOne DEF SetGrant, Kinds, Budget
  <2>2. UNCHANGED <<enabled, meta, hyd, tab, outbox, known, pc>> /\ granted' = Toggle(granted, o)
    BY <1>3 DEF SetGrant
  <2>3. left'.grant <= 1 /\ left'.grant \in Nat
    BY <2>1 DEF PurgeInv
  <2>4. \A r \in Rows : Purged(r)'
    BY <2>1, <2>2 DEF PurgeInv, Purged, Queued
  <2>5. pc \in {"hydrate", "snapshot", "pull"} => \A p \in Objects : hyd[p] = None /\ p \in granted' => left'.grant = 0
    <3> SUFFICES ASSUME pc \in {"hydrate", "snapshot", "pull"}, NEW p \in Objects, hyd[p] = None, p \in granted'
                 PROVE  left'.grant = 0
      OBVIOUS
    <3>1. p \notin granted
      BY <2>1 DEF PurgeInv
    <3>2. left.grant <= 1
      BY <3>1 DEF PurgeInv
    <3> QED BY <2>1, <3>2
  <2> QED BY <2>1, <2>2, <2>3, <2>4, <2>5 DEF PurgeInv
<1>4. ASSUME NEW c \in Commands, enqueue(c) PROVE PurgeInv'
  <2>1. left' = [left EXCEPT !.write = @ \ {c}] /\ UNCHANGED <<enabled, meta, hyd, granted, known, pc>>
        /\ outbox' = Append(outbox, [cmd |-> c, before |-> tab[RowOf[c]], tries |-> 0])
        /\ tab' = [tab EXCEPT ![RowOf[c]] = IF MethodOf[c] = "DELETE" THEN Gone ELSE c]
    BY <1>4 DEF enqueue
  <2>2. left'.grant = left.grant /\ left'.module = left.module
    BY <1>0, <2>1 DEF Budget
  <2>3. \A r \in Rows : Purged(r)'
    <3> SUFFICES ASSUME NEW r \in Rows PROVE Purged(r)'
      OBVIOUS
    <3>1. outbox \in Seq(Entry) /\ Len(outbox) \in Nat
      BY <1>0 DEF TypeOK
    <3>2. (\A i \in DOMAIN outbox : i \in DOMAIN outbox' /\ outbox'[i] = outbox[i])
          /\ Len(outbox) + 1 \in DOMAIN outbox' /\ outbox'[Len(outbox) + 1].cmd = c
      BY <2>1, <3>1
    <3>3. Queued(r) => Queued(r)'
      BY <3>2 DEF Queued
    <3>4. CASE r = RowOf[c]
      <4>1. Queued(r)'
        BY <3>2, <3>4 DEF Queued
      <4> QED BY <4>1 DEF Purged
    <3>5. CASE r # RowOf[c]
      <4>1. tab'[r] = tab[r]
        BY <1>0, <2>1, <3>5 DEF TypeOK
      <4> QED BY <2>1, <2>2, <3>3, <4>1 DEF Purged, PurgeInv
    <3> QED BY <3>4, <3>5
  <2> QED BY <2>1, <2>2, <2>3 DEF PurgeInv
<1>5. ASSUME NEW c \in Commands, discardConflict(c) PROVE PurgeInv'
  BY <1>0, <1>5, PurgeQuiet DEF discardConflict
<1>6. CASE open
  <2>1. left'.grant = left.grant /\ left'.module = left.module
    BY <1>0, <1>6, SpendOther DEF open, Kinds
  <2>2. meta' = Objects /\ known' = Objects
    BY <1>6 DEF open, PurgeInv
  <2>3. \A o \in Objects : hyd'[o] # None
    BY <1>6, <2>2, ProgressFacts DEF open
  <2>4. \A r \in Rows : Purged(r)'
    BY <1>o, <2>3 DEF Purged
  <2> QED BY <1>6, <2>1, <2>2, <2>3, <2>4 DEF open, PurgeInv
<1>7. CASE drainEmpty \/ drainWiped \/ drainUnknown \/ drainAccepted
  <2>1. pc = "drain" /\ pc' \in {"drain", "scope"} /\ UNCHANGED <<enabled, meta, granted, hyd, known, left>>
    BY <1>7 DEF drainEmpty, drainWiped, drainUnknown, drainAccepted, Sendable, Draining
  <2> QED BY <1>0, <2>1, PurgeDrain
<1>8. CASE drainLost \/ drainRejected \/ drainRetryable
  <2>1. left' = left \/ \E k \in Kinds \ {"grant", "module"} : Spend(k)
    BY <1>8 DEF drainLost, drainRejected, drainRetryable, Kinds
  <2>2. pc = "drain" /\ pc' \in {"drain", "scope"} /\ UNCHANGED <<enabled, meta, granted, hyd, known>>
    BY <1>8 DEF drainLost, drainRejected, drainRetryable, Sendable, Draining
  <2> QED BY <1>0, <2>1, <2>2, SpendOther, PurgeDrain
<1>9. CASE reshape
  <2>1. \A o \in Objects : hyd[o] # None /\ (hyd'[o] = None <=> o \notin computeScope)
    BY <1>9, ProgressFacts DEF reshape, PurgeInv
  <2>2. computeScope = granted
    BY <1>0 DEF computeScope, PurgeInv, TypeOK
  <2>3. \A r \in Rows : Purged(r)'
    BY <1>9, <1>o, <2>1 DEF Purged, reshape
  <2> QED BY <1>9, <2>1, <2>2, <2>3 DEF reshape, PurgeInv
<1>10. CASE hydrateDone
  BY <1>0, <1>10, PurgeQuiet DEF hydrateDone
<1>11. CASE ListPage
  <2>1. pc = "hydrate" /\ pc' \in {"snapshot", "idle"} /\ UNCHANGED <<enabled, meta, granted, hyd, tab, outbox, known, left>>
    BY <1>11 DEF ListPage
  <2> QED BY <1>0, <2>1, PurgeQuiet
<1>12. CASE hydrateUnknown
  <2>1. NextObject \in Objects /\ hyd[NextObject] \in Progress
    BY <1>0, <1>12, NextObjectFacts DEF hydrateUnknown
  <2>2. [hyd[NextObject] EXCEPT !.done = TRUE] \in Progress
    BY <2>1 DEF Progress
  <2>3. \A o \in Objects : hyd'[o] = None => hyd[o] = None
    BY <1>0, <1>12, <2>1, <2>2, ProgressFacts DEF hydrateUnknown, TypeOK
  <2>4. UNCHANGED <<enabled, meta, granted, tab, outbox, known, left, pc>> /\ pc = "hydrate"
    BY <1>12 DEF hydrateUnknown
  <2>5. \A r \in Rows : Purged(r)'
    BY <1>o, <2>3, <2>4 DEF Purged, Queued, PurgeInv
  <2> QED BY <2>3, <2>4, <2>5 DEF PurgeInv
<1>13. CASE hydrate
  <2>1. snap.obj \in Objects /\ DOMAIN snap.data \subseteq RowsOf(snap.obj) /\ snap.next \in Rows \cup {0}
    BY <1>0, <1>13 DEF SnapType, hydrate
  <2>2. [after |-> snap.next, done |-> snap.next = 0] \in Progress
    BY <2>1, ProgressFacts
  <2>3. \A o \in Objects : hyd'[o] = None => hyd[o] = None /\ o # snap.obj
    BY <1>0, <1>13, <2>1, <2>2, ProgressFacts DEF hydrate, TypeOK
  <2>4. UNCHANGED <<enabled, meta, granted, outbox, known, left>> /\ pc = "snapshot" /\ pc' = "hydrate"
    BY <1>13 DEF hydrate
  <2>5. \A r \in Rows : ObjectOf[r] # snap.obj => tab'[r] = tab[r]
    BY <1>13, <2>1 DEF hydrate, RowsOf
  <2>6. \A r \in Rows : Purged(r)'
    BY <1>o, <2>3, <2>4, <2>5 DEF Purged, Queued, PurgeInv
  <2> QED BY <2>3, <2>4, <2>6 DEF PurgeInv
<1>14. CASE pull
  <2>1. UNCHANGED <<enabled, meta, granted, hyd, outbox, known, left>> /\ pc = "pull" /\ pc' \in {"pull", "idle"}
    BY <1>14 DEF pull
  <2>2. \A r \in Rows : tab'[r] = tab[r] \/ ObjectOf[r] \in granted
    <3> SUFFICES ASSUME NEW r \in Rows, tab'[r] # tab[r] PROVE ObjectOf[r] \in granted
      OBVIOUS
    <3>1. r \in {feed[i] : i \in Page}
      BY <1>14 DEF pull, materialize
    <3>2. Page \subseteq Visible
      BY <1>0, FeedPage
    <3> QED BY <3>1, <3>2 DEF Visible, computeScope
  <2>3. \A r \in Rows : Purged(r)'
    BY <1>o, <2>1, <2>2 DEF Purged, Queued, PurgeInv
  <2> QED BY <2>1, <2>3 DEF PurgeInv
<1>15. CASE wipeReplica
  <2>1. \A r \in Rows : Purged(r)'
    BY <1>o, <1>15 DEF wipeReplica, Purged, PurgeInv
  <2> QED BY <1>15, <2>1 DEF wipeReplica, PurgeInv
<1>16. CASE openWiped \/ UNCHANGED vars
  BY <1>0, <1>16, PurgeQuiet DEF openWiped, vars
<1>17. CASE wipeStorage
  <2>1. \A r \in Rows : Purged(r)'
    BY <1>17 DEF wipeStorage, Purged
  <2> QED BY <1>17, <2>1 DEF wipeStorage, PurgeInv
<1> QED BY <1>1, <1>2, <1>3, <1>4, <1>5, <1>6, <1>7, <1>8, <1>9, <1>10, <1>11, <1>12, <1>13, <1>14, <1>15, <1>16, <1>17
        DEF Next, User, sync, wake, cycle

\* Once reshape has purged an object that is out of scope, no late rollback, answer, snapshot
\* page or page of changes of the same cycle brings a row of it back, whatever is refused, lost
\* or interrupted, as long as no module is switched and grants change at most twice. Beyond
\* that it fails (README, section 6): drainUnknown in outbox.ts files a command, row left alone.
THEOREM PurgeLasts == ASSUME FewGrants PROVE Spec => []PurgedStaysPurged
<1>1. Spec => [](ReplicaTypes /\ PurgeInv)
  <2>1. Init => ReplicaTypes /\ PurgeInv
    BY InitTypes, InitPurge
  <2>2. ReplicaTypes /\ PurgeInv /\ [Next]_vars => (ReplicaTypes /\ PurgeInv)'
    BY TypesStep, PurgeStep
  <2> QED BY <2>1, <2>2, PTL DEF Spec
<1>2. ReplicaTypes /\ PurgeInv => PurgedStaysPurged
  <2> SUFFICES ASSUME ReplicaTypes, PurgeInv, NEW r \in Rows, hyd[ObjectOf[r]] = None,
                      ObjectOf[r] \notin computeScope, \A c \in InOutbox : RowOf[c] # r
               PROVE  tab[r] = Gone
    BY DEF PurgedStaysPurged
  <2>1. ObjectOf[r] \notin granted
    BY RowFacts DEF computeScope, PurgeInv
  <2>2. ~Queued(r)
    BY DEF Queued, InOutbox
  <2> QED BY <2>1, <2>2 DEF PurgeInv, Purged
<1> QED BY <1>1, <1>2, PTL
--------------------------------------------------------------------------------
(* A replica that has caught up agrees with the server. *)

\* Nothing the user writes is refused: no answer is lost, no command is refused or given
\* up, and a row is created once, on a replica that has been filled.
NeverRefused(s) ==
  /\ s.budget.lost = 0 /\ s.budget.reject = 0 /\ s.budget.busy < MaxAttempts
  /\ \A c, d \in s.budget.write : MethodOf[c] = "POST" /\ MethodOf[d] = "POST" /\ RowOf[c] = RowOf[d] => c = d
  /\ s.hydrated \/ \A c \in s.budget.write : MethodOf[c] # "POST"

\* Nobody else writes a row the user writes, and the user writes it once; commands may be
\* refused, or answers lost as long as no command is refused or given up, since a command
\* that was executed may be refused when it is sent again.
NeverContested(s) ==
  /\ s.budget.edit = 0
  /\ \A c, d \in s.budget.write : RowOf[c] = RowOf[d] => c = d
  /\ s.budget.lost = 0 \/ (s.budget.busy < MaxAttempts /\ s.budget.reject = 0)

\* The scope shrinks at most once in each of its two ways.
Orderly ==
  \A s \in Scenarios : /\ s.budget.grant <= 1 /\ s.budget.module <= 1
                       /\ NeverRefused(s) \/ NeverContested(s)

\* The commands of the whole run, issued or to come.
Writes == issued \cup left.write
\* What the replica has to show for a row of the server.
Shown(r) == IF srv[r] = None THEN Gone ELSE srv[r]
\* The row's object is granted and its module is on.
InScope(r) == ObjectOf[r] \in computeScope
\* The pages of the snapshot read so far reach the row.
Covered(r) == hyd[ObjectOf[r]] # None /\ (hyd[ObjectOf[r]].done \/ r <= hyd[ObjectOf[r]].after)
\* A command for the row is queued and not executed.
Pending(r) == \E i \in DOMAIN outbox : RowOf[outbox[i].cmd] = r /\ resp[outbox[i].cmd] = None
\* The feed has an entry of the row above the cursor.
Announced(r) == \E i \in (cursor + 1)..Len(feed) : feed[i] = r

\* The scope never grows, and the metadata of the replica names what is in scope.
ScopeShrinks ==
  /\ granted = Objects \/ left.grant = 0
  /\ enabled = Objects \/ left.module = 0
  /\ left.grant <= 1 /\ left.module <= 1
  /\ meta # None => enabled \subseteq meta

\* A row is created by one command, and does not exist before it.
OnePost ==
  /\ \A c, d \in Writes : MethodOf[c] = "POST" /\ MethodOf[d] = "POST" /\ RowOf[c] = RowOf[d] => c = d
  /\ \A c \in Writes : MethodOf[c] = "POST" /\ resp[c] = None => srv[RowOf[c]] = None

\* A cycle that hydrates holds every object in scope; one that pulls has filled them.
Phase ==
  /\ pc # "idle" => meta # None
  /\ pc \in {"hydrate", "snapshot", "pull"} => \A o \in computeScope : hyd[o] # None
  /\ pc = "pull" => \A o \in computeScope : hyd[o].done

\* The page in hand is current, and has every live row between its two ends.
SnapOK ==
  pc = "snapshot" =>
    /\ hyd[snap.obj] # None /\ ~hyd[snap.obj].done
    /\ \A r \in DOMAIN snap.data : /\ r > hyd[snap.obj].after /\ snap.data[r] = srv[r]
                                   /\ snap.next = 0 \/ r <= snap.next
    /\ \A r \in RowsOf(snap.obj) :
         r > hyd[snap.obj].after /\ srv[r] \notin {None, Gone} /\ (snap.next = 0 \/ r <= snap.next)
           => r \in DOMAIN snap.data
    /\ snap.next # 0 => snap.next > hyd[snap.obj].after

\* A row that is filled in, is not about to be written and has not changed since the cursor
\* agrees. The cycle's end and the cursor at the end of the feed are a special case.
Agreed(r) == InScope(r) /\ Covered(r) /\ ~Pending(r) /\ ~Announced(r) => tab[r] = Shown(r)

\* What holds in either kind of scenario.
Ground == ReplicaTypes /\ QueueInv /\ ScopeShrinks /\ OnePost /\ Phase /\ SnapOK

\* The steps of a wipe are taken on a wiped device only.
Wiping == wipeReplica \/ openWiped \/ wipeStorage

LEMMA WipingWiped ==
  ASSUME TypeOK, Wiping
  PROVE  wiped'
  BY DEF TypeOK, Wiping, wipeReplica, openWiped, wipeStorage, server

\* Nothing is given back to the budget.
LEMMA LeftShrinks ==
  ASSUME TypeOK, [Next]_vars
  PROVE  /\ left' \in Budget /\ left'.write \subseteq left.write
         /\ \A k \in Kinds : left[k] \in Nat /\ left'[k] \in Nat /\ left'[k] <= left[k]
<1>0. left \in Budget
  BY DEF TypeOK
<1>n. \A l \in Budget : \A k \in Kinds : l[k] \in Nat
  BY DEF Budget, Kinds
<1>1. CASE \E k \in Kinds : Spend(k)
  <2>1. PICK k \in Kinds : Spend(k)
    BY <1>1
  <2>2. /\ left' \in Budget /\ left'.write = left.write /\ left'[k] = left[k] - 1
        /\ \A j \in Kinds \ {k} : left'[j] = left[j]
    BY <1>0, <2>1, SpendOne
  <2> QED BY <1>0, <1>n, <2>1, <2>2
<1>2. CASE left' = left
  BY <1>0, <1>n, <1>2
<1>3. ASSUME NEW c \in Commands, enqueue(c)
      PROVE  left' \in Budget /\ left'.write \subseteq left.write /\ \A k \in Kinds : left'[k] = left[k]
  BY <1>0, <1>3 DEF enqueue, Budget, Kinds
<1>4. left' = left \/ (\E k \in Kinds : Spend(k)) \/ \E c \in Commands : enqueue(c)
  BY DEF Next, User, sync, wake, cycle, vars, Edit, SetGrant, SetModule, MarkWiped, discardConflict, open, drainEmpty, drainUnknown,
         drainLost, drainWiped, drainAccepted, drainRejected, drainRetryable, reshape, hydrateDone, hydrateUnknown,
         ListPage, hydrate, pull, wipeReplica, openWiped, wipeStorage, Interrupt, Kinds
<1> QED BY <1>0, <1>n, <1>1, <1>2, <1>3, <1>4

\* The scope shrinks.
LEMMA ShrinkStep ==
  ASSUME ReplicaTypes, ScopeShrinks, [Next]_vars
  PROVE  ScopeShrinks' /\ computeScope' \subseteq computeScope
<1>0. TypeOK /\ left \in Budget /\ granted \subseteq Objects /\ enabled \subseteq Objects
  BY DEF ReplicaTypes, TypeOK
<1>l. left'.grant \in Nat /\ left'.grant <= left.grant /\ left'.module \in Nat /\ left'.module <= left.module
      /\ left.grant \in Nat /\ left.module \in Nat
  BY <1>0, LeftShrinks DEF Kinds
<1>1. ASSUME NEW o \in Objects, SetGrant(o) PROVE ScopeShrinks' /\ granted' \subseteq granted /\ enabled' = enabled
  <2>1. left.grant > 0 /\ left'.grant = left.grant - 1
    BY <1>0, <1>1, SpendOne DEF SetGrant, Kinds
  <2>2. granted = Objects /\ left'.grant = 0
    BY <1>l, <2>1 DEF ScopeShrinks
  <2>3. left'.module = left.module
    BY <1>0, <1>1, SpendOne DEF SetGrant, Kinds
  <2>4. granted' \subseteq granted /\ UNCHANGED <<enabled, meta>>
    BY <1>1, <2>2 DEF SetGrant, Toggle, client
  <2> QED BY <2>2, <2>3, <2>4 DEF ScopeShrinks
<1>2. ASSUME NEW o \in Objects, SetModule(o) PROVE ScopeShrinks' /\ enabled' \subseteq enabled /\ granted' = granted
  <2>1. left.module > 0 /\ left'.module = left.module - 1
    BY <1>0, <1>2, SpendOne DEF SetModule, Kinds
  <2>2. enabled = Objects /\ left'.module = 0
    BY <1>l, <2>1 DEF ScopeShrinks
  <2>3. left'.grant = left.grant
    BY <1>0, <1>2, SpendOne DEF SetModule, Kinds
  <2>4. enabled' \subseteq enabled /\ UNCHANGED <<granted, meta>>
    BY <1>2, <2>2 DEF SetModule, Toggle, client
  <2> QED BY <2>2, <2>3, <2>4 DEF ScopeShrinks
<1>3. ASSUME granted' = granted, enabled' = enabled, meta' # None => meta' = meta \/ meta' = enabled PROVE ScopeShrinks'
  BY <1>l, <1>3 DEF ScopeShrinks
<1>4. CASE ~\E o \in Objects : SetGrant(o) \/ SetModule(o)
  <2>1. granted' = granted /\ enabled' = enabled
    BY <1>4 DEF Next, User, sync, wake, cycle, vars, Edit, MarkWiped, enqueue, discardConflict, open, drainEmpty, drainUnknown,
         drainLost, drainWiped, drainAccepted, drainRejected, drainRetryable, reshape, hydrateDone, hydrateUnknown,
         ListPage, hydrate, pull, wipeReplica, openWiped, wipeStorage, Interrupt, server
  <2>2. meta' = meta \/ meta' = enabled \/ meta' = None
    BY <1>4 DEF Next, User, sync, wake, cycle, vars, Edit, MarkWiped, enqueue, discardConflict, open, drainEmpty, drainUnknown,
         drainLost, drainWiped, drainAccepted, drainRejected, drainRetryable, reshape, hydrateDone, hydrateUnknown,
         ListPage, hydrate, pull, wipeReplica, openWiped, wipeStorage, Interrupt, client
  <2> QED BY <1>3, <2>1, <2>2 DEF computeScope
<1> QED BY <1>1, <1>2, <1>4 DEF computeScope

\* Who writes on the server: another user, or the head of the queue.
LEMMA ServerWrites ==
  ASSUME TypeOK, [Next]_vars
  PROVE  \/ UNCHANGED <<srv, feed, resp>>
         \/ \E r \in Rows : Edit(r)
         \/ /\ drainLost \/ drainAccepted
            /\ Execute(Next1) /\ Next1 \in Commands /\ Next1 \in InOutbox /\ outbox # <<>>
<1>1. CASE drainLost \/ drainAccepted
  <2>1. outbox # <<>>
    BY <1>1 DEF drainLost, drainAccepted, Sendable, Draining
  <2>2. Next1 \in Commands /\ Next1 \in InOutbox
    BY <2>1, HeadAndTail DEF TypeOK, Next1, InOutbox
  <2>3. Execute(Next1) \/ UNCHANGED <<srv, feed, resp>>
    BY <1>1 DEF drainLost, drainAccepted
  <2> QED BY <1>1, <2>1, <2>2, <2>3
<1>2. CASE ~(drainLost \/ drainAccepted) /\ ~\E r \in Rows : Edit(r)
  BY <1>2 DEF Next, User, sync, wake, cycle, vars, SetGrant, SetModule, MarkWiped, enqueue, discardConflict, open, drainEmpty, drainUnknown,
         drainWiped, drainRejected, drainRetryable, reshape, hydrateDone, hydrateUnknown,
         ListPage, hydrate, pull, wipeReplica, openWiped, wipeStorage, Interrupt, server
<1> QED BY <1>1, <1>2

\* Only enqueue issues a command.
LEMMA OnlyEnqueueIssues ==
  ASSUME [Next]_vars
  PROVE  issued' = issued \/ \E c \in Commands : enqueue(c) /\ issued' = issued \cup {c}
  BY DEF Next, User, sync, wake, cycle, vars, Edit, SetGrant, SetModule, MarkWiped, enqueue, discardConflict, open, drainEmpty, drainUnknown,
         drainLost, drainWiped, drainAccepted, drainRejected, drainRetryable, reshape, hydrateDone, hydrateUnknown,
         ListPage, hydrate, pull, wipeReplica, openWiped, wipeStorage, Interrupt

\* No command comes from nowhere.
LEMMA WritesShrink ==
  ASSUME TypeOK, [Next]_vars
  PROVE  Writes' \subseteq Writes /\ issued \subseteq issued'
<1>1. left'.write \subseteq left.write
  BY LeftShrinks
<1>2. issued' = issued \/ \E c \in left.write : issued' = issued \cup {c}
  BY OnlyEnqueueIssues DEF enqueue
<1> QED BY <1>1, <1>2 DEF Writes

\* An id is fresh until its POST is executed.
LEMMA OnePostStep ==
  ASSUME ReplicaTypes, QueueInv, OnePost, [Next]_vars
  PROVE  OnePost'
<1>0. TypeOK /\ issued \subseteq Commands /\ left.write \subseteq Commands
  BY DEF ReplicaTypes, TypeOK, Budget
<1>1. Writes' \subseteq Writes /\ Writes \subseteq Commands
  BY <1>0, WritesShrink DEF Writes
<1>2. ASSUME NEW c \in Writes, MethodOf[c] = "POST", resp'[c] = None PROVE srv'[RowOf[c]] = None
  <2>0. RowOf[c] \in Rows /\ c \in Commands
    BY <1>1, RowFacts
  <2>1. CASE UNCHANGED <<srv, feed, resp>>
    BY <1>2, <2>1 DEF OnePost
  <2>2. CASE \E r \in Rows : Edit(r)
    <3>1. PICK r \in Rows : Edit(r)
      BY <2>2
    <3>2. srv[RowOf[c]] = None
      BY <1>2, <3>1 DEF OnePost, Edit
    <3>3. r # RowOf[c]
      BY <3>1, <3>2 DEF Edit
    <3> QED BY <1>0, <2>0, <3>1, <3>2, <3>3 DEF Edit, TypeOK
  <2>3. CASE Execute(Next1) /\ Next1 \in Commands /\ Next1 \in InOutbox
    <3>1. c # Next1 /\ resp[c] = None
      BY <1>0, <1>2, <2>0, <2>3, ExecuteFacts
    <3>2. srv[RowOf[c]] = None
      BY <1>2, <3>1 DEF OnePost
    <3>3. CASE RowOf[c] # RowOf[Next1]
      BY <1>0, <2>0, <2>3, <3>2, <3>3, ExecuteFacts
    <3>4. CASE RowOf[c] = RowOf[Next1]
      <4>1. Next1 \in Writes
        BY <2>3 DEF QueueInv, Writes
      <4>2. MethodOf[Next1] # "POST"
        BY <1>2, <3>1, <3>4, <4>1 DEF OnePost
      <4>3. ~Executable(Next1)
        BY <3>2, <3>4, <4>2 DEF Executable
      <4>4. srv' = srv
        BY <1>0, <2>3, <4>3, ExecuteFacts
      <4> QED BY <3>2, <4>4
    <3> QED BY <3>3, <3>4
  <2> QED BY <1>0, <2>1, <2>2, <2>3, ServerWrites
<1> QED BY <1>1, <1>2 DEF OnePost

\* The phases of a cycle do what the next one relies on.
LEMMA PhaseStep ==
  ASSUME ReplicaTypes, ScopeShrinks, Phase, [Next]_vars, ~wiped'
  PROVE  Phase'
<1>0. TypeOK /\ SnapType /\ computeScope' \subseteq computeScope /\ computeScope \subseteq Objects
  BY ShrinkStep DEF ReplicaTypes, TypeOK, computeScope
<1>1. CASE hyd' = hyd /\ meta' = meta /\ (pc' = pc \/ pc' = "idle" \/ (pc = "drain" /\ pc' = "scope"))
  BY <1>0, <1>1 DEF Phase
<1>2. CASE open
  <2>1. meta' # None
    <3>1. enabled # None
      BY <1>0, ReplicaAssumption DEF TypeOK
    <3> QED BY <1>2, <3>1 DEF open
  <2> QED BY <1>2, <2>1 DEF open, Phase
<1>3. CASE reshape
  <2>1. \A o \in computeScope : hyd'[o] # None
    BY <1>0, <1>3, ProgressFacts DEF reshape
  <2>2. pc = "scope" /\ pc' = "hydrate" /\ meta' = meta
    BY <1>3 DEF reshape
  <2> QED BY <1>0, <2>1, <2>2 DEF Phase
<1>4. CASE hydrateDone
  <2>1. \A o \in computeScope : hyd[o] # None /\ hyd[o].done
    BY <1>0, <1>4 DEF hydrateDone, Phase, Unhydrated
  <2>2. pc = "hydrate" /\ pc' = "pull" /\ hyd' = hyd /\ meta' = meta
    BY <1>4 DEF hydrateDone, client
  <2> QED BY <1>0, <2>1, <2>2 DEF Phase
<1>5. CASE hydrateUnknown
  <2>1. NextObject \in Objects /\ hyd[NextObject] \in Progress
    BY <1>0, <1>5, NextObjectFacts DEF hydrateUnknown
  <2>2. [hyd[NextObject] EXCEPT !.done = TRUE] \in Progress
    BY <2>1 DEF Progress
  <2>3. \A o \in Objects : hyd[o] # None => hyd'[o] # None
    BY <1>0, <1>5, <2>1, <2>2, ProgressFacts DEF hydrateUnknown, TypeOK
  <2>4. pc = "hydrate" /\ pc' = "hydrate" /\ meta' = meta
    BY <1>5 DEF hydrateUnknown
  <2> QED BY <1>0, <2>3, <2>4 DEF Phase
<1>6. CASE ListPage
  <2>1. pc = "hydrate" /\ pc' \in {"snapshot", "idle"} /\ hyd' = hyd /\ meta' = meta
    BY <1>6 DEF ListPage, client
  <2> QED BY <1>0, <2>1 DEF Phase
<1>7. CASE hydrate
  <2>1. snap.obj \in Objects /\ [after |-> snap.next, done |-> snap.next = 0] \in Progress
    BY <1>0, <1>7, ProgressFacts DEF hydrate, SnapType
  <2>2. \A o \in Objects : hyd[o] # None => hyd'[o] # None
    BY <1>0, <1>7, <2>1, ProgressFacts DEF hydrate, TypeOK
  <2>3. pc = "snapshot" /\ pc' = "hydrate" /\ meta' = meta
    BY <1>7 DEF hydrate
  <2> QED BY <1>0, <2>2, <2>3 DEF Phase
<1>8. CASE Wiping
  BY <1>0, <1>8, WipingWiped
<1>9. CASE ~(open \/ reshape \/ hydrateDone \/ hydrateUnknown \/ ListPage \/ hydrate \/ Wiping)
  <2>1. hyd' = hyd /\ meta' = meta /\ (pc' = pc \/ pc' = "idle" \/ (pc = "drain" /\ pc' = "scope"))
    BY <1>9 DEF Next, User, sync, wake, cycle, Wiping, vars, Edit, SetGrant, SetModule, MarkWiped, enqueue, discardConflict, drainEmpty, drainUnknown,
         drainLost, drainWiped, drainAccepted, drainRejected, drainRetryable, pull, Interrupt, client, Sendable, Draining
  <2> QED BY <1>1, <2>1
<1> QED BY <1>2, <1>3, <1>4, <1>5, <1>6, <1>7, <1>8, <1>9

\* Nobody writes between the two reads of a snapshot request, so the page stays current.
LEMMA SnapStep ==
  ASSUME ~SnapshotRace, ReplicaTypes, SnapOK, [Next]_vars
  PROVE  SnapOK'
<1>0. TypeOK
  BY DEF ReplicaTypes
<1>1. CASE ListPage
  <2>1. CASE NextObject \in computeScope
    <3>1. UNCHANGED <<srv, hyd>> /\ snap'.obj = NextObject /\ hyd[NextObject] # None /\ ~hyd[NextObject].done
      BY <1>0, <1>1, <2>1, SnapshotPage, NextObjectFacts DEF ListPage, server, client
    <3> QED BY <1>0, <1>1, <2>1, <3>1, SnapshotPage DEF SnapOK, RowsOf
  <2>2. CASE NextObject \notin computeScope
    BY <1>1, <2>2 DEF ListPage, SnapOK
  <2> QED BY <2>1, <2>2
<1>2. CASE ~ListPage
  <2>1. pc' # "snapshot" \/ (pc = "snapshot" /\ UNCHANGED <<srv, hyd, snap>>)
    BY <1>2 DEF Next, User, sync, wake, cycle, vars, Edit, SetGrant, SetModule, MarkWiped, enqueue, discardConflict, open, drainEmpty, drainUnknown,
         drainLost, drainWiped, drainAccepted, drainRejected, drainRetryable, reshape, hydrateDone, hydrateUnknown,
         hydrate, pull, wipeReplica, openWiped, wipeStorage, Interrupt, server, client, Sendable, Draining
  <2> QED BY <2>1 DEF SnapOK, RowsOf
<1> QED BY <1>1, <1>2

\* All of it together.
LEMMA GroundStep ==
  ASSUME ~SnapshotRace, Ground, [Next]_vars, ~wiped'
  PROVE  Ground'
  BY TypesStep, QueueStep, ShrinkStep, OnePostStep, PhaseStep, SnapStep DEF Ground, ReplicaTypes

\* A row that is covered stays so while it is in scope.
LEMMA CoveredStays ==
  ASSUME Ground, [Next]_vars, ~wiped', NEW r \in Rows, InScope(r)', Covered(r)
  PROVE  Covered(r)'
<1>0. TypeOK /\ SnapType /\ ObjectOf[r] \in Objects /\ r \in Nat
  BY RowFacts DEF Ground, ReplicaTypes
<1>i. InScope(r)
  BY ShrinkStep DEF Ground, InScope
<1>1. CASE hyd' = hyd
  BY <1>1 DEF Covered
<1>2. CASE open \/ reshape
  <2>1. hyd'[ObjectOf[r]] = hyd[ObjectOf[r]]
    BY <1>0, <1>i, <1>2 DEF open, reshape, Covered, InScope
  <2> QED BY <2>1 DEF Covered
<1>3. CASE hydrateUnknown
  <2>1. NextObject \in Objects /\ hyd[NextObject] \in Progress
    BY <1>0, <1>3, NextObjectFacts DEF hydrateUnknown
  <2>2. [hyd[NextObject] EXCEPT !.done = TRUE] \in Progress
    BY <2>1 DEF Progress
  <2>3. CASE NextObject = ObjectOf[r]
    BY <1>0, <1>3, <2>1, <2>2, <2>3, ProgressFacts DEF hydrateUnknown, Covered, TypeOK, Progress
  <2>4. CASE NextObject # ObjectOf[r]
    BY <1>0, <1>3, <2>4 DEF hydrateUnknown, Covered, TypeOK
  <2> QED BY <2>3, <2>4
<1>4. CASE hydrate
  <2>0. pc = "snapshot"
    BY <1>4 DEF hydrate
  <2>1. /\ snap.obj \in Objects /\ [after |-> snap.next, done |-> snap.next = 0] \in Progress
        /\ hyd[snap.obj] \in Progress /\ ~hyd[snap.obj].done /\ (snap.next # 0 => snap.next > hyd[snap.obj].after)
        /\ snap.next \in Nat
    <3>1. snap.obj \in Objects /\ snap.next \in Rows \cup {0}
      BY <1>0, <2>0 DEF SnapType
    <3>2. /\ hyd[snap.obj] # None /\ ~hyd[snap.obj].done
          /\ (snap.next # 0 => snap.next > hyd[snap.obj].after)
      BY <2>0 DEF Ground, SnapOK
    <3>3. hyd[snap.obj] \in Progress
      BY <1>0, <3>1, <3>2 DEF TypeOK
    <3> QED BY <3>1, <3>2, <3>3, ProgressFacts, RowFacts
  <2>2. CASE snap.obj = ObjectOf[r]
    <3>1. hyd'[ObjectOf[r]] = [after |-> snap.next, done |-> snap.next = 0]
      BY <1>0, <1>4, <2>2 DEF hydrate, TypeOK
    <3>2. r <= hyd[snap.obj].after /\ hyd[snap.obj].after \in Nat
      BY <2>1, <2>2, ProgressFacts DEF Covered
    <3>3. snap.next = 0 \/ r <= snap.next
      BY <1>0, <2>1, <3>2
    <3> QED BY <2>1, <3>1, <3>3, ProgressFacts DEF Covered
  <2>3. CASE snap.obj # ObjectOf[r]
    BY <1>0, <1>4, <2>3 DEF hydrate, Covered, TypeOK
  <2> QED BY <2>2, <2>3
<1>5. CASE Wiping
  BY <1>0, <1>5, WipingWiped
<1> QED
  BY <1>1, <1>2, <1>3, <1>4, <1>5
  DEF Next, User, sync, wake, cycle, Wiping, vars, Edit, SetGrant, SetModule, MarkWiped, enqueue, discardConflict, drainEmpty, drainUnknown,
      drainLost, drainWiped, drainAccepted, drainRejected, drainRetryable, hydrateDone, ListPage, pull, Interrupt, client

\* Only a snapshot page covers more.
LEMMA CoveredBefore ==
  ASSUME Ground, [Next]_vars, ~wiped', ~hydrate, NEW r \in Rows, InScope(r)', Covered(r)'
  PROVE  Covered(r)
<1>0. TypeOK /\ ObjectOf[r] \in Objects /\ r \in Nat /\ r > 0
  BY RowFacts DEF Ground, ReplicaTypes
<1>i. InScope(r)
  BY ShrinkStep DEF Ground, InScope
<1>1. CASE hyd' = hyd
  BY <1>1 DEF Covered
<1>2. CASE open \/ reshape
  <2>1. hyd'[ObjectOf[r]] = hyd[ObjectOf[r]] \/ hyd'[ObjectOf[r]] = [after |-> 0, done |-> FALSE]
    BY <1>0, <1>i, <1>2 DEF open, reshape, InScope
  <2>2. hyd'[ObjectOf[r]] # [after |-> 0, done |-> FALSE]
    BY <1>0 DEF Covered
  <2> QED BY <2>1, <2>2 DEF Covered
<1>3. CASE hydrateUnknown
  <2>1. NextObject \notin meta /\ meta # None
    BY <1>3 DEF hydrateUnknown, Ground, Phase
  <2>2. NextObject # ObjectOf[r]
    BY <1>i, <2>1 DEF Ground, ScopeShrinks, InScope, computeScope
  <2> QED BY <1>0, <1>3, <2>2 DEF hydrateUnknown, Covered, TypeOK
<1>4. CASE Wiping
  BY <1>0, <1>4, WipingWiped
<1> QED
  BY <1>1, <1>2, <1>3, <1>4
  DEF Next, User, sync, wake, cycle, Wiping, vars, Edit, SetGrant, SetModule, MarkWiped, enqueue, discardConflict, drainEmpty, drainUnknown,
      drainLost, drainWiped, drainAccepted, drainRejected, drainRetryable, hydrateDone, ListPage, pull, Interrupt, client

\* A row nothing happened to still agrees.
LEMMA AgreedStays ==
  ASSUME Ground, [Next]_vars, ~wiped', ~hydrate, NEW r \in Rows, Agreed(r),
         Pending(r) => Pending(r)', Announced(r) => Announced(r)',
         InScope(r)' => tab'[r] = tab[r], srv'[r] = srv[r]
  PROVE  Agreed(r)'
<1> SUFFICES ASSUME InScope(r)', Covered(r)', ~Pending(r)', ~Announced(r)' PROVE tab'[r] = Shown(r)'
  BY DEF Agreed
<1>1. InScope(r)
  BY ShrinkStep DEF Ground, InScope
<1>2. Covered(r)
  BY CoveredBefore
<1>3. tab[r] = Shown(r)
  BY <1>1, <1>2 DEF Agreed
<1> QED BY <1>3 DEF Shown

\* The feed only grows; where the cursor stays, an entry above it stays above it.
LEMMA AnnouncedStays ==
  ASSUME TypeOK, cursor' = cursor, feed' \in Seq(Rows), Len(feed) <= Len(feed'),
         \A i \in 1..Len(feed) : feed'[i] = feed[i], NEW r, Announced(r)
  PROVE  Announced(r)'
<1>1. PICK i \in (cursor + 1)..Len(feed) : feed[i] = r
  BY DEF Announced
<1>2. cursor \in Nat /\ Len(feed) \in Nat /\ Len(feed') \in Nat
  BY DEF TypeOK
<1>3. i \in 1..Len(feed) /\ i \in (cursor' + 1)..Len(feed')
  BY <1>1, <1>2
<1> QED BY <1>1, <1>3 DEF Announced

\* A pop takes a pending command from no row but its own.
LEMMA PendingStays ==
  ASSUME TypeOK, outbox # <<>>, outbox' = Tail(outbox), Distinct,
         \A d \in Commands \ {Next1} : resp'[d] = resp[d],
         NEW r, r # RowOf[Next1] \/ resp[Next1] # None, Pending(r)
  PROVE  Pending(r)'
<1>1. /\ Len(outbox) \in Nat \ {0} /\ 1 \in DOMAIN outbox /\ DOMAIN outbox = 1..Len(outbox)
      /\ DOMAIN outbox' = 1..(Len(outbox) - 1)
      /\ \A i \in DOMAIN outbox' : outbox'[i] = outbox[i + 1]
  BY HeadAndTail DEF TypeOK
<1>2. PICK i \in DOMAIN outbox : RowOf[outbox[i].cmd] = r /\ resp[outbox[i].cmd] = None
  BY DEF Pending
<1>3. i # 1 /\ i \in Nat
  BY <1>1, <1>2 DEF Next1
<1>4. i - 1 \in DOMAIN outbox' /\ (i - 1) + 1 = i
  BY <1>1, <1>3
<1>5. outbox'[i - 1] = outbox[i]
  BY <1>1, <1>4
<1>6. outbox[i].cmd \in Commands /\ outbox[i].cmd # Next1
  BY <1>1, <1>2, <1>3, EntryFacts DEF Distinct, Next1
<1> QED BY <1>2, <1>4, <1>5, <1>6 DEF Pending

\* What each of the two kinds of scenario guarantees at a step: a replayed answer is the
\* row as it is; a command that is given up had seen the row as it is; a row not filled in
\* yet is not there, or as it is.
Replays ==
  \A i \in DOMAIN outbox : resp[outbox[i].cmd] \notin {None, Null} => srv[RowOf[outbox[i].cmd]] = resp[outbox[i].cmd]

\* The command at the head is refused, or has run out of attempts: rolled back and filed.
GivesUp == drainRejected \/ (drainRetryable /\ ~(outbox[1].tries + 1 < MaxAttempts))

\* A row not filled in yet is not there, or is as the server has it.
Blank(r) == InScope(r) /\ ~Covered(r) /\ ~Pending(r) => tab[r] \in {Gone, Shown(r)}

\* Every step keeps the rows agreed, given what the scenario guarantees: one case per action.
LEMMA AgreedStep ==
  ASSUME Ground, [Next]_vars, ~wiped', \A q \in Rows : Agreed(q), Replays,
         GivesUp => (InScope(RowOf[Next1]) => outbox[1].before = Shown(RowOf[Next1])),
         \A q \in Rows : Blank(q), NEW r \in Rows
  PROVE  Agreed(r)'
<1>0. TypeOK /\ SnapType /\ QueueInv /\ Distinct /\ FeedRows /\ ObjectOf[r] \in Objects /\ r \in Nat /\ r > 0
  BY RowFacts DEF Ground, ReplicaTypes, QueueInv
<1>i. InScope(r)' => InScope(r)
  BY ShrinkStep DEF Ground, InScope
<1>q. outbox # <<>> => Next1 \in Commands /\ RowOf[Next1] \in Rows /\ outbox[1].before \in Value \cup {Gone}
  BY <1>0, HeadAndTail, RowFacts DEF TypeOK, Next1
<1>1. CASE UNCHANGED <<srv, feed, resp, outbox, cursor>> /\ ~hydrate /\ (InScope(r)' => tab'[r] = tab[r])
  BY <1>1, AgreedStays DEF Pending, Announced
<1>2. ASSUME NEW p \in Rows, Edit(p) PROVE Agreed(r)'
  <2>1. feed' = Append(feed, p) /\ UNCHANGED <<resp, outbox, cursor, tab, pc>> /\ ~hydrate
    BY <1>2, <1>0 DEF Edit, client, hydrate, TypeOK, Ground
  <2>2. feed' \in Seq(Rows) /\ Len(feed') = Len(feed) + 1 /\ feed'[Len(feed')] = p /\ (\A i \in 1..Len(feed) : feed'[i] = feed[i])
        /\ cursor \in Nat /\ Len(feed) \in Nat /\ cursor <= Len(feed)
    BY <1>0, <2>1 DEF TypeOK
  <2>3. CASE r = p
    <3>1. Announced(r)'
      <4>1. Len(feed') \in (cursor' + 1)..Len(feed')
        BY <2>1, <2>2
      <4> QED BY <2>2, <2>3, <4>1 DEF Announced
    <3> QED BY <3>1 DEF Agreed
  <2>4. CASE r # p
    <3>1. srv'[r] = srv[r]
      BY <1>0, <1>2, <2>4 DEF Edit, TypeOK
    <3>2. Announced(r) => Announced(r)'
      BY <1>0, <2>1, <2>2, AnnouncedStays
    <3>3. Pending(r) => Pending(r)'
      BY <2>1 DEF Pending
    <3> QED BY <2>1, <3>1, <3>2, <3>3, AgreedStays
  <2> QED BY <2>3, <2>4
<1>3. ASSUME NEW c \in Commands, enqueue(c) PROVE Agreed(r)'
  <2>1. /\ UNCHANGED <<srv, feed, resp, cursor, pc, snap, hyd>> /\ c \in left.write
        /\ outbox' = Append(outbox, [cmd |-> c, before |-> tab[RowOf[c]], tries |-> 0])
        /\ tab' = [tab EXCEPT ![RowOf[c]] = IF MethodOf[c] = "DELETE" THEN Gone ELSE c]
    BY <1>3 DEF enqueue, server
  <2>2. outbox \in Seq(Entry) /\ Len(outbox) \in Nat
    BY <1>0 DEF TypeOK
  <2>3. (\A i \in DOMAIN outbox : i \in DOMAIN outbox' /\ outbox'[i] = outbox[i])
        /\ Len(outbox) + 1 \in DOMAIN outbox' /\ outbox'[Len(outbox) + 1].cmd = c
    BY <2>1, <2>2
  <2>4. CASE r = RowOf[c]
    <3>1. resp[c] = None
      BY <1>0, <2>1 DEF QueueInv
    <3>2. Pending(r)'
      BY <2>1, <2>3, <2>4, <3>1 DEF Pending
    <3> QED BY <3>2 DEF Agreed
  <2>5. CASE r # RowOf[c]
    <3>1. Pending(r) => Pending(r)'
      BY <2>1, <2>3 DEF Pending
    <3>2. tab'[r] = tab[r] /\ (Announced(r) => Announced(r)')
      BY <1>0, <2>1, <2>5 DEF TypeOK, Announced
    <3>3. ~hydrate
      BY <2>1 DEF hydrate
    <3> QED BY <2>1, <3>1, <3>2, <3>3, AgreedStays
  <2> QED BY <2>4, <2>5
<1>4. CASE drainUnknown
  <2>1. outbox # <<>> /\ outbox' = Tail(outbox) /\ UNCHANGED <<srv, feed, resp, cursor, tab>> /\ pc = "drain"
        /\ ObjectOf[RowOf[Next1]] \notin meta
    BY <1>4 DEF drainUnknown, Draining, server
  <2>2. CASE r = RowOf[Next1]
    <3>1. ~InScope(r)
      BY <2>1, <2>2 DEF Ground, ScopeShrinks, Phase, InScope, computeScope
    <3> QED BY <1>i, <3>1 DEF Agreed
  <2>3. CASE r # RowOf[Next1]
    <3>1. Pending(r) => Pending(r)'
      BY <1>0, <2>1, <2>3, PendingStays
    <3>2. ~hydrate /\ (Announced(r) => Announced(r)')
      BY <2>1 DEF hydrate, Announced
    <3> QED BY <2>1, <3>1, <3>2, AgreedStays
  <2> QED BY <2>2, <2>3
<1>5. CASE GivesUp
  <2>1. outbox # <<>> /\ outbox' = Tail(outbox) /\ tab' = rollback(outbox[1]) /\ UNCHANGED <<srv, feed, resp, cursor>> /\ pc = "drain"
    BY <1>5 DEF GivesUp, drainRejected, drainRetryable, Sendable, Draining, server
  <2>2. CASE r = RowOf[Next1]
    <3>1. tab'[r] = outbox[1].before
      BY <1>0, <2>1, <2>2 DEF rollback, Next1, TypeOK
    <3>2. InScope(r)' => tab'[r] = Shown(r)
      BY <1>i, <1>5, <2>2, <3>1
    <3>3. Shown(r)' = Shown(r)
      BY <2>1 DEF Shown
    <3> QED BY <3>2, <3>3 DEF Agreed
  <2>3. CASE r # RowOf[Next1]
    <3>1. Pending(r) => Pending(r)'
      BY <1>0, <2>1, <2>3, PendingStays
    <3>2. ~hydrate /\ (Announced(r) => Announced(r)')
      BY <2>1 DEF hydrate, Announced
    <3>3. tab'[r] = tab[r]
      BY <1>0, <2>1, <2>3 DEF rollback, Next1, TypeOK
    <3> QED BY <2>1, <3>1, <3>2, <3>3, AgreedStays
  <2> QED BY <2>2, <2>3
<1>6. CASE drainRetryable /\ ~GivesUp
  <2>1. /\ outbox # <<>> /\ outbox' = [outbox EXCEPT ![1].tries = @ + 1]
        /\ UNCHANGED <<srv, feed, resp, cursor, tab>> /\ pc = "drain"
    BY <1>6 DEF GivesUp, drainRetryable, Sendable, Draining, server
  <2>2. DOMAIN outbox' = DOMAIN outbox /\ \A i \in DOMAIN outbox : outbox'[i].cmd = outbox[i].cmd
    <3>1. outbox \in Seq(Entry) /\ 1 \in DOMAIN outbox /\ outbox[1] \in Entry
      BY <1>0, <2>1, HeadAndTail DEF TypeOK
    <3> QED BY <2>1, <3>1 DEF Entry
  <2>3. Pending(r) => Pending(r)'
    BY <2>1, <2>2 DEF Pending
  <2>4. ~hydrate /\ (Announced(r) => Announced(r)')
    BY <2>1 DEF hydrate, Announced
  <2> QED BY <2>1, <2>3, <2>4, AgreedStays
<1>x. ASSUME Execute(Next1), outbox # <<>>, cursor' = cursor
      PROVE  /\ resp[Next1] = None /\ r = RowOf[Next1] => Announced(r)'
             /\ Announced(r) => Announced(r)'
             /\ r # RowOf[Next1] \/ resp[Next1] # None => srv'[r] = srv[r]
  <2>1. Next1 \in Commands
    BY <1>q, <1>x
  <2>2. feed' \in Seq(Rows) /\ Len(feed) <= Len(feed') /\ (\A i \in 1..Len(feed) : feed'[i] = feed[i])
    BY <1>0, <1>x, <2>1, ExecuteFacts
  <2>3. Announced(r) => Announced(r)'
    BY <1>0, <1>x, <2>2, AnnouncedStays
  <2>4. r # RowOf[Next1] \/ resp[Next1] # None => srv'[r] = srv[r]
    BY <1>0, <1>x, <2>1, ExecuteFacts
  <2>5. ASSUME resp[Next1] = None, r = RowOf[Next1] PROVE Announced(r)'
    <3>1. Len(feed') = Len(feed) + 1 /\ feed'[Len(feed')] = RowOf[Next1]
      BY <1>0, <1>x, <2>1, <2>5, ExecuteFacts
    <3>2. cursor \in Nat /\ Len(feed) \in Nat /\ cursor <= Len(feed)
      BY <1>0 DEF TypeOK
    <3>3. Len(feed') \in (cursor' + 1)..Len(feed')
      BY <1>x, <3>1, <3>2
    <3> QED BY <2>5, <3>1, <3>3 DEF Announced
  <2> QED BY <2>3, <2>4, <2>5
<1>7. CASE drainLost
  <2>1. outbox # <<>> /\ UNCHANGED <<outbox, tab, cursor>> /\ pc = "drain"
    BY <1>7 DEF drainLost, Sendable, Draining, client
  <2>2. CASE UNCHANGED <<srv, feed, resp>>
    <3>1. ~hydrate
      BY <2>1 DEF hydrate
    <3> QED BY <1>1, <2>1, <2>2, <3>1
  <2>3. CASE Execute(Next1)
    <3>1. CASE r = RowOf[Next1] /\ resp[Next1] = None
      BY <1>x, <2>1, <2>3, <3>1 DEF Agreed
    <3>2. CASE r # RowOf[Next1] \/ resp[Next1] # None
      <4>1. \A d \in Commands : resp'[d] = resp[d] \/ (d = Next1 /\ resp[d] = None)
        BY <1>0, <1>q, <2>1, <2>3, ExecuteFacts
      <4>2. Pending(r) => Pending(r)'
        <5> SUFFICES ASSUME Pending(r) PROVE Pending(r)'
          OBVIOUS
        <5>1. PICK i \in DOMAIN outbox : RowOf[outbox[i].cmd] = r /\ resp[outbox[i].cmd] = None
          BY DEF Pending
        <5>2. outbox[i].cmd \in Commands
          BY <1>0, EntryFacts
        <5>3. resp'[outbox[i].cmd] = None
          BY <3>2, <4>1, <5>1, <5>2
        <5> QED BY <2>1, <5>1, <5>3 DEF Pending
      <4>3. ~hydrate
        BY <2>1 DEF hydrate
      <4> QED BY <1>x, <2>1, <2>3, <3>2, <4>2, <4>3, AgreedStays
    <3> QED BY <3>1, <3>2
  <2> QED BY <1>7, <2>2, <2>3 DEF drainLost
<1>8. CASE drainAccepted
  <2>1. /\ outbox # <<>> /\ outbox' = Tail(outbox) /\ cursor' = cursor /\ pc = "drain" /\ Execute(Next1)
        /\ tab' = IF resp'[Next1] = Null THEN tab ELSE [tab EXCEPT ![RowOf[Next1]] = resp'[Next1]]
    BY <1>8 DEF drainAccepted, Sendable, Draining
  <2>2. CASE r = RowOf[Next1] /\ resp[Next1] = None
    BY <1>x, <2>1, <2>2 DEF Agreed
  <2>3. CASE r = RowOf[Next1] /\ resp[Next1] \notin {None, Null}
    <3>1. srv' = srv /\ resp' = resp
      BY <1>0, <1>q, <2>1, <2>3, ExecuteFacts
    <3>2. srv[r] = resp[Next1]
      <4>1. 1 \in DOMAIN outbox
        BY <1>0, <2>1, HeadAndTail DEF TypeOK
      <4> QED BY <2>3, <4>1 DEF Replays, Next1
    <3>3. tab'[r] = srv'[r] /\ srv'[r] # None
      BY <1>0, <2>1, <2>3, <3>1, <3>2 DEF TypeOK
    <3> QED BY <3>3 DEF Agreed, Shown
  <2>4. CASE r # RowOf[Next1] \/ resp[Next1] = Null
    <3>0. r # RowOf[Next1] \/ resp[Next1] # None
      BY <2>4, ValueFacts
    <3>1. \A d \in Commands \ {Next1} : resp'[d] = resp[d]
      BY <1>0, <1>q, <2>1, ExecuteFacts
    <3>2. Pending(r) => Pending(r)'
      BY <1>0, <2>1, <3>0, <3>1, PendingStays
    <3>3. tab'[r] = tab[r]
      <4>1. CASE r # RowOf[Next1]
        BY <1>0, <2>1, <4>1 DEF TypeOK
      <4>2. CASE resp[Next1] = Null
        <5>1. resp'[Next1] = Null
          BY <1>0, <1>q, <2>1, <4>2, ExecuteFacts, ValueFacts
        <5> QED BY <2>1, <5>1
      <4> QED BY <2>4, <4>1, <4>2
    <3>4. ~hydrate
      BY <2>1 DEF hydrate
    <3> QED BY <1>x, <2>1, <3>0, <3>2, <3>3, <3>4, AgreedStays
  <2> QED BY <2>2, <2>3, <2>4
<1>9. CASE hydrate
  <2>1. /\ pc = "snapshot" /\ cursor' = Resume /\ UNCHANGED <<srv, feed, resp, outbox>>
        /\ tab'[r] = IF r \in DOMAIN snap.data THEN snap.data[r] ELSE tab[r]
        /\ hyd' = [hyd EXCEPT ![snap.obj] = [after |-> snap.next, done |-> snap.next = 0]]
    BY <1>9 DEF hydrate, server
  <2>2. /\ snap.obj \in Objects /\ hyd[snap.obj] \in Progress /\ ~hyd[snap.obj].done /\ hyd[snap.obj] # None
        /\ hyd[snap.obj].after \in Nat /\ snap.next \in Nat
        /\ DOMAIN snap.data \subseteq RowsOf(snap.obj)
        /\ \A p \in DOMAIN snap.data : p > hyd[snap.obj].after /\ snap.data[p] = srv[p] /\ snap.data[p] \in Value
    BY <1>0, <2>1, ProgressFacts, RowFacts DEF SnapType, Ground, SnapOK, TypeOK
  <2> SUFFICES ASSUME InScope(r)', Covered(r)', ~Pending(r)', ~Announced(r)' PROVE tab'[r] = Shown(r)'
    BY DEF Agreed
  <2>3. ~Pending(r) /\ Shown(r)' = Shown(r) /\ InScope(r)
    BY <1>i, <2>1 DEF Pending, Shown
  <2>4. CASE r \in DOMAIN snap.data
    <3>1. tab'[r] = srv[r] /\ srv[r] # None
      BY <2>1, <2>2, <2>4, ValueFacts
    <3> QED BY <2>3, <3>1 DEF Shown
  <2>5. CASE r \notin DOMAIN snap.data /\ Covered(r)
    <3>1. hydrationStarted
      BY <1>0, <2>5 DEF Covered, hydrationStarted
    <3>2. ~Announced(r)
      BY <2>1, <3>1 DEF Resume, Announced
    <3> QED BY <2>1, <2>3, <2>5, <3>2 DEF Agreed
  <2>6. CASE r \notin DOMAIN snap.data /\ ~Covered(r)
    <3>1. ObjectOf[r] = snap.obj
      BY <1>0, <2>1, <2>2, <2>6 DEF Covered, TypeOK
    <3>2. hyd'[snap.obj] = [after |-> snap.next, done |-> snap.next = 0]
      BY <1>0, <2>1, <2>2 DEF TypeOK
    <3>3. snap.next = 0 \/ r <= snap.next
      <4>1. hyd'[ObjectOf[r]].done => snap.next = 0
        <5>1. PICK b \in BOOLEAN : b = (snap.next = 0)
          OBVIOUS
        <5>2. hyd'[ObjectOf[r]].done = b
          BY <3>1, <3>2, <5>1
        <5> QED BY <5>1, <5>2
      <4>2. hyd'[ObjectOf[r]].after = snap.next
        BY <3>1, <3>2
      <4> QED BY <4>1, <4>2 DEF Covered
    <3>4. r > hyd[snap.obj].after
      BY <1>0, <2>2, <2>6, <3>1 DEF Covered
    <3>5. srv[r] \in {None, Gone}
      BY <2>1, <2>6, <3>1, <3>3, <3>4 DEF Ground, SnapOK, RowsOf
    <3>6. tab[r] = Gone /\ Shown(r) = Gone
      BY <2>3, <2>6, <3>5 DEF Blank, Shown
    <3> QED BY <2>1, <2>3, <2>6, <3>6
  <2> QED BY <2>4, <2>5, <2>6
<1>10. CASE pull
  <2>0. pc = "pull" /\ UNCHANGED <<srv, feed, resp, outbox, hyd, granted, enabled>> /\ ~hydrate
    BY <1>10 DEF pull, server, hydrate
  <2>1. CASE \E i \in Page : ObjectOf[feed[i]] \notin meta
    BY <1>1, <1>10, <2>0, <2>1 DEF pull
  <2>2. CASE ~\E i \in Page : ObjectOf[feed[i]] \notin meta
    <3>1. /\ tab'[r] = IF r \in DOMAIN materialize THEN materialize[r] ELSE tab[r]
          /\ cursor' = IF FullPage THEN Max(Page) ELSE Len(feed)
      BY <1>10, <2>2 DEF pull
    <3>2. CASE r \in DOMAIN materialize
      <4>1. PICK i \in Page : feed[i] = r
        BY <3>2 DEF materialize
      <4>2. i \in DOMAIN feed
        BY <1>0, <4>1, FeedPage DEF TypeOK
      <4>3. srv[r] # None
        BY <1>0, <4>1, <4>2 DEF FeedRows
      <4>4. tab'[r] = srv[r]
        BY <3>1, <3>2 DEF materialize
      <4> QED BY <2>0, <4>3, <4>4 DEF Agreed, Shown
    <3>3. CASE r \notin DOMAIN materialize
      <4>1. InScope(r) /\ Announced(r) => Announced(r)'
        <5> SUFFICES ASSUME InScope(r), Announced(r) PROVE Announced(r)'
          OBVIOUS
        <5>1. PICK i \in (cursor + 1)..Len(feed) : feed[i] = r
          BY DEF Announced
        <5>2. i \in Visible /\ i \in Nat /\ Len(feed) \in Nat /\ i <= Len(feed)
          BY <1>0, <5>1 DEF Visible, InScope, TypeOK
        <5>3. i \notin Page
          BY <3>3, <5>1 DEF materialize
        <5>4. FullPage /\ Max(Page) \in Nat /\ ~(i <= Max(Page))
          <6>1. FullPage
            BY <1>0, <5>2, <5>3, FeedPage
          <6>2. Max(Page) \in Page /\ Page \subseteq Visible /\ Visible \subseteq 1..Len(feed) /\ ~(i <= Max(Page))
            BY <1>0, <5>2, <5>3, <6>1, FeedPage
          <6>3. Max(Page) \in 1..Len(feed)
            BY <6>2
          <6> QED BY <5>2, <6>1, <6>2, <6>3
        <5>5. i \in (cursor' + 1)..Len(feed')
          BY <2>0, <3>1, <5>2, <5>4
        <5> QED BY <2>0, <5>1, <5>5 DEF Announced
      <4>2. CASE InScope(r)
        <5>1. Pending(r) => Pending(r)'
          BY <2>0 DEF Pending
        <5> QED BY <2>0, <3>1, <3>3, <4>1, <4>2, <5>1, AgreedStays
      <4>3. CASE ~InScope(r)
        BY <1>i, <4>3 DEF Agreed
      <4> QED BY <4>2, <4>3
    <3> QED BY <3>2, <3>3
  <2> QED BY <2>1, <2>2
<1>11. CASE Wiping
  BY <1>0, <1>11, WipingWiped
<1>12. CASE open \/ reshape \/ hydrateUnknown
  <2>1. UNCHANGED <<srv, feed, resp, outbox, cursor>> /\ pc # "snapshot"
    BY <1>12 DEF open, reshape, hydrateUnknown, server
  <2>2. InScope(r)' => tab'[r] = tab[r]
    BY <1>i, <1>12 DEF open, reshape, hydrateUnknown, InScope
  <2>3. ~hydrate
    BY <2>1 DEF hydrate
  <2> QED BY <1>1, <2>1, <2>2, <2>3
<1>13. CASE (\E o \in Objects : SetGrant(o) \/ SetModule(o)) \/ MarkWiped \/ (\E c \in Commands : discardConflict(c))
            \/ drainEmpty \/ drainWiped \/ hydrateDone \/ ListPage \/ Interrupt \/ UNCHANGED vars
  <2>1. UNCHANGED <<srv, feed, resp, outbox, cursor, tab>>
    BY <1>13 DEF SetGrant, SetModule, MarkWiped, discardConflict, drainEmpty, drainWiped, hydrateDone, ListPage, Interrupt, vars, server, client
  <2>2. ~hydrate \/ hydrate
    OBVIOUS
  <2> QED BY <1>1, <1>9, <2>1, <2>2
<1> QED
  BY <1>2, <1>3, <1>4, <1>5, <1>6, <1>7, <1>8, <1>9, <1>10, <1>11, <1>12, <1>13 DEF Next, User, sync, wake, cycle, Wiping, GivesUp

(* What may happen to the queue, to a row of the replica and to a row of the server. *)

\* The queue grows at its end, loses its head, or counts an attempt of it.
LEMMA QueueChanges ==
  ASSUME TypeOK, [Next]_vars, ~wiped'
  PROVE  \/ outbox' = outbox
         \/ \E c \in Commands : enqueue(c)
         \/ /\ drainUnknown \/ drainAccepted \/ GivesUp
            /\ outbox # <<>> /\ outbox' = Tail(outbox)
         \/ /\ drainRetryable /\ outbox # <<>> /\ DOMAIN outbox' = DOMAIN outbox /\ UNCHANGED <<tab, resp>>
            /\ \A i \in DOMAIN outbox : outbox'[i].cmd = outbox[i].cmd /\ outbox'[i].before = outbox[i].before
            /\ outbox'[1].tries = outbox[1].tries + 1
            /\ \A i \in DOMAIN outbox \ {1} : outbox'[i] = outbox[i]
<1>1. CASE drainUnknown \/ drainAccepted \/ GivesUp
  BY <1>1 DEF drainUnknown, drainAccepted, drainRejected, drainRetryable, GivesUp, Sendable, Draining
<1>2. CASE drainRetryable /\ ~GivesUp
  <2>1. outbox # <<>> /\ outbox' = [outbox EXCEPT ![1].tries = @ + 1] /\ UNCHANGED <<tab, resp>>
    BY <1>2 DEF GivesUp, drainRetryable, Sendable, Draining, server
  <2>2. outbox \in Seq(Entry) /\ 1 \in DOMAIN outbox /\ outbox[1] \in Entry
    BY <2>1, HeadAndTail DEF TypeOK
  <2> QED BY <1>2, <2>1, <2>2 DEF Entry
<1>3. CASE Wiping
  BY <1>3, WipingWiped
<1>4. CASE ~(drainUnknown \/ drainAccepted \/ GivesUp) /\ ~drainRetryable /\ ~Wiping /\ ~\E c \in Commands : enqueue(c)
  BY <1>4 DEF Next, User, sync, wake, cycle, Wiping, vars, Edit, SetGrant, SetModule, MarkWiped, discardConflict, open, drainEmpty,
         drainLost, drainWiped, GivesUp, reshape, hydrateDone, hydrateUnknown, ListPage, hydrate, pull, Interrupt, client
<1> QED BY <1>1, <1>2, <1>3, <1>4

\* What changes a row of the replica.
LEMMA RowChanges ==
  ASSUME ReplicaTypes, [Next]_vars, ~wiped', NEW r \in Rows, tab'[r] # tab[r]
  PROVE  \/ \E c \in Commands : enqueue(c) /\ r = RowOf[c]
         \/ (drainAccepted \/ GivesUp) /\ r = RowOf[Next1] /\ outbox # <<>>
         \/ reshape /\ ~InScope(r)
         \/ hydrate /\ r \in DOMAIN snap.data /\ tab'[r] = snap.data[r]
         \/ pull /\ tab'[r] = srv[r] /\ srv[r] # None /\ InScope(r)
<1>0. TypeOK /\ FeedRows
  BY DEF ReplicaTypes
<1>1. ASSUME NEW c \in Commands, enqueue(c) PROVE r = RowOf[c]
  BY <1>0, <1>1 DEF enqueue, TypeOK
<1>2. CASE drainAccepted \/ GivesUp
  <2>1. outbox # <<>>
    BY <1>2 DEF drainAccepted, drainRejected, drainRetryable, GivesUp, Sendable, Draining
  <2>2. r = RowOf[Next1]
    BY <1>0, <1>2 DEF drainAccepted, drainRejected, drainRetryable, GivesUp, rollback, Next1, TypeOK
  <2> QED BY <1>2, <2>1, <2>2
<1>3. CASE reshape
  BY <1>3 DEF reshape, InScope
<1>4. CASE hydrate
  BY <1>4 DEF hydrate
<1>5. CASE pull
  <2>1. r \in DOMAIN materialize /\ tab'[r] = materialize[r]
    BY <1>5 DEF pull
  <2>2. PICK i \in Page : feed[i] = r
    BY <2>1 DEF materialize
  <2>3. i \in DOMAIN feed /\ i \in Visible
    BY <1>0, <2>2, FeedPage DEF TypeOK
  <2>4. srv[r] # None /\ InScope(r) /\ materialize[r] = srv[r]
    BY <1>0, <2>1, <2>2, <2>3 DEF FeedRows, Visible, InScope, materialize
  <2> QED BY <1>5, <2>1, <2>4
<1>6. CASE Wiping
  BY <1>0, <1>6, WipingWiped
<1>7. CASE drainRetryable /\ ~GivesUp
  BY <1>7 DEF drainRetryable, GivesUp
<1> QED
  BY <1>1, <1>2, <1>3, <1>4, <1>5, <1>6, <1>7
  DEF Next, User, sync, wake, cycle, Wiping, vars, Edit, SetGrant, SetModule, MarkWiped, discardConflict, open, drainEmpty, drainUnknown,
      drainLost, drainWiped, hydrateDone, hydrateUnknown, ListPage, Interrupt, client, GivesUp

\* A row that was created stays, live or archived.
LEMMA RowsStay ==
  ASSUME ReplicaTypes, [Next]_vars, NEW r \in Rows, srv[r] # None
  PROVE  srv'[r] # None
<1>0. TypeOK
  BY DEF ReplicaTypes
<1>1. CASE UNCHANGED <<srv, feed, resp>>
  BY <1>1
<1>2. ASSUME NEW p \in Rows, Edit(p) PROVE srv'[r] # None
  <2>1. left.edit # None
    <3>1. PICK s \in Scenarios : left.edit <= s.budget.edit
      BY DEF ReplicaTypes, EditBound
    <3>2. left.edit \in Nat
      BY DEF ReplicaTypes, TypeOK, Budget
    <3> QED BY <3>1, <3>2, ZeroIsValue, ValueFacts
  <2> QED BY <1>0, <1>2, <2>1, ValueFacts DEF Edit, TypeOK
<1>3. CASE Execute(Next1) /\ Next1 \in Commands
  BY <1>0, <1>3, ExecuteFacts
<1> QED BY <1>0, <1>1, <1>2, <1>3, ServerWrites

\* While a row in scope is not filled in, only the user and the answers to the user's
\* commands change it.
LEMMA UncoveredRow ==
  ASSUME Ground, [Next]_vars, ~wiped', NEW r \in Rows, InScope(r)', ~Covered(r)'
  PROVE  /\ InScope(r) /\ ~Covered(r)
         /\ \/ tab'[r] = tab[r]
            \/ \E c \in Commands : enqueue(c) /\ r = RowOf[c]
            \/ (drainAccepted \/ GivesUp) /\ r = RowOf[Next1] /\ outbox # <<>>
<1>0. TypeOK /\ ReplicaTypes /\ SnapType
  BY DEF Ground, ReplicaTypes
<1>1. InScope(r) /\ ~Covered(r)
  BY CoveredStays, ShrinkStep DEF Ground, InScope
<1>2. ASSUME hydrate, r \in DOMAIN snap.data PROVE FALSE
  <2>1. pc = "snapshot"
    BY <1>2 DEF hydrate
  <2>2. r \in RowsOf(snap.obj) /\ (snap.next = 0 \/ r <= snap.next) /\ snap.obj \in Objects
        /\ [after |-> snap.next, done |-> snap.next = 0] \in Progress
    BY <1>0, <1>2, <2>1, ProgressFacts DEF SnapType, Ground, SnapOK
  <2>3. hyd'[ObjectOf[r]] = [after |-> snap.next, done |-> snap.next = 0]
    BY <1>0, <1>2, <2>2 DEF hydrate, TypeOK, RowsOf
  <2>4. Covered(r)'
    BY <2>2, <2>3, ProgressFacts DEF Covered
  <2> QED BY <2>4
<1>3. ~pull
  BY <1>1, RowFacts DEF pull, Ground, Phase, InScope, Covered
<1> QED BY <1>0, <1>1, <1>2, <1>3, RowChanges

(* Scenarios in which nothing is refused. *)

\* Entry i creates a row.
Creates(i, r) == MethodOf[outbox[i].cmd] = "POST" /\ RowOf[outbox[i].cmd] = r

\* No answer is lost, so no queued command has been executed.
Unsent == left.lost = 0 /\ \A i \in DOMAIN outbox : resp[outbox[i].cmd] = None

\* No queued command can run out of attempts any more.
Lasting == left.busy < MaxAttempts /\ \A i \in DOMAIN outbox : outbox[i].tries + left.busy < MaxAttempts

\* A row that is not filled in yet is neither there nor written to.
Untouched ==
  /\ (\A c \in left.write : MethodOf[c] # "POST") \/ (\A r \in Rows : InScope(r) => Covered(r))
  /\ \A r \in Rows : InScope(r) /\ ~Covered(r) => tab[r] = Gone /\ ~Queued(r)

\* A command for a row the server does not know is behind the one that creates it.
PostFirst ==
  \A i \in DOMAIN outbox :
    LET r == RowOf[outbox[i].cmd]
    IN InScope(r) /\ MethodOf[outbox[i].cmd] # "POST" /\ srv[r] = None => \E j \in DOMAIN outbox : j < i /\ Creates(j, r)

\* A row only the replica has is one the queue is about to create.
Created(r) == InScope(r) /\ tab[r] # Gone /\ srv[r] = None => \E j \in DOMAIN outbox : Creates(j, r)

\* The invariant of these scenarios.
Unrefused == left.reject = 0 /\ Unsent /\ Lasting /\ Untouched /\ PostFirst /\ \A r \in Rows : Created(r)

\* The head of the queue will be accepted.
LEMMA HeadWorks ==
  ASSUME Ground, Unrefused, outbox # <<>>, InScope(RowOf[Next1])
  PROVE  Executable(Next1) /\ resp[Next1] = None
<1>1. 1 \in DOMAIN outbox /\ Next1 \in Commands /\ Next1 \in InOutbox /\ outbox[1].cmd = Next1
  BY HeadAndTail, EntryFacts DEF Ground, ReplicaTypes, TypeOK, Next1
<1>2. resp[Next1] = None /\ Next1 \in Writes
  BY <1>1 DEF Unrefused, Unsent, Ground, QueueInv, Writes
<1>3. CASE MethodOf[Next1] = "POST"
  BY <1>2, <1>3 DEF Ground, OnePost, Executable
<1>4. CASE MethodOf[Next1] # "POST"
  <2>1. ~\E j \in DOMAIN outbox : j < 1 /\ Creates(j, RowOf[Next1])
    BY EntryFacts DEF Ground, ReplicaTypes
  <2>2. srv[RowOf[outbox[1].cmd]] # None
    BY <1>1, <1>4, <2>1, Zenon DEF Unrefused, PostFirst, Next1
  <2>3. srv[RowOf[Next1]] # None
    BY <2>2 DEF Next1
  <2>4. (MethodOf[Next1] = "POST") = (srv[RowOf[Next1]] = None)
    BY <1>4, <2>3
  <2> QED BY <1>2, <2>4 DEF Executable
<1> QED BY <1>2, <1>3, <1>4

\* So what is given up, or filed unsent, is of a row that is out of scope.
LEMMA LeavesScope ==
  ASSUME Ground, Unrefused, GivesUp \/ drainUnknown
  PROVE  outbox # <<>> /\ ~InScope(RowOf[Next1])
<1>0. TypeOK /\ left \in Budget /\ left.busy \in Nat /\ left.reject \in Nat
  BY DEF Ground, ReplicaTypes, TypeOK, Budget
<1>1. CASE drainUnknown
  BY <1>1 DEF drainUnknown, Draining, Ground, ScopeShrinks, Phase, InScope, computeScope
<1>2. CASE drainRejected
  <2>1. outbox # <<>>
    BY <1>2 DEF drainRejected, Sendable, Draining
  <2>2. ~Spend("reject")
    BY <1>0, SpendOne DEF Kinds, Unrefused
  <2>3. ~Executable(Next1)
    BY <1>2, <2>2 DEF drainRejected
  <2> QED BY <2>1, <2>3, HeadWorks
<1>3. CASE drainRetryable /\ ~(outbox[1].tries + 1 < MaxAttempts)
  <2>1. outbox # <<>> /\ Spend("busy")
    BY <1>3 DEF drainRetryable, Sendable, Draining
  <2>2. left.busy > 0
    BY <1>0, <2>1, SpendOne DEF Kinds
  <2>3. 1 \in DOMAIN outbox /\ outbox[1].tries \in Nat /\ MaxAttempts \in Nat
    BY <1>0, <2>1, HeadAndTail, ReplicaAssumption DEF TypeOK
  <2>4. outbox[1].tries + left.busy < MaxAttempts
    BY <2>3 DEF Unrefused, Lasting
  <2> QED BY <1>0, <1>3, <2>2, <2>3, <2>4
<1> QED BY <1>1, <1>2, <1>3 DEF GivesUp

\* A step takes no entry from the queue or one, at its front, and adds at most one, at its
\* end: where an entry was before, and where it is afterwards.
LEMMA QueueShift ==
  ASSUME TypeOK, [Next]_vars, ~wiped'
  PROVE  \E n \in {0, 1} :
           /\ n = 1 => outbox # <<>> /\ (drainUnknown \/ drainAccepted \/ GivesUp)
           /\ \A j \in DOMAIN outbox : j > n => j - n \in DOMAIN outbox' /\ outbox'[j - n].cmd = outbox[j].cmd
           /\ \A i \in DOMAIN outbox' :
                \/ /\ i + n \in DOMAIN outbox
                   /\ outbox'[i].cmd = outbox[i + n].cmd /\ outbox'[i].before = outbox[i + n].before
                   /\ \/ outbox'[i].tries = outbox[i + n].tries
                      \/ drainRetryable /\ outbox'[i].tries = outbox[i + n].tries + 1
                \/ /\ n = 0 /\ i = Len(outbox) + 1
                   /\ \E c \in Commands : enqueue(c) /\ outbox'[i] = [cmd |-> c, before |-> tab[RowOf[c]], tries |-> 0]
<1>0. outbox \in Seq(Entry) /\ Len(outbox) \in Nat /\ DOMAIN outbox = 1..Len(outbox)
  BY DEF TypeOK
<1>z. \A i \in DOMAIN outbox : i \in Nat /\ i > 0 /\ i + 0 = i /\ i - 0 = i
  BY <1>0
<1>1. CASE outbox' = outbox
  <2> WITNESS 0 \in {0, 1}
  <2> QED BY <1>z, <1>1
<1>2. CASE \E c \in Commands : enqueue(c)
  <2>1. PICK c \in Commands : enqueue(c)
    BY <1>2
  <2>2. outbox' = Append(outbox, [cmd |-> c, before |-> tab[RowOf[c]], tries |-> 0])
    BY <2>1 DEF enqueue
  <2>3. /\ DOMAIN outbox' = 1..(Len(outbox) + 1) /\ \A j \in 1..Len(outbox) : outbox'[j] = outbox[j]
        /\ outbox'[Len(outbox) + 1] = [cmd |-> c, before |-> tab[RowOf[c]], tries |-> 0]
    BY <1>0, <2>2
  <2>4. \A i \in DOMAIN outbox' : i = Len(outbox) + 1 \/ i \in DOMAIN outbox
    BY <1>0, <2>3
  <2>5. \A i \in DOMAIN outbox : i \in DOMAIN outbox'
    BY <1>0, <2>3
  <2> WITNESS 0 \in {0, 1}
  <2> QED BY <1>0, <1>z, <2>1, <2>3, <2>4, <2>5
<1>3. CASE /\ drainUnknown \/ drainAccepted \/ GivesUp
           /\ outbox # <<>> /\ outbox' = Tail(outbox)
  <2>1. DOMAIN outbox' = 1..(Len(outbox) - 1) /\ \A i \in DOMAIN outbox' : outbox'[i] = outbox[i + 1] /\ i + 1 \in DOMAIN outbox
    BY <1>0, <1>3, HeadAndTail
  <2>2. \A j \in DOMAIN outbox : j > 1 => j - 1 \in DOMAIN outbox' /\ (j - 1) + 1 = j
    BY <1>0, <2>1
  <2>3. \A j \in DOMAIN outbox : j > 1 => outbox'[j - 1] = outbox[j]
    BY <2>1, <2>2
  <2> WITNESS 1 \in {0, 1}
  <2> QED BY <1>3, <2>1, <2>2, <2>3
<1>4. CASE /\ drainRetryable /\ outbox # <<>> /\ DOMAIN outbox' = DOMAIN outbox
           /\ \A k \in DOMAIN outbox : outbox'[k].cmd = outbox[k].cmd /\ outbox'[k].before = outbox[k].before
           /\ outbox'[1].tries = outbox[1].tries + 1
           /\ \A k \in DOMAIN outbox \ {1} : outbox'[k] = outbox[k]
  <2>1. \A i \in DOMAIN outbox' : outbox'[i].tries = outbox[i].tries \/ outbox'[i].tries = outbox[i].tries + 1
    BY <1>4
  <2> WITNESS 0 \in {0, 1}
  <2> QED BY <1>z, <1>4, <2>1
<1> QED BY <1>1, <1>2, <1>3, <1>4, QueueChanges

\* Where a row is not queued for, it is not queued for after a step, unless by the user.
LEMMA QueuedBefore ==
  ASSUME TypeOK, [Next]_vars, ~wiped', NEW r, Queued(r)'
  PROVE  Queued(r) \/ \E c \in Commands : enqueue(c) /\ r = RowOf[c]
<1>1. PICK i \in DOMAIN outbox' : RowOf[outbox'[i].cmd] = r
  BY DEF Queued
<1> QED BY <1>1, QueueShift DEF Queued

\* A queued creation stays queued while its row is in scope and the server does not know it.
LEMMA CreationStays ==
  ASSUME Ground, Unrefused, [Next]_vars, ~wiped', NEW r \in Rows, InScope(r)', srv'[r] = None,
         NEW j \in DOMAIN outbox, Creates(j, r),
         outbox # <<>> /\ (drainUnknown \/ drainAccepted \/ GivesUp)
  PROVE  j > 1
<1>0. TypeOK /\ outbox \in Seq(Entry) /\ Len(outbox) \in Nat /\ DOMAIN outbox = 1..Len(outbox)
  BY DEF Ground, ReplicaTypes, TypeOK
<1>i. InScope(r)
  BY ShrinkStep DEF Ground, InScope
<1> SUFFICES ASSUME j = 1 PROVE FALSE
  BY <1>0
<1>1. RowOf[Next1] = r /\ Next1 \in Commands
  BY <1>0, HeadAndTail DEF Creates, Next1
<1>2. drainAccepted
  BY <1>i, <1>1, LeavesScope
<1>3. Execute(Next1) /\ resp[Next1] = None
  BY <1>i, <1>1, <1>2, HeadWorks DEF drainAccepted
<1>4. srv'[r] = After(Next1)
  BY <1>0, <1>1, <1>3, ExecuteFacts
<1> QED BY <1>0, <1>1, <1>4, AfterType

\* Commands of a row stay behind its creation: the queue is first in, first out.
LEMMA PostFirstStep ==
  ASSUME Ground, Unrefused, [Next]_vars, ~wiped'
  PROVE  PostFirst'
<1>0. TypeOK /\ ReplicaTypes /\ Len(outbox) \in Nat /\ DOMAIN outbox = 1..Len(outbox)
  BY DEF Ground, ReplicaTypes, TypeOK
<1>1. PICK n \in {0, 1} :
           /\ n = 1 => outbox # <<>> /\ (drainUnknown \/ drainAccepted \/ GivesUp)
           /\ \A j \in DOMAIN outbox : j > n => j - n \in DOMAIN outbox' /\ outbox'[j - n].cmd = outbox[j].cmd
           /\ \A i \in DOMAIN outbox' :
                \/ i + n \in DOMAIN outbox /\ outbox'[i].cmd = outbox[i + n].cmd
                \/ /\ n = 0 /\ i = Len(outbox) + 1
                   /\ \E c \in Commands : enqueue(c) /\ outbox'[i] = [cmd |-> c, before |-> tab[RowOf[c]], tries |-> 0]
  BY <1>0, QueueShift
<1>d. DOMAIN outbox' \subseteq Nat
  <2>1. TypeOK'
    BY <1>0, TypesStep DEF ReplicaTypes
  <2> QED BY <2>1 DEF TypeOK
<1>2. ASSUME NEW i \in DOMAIN outbox', NEW r \in Rows, RowOf[outbox'[i].cmd] = r, InScope(r)', MethodOf[outbox'[i].cmd] # "POST", srv'[r] = None
      PROVE  \E j \in DOMAIN outbox' : j < i /\ Creates(j, r)'
  <2>1. InScope(r) /\ srv[r] = None
    BY <1>0, <1>2, ShrinkStep, RowsStay DEF Ground, InScope
  <2>2. \E j \in DOMAIN outbox : j < i + n /\ Creates(j, r)
    <3>1. CASE i + n \in DOMAIN outbox /\ outbox'[i].cmd = outbox[i + n].cmd
      BY <1>2, <2>1, <3>1, Zenon DEF Unrefused, PostFirst
    <3>2. CASE /\ n = 0 /\ i = Len(outbox) + 1
               /\ \E c \in Commands : enqueue(c) /\ outbox'[i] = [cmd |-> c, before |-> tab[RowOf[c]], tries |-> 0]
      <4>1. PICK c \in Commands : enqueue(c) /\ outbox'[i].cmd = c
        BY <3>2
      <4>2. tab[r] # Gone
        BY <1>2, <4>1 DEF enqueue
      <4>3. PICK j \in DOMAIN outbox : Creates(j, r)
        BY <2>1, <4>2 DEF Unrefused, Created
      <4>4. j < i + n
        BY <1>0, <3>2
      <4> QED BY <4>3, <4>4
    <3> QED BY <1>1, <3>1, <3>2
  <2>3. PICK j \in DOMAIN outbox : j < i + n /\ Creates(j, r)
    BY <2>2
  <2>4. j > n
    <3>1. CASE n = 0
      BY <1>0, <3>1
    <3>2. CASE n = 1
      BY <1>1, <1>2, <2>3, <3>2, CreationStays
    <3> QED BY <3>1, <3>2
  <2>5. j - n \in DOMAIN outbox' /\ Creates(j - n, r)'
    BY <1>1, <2>3, <2>4 DEF Creates
  <2>6. j - n < i
    BY <1>0, <1>d, <2>3
  <2> QED BY <2>5, <2>6
<1>3. \A i \in DOMAIN outbox' : RowOf[outbox'[i].cmd] \in Rows
  <2>1. outbox' \in Seq(Entry)
    BY <1>0, TypesStep DEF ReplicaTypes, TypeOK
  <2>2. \A i \in DOMAIN outbox' : outbox'[i] \in Entry
    BY <2>1
  <2> QED BY <2>2, RowFacts DEF Entry
<1> QED BY <1>2, <1>3 DEF PostFirst

\* A row appears in the replica alone only by a queued creation.
LEMMA CreatedStep ==
  ASSUME Ground, Unrefused, [Next]_vars, ~wiped', NEW r \in Rows
  PROVE  Created(r)'
<1>0. TypeOK /\ ReplicaTypes /\ SnapType /\ outbox \in Seq(Entry) /\ Len(outbox) \in Nat /\ DOMAIN outbox = 1..Len(outbox)
  BY DEF Ground, ReplicaTypes, TypeOK
<1> SUFFICES ASSUME InScope(r)', tab'[r] # Gone, srv'[r] = None PROVE \E j \in DOMAIN outbox' : Creates(j, r)'
  BY DEF Created
<1>1. InScope(r) /\ srv[r] = None
  BY <1>0, ShrinkStep, RowsStay DEF Ground, InScope
<1>2. CASE tab[r] # Gone
  <2>1. PICK j \in DOMAIN outbox : Creates(j, r)
    BY <1>1, <1>2 DEF Unrefused, Created
  <2>2. PICK n \in {0, 1} :
           /\ n = 1 => outbox # <<>> /\ (drainUnknown \/ drainAccepted \/ GivesUp)
           /\ \A i \in DOMAIN outbox : i > n => i - n \in DOMAIN outbox' /\ outbox'[i - n].cmd = outbox[i].cmd
    BY <1>0, QueueShift
  <2>3. j > n
    <3>1. CASE n = 0
      BY <1>0, <3>1
    <3>2. CASE n = 1
      BY <2>1, <2>2, <3>2, CreationStays
    <3> QED BY <3>1, <3>2
  <2>4. j - n \in DOMAIN outbox' /\ Creates(j - n, r)'
    BY <2>1, <2>2, <2>3 DEF Creates
  <2> QED BY <2>4
<1>3. CASE tab[r] = Gone
  <2>1. ASSUME NEW c \in Commands, enqueue(c), r = RowOf[c] PROVE \E j \in DOMAIN outbox' : Creates(j, r)'
    <3>1. MethodOf[c] = "POST" /\ outbox' = Append(outbox, [cmd |-> c, before |-> tab[RowOf[c]], tries |-> 0])
      BY <1>3, <2>1 DEF enqueue
    <3>2. Len(outbox) + 1 \in DOMAIN outbox' /\ outbox'[Len(outbox) + 1].cmd = c
      BY <1>0, <3>1
    <3> QED BY <2>1, <3>1, <3>2 DEF Creates
  <2>2. ASSUME drainAccepted, r = RowOf[Next1], outbox # <<>> PROVE FALSE
    <3>1. Execute(Next1) /\ Next1 \in Commands /\ resp[Next1] = None
      BY <1>0, <1>1, <2>2, HeadWorks, HeadAndTail DEF drainAccepted, Next1
    <3>2. srv'[r] = After(Next1)
      BY <1>0, <2>2, <3>1, ExecuteFacts
    <3> QED BY <1>0, <3>1, <3>2, AfterType
  <2>3. ASSUME GivesUp, r = RowOf[Next1] PROVE FALSE
    BY <1>1, <2>3, LeavesScope
  <2>4. ASSUME hydrate, r \in DOMAIN snap.data PROVE FALSE
    <3>1. pc = "snapshot"
      BY <2>4 DEF hydrate
    <3>2. snap.data[r] \in Value /\ snap.data[r] = srv[r]
      BY <1>0, <2>4, <3>1 DEF SnapType, Ground, SnapOK
    <3> QED BY <1>1, <3>2, ValueFacts
  <2> QED BY <1>0, <1>1, <1>3, <2>1, <2>2, <2>3, <2>4, RowChanges
<1> QED BY <1>2, <1>3

\* With no lost answer, a command is executed in the step that takes it from the queue.
LEMMA UnsentStep ==
  ASSUME Ground, Unsent, [Next]_vars, ~wiped'
  PROVE  Unsent'
<1>0. TypeOK /\ ReplicaTypes /\ QueueInv /\ Distinct
  BY DEF Ground, ReplicaTypes, QueueInv
<1>1. left'.lost = 0
  BY <1>0, LeftShrinks DEF Kinds, Unsent
<1>2. PICK n \in {0, 1} :
           \A i \in DOMAIN outbox' : \/ i + n \in DOMAIN outbox /\ outbox'[i].cmd = outbox[i + n].cmd
                                     \/ \E c \in Commands : enqueue(c) /\ outbox'[i].cmd = c
  <2>1. PICK n \in {0, 1} :
           \A i \in DOMAIN outbox' :
             \/ i + n \in DOMAIN outbox /\ outbox'[i].cmd = outbox[i + n].cmd
             \/ \E c \in Commands : enqueue(c) /\ outbox'[i] = [cmd |-> c, before |-> tab[RowOf[c]], tries |-> 0]
    BY <1>0, QueueShift
  <2> QED BY <2>1
<1>3. ASSUME NEW i \in DOMAIN outbox' PROVE resp'[outbox'[i].cmd] = None
  <2>1. ASSUME NEW c \in Commands, enqueue(c), outbox'[i].cmd = c PROVE resp'[c] = None
    BY <1>0, <2>1 DEF enqueue, server, QueueInv
  <2>2. CASE i + n \in DOMAIN outbox /\ outbox'[i].cmd = outbox[i + n].cmd
    <3>1. resp[outbox'[i].cmd] = None /\ outbox'[i].cmd \in Commands
      BY <1>0, <2>2, EntryFacts DEF Unsent
    <3>2. CASE UNCHANGED resp
      BY <3>1, <3>2
    <3>3. CASE Execute(Next1) /\ Next1 \in Commands /\ (drainLost \/ drainAccepted) /\ outbox # <<>>
      <4>1. ~drainLost
        BY <1>0, SpendOne DEF TypeOK, drainLost, Kinds, Unsent
      <4>2. outbox' = Tail(outbox)
        BY <3>3, <4>1 DEF drainAccepted
      <4>3. outbox'[i].cmd # Next1
        <5>1. InOutbox' = InOutbox \ {Next1}
          BY <1>0, <3>3, <4>2, Popped
        <5>2. outbox'[i].cmd \in InOutbox'
          BY DEF InOutbox
        <5> QED BY <5>1, <5>2
      <4> QED BY <1>0, <3>1, <3>3, <4>3, ExecuteFacts
    <3> QED BY <1>0, <3>2, <3>3, ServerWrites DEF Edit
  <2> QED BY <1>2, <2>1, <2>2
<1> QED BY <1>1, <1>3 DEF Unsent

\* An attempt costs one busy answer.
LEMMA LastingStep ==
  ASSUME Ground, Lasting, [Next]_vars, ~wiped'
  PROVE  Lasting'
<1>0. TypeOK /\ ReplicaTypes
  BY DEF Ground, ReplicaTypes
<1>1. left'.busy \in Nat /\ left.busy \in Nat /\ left'.busy <= left.busy /\ MaxAttempts \in Nat
  BY <1>0, LeftShrinks, ReplicaAssumption DEF Kinds
<1>2. drainRetryable => left.busy = left'.busy + 1
  <2>1. left \in Budget
    BY <1>0 DEF TypeOK
  <2> QED BY <1>1, <2>1, SpendOne DEF drainRetryable, Kinds
<1>3. PICK n \in {0, 1} :
           \A i \in DOMAIN outbox' :
             \/ /\ i + n \in DOMAIN outbox
                /\ \/ outbox'[i].tries = outbox[i + n].tries
                   \/ drainRetryable /\ outbox'[i].tries = outbox[i + n].tries + 1
             \/ outbox'[i].tries = 0
  <2>1. PICK n \in {0, 1} :
           \A i \in DOMAIN outbox' :
             \/ /\ i + n \in DOMAIN outbox
                /\ \/ outbox'[i].tries = outbox[i + n].tries
                   \/ drainRetryable /\ outbox'[i].tries = outbox[i + n].tries + 1
             \/ \E c \in Commands : outbox'[i] = [cmd |-> c, before |-> tab[RowOf[c]], tries |-> 0]
    BY <1>0, QueueShift
  <2> QED BY <2>1
<1>4. ASSUME NEW i \in DOMAIN outbox' PROVE outbox'[i].tries + left'.busy < MaxAttempts
  <2>1. CASE outbox'[i].tries = 0
    BY <1>1, <2>1 DEF Lasting
  <2>2. CASE /\ i + n \in DOMAIN outbox
             /\ \/ outbox'[i].tries = outbox[i + n].tries
                \/ drainRetryable /\ outbox'[i].tries = outbox[i + n].tries + 1
    <3>1. outbox[i + n].tries \in Nat
      BY <1>0, <1>1, <2>2, EntryFacts DEF Entry
    <3>2. outbox[i + n].tries + left.busy < MaxAttempts
      BY <2>2 DEF Lasting
    <3> QED BY <1>1, <1>2, <2>2, <3>1, <3>2
  <2> QED BY <1>3, <2>1, <2>2
<1>5. left'.busy < MaxAttempts
  BY <1>1 DEF Lasting
<1> QED BY <1>4, <1>5 DEF Lasting

\* A row in scope appears with the page that covers it.
LEMMA UntouchedStep ==
  ASSUME Ground, Unrefused, [Next]_vars, ~wiped'
  PROVE  Untouched'
<1>0. TypeOK /\ ReplicaTypes /\ SnapType
  BY DEF Ground, ReplicaTypes
<1>1. (\A c \in left'.write : MethodOf[c] # "POST") \/ (\A r \in Rows : InScope(r)' => Covered(r)')
  <2>1. CASE \A c \in left.write : MethodOf[c] # "POST"
    BY <1>0, <2>1, LeftShrinks
  <2>2. CASE \A r \in Rows : InScope(r) => Covered(r)
    <3>1. \A r \in Rows : InScope(r)' => InScope(r)
      BY ShrinkStep DEF Ground, InScope
    <3> QED BY <2>2, <3>1, CoveredStays
  <2> QED BY <2>1, <2>2 DEF Unrefused, Untouched
<1>2. ASSUME NEW r \in Rows, InScope(r)', ~Covered(r)' PROVE tab'[r] = Gone /\ ~Queued(r)'
  <2>1. InScope(r) /\ ~Covered(r)
    BY <1>2, CoveredStays, ShrinkStep DEF Ground, InScope
  <2>2. tab[r] = Gone /\ ~Queued(r) /\ \A c \in left.write : MethodOf[c] # "POST"
    BY <2>1 DEF Unrefused, Untouched
  <2>3. ASSUME NEW c \in Commands, enqueue(c), r = RowOf[c] PROVE FALSE
    BY <2>2, <2>3 DEF enqueue
  <2>4. ~Queued(r)'
    BY <1>0, <2>2, <2>3, QueuedBefore
  <2>5. outbox # <<>> => r # RowOf[Next1]
    BY <1>0, <2>2, HeadAndTail DEF Queued, Next1, TypeOK
  <2> QED BY <1>2, <2>2, <2>3, <2>4, <2>5, UncoveredRow
<1> QED BY <1>1, <1>2 DEF Untouched

\* All of it together.
LEMMA UnrefusedStep ==
  ASSUME Ground, Unrefused, [Next]_vars, ~wiped'
  PROVE  Unrefused'
<1>1. left'.reject = 0
  BY LeftShrinks DEF Ground, ReplicaTypes, Kinds, Unrefused
<1> QED BY <1>1, PostFirstStep, CreatedStep, UnsentStep, LastingStep, UntouchedStep DEF Unrefused

(* Scenarios in which nobody else writes a row the user writes. *)

\* Nobody else writes, and no row is written twice.
SoleWriter == left.edit = 0 /\ \A c, d \in Writes : RowOf[c] = RowOf[d] => c = d

\* A stored answer is the row as it is.
Answered == \A c \in Commands : resp[c] \notin {None, Null} => srv[RowOf[c]] = resp[c]

\* What is in the feed, the user wrote.
Sourced == \A i \in DOMAIN feed : \E c \in issued : resp[c] # None /\ RowOf[c] = feed[i]

\* The pre-image of a command that was not executed is the row as the server has it.
SawLatest ==
  \A i \in DOMAIN outbox :
    InScope(RowOf[outbox[i].cmd]) /\ resp[outbox[i].cmd] = None => outbox[i].before = Shown(RowOf[outbox[i].cmd])

\* Of the rows not filled in yet the user creates some and writes no other; the replica has
\* a row that is to be created, and no row the user did not write.
Unfilled ==
  /\ \A c \in issued : InScope(RowOf[c]) /\ ~Covered(RowOf[c]) => MethodOf[c] = "POST"
  /\ \A r \in Rows : InScope(r) /\ ~Covered(r) /\ (\A c \in issued : RowOf[c] # r) => tab[r] = Gone
  /\ \A i \in DOMAIN outbox :
       InScope(RowOf[outbox[i].cmd]) /\ ~Covered(RowOf[outbox[i].cmd]) /\ resp[outbox[i].cmd] = None
         => tab[RowOf[outbox[i].cmd]] = outbox[i].cmd

\* The invariant of these scenarios.
Uncontested ==
  /\ SoleWriter /\ (Unsent \/ (Lasting /\ left.reject = 0)) /\ Answered /\ Sourced /\ SawLatest /\ Unfilled
  /\ \A r \in Rows : Blank(r)

\* Only the head of the queue writes on the server, and only its own row.
LEMMA OwnRow ==
  ASSUME Ground, SoleWriter, [Next]_vars
  PROVE  \/ UNCHANGED <<srv, feed, resp>>
         \/ /\ drainLost \/ drainAccepted
            /\ Next1 \in Commands /\ Next1 \in InOutbox /\ outbox # <<>> /\ Next1 \in issued
            /\ resp[Next1] = None /\ Executable(Next1) /\ resp'[Next1] # None
            /\ (\A d \in Commands \ {Next1} : resp'[d] = resp[d])
            /\ (\A d \in Writes \ {Next1} : srv'[RowOf[d]] = srv[RowOf[d]])
            /\ (\A r \in Rows \ {RowOf[Next1]} : srv'[r] = srv[r])
            /\ srv'[RowOf[Next1]] = After(Next1)
            /\ resp'[Next1] = IF MethodOf[Next1] = "DELETE" THEN Null ELSE After(Next1)
            /\ Len(feed') = Len(feed) + 1 /\ (\A i \in 1..Len(feed) : feed'[i] = feed[i])
            /\ feed'[Len(feed')] = RowOf[Next1] /\ feed' \in Seq(Rows)
<1>0. TypeOK /\ left \in Budget /\ issued \subseteq Commands /\ left.write \subseteq Commands /\ InOutbox \subseteq issued
  BY DEF Ground, ReplicaTypes, TypeOK, Budget, QueueInv
<1>1. ASSUME NEW r \in Rows PROVE ~Edit(r)
  BY <1>0, SpendOne DEF Edit, Kinds, SoleWriter
<1>2. CASE /\ drainLost \/ drainAccepted
           /\ Execute(Next1) /\ Next1 \in Commands /\ Next1 \in InOutbox /\ outbox # <<>>
  <2>1. \A d \in Writes \ {Next1} : RowOf[d] \in Rows \ {RowOf[Next1]}
    BY <1>0, <1>2, RowFacts DEF SoleWriter, Writes
  <2>2. CASE resp[Next1] # None /\ UNCHANGED <<srv, feed, resp>>
    BY <2>2
  <2>3. CASE resp[Next1] = None
    BY <1>0, <1>2, <2>1, <2>3, ExecuteFacts
  <2> QED BY <1>0, <1>2, <2>2, <2>3, ExecuteFacts
<1> QED BY <1>0, <1>1, <1>2, ServerWrites

\* So nothing happens on the server to a row whose command was not executed.
LEMMA ServerStays ==
  ASSUME Ground, SoleWriter, [Next]_vars, NEW c \in Writes, resp'[c] = None
  PROVE  resp[c] = None /\ srv'[RowOf[c]] = srv[RowOf[c]]
<1>1. c \in Commands
  BY DEF Ground, ReplicaTypes, TypeOK, Budget, Writes
<1> QED BY <1>1, OwnRow

\* Nobody else starts to write.
LEMMA SoleWriterStep ==
  ASSUME Ground, SoleWriter, [Next]_vars
  PROVE  SoleWriter'
<1>0. TypeOK
  BY DEF Ground, ReplicaTypes
<1>1. left'.edit = 0
  BY <1>0, LeftShrinks DEF Kinds, SoleWriter
<1> QED BY <1>0, <1>1, WritesShrink DEF SoleWriter

\* A second write of the row would make the stored answer stale; there is none.
LEMMA AnsweredStep ==
  ASSUME Ground, SoleWriter, Answered, [Next]_vars
  PROVE  Answered'
<1> SUFFICES ASSUME NEW c \in Commands, resp'[c] \notin {None, Null} PROVE srv'[RowOf[c]] = resp'[c]
  BY DEF Answered
<1>1. CASE c = Next1 /\ resp'[Next1] = (IF MethodOf[Next1] = "DELETE" THEN Null ELSE After(Next1)) /\ srv'[RowOf[Next1]] = After(Next1)
  BY <1>1
<1>2. CASE resp'[c] = resp[c]
  <2>1. srv[RowOf[c]] = resp[c] /\ c \in Writes
    BY <1>2 DEF Answered, Ground, QueueInv, Writes
  <2> QED BY <1>1, <1>2, <2>1, OwnRow
<1> QED BY <1>1, <1>2, OwnRow

\* The feed grows by what the user wrote.
LEMMA SourcedStep ==
  ASSUME Ground, SoleWriter, Sourced, [Next]_vars
  PROVE  Sourced'
<1>0. TypeOK /\ issued \subseteq issued' /\ issued \subseteq Commands /\ feed \in Seq(Rows) /\ Len(feed) \in Nat
  BY WritesShrink DEF Ground, ReplicaTypes, TypeOK
<1>1. \A c \in Commands : resp[c] # None => resp'[c] # None
  BY OwnRow
<1>2. ASSUME NEW i \in DOMAIN feed PROVE \E c \in issued' : resp'[c] # None /\ RowOf[c] = feed[i]
  BY <1>0, <1>1, <1>2 DEF Sourced
<1>3. CASE feed' = feed
  BY <1>2, <1>3 DEF Sourced
<1>4. CASE /\ Next1 \in issued /\ resp'[Next1] # None
           /\ Len(feed') = Len(feed) + 1 /\ (\A i \in 1..Len(feed) : feed'[i] = feed[i])
           /\ feed'[Len(feed')] = RowOf[Next1] /\ feed' \in Seq(Rows)
  <2>1. \A i \in DOMAIN feed' : i = Len(feed') \/ (i \in DOMAIN feed /\ feed'[i] = feed[i])
    BY <1>0, <1>4
  <2> QED BY <1>0, <1>2, <1>4, <2>1 DEF Sourced
<1> QED BY <1>3, <1>4, OwnRow

\* A row the user is about to write for the first time is as the server has it.
LEMMA EnqueueSees ==
  ASSUME Ground, Uncontested, NEW c \in Commands, enqueue(c), InScope(RowOf[c]), Agreed(RowOf[c])
  PROVE  /\ tab[RowOf[c]] = Shown(RowOf[c]) /\ resp[c] = None /\ c \in Writes /\ (\A d \in issued : RowOf[d] # RowOf[c])
         /\ ~Covered(RowOf[c]) => MethodOf[c] = "POST"
<1>0. TypeOK /\ c \in left.write /\ RowOf[c] \in Rows /\ issued \subseteq Commands
  BY RowFacts DEF enqueue, Ground, ReplicaTypes, TypeOK
<1>1. c \in Writes /\ c \notin issued /\ resp[c] = None
  BY <1>0 DEF Writes, Ground, QueueInv
<1>2. \A d \in issued : RowOf[d] # RowOf[c]
  BY <1>1 DEF Uncontested, SoleWriter, Writes
<1>3. ~Pending(RowOf[c])
  <2>1. \A i \in DOMAIN outbox : outbox[i].cmd \in issued
    BY <1>0, EntryFacts DEF Ground, QueueInv
  <2> QED BY <1>2, <2>1 DEF Pending
<1>4. ~Announced(RowOf[c])
  <2>1. \A i \in (cursor + 1)..Len(feed) : i \in DOMAIN feed
    BY <1>0 DEF TypeOK
  <2> QED BY <1>2, <2>1 DEF Announced, Uncontested, Sourced
<1>5. CASE Covered(RowOf[c])
  BY <1>1, <1>2, <1>3, <1>4, <1>5 DEF Agreed
<1>6. CASE ~Covered(RowOf[c])
  <2>1. tab[RowOf[c]] = Gone
    BY <1>0, <1>2, <1>6 DEF Uncontested, Unfilled
  <2>2. MethodOf[c] = "POST"
    BY <2>1 DEF enqueue
  <2>3. srv[RowOf[c]] = None
    BY <1>1, <2>2 DEF Ground, OnePost
  <2> QED BY <1>1, <1>2, <2>1, <2>2, <2>3 DEF Shown
<1> QED BY <1>5, <1>6

\* Who is in the queue after a step, and what the entry says.
LEMMA QueueAfter ==
  ASSUME Ground, [Next]_vars, ~wiped', NEW i \in DOMAIN outbox'
  PROVE  /\ outbox'[i].cmd \in Commands /\ outbox'[i].cmd \in InOutbox' /\ RowOf[outbox'[i].cmd] \in Rows
         /\ outbox'[i].cmd \in issued' /\ issued' \subseteq Writes
         /\ \/ \E k \in DOMAIN outbox : outbox'[i].cmd = outbox[k].cmd /\ outbox'[i].before = outbox[k].before
            \/ \E c \in Commands : enqueue(c) /\ outbox'[i].cmd = c /\ outbox'[i].before = tab[RowOf[c]]
<1>0. TypeOK /\ ReplicaTypes /\ QueueInv
  BY DEF Ground, ReplicaTypes
<1>1. TypeOK' /\ QueueInv'
  BY <1>0, TypesStep, QueueStep DEF ReplicaTypes
<1>2. outbox' \in Seq(Entry)
  BY <1>1 DEF TypeOK
<1>3. outbox'[i] \in Entry
  BY <1>2
<1>4. outbox'[i].cmd \in Commands /\ outbox'[i].cmd \in InOutbox' /\ outbox'[i].cmd \in issued'
  BY <1>1, <1>3 DEF Entry, InOutbox, QueueInv
<1>5. issued' \subseteq Writes
  BY <1>0, WritesShrink DEF Writes
<1>6. PICK n \in {0, 1} :
        \/ i + n \in DOMAIN outbox /\ outbox'[i].cmd = outbox[i + n].cmd /\ outbox'[i].before = outbox[i + n].before
        \/ \E c \in Commands : enqueue(c) /\ outbox'[i] = [cmd |-> c, before |-> tab[RowOf[c]], tries |-> 0]
  BY <1>0, QueueShift
<1>7. \/ \E k \in DOMAIN outbox : outbox'[i].cmd = outbox[k].cmd /\ outbox'[i].before = outbox[k].before
      \/ \E c \in Commands : enqueue(c) /\ outbox'[i].cmd = c /\ outbox'[i].before = tab[RowOf[c]]
  BY <1>6
<1> QED BY <1>4, <1>5, <1>7, RowFacts

\* The row the user saw stays the server's until the command is executed.
LEMMA SawLatestStep ==
  ASSUME Ground, Uncontested, \A q \in Rows : Agreed(q), [Next]_vars, ~wiped'
  PROVE  SawLatest'
<1> SUFFICES ASSUME NEW i \in DOMAIN outbox', InScope(RowOf[outbox[i].cmd])', resp'[outbox'[i].cmd] = None
             PROVE  outbox'[i].before = Shown(RowOf[outbox[i].cmd])'
  BY DEF SawLatest
<1>1. PICK c \in Commands : c = outbox'[i].cmd
  BY QueueAfter
<1>2. c \in Writes /\ RowOf[c] \in Rows
  BY <1>1, QueueAfter
<1>3. resp[c] = None /\ srv'[RowOf[c]] = srv[RowOf[c]]
  BY <1>1, <1>2, ServerStays DEF Uncontested
<1>4. InScope(RowOf[c])
  <2>1. InScope(RowOf[c])'
    BY <1>1 DEF InScope
  <2> QED BY <2>1, ShrinkStep DEF Ground, InScope
<1>5. ASSUME enqueue(c) PROVE tab[RowOf[c]] = Shown(RowOf[c])
  BY <1>2, <1>4, <1>5, EnqueueSees
<1>6. ASSUME NEW k \in DOMAIN outbox, c = outbox[k].cmd PROVE outbox[k].before = Shown(RowOf[c])
  BY <1>3, <1>4, <1>6 DEF Uncontested, SawLatest
<1>7. outbox'[i].before = Shown(RowOf[c])
  BY <1>1, <1>5, <1>6, QueueAfter
<1> QED BY <1>1, <1>3, <1>7 DEF Shown

\* Before a row is filled in, only its creation touches it.
LEMMA UnfilledStep ==
  ASSUME Ground, Uncontested, \A q \in Rows : Agreed(q), [Next]_vars, ~wiped'
  PROVE  Unfilled'
<1>0. TypeOK /\ ReplicaTypes /\ issued \subseteq Commands /\ issued \subseteq issued' /\ Distinct
  BY WritesShrink DEF Ground, ReplicaTypes, TypeOK, QueueInv
<1>i. issued' = issued \/ \E c \in Commands : enqueue(c) /\ issued' = issued \cup {c}
  BY OnlyEnqueueIssues
<1>h. outbox # <<>> => Next1 \in issued /\ Next1 \in Commands /\ RowOf[Next1] \in Rows
  BY <1>0, HeadAndTail, EntryFacts, RowFacts DEF TypeOK, Next1, Ground, QueueInv
<1>1. ASSUME NEW c \in issued', InScope(RowOf[c])', ~Covered(RowOf[c])' PROVE MethodOf[c] = "POST"
  <2>0. c \in Commands /\ RowOf[c] \in Rows
    BY <1>0, <1>i, RowFacts
  <2>1. InScope(RowOf[c]) /\ ~Covered(RowOf[c])
    BY <1>1, <2>0, UncoveredRow
  <2>2. CASE c \in issued
    BY <2>1, <2>2 DEF Uncontested, Unfilled
  <2>3. CASE enqueue(c)
    BY <2>0, <2>1, <2>3, EnqueueSees
  <2> QED BY <1>i, <2>2, <2>3
<1>2. ASSUME NEW r \in Rows, InScope(r)', ~Covered(r)', \A c \in issued' : RowOf[c] # r PROVE tab'[r] = Gone
  <2>1. InScope(r) /\ ~Covered(r)
    BY <1>2, UncoveredRow
  <2>2. tab[r] = Gone
    BY <1>0, <1>2, <2>1 DEF Uncontested, Unfilled
  <2>3. ~\E c \in Commands : enqueue(c) /\ r = RowOf[c]
    BY <1>2 DEF enqueue
  <2> QED BY <1>0, <1>2, <1>h, <2>2, <2>3, UncoveredRow
<1>3. ASSUME NEW i \in DOMAIN outbox', InScope(RowOf[outbox[i].cmd])', ~Covered(RowOf[outbox[i].cmd])', resp'[outbox'[i].cmd] = None
      PROVE  tab'[RowOf[outbox'[i].cmd]] = outbox'[i].cmd
  <2>1. PICK c \in Commands : c = outbox'[i].cmd
    BY QueueAfter
  <2>2. c \in Writes /\ RowOf[c] \in Rows /\ c \in issued' /\ c \in InOutbox'
    BY <2>1, QueueAfter
  <2>p. InScope(RowOf[c])' /\ ~Covered(RowOf[c])'
    BY <1>3, <2>1 DEF InScope, Covered
  <2>3. resp[c] = None /\ InScope(RowOf[c]) /\ ~Covered(RowOf[c])
    BY <1>3, <2>1, <2>2, <2>p, ServerStays, UncoveredRow DEF Uncontested
  <2>4. MethodOf[c] = "POST"
    BY <1>1, <2>2, <2>p
  <2>5. CASE enqueue(c)
    BY <1>0, <2>1, <2>2, <2>4, <2>5 DEF enqueue, TypeOK
  <2>6. ASSUME NEW k \in DOMAIN outbox, c = outbox[k].cmd PROVE tab'[RowOf[c]] = c
    <3>1. tab[RowOf[c]] = c /\ c \in issued
      BY <1>0, <2>3, <2>6, EntryFacts DEF Uncontested, Unfilled, Ground, QueueInv
    <3>2. ~\E d \in Commands : enqueue(d) /\ RowOf[c] = RowOf[d]
      BY <3>1 DEF enqueue, Uncontested, SoleWriter, Writes, Ground, QueueInv
    <3>3. ~((drainAccepted \/ GivesUp) /\ RowOf[c] = RowOf[Next1] /\ outbox # <<>>)
      <4> SUFFICES ASSUME drainAccepted \/ GivesUp, RowOf[c] = RowOf[Next1], outbox # <<>> PROVE FALSE
        OBVIOUS
      <4>1. c = Next1
        BY <1>h, <3>1 DEF Uncontested, SoleWriter, Writes
      <4>2. outbox' = Tail(outbox)
        BY DEF drainAccepted, GivesUp, drainRejected, drainRetryable
      <4>3. InOutbox' = InOutbox \ {Next1}
        BY <1>0, <4>2, Popped
      <4> QED BY <2>2, <4>1, <4>3
    <3> QED BY <2>2, <2>p, <3>1, <3>2, <3>3, UncoveredRow
  <2> QED BY <2>1, <2>5, <2>6, QueueAfter
<1> QED BY <1>1, <1>2, <1>3 DEF Unfilled

\* A command that is given up was not executed.
LEMMA GivenUpUnsent ==
  ASSUME Ground, Uncontested, GivesUp
  PROVE  outbox # <<>> /\ resp[Next1] = None
<1>0. TypeOK /\ left \in Budget
  BY DEF Ground, ReplicaTypes, TypeOK
<1>1. outbox # <<>>
  BY DEF GivesUp, drainRejected, drainRetryable, Sendable, Draining
<1>2. 1 \in DOMAIN outbox /\ outbox[1].tries \in Nat /\ MaxAttempts \in Nat /\ left.busy \in Nat
  BY <1>0, <1>1, HeadAndTail, ReplicaAssumption DEF TypeOK, Budget
<1>3. CASE Unsent
  BY <1>1, <1>2, <1>3 DEF Unsent, Next1
<1>4. CASE Lasting /\ left.reject = 0 /\ drainRetryable /\ ~(outbox[1].tries + 1 < MaxAttempts)
  <2>1. left.busy > 0
    BY <1>0, <1>4, SpendOne DEF drainRetryable, Kinds
  <2>2. outbox[1].tries + left.busy < MaxAttempts
    BY <1>2, <1>4 DEF Lasting
  <2> QED BY <1>2, <1>4, <2>1, <2>2
<1>5. CASE left.reject = 0 /\ drainRejected
  <2>1. ~Spend("reject")
    BY <1>0, <1>5, SpendOne DEF Kinds
  <2> QED BY <1>1, <1>5, <2>1 DEF drainRejected
<1> QED BY <1>3, <1>4, <1>5 DEF Uncontested, GivesUp

\* Whatever becomes of the creation, accepted, lost or refused, the row is as the server has it.
LEMMA BlankStep ==
  ASSUME Ground, Uncontested, Unfilled', [Next]_vars, ~wiped', NEW r \in Rows
  PROVE  Blank(r)'
<1>0. TypeOK /\ ReplicaTypes /\ issued \subseteq Commands /\ issued \subseteq issued' /\ Distinct /\ InOutbox \subseteq issued
  BY WritesShrink DEF Ground, ReplicaTypes, TypeOK, QueueInv
<1> SUFFICES ASSUME InScope(r)', ~Covered(r)', ~Pending(r)' PROVE tab'[r] = Gone \/ tab'[r] = Shown(r)'
  BY DEF Blank
<1>1. InScope(r) /\ ~Covered(r)
  BY UncoveredRow
<1>h. outbox # <<>> => Next1 \in issued /\ Next1 \in Commands /\ 1 \in DOMAIN outbox
  BY <1>0, HeadAndTail, EntryFacts DEF TypeOK, Next1
<1>2. CASE \A c \in issued' : RowOf[c] # r
  BY <1>2 DEF Unfilled
<1>3. ASSUME NEW c \in Commands, enqueue(c), RowOf[c] = r PROVE FALSE
  <2>1. resp'[c] = None
    BY <1>3 DEF enqueue, Ground, QueueInv, server
  <2>2. outbox' = Append(outbox, [cmd |-> c, before |-> tab[RowOf[c]], tries |-> 0])
    BY <1>3 DEF enqueue
  <2>3. Len(outbox) + 1 \in DOMAIN outbox' /\ outbox'[Len(outbox) + 1].cmd = c
    BY <1>0, <2>2 DEF TypeOK
  <2> QED BY <1>3, <2>1, <2>3 DEF Pending
<1>4. ASSUME NEW c \in issued, RowOf[c] = r PROVE tab'[r] = Gone \/ tab'[r] = Shown(r)'
  <2>1. MethodOf[c] = "POST" /\ c \in Commands /\ \A d \in issued : RowOf[d] = r => d = c
    BY <1>0, <1>1, <1>4 DEF Uncontested, Unfilled, SoleWriter, Writes
  <2>2. CASE outbox # <<>> /\ Next1 = c /\ resp[c] = None /\ (drainAccepted \/ GivesUp \/ (drainLost /\ ~UNCHANGED resp))
    <3>1. CASE GivesUp
      <4>1. tab'[r] = outbox[1].before /\ srv' = srv
        BY <1>0, <1>4, <2>2, <3>1 DEF GivesUp, drainRejected, drainRetryable, rollback, Next1, TypeOK, server
      <4>2. outbox[1].before = Shown(r)
        BY <1>1, <1>4, <1>h, <2>2 DEF Uncontested, SawLatest, Next1
      <4> QED BY <4>1, <4>2 DEF Shown
    <3>2. CASE drainAccepted \/ (drainLost /\ ~UNCHANGED resp)
      <4>1. Execute(c)
        BY <2>2, <3>2 DEF drainAccepted, drainLost
      <4>2. srv'[r] = After(c) /\ resp'[c] = After(c) /\ After(c) = c
        <5>1. After(c) = c
          BY <2>1 DEF After
        <5> QED BY <1>0, <1>4, <2>1, <2>2, <4>1, <5>1, ExecuteFacts
      <4>3. Shown(r)' = c
        BY <2>1, <4>2, ValueFacts DEF Shown
      <4>4. CASE drainAccepted
        BY <1>0, <1>4, <2>1, <2>2, <4>2, <4>3, <4>4, ValueFacts DEF drainAccepted, TypeOK
      <4>5. CASE drainLost
        <5>1. tab' = tab
          BY <4>5 DEF drainLost, client
        <5>2. tab[r] = c
          BY <1>1, <1>4, <1>h, <2>2 DEF Uncontested, Unfilled, Next1
        <5> QED BY <4>3, <5>1, <5>2
      <4> QED BY <3>2, <4>4, <4>5
    <3> QED BY <2>2, <3>1, <3>2
  <2>3. CASE ~(outbox # <<>> /\ Next1 = c /\ resp[c] = None /\ (drainAccepted \/ GivesUp \/ (drainLost /\ ~UNCHANGED resp)))
    <3>1. srv'[r] = srv[r]
      <4>1. CASE UNCHANGED <<srv, feed, resp>>
        BY <4>1
      <4>2. CASE /\ drainLost \/ drainAccepted
                 /\ outbox # <<>> /\ Next1 \in issued /\ resp[Next1] = None /\ resp'[Next1] # None
                 /\ \A q \in Rows \ {RowOf[Next1]} : srv'[q] = srv[q]
        BY <2>1, <2>3, <4>2
      <4> QED BY <4>1, <4>2, OwnRow DEF Uncontested
    <3>2. Pending(r) => Pending(r)'
      <4> SUFFICES ASSUME Pending(r) PROVE Pending(r)'
        OBVIOUS
      <4>1. PICK k \in DOMAIN outbox : RowOf[outbox[k].cmd] = r /\ resp[outbox[k].cmd] = None
        BY DEF Pending
      <4>2. outbox[k].cmd = c
        BY <1>0, <2>1, <4>1, EntryFacts
      <4>3. resp'[c] = None
        <5>1. CASE UNCHANGED <<srv, feed, resp>>
          BY <4>1, <4>2, <5>1
        <5>2. CASE /\ drainLost \/ drainAccepted
                   /\ outbox # <<>> /\ Next1 \in issued /\ resp[Next1] = None /\ resp'[Next1] # None
                   /\ \A d \in Commands \ {Next1} : resp'[d] = resp[d]
          BY <2>1, <2>3, <4>1, <4>2, <5>2
        <5> QED BY <5>1, <5>2, OwnRow DEF Uncontested
      <4>4. PICK n \in {0, 1} :
              /\ n = 1 => outbox # <<>> /\ (drainUnknown \/ drainAccepted \/ GivesUp)
              /\ \A j \in DOMAIN outbox : j > n => j - n \in DOMAIN outbox' /\ outbox'[j - n].cmd = outbox[j].cmd
        BY <1>0, QueueShift
      <4>5. k > n
        <5>1. k \in Nat /\ k >= 1
          BY <1>0, EntryFacts
        <5>2. CASE n = 0
          BY <5>1, <5>2
        <5>3. CASE n = 1
          <6>1. ~drainUnknown \/ Next1 # c
            BY <1>1, <1>4 DEF drainUnknown, Draining, Ground, ScopeShrinks, Phase, InScope, computeScope
          <6>2. k # 1
            BY <2>3, <4>1, <4>2, <4>4, <5>3, <6>1 DEF Next1
          <6> QED BY <5>1, <5>3, <6>2
        <5> QED BY <5>2, <5>3
      <4> QED BY <4>1, <4>2, <4>3, <4>4, <4>5 DEF Pending
    <3>3. tab[r] = Gone \/ tab[r] = Shown(r)
      BY <1>1, <3>2 DEF Uncontested, Blank
    <3>4. ASSUME (drainAccepted \/ GivesUp) /\ r = RowOf[Next1] /\ outbox # <<>> PROVE tab'[r] = tab[r] \/ tab'[r] = Shown(r)
      <4>1. Next1 = c /\ resp[c] # None
        BY <1>h, <2>1, <2>3, <3>4
      <4>2. drainAccepted
        BY <3>4, <4>1, GivenUpUnsent
      <4>3. UNCHANGED <<srv, resp>>
        BY <4>1, OwnRow DEF Uncontested
      <4>4. tab'[r] = tab[r] \/ (tab'[r] = resp[c] /\ resp[c] # Null)
        <5>1. tab' = tab \/ (resp[c] # Null /\ tab' = [tab EXCEPT ![r] = resp[c]])
          BY <3>4, <4>1, <4>2, <4>3 DEF drainAccepted
        <5> QED BY <1>0, <5>1 DEF TypeOK
      <4>5. resp[c] # Null => srv[r] = resp[c]
        BY <1>4, <2>1, <4>1 DEF Uncontested, Answered
      <4> QED BY <4>1, <4>4, <4>5 DEF Shown
    <3>5. tab'[r] = tab[r] \/ tab'[r] = Shown(r)
      BY <1>3, <3>4, UncoveredRow
    <3>6. Shown(r)' = Shown(r)
      BY <3>1 DEF Shown
    <3> QED BY <3>3, <3>5, <3>6
  <2> QED BY <2>2, <2>3
<1>5. ASSUME NEW c \in issued', RowOf[c] = r PROVE c \in issued
  BY <1>3, <1>5, OnlyEnqueueIssues
<1> QED BY <1>2, <1>4, <1>5

\* All of it together.
LEMMA UncontestedStep ==
  ASSUME Ground, Uncontested, \A q \in Rows : Agreed(q), [Next]_vars, ~wiped'
  PROVE  Uncontested'
<1>1. SoleWriter' /\ Answered' /\ Sourced'
  BY SoleWriterStep, AnsweredStep, SourcedStep DEF Uncontested
<1>2. (Unsent \/ (Lasting /\ left.reject = 0))'
  <2>1. TypeOK
    BY DEF Ground, ReplicaTypes
  <2>2. left.reject = 0 => left'.reject = 0
    BY <2>1, LeftShrinks DEF Kinds
  <2> QED BY <2>2, UnsentStep, LastingStep DEF Uncontested
<1>3. SawLatest' /\ Unfilled'
  BY SawLatestStep, UnfilledStep
<1>4. \A r \in Rows : Blank(r)'
  BY <1>3, BlankStep
<1> QED BY <1>1, <1>2, <1>3, <1>4 DEF Uncontested
--------------------------------------------------------------------------------
\* The invariant: until a wipe, every row is agreed and one of the two kinds of scenario runs.
CaughtInv == wiped \/ (Ground /\ (\A r \in Rows : Agreed(r)) /\ (Unrefused \/ Uncontested))

\* A filled replica agrees from the start; on an empty one no row is covered.
LEMMA InitCaught ==
  ASSUME Orderly
  PROVE  Init => CaughtInv
<1> SUFFICES ASSUME Init PROVE Ground /\ (\A r \in Rows : Agreed(r)) /\ (Unrefused \/ Uncontested)
  BY DEF CaughtInv
<1>1. PICK s \in Scenarios :
        /\ left = s.budget
        /\ IF s.hydrated
             THEN /\ tab = [r \in Rows |-> IF r \in NewRows THEN Gone ELSE 0]
                  /\ hyd = [o \in Objects |-> [after |-> 0, done |-> TRUE]]
                  /\ meta = Objects
             ELSE /\ tab = [r \in Rows |-> Gone]
                  /\ hyd = [o \in Objects |-> None]
                  /\ meta = None
  BY DEF Init
<1>2. s.budget.grant <= 1 /\ s.budget.module <= 1 /\ (NeverRefused(s) \/ NeverContested(s)) /\ s.budget \in Budget
  BY ZeroIsValue DEF Orderly
<1>3. ReplicaTypes /\ QueueInv
  BY InitTypes, InitQueue
<1>4. ScopeShrinks /\ Phase /\ SnapOK
  <2>1. meta # None => enabled \subseteq meta
    <3>1. meta = Objects \/ meta = None
      BY <1>1
    <3> QED BY <3>1 DEF Init
  <2> QED BY <1>1, <1>2, <2>1 DEF Init, ScopeShrinks, Phase, SnapOK
<1>5. OnePost
  <2>1. Writes = s.budget.write /\ s.budget.write \subseteq Commands
    BY <1>1, <1>2 DEF Writes, Init, Budget
  <2>2. \A c \in Commands : MethodOf[c] = "POST" => srv[RowOf[c]] = None
    BY RowFacts, ReplicaAssumption DEF Init
  <2> QED BY <1>2, <2>1, <2>2 DEF OnePost, NeverRefused, NeverContested
<1>6. \A r \in Rows : IF s.hydrated THEN Covered(r) ELSE ~Covered(r) /\ tab[r] = Gone
  <2>1. CASE s.hydrated
    <3>1. \A o \in Objects : hyd[o] = [after |-> 0, done |-> TRUE] /\ hyd[o] # None
      BY <1>1, <2>1, ProgressFacts
    <3> QED BY <2>1, <3>1, RowFacts DEF Covered
  <2>2. CASE ~s.hydrated
    BY <1>1, <2>2, RowFacts DEF Covered
  <2> QED BY <2>1, <2>2
<1>7. ASSUME NEW r \in Rows PROVE Agreed(r)
  <2>1. CASE s.hydrated
    <3>1. tab[r] = IF r \in NewRows THEN Gone ELSE 0
      BY <1>1, <2>1
    <3>2. srv[r] = IF r \in NewRows THEN None ELSE 0
      BY DEF Init
    <3>3. 0 # None
      BY ZeroIsValue, ValueFacts
    <3> QED BY <3>1, <3>2, <3>3 DEF Agreed, Shown
  <2>2. CASE ~s.hydrated
    BY <1>6, <2>2 DEF Agreed
  <2> QED BY <2>1, <2>2
<1>8. ASSUME NeverRefused(s) PROVE Unrefused
  <2>1. Unsent /\ Lasting /\ PostFirst /\ left.reject = 0
    BY <1>1, <1>8 DEF Init, Unsent, Lasting, PostFirst, NeverRefused
  <2>2. Untouched
    BY <1>1, <1>6, <1>8 DEF Init, Untouched, NeverRefused, Queued
  <2>3. ASSUME NEW r \in Rows PROVE Created(r)
    <3>1. srv[r] = None => r \in NewRows
      BY ZeroIsValue, ValueFacts DEF Init
    <3>2. r \in NewRows => tab[r] = Gone
      BY <1>1
    <3> QED BY <3>1, <3>2 DEF Created
  <2> QED BY <2>1, <2>2, <2>3 DEF Unrefused
<1>9. ASSUME NeverContested(s) PROVE Uncontested
  <2>1. Writes = s.budget.write
    BY <1>1, <1>2 DEF Writes, Init
  <2>2. SoleWriter
    BY <1>1, <1>9, <2>1 DEF SoleWriter, NeverContested
  <2>3. Unsent \/ (Lasting /\ left.reject = 0)
    BY <1>1, <1>9 DEF Init, Unsent, Lasting, NeverContested
  <2>4. Answered /\ Sourced /\ SawLatest
    BY DEF Init, Answered, Sourced, SawLatest
  <2>5. Unfilled
    BY <1>6 DEF Init, Unfilled
  <2>6. \A r \in Rows : Blank(r)
    BY <1>6 DEF Blank
  <2> QED BY <2>2, <2>3, <2>4, <2>5, <2>6 DEF Uncontested
<1> QED BY <1>2, <1>3, <1>4, <1>5, <1>7, <1>8, <1>9 DEF Ground

\* The two kinds of scenario give what AgreedStep asks for.
LEMMA CaughtStep ==
  ASSUME ~SnapshotRace, CaughtInv, [Next]_vars
  PROVE  CaughtInv'
<1>1. CASE wiped'
  BY <1>1 DEF CaughtInv
<1>2. CASE ~wiped'
  <2>0. wiped => wiped'
    BY DEF Next, User, sync, wake, cycle, vars, Edit, SetGrant, SetModule, MarkWiped, enqueue, discardConflict, open, drainEmpty, drainUnknown,
         drainLost, drainWiped, drainAccepted, drainRejected, drainRetryable, reshape, hydrateDone, hydrateUnknown,
         ListPage, hydrate, pull, wipeReplica, openWiped, wipeStorage, Interrupt, server
  <2>1. Ground /\ (\A r \in Rows : Agreed(r)) /\ (Unrefused \/ Uncontested)
    BY <1>2, <2>0 DEF CaughtInv
  <2>2. Ground'
    BY <1>2, <2>1, GroundStep
  <2>3. Unrefused' \/ Uncontested'
    BY <1>2, <2>1, UnrefusedStep, UncontestedStep
  <2>t. TypeOK
    BY <2>1 DEF Ground, ReplicaTypes
  <2>4. Replays
    <3>1. CASE Unrefused
      BY <3>1 DEF Unrefused, Unsent, Replays
    <3>2. CASE Uncontested
      BY <2>t, <3>2, EntryFacts DEF Uncontested, Answered, Replays
    <3> QED BY <2>1, <3>1, <3>2
  <2>5. GivesUp => (InScope(RowOf[Next1]) => outbox[1].before = Shown(RowOf[Next1]))
    <3>1. CASE Unrefused
      BY <2>1, <3>1, LeavesScope
    <3>2. ASSUME Uncontested, GivesUp, InScope(RowOf[Next1]) PROVE outbox[1].before = Shown(RowOf[Next1])
      <4>1. outbox # <<>> /\ resp[Next1] = None
        BY <2>1, <3>2, GivenUpUnsent
      <4>2. 1 \in DOMAIN outbox
        BY <2>t, <4>1, HeadAndTail DEF TypeOK
      <4> QED BY <3>2, <4>1, <4>2 DEF Uncontested, SawLatest, Next1
    <3> QED BY <2>1, <3>1, <3>2
  <2>6. \A q \in Rows : Blank(q)
    <3>1. CASE Unrefused
      BY <3>1 DEF Unrefused, Untouched, Blank
    <3>2. CASE Uncontested
      BY <3>2 DEF Uncontested
    <3> QED BY <2>1, <3>1, <3>2
  <2>7. \A r \in Rows : Agreed(r)'
    BY <1>2, <2>1, <2>4, <2>5, <2>6, AgreedStep
  <2> QED BY <2>2, <2>3, <2>7 DEF CaughtInv
<1> QED BY <1>1, <1>2

\* INV-S3 for any rows, commands, page size and outbox limit: a replica that has sent all and
\* fetched all shows the server's rows, in any interleaving of the user, other users, one
\* withdrawn grant or module and restarts, in orderly scenarios, which lose answers or refuse
\* commands but not both, and as long as nobody writes between the two reads of readSnapshot
\* (sync.go). The runs replica_snapshot_race and replica_late_refusal leave these conditions.
THEOREM CaughtUp ==
  ASSUME ~SnapshotRace, Orderly
  PROVE  Spec => []CaughtUpAgrees
<1>1. Init => CaughtInv
  BY InitCaught
<1>2. CaughtInv /\ [Next]_vars => CaughtInv'
  BY CaughtStep
<1>3. CaughtInv => CaughtUpAgrees
  <2> SUFFICES ASSUME CaughtInv, pc = "idle", outbox = <<>>, cursor = Len(feed), ~wiped, NEW r \in Rows, Held(r)
               PROVE  tab[r] = IF srv[r] = None THEN Gone ELSE srv[r]
    BY DEF CaughtUpAgrees
  <2>1. TypeOK /\ Agreed(r)
    BY DEF CaughtInv, Ground, ReplicaTypes
  <2>2. InScope(r) /\ Covered(r)
    BY DEF Held, InScope, Covered
  <2>3. ~Pending(r)
    BY DEF Pending
  <2>4. ~Announced(r)
    BY <2>1 DEF Announced, TypeOK
  <2> QED BY <2>1, <2>2, <2>3, <2>4 DEF Agreed, Shown
<1> QED BY <1>1, <1>2, <1>3, PTL DEF Spec
--------------------------------------------------------------------------------
(* The gateway. *)

\* Handler i is between its reservation and its finalize or discard.
Holding(i) == h[i].pc \in {"reserved", "ok", "failed"}

\* A handler that holds a key has its pending row.
Owns ==
  \A i \in Handlers : Holding(i) =>
    row[h[i].q.key] = [fp |-> fingerprint(h[i].q), st |-> "pending"]

Alone ==
  \A i, j \in Handlers : Holding(i) /\ Holding(j) /\ h[i].q.key = h[j].q.key => i = j

\* These hold whatever fails.
Core == GatewayTypeOK /\ Owns /\ Alone

\* The mutation of a handler that holds its key has committed, once, just when it is
\* about to finalize.
Counted ==
  \A i \in Handlers : Holding(i) =>
    /\ h[i].pc = "ok" => runs[h[i].q.key] = 1 /\ ran[h[i].q.key] = h[i].q
    /\ h[i].pc # "ok" => runs[h[i].q.key] = 0

\* What is recorded as done did commit, for a request of that fingerprint; and ran
\* remembers a request from the first commit on.
Recorded ==
  \A k \in Keys :
    /\ row[k] # Absent /\ row[k].st = "done" =>
         ran[k] # Absent /\ fingerprint(ran[k]) = row[k].fp
    /\ ran[k] = Absent <=> runs[k] = 0

IInv == Core /\ Counted /\ Recorded /\ AtMostOnce /\ FreeKeyIsUnused /\ OkMeansDone
--------------------------------------------------------------------------------
USE IdempotencyAssumption, AbsentAssumption

LEMMA FingerprintType == ASSUME NEW q \in Request PROVE fingerprint(q) \in Fingerprint
  BY DEF Request, fingerprint, Fingerprint

\* What a busy handler is made of.
LEMMA BusyHandler ==
  ASSUME GatewayTypeOK, NEW i \in Handlers, h[i].pc # "idle"
  PROVE  h[i] \in Busy /\ h[i].q \in Request /\ h[i].q.key \in Keys
<1>1. h[i] \in Busy
  BY DEF GatewayTypeOK, Idle
<1> QED BY <1>1 DEF Busy, Request

LEMMA InitCore == GatewayInit => Core
  BY DEF GatewayInit, Core, GatewayTypeOK, Idle, Holding, Owns, Alone

LEMMA TypeStep == GatewayTypeOK /\ Owns /\ [GatewayNext]_gatewayVars => GatewayTypeOK'
<1> SUFFICES ASSUME GatewayTypeOK, Owns, [GatewayNext]_gatewayVars PROVE GatewayTypeOK'
  OBVIOUS
<1>1. ASSUME NEW i \in Handlers, NEW q \in Request, begin(i, q) PROVE GatewayTypeOK'
  <2>1. [pc |-> "absent", q |-> q, peer |-> "there"] \in Busy
    BY DEF Busy
  <2>2. q.key \in Keys
    BY DEF Request
  <2>3. row[q.key] # Absent => decideExisting(row[q.key], q) \in {"conflict", "ok"}
    BY DEF decideExisting
  <2> QED BY <1>1, <2>1, <2>2, <2>3 DEF begin, GatewayTypeOK, Answer
<1>2. ASSUME NEW i \in Handlers, h[i].pc # "idle", NEW kind \in {"ok", "conflict", "refused", "error"}, End(i, kind)
      PROVE h' \in [Handlers -> Busy \cup {Idle}] /\ answers' \subseteq Answer
  BY <1>2, BusyHandler DEF End, GatewayTypeOK, Answer
<1>3. ASSUME NEW i \in Handlers, h[i].pc # "idle", NEW to \in {"reserved", "lost", "ok", "failed"}, Goto(i, to)
      PROVE h' \in [Handlers -> Busy \cup {Idle}]
  <2>1. h[i] \in Busy
    BY <1>3, BusyHandler
  <2>2. [h[i] EXCEPT !.pc = to] \in Busy
    BY <2>1 DEF Busy
  <2> QED BY <1>3, <2>2 DEF Goto, GatewayTypeOK
<1>4. ASSUME NEW i \in Handlers, NEW q \in Request, Commits(q) PROVE runs' \in [Keys -> 0..MaxRuns] /\ ran' \in [Keys -> Request \cup {Absent}]
  BY <1>4 DEF Commits, GatewayTypeOK, Request
<1>5. ASSUME NEW f, Fault(f) PROVE faults' \in 0..MaxFaults
  BY <1>5 DEF Fault, GatewayTypeOK
<1>6. ASSUME NEW i \in Handlers, TxWorks(i) \/ TxFails(i) \/ TxUnheard(i) PROVE faults' \in 0..MaxFaults
  BY <1>5, <1>6 DEF TxWorks, TxFails, TxUnheard, GatewayTypeOK
<1>7. ASSUME NEW i \in Handlers, Step(i) PROVE GatewayTypeOK'
  <2>0. cuts' \in 0..MaxCuts
    BY <1>7 DEF Step, GatewayTypeOK
  <2>1. CASE reserve(i)
    <3>1. h[i].q.key \in Keys /\ h[i].pc # "idle" /\ [fp |-> fingerprint(h[i].q), st |-> "pending"] \in Row
      BY <2>1, BusyHandler, FingerprintType DEF reserve, At, Row
    <3>2. row' \in [Keys -> Row \cup {Absent}]
      BY <2>1, <3>1 DEF reserve, GatewayTypeOK
    <3> QED BY <2>1, <3>1, <3>2, <1>2, <1>3, <1>6, <2>0 DEF reserve, GatewayTypeOK
  <2>2. CASE reread(i)
    <3>1. h[i].pc # "idle"
      BY <2>2 DEF reread, At
    <3>2. (IF row[h[i].q.key] = Absent THEN "conflict" ELSE decideExisting(row[h[i].q.key], h[i].q)) \in {"ok", "conflict", "refused", "error"}
      BY DEF decideExisting
    <3> QED BY <2>2, <3>1, <3>2, <1>2, <1>6, <2>0 DEF reread, GatewayTypeOK
  <2>3. CASE beginFails(i)
    BY <2>3, <1>2, <1>6, <2>0 DEF beginFails, At, GatewayTypeOK
  <2>4. CASE exec(i)
    <3>1. h[i].pc # "idle" /\ h[i].q \in Request
      BY <2>4, BusyHandler DEF exec, At
    <3> QED BY <2>4, <3>1, <1>3, <1>4, <1>5, <1>6, <2>0 DEF exec, GatewayTypeOK
  <2>5. CASE finalize(i)
    <3>1. h[i].q.key \in Keys /\ h[i].pc # "idle"
      BY <2>5, BusyHandler DEF finalize, At
    <3>2. row[h[i].q.key] \in Row
      <4>1. row[h[i].q.key] = [fp |-> fingerprint(h[i].q), st |-> "pending"]
        BY <2>5 DEF finalize, At, Owns, Holding
      <4>2. fingerprint(h[i].q) \in Fingerprint
        BY <3>1, BusyHandler, FingerprintType
      <4> QED BY <4>1, <4>2 DEF Row
    <3>3. [row[h[i].q.key] EXCEPT !.st = "done"] \in Row
      BY <3>2 DEF Row
    <3>4. row' \in [Keys -> Row \cup {Absent}]
      BY <2>5, <3>1, <3>3 DEF finalize, GatewayTypeOK
    <3> QED BY <2>5, <3>1, <3>4, <1>2, <1>6, <2>0 DEF finalize, GatewayTypeOK
  <2>6. CASE finalizeFails(i)
    BY <2>6, <1>2, <1>6, <2>0 DEF finalizeFails, At, GatewayTypeOK
  <2>7. CASE discard(i)
    <3>1. h[i].q.key \in Keys /\ h[i].pc # "idle"
      BY <2>7, BusyHandler DEF discard, At
    <3> QED BY <2>7, <3>1, <1>2, <1>6, <2>0 DEF discard, GatewayTypeOK
  <2>8. CASE discardFails(i)
    BY <2>8, <1>2, <1>6, <2>0 DEF discardFails, At, GatewayTypeOK
  <2> QED BY <1>7, <2>1, <2>2, <2>3, <2>4, <2>5, <2>6, <2>7, <2>8 DEF Step
<1>8. ASSUME NEW i \in Handlers, Cut(i) PROVE GatewayTypeOK'
  <2>1. h[i] \in Busy
    BY <1>8 DEF Cut, GatewayTypeOK
  <2>2. [h[i] EXCEPT !.peer = "unreachable"] \in Busy /\ [h[i] EXCEPT !.peer = "gone"] \in Busy
    BY <2>1 DEF Busy
  <2> QED BY <1>8, <1>5, <2>2 DEF Cut, GatewayTypeOK
<1>9. CASE Crash
  BY <1>9, <1>5 DEF Crash, GatewayTypeOK
<1>10. CASE UNCHANGED gatewayVars
  BY <1>10 DEF gatewayVars, GatewayTypeOK
<1> QED BY <1>1, <1>7, <1>8, <1>9, <1>10 DEF GatewayNext

\* A pending reservation is a row, not the absence of one.
LEMMA OwnedRow ==
  ASSUME GatewayTypeOK, Owns, NEW i \in Handlers, Holding(i)
  PROVE  /\ row[h[i].q.key] \in Row /\ row[h[i].q.key] # Absent
         /\ row[h[i].q.key].st = "pending" /\ row[h[i].q.key].fp = fingerprint(h[i].q)
<1>1. row[h[i].q.key] = [fp |-> fingerprint(h[i].q), st |-> "pending"]
  BY DEF Owns
<1>2. fingerprint(h[i].q) \in Fingerprint
  BY BusyHandler, FingerprintType DEF Holding
<1>3. row[h[i].q.key] \in Row
  BY <1>1, <1>2 DEF Row
<1> QED BY <1>1, <1>3

\* What the two ways of leaving a step do to the handlers.
LEMMA EndFrame ==
  ASSUME GatewayTypeOK, NEW i \in Handlers, NEW kind, End(i, kind)
  PROVE  ~Holding(i)' /\ \A j \in Handlers : j # i => h'[j] = h[j]
  BY DEF End, GatewayTypeOK, Holding, Idle

LEMMA GotoFrame ==
  ASSUME GatewayTypeOK, NEW i \in Handlers, h[i].pc # "idle", NEW to, Goto(i, to)
  PROVE  /\ h'[i].pc = to /\ h'[i].q = h[i].q
         /\ \A j \in Handlers : j # i => h'[j] = h[j]
<1>1. h[i] \in Busy
  BY BusyHandler
<1>2. h'[i] = [h[i] EXCEPT !.pc = to] /\ \A j \in Handlers : j # i => h'[j] = h[j]
  BY DEF Goto, GatewayTypeOK
<1> QED BY <1>1, <1>2 DEF Busy

\* A cut changes nobody's step or request.
LEMMA CutFrame ==
  ASSUME GatewayTypeOK, NEW i \in Handlers, Cut(i)
  PROVE  \A j \in Handlers : h'[j].pc = h[j].pc /\ h'[j].q = h[j].q
<1>1. h[i] \in Busy
  BY DEF Cut, GatewayTypeOK
<1>2. PICK p \in {"unreachable", "gone"} : h' = [h EXCEPT ![i].peer = p]
  BY DEF Cut
<1>3. h'[i] = [h[i] EXCEPT !.peer = p] /\ \A j \in Handlers : j # i => h'[j] = h[j]
  BY <1>2 DEF GatewayTypeOK
<1> QED BY <1>1, <1>3 DEF Busy

LEMMA OwnsStep == Core /\ [GatewayNext]_gatewayVars => Owns' /\ Alone'
<1> SUFFICES ASSUME GatewayTypeOK, Owns, Alone, [GatewayNext]_gatewayVars PROVE Owns' /\ Alone'
  BY DEF Core
<1>1. ASSUME NEW i \in Handlers, NEW q \in Request, begin(i, q) PROVE Owns' /\ Alone'
  <2>1. ~Holding(i)' /\ \A j \in Handlers : j # i => h'[j] = h[j]
    BY <1>1 DEF begin, GatewayTypeOK, Holding, Idle
  <2> QED BY <1>1, <2>1 DEF begin, Owns, Alone, Holding
<1>2. ASSUME NEW i \in Handlers, Step(i) PROVE Owns' /\ Alone'
  <2>1. CASE reserve(i)
    <3>1. h[i].pc = "absent" /\ h[i].q.key \in Keys /\ ~Holding(i)
      BY <2>1, BusyHandler DEF reserve, At, Holding
    <3>2. CASE row[h[i].q.key] = Absent
      <4>1. /\ \A j \in Handlers : j # i => h'[j] = h[j]
            /\ ~Holding(i)' \/ (h'[i].pc = "reserved" /\ h'[i].q = h[i].q)
        <5>1. Goto(i, "reserved") \/ End(i, "error")
          BY <2>1, <3>2 DEF reserve
        <5>2. CASE Goto(i, "reserved")
          BY <3>1, <5>2, GotoFrame
        <5>3. CASE End(i, "error")
          BY <5>3, EndFrame
        <5> QED BY <5>1, <5>2, <5>3
      <4>2. \A j \in Handlers : Holding(j) => h[j].q.key # h[i].q.key
        BY <3>2, OwnedRow
      <4>3. /\ row'[h[i].q.key] = [fp |-> fingerprint(h[i].q), st |-> "pending"]
            /\ \A k \in Keys : k # h[i].q.key => row'[k] = row[k]
        BY <2>1, <3>1, <3>2 DEF reserve, GatewayTypeOK
      <4>4. \A j \in Handlers : Holding(j) => h[j].q.key \in Keys
        BY BusyHandler DEF Holding
      <4>5. \A j \in Handlers : j # i => (Holding(j)' <=> Holding(j))
        BY <4>1 DEF Holding
      <4>6. Owns'
        BY <4>1, <4>2, <4>3, <4>4, <4>5 DEF Owns
      <4>7. Alone'
        BY <4>1, <4>2, <4>5 DEF Alone
      <4> QED BY <4>6, <4>7
    <3>3. CASE row[h[i].q.key] # Absent
      <4>1. h'[i].pc = "lost" /\ \A j \in Handlers : j # i => h'[j] = h[j]
        BY <2>1, <3>1, <3>3, GotoFrame DEF reserve
      <4> QED BY <2>1, <3>3, <4>1 DEF reserve, Owns, Alone, Holding
    <3> QED BY <3>2, <3>3
  <2>2. CASE reread(i) \/ beginFails(i) \/ finalizeFails(i) \/ discardFails(i)
    <3>1. row' = row /\ \E kind : End(i, kind)
      BY <2>2 DEF reread, beginFails, finalizeFails, discardFails
    <3>2. ~Holding(i)' /\ \A j \in Handlers : j # i => h'[j] = h[j]
      BY <3>1, EndFrame
    <3> QED BY <3>1, <3>2 DEF Owns, Alone, Holding
  <2>3. CASE exec(i)
    <3>1. h[i].pc # "idle" /\ Holding(i) /\ row' = row /\ \E to \in {"ok", "failed"} : Goto(i, to)
      BY <2>3 DEF exec, At, Holding
    <3>2. /\ h'[i].pc \in {"ok", "failed"} /\ h'[i].q = h[i].q
          /\ \A j \in Handlers : j # i => h'[j] = h[j]
      BY <3>1, GotoFrame
    <3> QED BY <3>1, <3>2 DEF Owns, Alone, Holding
  <2>4. CASE finalize(i) \/ discard(i)
    <3>1. Holding(i) /\ h[i].q.key \in Keys
      BY <2>4, BusyHandler DEF finalize, discard, At, Holding
    <3>2. /\ \A k \in Keys : k # h[i].q.key => row'[k] = row[k]
          /\ \E kind : End(i, kind)
      BY <2>4, <3>1 DEF finalize, discard, GatewayTypeOK
    <3>3. ~Holding(i)' /\ \A j \in Handlers : j # i => h'[j] = h[j]
      BY <3>2, EndFrame
    <3>4. \A j \in Handlers : Holding(j) /\ j # i => h[j].q.key \in Keys \ {h[i].q.key}
      BY <3>1, BusyHandler DEF Alone, Holding
    <3> QED BY <3>2, <3>3, <3>4 DEF Owns, Alone, Holding
  <2> QED BY <1>2, <2>1, <2>2, <2>3, <2>4 DEF Step
<1>3. ASSUME NEW i \in Handlers, Cut(i) PROVE Owns' /\ Alone'
  BY <1>3, CutFrame DEF Cut, Owns, Alone, Holding
<1>4. CASE Crash
  BY <1>4 DEF Crash, Owns, Alone, Holding, Idle
<1>5. CASE UNCHANGED gatewayVars
  BY <1>5 DEF gatewayVars, Owns, Alone, Holding
<1> QED BY <1>1, <1>2, <1>3, <1>4, <1>5 DEF GatewayNext

\* The part of the protocol that holds whatever fails, lost COMMIT acknowledgements
\* included: a handler past its INSERT is the only one with that key.
THEOREM CoreInductive == GatewaySpec => []Core
<1>1. Core /\ [GatewayNext]_gatewayVars => Core'
  BY TypeStep, OwnsStep DEF Core
<1> QED BY <1>1, InitCore, PTL DEF GatewaySpec

\* The type invariant of the write path of the gateway.
THEOREM TypeCorrect == GatewaySpec => []GatewayTypeOK
<1>1. Core => GatewayTypeOK
  BY DEF Core
<1> QED BY <1>1, CoreInductive, PTL

\* What the store has recorded as done it keeps, whatever fails: a replay returns the
\* identical result for good.
THEOREM DoneForever == GatewaySpec => DoneIsForever
<1> DEFINE Kept == \A k \in Keys : row[k] # Absent /\ row[k] \in Row /\ row[k].st = "done" => row'[k] = row[k]
<1>1. Core /\ [GatewayNext]_gatewayVars => [Kept]_gatewayVars
  <2> SUFFICES ASSUME GatewayTypeOK, Owns, GatewayNext, NEW k \in Keys, row[k] # Absent, row[k].st = "done"
               PROVE  row'[k] = row[k]
    BY DEF Core
  <2>1. ASSUME NEW i \in Handlers, Holding(i) PROVE h[i].q.key # k
    BY <2>1, OwnedRow
  <2>2. ASSUME NEW i \in Handlers, Step(i) PROVE row'[k] = row[k]
    <3>1. CASE reserve(i)
      BY <3>1, BusyHandler DEF reserve, At, GatewayTypeOK
    <3>2. CASE finalize(i) \/ discard(i)
      <4>1. Holding(i) /\ h[i].q.key \in Keys
        BY <3>2, BusyHandler DEF finalize, discard, At, Holding
      <4> QED BY <3>2, <4>1, <2>1 DEF finalize, discard, GatewayTypeOK
    <3>3. CASE reread(i) \/ beginFails(i) \/ exec(i) \/ finalizeFails(i) \/ discardFails(i)
      BY <3>3 DEF reread, beginFails, exec, finalizeFails, discardFails
    <3> QED BY <2>2, <3>1, <3>2, <3>3 DEF Step
  <2> QED BY <2>2 DEF GatewayNext, begin, Cut, Crash
<1>2. [Kept]_gatewayVars <=> [\A k \in Keys : row[k] # Absent /\ row[k] \in Row /\ row[k].st = "done" => row'[k] = row[k]]_gatewayVars
  OBVIOUS
<1> QED BY <1>1, <1>2, CoreInductive, PTL DEF GatewaySpec, DoneIsForever
--------------------------------------------------------------------------------
(* The count of executions, when no COMMIT acknowledgement is lost. *)

LEMMA InitIInv == GatewayInit => IInv
<1> SUFFICES ASSUME GatewayInit PROVE Counted /\ Recorded /\ AtMostOnce /\ FreeKeyIsUnused /\ OkMeansDone
  BY InitCore DEF IInv
<1>1. Counted
  BY DEF GatewayInit, Counted, Holding, Idle
<1>2. Recorded /\ AtMostOnce /\ FreeKeyIsUnused /\ OkMeansDone
  BY DEF GatewayInit, Recorded, AtMostOnce, FreeKeyIsUnused, OkMeansDone
<1> QED BY <1>1, <1>2

\* A 2xx sent now for a recorded key is the truth.
LEMMA ReplayIsTrue ==
  ASSUME GatewayTypeOK, Recorded, NEW q \in Request, row[q.key] # Absent,
         decideExisting(row[q.key], q) = "ok"
  PROVE  ran[q.key] # Absent /\ fingerprint(ran[q.key]) = fingerprint(q)
<1>1. q.key \in Keys
  BY DEF Request
<1>2. row[q.key] \in Row
  BY <1>1 DEF GatewayTypeOK
<1>3. row[q.key].fp = fingerprint(q) /\ row[q.key].st # "pending"
  BY DEF decideExisting
<1>4. row[q.key].st = "done"
  BY <1>2, <1>3 DEF Row
<1> QED BY <1>1, <1>3, <1>4 DEF Recorded

\* Leaving the executions and the answers alone keeps what they say.
LEMMA AnswerStep ==
  ASSUME OkMeansDone, UNCHANGED <<runs, ran>>, NEW q \in Request, NEW kind,
         answers' \subseteq answers \cup {[q |-> q, kind |-> kind]},
         kind = "ok" => ran[q.key] # Absent /\ fingerprint(ran[q.key]) = fingerprint(q)
  PROVE  OkMeansDone'
  BY DEF OkMeansDone, fingerprint

LEMMA IInvStep == ASSUME "commitlost" \notin Faults PROVE IInv /\ [GatewayNext]_gatewayVars => IInv'
<1> SUFFICES ASSUME GatewayTypeOK, Owns, Alone, Counted, Recorded, AtMostOnce, FreeKeyIsUnused, OkMeansDone, [GatewayNext]_gatewayVars
             PROVE  Counted' /\ Recorded' /\ AtMostOnce' /\ FreeKeyIsUnused' /\ OkMeansDone'
  BY TypeStep, OwnsStep DEF IInv, Core
<1>1. ASSUME NEW i \in Handlers, NEW q \in Request, begin(i, q)
      PROVE  Counted' /\ Recorded' /\ AtMostOnce' /\ FreeKeyIsUnused' /\ OkMeansDone'
  <2>1. ~Holding(i)' /\ \A j \in Handlers : j # i => h'[j] = h[j]
    BY <1>1 DEF begin, GatewayTypeOK, Holding, Idle
  <2>2. Counted'
    BY <1>1, <2>1 DEF begin, Counted, Holding
  <2>3. Recorded' /\ AtMostOnce' /\ FreeKeyIsUnused'
    BY <1>1 DEF begin, Recorded, AtMostOnce, FreeKeyIsUnused, fingerprint
  <2>4. OkMeansDone'
    <3>1. CASE row[q.key] = Absent
      BY <1>1, <3>1 DEF begin, OkMeansDone, fingerprint
    <3>2. CASE row[q.key] # Absent
      BY <1>1, <3>2, ReplayIsTrue, AnswerStep DEF begin
    <3> QED BY <3>1, <3>2
  <2> QED BY <2>2, <2>3, <2>4
<1>2. ASSUME NEW i \in Handlers, Step(i)
      PROVE  Counted' /\ Recorded' /\ AtMostOnce' /\ FreeKeyIsUnused' /\ OkMeansDone'
  <2>1. h[i].pc # "idle" /\ h[i].q \in Request /\ h[i].q.key \in Keys
    <3>1. h[i].pc # "idle"
      BY <1>2 DEF Step, reserve, reread, beginFails, exec, finalize, finalizeFails, discard, discardFails, At
    <3> QED BY <3>1, BusyHandler
  <2>2. CASE reserve(i)
    <3>1. Counted'
      <4>1. CASE row[h[i].q.key] = Absent
        <5>1. /\ \A j \in Handlers : j # i => h'[j] = h[j]
              /\ ~Holding(i)' \/ (h'[i].pc = "reserved" /\ h'[i].q = h[i].q)
          <6>1. Goto(i, "reserved") \/ End(i, "error")
            BY <2>2, <4>1 DEF reserve
          <6>2. CASE Goto(i, "reserved")
            BY <2>1, <6>2, GotoFrame
          <6>3. CASE End(i, "error")
            BY <6>3, EndFrame
          <6> QED BY <6>1, <6>2, <6>3
        <5>2. runs[h[i].q.key] = 0
          BY <4>1, <2>1 DEF FreeKeyIsUnused
        <5> QED BY <2>2, <5>1, <5>2 DEF reserve, Counted, Holding
      <4>2. CASE row[h[i].q.key] # Absent
        <5>1. h'[i].pc = "lost" /\ \A j \in Handlers : j # i => h'[j] = h[j]
          BY <2>2, <4>2, <2>1, GotoFrame DEF reserve
        <5> QED BY <2>2, <5>1 DEF reserve, Counted, Holding
      <4> QED BY <4>1, <4>2
    <3>2. \A k \in Keys : row'[k] = row[k] \/ row'[k] = [fp |-> fingerprint(h[i].q), st |-> "pending"]
      BY <2>2, <2>1 DEF reserve, GatewayTypeOK
    <3>3. Recorded'
      BY <2>2, <3>2 DEF reserve, Recorded, fingerprint
    <3>4. \A k \in Keys : row'[k] = Absent => row[k] = Absent
      BY <2>2, <2>1 DEF reserve, GatewayTypeOK
    <3>5. AtMostOnce' /\ FreeKeyIsUnused'
      BY <2>2, <3>4 DEF reserve, AtMostOnce, FreeKeyIsUnused
    <3>6. OkMeansDone'
      BY <2>2 DEF reserve, End, OkMeansDone, fingerprint
    <3> QED BY <3>1, <3>3, <3>5, <3>6
  <2>3. CASE reread(i) \/ beginFails(i) \/ finalizeFails(i) \/ discardFails(i)
    <3>1. PICK kind : /\ UNCHANGED <<row, runs, ran>>
                      /\ End(i, kind)
                      /\ kind = "ok" => row[h[i].q.key] # Absent /\ decideExisting(row[h[i].q.key], h[i].q) = "ok"
      BY <2>3 DEF reread, beginFails, finalizeFails, discardFails
    <3>2. ~Holding(i)' /\ \A j \in Handlers : j # i => h'[j] = h[j]
      BY <3>1, EndFrame
    <3>3. Counted'
      BY <3>1, <3>2 DEF Counted, Holding
    <3>4. Recorded' /\ AtMostOnce' /\ FreeKeyIsUnused'
      BY <3>1 DEF Recorded, AtMostOnce, FreeKeyIsUnused, fingerprint
    <3>5. OkMeansDone'
      BY <3>1, <2>1, ReplayIsTrue, AnswerStep, SMTT(40) DEF End
    <3> QED BY <3>3, <3>4, <3>5
  <2>4. CASE exec(i)
    <3>1. Holding(i) /\ h[i].pc = "reserved" /\ runs[h[i].q.key] = 0 /\ ran[h[i].q.key] = Absent
      BY <2>4, <2>1 DEF exec, At, Holding, Counted, Recorded
    <3>2. row[h[i].q.key] # Absent /\ row[h[i].q.key].st = "pending"
      BY <3>1, OwnedRow
    <3>3. \A j \in Handlers : j # i /\ Holding(j) => h[j].q.key # h[i].q.key
      BY <3>1 DEF Alone
    <3>4. CASE Goto(i, "failed") /\ UNCHANGED <<runs, ran>>
      <4>1. h'[i].pc = "failed" /\ h'[i].q = h[i].q /\ \A j \in Handlers : j # i => h'[j] = h[j]
        BY <3>4, <2>1, GotoFrame
      <4>2. Counted'
        BY <3>1, <3>4, <4>1 DEF Counted, Holding
      <4> QED BY <2>4, <3>4, <4>2 DEF exec, Recorded, AtMostOnce, FreeKeyIsUnused, OkMeansDone, fingerprint
    <3>5. CASE Commits(h[i].q) /\ Goto(i, "ok")
      <4>1. h'[i].pc = "ok" /\ h'[i].q = h[i].q /\ \A j \in Handlers : j # i => h'[j] = h[j]
        BY <3>5, <2>1, GotoFrame
      <4>2. /\ runs'[h[i].q.key] = 1 /\ ran'[h[i].q.key] = h[i].q
            /\ \A k \in Keys : k # h[i].q.key => runs'[k] = runs[k] /\ ran'[k] = ran[k]
        BY <3>1, <3>5, <2>1 DEF Commits, GatewayTypeOK
      <4>3. \A j \in Handlers : Holding(j) => h[j].q.key \in Keys
        BY BusyHandler DEF Holding
      <4>4. Counted'
        BY <3>3, <4>1, <4>2, <4>3 DEF Counted, Holding
      <4>5. row' = row /\ answers' = answers
        BY <2>4 DEF exec
      <4>6. Recorded' /\ AtMostOnce' /\ FreeKeyIsUnused'
        BY <3>2, <4>2, <4>5, <2>1 DEF Recorded, AtMostOnce, FreeKeyIsUnused, fingerprint
      <4>7. \A a \in answers : a.q.key \in Keys
        BY DEF GatewayTypeOK, Answer, Request
      <4>8. \A a \in answers : a.kind = "ok" => ran'[a.q.key] = ran[a.q.key]
        BY <3>1, <4>2, <4>7 DEF OkMeansDone
      <4>9. OkMeansDone'
        BY <4>5, <4>8 DEF OkMeansDone, fingerprint
      <4> QED BY <4>4, <4>6, <4>9
    <3> QED BY <2>4, <3>4, <3>5 DEF exec, Fault
  <2>5. CASE finalize(i)
    <3>1. Holding(i) /\ runs[h[i].q.key] = 1 /\ ran[h[i].q.key] = h[i].q
      BY <2>5 DEF finalize, At, Holding, Counted
    <3>2. /\ row[h[i].q.key] \in Row /\ row[h[i].q.key] # Absent
          /\ row[h[i].q.key].fp = fingerprint(h[i].q)
      BY <3>1, OwnedRow
    <3>3. /\ row'[h[i].q.key] = [row[h[i].q.key] EXCEPT !.st = "done"]
          /\ \A k \in Keys : k # h[i].q.key => row'[k] = row[k]
          /\ UNCHANGED <<runs, ran>> /\ \E kind : End(i, kind)
      BY <2>5, <2>1 DEF finalize, GatewayTypeOK
    <3>4. row'[h[i].q.key].fp = fingerprint(h[i].q)
      BY <3>2, <3>3 DEF Row
    <3>5. ~Holding(i)' /\ \A j \in Handlers : j # i => h'[j] = h[j]
      BY <3>3, EndFrame
    <3>6. Counted'
      BY <3>3, <3>5 DEF Counted, Holding
    <3>7. Recorded' /\ AtMostOnce' /\ FreeKeyIsUnused'
      <4>1. Recorded'
        BY <2>1, <3>1, <3>3, <3>4, ZenonT(60) DEF Recorded, fingerprint
      <4>2. \A k \in Keys : runs[k] # 0 => row'[k] # Absent
        <5>1. row'[h[i].q.key] \in Row
          BY <3>2, <3>3 DEF Row
        <5> QED BY <3>3, <5>1 DEF FreeKeyIsUnused
      <4> QED BY <3>3, <4>1, <4>2 DEF AtMostOnce, FreeKeyIsUnused
    <3>8. OkMeansDone'
      BY <2>1, <3>1, <3>3, AnswerStep DEF End
    <3> QED BY <3>6, <3>7, <3>8
  <2>6. CASE discard(i)
    <3>1. Holding(i) /\ runs[h[i].q.key] = 0
      BY <2>6 DEF discard, At, Holding, Counted
    <3>2. /\ row'[h[i].q.key] = Absent
          /\ \A k \in Keys : k # h[i].q.key => row'[k] = row[k]
          /\ UNCHANGED <<runs, ran>> /\ \E kind : kind # "ok" /\ End(i, kind)
      BY <2>6, <2>1 DEF discard, GatewayTypeOK
    <3>3. ~Holding(i)' /\ \A j \in Handlers : j # i => h'[j] = h[j]
      BY <3>2, EndFrame
    <3>4. Counted'
      BY <3>2, <3>3 DEF Counted, Holding
    <3>5. Recorded' /\ AtMostOnce' /\ FreeKeyIsUnused'
      BY <3>1, <3>2 DEF Recorded, AtMostOnce, FreeKeyIsUnused, fingerprint
    <3>6. OkMeansDone'
      BY <2>1, <3>2, AnswerStep DEF End
    <3> QED BY <3>4, <3>5, <3>6
  <2> QED BY <1>2, <2>2, <2>3, <2>4, <2>5, <2>6 DEF Step
<1>3. ASSUME NEW i \in Handlers, Cut(i)
      PROVE  Counted' /\ Recorded' /\ AtMostOnce' /\ FreeKeyIsUnused' /\ OkMeansDone'
  <2>1. Counted'
    BY <1>3, CutFrame DEF Cut, Counted, Holding
  <2> QED BY <1>3, <2>1 DEF Cut, Recorded, AtMostOnce, FreeKeyIsUnused, OkMeansDone, fingerprint
<1>4. CASE Crash
  <2>1. Counted'
    BY <1>4 DEF Crash, Counted, Holding, Idle
  <2> QED BY <1>4, <2>1 DEF Crash, Recorded, AtMostOnce, FreeKeyIsUnused, OkMeansDone, fingerprint
<1>5. CASE UNCHANGED gatewayVars
  BY <1>5 DEF gatewayVars, Counted, Holding, Recorded, AtMostOnce, FreeKeyIsUnused, OkMeansDone, fingerprint
<1> QED BY <1>1, <1>2, <1>3, <1>4, <1>5 DEF GatewayNext

\* The invariant that gives the three properties of the count: it is stronger than
\* they are by who owns which key.
THEOREM Inductive == ASSUME "commitlost" \notin Faults PROVE GatewaySpec => []IInv
  BY InitIInv, IInvStep, PTL DEF GatewaySpec

\* A keyed mutation commits at most once, for any number of concurrent and repeated
\* requests and any failures other than a lost COMMIT acknowledgement.
THEOREM ExecutedAtMostOnce == ASSUME "commitlost" \notin Faults PROVE GatewaySpec => []AtMostOnce
<1>1. IInv => AtMostOnce
  BY DEF IInv
<1> QED BY <1>1, Inductive, PTL

\* Every 2xx of the gateway, first or replayed, is of a mutation that committed.
THEOREM OkIsTrue == ASSUME "commitlost" \notin Faults PROVE GatewaySpec => []OkMeansDone
<1>1. IInv => OkMeansDone
  BY DEF IInv
<1> QED BY <1>1, Inductive, PTL

\* A key that discard has given back has no committed mutation behind it.
THEOREM FreeIsUnused == ASSUME "commitlost" \notin Faults PROVE GatewaySpec => []FreeKeyIsUnused
<1>1. IInv => FreeKeyIsUnused
  BY DEF IInv
<1> QED BY <1>1, Inductive, PTL
================================================================================
