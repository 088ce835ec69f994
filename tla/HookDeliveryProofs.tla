-------------------------- MODULE HookDeliveryProofs ---------------------------
(****************************************************************************)
(* At-least-once delivery of after-hooks for any number of passes, entries, *)
(* crashes, resets and reinstalls, any page size and breaker threshold.     *)
(*                                                                          *)
(* NothingSkipped is not inductive: it says nothing of the entry a pass is  *)
(* about to move the cursor over. Settled adds that the hook has had that   *)
(* entry, or is not to have it.                                             *)
(****************************************************************************)
EXTENDS HookDelivery, TLAPS

\* A pass in a page is in front of an entry of the feed, and one that is past the
\* hook call has had it handled or was right to skip it.
Settled ==
  \A p \in Passes :
    /\ cur[p] <= hi[p] \/ pc[p] \in {"idle", "loaded", "read"}
    /\ pc[p] \in {"called", "dead", "advance"} => cur[p] < hi[p]
    /\ pc[p] \in {"called", "dead"} => Entry(p) \in handled
    /\ pc[p] = "advance" /\ feed[Entry(p)] => Entry(p) \in handled

\* An installed plugin has a cursor.
HasCursor == installed => cursor # Null

IInv == TypeOK /\ Settled /\ HasCursor /\ NothingSkipped
--------------------------------------------------------------------------------
USE HookAssumption

LEMMA InitIInv == Init => IInv
<1> SUFFICES ASSUME Init PROVE IInv
  OBVIOUS
<1>1. Len(feed) = 0 /\ feed \in Seq(BOOLEAN)
  BY DEF Init
<1>2. TypeOK
  BY <1>1 DEF Init, TypeOK, Time
<1>3. Settled /\ HasCursor /\ NothingSkipped
  BY <1>1 DEF Init, Settled, HasCursor, NothingSkipped
<1> QED BY <1>2, <1>3 DEF IInv

\* A budget is spent one at a time.
LEMMA SpendType ==
  ASSUME TypeOK, NEW k \in {"entry", "crash", "reset", "install"}, Spend(k)
  PROVE  left' \in [entry : Nat, crash : Nat, reset : Nat, install : Nat]
  BY DEF TypeOK, Spend

\* What a pass that ends leaves behind.
LEMMA EndPassType ==
  ASSUME TypeOK, NEW p \in Passes, EndPass(p), feed' = feed
  PROVE  /\ pc' \in [Passes -> {"idle", "loaded", "read", "deliver", "called", "dead", "advance"}]
         /\ cur' \in [Passes -> 0..Len(feed')] /\ hi' \in [Passes -> 0..Len(feed')]
         /\ fails' \in [Passes -> Nat] /\ since' \in [Passes -> Time]
         /\ pc'[p] = "idle"
         /\ \A r \in Passes : r # p => pc'[r] = pc[r] /\ cur'[r] = cur[r] /\ hi'[r] = hi[r]
  BY DEF TypeOK, EndPass, Time

LEMMA GotoType ==
  ASSUME TypeOK, NEW p \in Passes, NEW to \in {"loaded", "read", "deliver", "called", "dead", "advance"}, Goto(p, to)
  PROVE  /\ pc' \in [Passes -> {"idle", "loaded", "read", "deliver", "called", "dead", "advance"}]
         /\ pc'[p] = to
         /\ \A r \in Passes : r # p => pc'[r] = pc[r]
  BY DEF TypeOK, Goto

\* A step of pass p keeps IInv.
LEMMA PassStep ==
  ASSUME IInv, NEW p \in Passes, Step(p) \/ Crash(p)
  PROVE  IInv'
<1> USE DEF IInv
<1>1. CASE Deliver(p)
  <2>1. TypeOK'
    BY <1>1 DEF TypeOK, Deliver, Goto, row
  <2>2. Settled'
    BY <1>1 DEF TypeOK, Deliver, Goto, row, Settled, Entry
  <2>3. HasCursor' /\ NothingSkipped'
    BY <1>1 DEF Deliver, HasCursor, NothingSkipped
  <2> QED BY <2>1, <2>2, <2>3
<1>2. CASE readCursor(p)
  <2>1. TypeOK'
    <3>1. cursor' \in 0..Len(feed)
      BY <1>2 DEF TypeOK, readCursor
    <3>2. cur' \in [Passes -> 0..Len(feed)]
      BY <1>2, <3>1 DEF TypeOK, readCursor
    <3>3. pc' \in [Passes -> {"idle", "loaded", "read", "deliver", "called", "dead", "advance"}]
      BY <1>2 DEF TypeOK, readCursor, Goto
    <3>4. UNCHANGED <<feed, installed, failures, opened, start, high, handled, hi, fails, since, left>>
      BY <1>2 DEF readCursor, row
    <3> QED BY <3>1, <3>2, <3>3, <3>4 DEF TypeOK
  <2>2. Settled'
    BY <1>2 DEF TypeOK, readCursor, Goto, row, Settled, Entry
  <2>3. HasCursor' /\ NothingSkipped'
    BY <1>2 DEF TypeOK, readCursor, HasCursor, NothingSkipped
  <2> QED BY <2>1, <2>2, <2>3
<1>3. CASE readPage(p)
  <2>1. TypeOK'
    <3>1. cur[p] \in Nat /\ Len(feed) \in Nat /\ cur[p] + DeliveryBatch \in Nat
      BY DEF TypeOK
    <3>2. (IF cur[p] + DeliveryBatch < Len(feed) THEN cur[p] + DeliveryBatch ELSE Len(feed)) \in 0..Len(feed)
      BY <3>1
    <3>3. hi' \in [Passes -> 0..Len(feed)]
      BY <1>3, <3>2 DEF TypeOK, readPage
    <3> QED BY <1>3, <3>3 DEF TypeOK, readPage, Goto, row
  <2>2. Settled'
    BY <1>3 DEF TypeOK, readPage, Goto, row, Settled, Entry
  <2>3. HasCursor' /\ NothingSkipped'
    BY <1>3 DEF readPage, HasCursor, NothingSkipped
  <2> QED BY <2>1, <2>2, <2>3
<1>4. CASE pageDone(p) \/ breakerStops(p) \/ Crash(p)
  <2>1. EndPass(p) /\ UNCHANGED <<feed, installed, cursor, failures, opened, start, high, handled>>
    BY <1>4 DEF pageDone, breakerStops, Crash, row
  <2>2. left' \in [entry : Nat, crash : Nat, reset : Nat, install : Nat]
    BY <1>4, SpendType DEF pageDone, breakerStops, Crash, TypeOK
  <2>3. TypeOK'
    BY <2>1, <2>2, EndPassType DEF TypeOK
  <2>4. Settled'
    BY <2>1, EndPassType DEF Settled, Entry
  <2>5. HasCursor' /\ NothingSkipped'
    BY <2>1 DEF HasCursor, NothingSkipped
  <2> QED BY <2>3, <2>4, <2>5
<1>5. CASE skip(p)
  <2>1. TypeOK'
    BY <1>5 DEF TypeOK, skip, Goto, row
  <2>2. Settled'
    BY <1>5 DEF TypeOK, skip, Goto, row, Settled, Entry
  <2>3. HasCursor' /\ NothingSkipped'
    BY <1>5 DEF skip, HasCursor, NothingSkipped
  <2> QED BY <2>1, <2>2, <2>3
<1>6. CASE invoke(p)
  <2>1. Entry(p) \in 1..Len(feed)
    BY <1>6 DEF invoke, Offered, Entry, TypeOK
  <2>2. TypeOK'
    BY <1>6, <2>1 DEF TypeOK, invoke, Goto, row
  <2>3. Settled'
    BY <1>6, <2>1 DEF TypeOK, invoke, Offered, Goto, row, Settled, Entry
  <2>4. HasCursor' /\ NothingSkipped'
    BY <1>6 DEF invoke, HasCursor, NothingSkipped
  <2> QED BY <2>2, <2>3, <2>4
<1>7. CASE bumpBreaker(p)
  <2>1. TypeOK'
    <3>1. PICK n \in Nat, o \in Time :
            /\ fails' = [fails EXCEPT ![p] = n] /\ since' = [since EXCEPT ![p] = o]
            /\ IF installed THEN failures' = n /\ opened' = o ELSE UNCHANGED <<failures, opened>>
      <4> DEFINE n == IF pc[p] = "dead" THEN fails[p] + 1 ELSE 0
                 o == IF n >= BreakerThreshold THEN "recent" ELSE "null"
      <4>1. n \in Nat /\ o \in Time
        BY DEF TypeOK, Time
      <4>2. /\ fails' = [fails EXCEPT ![p] = n] /\ since' = [since EXCEPT ![p] = o]
            /\ IF installed THEN failures' = n /\ opened' = o ELSE UNCHANGED <<failures, opened>>
        BY <1>7 DEF bumpBreaker
      <4> HIDE DEF n, o
      <4> QED BY <4>1, <4>2
    <3>2. /\ fails' \in [Passes -> Nat] /\ since' \in [Passes -> Time]
          /\ failures' \in Nat /\ opened' \in Time
      BY <3>1 DEF TypeOK
    <3>3. pc' \in [Passes -> {"idle", "loaded", "read", "deliver", "called", "dead", "advance"}]
      BY <1>7 DEF TypeOK, bumpBreaker, Goto
    <3>4. UNCHANGED <<feed, installed, cursor, start, high, handled, cur, hi, left>>
      BY <1>7 DEF bumpBreaker
    <3> QED BY <3>2, <3>3, <3>4 DEF TypeOK
  <2>2. Settled'
    BY <1>7 DEF TypeOK, bumpBreaker, Goto, Settled, Entry
  <2>3. HasCursor' /\ NothingSkipped'
    BY <1>7 DEF bumpBreaker, HasCursor, NothingSkipped
  <2> QED BY <2>1, <2>2, <2>3
<1>8. CASE advanceCursor(p)
  <2>1. Entry(p) \in 1..Len(feed) /\ Entry(p) = cur[p] + 1 /\ cur[p] \in Nat /\ Entry(p) <= hi[p]
    BY <1>8 DEF advanceCursor, Settled, Entry, TypeOK
  <2>2. feed[Entry(p)] => Entry(p) \in handled
    BY <1>8 DEF advanceCursor, Settled
  <2>3. TypeOK'
    <3>1. cursor' \in 0..Len(feed) \cup {Null}
      BY <1>8, <2>1 DEF TypeOK, advanceCursor
    <3>2. cur' \in [Passes -> 0..Len(feed)]
      BY <1>8, <2>1 DEF TypeOK, advanceCursor
    <3>3. UNCHANGED <<feed, installed, failures, opened, start, high, handled, hi, fails, since, left>>
      BY <1>8 DEF advanceCursor, row
    <3>4. Goto(p, "deliver")
      BY <1>8 DEF advanceCursor
    <3> QED BY <3>1, <3>2, <3>3, <3>4, GotoType DEF TypeOK
  <2>4. Settled'
    <3>1. pc'[p] = "deliver" /\ \A r \in Passes : r # p => pc'[r] = pc[r]
      BY <1>8, GotoType DEF advanceCursor
    <3>2. cur'[p] = Entry(p) /\ \A r \in Passes : r # p => cur'[r] = cur[r]
      BY <1>8 DEF TypeOK, advanceCursor
    <3>3. UNCHANGED <<feed, handled, hi>>
      BY <1>8 DEF advanceCursor
    <3> QED BY <2>1, <3>1, <3>2, <3>3 DEF Settled, Entry
  <2>5. HasCursor'
    BY <1>8, <2>1 DEF advanceCursor, HasCursor
  <2>6. NothingSkipped'
    <3>1. CASE cursor = cur[p]
      <4> SUFFICES ASSUME installed, NEW e \in 1..Len(feed), start < e, e <= cur[p] + 1, feed[e]
                   PROVE  e \in handled
        BY <1>8, <2>1, <3>1 DEF advanceCursor, NothingSkipped
      <4> QED BY <2>1, <2>2, <3>1 DEF NothingSkipped
    <3>2. CASE cursor # cur[p]
      BY <1>8, <3>2 DEF advanceCursor, NothingSkipped
    <3> QED BY <3>1, <3>2
  <2> QED BY <2>3, <2>4, <2>5, <2>6
<1> QED BY <1>1, <1>2, <1>3, <1>4, <1>5, <1>6, <1>7, <1>8 DEF Step

LEMMA IInvStep == IInv /\ [Next]_vars => IInv'
<1> SUFFICES ASSUME IInv, [Next]_vars PROVE IInv'
  OBVIOUS
<1> USE DEF IInv
<1>1. ASSUME NEW wanted \in BOOLEAN, Emit(wanted) PROVE IInv'
  <2>1. /\ feed' \in Seq(BOOLEAN) /\ Len(feed') = Len(feed) + 1 /\ Len(feed) \in Nat
        /\ \A e \in 1..Len(feed) : feed'[e] = feed[e]
    BY <1>1 DEF Emit, TypeOK
  <2>2. TypeOK'
    <3>1. 0..Len(feed) \subseteq 0..Len(feed') /\ 1..Len(feed) \subseteq 1..Len(feed')
      BY <2>1
    <3>2. /\ cursor \in 0..Len(feed') \cup {Null} /\ start \in 0..Len(feed')
          /\ high \in 0..Len(feed') \cup {Null} /\ handled \subseteq 1..Len(feed')
      BY <3>1 DEF TypeOK
    <3>3. cur \in [Passes -> 0..Len(feed')] /\ hi \in [Passes -> 0..Len(feed')]
      BY <3>1 DEF TypeOK
    <3>4. left' \in [entry : Nat, crash : Nat, reset : Nat, install : Nat]
      BY <1>1, SpendType DEF Emit
    <3> QED BY <1>1, <2>1, <3>2, <3>3, <3>4 DEF Emit, TypeOK, row, pass
  <2>3. \A r \in Passes : pc[r] = "advance" => Entry(r) \in 1..Len(feed)
    BY DEF Settled, Entry, TypeOK
  <2>4. Settled'
    BY <1>1, <2>1, <2>3 DEF Emit, Settled, Entry, pass
  <2>5. HasCursor'
    BY <1>1 DEF Emit, HasCursor
  <2>6. NothingSkipped'
    BY <1>1, <2>1, <2>5 DEF Emit, NothingSkipped, HasCursor, TypeOK
  <2> QED BY <2>2, <2>4, <2>5, <2>6
<1>2. ASSUME NEW p \in Passes, Step(p) \/ Crash(p) PROVE IInv'
  BY <1>2, PassStep
<1>3. CASE CoolDown
  <2>1. TypeOK'
    BY <1>3 DEF CoolDown, TypeOK, Time
  <2> QED BY <1>3, <2>1 DEF CoolDown, Settled, Entry, HasCursor, NothingSkipped
<1>4. CASE ResetBreaker
  <2>1. TypeOK'
    BY <1>4, SpendType DEF ResetBreaker, TypeOK, Time, pass
  <2> QED BY <1>4, <2>1 DEF ResetBreaker, Settled, Entry, HasCursor, NothingSkipped, pass
<1>5. CASE Uninstall
  <2>1. TypeOK'
    BY <1>5 DEF Uninstall, TypeOK, Time, pass
  <2> QED BY <1>5, <2>1 DEF Uninstall, Settled, Entry, HasCursor, NothingSkipped, pass
<1>6. CASE Install
  <2>1. TypeOK'
    <3>1. left' \in [entry : Nat, crash : Nat, reset : Nat, install : Nat]
      BY <1>6, SpendType DEF Install, TypeOK
    <3>2. /\ high' \in 0..Len(feed) \cup {Null} /\ start' \in 0..Len(feed)
          /\ cursor' \in 0..Len(feed) \cup {Null} /\ installed' \in BOOLEAN
      <4>1. CASE high = Null
        <5>1. high' = Len(feed) /\ UNCHANGED <<start, cursor, installed>>
          BY <1>6, <4>1 DEF Install
        <5>2. Len(feed) \in 0..Len(feed)
          BY DEF TypeOK
        <5> QED BY <5>1, <5>2 DEF TypeOK
      <4>2. CASE high # Null
        <5>1. /\ high' = Null
              /\ \/ start' = high /\ cursor' = high /\ installed' = TRUE
                 \/ UNCHANGED <<start, cursor, installed>>
          BY <1>6, <4>2 DEF Install
        <5>2. high \in 0..Len(feed)
          BY <4>2 DEF TypeOK
        <5> QED BY <5>1, <5>2 DEF TypeOK
      <4> QED BY <4>1, <4>2
    <3>3. UNCHANGED <<feed, failures, opened, handled, pc, cur, hi, fails, since>>
      BY <1>6 DEF Install, row, pass
    <3> QED BY <3>1, <3>2, <3>3 DEF TypeOK
  <2>2. Settled'
    BY <1>6 DEF Install, Settled, Entry, pass
  <2>3. HasCursor' /\ NothingSkipped'
    BY <1>6 DEF Install, HasCursor, NothingSkipped, TypeOK, row, pass
  <2> QED BY <2>1, <2>2, <2>3
<1>7. CASE UNCHANGED vars
  BY <1>7 DEF vars, row, pass, TypeOK, Settled, Entry, HasCursor, NothingSkipped
<1> QED BY <1>1, <1>2, <1>3, <1>4, <1>5, <1>6, <1>7 DEF Next

\* The invariant that gives at-least-once delivery.
THEOREM Inductive == Spec => []IInv
  BY InitIInv, IInvStep, PTL DEF Spec

\* The type invariant of the hook runner.
THEOREM TypeCorrect == Spec => []TypeOK
<1>1. IInv => TypeOK
  BY DEF IInv
<1> QED BY <1>1, Inductive, PTL

\* Deliver never moves the cursor over an entry that the plugin was to see and that
\* was neither accepted nor filed as a dead letter.
THEOREM AtLeastOnce == Spec => []NothingSkipped
<1>1. IInv => NothingSkipped
  BY DEF IInv
<1> QED BY <1>1, Inductive, PTL

\* The compare-and-set of advanceCursor: no pass takes an installed plugin's cursor
\* back, however far behind it is.
THEOREM NeverRewinds == Spec => CursorNeverRewinds
<1> DEFINE Forward == installed /\ installed' /\ cursor # Null /\ cursor' # Null => cursor' >= cursor
<1>1. IInv /\ [Next]_vars => [Forward]_vars
  <2> SUFFICES ASSUME TypeOK, Next, installed, installed', cursor # Null, cursor' # Null PROVE cursor' >= cursor
    BY DEF IInv
  <2>1. cursor \in Nat
    BY DEF TypeOK
  <2>2. ASSUME NEW p \in Passes, Step(p) \/ Crash(p) PROVE cursor' >= cursor
    <3>1. CASE readCursor(p)
      BY <3>1, <2>1 DEF readCursor
    <3>2. CASE advanceCursor(p)
      BY <3>2, <2>1 DEF advanceCursor, Entry
    <3>3. CASE UNCHANGED cursor
      BY <3>3, <2>1
    <3> QED BY <2>2, <3>1, <3>2, <3>3 DEF Step, Deliver, readPage, pageDone, skip, breakerStops, invoke, bumpBreaker, Crash
  <2>3. CASE Install
    BY <2>1, <2>3 DEF Install
  <2>4. CASE Uninstall
    BY <2>4 DEF Uninstall
  <2> QED BY <2>1, <2>2, <2>3, <2>4 DEF Next, Emit, CoolDown, ResetBreaker
<1>2. [Forward]_vars <=> [installed /\ installed' /\ cursor # Null /\ cursor' # Null => cursor' >= cursor]_vars
  OBVIOUS
<1> QED BY <1>1, <1>2, Inductive, PTL DEF Spec, CursorNeverRewinds
================================================================================
