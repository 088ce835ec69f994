-------------------------------- MODULE BooksProofs --------------------------------
(****************************************************************************)
(* What holds of the ledger, of the documents posted to it and of the       *)
(* reports over them, whatever the accounts, periods, documents, their      *)
(* contents and the number of clients are.                                  *)
(*                                                                          *)
(* No property of the runs is inductive on its own: each speaks of what is  *)
(* committed, and what is committed comes from a request that read other    *)
(* state some steps before. IInv says what every request in flight may rely *)
(* on (TaskOK): the period it looked at is open or was closed behind its    *)
(* back, the draft it read is as it was unless it was edited meanwhile, the *)
(* invoices a receipt settles are posted, an entry to accept is in the log. *)
(****************************************************************************)
EXTENDS Reporting, WellFoundedInduction, FiniteSetTheorems, TLAPS

(* Induction over the naturals, what a fold computes, and sums. *)

(* A set that holds zero, and with a number the next one, holds every number: otherwise
   there was a least one that it does not hold. *)
LEMMA Induction ==
  ASSUME NEW G, 0 \in G, \A n \in Nat : n \in G => n + 1 \in G
  PROVE  \A n \in Nat : n \in G
<1> DEFINE T == {n \in Nat : n \notin G}
           R == OpToRel(<, Nat)
<1>1. SUFFICES ASSUME T # {} PROVE FALSE
  OBVIOUS
<1>2. PICK x \in T : \A y \in T : ~(<<y, x>> \in R)
  <2>1. IsWellFoundedOn(R, Nat)
    BY NatLessThanWellFounded
  <2>2. T \subseteq Nat
    OBVIOUS
  <2> HIDE DEF T, R
  <2> QED BY <1>1, <2>1, <2>2, WFMin
<1>3. x \in Nat /\ x # 0 /\ x - 1 \in Nat /\ x - 1 < x
  <2>1. x \in Nat /\ x \notin G
    BY <1>2
  <2> QED BY <2>1
<1>4. x - 1 \notin T
  <2>1. <<x - 1, x>> \in R
    BY <1>3 DEF OpToRel
  <2> QED BY <1>2, <2>1
<1>5. x - 1 \in G
  BY <1>3, <1>4
<1>6. x \notin G
  BY <1>2
<1> HIDE DEF T, R
<1> QED BY <1>3, <1>5, <1>6

(* A nonempty set of numbers up to n has a largest one. *)
LEMMA Largest ==
  ASSUME NEW n \in Nat, NEW S, S \subseteq 1..n, S # {}
  PROVE  Max(S) \in S /\ \A y \in S : Max(S) >= y
<1> DEFINE Bounded(m) == \A s : s \subseteq 1..m /\ s # {} => \E x \in s : \A y \in s : x >= y
           G == {m \in Nat : Bounded(m)}
<1>1. 0 \in G
  OBVIOUS
<1>2. ASSUME NEW m \in Nat, m \in G PROVE m + 1 \in G
  <2>1. Bounded(m + 1)
    <3> SUFFICES ASSUME NEW s, s \subseteq 1..m + 1, s # {}
                 PROVE  \E x \in s : \A y \in s : x >= y
      OBVIOUS
    <3>1. CASE m + 1 \in s
      BY <3>1
    <3>2. CASE m + 1 \notin s
      <4>1. s \subseteq 1..m
        BY <3>2
      <4> QED BY <4>1, <1>2
    <3> QED BY <3>1, <3>2
  <2> HIDE DEF Bounded
  <2> QED BY <2>1
<1>3. n \in G
  <2> HIDE DEF G
  <2> QED BY <1>1, <1>2, Induction
<1>4. \E x \in S : \A y \in S : x >= y
  BY <1>3
<1> QED BY <1>4 DEF Max

\* A fold takes the elements of a finite set out one by one, in the order of pick, and
\* combines them with step.
Picks(S, pick) == \A s \in SUBSET S : s # {} => pick[s] \in s
Steps(S, V, step) == \A x \in S, v \in V : step[<<x, v>>] \in V
IsFold(it, S, V, base, pick, step) ==
  /\ it \in [SUBSET S -> V]
  /\ \A s \in SUBSET S : it[s] = IF s = {} THEN base ELSE step[<<pick[s], it[s \ {pick[s]}]>>]

(* The function that a fold over a finite set is defined with exists. *)
LEMMA FoldExists ==
  ASSUME NEW S, IsFiniteSet(S), NEW V, NEW base \in V,
         NEW pick, Picks(S, pick), NEW step, Steps(S, V, step)
  PROVE  \E it : IsFold(it, S, V, base, pick, step)
<1> USE DEF Picks, Steps, IsFold
<1> DEFINE Small(n) == {s \in SUBSET S : Cardinality(s) <= n}
           Good(n, it) == /\ it \in [Small(n) -> V]
                          /\ \A s \in Small(n) :
                               it[s] = IF s = {} THEN base ELSE step[<<pick[s], it[s \ {pick[s]}]>>]
           G == {n \in Nat : \E it : Good(n, it)}
<1>1. ASSUME NEW s \in SUBSET S
      PROVE  /\ IsFiniteSet(s) /\ Cardinality(s) \in Nat
             /\ Cardinality(s) = 0 <=> s = {}
             /\ Cardinality(s) <= Cardinality(S)
  <2>1. IsFiniteSet(s)
    BY FS_Subset
  <2> QED BY <2>1, FS_CardinalityType, FS_EmptySet, FS_Subset
<1>2. ASSUME NEW s \in SUBSET S, s # {}
      PROVE  s \ {pick[s]} \in SUBSET S /\ Cardinality(s \ {pick[s]}) = Cardinality(s) - 1 /\ pick[s] \in S
  BY <1>1, <1>2, FS_RemoveElement
<1>3. 0 \in G
  <2> DEFINE it == [s \in Small(0) |-> base]
  <2>1. \A s \in Small(0) : s = {}
    BY <1>1
  <2>2. Good(0, it)
    BY <2>1
  <2> QED BY <2>2
<1>4. ASSUME NEW n \in Nat, n \in G PROVE n + 1 \in G
  <2>1. PICK it : Good(n, it)
    BY <1>4
  <2> DEFINE more == [s \in Small(n + 1) |->
                        IF s = {} THEN base ELSE step[<<pick[s], it[s \ {pick[s]}]>>]]
  <2>2. ASSUME NEW s \in Small(n + 1), s # {}
        PROVE  s \ {pick[s]} \in Small(n) /\ pick[s] \in S /\ it[s \ {pick[s]}] \in V
    <3>1. s \ {pick[s]} \in Small(n) /\ pick[s] \in S
      BY <1>1, <1>2, <2>2
    <3> QED BY <3>1, <2>1
  <2>3. more \in [Small(n + 1) -> V]
    BY <2>2
  <2>4. ASSUME NEW s \in Small(n) PROVE s \in Small(n + 1) /\ more[s] = it[s]
    <3>1. s \in Small(n + 1)
      BY <1>1
    <3> QED BY <3>1, <2>1
  <2>5. Good(n + 1, more)
    <3>1. ASSUME NEW s \in Small(n + 1)
          PROVE  more[s] = IF s = {} THEN base ELSE step[<<pick[s], more[s \ {pick[s]}]>>]
      <4>1. s # {} => more[s \ {pick[s]}] = it[s \ {pick[s]}]
        BY <2>2, <2>4
      <4> QED BY <4>1
    <3> QED BY <3>1, <2>3
  <2>6. \E good : Good(n + 1, good)
    <3> HIDE DEF Good, more
    <3> QED BY <2>5
  <2>7. n + 1 \in Nat
    OBVIOUS
  <2> HIDE DEF Good
  <2> QED BY <2>6, <2>7
<1>5. Cardinality(S) \in G
  <2> HIDE DEF G
  <2> QED BY <1>1, <1>3, <1>4, Induction
<1>6. PICK it : Good(Cardinality(S), it)
  BY <1>5
<1>7. Small(Cardinality(S)) = SUBSET S
  BY <1>1
<1> QED BY <1>6, <1>7

Computes(g, S, V, base, pick, step) ==
  /\ g[{}] = base
  /\ \A s \in SUBSET S :
       s # {} /\ g[s \ {pick[s]}] \in V => g[s] = step[<<pick[s], g[s \ {pick[s]}]>>]

(* And there is only one: what is computed the same way is the same. *)
LEMMA FoldOnly ==
  ASSUME NEW S, IsFiniteSet(S), NEW V, NEW base, NEW pick, Picks(S, pick), NEW step,
         NEW it, IsFold(it, S, V, base, pick, step),
         NEW g, Computes(g, S, V, base, pick, step)
  PROVE  \A s \in SUBSET S : g[s] = it[s]
<1> DEFINE G == {n \in Nat : \A s \in SUBSET S : Cardinality(s) = n => g[s] = it[s]}
<1>1. ASSUME NEW s \in SUBSET S
      PROVE  IsFiniteSet(s) /\ Cardinality(s) \in Nat /\ (Cardinality(s) = 0 <=> s = {})
  <2>1. IsFiniteSet(s)
    BY FS_Subset
  <2> QED BY <2>1, FS_CardinalityType, FS_EmptySet
<1>2. 0 \in G
  BY <1>1 DEF IsFold, Computes
<1>3. ASSUME NEW n \in Nat, n \in G PROVE n + 1 \in G
  <2> SUFFICES ASSUME NEW s \in SUBSET S, Cardinality(s) = n + 1 PROVE g[s] = it[s]
    OBVIOUS
  <2>1. s # {} /\ pick[s] \in s /\ s \ {pick[s]} \in SUBSET S
    BY <1>1 DEF Picks
  <2>2. Cardinality(s \ {pick[s]}) = n
    <3>1. Cardinality(s \ {pick[s]}) = Cardinality(s) - 1
      BY <1>1, <2>1, FS_RemoveElement
    <3> QED BY <3>1
  <2>3. g[s \ {pick[s]}] = it[s \ {pick[s]}] /\ it[s \ {pick[s]}] \in V
    BY <1>3, <2>1, <2>2 DEF IsFold
  <2> QED BY <2>1, <2>3 DEF IsFold, Computes
<1>4. \A n \in Nat : n \in G
  <2> HIDE DEF G
  <2> QED BY <1>2, <1>3, Induction
<1> QED BY <1>1, <1>4
--------------------------------------------------------------------------------
(* Sums. *)

(* What holds of the empty set, and with a set of one element more, holds of a finite set. *)
LEMMA SetInduction ==
  ASSUME NEW S, IsFiniteSet(S), NEW G, {} \in G,
         \A T \in SUBSET S, x \in S : T \in G /\ x \notin T => T \cup {x} \in G
  PROVE  S \in G
<1> DEFINE H == {n \in Nat : \A T \in SUBSET S : Cardinality(T) = n => T \in G}
<1>1. ASSUME NEW T \in SUBSET S
      PROVE  IsFiniteSet(T) /\ Cardinality(T) \in Nat /\ (Cardinality(T) = 0 <=> T = {})
  <2>1. IsFiniteSet(T)
    BY FS_Subset
  <2> QED BY <2>1, FS_CardinalityType, FS_EmptySet
<1>2. 0 \in H
  BY <1>1
<1>3. ASSUME NEW n \in Nat, n \in H PROVE n + 1 \in H
  <2> SUFFICES ASSUME NEW T \in SUBSET S, Cardinality(T) = n + 1 PROVE T \in G
    OBVIOUS
  <2>1. PICK x \in T : TRUE
    BY <1>1
  <2>2. Cardinality(T \ {x}) = n /\ T \ {x} \in SUBSET S /\ x \in S /\ x \notin T \ {x}
    <3>1. Cardinality(T \ {x}) = Cardinality(T) - 1
      BY <1>1, <2>1, FS_RemoveElement
    <3> QED BY <2>1, <3>1
  <2>3. T \ {x} \in G /\ (T \ {x}) \cup {x} = T
    BY <1>3, <2>1, <2>2
  <2> QED BY <2>2, <2>3
<1>4. \A n \in Nat : n \in H
  <2> HIDE DEF H
  <2> QED BY <1>2, <1>3, Induction
<1> QED BY <1>1, <1>4

Picker(S) == [s \in SUBSET S |-> CHOOSE x \in s : TRUE]
Adder(f, S) == [xv \in S \X Int |-> f[xv[1]] + xv[2]]

\* The values of f that a sum over S adds up are numbers.
Summable(f, S) == IsFiniteSet(S) /\ \A x \in S : f[x] \in Int

(* A sum is a fold. *)
LEMMA SumIsFold ==
  ASSUME NEW S, NEW f, Summable(f, S)
  PROVE  \E it : /\ IsFold(it, S, Int, 0, Picker(S), Adder(f, S))
                 /\ SumFunctionOnSet(f, S) = it[S]
<1> DEFINE pick == Picker(S)
           step == Adder(f, S)
           Is(it) == it = [s \in SUBSET S |-> IF s = {} THEN 0
                             ELSE f[CHOOSE x \in s : TRUE] + it[s \ {CHOOSE x \in s : TRUE}]]
           it0 == CHOOSE it : Is(it)
<1>1. \A s \in SUBSET S : s # {} => pick[s] \in s /\ pick[s] = CHOOSE x \in s : TRUE
  BY DEF Picker
<1>2. \A x \in S, v \in Int : step[<<x, v>>] \in Int /\ step[<<x, v>>] = f[x] + v
  BY DEF Summable, Adder
<1>3. IsFiniteSet(S) /\ Steps(S, Int, step) /\ Picks(S, pick)
  <2> HIDE DEF pick, step
  <2> QED BY <1>1, <1>2 DEF Steps, Picks, Summable
<1>4. PICK it : IsFold(it, S, Int, 0, pick, step)
  <2>1. 0 \in Int
    OBVIOUS
  <2> HIDE DEF pick, step
  <2> QED BY <1>3, <2>1, FoldExists
<1>5. Is(it)
  <2>1. ASSUME NEW s \in SUBSET S, s # {}
        PROVE  it[s] = f[CHOOSE x \in s : TRUE] + it[s \ {CHOOSE x \in s : TRUE}]
    <3>1. s \ {pick[s]} \in SUBSET S /\ pick[s] \in S
      BY <1>1, <2>1
    <3>2. it[s] = f[pick[s]] + it[s \ {pick[s]}]
      <4> HIDE DEF pick, step
      <4> QED BY <3>1, <1>2, <1>4, <2>1 DEF IsFold
    <3> HIDE DEF pick
    <3> QED BY <3>2, <1>1, <2>1
  <2> QED BY <1>4, <2>1 DEF IsFold
<1>6. Is(it0)
  <2> HIDE DEF Is
  <2> QED BY <1>5
<1>7. SumFunctionOnSet(f, S) = it0[S]
  BY DEF SumFunctionOnSet, FoldFunctionOnSet, MapThenFoldSet
<1>8. \A s \in SUBSET S : it0[s] = it[s]
  <2>1. it0[{}] = 0
    BY <1>6
  <2>2. ASSUME NEW s \in SUBSET S, s # {}, it0[s \ {pick[s]}] \in Int
        PROVE  it0[s] = step[<<pick[s], it0[s \ {pick[s]}]>>]
    <3>1. pick[s] \in S /\ pick[s] = CHOOSE x \in s : TRUE
      BY <1>1, <2>2
    <3>2. it0[s] = f[pick[s]] + it0[s \ {pick[s]}]
      <4> HIDE DEF it0, pick
      <4> QED BY <1>6, <2>2, <3>1
    <3> HIDE DEF it0, pick, step
    <3> QED BY <1>2, <2>2, <3>1, <3>2
  <2>3. Computes(it0, S, Int, 0, pick, step)
    <3> HIDE DEF pick, step, it0
    <3> QED BY <2>1, <2>2 DEF Computes
  <2> HIDE DEF pick, step, it0
  <2> QED BY ONLY <1>3, <1>4, <2>3, FoldOnly
<1> HIDE DEF it0
<1> QED BY <1>4, <1>7, <1>8

(* A sum is a number; over a nonempty set it is one of the values and the sum of the rest. *)
LEMMA SumTakesOne ==
  ASSUME NEW S, NEW f, Summable(f, S)
  PROVE  /\ SumFunctionOnSet(f, S) \in Int
         /\ S = {} => SumFunctionOnSet(f, S) = 0
         /\ S # {} => \E x \in S : SumFunctionOnSet(f, S) = f[x] + SumFunctionOnSet(f, S \ {x})
<1>1. PICK it : /\ IsFold(it, S, Int, 0, Picker(S), Adder(f, S))
                /\ SumFunctionOnSet(f, S) = it[S]
  BY SumIsFold
<1>2. SumFunctionOnSet(f, S) \in Int /\ (S = {} => SumFunctionOnSet(f, S) = 0)
  BY <1>1 DEF IsFold
<1>3. ASSUME S # {}
      PROVE  \E x \in S : SumFunctionOnSet(f, S) = f[x] + SumFunctionOnSet(f, S \ {x})
  <2> DEFINE x == CHOOSE y \in S : TRUE
             T == S \ {x}
  <2>1. x \in S /\ Picker(S)[S] = x
    BY <1>3 DEF Picker
  <2>2. Summable(f, T)
    BY FS_Subset DEF Summable
  <2>3. PICK it2 : /\ IsFold(it2, T, Int, 0, Picker(T), Adder(f, T))
                   /\ SumFunctionOnSet(f, T) = it2[T]
    <3> HIDE DEF T
    <3> QED BY <2>2, SumIsFold
  <2>4. it[S] = f[x] + it[T]
    <3>1. it[S] = Adder(f, S)[<<x, it[T]>>] /\ it[T] \in Int
      <4>1. S \in SUBSET S /\ T \in SUBSET S
        OBVIOUS
      <4>2. it[S] = Adder(f, S)[<<Picker(S)[S], it[S \ {Picker(S)[S]}]>>]
        BY <1>1, <1>3, <4>1 DEF IsFold
      <4> QED BY <1>1, <2>1, <4>1, <4>2 DEF IsFold
    <3> HIDE DEF T, x
    <3> QED BY <2>1, <3>1 DEF Adder
  <2>5. Computes(it, T, Int, 0, Picker(T), Adder(f, T))
    <3>1. it[{}] = 0
      BY <1>1 DEF IsFold
    <3>2. ASSUME NEW s \in SUBSET T, s # {}, it[s \ {Picker(T)[s]}] \in Int
          PROVE  it[s] = Adder(f, T)[<<Picker(T)[s], it[s \ {Picker(T)[s]}]>>]
      <4>1. Picker(T)[s] = Picker(S)[s] /\ Picker(T)[s] \in s /\ s \in SUBSET S
        BY <3>2 DEF Picker
      <4>2. it[s] = Adder(f, S)[<<Picker(S)[s], it[s \ {Picker(S)[s]}]>>]
        <5> HIDE DEF T
        <5> QED BY <1>1, <3>2, <4>1 DEF IsFold
      <4>3. \A y \in T, v \in Int : Adder(f, T)[<<y, v>>] = Adder(f, S)[<<y, v>>]
        BY DEF Adder
      <4> HIDE DEF T
      <4> QED BY <3>2, <4>1, <4>2, <4>3
    <3> HIDE DEF T
    <3> QED BY <3>1, <3>2 DEF Computes
  <2>6. IsFiniteSet(T) /\ Picks(T, Picker(T))
    <3> HIDE DEF T
    <3> QED BY <2>2 DEF Summable, Picks, Picker
  <2>7. it[T] = it2[T]
    <3>1. IsFold(it2, T, Int, 0, Picker(T), Adder(f, T))
      BY <2>3
    <3> HIDE DEF T
    <3>2. \A s \in SUBSET T : it[s] = it2[s]
      BY ONLY <2>5, <2>6, <3>1, FoldOnly
    <3> QED BY <3>2
  <2> HIDE DEF T, x
  <2>8. SumFunctionOnSet(f, S) = f[x] + SumFunctionOnSet(f, T)
    BY <1>1, <2>3, <2>4, <2>7
  <2> QED BY <2>1, <2>8 DEF T
<1> QED BY <1>2, <1>3

LEMMA SumType ==
  ASSUME NEW S, NEW f, Summable(f, S)
  PROVE  SumFunctionOnSet(f, S) \in Int
BY SumTakesOne

LEMMA SumEmpty ==
  ASSUME NEW f
  PROVE  SumFunctionOnSet(f, {}) = 0
<1>1. Summable(f, {})
  BY FS_EmptySet DEF Summable
<1> QED BY <1>1, SumTakesOne

LEMMA SummableSubset ==
  ASSUME NEW S, NEW f, Summable(f, S), NEW T, T \subseteq S
  PROVE  Summable(f, T)
BY FS_Subset DEF Summable

\* U is S and one element more.
Grown(U, S, x) == x \notin S /\ U = S \cup {x}

(* The order does not matter: any element can be the last that is added. *)
LEMMA SumGrows ==
  ASSUME NEW S, NEW f, NEW x, NEW U, Grown(U, S, x), Summable(f, U)
  PROVE  SumFunctionOnSet(f, U) = SumFunctionOnSet(f, S) + f[x]
<1> DEFINE Grows(T, y) == SumFunctionOnSet(f, T \cup {y}) = SumFunctionOnSet(f, T) + f[y]
           G == {n \in Nat : \A T \in SUBSET U, y \in U :
                               Cardinality(T) = n /\ y \notin T => Grows(T, y)}
<1>1. ASSUME NEW T \in SUBSET U
      PROVE  /\ Summable(f, T) /\ SumFunctionOnSet(f, T) \in Int
             /\ IsFiniteSet(T) /\ Cardinality(T) \in Nat /\ (Cardinality(T) = 0 <=> T = {})
  <2>1. Summable(f, T)
    BY SummableSubset
  <2>2. SumFunctionOnSet(f, T) \in Int
    BY <2>1, SumType
  <2> QED BY <2>1, <2>2, FS_CardinalityType, FS_EmptySet DEF Summable
<1>2. ASSUME NEW y \in U PROVE f[y] \in Int
  BY DEF Summable
<1>3. 0 \in G
  <2> SUFFICES ASSUME NEW T \in SUBSET U, NEW y \in U, Cardinality(T) = 0 PROVE Grows(T, y)
    OBVIOUS
  <2>1. T = {} /\ {y} \in SUBSET U
    BY <1>1
  <2>2. PICK z \in {y} : SumFunctionOnSet(f, {y}) = f[z] + SumFunctionOnSet(f, {y} \ {z})
    BY <1>1, <2>1, SumTakesOne
  <2>3. {y} \ {z} = {} /\ z = y /\ T \cup {y} = {y}
    BY <2>1
  <2>4. SumFunctionOnSet(f, {y} \ {z}) = 0
    BY <2>3, SumEmpty
  <2>5. SumFunctionOnSet(f, T) = 0
    BY <2>1, SumEmpty
  <2>6. SumFunctionOnSet(f, T \cup {y}) = f[y] + 0
    BY <2>2, <2>3, <2>4
  <2> QED BY <1>2, <2>5, <2>6
<1>4. ASSUME NEW n \in Nat, n \in G PROVE n + 1 \in G
  <2> SUFFICES ASSUME NEW T \in SUBSET U, NEW y \in U, Cardinality(T) = n + 1, y \notin T
               PROVE  Grows(T, y)
    OBVIOUS
  <2>1. T \cup {y} \in SUBSET U
    OBVIOUS
  <2>2. PICK z \in T \cup {y} :
          SumFunctionOnSet(f, T \cup {y}) = f[z] + SumFunctionOnSet(f, (T \cup {y}) \ {z})
    BY <1>1, <2>1, SumTakesOne
  <2>3. CASE z = y
    <3>1. (T \cup {y}) \ {z} = T
      BY <2>3
    <3> QED BY <1>1, <1>2, <2>2, <2>3, <3>1
  <2>4. CASE z # y
    <3> DEFINE R == T \ {z}
    <3>1. z \in T /\ R \in SUBSET U /\ z \in U /\ z \notin R /\ y \notin R
      BY <2>4
    <3>2. Cardinality(R) = n
      <4>1. Cardinality(R) = Cardinality(T) - 1
        BY <1>1, <3>1, FS_RemoveElement
      <4> QED BY <4>1
    <3>3. (T \cup {y}) \ {z} = R \cup {y} /\ R \cup {z} = T
      BY <2>4, <3>1
    <3> HIDE DEF R
    <3>4. Grows(R, y) /\ Grows(R, z)
      BY <1>4, <3>1, <3>2
    <3>5. /\ SumFunctionOnSet(f, R) \in Int /\ f[y] \in Int /\ f[z] \in Int
          /\ SumFunctionOnSet(f, T) \in Int
      BY <1>1, <1>2, <3>1
    <3>6. SumFunctionOnSet(f, T \cup {y}) = f[z] + SumFunctionOnSet(f, R \cup {y})
      BY <2>2, <3>3
    <3>7. SumFunctionOnSet(f, T) = SumFunctionOnSet(f, R) + f[z]
      BY <3>3, <3>4
    <3> QED BY <3>4, <3>5, <3>6, <3>7
  <2> QED BY <2>3, <2>4
<1>5. \A n \in Nat : n \in G
  <2> HIDE DEF G
  <2> QED BY <1>3, <1>4, Induction
<1>6. S \in SUBSET U /\ x \in U /\ x \notin S /\ S \cup {x} = U
  BY DEF Grown
<1>7. Grows(S, x)
  BY <1>1, <1>5, <1>6
<1> QED BY <1>6, <1>7

(* A sum depends on the values it adds and on nothing else. *)
LEMMA SumSame ==
  ASSUME NEW S, NEW f, NEW g, Summable(f, S), \A x \in S : f[x] = g[x]
  PROVE  SumFunctionOnSet(f, S) = SumFunctionOnSet(g, S)
<1> DEFINE G == {T \in SUBSET S : SumFunctionOnSet(f, T) = SumFunctionOnSet(g, T)}
<1>1. {} \in G
  BY SumEmpty
<1>2. ASSUME NEW T \in SUBSET S, NEW x \in S, T \in G, x \notin T PROVE T \cup {x} \in G
  <2>1. Summable(g, S)
    BY DEF Summable
  <2>2. Summable(f, T \cup {x}) /\ Summable(g, T \cup {x})
    <3>1. T \cup {x} \subseteq S
      OBVIOUS
    <3> QED BY <2>1, <3>1, SummableSubset
  <2>3. Grown(T \cup {x}, T, x)
    BY <1>2 DEF Grown
  <2>4. /\ SumFunctionOnSet(f, T \cup {x}) = SumFunctionOnSet(f, T) + f[x]
        /\ SumFunctionOnSet(g, T \cup {x}) = SumFunctionOnSet(g, T) + g[x]
    BY ONLY <2>2, <2>3, SumGrows
  <2>5. SumFunctionOnSet(f, T) = SumFunctionOnSet(g, T) /\ f[x] = g[x]
    BY <1>2
  <2> QED BY <2>4, <2>5
<1>3. S \in G
  <2>1. IsFiniteSet(S)
    BY DEF Summable
  <2> HIDE DEF G
  <2> QED BY <1>1, <1>2, <2>1, SetInduction
<1> QED BY <1>3

LEMMA SumNat ==
  ASSUME NEW S, NEW f, IsFiniteSet(S), \A x \in S : f[x] \in Nat
  PROVE  SumFunctionOnSet(f, S) \in Nat
<1> DEFINE G == {T \in SUBSET S : SumFunctionOnSet(f, T) \in Nat}
<1>1. {} \in G
  BY SumEmpty
<1>2. ASSUME NEW T \in SUBSET S, NEW x \in S, T \in G, x \notin T PROVE T \cup {x} \in G
  <2>1. Summable(f, T \cup {x})
    <3>1. T \cup {x} \subseteq S /\ Summable(f, S)
      BY DEF Summable
    <3> QED BY <3>1, SummableSubset
  <2>2. SumFunctionOnSet(f, T \cup {x}) = SumFunctionOnSet(f, T) + f[x]
    <3>1. Grown(T \cup {x}, T, x)
      BY <1>2 DEF Grown
    <3> QED BY ONLY <2>1, <3>1, SumGrows, ZenonT(60)
  <2> QED BY <1>2, <2>2
<1>3. S \in G
  <2> HIDE DEF G
  <2> QED BY <1>1, <1>2, SetInduction
<1> QED BY <1>3

LEMMA SumUnion ==
  ASSUME NEW S, NEW T, NEW f, S \cap T = {}, Summable(f, S \cup T)
  PROVE  SumFunctionOnSet(f, S \cup T) = SumFunctionOnSet(f, S) + SumFunctionOnSet(f, T)
<1> DEFINE G == {R \in SUBSET T :
                   SumFunctionOnSet(f, S \cup R) = SumFunctionOnSet(f, S) + SumFunctionOnSet(f, R)}
<1>1. \A R \in SUBSET (S \cup T) : Summable(f, R) /\ SumFunctionOnSet(f, R) \in Int
  BY SummableSubset, SumType
<1>2. {} \in G
  <2>1. S \cup {} = S /\ SumFunctionOnSet(f, S) \in Int
    BY <1>1
  <2> QED BY <2>1, SumEmpty
<1>3. ASSUME NEW R \in SUBSET T, NEW x \in T, R \in G, x \notin R PROVE R \cup {x} \in G
  <2>1. x \notin S \cup R /\ (S \cup R) \cup {x} = S \cup (R \cup {x})
    BY <1>3
  <2>2. Summable(f, (S \cup R) \cup {x}) /\ Summable(f, R \cup {x})
    BY <1>1
  <2>3. SumFunctionOnSet(f, (S \cup R) \cup {x}) = SumFunctionOnSet(f, S \cup R) + f[x]
    <3> DEFINE W == S \cup R
               U == W \cup {x}
    <3>1. Grown(U, W, x) /\ Summable(f, U)
      BY <2>1, <2>2 DEF Grown
    <3> HIDE DEF U, W
    <3>2. SumFunctionOnSet(f, U) = SumFunctionOnSet(f, W) + f[x]
      BY ONLY <3>1, SumGrows
    <3> QED BY <3>2 DEF U, W
  <2>4. SumFunctionOnSet(f, R \cup {x}) = SumFunctionOnSet(f, R) + f[x]
    <3>1. Grown(R \cup {x}, R, x)
      BY <1>3 DEF Grown
    <3> QED BY ONLY <2>2, <3>1, SumGrows, ZenonT(60)
  <2>5. /\ SumFunctionOnSet(f, S) \in Int /\ SumFunctionOnSet(f, R) \in Int
        /\ SumFunctionOnSet(f, S \cup R) \in Int /\ f[x] \in Int
    BY <1>1 DEF Summable
  <2>6. SumFunctionOnSet(f, S \cup (R \cup {x})) = SumFunctionOnSet(f, S \cup R) + f[x]
    BY <2>1, <2>3
  <2>7. SumFunctionOnSet(f, S \cup R) = SumFunctionOnSet(f, S) + SumFunctionOnSet(f, R)
    BY <1>3
  <2> QED BY <2>4, <2>5, <2>6, <2>7
<1>4. T \in G
  <2>1. IsFiniteSet(T)
    BY <1>1 DEF Summable
  <2> HIDE DEF G
  <2> QED BY <1>2, <1>3, <2>1, SetInduction
<1> QED BY <1>4

(* A sum of natural numbers over fewer of them is not larger. *)
LEMMA SumFewer ==
  ASSUME NEW S, NEW f, IsFiniteSet(S), \A x \in S : f[x] \in Nat, NEW T, T \subseteq S
  PROVE  SumFunctionOnSet(f, T) <= SumFunctionOnSet(f, S)
<1>1. T \cup (S \ T) = S /\ T \cap (S \ T) = {} /\ Summable(f, S)
  BY DEF Summable
<1>2. SumFunctionOnSet(f, S) = SumFunctionOnSet(f, T) + SumFunctionOnSet(f, S \ T)
  BY <1>1, SumUnion
<1>3. IsFiniteSet(T) /\ IsFiniteSet(S \ T)
  BY FS_Subset
<1>4. SumFunctionOnSet(f, T) \in Nat
  BY <1>3, SumNat
<1>5. SumFunctionOnSet(f, S \ T) \in Nat
  BY <1>3, SumNat
<1> QED BY <1>2, <1>4, <1>5

LEMMA SumZero ==
  ASSUME NEW S, NEW f, IsFiniteSet(S), \A x \in S : f[x] = 0
  PROVE  SumFunctionOnSet(f, S) = 0
<1> DEFINE G == {T \in SUBSET S : SumFunctionOnSet(f, T) = 0}
<1>1. {} \in G
  BY SumEmpty
<1>2. ASSUME NEW T \in SUBSET S, NEW x \in S, T \in G, x \notin T PROVE T \cup {x} \in G
  <2>1. Summable(f, T \cup {x})
    <3>1. T \cup {x} \subseteq S /\ Summable(f, S)
      BY DEF Summable
    <3> QED BY <3>1, SummableSubset
  <2>2. SumFunctionOnSet(f, T \cup {x}) = SumFunctionOnSet(f, T) + f[x]
    <3>1. Grown(T \cup {x}, T, x)
      BY <1>2 DEF Grown
    <3> QED BY ONLY <2>1, <3>1, SumGrows, ZenonT(60)
  <2> QED BY <1>2, <2>2
<1>3. S \in G
  <2> HIDE DEF G
  <2> QED BY <1>1, <1>2, SetInduction
<1> QED BY <1>3

(* The only value that is not zero is the sum. *)
LEMMA SumOfOne ==
  ASSUME NEW S, NEW f, NEW y \in S, Summable(f, S), \A x \in S \ {y} : f[x] = 0
  PROVE  SumFunctionOnSet(f, S) = f[y]
<1>1. (S \ {y}) \cup {y} = S /\ y \notin S \ {y} /\ f[y] \in Int /\ IsFiniteSet(S \ {y})
  BY FS_Subset DEF Summable
<1>2. SumFunctionOnSet(f, S) = SumFunctionOnSet(f, S \ {y}) + f[y]
  <2>1. Grown(S, S \ {y}, y)
    BY <1>1 DEF Grown
  <2> QED BY <2>1, SumGrows
<1>3. SumFunctionOnSet(f, S \ {y}) = 0
  BY <1>1, SumZero
<1> QED BY <1>1, <1>2, <1>3

LEMMA SumPlus ==
  ASSUME NEW S, NEW f, NEW g, NEW h, Summable(f, S), Summable(g, S),
         \A x \in S : h[x] = f[x] + g[x]
  PROVE  SumFunctionOnSet(h, S) = SumFunctionOnSet(f, S) + SumFunctionOnSet(g, S)
<1> DEFINE G == {T \in SUBSET S :
                   SumFunctionOnSet(h, T) = SumFunctionOnSet(f, T) + SumFunctionOnSet(g, T)}
<1>1. {} \in G
  BY SumEmpty
<1>2. ASSUME NEW T \in SUBSET S, NEW x \in S, T \in G, x \notin T PROVE T \cup {x} \in G
  <2>1. Summable(h, S)
    BY DEF Summable
  <2>2. /\ Summable(f, T \cup {x}) /\ Summable(g, T \cup {x}) /\ Summable(h, T \cup {x})
        /\ Summable(f, T) /\ Summable(g, T)
    <3>1. T \cup {x} \subseteq S
      OBVIOUS
    <3> QED BY <2>1, <3>1, SummableSubset
  <2>3. /\ SumFunctionOnSet(f, T \cup {x}) = SumFunctionOnSet(f, T) + f[x]
        /\ SumFunctionOnSet(g, T \cup {x}) = SumFunctionOnSet(g, T) + g[x]
        /\ SumFunctionOnSet(h, T \cup {x}) = SumFunctionOnSet(h, T) + h[x]
    <3>1. Grown(T \cup {x}, T, x)
      BY <1>2 DEF Grown
    <3> QED BY ONLY <2>2, <3>1, SumGrows, ZenonT(60)
  <2>4. SumFunctionOnSet(f, T) \in Int /\ SumFunctionOnSet(g, T) \in Int /\ f[x] \in Int /\ g[x] \in Int
    BY <2>2, SumType DEF Summable
  <2> QED BY <1>2, <2>3, <2>4
<1>3. S \in G
  <2>1. IsFiniteSet(S)
    BY DEF Summable
  <2> HIDE DEF G
  <2> QED BY <1>1, <1>2, <2>1, SetInduction
<1> QED BY <1>3

\* A table of numbers; row[a] is the sum of its row a, column[b] of its column b.
IsTable(table, A, B) == IsFiniteSet(A) /\ IsFiniteSet(B) /\ \A a \in A, b \in B : table[a][b] \in Int
SumsRows(row, table, A, B) == \A a \in A : row[a] = SumFunctionOnSet(table[a], B)
SumsColumns(column, table, A, B) ==
  \A b \in B : column[b] = SumFunctionOnSet([a \in A |-> table[a][b]], A)

(* Rows first or columns first, the numbers of a table have one sum. *)
LEMMA SumExchange ==
  ASSUME NEW A, NEW B, NEW table, IsTable(table, A, B),
         NEW row, SumsRows(row, table, A, B), NEW column, SumsColumns(column, table, A, B)
  PROVE  SumFunctionOnSet(row, A) = SumFunctionOnSet(column, B)
<1> USE DEF IsTable, SumsRows, SumsColumns
<1> DEFINE rows(T) == [a \in A |-> SumFunctionOnSet(table[a], T)]
           col(b) == [a \in A |-> table[a][b]]
           G == {T \in SUBSET B : SumFunctionOnSet(rows(T), A) = SumFunctionOnSet(column, T)}
<1>1. ASSUME NEW T \in SUBSET B, NEW a \in A
      PROVE  Summable(table[a], T) /\ SumFunctionOnSet(table[a], T) \in Int
  <2>1. Summable(table[a], B)
    BY DEF Summable
  <2>2. Summable(table[a], T)
    BY <2>1, SummableSubset
  <2> QED BY <2>2, SumType
<1>2. ASSUME NEW b \in B PROVE Summable(col(b), A) /\ column[b] \in Int
  <2>1. Summable(col(b), A)
    BY DEF Summable
  <2> QED BY <2>1, SumType
<1>3. {} \in G
  <2>1. \A a \in A : rows({})[a] = 0
    BY SumEmpty
  <2>2. SumFunctionOnSet(rows({}), A) = 0
    <3> HIDE DEF rows
    <3> QED BY <2>1, SumZero
  <2> QED BY <2>2, SumEmpty
<1>4. ASSUME NEW T \in SUBSET B, NEW b \in B, T \in G, b \notin T PROVE T \cup {b} \in G
  <2>1. T \cup {b} \in SUBSET B
    OBVIOUS
  <2>2. \A a \in A : rows(T \cup {b})[a] = rows(T)[a] + col(b)[a]
    <3> SUFFICES ASSUME NEW a \in A
                 PROVE  SumFunctionOnSet(table[a], T \cup {b}) = SumFunctionOnSet(table[a], T) + table[a][b]
      OBVIOUS
    <3>1. Grown(T \cup {b}, T, b)
      BY <1>4 DEF Grown
    <3>2. Summable(table[a], T \cup {b})
      BY <1>1, <2>1
    <3> QED BY ONLY <3>1, <3>2, SumGrows
  <2>3. Summable(rows(T), A)
    BY <1>1 DEF Summable
  <2>4. SumFunctionOnSet(rows(T \cup {b}), A)
          = SumFunctionOnSet(rows(T), A) + SumFunctionOnSet(col(b), A)
    <3> DEFINE new == rows(T \cup {b})
               old == rows(T)
               more == col(b)
    <3>1. Summable(old, A) /\ Summable(more, A) /\ \A a \in A : new[a] = old[a] + more[a]
      <4> HIDE DEF rows, col
      <4> QED BY <1>2, <2>2, <2>3
    <3> HIDE DEF new, old, more
    <3>2. SumFunctionOnSet(new, A) = SumFunctionOnSet(old, A) + SumFunctionOnSet(more, A)
      BY ONLY <3>1, SumPlus
    <3> QED BY <3>2 DEF new, old, more
  <2>5. Summable(column, T \cup {b})
    <3>1. Summable(column, B)
      BY <1>2 DEF Summable
    <3> QED BY <2>1, <3>1, SummableSubset
  <2>6. SumFunctionOnSet(column, T \cup {b}) = SumFunctionOnSet(column, T) + column[b]
    <3>1. Grown(T \cup {b}, T, b)
      BY <1>4 DEF Grown
    <3> QED BY ONLY <2>5, <3>1, SumGrows, ZenonT(60)
  <2>7. column[b] = SumFunctionOnSet(col(b), A)
    OBVIOUS
  <2> HIDE DEF rows, col
  <2> QED BY <1>4, <2>1, <2>4, <2>6, <2>7
<1>5. B \in G
  <2> HIDE DEF G
  <2> QED BY <1>3, <1>4, SetInduction
<1>6. \A a \in A : row[a] = rows(B)[a]
  OBVIOUS
<1>7. Summable(row, A)
  BY <1>1 DEF Summable
<1>8. SumFunctionOnSet(row, A) = SumFunctionOnSet(rows(B), A)
  <2> HIDE DEF rows
  <2> QED BY <1>6, <1>7, SumSame
<1> QED BY <1>5, <1>8

(* The negated terms give the negated sum. *)
LEMMA SumNegates ==
  ASSUME NEW S, NEW f, NEW g, Summable(f, S), \A x \in S : g[x] = -f[x]
  PROVE  SumFunctionOnSet(g, S) = -SumFunctionOnSet(f, S)
<1> DEFINE h == [x \in S |-> 0]
<1>1. Summable(g, S) /\ \A x \in S : h[x] = f[x] + g[x]
  BY DEF Summable
<1>2. IsFiniteSet(S) /\ \A x \in S : h[x] = 0
  BY DEF Summable
<1>3. SumFunctionOnSet(f, S) \in Int /\ SumFunctionOnSet(g, S) \in Int
  BY <1>1, SumType
<1> HIDE DEF h
<1>4. SumFunctionOnSet(h, S) = SumFunctionOnSet(f, S) + SumFunctionOnSet(g, S)
  BY <1>1, SumPlus
<1>5. SumFunctionOnSet(h, S) = 0
  BY <1>2, SumZero
<1> QED BY <1>3, <1>4, <1>5

(* The terms that are not zero are all that counts. *)
LEMMA SumSupport ==
  ASSUME NEW S, NEW f, Summable(f, S), NEW T, T \subseteq S, \A x \in S \ T : f[x] = 0
  PROVE  SumFunctionOnSet(f, S) = SumFunctionOnSet(f, T)
<1> DEFINE R == S \ T
<1>1. R \subseteq S /\ T \cap R = {} /\ T \cup R = S
  OBVIOUS
<1>2. IsFiniteSet(R) /\ \A x \in R : f[x] = 0
  BY FS_Subset DEF Summable
<1> HIDE DEF R
<1>3. SumFunctionOnSet(f, S) = SumFunctionOnSet(f, T) + SumFunctionOnSet(f, R)
  BY <1>1, SumUnion
<1>4. SumFunctionOnSet(f, R) = 0
  BY <1>2, SumZero
<1>5. SumFunctionOnSet(f, T) \in Int
  BY SummableSubset, SumType
<1> QED BY <1>3, <1>4, <1>5

\* group[b] is the sum of the terms whose key is b.
Groups(group, f, S, key, B) == \A b \in B : group[b] = SumFunctionOnSet(f, {x \in S : key[x] = b})

(* Terms may be added group by group. *)
LEMMA SumGrouped ==
  ASSUME NEW S, NEW f, Summable(f, S), NEW B, IsFiniteSet(B), NEW key, \A x \in S : key[x] \in B,
         NEW group, Groups(group, f, S, key, B)
  PROVE  SumFunctionOnSet(group, B) = SumFunctionOnSet(f, S)
<1> DEFINE table == [b \in B |-> [x \in S |-> IF key[x] = b THEN f[x] ELSE 0]]
<1>1. IsFiniteSet(S) /\ \A x \in S : f[x] \in Int
  BY DEF Summable
<1>2. IsTable(table, B, S)
  BY <1>1 DEF IsTable
<1>3. ASSUME NEW b \in B PROVE group[b] = SumFunctionOnSet(table[b], S)
  <2> DEFINE T == {x \in S : key[x] = b}
             g == table[b]
  <2>1. Summable(g, S) /\ Summable(f, T)
    <3>1. Summable(g, S)
      BY <1>1 DEF Summable
    <3> QED BY <3>1, SummableSubset
  <2>2. T \subseteq S /\ (\A x \in S \ T : g[x] = 0) /\ (\A x \in T : f[x] = g[x])
    OBVIOUS
  <2>3. group[b] = SumFunctionOnSet(f, T)
    BY DEF Groups
  <2> HIDE DEF T, g
  <2>4. SumFunctionOnSet(g, S) = SumFunctionOnSet(g, T)
    BY ONLY <2>1, <2>2, SumSupport
  <2>5. SumFunctionOnSet(f, T) = SumFunctionOnSet(g, T)
    BY ONLY <2>1, <2>2, SumSame
  <2> QED BY <2>3, <2>4, <2>5 DEF g
<1>4. ASSUME NEW x \in S PROVE f[x] = SumFunctionOnSet([b \in B |-> table[b][x]], B)
  <2> DEFINE g == [b \in B |-> table[b][x]]
             k == key[x]
  <2>1. k \in B /\ g[k] = f[x] /\ \A b \in B \ {k} : g[b] = 0
    OBVIOUS
  <2>2. Summable(g, B)
    BY <1>1 DEF Summable
  <2> HIDE DEF g, k
  <2>3. SumFunctionOnSet(g, B) = g[k]
    BY ONLY <2>1, <2>2, SumOfOne
  <2> QED BY <2>1, <2>3 DEF g
<1> HIDE DEF table
<1>5. SumsRows(group, table, B, S) /\ SumsColumns(f, table, B, S)
  BY <1>3, <1>4 DEF SumsRows, SumsColumns
<1> QED BY ONLY <1>2, <1>5, SumExchange
------------------------------------------------------------------------------------


PostOps == {"reverse", "invoice", "receipt"}
PostFields == {"op", "at", "period", "lines", "cmd", "doc", "content", "tax", "total", "id", "num"}

\* A request that is posting document t.doc read it as it is now, unless it was edited
\* meanwhile; the invoices that a receipt it read settles are posted.
ReadOK(t) ==
  /\ t.doc \in Documents /\ t.op = Series(t.doc) /\ t.cmd = Command(t.doc)
  /\ doc[t.doc].status # "none"
  /\ t.content \in Contents[t.doc]
  /\ t.op = "receipt" => \A i \in DOMAIN t.content : IsFrozen(i)
  /\ t.doc \notin overtaken => /\ t.content = doc[t.doc].content
                               /\ t.lines = Journal(t.doc) /\ t.total = DocTotal(t.doc)
                               /\ t.tax = DocTax(t.doc)

\* A request in ledger.post, or past it with a document to accept. Once the period has been
\* looked at, it is open or was closed behind the request's back.
PostOK(c, t) ==
  /\ DOMAIN t = PostFields
  /\ t.op \in PostOps /\ t.at \in {"refs", "append", "insert", "commit", "accept", "freeze"}
  /\ t.period \in Periods /\ t.lines \in Seq(Line) /\ validateEntry(t.lines)
  /\ t.tax \in Nat /\ t.total \in Nat /\ t.num \in Nat /\ t.id \in 0..seq
  /\ t.at = "commit" => t.id # 0
  /\ t.at \in {"insert", "commit", "freeze"} => dialect = "postgres"
  /\ t.at \in {"append", "insert", "commit"} => t.period \in open \/ c \in straddle[t.period]
  /\ t.at \in {"accept", "freeze"} => \E e \in events : e.cmd = t.cmd /\ e.id = t.id
  /\ t.op = "reverse" => t.cmd[1] = "reverse" /\ t.at \notin {"accept", "freeze"}
  /\ t.op # "reverse" => ReadOK(t)

ReportOK(t) ==
  /\ t.since \subseteq events
  /\ \/ /\ t.at = "read"
        /\ dialect = "sqlite" => \A e \in t.since : e.id <= cursor
     \/ t.at = "fold" /\ dialect = "postgres" /\ t.new \subseteq events

TaskOK(c, t) ==
  \/ t = Idle
  \/ t.op \in PostOps /\ PostOK(c, t)
  \/ t.op = "update" /\ t.at = "write" /\ t.doc \in Documents /\ t.content \in Contents[t.doc]
     /\ doc[t.doc].status # "none"
  \/ t.op \in {"close", "reopen"} /\ t.at = "status" /\ t.period \in Periods
  \/ t.op = "report" /\ ReportOK(t)

TasksOK ==
  /\ DOMAIN task = Clients
  /\ \A c \in Clients : TaskOK(c, task[c])

\* Of the requests that hold an entry not committed yet, no two have one command, and its
\* command is not in the log.
CommitsAlone ==
  \A c \in Clients : task[c].at = "commit" =>
    /\ ~IsPosted(task[c].cmd)
    /\ \A b \in Clients \ {c} : task[b].at = "commit" => task[b].cmd # task[c].cmd

\* The log: every entry balances and no command has two. The entry of a document that was
\* not edited since it was read has the lines of its content.
EventsOK ==
  /\ IsFiniteSet(events)
  /\ \A e \in events : validateEntry(e.lines)
  /\ \A e, f \in events : e.cmd = f.cmd => e = f
  /\ \A e \in events, d \in Documents : e.cmd = Command(d) =>
       /\ doc[d].status # "none"
       /\ d \notin overtaken => /\ e.lines = Journal(d)
                                /\ d \in Receipts => \A i \in DOMAIN doc[d].content : IsFrozen(i)

DocumentsOK ==
  /\ DOMAIN doc = Documents
  /\ \A d \in Documents :
       /\ DOMAIN doc[d] = {"status", "content", "num", "tax", "total", "entry"}
       /\ IsFrozen(d) => /\ \E e \in events : e.cmd = Command(d) /\ e.id = doc[d].entry
                         /\ d \notin overtaken => doc[d].total = DocTotal(d)

\* The counter of a series is one ahead of what it has numbered.
Numbered(s) ==
  /\ Numbers(s) = 1..Cardinality(InSeries(s))
  /\ NumberOf(next[s]) = Cardinality(InSeries(s)) + 1

\* The projection, without the reports that have read it.
Projected ==
  /\ dialect = "sqlite" => bal = Fold({e \in events : e.id <= cursor})
  /\ SumFunction(bal) = 0

IInv ==
  /\ TypeOK /\ TasksOK /\ CommitsAlone /\ EventsOK /\ DocumentsOK
  /\ dialect = "sqlite" => \A s \in {"invoice", "receipt"} : Numbered(s)
  /\ Projected /\ NotOverApplied
--------------------------------------------------------------------------------
(* Entries and journals. *)

(* A finite set can be written as a sequence. *)
LEMMA SetAsSeq ==
  ASSUME NEW S, IsFiniteSet(S)
  PROVE  SetToSeq(S) \in Seq(S)
<1>1. Cardinality(S) \in Nat /\ ExistsBijection(1..Cardinality(S), S)
  BY FS_CardinalityType
<1>2. PICK f : f \in [1..Cardinality(S) -> S] /\ IsInjective(f)
  BY <1>1 DEF ExistsBijection, Bijection, Injection
<1>3. SetToSeq(S) \in [1..Cardinality(S) -> S]
  BY <1>2 DEF SetToSeq
<1> QED BY <1>1, <1>3

LEMMA LineOf ==
  ASSUME NEW lines \in Seq(Line), NEW k \in DOMAIN lines
  PROVE  /\ lines[k] \in Line
         /\ lines[k].account \in Accounts /\ lines[k].debit \in Nat /\ lines[k].credit \in Nat
<1>1. lines[k] \in Line
  OBVIOUS
<1> QED BY <1>1 DEF Line

(* A journal with one debit, which comes first, debits that. *)
LEMMA OneDebit ==
  ASSUME NEW lines \in Seq(Line), lines # <<>>,
         \A k \in DOMAIN lines : k # 1 => lines[k].debit = 0
  PROVE  Debits(lines) = lines[1].debit
<1> DEFINE f == [i \in DOMAIN lines |-> lines[i].debit]
           S == DOMAIN lines
<1>1. S = 1..Len(lines) /\ Len(lines) \in Nat /\ 1 \in S /\ IsFiniteSet(S)
  BY FS_Interval
<1>2. Debits(lines) = SumFunctionOnSet(f, S)
  BY DEF Debits, SumOver, SumFunction
<1>3. Summable(f, S) /\ \A k \in S \ {1} : f[k] = 0
  BY <1>1, LineOf DEF Summable
<1>4. SumFunctionOnSet(f, S) = f[1]
  <2> HIDE DEF f, S
  <2> QED BY ONLY <1>1, <1>3, SumOfOne
<1> QED BY <1>1, <1>2, <1>4

LEMMA CreditLines ==
  ASSUME NEW A, A \subseteq Accounts, IsFiniteSet(A), NEW f \in [A -> Nat]
  PROVE  /\ SetToSeq({Credit(a, f[a]) : a \in A}) \in Seq(Line)
         /\ \A k \in DOMAIN SetToSeq({Credit(a, f[a]) : a \in A}) :
              SetToSeq({Credit(a, f[a]) : a \in A})[k].debit = 0
<1> DEFINE S == {Credit(a, f[a]) : a \in A}
<1>1. IsFiniteSet(S)
  <2> DEFINE g == [a \in A |-> Credit(a, f[a])]
  <2>1. g \in Surjection(A, S)
    BY DEF Surjection
  <2> HIDE DEF g, S
  <2> QED BY <2>1, FS_Surjection
<1>2. \A x \in S : x \in Line /\ x.debit = 0
  BY DEF Credit, Line
<1>3. SetToSeq(S) \in Seq(S)
  <2> HIDE DEF S
  <2> QED BY <1>1, SetAsSeq
<1>4. \A k \in DOMAIN SetToSeq(S) : SetToSeq(S)[k] \in S
  <2> HIDE DEF S
  <2> QED BY <1>3
<1>5. SetToSeq(S) \in Seq(Line)
  <2> HIDE DEF S
  <2> QED BY <1>2, <1>3, <1>4
<1> HIDE DEF S
<1>6. \A k \in DOMAIN SetToSeq(S) : SetToSeq(S)[k].debit = 0
  BY <1>2, <1>4
<1> QED BY <1>5, <1>6 DEF S

(* One debit, then lines that only credit. *)
LEMMA JournalShape ==
  ASSUME NEW account \in Accounts, NEW n \in Nat, NEW rest \in Seq(Line),
         \A k \in DOMAIN rest : rest[k].debit = 0
  PROVE  /\ <<Debit(account, n)>> \o rest \in Seq(Line)
         /\ Debits(<<Debit(account, n)>> \o rest) = n
<1> DEFINE lines == <<Debit(account, n)>> \o rest
<1>1. Debit(account, n) \in Line /\ Debit(account, n).debit = n
  BY DEF Debit, Line
<1>2. lines \in Seq(Line) /\ lines # <<>> /\ lines[1] = Debit(account, n)
  <2> HIDE DEF Line
  <2> QED BY <1>1
<1>3. \A k \in DOMAIN lines : k # 1 => lines[k].debit = 0
  <2> SUFFICES ASSUME NEW k \in DOMAIN lines, k # 1 PROVE lines[k].debit = 0
    OBVIOUS
  <2>1. k - 1 \in DOMAIN rest /\ lines[k] = rest[k - 1]
    <3> HIDE DEF Line
    <3> QED OBVIOUS
  <2> QED BY <2>1
<1>4. Debits(lines) = lines[1].debit
  <2> HIDE DEF lines
  <2> QED BY <1>2, <1>3, OneDebit
<1> QED BY <1>1, <1>2, <1>4

(* What the amounts of an invoice add up to. *)
LEMMA InvoiceAmounts ==
  ASSUME NEW i \in Invoices, NEW v \in Contents[i]
  PROVE  /\ rates \in Rates => Tax(v) \in Nat
         /\ \A tax \in Nat : Gross(v, tax) \in Nat
         /\ \A a : Net(v, a) \in Nat
         /\ IsFiniteSet(RevenueAccounts(v)) /\ RevenueAccounts(v) \subseteq Accounts
         /\ v.ar \in Accounts
<1> DEFINE K == DOMAIN v.lines
<1>1. /\ v.ar \in Accounts /\ v.lines \in Seq([account : Accounts, net : Nat, tax : [Rates -> Nat]])
      /\ K = 1..Len(v.lines) /\ Len(v.lines) \in Nat /\ IsFiniteSet(K)
      /\ \A k \in K : /\ v.lines[k].account \in Accounts
                      /\ v.lines[k].net \in Nat /\ v.lines[k].tax \in [Rates -> Nat]
  <2>1. v.ar \in Accounts /\ v.lines \in Seq([account : Accounts, net : Nat, tax : [Rates -> Nat]])
    BY InvoicingAssumption
  <2> DEFINE L == [account : Accounts, net : Nat, tax : [Rates -> Nat]]
  <2>2. K = 1..Len(v.lines) /\ Len(v.lines) \in Nat /\ \A k \in K : v.lines[k] \in L
    <3>1. v.lines \in Seq(L)
      BY <2>1
    <3> HIDE DEF L
    <3> QED BY <3>1
  <2>3. IsFiniteSet(K)
    BY <2>2, FS_Interval
  <2>4. \A k \in K : /\ v.lines[k].account \in Accounts
                     /\ v.lines[k].net \in Nat /\ v.lines[k].tax \in [Rates -> Nat]
    <3> HIDE DEF K
    <3> QED BY <2>2
  <2> HIDE DEF K, L
  <2> QED BY <2>1, <2>2, <2>3, <2>4
<1>2. ASSUME rates \in Rates PROVE Tax(v) \in Nat
  <2> DEFINE f == [k \in K |-> v.lines[k].tax[rates]]
  <2>1. Tax(v) = SumFunctionOnSet(f, K)
    BY DEF Tax, SumOver, SumFunction
  <2>2. \A k \in K : f[k] \in Nat
    BY <1>1, <1>2
  <2> HIDE DEF f, K
  <2> QED BY <1>1, <2>1, <2>2, SumNat
<1>3. ASSUME NEW a PROVE Net(v, a) \in Nat
  <2> DEFINE S == {k \in K : v.lines[k].account = a}
             f == [k \in S |-> v.lines[k].net]
  <2>1. Net(v, a) = SumFunctionOnSet(f, S)
    BY DEF Net, SumOver, SumFunction
  <2>2. IsFiniteSet(S) /\ \A k \in S : f[k] \in Nat
    BY <1>1, FS_Subset
  <2> HIDE DEF f, S
  <2> QED BY <2>1, <2>2, SumNat
<1>4. IsFiniteSet(RevenueAccounts(v)) /\ RevenueAccounts(v) \subseteq Accounts
  <2>1. RevenueAccounts(v) \subseteq Accounts
    BY <1>1 DEF RevenueAccounts
  <2> QED BY <2>1, LedgerAssumption, FS_Subset
<1>5. ASSUME NEW tax \in Nat PROVE Gross(v, tax) \in Nat
  <2> DEFINE f == [a \in RevenueAccounts(v) |-> Net(v, a)]
             S == RevenueAccounts(v)
  <2>1. Gross(v, tax) = tax + SumFunctionOnSet(f, S)
    BY DEF Gross, SumOver, SumFunction
  <2>2. IsFiniteSet(S) /\ \A a \in S : f[a] \in Nat
    BY <1>3, <1>4
  <2>3. SumFunctionOnSet(f, S) \in Nat
    <3> HIDE DEF f, S
    <3> QED BY <2>2, SumNat
  <2> HIDE DEF f, S
  <2> QED BY <2>1, <2>3
<1> QED BY <1>1, <1>2, <1>3, <1>4, <1>5

LEMMA InvoiceJournal ==
  ASSUME NEW i \in Invoices, NEW v \in Contents[i], NEW tax \in Nat
  PROVE  /\ buildInvoiceJournal(v, tax) \in Seq(Line)
         /\ Debits(buildInvoiceJournal(v, tax)) = Gross(v, tax)
<1> DEFINE A == RevenueAccounts(v)
           f == [a \in A |-> Net(v, a)]
           nets == SetToSeq({Credit(a, Net(v, a)) : a \in A})
           taxed == IF tax # 0 THEN <<Credit(TaxAccount, tax)>> ELSE <<>>
           rest == nets \o taxed
<1>1. Gross(v, tax) \in Nat /\ v.ar \in Accounts /\ TaxAccount \in Accounts
      /\ A \subseteq Accounts /\ IsFiniteSet(A) /\ f \in [A -> Nat]
  BY InvoiceAmounts, InvoicingAssumption
<1>2. nets = SetToSeq({Credit(a, f[a]) : a \in A})
  <2>1. {Credit(a, f[a]) : a \in A} = {Credit(a, Net(v, a)) : a \in A}
    OBVIOUS
  <2> QED BY <2>1
<1>3. nets \in Seq(Line) /\ \A k \in DOMAIN nets : nets[k].debit = 0
  <2> HIDE DEF nets, f, A
  <2> QED BY <1>1, <1>2, CreditLines
<1>4. taxed \in Seq(Line) /\ \A k \in DOMAIN taxed : taxed[k].debit = 0
  <2>1. Credit(TaxAccount, tax) \in Line /\ Credit(TaxAccount, tax).debit = 0
    BY <1>1 DEF Credit, Line
  <2> HIDE DEF Line
  <2> QED BY <2>1
<1> HIDE DEF nets, taxed
<1>5. rest \in Seq(Line) /\ \A k \in DOMAIN rest : rest[k].debit = 0
  <2>1. rest \in Seq(Line) /\ DOMAIN rest = 1..Len(nets) + Len(taxed)
    <3> HIDE DEF Line
    <3> QED BY <1>3, <1>4
  <2>2. ASSUME NEW k \in DOMAIN rest PROVE rest[k].debit = 0
    <3>1. CASE k <= Len(nets)
      <4>1. k \in DOMAIN nets /\ rest[k] = nets[k]
        <5> HIDE DEF Line
        <5> QED BY <1>3, <1>4, <2>1, <3>1
      <4> QED BY <1>3, <4>1
    <3>2. CASE k > Len(nets)
      <4>1. k - Len(nets) \in DOMAIN taxed /\ rest[k] = taxed[k - Len(nets)]
        <5> HIDE DEF Line
        <5> QED BY <1>3, <1>4, <2>1, <3>2
      <4> QED BY <1>4, <4>1
    <3>3. k \in Nat /\ Len(nets) \in Nat
      <4> HIDE DEF Line
      <4> QED BY <1>3, <1>4, <2>1
    <3> QED BY <3>1, <3>2, <3>3
  <2> QED BY <2>1, <2>2
<1>6. buildInvoiceJournal(v, tax) = <<Debit(v.ar, Gross(v, tax))>> \o rest
  <2>1. buildInvoiceJournal(v, tax) = (<<Debit(v.ar, Gross(v, tax))>> \o nets) \o taxed
    BY DEF buildInvoiceJournal, nets, taxed
  <2>2. <<Debit(v.ar, Gross(v, tax))>> \in Seq(Line)
    <3>1. Debit(v.ar, Gross(v, tax)) \in Line
      BY <1>1 DEF Debit, Line
    <3> HIDE DEF Line
    <3> QED BY <3>1
  <2> HIDE DEF Line
  <2> QED BY <1>3, <1>4, <2>1, <2>2
<1> HIDE DEF rest
<1> QED BY <1>1, <1>5, <1>6, JournalShape

LEMMA ReceiptAmounts ==
  ASSUME NEW r \in Receipts, NEW v \in Contents[r]
  PROVE  /\ DOMAIN v \subseteq Invoices /\ IsFiniteSet(DOMAIN v)
         /\ \A i \in DOMAIN v : v[i] \in Nat
         /\ Total(v) \in Nat
<1>1. DOMAIN v \subseteq Invoices /\ IsFiniteSet(DOMAIN v) /\ \A i \in DOMAIN v : v[i] \in Nat
  BY InvoicingAssumption, FS_Subset
<1>2. Total(v) \in Nat
  BY <1>1, SumNat DEF Total, SumFunction
<1> QED BY <1>1, <1>2

LEMMA ReceiptJournal ==
  ASSUME NEW r \in Receipts, NEW v \in Contents[r],
         NEW ar, \A i \in DOMAIN v : ar[i] \in Accounts
  PROVE  buildReceiptJournal(v, ar) \in Seq(Line) /\ Debits(buildReceiptJournal(v, ar)) = Total(v)
<1> DEFINE A == {ar[i] : i \in DOMAIN v}
           applied(a) == SumOver(LAMBDA i : v[i], {i \in DOMAIN v : ar[i] = a})
           f == [a \in A |-> applied(a)]
           rest == SetToSeq({Credit(a, applied(a)) : a \in A})
<1>1. ASSUME NEW a PROVE applied(a) \in Nat
  <2> DEFINE S == {i \in DOMAIN v : ar[i] = a}
             g == [i \in S |-> v[i]]
  <2>1. applied(a) = SumFunctionOnSet(g, S)
    BY DEF SumOver, SumFunction
  <2>2. IsFiniteSet(S) /\ \A i \in S : g[i] \in Nat
    BY ReceiptAmounts, FS_Subset
  <2> HIDE DEF g, S
  <2> QED BY <2>1, <2>2, SumNat
<1> HIDE DEF applied
<1>2. /\ Total(v) \in Nat /\ BankAccount \in Accounts
      /\ A \subseteq Accounts /\ IsFiniteSet(A) /\ f \in [A -> Nat]
  <2>1. A \subseteq Accounts
    OBVIOUS
  <2>2. IsFiniteSet(A)
    BY <2>1, LedgerAssumption, FS_Subset
  <2> QED BY <1>1, <2>1, <2>2, ReceiptAmounts, InvoicingAssumption
<1>3. rest = SetToSeq({Credit(a, f[a]) : a \in A})
  <2>1. {Credit(a, f[a]) : a \in A} = {Credit(a, applied(a)) : a \in A}
    OBVIOUS
  <2> QED BY <2>1
<1>4. rest \in Seq(Line) /\ \A k \in DOMAIN rest : rest[k].debit = 0
  <2> HIDE DEF rest, f, A
  <2> QED BY <1>2, <1>3, CreditLines
<1>5. buildReceiptJournal(v, ar) = <<Debit(BankAccount, Total(v))>> \o rest
  BY DEF buildReceiptJournal, applied
<1> HIDE DEF rest
<1> QED BY <1>2, <1>4, <1>5, JournalShape

(* The mirror image of an entry is one. *)
LEMMA ReversedLines ==
  ASSUME NEW lines \in Seq(Line)
  PROVE  Reversed(lines) \in Seq(Line)
<1>1. Reversed(lines) \in [1..Len(lines) -> Line] /\ Len(lines) \in Nat
  <2>1. DOMAIN lines = 1..Len(lines) /\ Len(lines) \in Nat
    OBVIOUS
  <2>2. \A i \in DOMAIN lines : lines[i].account \in Accounts /\ lines[i].debit \in Nat /\ lines[i].credit \in Nat
    BY LineOf
  <2> QED BY <2>1, <2>2 DEF Reversed, Line
<1> QED BY <1>1
--------------------------------------------------------------------------------
(* Folds of entries. *)

EntriesOK(es) == IsFiniteSet(es) /\ \A e \in es : e.lines \in Seq(Line) /\ validateEntry(e.lines)

\* What line i of an entry adds to account a.
Adds(lines, a) ==
  [i \in DOMAIN lines |-> IF lines[i].account = a THEN lines[i].debit - lines[i].credit ELSE 0]

LEMMA AddIs ==
  ASSUME NEW lines \in Seq(Line), NEW a
  PROVE  /\ Summable(Adds(lines, a), DOMAIN lines)
         /\ add(lines, a) = SumFunctionOnSet(Adds(lines, a), DOMAIN lines)
         /\ add(lines, a) \in Int
<1>1. IsFiniteSet(DOMAIN lines)
  <2>1. DOMAIN lines = 1..Len(lines) /\ Len(lines) \in Nat
    OBVIOUS
  <2> QED BY <2>1, FS_Interval
<1>2. \A i \in DOMAIN lines : Adds(lines, a)[i] \in Int
  BY LineOf DEF Adds
<1>3. Summable(Adds(lines, a), DOMAIN lines)
  BY <1>1, <1>2 DEF Summable
<1>4. add(lines, a) = SumFunctionOnSet(Adds(lines, a), DOMAIN lines)
  BY DEF add, Adds, SumOver, SumFunction
<1> QED BY <1>3, <1>4, SumType

(* Double entry: what an entry adds to the accounts adds up to nothing. *)
LEMMA EntryBalances ==
  ASSUME NEW lines \in Seq(Line), validateEntry(lines)
  PROVE  SumFunctionOnSet([a \in Accounts |-> add(lines, a)], Accounts) = 0
<1> DEFINE K == DOMAIN lines
           table == [a \in Accounts |-> Adds(lines, a)]
           row == [a \in Accounts |-> add(lines, a)]
           column == [i \in K |-> lines[i].debit - lines[i].credit]
           debit == [i \in K |-> lines[i].debit]
           credit == [i \in K |-> lines[i].credit]
<1>1. IsFiniteSet(K)
  <2>1. K = 1..Len(lines) /\ Len(lines) \in Nat
    OBVIOUS
  <2> QED BY <2>1, FS_Interval
<1>2. IsFiniteSet(Accounts)
  BY LedgerAssumption
<1>3. \A a \in Accounts, i \in K : table[a][i] \in Int
  BY LineOf DEF Adds
<1>4. \A a \in Accounts : row[a] = SumFunctionOnSet(table[a], K)
  BY AddIs
<1>5. \A i \in K : column[i] = SumFunctionOnSet([a \in Accounts |-> table[a][i]], Accounts)
  <2> SUFFICES ASSUME NEW i \in K
               PROVE  column[i] = SumFunctionOnSet([a \in Accounts |-> table[a][i]], Accounts)
    OBVIOUS
  <2> DEFINE cell == [a \in Accounts |-> table[a][i]]
             own == lines[i].account
  <2>1. own \in Accounts /\ lines[i].debit \in Nat /\ lines[i].credit \in Nat
    BY LineOf
  <2>2. cell[own] = column[i] /\ \A a \in Accounts \ {own} : cell[a] = 0
    BY <2>1 DEF Adds
  <2>3. Summable(cell, Accounts)
    BY <1>2, <1>3 DEF Summable
  <2>4. SumFunctionOnSet(cell, Accounts) = cell[own]
    <3> HIDE DEF cell, own
    <3> QED BY ONLY <2>1, <2>2, <2>3, SumOfOne
  <2> HIDE DEF column, table
  <2> QED BY <2>2, <2>4
<1>6. SumFunctionOnSet(row, Accounts) = SumFunctionOnSet(column, K)
  <2>1. /\ IsTable(table, Accounts, K) /\ SumsRows(row, table, Accounts, K)
        /\ SumsColumns(column, table, Accounts, K)
    <3> HIDE DEF K, table, row, column
    <3> QED BY <1>1, <1>2, <1>3, <1>4, <1>5 DEF IsTable, SumsRows, SumsColumns
  <2> HIDE DEF K, table, row, column
  <2> QED BY ONLY <2>1, SumExchange
<1>7. Summable(column, K) /\ Summable(debit, K) /\ Summable(credit, K)
      /\ \A i \in K : debit[i] = column[i] + credit[i]
  BY <1>1, LineOf DEF Summable
<1>8. SumFunctionOnSet(debit, K) = SumFunctionOnSet(column, K) + SumFunctionOnSet(credit, K)
  <2> HIDE DEF K, column, debit, credit
  <2> QED BY ONLY <1>7, SumPlus
<1>9. SumFunctionOnSet(debit, K) = SumFunctionOnSet(credit, K)
  BY DEF validateEntry, Debits, Credits, SumOver, SumFunction
<1>10. SumFunctionOnSet(column, K) \in Int /\ SumFunctionOnSet(credit, K) \in Int
  <2> HIDE DEF K, column, debit, credit
  <2> QED BY <1>7, SumType
<1> HIDE DEF row, column, debit, credit, K
<1>11. SumFunctionOnSet(row, Accounts) = 0
  BY <1>6, <1>8, <1>9, <1>10
<1> QED BY <1>11 DEF row

\* What each entry adds to account a.
Effects(es, a) == [e \in es |-> add(e.lines, a)]

LEMMA FoldIs ==
  ASSUME NEW es, EntriesOK(es), NEW a \in Accounts
  PROVE  /\ Summable(Effects(es, a), es)
         /\ Fold(es)[a] = SumFunctionOnSet(Effects(es, a), es)
         /\ Fold(es)[a] \in Int
<1>1. Summable(Effects(es, a), es)
  BY AddIs DEF Summable, Effects, EntriesOK
<1>2. Fold(es)[a] = SumFunctionOnSet(Effects(es, a), es)
  BY DEF Fold, Effects, SumOver, SumFunction
<1> QED BY <1>1, <1>2, SumType

LEMMA FoldType ==
  ASSUME NEW es, EntriesOK(es)
  PROVE  Fold(es) \in [Accounts -> Int]
<1>1. DOMAIN Fold(es) = Accounts /\ Fold(es) = [a \in Accounts |-> Fold(es)[a]]
  BY DEF Fold
<1> HIDE DEF Fold
<1> QED BY <1>1, FoldIs

(* Folding more entries adds to the balances what those alone give. *)
LEMMA FoldUnion ==
  ASSUME NEW es, NEW fs, EntriesOK(es), EntriesOK(fs), es \cap fs = {}
  PROVE  Fold(es \cup fs) = [a \in Accounts |-> Fold(es)[a] + Fold(fs)[a]]
<1>1. EntriesOK(es \cup fs)
  BY FS_Union DEF EntriesOK
<1>2. ASSUME NEW a \in Accounts PROVE Fold(es \cup fs)[a] = Fold(es)[a] + Fold(fs)[a]
  <2> DEFINE f == Effects(es \cup fs, a)
             g == Effects(es, a)
             h == Effects(fs, a)
  <2>1. /\ Summable(f, es \cup fs) /\ Summable(g, es) /\ Summable(h, fs)
        /\ Fold(es \cup fs)[a] = SumFunctionOnSet(f, es \cup fs)
        /\ Fold(es)[a] = SumFunctionOnSet(g, es)
        /\ Fold(fs)[a] = SumFunctionOnSet(h, fs)
    BY <1>1, FoldIs
  <2>2. (\A e \in es : g[e] = f[e]) /\ (\A e \in fs : h[e] = f[e])
    BY DEF Effects
  <2> HIDE DEF f, g, h
  <2>3. SumFunctionOnSet(g, es) = SumFunctionOnSet(f, es)
    BY ONLY <2>1, <2>2, SumSame
  <2>4. SumFunctionOnSet(h, fs) = SumFunctionOnSet(f, fs)
    BY ONLY <2>1, <2>2, SumSame
  <2>5. SumFunctionOnSet(f, es \cup fs) = SumFunctionOnSet(f, es) + SumFunctionOnSet(f, fs)
    BY <2>1, SumUnion
  <2> QED BY <2>1, <2>3, <2>4, <2>5
<1>3. Fold(es \cup fs) = [a \in Accounts |-> Fold(es \cup fs)[a]]
  BY DEF Fold
<1> QED BY <1>2, <1>3

(* Balances that are a fold of entries that balance add up to zero. *)
LEMMA FoldBalances ==
  ASSUME NEW es, EntriesOK(es)
  PROVE  SumFunctionOnSet(Fold(es), Accounts) = 0
<1> DEFINE table == [a \in Accounts |-> Effects(es, a)]
           column == [e \in es |-> 0]
<1>1. IsFiniteSet(Accounts) /\ IsFiniteSet(es)
  BY LedgerAssumption DEF EntriesOK
<1>2. \A a \in Accounts, e \in es : table[a][e] \in Int
  BY FoldIs DEF Summable
<1>3. \A a \in Accounts : Fold(es)[a] = SumFunctionOnSet(table[a], es)
  BY FoldIs
<1>4. \A e \in es : column[e] = SumFunctionOnSet([a \in Accounts |-> table[a][e]], Accounts)
  <2> SUFFICES ASSUME NEW e \in es
               PROVE  SumFunctionOnSet([a \in Accounts |-> table[a][e]], Accounts) = 0
    OBVIOUS
  <2>1. [a \in Accounts |-> table[a][e]] = [a \in Accounts |-> add(e.lines, a)]
    BY DEF Effects
  <2>2. SumFunctionOnSet([a \in Accounts |-> add(e.lines, a)], Accounts) = 0
    BY EntryBalances DEF EntriesOK
  <2> QED BY <2>1, <2>2
<1>5. \A e \in es : column[e] = 0
  OBVIOUS
<1> DEFINE row == Fold(es)
<1>6. \A a \in Accounts : row[a] = SumFunctionOnSet(table[a], es)
  BY <1>3
<1> HIDE DEF table, column, row
<1>7. SumFunctionOnSet(row, Accounts) = SumFunctionOnSet(column, es)
  <2>1. /\ IsTable(table, Accounts, es) /\ SumsRows(row, table, Accounts, es)
        /\ SumsColumns(column, table, Accounts, es)
    BY <1>1, <1>2, <1>4, <1>6 DEF IsTable, SumsRows, SumsColumns
  <2> QED BY ONLY <2>1, SumExchange
<1>8. SumFunctionOnSet(column, es) = 0
  BY <1>1, <1>5, SumZero
<1> QED BY <1>7, <1>8 DEF row
--------------------------------------------------------------------------------
(* What a step leaves alone. *)

(* The journal of a stored document, when the invoices a receipt settles are posted. *)
LEMMA JournalOf ==
  ASSUME TypeOK, NEW d \in Documents, doc[d].status # "none",
         d \in Receipts => \A i \in DOMAIN doc[d].content : IsFrozen(i)
  PROVE  /\ Journal(d) \in Seq(Line) /\ Debits(Journal(d)) = DocTotal(d)
         /\ DocTotal(d) \in Nat /\ DocTax(d) \in Nat
<1>1. doc[d].content \in Contents[d]
  BY DEF TypeOK
<1>2. CASE d \in Invoices
  <2>1. rates \in Rates /\ doc[d].tax \in Nat
    BY DEF TypeOK
  <2>2. DocTax(d) \in Nat
    BY <1>1, <1>2, <2>1, InvoiceAmounts DEF DocTax
  <2> QED BY <1>1, <1>2, <2>2, InvoiceJournal, InvoiceAmounts DEF Journal, DocTotal
<1>3. CASE d \notin Invoices
  <2> DEFINE v == doc[d].content
             ar == Receivables(v)
  <2>1. d \in Receipts
    BY <1>3 DEF Documents
  <2>2. DOMAIN v \subseteq Invoices /\ Total(v) \in Nat
    BY <1>1, <2>1, ReceiptAmounts
  <2>3. \A i \in DOMAIN v : ar[i] \in Accounts
    <3> SUFFICES ASSUME NEW i \in DOMAIN v PROVE doc[i].content.ar \in Accounts
      BY DEF Receivables
    <3>1. i \in Invoices /\ IsFrozen(i)
      BY <2>1, <2>2
    <3>2. doc[i].content \in Contents[i]
      BY <3>1 DEF TypeOK, Documents, IsFrozen
    <3> QED BY <3>1, <3>2, InvoiceAmounts
  <2>4. Journal(d) = buildReceiptJournal(v, ar) /\ DocTotal(d) = Total(v)
    BY <1>3 DEF Journal, DocTotal
  <2> HIDE DEF ar, v
  <2>5. buildReceiptJournal(v, ar) \in Seq(Line) /\ Debits(buildReceiptJournal(v, ar)) = Total(v)
    BY <1>1, <2>1, <2>3, ReceiptJournal DEF v
  <2>6. DocTax(d) = 0
    BY <2>1 DEF DocTax
  <2> QED BY <2>2, <2>4, <2>5, <2>6
<1>4. DocTax(d) \in Nat
  BY <1>1, InvoiceAmounts, InvoicingAssumption DEF DocTax, TypeOK, Documents
<1> QED BY <1>2, <1>3, <1>4

Kept(d) == /\ doc'[d].content = doc[d].content /\ DocTax(d)' = DocTax(d)
           /\ Journal(d)' = Journal(d) /\ DocTotal(d)' = DocTotal(d)

(* The tax of a document whose row and rates stay. *)
LEMMA SameTax ==
  ASSUME NEW x, doc'[x] = doc[x], rates' = rates
  PROVE  DocTax(x)' = DocTax(x)
BY DEF DocTax, Tax, SumOver, IsFrozen

(* The journals of documents whose rows and rates stay. *)
LEMMA SameJournals ==
  ASSUME doc' = doc, rates' = rates, NEW x
  PROVE  /\ DocTax(x)' = DocTax(x) /\ Journal(x)' = Journal(x) /\ DocTotal(x)' = DocTotal(x)
         /\ Kept(x)
<1>1. DocTax(x)' = DocTax(x)
  BY SameTax
<1> QED BY <1>1 DEF Kept, Journal, Receivables, DocTotal

\* What every step does to what is shared: it only adds to the log, and a document that is
\* being posted is not touched without a trace.
Steady ==
  /\ dialect' = dialect /\ seq' \in Nat /\ seq' >= seq /\ events \subseteq events'
  /\ overtaken \subseteq overtaken'
  /\ \A d \in Documents : /\ doc[d].status # "none" => doc'[d].status # "none"
                          /\ doc[d].status = "posted" => doc'[d].status = "posted"
                          /\ BeingPosted(d) /\ d \notin overtaken' => Kept(d)
  /\ \A b \in Clients : (Posting(b) /\ (task[b].period \in open \/ b \in straddle[task[b].period]))
                          => task[b].period \in open' \/ b \in straddle'[task[b].period]
  /\ dialect = "sqlite" => cursor' >= cursor /\ cursor' \in Nat

(* A request that does nothing in a step has nothing to fear from it. *)
LEMMA TaskRests ==
  ASSUME IInv, Steady, NEW b \in Clients, NEW t, t = task[b]
  PROVE  TaskOK(b, t)'
<1>1. TaskOK(b, t)
  BY DEF IInv, TasksOK
<1>2. CASE t.op \in PostOps /\ PostOK(b, t)
  <2>1. ASSUME t.op # "reverse" PROVE ReadOK(t)'
    <3>1. ReadOK(t)
      BY <1>2, <2>1 DEF PostOK
    <3>2. BeingPosted(t.doc)
      BY <3>1 DEF BeingPosted, ReadOK
    <3>3. t.doc \notin overtaken' => t.doc \notin overtaken /\ Kept(t.doc)
      BY <3>1, <3>2 DEF Steady, ReadOK
    <3>4. doc'[t.doc].status # "none"
      BY <3>1 DEF Steady, ReadOK
    <3>5. t.op = "receipt" => \A i \in DOMAIN t.content : IsFrozen(i)'
      <4> SUFFICES ASSUME t.op = "receipt", NEW i \in DOMAIN t.content PROVE IsFrozen(i)'
        OBVIOUS
      <4>1. t.doc \in Receipts /\ t.content \in Contents[t.doc]
        BY <3>1 DEF ReadOK, Series, Documents
      <4>2. i \in Documents
        BY <4>1, ReceiptAmounts DEF Documents
      <4> QED BY <3>1, <4>2 DEF ReadOK, IsFrozen, Steady
    <3> QED BY <3>1, <3>3, <3>4, <3>5 DEF ReadOK, Kept, Command, Series
  <2>2. t.at \in {"append", "insert", "commit"} => t.period \in open' \/ b \in straddle'[t.period]
    BY <1>2 DEF PostOK, Steady, Posting
  <2>3. t.at \in {"accept", "freeze"} => \E e \in events' : e.cmd = t.cmd /\ e.id = t.id
    BY <1>2 DEF PostOK, Steady
  <2>4. t.id \in 0..seq'
    <3>1. seq \in Nat /\ t.id \in 0..seq /\ seq' >= seq /\ seq' \in Nat
      BY <1>2 DEF PostOK, Steady, IInv, TypeOK, LedgerTypeOK
    <3> QED BY <3>1
  <2>5. PostOK(b, t)'
    BY <1>2, <2>1, <2>2, <2>3, <2>4 DEF PostOK, Steady
  <2> QED BY <1>2, <2>5 DEF TaskOK
<1>3. CASE t.op = "report" /\ ReportOK(t)
  <2>1. t.since \subseteq events /\ \A e \in events : e.id \in Nat
    BY <1>3 DEF ReportOK, IInv, TypeOK, LedgerTypeOK
  <2>2. ASSUME dialect = "sqlite", NEW e \in t.since, e.id <= cursor
        PROVE  e.id <= cursor'
    <3>1. e.id \in Nat /\ cursor \in Nat /\ cursor' \in Nat /\ cursor' >= cursor
      BY <2>1, <2>2 DEF Steady, IInv, TypeOK, LedgerTypeOK
    <3> QED BY <2>2, <3>1
  <2> QED BY <1>3, <2>1, <2>2 DEF ReportOK, TaskOK, Steady
<1>4. CASE ~(t.op \in PostOps /\ PostOK(b, t)) /\ ~(t.op = "report" /\ ReportOK(t))
  BY <1>1, <1>4 DEF TaskOK, Steady
<1> QED BY <1>2, <1>3, <1>4

LEMMA TasksRest ==
  ASSUME IInv, Steady, DOMAIN task' = Clients,
         \A b \in Clients : task'[b] = task[b] \/ TaskOK(b, task[b])'
  PROVE  TasksOK'
<1> SUFFICES ASSUME NEW b \in Clients, task'[b] = task[b] PROVE TaskOK(b, task[b])'
  BY DEF TasksOK
<1>1. PICK t : t = task[b]
  OBVIOUS
<1>2. TaskOK(b, t)'
  BY <1>1, TaskRests
<1> QED BY <1>1, <1>2
--------------------------------------------------------------------------------
(* Steps that change neither the log, nor a document, nor the projection. *)

SameBooks ==
  /\ UNCHANGED <<dialect, events, seq, open, straddle, bal, cursor, documents>>
  /\ left' \in [Kinds -> Nat] /\ active' \subseteq Accounts

LEMMA SameSteady ==
  ASSUME IInv, SameBooks
  PROVE  Steady
<1>1. \A d \in Documents : Kept(d)
  BY SameJournals DEF SameBooks, documents
<1>2. seq \in Nat /\ cursor \in Nat
  BY DEF IInv, TypeOK, LedgerTypeOK
<1> QED BY <1>1, <1>2 DEF Steady, SameBooks, documents

(* What is said of the log and of the documents is kept with them. *)
LEMMA RecordsRest ==
  ASSUME IInv, UNCHANGED <<dialect, events, documents>>
  PROVE  /\ EventsOK' /\ DocumentsOK' /\ NotOverApplied'
         /\ (dialect = "sqlite" => \A s \in {"invoice", "receipt"} : Numbered(s))'
<1>1. doc' = doc /\ next' = next /\ overtaken' = overtaken /\ rates' = rates
  BY DEF documents
<1>2. EventsOK'
  BY <1>1, SameJournals DEF IInv, EventsOK, IsFrozen, Command, Series
<1>3. DocumentsOK'
  BY <1>1, SameJournals DEF IInv, DocumentsOK, IsFrozen, Command, Series
<1>4. NotOverApplied'
  BY <1>1 DEF IInv, NotOverApplied, SumOver, IsFrozen
<1>5. (dialect = "sqlite" => \A s \in {"invoice", "receipt"} : Numbered(s))'
  BY <1>1 DEF IInv, Numbered, Numbers, InSeries, IsFrozen, Series, NumberOf
<1> QED BY <1>2, <1>3, <1>4, <1>5

LEMMA BooksRest ==
  ASSUME IInv, UNCHANGED <<dialect, events, bal, cursor, documents>>, TypeOK', TasksOK', CommitsAlone'
  PROVE  IInv'
<1>1. Projected'
  BY DEF IInv, Projected, Fold, SumOver
<1> QED BY <1>1, RecordsRest DEF IInv

LEMMA SameRest ==
  ASSUME IInv, SameBooks, TasksOK', CommitsAlone'
  PROVE  IInv'
<1>1. TypeOK'
  BY DEF IInv, TypeOK, LedgerTypeOK, SameBooks, documents
<1> QED BY <1>1, BooksRest DEF SameBooks

(* The state is the same for a request that is judged by it. *)
LEMMA SameJudged ==
  ASSUME SameBooks, NEW c, NEW u, TaskOK(c, u)
  PROVE  TaskOK(c, u)'
<1>1. ReadOK(u) => ReadOK(u)'
  BY SameJournals DEF ReadOK, SameBooks, documents, IsFrozen, Command, Series
<1>2. PostOK(c, u) => PostOK(c, u)'
  BY <1>1 DEF PostOK, SameBooks
<1>3. ReportOK(u) => ReportOK(u)'
  BY DEF ReportOK, SameBooks
<1> QED BY <1>2, <1>3 DEF TaskOK, SameBooks, documents

(* A request that goes on to another step, and is not about to commit. *)
LEMMA QuietStep ==
  ASSUME IInv, NEW c \in Clients, NEW u, SameBooks, task' = [task EXCEPT ![c] = u],
         TaskOK(c, u), u.at # "commit"
  PROVE  IInv'
<1>1. DOMAIN task = Clients
  BY DEF IInv, TasksOK
<1>2. task'[c] = u /\ DOMAIN task' = Clients /\ \A b \in Clients \ {c} : task'[b] = task[b]
  BY <1>1
<1>3. TaskOK(c, u)'
  BY SameJudged
<1>4. TasksOK'
  <2>1. TaskOK(c, task[c])'
    BY <1>2, <1>3
  <2> QED BY <1>2, <2>1, SameSteady, TasksRest
<1>5. CommitsAlone'
  BY <1>2 DEF IInv, CommitsAlone, IsPosted, SameBooks
<1> QED BY <1>4, <1>5, SameRest

(* No request goes on. *)
LEMMA IdleStep ==
  ASSUME IInv, SameBooks, task' = task
  PROVE  IInv'
<1>1. TasksOK'
  BY SameSteady, TasksRest DEF IInv, TasksOK
<1>2. CommitsAlone'
  BY DEF IInv, CommitsAlone, IsPosted, SameBooks
<1> QED BY <1>1, <1>2, SameRest

LEMMA SpendType ==
  ASSUME IInv, NEW k \in Kinds, Spend(k)
  PROVE  left' \in [Kinds -> Nat]
BY DEF IInv, TypeOK, LedgerTypeOK, Spend

LEMMA LeftActive ==
  ASSUME IInv
  PROVE  left \in [Kinds -> Nat] /\ active \subseteq Accounts
BY DEF IInv, TypeOK, LedgerTypeOK

LEMMA IdleOK ==
  ASSUME NEW c
  PROVE  TaskOK(c, Idle) /\ Idle.at # "commit"
BY DEF TaskOK, Idle
--------------------------------------------------------------------------------
(* A request goes on. *)

Carries(u, t) ==
  /\ DOMAIN u = PostFields /\ u.op = t.op /\ u.period = t.period /\ u.lines = t.lines
  /\ u.cmd = t.cmd /\ u.doc = t.doc /\ u.content = t.content
  /\ u.tax = t.tax /\ u.total = t.total

LEMMA Moved ==
  ASSUME NEW t, DOMAIN t = PostFields, NEW at, NEW u, u = [t EXCEPT !.at = at]
  PROVE  Carries(u, t) /\ u.at = at /\ u.id = t.id /\ u.num = t.num
BY DEF Carries, PostFields

LEMMA ReadCarried ==
  ASSUME NEW t, NEW u, Carries(u, t), ReadOK(t)
  PROVE  ReadOK(u)
BY DEF Carries, ReadOK

\* What a request to post brings, before its lines are looked at.
Brings(t) ==
  /\ DOMAIN t = PostFields /\ t.op \in PostOps /\ t.period \in Periods /\ t.lines \in Seq(Line)
  /\ t.tax \in Nat /\ t.total \in Nat /\ t.num = 0 /\ t.id = 0
  /\ t.op = "reverse" => t.cmd[1] = "reverse"
  /\ t.op # "reverse" => ReadOK(t)

LEMMA PostStep ==
  ASSUME IInv, SameBooks, NEW c \in Clients, NEW t, Brings(t), post(c, t)
  PROVE  IInv'
<1>1. CASE validateEntry(t.lines)
  <2>1. PICK u : u = [t EXCEPT !.at = "refs"]
    OBVIOUS
  <2>2. task' = [task EXCEPT ![c] = u]
    BY <1>1, <2>1 DEF post, Goto
  <2>3. Carries(u, t) /\ u.at = "refs" /\ u.id = 0 /\ u.num = 0
    <3>1. DOMAIN t = PostFields /\ t.id = 0 /\ t.num = 0
      BY DEF Brings
    <3> QED BY ONLY <2>1, <3>1, Moved
  <2>4. seq \in Nat
    BY DEF IInv, TypeOK, LedgerTypeOK
  <2>5. t.op # "reverse" => ReadOK(u)
    BY <2>3, ReadCarried DEF Brings
  <2>6. PostOK(c, u) /\ u.op \in PostOps
    BY <1>1, <2>3, <2>4, <2>5 DEF Brings, PostOK, Carries
  <2>7. TaskOK(c, u)
    BY <2>6 DEF TaskOK
  <2> QED BY <2>2, <2>3, <2>7, QuietStep
<1>2. CASE ~validateEntry(t.lines)
  <2>1. task' = [task EXCEPT ![c] = Idle]
    BY <1>2 DEF post, Done, Goto
  <2> QED BY <2>1, IdleOK, QuietStep
<1> QED BY <1>1, <1>2

LEMMA DoneStep ==
  ASSUME IInv, SameBooks, NEW c \in Clients, Done(c)
  PROVE  IInv'
BY IdleOK, QuietStep DEF Done, Goto

LEMMA DoesReverseEntry ==
  ASSUME IInv, NEW c \in Clients, ReverseEntry(c), UNCHANGED documents
  PROVE  IInv'
<1>1. SameBooks
  <2>1. left' \in [Kinds -> Nat]
    BY SpendType DEF ReverseEntry, Kinds
  <2> QED BY <2>1, LeftActive DEF SameBooks, ReverseEntry, ledger
<1>2. PICK e \in events :
        post(c, [op |-> "reverse", at |-> "refs", period |-> e.period,
                 lines |-> Reversed(e.lines), cmd |-> <<"reverse", left["reverse"]>>,
                 doc |-> e.id, content |-> None, tax |-> 0, total |-> 0, id |-> 0, num |-> 0])
  BY DEF ReverseEntry
<1> DEFINE t == [op |-> "reverse", at |-> "refs", period |-> e.period,
                 lines |-> Reversed(e.lines), cmd |-> <<"reverse", left["reverse"]>>,
                 doc |-> e.id, content |-> None, tax |-> 0, total |-> 0, id |-> 0, num |-> 0]
<1>3. e.period \in Periods /\ Reversed(e.lines) \in Seq(Line)
  BY ReversedLines DEF IInv, TypeOK, LedgerTypeOK
<1>4. DOMAIN t = PostFields
  BY DEF PostFields
<1>5. t.op = "reverse" /\ t.period = e.period /\ t.lines = Reversed(e.lines)
      /\ t.cmd[1] = "reverse" /\ t.tax = 0 /\ t.total = 0 /\ t.id = 0 /\ t.num = 0
  OBVIOUS
<1>6. post(c, t)
  BY <1>2
<1> HIDE DEF t
<1>7. Brings(t)
  BY <1>3, <1>4, <1>5 DEF Brings, PostOps
<1> QED BY <1>1, <1>6, <1>7, PostStep

(* A document that has been read, and its journal, are posted. *)
LEMMA Starts ==
  ASSUME IInv, NEW c \in Clients, SameBooks, NEW d \in Documents, IsDraft(d), StartPost(c, d),
         d \in Receipts => \A i \in DOMAIN doc[d].content : IsFrozen(i)
  PROVE  IInv'
<1>1. PICK p \in Periods :
        post(c, [op |-> Series(d), at |-> "refs", period |-> p, lines |-> Journal(d),
                 cmd |-> Command(d), doc |-> d, content |-> doc[d].content,
                 tax |-> DocTax(d), total |-> DocTotal(d), id |-> 0, num |-> 0])
  BY DEF StartPost
<1> DEFINE t == [op |-> Series(d), at |-> "refs", period |-> p, lines |-> Journal(d),
                 cmd |-> Command(d), doc |-> d, content |-> doc[d].content,
                 tax |-> DocTax(d), total |-> DocTotal(d), id |-> 0, num |-> 0]
<1>2. DOMAIN t = PostFields
  BY DEF PostFields
<1>3. /\ t.op = Series(d) /\ t.period = p /\ t.lines = Journal(d) /\ t.cmd = Command(d) /\ t.doc = d
      /\ t.content = doc[d].content /\ t.tax = DocTax(d) /\ t.total = DocTotal(d)
      /\ t.id = 0 /\ t.num = 0
  OBVIOUS
<1>4. post(c, t)
  BY <1>1
<1> HIDE DEF t
<1>5. doc[d].status # "none" /\ doc[d].content \in Contents[d]
  BY DEF IInv, TypeOK, IsDraft
<1>6. Journal(d) \in Seq(Line) /\ DocTotal(d) \in Nat /\ DocTax(d) \in Nat
  BY <1>5, JournalOf DEF IInv
<1>7. Series(d) \in {"invoice", "receipt"} /\ (Series(d) = "receipt" => d \in Receipts)
  BY DEF Series, Documents
<1>8. ReadOK(t)
  BY <1>3, <1>5, <1>7 DEF ReadOK
<1>9. Brings(t)
  BY <1>2, <1>3, <1>6, <1>7, <1>8 DEF Brings, PostOps
<1> QED BY <1>4, <1>9, PostStep

LEMMA DoesPostInvoice ==
  ASSUME IInv, NEW c \in Clients, PostInvoice(c)
  PROVE  IInv'
<1>1. SameBooks
  <2>1. left' \in [Kinds -> Nat]
    BY SpendType DEF PostInvoice, Kinds
  <2> QED BY <2>1, LeftActive DEF SameBooks, PostInvoice, ledger
<1>2. PICK d \in Invoices : IsDraft(d) /\ StartPost(c, d)
  BY DEF PostInvoice
<1>3. d \in Documents /\ d \notin Receipts
  BY InvoicingAssumption DEF Documents
<1> QED BY <1>1, <1>2, <1>3, Starts

LEMMA DoesPostReceipt ==
  ASSUME IInv, NEW c \in Clients, PostReceipt(c)
  PROVE  IInv'
<1>1. SameBooks
  <2>1. left' \in [Kinds -> Nat]
    BY SpendType DEF PostReceipt, Kinds
  <2> QED BY <2>1, LeftActive DEF SameBooks, PostReceipt, ledger
<1>2. PICK d \in Receipts :
        IsDraft(d) /\ StartPost(c, d) /\ \A i \in DOMAIN doc[d].content : IsFrozen(i)
  BY DEF PostReceipt
<1>3. d \in Documents
  BY DEF Documents
<1> QED BY <1>1, <1>2, <1>3, Starts

(* What is known of a request that is posting. *)
LEMMA PostingTask ==
  ASSUME IInv, NEW c \in Clients, NEW t, t = task[c],
         t.at \in {"refs", "append", "insert", "commit", "accept", "freeze"}
  PROVE  t.op \in PostOps /\ PostOK(c, t)
BY DEF IInv, TasksOK, TaskOK, Idle, ReportOK

LEMMA DoesValidateRefs ==
  ASSUME IInv, NEW c \in Clients, validateRefs(c), UNCHANGED documents
  PROVE  IInv'
<1>1. SameBooks
  BY LeftActive DEF SameBooks, validateRefs, ledger
<1>2. PICK t : t = task[c]
  OBVIOUS
<1>3. t.at = "refs" /\ t.op \in PostOps /\ PostOK(c, t)
  BY <1>2, PostingTask DEF validateRefs
<1>4. CASE t.period \in open /\ \A i \in DOMAIN t.lines : t.lines[i].account \in active
  <2>1. PICK u : u = [t EXCEPT !.at = "append"]
    OBVIOUS
  <2>2. task' = [task EXCEPT ![c] = u]
    BY <1>2, <1>4, <2>1 DEF validateRefs, Goto
  <2>3. Carries(u, t) /\ u.at = "append" /\ u.id = t.id /\ u.num = t.num
    <3>1. DOMAIN t = PostFields
      BY <1>3 DEF PostOK
    <3> QED BY ONLY <2>1, <3>1, Moved
  <2>4. t.op # "reverse" => ReadOK(u)
    BY <1>3, <2>3, ReadCarried DEF PostOK
  <2>5. PostOK(c, u) /\ u.op \in PostOps
    BY <1>3, <1>4, <2>3, <2>4 DEF PostOK, Carries
  <2>6. TaskOK(c, u)
    BY <2>5 DEF TaskOK
  <2> QED BY <1>1, <2>2, <2>3, <2>6, QuietStep
<1>5. CASE ~(t.period \in open /\ \A i \in DOMAIN t.lines : t.lines[i].account \in active)
  <2>1. Done(c)
    BY <1>2, <1>5 DEF validateRefs
  <2> QED BY <1>1, <2>1, DoneStep
<1> QED BY <1>4, <1>5

(* The entry of a command is the one that has it. *)
LEMMA EntryIs ==
  ASSUME IInv, NEW cmd, IsPosted(cmd)
  PROVE  /\ Entry(cmd) \in events /\ Entry(cmd).cmd = cmd
         /\ \A e \in events : e.cmd = cmd => e = Entry(cmd)
<1>1. Entry(cmd) \in events /\ Entry(cmd).cmd = cmd
  BY DEF IsPosted, Entry
<1> QED BY <1>1 DEF IInv, EventsOK

(* A request whose command is in the log goes on with the entry it made. *)
LEMMA PostedBefore ==
  ASSUME IInv, SameBooks, NEW c \in Clients, NEW t, t = task[c], t.at = "append", IsPosted(t.cmd),
         Posted(c, Entry(t.cmd).id)
  PROVE  IInv'
<1>1. t.op \in PostOps /\ PostOK(c, t)
  BY PostingTask
<1>2. CASE t.op = "reverse"
  <2>1. Done(c)
    BY <1>2 DEF Posted
  <2> QED BY <2>1, DoneStep
<1>3. CASE t.op # "reverse"
  <2>0. PICK id : id = Entry(t.cmd).id
    OBVIOUS
  <2>1. PICK u : u = [t EXCEPT !.at = "accept", !.id = id]
    OBVIOUS
  <2>2. task' = [task EXCEPT ![c] = u]
    BY <1>3, <2>0, <2>1 DEF Posted, Goto
  <2>3. \E e \in events : e.cmd = t.cmd /\ e.id = id
    BY <2>0, EntryIs
  <2>4. id \in 1..seq /\ seq \in Nat
    BY <2>3 DEF IInv, TypeOK, LedgerTypeOK
  <2>5. Carries(u, t) /\ u.at = "accept" /\ u.id = id /\ u.num = t.num
    <3>1. DOMAIN t = PostFields
      BY <1>1 DEF PostOK
    <3> QED BY ONLY <2>1, <3>1 DEF Carries, PostFields
  <2>6. ReadOK(u)
    BY <1>1, <1>3, <2>5, ReadCarried DEF PostOK
  <2>7. PostOK(c, u) /\ u.op \in PostOps
    BY <1>1, <1>3, <2>3, <2>4, <2>5, <2>6 DEF PostOK, Carries
  <2>8. TaskOK(c, u)
    BY <2>7 DEF TaskOK
  <2> QED BY <2>2, <2>5, <2>8, QuietStep
<1> QED BY <1>2, <1>3

LEMMA DoesPostEntryCheck ==
  ASSUME IInv, NEW c \in Clients, PostEntryCheck(c), UNCHANGED documents
  PROVE  IInv'
<1>1. SameBooks
  BY LeftActive DEF SameBooks, PostEntryCheck, ledger
<1>2. PICK t : t = task[c]
  OBVIOUS
<1>3. t.at = "append" /\ dialect = "postgres" /\ t.op \in PostOps /\ PostOK(c, t)
  BY <1>2, PostingTask DEF PostEntryCheck
<1>4. CASE IsPosted(t.cmd)
  <2>1. Posted(c, Entry(t.cmd).id)
    BY <1>2, <1>4 DEF PostEntryCheck
  <2> QED BY <1>1, <1>2, <1>3, <1>4, <2>1, PostedBefore
<1>5. CASE ~IsPosted(t.cmd) /\ t.period \in open
  <2>1. PICK u : u = [t EXCEPT !.at = "insert"]
    OBVIOUS
  <2>2. task' = [task EXCEPT ![c] = u]
    BY <1>2, <1>5, <2>1 DEF PostEntryCheck, Goto
  <2>3. Carries(u, t) /\ u.at = "insert" /\ u.id = t.id /\ u.num = t.num
    <3>1. DOMAIN t = PostFields
      BY <1>3 DEF PostOK
    <3> QED BY ONLY <2>1, <3>1, Moved
  <2>4. t.op # "reverse" => ReadOK(u)
    BY <1>3, <2>3, ReadCarried DEF PostOK
  <2>5. PostOK(c, u) /\ u.op \in PostOps
    BY <1>3, <1>5, <2>3, <2>4 DEF PostOK, Carries
  <2>6. TaskOK(c, u)
    BY <2>5 DEF TaskOK
  <2> QED BY <1>1, <2>2, <2>3, <2>6, QuietStep
<1>6. CASE ~IsPosted(t.cmd) /\ t.period \notin open
  <2>1. Done(c)
    BY <1>2, <1>6 DEF PostEntryCheck
  <2> QED BY <1>1, <2>1, DoneStep
<1> QED BY <1>4, <1>5, <1>6
--------------------------------------------------------------------------------
(* Periods, accounts, drafts that are read, and requests that end. *)

LEMMA DoesTransitionStatus ==
  ASSUME IInv, NEW c \in Clients, NEW op \in {"close", "reopen"}, transitionStatus(c, op),
         UNCHANGED documents
  PROVE  IInv'
<1>1. SameBooks
  <2>1. left' \in [Kinds -> Nat]
    BY SpendType DEF transitionStatus, Kinds
  <2> QED BY <2>1, LeftActive DEF SameBooks, transitionStatus, ledger
<1>2. PICK p \in IF op = "close" THEN open ELSE Periods \ open :
        Goto(c, [op |-> op, at |-> "status", period |-> p])
  BY DEF transitionStatus
<1>3. p \in Periods
  BY <1>2 DEF IInv, TypeOK, LedgerTypeOK
<1> DEFINE u == [op |-> op, at |-> "status", period |-> p]
<1>4. TaskOK(c, u) /\ u.at # "commit" /\ task' = [task EXCEPT ![c] = u]
  BY <1>2, <1>3 DEF TaskOK, Goto
<1> HIDE DEF u
<1> QED BY <1>1, <1>4, QuietStep

(* Closing a period leaves a trace of the requests that are posting to it. *)
LEMMA DoesTransitionWrite ==
  ASSUME IInv, NEW c \in Clients, transitionWrite(c), UNCHANGED documents
  PROVE  IInv'
<1>1. PICK t : t = task[c]
  OBVIOUS
<1>2. t.op \in {"close", "reopen"} /\ t.at = "status" /\ t.period \in Periods
  <2>1. TaskOK(c, t) /\ t.at = "status"
    BY <1>1 DEF IInv, TasksOK, transitionWrite
  <2> QED BY <2>1 DEF TaskOK, Idle, PostOK, ReportOK
<1>3. /\ UNCHANGED <<dialect, events, seq, active, bal, cursor, left, documents>>
      /\ task' = [task EXCEPT ![c] = Idle]
      /\ open' = IF t.op = "close" THEN open \ {t.period} ELSE open \cup {t.period}
      /\ straddle' = [straddle EXCEPT ![t.period] =
           IF t.op = "reopen" THEN {}
           ELSE @ \cup {d \in Clients : Posting(d) /\ task[d].period = t.period}]
  BY <1>1 DEF transitionWrite, Done, Goto
<1>4. straddle \in [Periods -> SUBSET Clients] /\ open \subseteq Periods
  BY DEF IInv, TypeOK, LedgerTypeOK
<1>5. straddle' \in [Periods -> SUBSET Clients] /\ open' \subseteq Periods
  BY <1>2, <1>3, <1>4
<1>6. TypeOK'
  BY <1>3, <1>5 DEF IInv, TypeOK, LedgerTypeOK, documents
<1>7. Steady
  <2>1. \A d \in Documents : Kept(d)
    BY <1>3, SameJournals DEF documents
  <2>2. seq \in Nat /\ cursor \in Nat
    BY DEF IInv, TypeOK, LedgerTypeOK
  <2>3. ASSUME NEW b \in Clients, Posting(b),
               task[b].period \in open \/ b \in straddle[task[b].period]
        PROVE  task[b].period \in open' \/ b \in straddle'[task[b].period]
    <3>1. task[b].period \in Periods
      <4>1. PICK k : k = task[b]
        OBVIOUS
      <4>2. PostOK(b, k)
        BY <2>3, <4>1, PostingTask DEF Posting
      <4> QED BY <4>1, <4>2 DEF PostOK
    <3>2. CASE task[b].period = t.period
      BY <1>2, <1>3, <1>4, <2>3, <3>2
    <3>3. CASE task[b].period # t.period
      <4>1. straddle'[task[b].period] = straddle[task[b].period]
        BY <1>3, <1>4, <3>1, <3>3
      <4>2. task[b].period \in open => task[b].period \in open'
        BY <1>3, <3>3
      <4> QED BY <2>3, <4>1, <4>2
    <3> QED BY <3>2, <3>3
  <2> QED BY <1>3, <2>1, <2>2, <2>3 DEF Steady, documents
<1>8. DOMAIN task = Clients
  BY DEF IInv, TasksOK
<1>9. task'[c] = Idle /\ DOMAIN task' = Clients /\ \A b \in Clients \ {c} : task'[b] = task[b]
  BY <1>3, <1>8
<1>10. TasksOK'
  <2>1. TaskOK(c, task[c])'
    BY <1>9 DEF TaskOK, Idle
  <2> QED BY <1>7, <1>9, <2>1, TasksRest
<1>11. CommitsAlone'
  BY <1>3, <1>9 DEF IInv, CommitsAlone, IsPosted, Idle
<1> QED BY <1>3, <1>6, <1>10, <1>11, BooksRest

LEMMA DoesArchiveAccount ==
  ASSUME IInv, ArchiveAccount, UNCHANGED documents
  PROVE  IInv'
<1>1. SameBooks
  <2>1. left' \in [Kinds -> Nat]
    BY SpendType DEF ArchiveAccount, Kinds
  <2> QED BY <2>1, LeftActive DEF SameBooks, ArchiveAccount
<1> QED BY <1>1, IdleStep DEF ArchiveAccount

LEMMA DoesReadTrialBalance ==
  ASSUME IInv, NEW c \in Clients, ReadTrialBalance(c), UNCHANGED documents
  PROVE  IInv'
<1>1. SameBooks
  BY LeftActive DEF SameBooks, ReadTrialBalance, ledger
<1> QED BY <1>1, DoneStep DEF ReadTrialBalance

LEMMA DoesCrash ==
  ASSUME IInv, NEW c \in Clients, Crash(c), UNCHANGED documents
  PROVE  IInv'
<1>1. SameBooks
  <2>1. left' \in [Kinds -> Nat]
    BY SpendType DEF Crash, Kinds
  <2> QED BY <2>1, LeftActive DEF SameBooks, Crash, ledger
<1> QED BY <1>1, DoneStep DEF Crash

LEMMA ReadsDraft ==
  ASSUME IInv, NEW c \in Clients, SameBooks, NEW d \in Documents, ReadDraft(c, d)
  PROVE  IInv'
<1>1. PICK content \in Contents[d] :
        IsDraft(d) /\ Goto(c, [op |-> "update", at |-> "write", doc |-> d, content |-> content])
  BY DEF ReadDraft
<1> DEFINE u == [op |-> "update", at |-> "write", doc |-> d, content |-> content]
<1>2. TaskOK(c, u) /\ u.at # "commit" /\ task' = [task EXCEPT ![c] = u]
  BY <1>1 DEF TaskOK, Goto, IsDraft
<1> HIDE DEF u
<1> QED BY <1>2, QuietStep

LEMMA DoesUpdateDraft ==
  ASSUME IInv, NEW c \in Clients, UpdateDraft(c) \/ UpdateReceiptDraft(c)
  PROVE  IInv'
<1>1. SameBooks
  <2>1. left' \in [Kinds -> Nat]
    BY SpendType DEF UpdateDraft, UpdateReceiptDraft, Kinds
  <2> QED BY <2>1, LeftActive DEF SameBooks, UpdateDraft, UpdateReceiptDraft, ledger
<1>2. \E d \in Documents : ReadDraft(c, d)
  BY DEF UpdateDraft, UpdateReceiptDraft, Documents
<1> QED BY <1>1, <1>2, ReadsDraft

LEMMA DoesAcceptRead ==
  ASSUME IInv, NEW c \in Clients, AcceptRead(c)
  PROVE  IInv'
<1>1. SameBooks
  BY LeftActive DEF SameBooks, AcceptRead, ledger
<1>2. PICK t : t = task[c]
  OBVIOUS
<1>3. t.at = "accept" /\ dialect = "postgres" /\ t.op \in PostOps /\ PostOK(c, t)
  BY <1>2, PostingTask DEF AcceptRead
<1>4. CASE MayAccept(t)
  <2>0. PICK n : n = next[t.op]
    OBVIOUS
  <2>1. PICK u : u = [t EXCEPT !.at = "freeze", !.num = n]
    OBVIOUS
  <2>2. task' = [task EXCEPT ![c] = u]
    BY <1>2, <1>4, <2>0, <2>1 DEF AcceptRead, Goto
  <2>3. Carries(u, t) /\ u.at = "freeze" /\ u.num = n /\ u.id = t.id
    <3>1. DOMAIN t = PostFields
      BY <1>3 DEF PostOK
    <3> QED BY ONLY <2>1, <3>1 DEF Carries, PostFields
  <2>4. t.op # "reverse" /\ ReadOK(t)
    BY <1>3 DEF PostOK
  <2>5. ReadOK(u)
    BY <2>3, <2>4, ReadCarried
  <2>6. n \in Nat
    BY <1>3, <2>0, <2>4 DEF IInv, TypeOK, PostOps
  <2>7. PostOK(c, u) /\ u.op \in PostOps
    BY <1>3, <2>3, <2>4, <2>5, <2>6 DEF PostOK, Carries
  <2>8. TaskOK(c, u)
    BY <2>7 DEF TaskOK
  <2> QED BY <1>1, <2>2, <2>3, <2>8, QuietStep
<1>5. CASE ~MayAccept(t)
  <2>1. Done(c)
    BY <1>2, <1>5 DEF AcceptRead
  <2> QED BY <1>1, <2>1, DoneStep
<1> QED BY <1>4, <1>5
--------------------------------------------------------------------------------
(* Entries. *)

LEMMA DoesPostEntryInsert ==
  ASSUME IInv, NEW c \in Clients, PostEntryInsert(c), UNCHANGED documents
  PROVE  IInv'
<1>1. PICK t : t = task[c]
  OBVIOUS
<1>2. t.at = "insert" /\ t.op \in PostOps /\ PostOK(c, t)
  BY <1>1, PostingTask DEF PostEntryInsert
<1>3. CASE IsPosted(t.cmd)
  <2>1. SameBooks /\ Done(c)
    BY <1>1, <1>3, LeftActive DEF PostEntryInsert, SameBooks
  <2> QED BY <2>1, DoneStep
<1>4. CASE ~IsPosted(t.cmd)
  <2>0. PICK id : id = seq + 1
    OBVIOUS
  <2>1. PICK u : u = [t EXCEPT !.at = "commit", !.id = id]
    OBVIOUS
  <2>2. /\ task' = [task EXCEPT ![c] = u] /\ seq' = seq + 1
        /\ UNCHANGED <<dialect, events, open, active, bal, cursor, straddle, left, documents>>
    BY <1>1, <1>4, <2>0, <2>1 DEF PostEntryInsert, Goto
  <2>3. Carries(u, t) /\ u.at = "commit" /\ u.id = id /\ u.num = t.num
    <3>1. DOMAIN t = PostFields
      BY <1>2 DEF PostOK
    <3> QED BY ONLY <2>1, <3>1 DEF Carries, PostFields
  <2>4. seq \in Nat /\ cursor \in 0..seq /\ id \in 1..seq' /\ seq' \in Nat
    BY <2>0, <2>2 DEF IInv, TypeOK, LedgerTypeOK
  <2>5. Steady
    <3>1. \A d \in Documents : Kept(d)
      BY <2>2, SameJournals DEF documents
    <3> QED BY <2>2, <2>4, <3>1 DEF Steady, documents
  <2>6. DOMAIN task = Clients
    BY DEF IInv, TasksOK
  <2>7. task'[c] = u /\ DOMAIN task' = Clients /\ \A b \in Clients \ {c} : task'[b] = task[b]
    BY <2>2, <2>6
  <2>8. PostOK(c, u)'
    <3>1. PostOK(c, t)'
      <4>1. TaskOK(c, t)'
        BY <1>1, <2>5, TaskRests
      <4> QED BY <1>2, <4>1 DEF TaskOK, PostOps, Idle
    <3>2. ReadOK(t)' => ReadOK(u)'
      BY <2>3 DEF Carries, ReadOK
    <3> QED BY <1>2, <2>3, <2>4, <3>1, <3>2 DEF PostOK, Carries
  <2>9. TasksOK'
    <3>1. TaskOK(c, u)'
      BY <1>2, <2>3, <2>8 DEF TaskOK, Carries
    <3>2. TaskOK(c, task[c])'
      BY <2>7, <3>1
    <3> QED BY <2>5, <2>7, <3>2, TasksRest
  <2>10. CommitsAlone'
    <3>1. \A b \in Clients : task[b].at = "commit" => task[b].cmd # t.cmd
      BY <1>1 DEF PostEntryInsert
    <3>2. u.cmd = t.cmd /\ events' = events
      BY <2>2, <2>3 DEF Carries
    <3>3. CommitsAlone
      BY DEF IInv
    <3> QED BY <1>4, <2>7, <3>1, <3>2, <3>3 DEF CommitsAlone, IsPosted
  <2>11. TypeOK'
    <3>1. \A e \in events' : e.id \in 1..seq'
      <4> SUFFICES ASSUME NEW e \in events PROVE e.id \in 1..seq + 1
        BY <2>2
      <4>1. e.id \in 1..seq
        BY DEF IInv, TypeOK, LedgerTypeOK
      <4> QED BY <2>4, <4>1
    <3>2. \A d \in Documents : doc'[d].entry \in 0..seq'
      <4> SUFFICES ASSUME NEW d \in Documents PROVE doc[d].entry \in 0..seq + 1
        BY <2>2 DEF documents
      <4>1. doc[d].entry \in 0..seq
        BY DEF IInv, TypeOK
      <4> QED BY <2>4, <4>1
    <3>3. cursor' \in 0..seq'
      BY <2>2, <2>4
    <3>4. LedgerTypeOK'
      BY <2>2, <2>4, <3>1, <3>3 DEF IInv, TypeOK, LedgerTypeOK
    <3> QED BY <2>2, <3>2, <3>4 DEF IInv, TypeOK, documents
  <2> QED BY <2>2, <2>9, <2>10, <2>11, BooksRest
<1> QED BY <1>3, <1>4

\* The entry of a request is added to the log.
Appends(c, t, id) ==
  /\ t = task[c] /\ t.at \in {"append", "commit"}
  /\ events' = events \cup {NewEvent(t, id)} /\ Posted(c, id)
  /\ seq' \in Nat /\ seq' >= seq /\ id \in 1..seq'
  /\ dialect = "sqlite" => id > cursor
  /\ ~IsPosted(t.cmd)
  /\ \A b \in Clients \ {c} : task[b].at = "commit" => task[b].cmd # t.cmd
  /\ UNCHANGED <<dialect, open, active, bal, cursor, straddle, left, documents>>

LEMMA AppendsEntry ==
  ASSUME IInv, NEW c \in Clients, NEW t, NEW id, Appends(c, t, id)
  PROVE  IInv'
<1>1. t.op \in PostOps /\ PostOK(c, t)
  BY PostingTask DEF Appends
<1>2. PICK e : e = NewEvent(t, id)
  OBVIOUS
<1>3. e.id = id /\ e.cmd = t.cmd /\ e.period = t.period /\ e.lines = t.lines
  BY <1>2 DEF NewEvent
<1>4. events' = events \cup {e}
  BY <1>2 DEF Appends
<1>5. seq \in Nat /\ cursor \in 0..seq /\ seq' \in Nat /\ seq' >= seq /\ id \in 1..seq'
  BY DEF IInv, TypeOK, LedgerTypeOK, Appends
<1>6. doc' = doc /\ next' = next /\ overtaken' = overtaken /\ rates' = rates
      /\ dialect' = dialect /\ bal' = bal /\ cursor' = cursor
  BY DEF Appends, documents
<1>7. Steady
  <2>1. \A d \in Documents : Kept(d)
    BY <1>6, SameJournals
  <2> QED BY <1>4, <1>5, <1>6, <2>1 DEF Steady, Appends
<1>8. DOMAIN task = Clients
  BY DEF IInv, TasksOK
<1>9. PICK u : task' = [task EXCEPT ![c] = u] /\ u.at # "commit" /\ TaskOK(c, u)'
  <2>1. CASE t.op = "reverse"
    <3>1. task' = [task EXCEPT ![c] = Idle]
      BY <2>1 DEF Appends, Posted, Done, Goto
    <3> QED BY <3>1 DEF TaskOK, Idle
  <2>2. CASE t.op # "reverse"
    <3>1. PICK u : u = [t EXCEPT !.at = "accept", !.id = id]
      OBVIOUS
    <3>2. task' = [task EXCEPT ![c] = u]
      BY <2>2, <3>1 DEF Appends, Posted, Goto
    <3>3. Carries(u, t) /\ u.at = "accept" /\ u.id = id /\ u.num = t.num
      <4>1. DOMAIN t = PostFields
        BY <1>1 DEF PostOK
      <4> QED BY ONLY <3>1, <4>1 DEF Carries, PostFields
    <3>4. PostOK(c, t)'
      <4>1. TaskOK(c, t)'
        BY <1>7, TaskRests DEF Appends
      <4> QED BY <1>1, <4>1 DEF TaskOK, PostOps, Idle
    <3>5. ReadOK(u)'
      BY <2>2, <3>3, <3>4 DEF Carries, ReadOK, PostOK
    <3>6. \E f \in events' : f.cmd = u.cmd /\ f.id = u.id
      BY <1>3, <1>4, <3>3 DEF Carries
    <3>7. PostOK(c, u)'
      BY <1>1, <1>5, <2>2, <3>3, <3>4, <3>5, <3>6 DEF PostOK, Carries
    <3>8. TaskOK(c, u)'
      BY <1>1, <3>3, <3>7 DEF TaskOK, Carries
    <3> QED BY <3>2, <3>3, <3>8
  <2> QED BY <2>1, <2>2
<1>10. task'[c] = u /\ DOMAIN task' = Clients /\ \A b \in Clients \ {c} : task'[b] = task[b]
  BY <1>8, <1>9
<1>11. TasksOK'
  <2>1. TaskOK(c, task[c])'
    BY <1>9, <1>10
  <2> QED BY <1>7, <1>10, <2>1, TasksRest
<1>12. CommitsAlone'
  <2> SUFFICES ASSUME NEW b \in Clients, task'[b].at = "commit"
               PROVE  /\ \A f \in events' : f.cmd # task'[b].cmd
                      /\ \A a \in Clients \ {b} : task'[a].at = "commit" => task'[a].cmd # task'[b].cmd
    BY DEF CommitsAlone, IsPosted
  <2>1. b # c /\ task'[b] = task[b]
    BY <1>9, <1>10
  <2>2. task[b].cmd # t.cmd
    BY <2>1 DEF Appends
  <2>3. CommitsAlone
    BY DEF IInv
  <2> QED BY <1>3, <1>4, <1>9, <1>10, <2>1, <2>2, <2>3 DEF CommitsAlone, IsPosted
<1>13. TypeOK'
  <2>1. \A f \in events' : f.id \in 1..seq' /\ f.period \in Periods /\ f.lines \in Seq(Line)
    <3> SUFFICES ASSUME NEW f \in events'
                 PROVE  f.id \in 1..seq' /\ f.period \in Periods /\ f.lines \in Seq(Line)
      OBVIOUS
    <3>1. CASE f = e
      BY <1>1, <1>3, <1>5, <3>1 DEF PostOK
    <3>2. CASE f \in events
      <4>1. f.id \in 1..seq /\ f.period \in Periods /\ f.lines \in Seq(Line)
        BY <3>2 DEF IInv, TypeOK, LedgerTypeOK
      <4> QED BY <1>5, <4>1
    <3> QED BY <1>4, <3>1, <3>2
  <2>2. \A d \in Documents : doc'[d].entry \in 0..seq'
    <3> SUFFICES ASSUME NEW d \in Documents PROVE doc[d].entry \in 0..seq'
      BY <1>6
    <3>1. doc[d].entry \in 0..seq
      BY DEF IInv, TypeOK
    <3> QED BY <1>5, <3>1
  <2>3. cursor' \in 0..seq'
    BY <1>5, <1>6
  <2>4. LedgerTypeOK'
    BY <1>5, <2>1, <2>3 DEF IInv, TypeOK, LedgerTypeOK, Appends
  <2> QED BY <1>6, <2>2, <2>4 DEF IInv, TypeOK
<1>14. EventsOK'
  <2>1. IsFiniteSet(events')
    BY <1>4, FS_AddElement DEF IInv, EventsOK
  <2>2. \A f \in events' : validateEntry(f.lines)
    BY <1>1, <1>3, <1>4 DEF IInv, EventsOK, PostOK
  <2>3. \A f, g \in events' : f.cmd = g.cmd => f = g
    BY <1>3, <1>4 DEF IInv, EventsOK, Appends, IsPosted
  <2>4. ASSUME NEW f \in events', NEW d \in Documents, f.cmd = Command(d)
        PROVE  /\ doc[d].status # "none"
               /\ d \notin overtaken =>
                    /\ f.lines = Journal(d)
                    /\ d \in Receipts => \A i \in DOMAIN doc[d].content : IsFrozen(i)
    <3>1. CASE f \in events
      BY <2>4, <3>1 DEF IInv, EventsOK
    <3>2. CASE f = e
      <4>1. t.op # "reverse"
        <5>1. t.cmd[1] = Series(d) /\ Series(d) # "reverse"
          BY <1>3, <2>4, <3>2 DEF Command, Series
        <5> QED BY <1>1, <5>1 DEF PostOK
      <4>2. ReadOK(t)
        BY <1>1, <4>1 DEF PostOK
      <4>3. t.doc = d
        BY <1>3, <2>4, <3>2, <4>2 DEF ReadOK, Command
      <4>4. d \in Receipts => t.op = "receipt"
        BY <4>2, <4>3, InvoicingAssumption DEF ReadOK, Series
      <4> QED BY <1>3, <3>2, <4>2, <4>3, <4>4 DEF ReadOK
    <3> QED BY <1>4, <3>1, <3>2
  <2> QED BY <1>6, <2>1, <2>2, <2>3, <2>4, SameJournals DEF EventsOK, IsFrozen, Command, Series
<1>15. DocumentsOK'
  BY <1>4, <1>6, SameJournals DEF IInv, DocumentsOK, IsFrozen, Command, Series
<1>16. (dialect = "sqlite" => \A s \in {"invoice", "receipt"} : Numbered(s))'
  BY <1>6 DEF IInv, Numbered, Numbers, InSeries, IsFrozen, Series, NumberOf
<1>17. NotOverApplied'
  BY <1>6 DEF IInv, NotOverApplied, SumOver, IsFrozen
<1>18. Projected'
  <2>1. ASSUME dialect = "sqlite"
        PROVE  {f \in events' : f.id <= cursor'} = {f \in events : f.id <= cursor}
    <3>1. ~(e.id <= cursor')
      <4>1. id > cursor
        BY <2>1 DEF Appends
      <4> QED BY <1>3, <1>5, <1>6, <4>1
    <3> QED BY <1>4, <1>6, <3>1
  <2> DEFINE es == {f \in events : f.id <= cursor}
             fs == {f \in events' : f.id <= cursor'}
  <2>2. Projected /\ (dialect = "sqlite" => fs = es)
    BY <2>1 DEF IInv
  <2>3. dialect = "sqlite" => bal = Fold(es)
    BY <2>2 DEF Projected
  <2>4. dialect' = "sqlite" => bal' = Fold(fs)
    <3> HIDE DEF es, fs
    <3> QED BY <1>6, <2>2, <2>3
  <2>5. SumFunction(bal') = 0
    BY <1>6, <2>2 DEF Projected
  <2> QED BY <2>4, <2>5 DEF Projected, Fold, SumOver
<1> QED BY <1>11, <1>12, <1>13, <1>14, <1>15, <1>16, <1>17, <1>18 DEF IInv

LEMMA DoesAppendEvent ==
  ASSUME IInv, NEW c \in Clients, AppendEvent(c), UNCHANGED documents
  PROVE  IInv'
<1>1. PICK t : t = task[c]
  OBVIOUS
<1>2. t.at = "append" /\ dialect = "sqlite"
  BY <1>1 DEF AppendEvent
<1>3. CASE IsPosted(t.cmd)
  <2>1. SameBooks /\ Posted(c, Entry(t.cmd).id)
    BY <1>1, <1>3, LeftActive DEF AppendEvent, SameBooks
  <2> QED BY <1>1, <1>2, <1>3, <2>1, PostedBefore
<1>4. CASE ~IsPosted(t.cmd)
  <2>1. PICK id : id = seq + 1
    OBVIOUS
  <2>2. seq \in Nat /\ cursor \in 0..seq
    BY DEF IInv, TypeOK, LedgerTypeOK
  <2>3. seq' = id /\ events' = events \cup {NewEvent(t, id)} /\ Posted(c, id)
        /\ UNCHANGED <<dialect, open, active, bal, cursor, straddle, left, documents>>
    BY <1>1, <1>4, <2>1 DEF AppendEvent
  <2>4. \A b \in Clients : task[b].at # "commit"
    <3> SUFFICES ASSUME NEW b \in Clients, task[b].at = "commit" PROVE FALSE
      OBVIOUS
    <3>1. PICK k : k = task[b]
      OBVIOUS
    <3>2. PostOK(b, k)
      BY <3>1, PostingTask
    <3> QED BY <1>2, <3>1, <3>2 DEF PostOK
  <2>5. Appends(c, t, id)
    BY <1>1, <1>2, <1>4, <2>1, <2>2, <2>3, <2>4 DEF Appends
  <2> QED BY <2>5, AppendsEntry
<1> QED BY <1>3, <1>4

LEMMA DoesPostEntryCommit ==
  ASSUME IInv, NEW c \in Clients, PostEntryCommit(c), UNCHANGED documents
  PROVE  IInv'
<1>1. PICK t : t = task[c]
  OBVIOUS
<1>2. t.at = "commit" /\ PostOK(c, t)
  BY <1>1, PostingTask DEF PostEntryCommit
<1>3. PICK id : id = t.id
  OBVIOUS
<1>4. dialect = "postgres" /\ id \in 1..seq /\ seq \in Nat
  BY <1>2, <1>3 DEF PostOK, IInv, TypeOK, LedgerTypeOK
<1>5. ~IsPosted(t.cmd) /\ \A b \in Clients \ {c} : task[b].at = "commit" => task[b].cmd # t.cmd
  BY <1>1, <1>2 DEF IInv, CommitsAlone
<1>6. /\ events' = events \cup {NewEvent(t, id)} /\ Posted(c, id) /\ seq' = seq
      /\ UNCHANGED <<dialect, open, active, bal, cursor, straddle, left, documents>>
  BY <1>1, <1>3 DEF PostEntryCommit
<1>7. Appends(c, t, id)
  BY <1>1, <1>2, <1>4, <1>5, <1>6 DEF Appends
<1> QED BY <1>7, AppendsEntry
--------------------------------------------------------------------------------
(* The projection. *)

LEMMA LogEntries ==
  ASSUME IInv, NEW es, es \subseteq events
  PROVE  EntriesOK(es)
BY FS_Subset DEF IInv, EventsOK, EntriesOK, TypeOK, LedgerTypeOK

(* The cursor after a catch-up is that of the last entry there is, when all were folded. *)
LEMMA CursorMoves ==
  ASSUME IInv, NEW es, es \subseteq events, CatchUp(es)
  PROVE  /\ cursor' \in 0..seq
         /\ es = After(cursor) => cursor' >= cursor /\ \A e \in events : e.id <= cursor'
<1>1. seq \in Nat /\ cursor \in 0..seq /\ \A e \in events : e.id \in 1..seq
  BY DEF IInv, TypeOK, LedgerTypeOK
<1>2. CASE es = {}
  <2>1. cursor' = cursor
    BY <1>2 DEF CatchUp
  <2> QED BY <1>1, <1>2, <2>1 DEF After
<1>3. CASE es # {}
  <2> DEFINE ids == IdsOf(es)
  <2>1. cursor' = Max(ids)
    BY <1>3 DEF CatchUp
  <2>2. ids \subseteq 1..seq /\ ids # {}
    BY <1>1, <1>3 DEF IdsOf
  <2>3. Max(ids) \in ids /\ \A y \in ids : Max(ids) >= y
    <3> HIDE DEF ids
    <3> QED BY <1>1, <2>2, Largest
  <2>4. \A e \in es : e.id \in ids
    BY DEF IdsOf
  <2> HIDE DEF ids
  <2>5. cursor' \in 1..seq /\ \A e \in es : e.id <= cursor'
    <3> SUFFICES ASSUME NEW e \in es PROVE cursor' \in 1..seq /\ e.id <= cursor'
      BY <1>3
    <3>1. e.id \in 1..seq /\ cursor' \in 1..seq /\ cursor' >= e.id
      BY <1>1, <2>1, <2>2, <2>3, <2>4
    <3> QED BY <1>1, <3>1
  <2>6. ASSUME es = After(cursor) PROVE cursor' >= cursor /\ \A e \in events : e.id <= cursor'
    <3>1. PICK f \in es : TRUE
      BY <1>3
    <3>2. f.id > cursor /\ f.id \in 1..seq
      BY <1>1, <2>6, <3>1 DEF After
    <3>3. cursor' >= cursor
      BY <1>1, <2>5, <3>1, <3>2
    <3>4. ASSUME NEW e \in events PROVE e.id <= cursor'
      <4>1. CASE e \in es
        BY <2>5, <4>1
      <4>2. CASE e \notin es
        <5>1. ~(e.id > cursor)
          BY <2>6, <4>2 DEF After
        <5>2. e.id \in 1..seq
          BY <1>1
        <5> QED BY <1>1, <2>5, <3>3, <5>1, <5>2
      <4> QED BY <4>1, <4>2
    <3> QED BY <3>3, <3>4
  <2> QED BY <1>1, <2>5, <2>6
<1> QED BY <1>2, <1>3

LEMMA ProjectionMoves ==
  ASSUME IInv, NEW es, es \subseteq events, CatchUp(es), UNCHANGED <<dialect, events>>,
         dialect = "sqlite" => es = After(cursor)
  PROVE  bal' \in [Accounts -> Int] /\ Projected'
<1>1. bal \in [Accounts -> Int] /\ Fold(es) \in [Accounts -> Int] /\ IsFiniteSet(Accounts)
  BY LogEntries, FoldType, LedgerAssumption DEF IInv, TypeOK, LedgerTypeOK
<1>2. bal' = [a \in Accounts |-> bal[a] + Fold(es)[a]]
  BY DEF CatchUp
<1>3. bal' \in [Accounts -> Int]
  <2> HIDE DEF Fold
  <2> QED BY <1>1, <1>2
<1>4. SumFunction(bal') = 0
  <2> DEFINE f == Fold(es)
  <2>1. Summable(bal, Accounts) /\ Summable(f, Accounts) /\ \A a \in Accounts : bal'[a] = bal[a] + f[a]
    <3> HIDE DEF Fold
    <3> QED BY <1>1, <1>2 DEF Summable
  <2>2. SumFunctionOnSet(f, Accounts) = 0
    BY LogEntries, FoldBalances
  <2>3. SumFunctionOnSet(bal, Accounts) = 0
    BY <1>1 DEF IInv, Projected, SumFunction
  <2> HIDE DEF f
  <2>4. SumFunctionOnSet(bal', Accounts) = SumFunctionOnSet(bal, Accounts) + SumFunctionOnSet(f, Accounts)
    BY ONLY <2>1, SumPlus
  <2> QED BY <1>3, <2>2, <2>3, <2>4 DEF SumFunction
<1>5. ASSUME dialect = "sqlite" PROVE bal' = Fold({e \in events' : e.id <= cursor'})
  <2> DEFINE old == {e \in events : e.id <= cursor}
             new == {e \in events' : e.id <= cursor'}
  <2>1. new = events
    BY <1>5, CursorMoves
  <2>2. old \cup es = events /\ old \cap es = {}
    <3>1. cursor \in Nat /\ \A e \in events : e.id \in Nat
      BY DEF IInv, TypeOK, LedgerTypeOK
    <3> QED BY <1>5, <3>1 DEF After
  <2>3. EntriesOK(old) /\ EntriesOK(es)
    BY LogEntries
  <2>4. bal = Fold(old)
    BY <1>5 DEF IInv, Projected
  <2> HIDE DEF old, new
  <2>5. Fold(old \cup es) = [a \in Accounts |-> Fold(old)[a] + Fold(es)[a]]
    BY ONLY <2>2, <2>3, FoldUnion
  <2>6. bal' = Fold(events)
    BY <1>2, <2>2, <2>4, <2>5
  <2>7. bal' = Fold(new)
    BY <2>1, <2>6
  <2> QED BY <2>7 DEF new
<1>6. Projected'
  <2>1. dialect' = "sqlite" => bal' = Fold({e \in events' : e.id <= cursor'})
    BY <1>5
  <2> QED BY <1>4, <2>1 DEF Projected, Fold, SumOver
<1> QED BY <1>3, <1>6

(* A report catches up, and goes on to read. *)
LEMMA CatchesUp ==
  ASSUME IInv, NEW c \in Clients, NEW es, es \subseteq events, CatchUp(es),
         dialect = "sqlite" => es = After(cursor), NEW since, since \subseteq events,
         Goto(c, [op |-> "report", at |-> "read", since |-> since]),
         UNCHANGED <<dialect, events, seq, open, active, straddle, documents>>,
         left' \in [Kinds -> Nat]
  PROVE  IInv'
<1> DEFINE u == [op |-> "report", at |-> "read", since |-> since]
<1>1. u.op = "report" /\ u.at = "read" /\ u.since = since /\ task' = [task EXCEPT ![c] = u]
  BY DEF Goto
<1> HIDE DEF u
<1>2. seq \in Nat /\ cursor \in 0..seq /\ cursor' \in 0..seq
  BY CursorMoves DEF IInv, TypeOK, LedgerTypeOK
<1>3. dialect = "sqlite" => cursor' >= cursor /\ \A e \in events : e.id <= cursor'
  BY CursorMoves
<1>4. bal' \in [Accounts -> Int] /\ Projected'
  BY ProjectionMoves
<1>5. Steady
  <2>1. \A d \in Documents : Kept(d)
    BY SameJournals DEF documents
  <2> QED BY <1>2, <1>3, <2>1 DEF Steady, documents
<1>6. DOMAIN task = Clients
  BY DEF IInv, TasksOK
<1>7. task'[c] = u /\ DOMAIN task' = Clients /\ \A b \in Clients \ {c} : task'[b] = task[b]
  BY <1>1, <1>6
<1>8. TaskOK(c, u)'
  BY <1>1, <1>3 DEF TaskOK, ReportOK
<1>9. TasksOK'
  <2>1. TaskOK(c, task[c])'
    BY <1>7, <1>8
  <2> QED BY <1>5, <1>7, <2>1, TasksRest
<1>10. CommitsAlone'
  BY <1>1, <1>7 DEF IInv, CommitsAlone, IsPosted
<1>11. TypeOK'
  BY <1>2, <1>4 DEF IInv, TypeOK, LedgerTypeOK, documents
<1> QED BY <1>4, <1>9, <1>10, <1>11, RecordsRest DEF IInv

LEMMA DoesEnsureBalances ==
  ASSUME IInv, NEW c \in Clients, EnsureBalances(c), UNCHANGED documents
  PROVE  IInv'
<1>1. left' \in [Kinds -> Nat]
  BY SpendType DEF EnsureBalances, Kinds
<1>2. PICK es : es = After(cursor)
  OBVIOUS
<1>3. PICK since : since = events
  OBVIOUS
<1>4. es \subseteq events /\ since \subseteq events
  BY <1>2, <1>3 DEF After
<1>5. CASE dialect = "sqlite"
  <2>1. /\ CatchUp(es) /\ Goto(c, [op |-> "report", at |-> "read", since |-> since])
        /\ UNCHANGED <<dialect, events, seq, open, active, straddle>>
    BY <1>2, <1>3, <1>5 DEF EnsureBalances
  <2> QED BY <1>1, <1>2, <1>4, <2>1, CatchesUp
<1>6. CASE dialect # "sqlite"
  <2>1. PICK from : from = cursor
    OBVIOUS
  <2> DEFINE u == [op |-> "report", at |-> "fold", since |-> since, from |-> from, new |-> es]
  <2>2. task' = [task EXCEPT ![c] = u]
    BY <1>2, <1>3, <1>6, <2>1 DEF EnsureBalances, Goto
  <2>3. SameBooks
    BY <1>1, <1>6, LeftActive DEF EnsureBalances, SameBooks
  <2>4. dialect = "postgres"
    BY <1>6, LedgerAssumption DEF IInv, TypeOK, LedgerTypeOK
  <2>5. TaskOK(c, u) /\ u.at # "commit"
    BY <1>4, <2>4 DEF TaskOK, ReportOK
  <2> HIDE DEF u
  <2> QED BY <2>2, <2>3, <2>5, QuietStep
<1> QED BY <1>5, <1>6

LEMMA DoesEnsureBalancesWrite ==
  ASSUME IInv, NEW c \in Clients, EnsureBalancesWrite(c), UNCHANGED documents
  PROVE  IInv'
<1>1. PICK t : t = task[c]
  OBVIOUS
<1>2. dialect = "postgres" /\ t.new \subseteq events /\ t.since \subseteq events
  <2>1. TaskOK(c, t) /\ t.at = "fold"
    BY <1>1 DEF IInv, TasksOK, EnsureBalancesWrite
  <2> QED BY <2>1 DEF TaskOK, Idle, PostOK, ReportOK
<1>3. CASE CatchUp(t.new) /\ Goto(c, [op |-> "report", at |-> "read", since |-> t.since])
  <2>1. PICK es : es = t.new
    OBVIOUS
  <2>2. PICK since : since = t.since
    OBVIOUS
  <2>3. /\ CatchUp(es) /\ Goto(c, [op |-> "report", at |-> "read", since |-> since])
        /\ es \subseteq events /\ since \subseteq events /\ dialect # "sqlite"
    BY <1>2, <1>3, <2>1, <2>2
  <2>4. UNCHANGED <<dialect, events, seq, open, active, straddle>> /\ left' \in [Kinds -> Nat]
    BY LeftActive DEF EnsureBalancesWrite
  <2> QED BY <2>3, <2>4, CatchesUp
<1>4. CASE Done(c) /\ UNCHANGED <<bal, cursor>>
  <2>1. SameBooks
    BY <1>4, LeftActive DEF EnsureBalancesWrite, SameBooks
  <2> QED BY <1>4, <2>1, DoneStep
<1> QED BY <1>1, <1>3, <1>4 DEF EnsureBalancesWrite
--------------------------------------------------------------------------------
(* Drafts that are written. *)

(* The invoices are posted that a receipt settles while it is being posted. *)
LEMMA SettlesPosted ==
  ASSUME IInv, NEW x \in Receipts, BeingPosted(x), x \notin overtaken
  PROVE  /\ doc[x].content \in Contents[x] /\ DOMAIN doc[x].content \subseteq Invoices
         /\ \A i \in DOMAIN doc[x].content : IsFrozen(i)
<1>1. x \in Documents /\ Series(x) = "receipt"
  BY InvoicingAssumption DEF Documents, Series
<1>2. CASE IsPosted(Command(x))
  <2>1. PICK e \in events : e.cmd = Command(x)
    BY <1>2 DEF IsPosted
  <2>2. doc[x].status # "none" /\ \A i \in DOMAIN doc[x].content : IsFrozen(i)
    BY <1>1, <2>1 DEF IInv, EventsOK
  <2>3. doc[x].content \in Contents[x]
    BY <1>1, <2>2 DEF IInv, TypeOK
  <2> QED BY <2>2, <2>3, ReceiptAmounts
<1>3. CASE \E c \in Clients : task[c].op = Series(x) /\ task[c].doc = x
  <2>1. PICK c \in Clients : task[c].op = Series(x) /\ task[c].doc = x
    BY <1>3
  <2>2. PICK t : t = task[c]
    OBVIOUS
  <2>3. TaskOK(c, t) /\ t.op = "receipt" /\ t.doc = x
    BY <1>1, <2>1, <2>2 DEF IInv, TasksOK
  <2>4. ReadOK(t)
    BY <2>3 DEF TaskOK, Idle, PostOK
  <2>5. t.content = doc[x].content /\ t.content \in Contents[x] /\ \A i \in DOMAIN t.content : IsFrozen(i)
    BY <2>3, <2>4 DEF ReadOK
  <2> QED BY <2>5, ReceiptAmounts
<1> QED BY <1>2, <1>3 DEF BeingPosted

(* A step that keeps the content of a document, and of those that are posted, keeps its
   journal. *)
LEMMA Keeps ==
  ASSUME IInv, NEW x \in Documents, BeingPosted(x), x \notin overtaken,
         doc'[x].content = doc[x].content, DocTax(x)' = DocTax(x),
         \A i \in Documents : IsFrozen(i) => doc'[i].content = doc[i].content
  PROVE  Kept(x)
<1>1. CASE x \in Invoices
  BY <1>1 DEF Kept, Journal, DocTotal
<1>2. CASE x \notin Invoices
  <2> DEFINE v == doc[x].content
  <2>1. x \in Receipts
    BY <1>2 DEF Documents
  <2>2. DOMAIN v \subseteq Invoices /\ \A i \in DOMAIN v : IsFrozen(i)
    BY <2>1, SettlesPosted
  <2>3. \A i \in DOMAIN v : doc'[i].content = doc[i].content
    BY <2>2 DEF Documents
  <2>4. [i \in DOMAIN v |-> doc'[i].content.ar] = [i \in DOMAIN v |-> doc[i].content.ar]
    BY <2>3
  <2> QED BY <1>2, <2>4 DEF Kept, Journal, Receivables, DocTotal, DocTax, Tax, IsFrozen
<1> QED BY <1>1, <1>2

(* The log is about documents that have not changed behind its back. *)
LEMMA EventsRest ==
  ASSUME IInv, Steady, events' = events
  PROVE  EventsOK'
<1>1. ASSUME NEW e \in events, NEW d \in Documents, e.cmd = Command(d)
      PROVE  /\ doc'[d].status # "none"
             /\ d \notin overtaken' =>
                  /\ e.lines = Journal(d)'
                  /\ d \in Receipts => \A i \in DOMAIN doc'[d].content : doc'[i].status = "posted"
  <2>1. BeingPosted(d) /\ doc[d].status # "none"
    BY <1>1 DEF IInv, EventsOK, BeingPosted, IsPosted
  <2>2. doc'[d].status # "none"
    BY <2>1 DEF Steady
  <2>3. ASSUME d \notin overtaken' PROVE d \notin overtaken /\ Kept(d) /\ e.lines = Journal(d)
    BY <1>1, <2>1, <2>3 DEF Steady, IInv, EventsOK
  <2>4. ASSUME d \notin overtaken', d \in Receipts, NEW i \in DOMAIN doc'[d].content
        PROVE  doc'[i].status = "posted"
    <3>1. i \in DOMAIN doc[d].content
      BY <2>3, <2>4 DEF Kept
    <3>2. i \in Documents /\ IsFrozen(i)
      BY <2>1, <2>3, <2>4, <3>1, SettlesPosted DEF Documents
    <3> QED BY <3>2 DEF Steady, IsFrozen
  <2> QED BY <2>2, <2>3, <2>4 DEF Kept
<1>2. /\ IsFiniteSet(events) /\ \A e \in events : validateEntry(e.lines)
      /\ \A e, f \in events : e.cmd = f.cmd => e = f
  BY DEF IInv, EventsOK
<1> QED BY <1>1, <1>2 DEF EventsOK, IsFrozen, Command, Series

(* Drafts do not count among the numbered and the settled. *)
LEMMA DraftsDoNotCount ==
  ASSUME IInv, dialect' = dialect, next' = next,
         NEW d \in Documents, ~IsFrozen(d), doc'[d].status # "posted",
         \A x \in Documents \ {d} : doc'[x] = doc[x],
         overtaken \subseteq overtaken', overtaken' \subseteq overtaken \cup {d}
  PROVE  /\ (dialect = "sqlite" => \A s \in {"invoice", "receipt"} : Numbered(s))'
         /\ NotOverApplied'
<1>1. \A x \in Documents : (doc'[x].status = "posted" <=> doc[x].status = "posted")
                           /\ (doc[x].status = "posted" => doc'[x] = doc[x])
  BY DEF IsFrozen
<1>2. ASSUME NEW s \in {"invoice", "receipt"} PROVE InSeries(s)' = InSeries(s) /\ Numbers(s)' = Numbers(s)
  <2>1. InSeries(s)' = InSeries(s)
    BY <1>1 DEF InSeries, IsFrozen, Series
  <2>2. {x \in Documents : Series(x) = s /\ IsFrozen(x)}' = {x \in Documents : Series(x) = s /\ IsFrozen(x)}
    BY <1>1 DEF IsFrozen, Series
  <2>3. \A x \in {x \in Documents : Series(x) = s /\ IsFrozen(x)} : doc'[x].num = doc[x].num
    BY <1>1 DEF IsFrozen
  <2>4. Numbers(s)' = {doc'[x].num : x \in {x \in Documents : Series(x) = s /\ IsFrozen(x)}'}
    BY DEF Numbers
  <2>5. Numbers(s)' = Numbers(s)
    BY <2>2, <2>3, <2>4 DEF Numbers
  <2> QED BY <2>1, <2>5
<1>3. (dialect = "sqlite" => \A s \in {"invoice", "receipt"} : Numbered(s))'
  BY <1>2 DEF IInv, Numbered, NumberOf
<1>4. NotOverApplied'
  <2> SUFFICES ASSUME dialect = "sqlite", NEW i \in Invoices, doc'[i].status = "posted"
               PROVE  SumFunction([x \in {x \in Receipts \ overtaken' : doc'[x].status = "posted"
                                                        /\ i \in DOMAIN doc'[x].content}
                                   |-> doc'[x].content[i]]) <= doc'[i].total
    BY DEF NotOverApplied, SumOver, IsFrozen
  <2> DEFINE S == {x \in Receipts \ overtaken : doc[x].status = "posted" /\ i \in DOMAIN doc[x].content}
             T == {x \in Receipts \ overtaken' : doc'[x].status = "posted" /\ i \in DOMAIN doc'[x].content}
  <2>1. S = T /\ \A x \in S : doc'[x].content[i] = doc[x].content[i]
    BY <1>1 DEF IsFrozen, Documents
  <2>2. [x \in S |-> doc[x].content[i]] = [x \in T |-> doc'[x].content[i]]
    <3> HIDE DEF S, T
    <3> QED BY <2>1
  <2>3. doc'[i].total = doc[i].total /\ doc[i].status = "posted"
    BY <1>1 DEF Documents
  <2>4. SumFunction([x \in S |-> doc[x].content[i]]) <= doc[i].total
    BY <2>3 DEF IInv, NotOverApplied, SumOver, IsFrozen
  <2> QED BY <2>2, <2>3, <2>4
<1> QED BY <1>3, <1>4

RowFields == {"status", "content", "num", "tax", "total", "entry"}

(* A draft is stored. One that is being posted is marked. *)
LEMMA StoresDraft ==
  ASSUME IInv, NEW d \in Documents, ~IsFrozen(d), NEW row, doc' = [doc EXCEPT ![d] = row],
         DOMAIN row = RowFields, row.status = "draft", row.content \in Contents[d],
         row.num \in Nat, row.tax \in Nat, row.total \in Nat, row.entry \in 0..seq,
         overtaken \subseteq overtaken', overtaken' \subseteq overtaken \cup {d},
         BeingPosted(d) => d \in overtaken',
         next' = next, rates' = rates, UNCHANGED <<dialect, ledger>>, left' \in [Kinds -> Nat],
         DOMAIN task' = Clients, \A b \in Clients : task'[b] = task[b] \/ task'[b] = Idle
  PROVE  IInv'
<1>1. DOMAIN doc = Documents
  BY DEF IInv, DocumentsOK
<1>2. DOMAIN doc' = Documents /\ doc'[d] = row /\ \A x \in Documents \ {d} : doc'[x] = doc[x]
  BY <1>1
<1>3. UNCHANGED <<events, seq, open, active, bal, cursor, straddle>>
  BY DEF ledger
<1>4. seq \in Nat /\ cursor \in Nat
  BY DEF IInv, TypeOK, LedgerTypeOK
<1>5. ASSUME NEW x \in Documents, BeingPosted(x), x \notin overtaken' PROVE Kept(x)
  <2>1. x # d /\ x \notin overtaken
    BY <1>5
  <2>2. \A i \in Documents : IsFrozen(i) => doc'[i].content = doc[i].content
    BY <1>2
  <2>3. DocTax(x)' = DocTax(x)
    BY <1>2, <2>1, SameTax
  <2> QED BY <1>2, <1>5, <2>1, <2>2, <2>3, Keeps
<1>6. Steady
  <2>1. \A x \in Documents : /\ doc[x].status # "none" => doc'[x].status # "none"
                             /\ doc[x].status = "posted" => doc'[x].status = "posted"
    BY <1>2 DEF IsFrozen
  <2> QED BY <1>3, <1>4, <1>5, <2>1 DEF Steady
<1>7. TasksOK'
  <2>1. ASSUME NEW b \in Clients, task'[b] = Idle PROVE TaskOK(b, task[b])'
    BY <2>1 DEF TaskOK, Idle
  <2> QED BY <1>6, <2>1, TasksRest
<1>8. CommitsAlone'
  BY <1>3 DEF IInv, CommitsAlone, IsPosted, Idle
<1>9. EventsOK'
  BY <1>3, <1>6, EventsRest
<1>10. TypeOK'
  <2>1. LedgerTypeOK'
    BY <1>3 DEF IInv, TypeOK, LedgerTypeOK
  <2>2. ASSUME NEW x \in Documents
        PROVE  /\ doc'[x].status \in {"none", "draft", "posted"}
               /\ doc'[x].status # "none" => doc'[x].content \in Contents[x]
               /\ doc'[x].num \in Nat /\ doc'[x].entry \in 0..seq'
               /\ doc'[x].tax \in Nat /\ doc'[x].total \in Nat
    BY <1>2, <1>3 DEF IInv, TypeOK
  <2>3. overtaken' \subseteq Documents /\ rates' \in Rates /\ next' \in [{"invoice", "receipt"} -> Nat]
    BY DEF IInv, TypeOK
  <2> QED BY <2>1, <2>2, <2>3 DEF TypeOK
<1>11. DocumentsOK'
  <2>1. ASSUME NEW x \in Documents
        PROVE  /\ DOMAIN doc'[x] = RowFields
               /\ doc'[x].status = "posted" =>
                    /\ \E e \in events' : e.cmd = Command(x) /\ e.id = doc'[x].entry
                    /\ x \notin overtaken' => doc'[x].total = DocTotal(x)'
    <3>1. CASE x = d
      BY <1>2, <3>1
    <3>2. CASE x # d
      <4>1. doc'[x] = doc[x]
        BY <1>2, <3>2
      <4>2. DOMAIN doc[x] = RowFields
        BY DEF IInv, DocumentsOK, RowFields
      <4>3. ASSUME doc[x].status = "posted"
            PROVE  /\ \E e \in events : e.cmd = Command(x) /\ e.id = doc[x].entry
                   /\ x \notin overtaken => doc[x].total = DocTotal(x)
        BY <4>3 DEF IInv, DocumentsOK, IsFrozen
      <4>4. ASSUME doc[x].status = "posted", x \notin overtaken' PROVE doc'[x].total = DocTotal(x)'
        <5>1. BeingPosted(x)
          BY <4>3, <4>4 DEF BeingPosted, IsPosted
        <5> QED BY <1>5, <4>1, <4>3, <4>4, <5>1 DEF Kept
      <4> QED BY <1>3, <4>1, <4>2, <4>3, <4>4
    <3> QED BY <3>1, <3>2
  <2> QED BY <1>2, <2>1 DEF DocumentsOK, IsFrozen, Command, Series, RowFields
<1>12. /\ (dialect = "sqlite" => \A s \in {"invoice", "receipt"} : Numbered(s))'
       /\ NotOverApplied'
  BY <1>2, DraftsDoNotCount
<1>13. Projected'
  BY <1>3 DEF IInv, Projected, Fold, SumOver
<1> QED BY <1>7, <1>8, <1>9, <1>10, <1>11, <1>12, <1>13 DEF IInv

(* A document that has no row is not being posted. *)
LEMMA NoneIsNotPosted ==
  ASSUME IInv, NEW d \in Documents, doc[d].status = "none"
  PROVE  ~BeingPosted(d)
<1>1. ~IsPosted(Command(d))
  BY DEF IInv, EventsOK, IsPosted
<1>2. ASSUME NEW c \in Clients, task[c].op = Series(d), task[c].doc = d PROVE FALSE
  <2>1. PICK t : t = task[c]
    OBVIOUS
  <2>2. TaskOK(c, t) /\ t.op \in {"invoice", "receipt"} /\ t.doc = d
    BY <1>2, <2>1 DEF IInv, TasksOK, Series
  <2>3. ReadOK(t)
    BY <2>2 DEF TaskOK, Idle, PostOK
  <2> QED BY <2>2, <2>3 DEF ReadOK
<1> QED BY <1>1, <1>2 DEF BeingPosted

LEMMA DoesCreateDraft ==
  ASSUME IInv, CreateDraft \/ CreateReceiptDraft
  PROVE  IInv'
<1>1. left' \in [Kinds -> Nat]
  BY SpendType DEF CreateDraft, CreateReceiptDraft, Kinds
<1>2. PICK d \in Documents : NewDraft(d)
  BY DEF CreateDraft, CreateReceiptDraft, Documents
<1>3. PICK content \in Contents[d] :
        /\ doc[d].status = "none"
        /\ doc' = [doc EXCEPT ![d] = [status |-> "draft", content |-> content, num |-> 0,
                                      tax |-> 0, total |-> 0, entry |-> 0]]
  BY <1>2 DEF NewDraft
<1> DEFINE row == [status |-> "draft", content |-> content, num |-> 0,
                   tax |-> 0, total |-> 0, entry |-> 0]
<1>4. /\ DOMAIN row = RowFields /\ row.status = "draft" /\ row.content \in Contents[d]
      /\ row.num \in Nat /\ row.tax \in Nat /\ row.total \in Nat /\ row.entry = 0 /\ doc' = [doc EXCEPT ![d] = row]
  BY <1>3 DEF RowFields
<1> HIDE DEF row
<1>5. row.entry \in 0..seq
  BY <1>4 DEF IInv, TypeOK, LedgerTypeOK
<1>6. ~IsFrozen(d) /\ ~BeingPosted(d)
  BY <1>3, NoneIsNotPosted DEF IsFrozen
<1>7. /\ UNCHANGED <<dialect, ledger>> /\ next' = next /\ rates' = rates /\ overtaken' = overtaken
      /\ DOMAIN task' = Clients /\ \A b \in Clients : task'[b] = task[b]
  BY DEF CreateDraft, CreateReceiptDraft, IInv, TasksOK
<1> QED BY <1>1, <1>4, <1>5, <1>6, <1>7, StoresDraft

LEMMA DoesUpdateDraftWrite ==
  ASSUME IInv, NEW c \in Clients, UpdateDraftWrite(c)
  PROVE  IInv'
<1>1. PICK t : t = task[c]
  OBVIOUS
<1>2. t.doc \in Documents /\ t.content \in Contents[t.doc]
  <2>1. TaskOK(c, t) /\ t.at = "write"
    BY <1>1 DEF IInv, TasksOK, UpdateDraftWrite
  <2> QED BY <2>1 DEF TaskOK, Idle, PostOK, ReportOK
<1>3. UNCHANGED <<dialect, ledger, left, next, rates>> /\ task' = [task EXCEPT ![c] = Idle]
  BY DEF UpdateDraftWrite, Done, Goto
<1>4. CASE IsDraft(t.doc)
  <2>1. PICK row : row = [doc[t.doc] EXCEPT !.content = t.content]
    OBVIOUS
  <2>2. /\ doc' = [doc EXCEPT ![t.doc] = row]
        /\ overtaken' = IF BeingPosted(t.doc) THEN overtaken \cup {t.doc} ELSE overtaken
    BY <1>1, <1>4, <2>1 DEF UpdateDraftWrite
  <2>3. DOMAIN doc[t.doc] = RowFields
    BY <1>2 DEF IInv, DocumentsOK, RowFields
  <2>4. /\ DOMAIN row = RowFields /\ row.content = t.content /\ row.status = doc[t.doc].status
        /\ row.num = doc[t.doc].num /\ row.tax = doc[t.doc].tax /\ row.total = doc[t.doc].total /\ row.entry = doc[t.doc].entry
    BY <2>1, <2>3 DEF RowFields
  <2>5. /\ row.status = "draft" /\ row.content \in Contents[t.doc] /\ row.num \in Nat
        /\ row.tax \in Nat /\ row.total \in Nat /\ row.entry \in 0..seq
    BY <1>2, <1>4, <2>4 DEF IInv, TypeOK, IsDraft
  <2>6. ~IsFrozen(t.doc)
    BY <1>4 DEF IsFrozen, IsDraft
  <2>7. DOMAIN task' = Clients /\ \A b \in Clients : task'[b] = task[b] \/ task'[b] = Idle
    BY <1>3 DEF IInv, TasksOK
  <2>8. left' \in [Kinds -> Nat] /\ next' = next /\ rates' = rates /\ UNCHANGED <<dialect, ledger>>
    BY <1>3, LeftActive
  <2>9. /\ overtaken \subseteq overtaken' /\ overtaken' \subseteq overtaken \cup {t.doc}
        /\ BeingPosted(t.doc) => t.doc \in overtaken'
    BY <2>2
  <2>10. PICK d \in Documents : d = t.doc
    BY <1>2
  <2> QED BY <2>2, <2>4, <2>5, <2>6, <2>7, <2>8, <2>9, <2>10, StoresDraft
<1>5. CASE ~IsDraft(t.doc)
  <2>1. SameBooks /\ Done(c)
    BY <1>1, <1>3, <1>5, LeftActive DEF UpdateDraftWrite, SameBooks, ledger, documents
  <2> QED BY <2>1, DoneStep
<1> QED BY <1>4, <1>5
--------------------------------------------------------------------------------
(* A document is accepted. *)

\* The draft of task t becomes posted, with number n.
Freezes(c, t, n) ==
  /\ t = task[c] /\ t.at \in {"accept", "freeze"} /\ IsDraft(t.doc) /\ n \in Nat
  /\ Freeze(t, n) /\ next' = [next EXCEPT ![t.op] = NumberOf(@) + 1]
  /\ dialect = "sqlite" => n = NumberOf(next[t.op]) /\ MayAccept(t)
  /\ Done(c) /\ UNCHANGED <<dialect, ledger, left, rates, overtaken>>

(* What is known of the document and of the request, and what happens to its row. *)
LEMMA FreezesOne ==
  ASSUME IInv, NEW c \in Clients, NEW t, NEW n, Freezes(c, t, n)
  PROVE  /\ t.op \in {"invoice", "receipt"} /\ PostOK(c, t) /\ ReadOK(t)
         /\ DOMAIN doc' = Documents /\ \A x \in Documents \ {t.doc} : doc'[x] = doc[x]
         /\ DOMAIN doc'[t.doc] = RowFields /\ doc'[t.doc].status = "posted"
         /\ doc'[t.doc].content = doc[t.doc].content /\ doc'[t.doc].num = n
         /\ doc'[t.doc].tax = t.tax /\ doc'[t.doc].total = t.total /\ doc'[t.doc].entry = t.id
<1>1. t.op \in PostOps /\ PostOK(c, t)
  BY PostingTask DEF Freezes
<1>2. t.op \in {"invoice", "receipt"} /\ ReadOK(t)
  BY <1>1 DEF PostOps, PostOK, Freezes
<1>3. t.doc \in Documents /\ DOMAIN doc = Documents
  BY <1>2 DEF ReadOK, IInv, DocumentsOK
<1>4. PICK row : row = [status |-> "posted", content |-> doc[t.doc].content, num |-> n,
                        tax |-> t.tax, total |-> t.total, entry |-> t.id]
  OBVIOUS
<1>5. doc' = [doc EXCEPT ![t.doc] = row]
  BY <1>3, <1>4 DEF Freezes, Freeze
<1>6. /\ DOMAIN row = RowFields /\ row.status = "posted" /\ row.content = doc[t.doc].content
      /\ row.num = n /\ row.tax = t.tax /\ row.total = t.total /\ row.entry = t.id
  BY <1>4 DEF RowFields
<1>7. DOMAIN doc' = Documents /\ doc'[t.doc] = row /\ \A x \in Documents \ {t.doc} : doc'[x] = doc[x]
  BY <1>3, <1>5
<1> QED BY <1>1, <1>2, <1>6, <1>7

(* It gets the number after the last one of its series. *)
LEMMA FreezesNumbered ==
  ASSUME IInv, NEW c \in Clients, NEW t, NEW n, Freezes(c, t, n), dialect = "sqlite",
         NEW s \in {"invoice", "receipt"}
  PROVE  Numbered(s)'
<1>1. /\ t.op \in {"invoice", "receipt"} /\ ReadOK(t)
      /\ \A x \in Documents \ {t.doc} : doc'[x] = doc[x]
      /\ doc'[t.doc].status = "posted" /\ doc'[t.doc].num = n
  BY FreezesOne
<1>2. t.doc \in Documents /\ t.op = Series(t.doc) /\ doc[t.doc].status # "posted"
  BY <1>1 DEF ReadOK, Freezes, IsDraft
<1>3. n = NumberOf(next[t.op]) /\ next' = [next EXCEPT ![t.op] = NumberOf(@) + 1]
  BY DEF Freezes
<1>4. next \in [{"invoice", "receipt"} -> Nat]
  BY DEF IInv, TypeOK
<1>5. Numbered(s)
  BY DEF IInv
<1> DEFINE S == InSeries(s)
           F == {x \in Documents : Series(x) = s /\ doc[x].status = "posted"}
           G == {x \in Documents : Series(x) = s /\ doc'[x].status = "posted"}
<1>6. /\ Numbers(s) = {doc[x].num : x \in F} /\ InSeries(s) = F
      /\ Numbers(s)' = {doc'[x].num : x \in G} /\ InSeries(s)' = G
  BY DEF Numbers, InSeries, IsFrozen, Series
<1>7. IsFiniteSet(F) /\ Cardinality(F) \in Nat
  <2>1. IsFiniteSet(Documents) /\ F \subseteq Documents
    BY InvoicingAssumption, FS_Union DEF Documents
  <2>2. IsFiniteSet(F)
    BY <2>1, FS_Subset
  <2> QED BY <2>2, FS_CardinalityType
<1>8. CASE s = t.op
  <2>1. G = F \cup {t.doc} /\ t.doc \notin F
    BY <1>1, <1>2, <1>8
  <2>2. Cardinality(G) = Cardinality(F) + 1
    <3> HIDE DEF F, G
    <3> QED BY <1>7, <2>1, FS_AddElement
  <2>3. \A x \in F : doc'[x].num = doc[x].num
    BY <1>1, <1>2
  <2>4. {doc'[x].num : x \in G} = {doc[x].num : x \in F} \cup {n}
    <3> HIDE DEF F, G
    <3> QED BY <1>1, <2>1, <2>3
  <2>5. n = Cardinality(F) + 1 /\ {doc[x].num : x \in F} = 1..Cardinality(F)
    BY <1>3, <1>5, <1>6, <1>8 DEF Numbered
  <2>6. next'[s] = n + 1
    BY <1>3, <1>4, <1>8
  <2> HIDE DEF F, G
  <2>7. Numbers(s)' = 1..Cardinality(G)
    BY <1>6, <1>7, <2>2, <2>4, <2>5
  <2>8. n + 1 # 0 /\ n + 1 = Cardinality(G) + 1
    BY <1>7, <2>2, <2>5
  <2> QED BY <1>6, <2>6, <2>7, <2>8 DEF Numbered, NumberOf
<1>9. CASE s # t.op
  <2>1. G = F /\ \A x \in F : doc'[x].num = doc[x].num
    BY <1>1, <1>2, <1>9
  <2>2. {doc'[x].num : x \in G} = {doc[x].num : x \in F}
    <3> HIDE DEF F, G
    <3> QED BY <2>1
  <2>3. next'[s] = next[s]
    BY <1>1, <1>3, <1>4, <1>9
  <2> HIDE DEF F, G
  <2> QED BY <1>5, <1>6, <2>1, <2>2, <2>3 DEF Numbered, NumberOf
<1> QED BY <1>8, <1>9

\* The receipts not edited while they were posted that settle invoice i, and what they apply.
Settling(i) == {x \in Receipts \ overtaken : doc[x].status = "posted" /\ i \in DOMAIN doc[x].content}
Applied(i) == [x \in Settling(i) |-> doc[x].content[i]]

LEMMA AppliedType ==
  ASSUME IInv, NEW i, NEW S, S \subseteq {x \in Receipts : doc[x].status = "posted" /\ i \in DOMAIN doc[x].content}
  PROVE  IsFiniteSet(S) /\ \A x \in S : doc[x].content[i] \in Nat
<1>1. IsFiniteSet(S)
  BY InvoicingAssumption, FS_Subset
<1>2. ASSUME NEW x \in S PROVE doc[x].content[i] \in Nat
  <2>1. x \in Receipts /\ x \in Documents /\ doc[x].status # "none" /\ i \in DOMAIN doc[x].content
    BY DEF Documents
  <2>2. doc[x].content \in Contents[x]
    BY <2>1 DEF IInv, TypeOK
  <2> QED BY <2>1, <2>2, ReceiptAmounts
<1> QED BY <1>1, <1>2

(* No invoice is settled beyond its gross by it. *)
LEMMA FreezesWithin ==
  ASSUME IInv, NEW c \in Clients, NEW t, NEW n, Freezes(c, t, n)
  PROVE  NotOverApplied'
<1>1. /\ t.op \in {"invoice", "receipt"} /\ ReadOK(t)
      /\ \A x \in Documents \ {t.doc} : doc'[x] = doc[x]
      /\ doc'[t.doc].status = "posted" /\ doc'[t.doc].content = doc[t.doc].content
      /\ doc'[t.doc].total = t.total /\ t.total \in Nat
  BY FreezesOne DEF PostOK
<1>2. /\ t.doc \in Documents /\ t.op = Series(t.doc) /\ doc[t.doc].status = "draft"
      /\ overtaken' = overtaken /\ dialect' = dialect
  BY <1>1 DEF ReadOK, Freezes, IsDraft
<1> SUFFICES ASSUME dialect = "sqlite", NEW i \in Invoices, doc'[i].status = "posted"
             PROVE  SumFunctionOnSet(Applied(i)', Settling(i)') <= doc'[i].total
  BY <1>2 DEF NotOverApplied, SumOver, SumFunction, IsFrozen, Settling, Applied
<1>3. i \in Documents
  BY DEF Documents
<1>4. CASE i = t.doc
  <2>1. ASSUME NEW x \in Settling(i)' PROVE FALSE
    <3>1. x \in Receipts /\ x \in Documents /\ x # t.doc /\ x \notin overtaken
      BY <1>2, <1>4, InvoicingAssumption DEF Settling, Documents
    <3>2. doc'[x] = doc[x] /\ doc[x].status = "posted" /\ i \in DOMAIN doc[x].content
      BY <1>1, <2>1, <3>1 DEF Settling
    <3>3. BeingPosted(x)
      BY <3>1, <3>2 DEF IInv, DocumentsOK, IsFrozen, BeingPosted, IsPosted
    <3>4. IsFrozen(i)
      BY <3>1, <3>2, <3>3, SettlesPosted
    <3> QED BY <1>2, <1>4, <3>4 DEF IsFrozen
  <2>2. Settling(i)' = {}
    BY <2>1
  <2>3. SumFunctionOnSet(Applied(i)', {}) = 0
    BY SumEmpty
  <2> QED BY <1>1, <1>4, <2>2, <2>3
<1>5. CASE i # t.doc
  <2> DEFINE S == Settling(i)
             T == Settling(i)'
             f == Applied(i)
             g == Applied(i)'
  <2>1. doc'[i] = doc[i] /\ doc[i].status = "posted" /\ doc[i].total \in Nat
    BY <1>1, <1>3, <1>5 DEF IInv, TypeOK
  <2>2. SumFunctionOnSet(f, S) <= doc[i].total
    BY <2>1 DEF IInv, NotOverApplied, SumOver, SumFunction, IsFrozen, Settling, Applied
  <2>3. IsFiniteSet(S) /\ \A x \in S : f[x] \in Nat
    <3>1. S \subseteq {x \in Receipts : doc[x].status = "posted" /\ i \in DOMAIN doc[x].content}
      BY DEF Settling
    <3> QED BY <3>1, AppliedType DEF Applied
  <2>4. \A x \in S : x \in T /\ g[x] = f[x]
    <3> SUFFICES ASSUME NEW x \in S PROVE x \in T /\ g[x] = f[x]
      OBVIOUS
    <3>1. x \in Documents /\ doc[x].status = "posted" /\ x # t.doc
      BY <1>2 DEF Settling, Documents
    <3>2. doc'[x] = doc[x]
      BY <1>1, <3>1
    <3> QED BY <1>2, <3>2 DEF Settling, Applied
  <2>5. T \subseteq S \cup {t.doc}
    BY <1>1, <1>2 DEF Settling, Documents
  <2>6. CASE t.doc \notin T
    <3>1. T = S
      BY <2>4, <2>5, <2>6
    <3>2. Summable(f, S) /\ \A x \in S : f[x] = g[x]
      BY <2>3, <2>4 DEF Summable
    <3> HIDE DEF S, T, f, g
    <3>3. SumFunctionOnSet(f, S) = SumFunctionOnSet(g, S)
      BY ONLY <3>2, SumSame
    <3> QED BY <2>1, <2>2, <3>1, <3>3 DEF T, g
  <2>7. CASE t.doc \in T
    <3> DEFINE r == t.doc
               U == {x \in Receipts \ {r} : doc[x].status = "posted" /\ i \in DOMAIN doc[x].content}
               h == [x \in U |-> doc[x].content[i]]
    <3>1. r \in Receipts /\ r \notin overtaken /\ i \in DOMAIN doc[r].content /\ r \notin S
      BY <1>1, <1>2, <2>7 DEF Settling
    <3>2. t.op = "receipt" /\ t.content = doc[r].content
      <4>1. r \notin Invoices
        BY <3>1, InvoicingAssumption
      <4> QED BY <1>1, <1>2, <3>1, <4>1 DEF ReadOK, Series
    <3>3. SumFunctionOnSet(h, U) + doc[r].content[i] <= doc[i].total
      <4>1. checkNotOverApplied(t.doc, t.content)
        BY <3>2 DEF Freezes, MayAccept
      <4>2. AppliedToInvoice(i, r) = SumFunctionOnSet(h, U)
        BY DEF AppliedToInvoice, SumOver, SumFunction, IsFrozen
      <4> QED BY <3>1, <3>2, <4>1, <4>2 DEF checkNotOverApplied
    <3>4. doc[r].content[i] \in Nat /\ g[r] = doc[r].content[i]
      <4>1. doc[r].content \in Contents[r]
        BY <1>1, <3>2 DEF ReadOK
      <4> QED BY <1>1, <2>7, <3>1, <4>1, ReceiptAmounts DEF Applied
    <3>5. IsFiniteSet(U) /\ \A x \in U : h[x] \in Nat
      BY AppliedType
    <3>6. S \subseteq U /\ \A x \in S : h[x] = g[x]
      <4>1. S \subseteq U
        BY <3>1 DEF Settling
      <4> QED BY <2>4, <4>1 DEF Applied
    <3>7. Grown(T, S, r)
      BY <2>4, <2>5, <2>7, <3>1 DEF Grown
    <3>8. Summable(g, T) /\ Summable(h, S)
      <4>1. IsFiniteSet(T)
        BY <2>3, <3>7, FS_AddElement DEF Grown
      <4>2. \A x \in T : g[x] \in Nat
        BY <2>3, <2>4, <2>5, <3>4
      <4>3. \A x \in S : h[x] \in Nat
        BY <3>5, <3>6
      <4> HIDE DEF S, T, U, g, h, f
      <4> QED BY <2>3, <4>1, <4>2, <4>3 DEF Summable
    <3> HIDE DEF S, T, U, g, h, f
    <3>9. SumFunctionOnSet(g, T) = SumFunctionOnSet(g, S) + g[r]
      BY ONLY <3>7, <3>8, SumGrows
    <3>10. SumFunctionOnSet(h, S) = SumFunctionOnSet(g, S)
      BY ONLY <3>6, <3>8, SumSame
    <3>11. SumFunctionOnSet(h, S) <= SumFunctionOnSet(h, U)
      BY ONLY <3>5, <3>6, SumFewer
    <3>12. SumFunctionOnSet(h, S) \in Int /\ SumFunctionOnSet(h, U) \in Int
      <4>1. Summable(h, U)
        BY <3>5 DEF Summable
      <4> QED BY <3>8, <4>1, SumType
    <3>13. SumFunctionOnSet(g, T) <= doc'[i].total
      <4> HIDE DEF r
      <4> QED BY <2>1, <3>3, <3>4, <3>9, <3>10, <3>11, <3>12
    <3> QED BY <3>13 DEF g, T
  <2> QED BY <2>6, <2>7
<1> QED BY <1>4, <1>5

LEMMA FreezeStep ==
  ASSUME IInv, NEW c \in Clients, NEW t, NEW n, Freezes(c, t, n)
  PROVE  IInv'
<1>1. /\ t.op \in {"invoice", "receipt"} /\ PostOK(c, t) /\ ReadOK(t)
      /\ DOMAIN doc' = Documents /\ \A x \in Documents \ {t.doc} : doc'[x] = doc[x]
      /\ DOMAIN doc'[t.doc] = RowFields /\ doc'[t.doc].status = "posted"
      /\ doc'[t.doc].content = doc[t.doc].content /\ doc'[t.doc].num = n
      /\ doc'[t.doc].tax = t.tax /\ doc'[t.doc].total = t.total /\ doc'[t.doc].entry = t.id
  BY FreezesOne
<1>2. /\ UNCHANGED <<dialect, events, seq, open, active, bal, cursor, straddle, left, rates, overtaken>>
      /\ task' = [task EXCEPT ![c] = Idle] /\ n \in Nat
      /\ next' = [next EXCEPT ![t.op] = NumberOf(@) + 1]
      /\ t.at \in {"accept", "freeze"}
  BY DEF Freezes, ledger, Done, Goto
<1>3. seq \in Nat /\ cursor \in Nat /\ next \in [{"invoice", "receipt"} -> Nat]
  BY DEF IInv, TypeOK, LedgerTypeOK
<1>4. \A x \in Documents : doc'[x].content = doc[x].content
  BY <1>1
<1>5. ASSUME NEW x \in Documents, BeingPosted(x), x \notin overtaken PROVE Kept(x)
  <2>1. DocTax(x)' = DocTax(x)
    <3>1. CASE x = t.doc
      <4>1. t.tax = DocTax(x)
        BY <1>1, <1>5, <3>1 DEF ReadOK
      <4> QED BY <1>1, <3>1, <4>1 DEF DocTax, IsFrozen
    <3>2. CASE x # t.doc
      BY <1>1, <1>2, <3>2, SameTax
    <3> QED BY <3>1, <3>2
  <2> QED BY <1>4, <1>5, <2>1, Keeps
<1>6. Steady
  <2>1. \A x \in Documents : /\ doc[x].status # "none" => doc'[x].status # "none"
                             /\ doc[x].status = "posted" => doc'[x].status = "posted"
    BY <1>1
  <2> QED BY <1>2, <1>3, <1>5, <2>1 DEF Steady
<1>7. DOMAIN task = Clients
  BY DEF IInv, TasksOK
<1>8. task'[c] = Idle /\ DOMAIN task' = Clients /\ \A b \in Clients \ {c} : task'[b] = task[b]
  BY <1>2, <1>7
<1>9. TasksOK'
  <2>1. TaskOK(c, task[c])'
    BY <1>8 DEF TaskOK, Idle
  <2> QED BY <1>6, <1>8, <2>1, TasksRest
<1>10. CommitsAlone'
  BY <1>2, <1>8 DEF IInv, CommitsAlone, IsPosted, Idle
<1>11. EventsOK'
  BY <1>2, <1>6, EventsRest
<1>12. TypeOK'
  <2>1. LedgerTypeOK'
    BY <1>2 DEF IInv, TypeOK, LedgerTypeOK
  <2>2. ASSUME NEW x \in Documents
        PROVE  /\ doc'[x].status \in {"none", "draft", "posted"}
               /\ doc'[x].status # "none" => doc'[x].content \in Contents[x]
               /\ doc'[x].num \in Nat /\ doc'[x].entry \in 0..seq'
               /\ doc'[x].tax \in Nat /\ doc'[x].total \in Nat
    <3>1. CASE x = t.doc
      <4>1. doc[x].content \in Contents[x]
        BY <1>1, <3>1 DEF ReadOK, IInv, TypeOK
      <4> QED BY <1>1, <1>2, <3>1, <4>1 DEF PostOK
    <3>2. CASE x # t.doc
      BY <1>1, <1>2, <3>2 DEF IInv, TypeOK
    <3> QED BY <3>1, <3>2
  <2>3. NumberOf(next[t.op]) + 1 \in Nat
    <3>1. next[t.op] \in Nat
      BY <1>1, <1>3
    <3> QED BY <3>1 DEF NumberOf
  <2>4. next' \in [{"invoice", "receipt"} -> Nat]
    BY <1>2, <1>3, <2>3
  <2>5. overtaken' \subseteq Documents /\ rates' \in Rates
    BY <1>2 DEF IInv, TypeOK
  <2> QED BY <2>1, <2>2, <2>4, <2>5 DEF TypeOK
<1>13. DocumentsOK'
  <2>1. ASSUME NEW x \in Documents
        PROVE  /\ DOMAIN doc'[x] = RowFields
               /\ doc'[x].status = "posted" =>
                    /\ \E e \in events' : e.cmd = Command(x) /\ e.id = doc'[x].entry
                    /\ x \notin overtaken' => doc'[x].total = DocTotal(x)'
    <3>1. CASE x = t.doc
      <4>1. \E e \in events : e.cmd = Command(x) /\ e.id = t.id
        BY <1>1, <1>2, <3>1 DEF PostOK, ReadOK
      <4>2. BeingPosted(x)
        BY <4>1 DEF BeingPosted, IsPosted
      <4>3. x \notin overtaken => t.total = DocTotal(x) /\ Kept(x)
        BY <1>1, <1>5, <3>1, <4>2 DEF ReadOK
      <4> QED BY <1>1, <1>2, <3>1, <4>1, <4>3 DEF Kept
    <3>2. CASE x # t.doc
      <4>1. doc'[x] = doc[x]
        BY <1>1, <3>2
      <4>2. DOMAIN doc[x] = RowFields
        BY DEF IInv, DocumentsOK, RowFields
      <4>3. ASSUME doc[x].status = "posted"
            PROVE  /\ \E e \in events : e.cmd = Command(x) /\ e.id = doc[x].entry
                   /\ x \notin overtaken => doc[x].total = DocTotal(x)
        BY <4>3 DEF IInv, DocumentsOK, IsFrozen
      <4>4. ASSUME doc[x].status = "posted", x \notin overtaken PROVE doc'[x].total = DocTotal(x)'
        <5>1. BeingPosted(x)
          BY <4>3, <4>4 DEF BeingPosted, IsPosted
        <5> QED BY <1>5, <4>1, <4>3, <4>4, <5>1 DEF Kept
      <4> QED BY <1>2, <4>1, <4>2, <4>3, <4>4
    <3> QED BY <3>1, <3>2
  <2> QED BY <1>1, <2>1 DEF DocumentsOK, IsFrozen, Command, Series, RowFields
<1>14. (dialect = "sqlite" => \A s \in {"invoice", "receipt"} : Numbered(s))'
  <2> SUFFICES ASSUME dialect = "sqlite", NEW s \in {"invoice", "receipt"} PROVE Numbered(s)'
    BY <1>2
  <2> QED BY FreezesNumbered
<1>15. Projected'
  BY <1>2 DEF IInv, Projected, Fold, SumOver
<1> QED BY <1>9, <1>10, <1>11, <1>12, <1>13, <1>14, <1>15, FreezesWithin DEF IInv

LEMMA DoesAccept ==
  ASSUME IInv, NEW c \in Clients, Accept(c)
  PROVE  IInv'
<1>1. PICK t : t = task[c]
  OBVIOUS
<1>2. t.at = "accept" /\ dialect = "sqlite" /\ t.op \in PostOps /\ PostOK(c, t)
  BY <1>1, PostingTask DEF Accept
<1>3. CASE MayAccept(t) /\ IsDraft(t.doc)
  <2>1. PICK n : n = NumberOf(next[t.op])
    OBVIOUS
  <2>2. n \in Nat
    <3>1. t.op \in {"invoice", "receipt"}
      BY <1>2 DEF PostOps, PostOK
    <3> QED BY <2>1, <3>1 DEF IInv, TypeOK, NumberOf
  <2>3. Freezes(c, t, n)
    BY <1>1, <1>2, <1>3, <2>1, <2>2 DEF Accept, Freezes
  <2> QED BY <2>3, FreezeStep
<1>4. CASE ~(MayAccept(t) /\ IsDraft(t.doc))
  <2>1. SameBooks /\ Done(c)
    BY <1>1, <1>4, LeftActive DEF Accept, SameBooks, ledger, documents
  <2> QED BY <2>1, DoneStep
<1> QED BY <1>3, <1>4

LEMMA DoesAcceptWrite ==
  ASSUME IInv, NEW c \in Clients, AcceptWrite(c)
  PROVE  IInv'
<1>1. PICK t : t = task[c]
  OBVIOUS
<1>2. t.at = "freeze" /\ dialect = "postgres" /\ t.num \in Nat
  <2>1. t.at = "freeze" /\ PostOK(c, t)
    BY <1>1, PostingTask DEF AcceptWrite
  <2> QED BY <2>1 DEF PostOK
<1>3. CASE IsDraft(t.doc) /\ (t.num = 0 => next[t.op] = 0)
  <2>1. PICK n : n = NumberOf(t.num)
    OBVIOUS
  <2>2. n \in Nat
    BY <1>2, <2>1 DEF NumberOf
  <2>3. Freezes(c, t, n)
    BY <1>1, <1>2, <1>3, <2>1, <2>2 DEF AcceptWrite, Freezes
  <2> QED BY <2>3, FreezeStep
<1>4. CASE ~(IsDraft(t.doc) /\ (t.num = 0 => next[t.op] = 0))
  <2>1. SameBooks /\ Done(c)
    BY <1>1, <1>4, LeftActive DEF AcceptWrite, SameBooks, ledger, documents
  <2> QED BY <2>1, DoneStep
<1> QED BY <1>3, <1>4
(* A rate is changed: drafts that are being posted are marked. *)
LEMMA DoesSaveRate ==
  ASSUME IInv, SaveRate
  PROVE  IInv'
<1> DEFINE taxed == {i \in Invoices : IsDraft(i) /\ BeingPosted(i)}
<1>1. /\ UNCHANGED <<dialect, events, seq, open, active, bal, cursor, straddle, task, doc, next>>
      /\ rates' \in Rates /\ overtaken' = overtaken \cup taxed
  BY DEF SaveRate, ledger
<1>2. left' \in [Kinds -> Nat]
  BY SpendType DEF SaveRate, Kinds
<1>3. ASSUME NEW x \in Documents, BeingPosted(x), x \notin overtaken' PROVE Kept(x)
  <2>1. x \notin overtaken /\ x \notin taxed
    BY <1>1, <1>3
  <2>2. doc[x].status # "none"
    BY <1>3, NoneIsNotPosted
  <2>3. x \in Receipts \/ IsFrozen(x)
    BY <1>3, <2>1, <2>2 DEF IInv, TypeOK, IsDraft, IsFrozen, Documents
  <2>4. DocTax(x)' = DocTax(x)
    BY <1>1, <2>3 DEF DocTax, IsFrozen
  <2> QED BY <1>1, <1>3, <2>1, <2>4, Keeps
<1>4. Steady
  <2>1. seq \in Nat /\ cursor \in Nat
    BY DEF IInv, TypeOK, LedgerTypeOK
  <2> QED BY <1>1, <1>3, <2>1 DEF Steady
<1>5. TasksOK'
  BY <1>1, <1>4, TasksRest DEF IInv, TasksOK
<1>6. CommitsAlone'
  BY <1>1 DEF IInv, CommitsAlone, IsPosted
<1>7. EventsOK'
  BY <1>1, <1>4, EventsRest
<1>8. TypeOK'
  BY <1>1, <1>2 DEF IInv, TypeOK, LedgerTypeOK, Documents
<1>9. DocumentsOK'
  <2>1. ASSUME NEW x \in Documents, IsFrozen(x), x \notin overtaken'
        PROVE  doc[x].total = DocTotal(x)'
    <3>1. \E e \in events : e.cmd = Command(x)
      BY <2>1 DEF IInv, DocumentsOK
    <3>2. Kept(x)
      BY <1>3, <2>1, <3>1 DEF BeingPosted, IsPosted
    <3> QED BY <1>1, <2>1, <3>2 DEF Kept, IInv, DocumentsOK
  <2> QED BY <1>1, <2>1 DEF IInv, DocumentsOK, IsFrozen, Command, Series
<1>10. (dialect = "sqlite" => \A s \in {"invoice", "receipt"} : Numbered(s))'
  BY <1>1 DEF IInv, Numbered, Numbers, InSeries, IsFrozen, Series, NumberOf
<1>11. NotOverApplied'
  <2> SUFFICES ASSUME dialect = "sqlite", NEW i \in Invoices, IsFrozen(i)
               PROVE  SumOver(LAMBDA x : doc[x].content[i],
                              {x \in Receipts \ overtaken' : IsFrozen(x) /\ i \in DOMAIN doc[x].content})
                        <= doc[i].total
    BY <1>1 DEF NotOverApplied, IsFrozen, SumOver
  <2>1. Receipts \ overtaken' = Receipts \ overtaken
    BY <1>1, InvoicingAssumption
  <2> QED BY <2>1 DEF IInv, NotOverApplied
<1>12. Projected'
  BY <1>1 DEF IInv, Projected, Fold, SumOver
<1> QED BY <1>5, <1>6, <1>7, <1>8, <1>9, <1>10, <1>11, <1>12 DEF IInv
--------------------------------------------------------------------------------
(* The induction. *)

LEMMA InitOK ==
  ASSUME Init
  PROVE  IInv
<1>1. /\ events = {} /\ seq = 0 /\ cursor = 0 /\ bal = [a \in Accounts |-> 0]
      /\ task = [c \in Clients |-> Idle] /\ overtaken = {} /\ rates = 1
      /\ next = [s \in {"invoice", "receipt"} |-> 0]
      /\ open = Periods /\ active = Accounts /\ straddle = [p \in Periods |-> {}]
      /\ left \in Scenarios /\ dialect \in Dialects
  BY DEF Init, LedgerInit
<1>2. /\ DOMAIN doc = Documents
      /\ \A d \in Documents : /\ DOMAIN doc[d] = {"status", "content", "num", "tax", "total", "entry"}
                              /\ doc[d].status = "none" /\ doc[d].num = 0
                              /\ doc[d].tax = 0 /\ doc[d].total = 0 /\ doc[d].entry = 0
  BY DEF Init
<1>3. LedgerTypeOK
  BY <1>1, LedgerAssumption DEF LedgerTypeOK
<1>4. TypeOK
  BY <1>1, <1>2, <1>3, InvoicingAssumption DEF TypeOK
<1>5. TasksOK /\ CommitsAlone
  BY <1>1 DEF TasksOK, TaskOK, CommitsAlone, Idle
<1>6. EventsOK /\ DocumentsOK
  BY <1>1, <1>2, FS_EmptySet DEF EventsOK, DocumentsOK, IsFrozen
<1>7. ASSUME NEW s \in {"invoice", "receipt"} PROVE Numbered(s)
  <2>1. InSeries(s) = {} /\ Numbers(s) = {}
    BY <1>2 DEF InSeries, Numbers, IsFrozen
  <2>2. Cardinality(InSeries(s)) = 0
    BY <2>1, FS_EmptySet
  <2> QED BY <1>1, <2>1, <2>2 DEF Numbered, NumberOf
<1>8. Projected
  <2>1. {e \in events : e.id <= cursor} = {}
    BY <1>1
  <2>2. ASSUME NEW a \in Accounts PROVE Fold({})[a] = 0
    BY SumEmpty DEF Fold, SumOver, SumFunction
  <2>3. bal = Fold({})
    BY <1>1, <2>2 DEF Fold
  <2>4. SumFunction(bal) = 0
    BY <1>1, LedgerAssumption, SumZero DEF SumFunction
  <2> QED BY <2>1, <2>3, <2>4 DEF Projected
<1>9. NotOverApplied
  BY <1>2 DEF NotOverApplied, IsFrozen, Documents
<1> QED BY <1>4, <1>5, <1>6, <1>7, <1>8, <1>9 DEF IInv

LEMMA NextOK ==
  ASSUME IInv, [Next]_vars
  PROVE  IInv'
<1>1. ASSUME NEW c \in Clients, LedgerStep(c), UNCHANGED documents PROVE IInv'
  BY <1>1, DoesReverseEntry, DoesValidateRefs, DoesAppendEvent, DoesPostEntryCheck,
     DoesPostEntryInsert, DoesPostEntryCommit, DoesTransitionStatus, DoesTransitionWrite,
     DoesEnsureBalances, DoesEnsureBalancesWrite, DoesReadTrialBalance, DoesCrash DEF LedgerStep
<1>2. ASSUME NEW c \in Clients,
             \/ UpdateDraft(c) \/ UpdateReceiptDraft(c) \/ UpdateDraftWrite(c)
             \/ PostInvoice(c) \/ PostReceipt(c)
             \/ Accept(c) \/ AcceptRead(c) \/ AcceptWrite(c)
      PROVE  IInv'
  BY <1>2, DoesUpdateDraft, DoesUpdateDraftWrite, DoesPostInvoice, DoesPostReceipt,
     DoesAccept, DoesAcceptRead, DoesAcceptWrite
<1>3. CASE UNCHANGED vars
  <2>1. SameBooks /\ task' = task
    BY <1>3, LeftActive DEF vars, ledger, documents, SameBooks
  <2> QED BY <2>1, IdleStep
<1> QED BY <1>1, <1>2, <1>3, DoesArchiveAccount, DoesCreateDraft, DoesSaveRate DEF Next, Terminated

(* Every reachable state satisfies the inductive invariant. *)
THEOREM Invariance == Spec => []IInv
<1>1. Init => IInv
  BY InitOK
<1>2. IInv /\ [Next]_vars => IInv'
  BY NextOK
<1> QED BY <1>1, <1>2, PTL DEF Spec
--------------------------------------------------------------------------------
(* The properties of the runs. *)

(* Every row, entry, counter and balance has its type, whatever is posted, edited, accepted, *)
(* refused or interrupted.                                                                   *)
THEOREM TypeCorrect == Spec => []TypeOK
<1>1. IInv => TypeOK
  BY DEF IInv
<1> QED BY <1>1, Invariance, PTL

(* The balances that reports read are the fold of the log up to the cursor on SQLite, a      *)
(* report that has caught up misses no entry it should show, and the balances always add up  *)
(* to zero, on Postgres too, where two catch-ups may fold an entry twice.                    *)
THEOREM ProjectionStaysExact == Spec => []ProjectionExact
<1>1. ASSUME IInv PROVE ProjectionExact
  <2>1. ASSUME NEW c \in Clients, task[c].at = "read", dialect = "sqlite", NEW e \in task[c].since
        PROVE  e.id <= cursor
    <3>1. PICK t : t = task[c]
      OBVIOUS
    <3>2. TaskOK(c, t) /\ t.at = "read"
      BY <1>1, <2>1, <3>1 DEF IInv, TasksOK
    <3>3. ReportOK(t)
      BY <3>2 DEF TaskOK, Idle, PostOK, PostOps
    <3> QED BY <2>1, <3>1, <3>2, <3>3 DEF ReportOK
  <2> QED BY <1>1, <2>1 DEF IInv, Projected, ProjectionExact
<1>2. IInv => ProjectionExact
  BY <1>1
<1> QED BY <1>2, Invariance, PTL

(* INV-F6 on SQLite: allocateNumber gives the posted documents of a series the numbers 1, 2, *)
(* 3, ... with none missing and none given twice.                                            *)
THEOREM NumbersStayGapless == Spec => []NumbersGapless
<1>1. IInv => NumbersGapless
  BY DEF IInv, NumbersGapless, Gapless, Numbered
<1> QED BY <1>1, Invariance, PTL

(* INV-F8 on SQLite: the check at acceptance (checkNotOverApplied, in the transaction that   *)
(* freezes the receipt) keeps what receipts settle of an invoice within its gross.           *)
THEOREM NeverOverApplied == Spec => []NotOverApplied
<1>1. IInv => NotOverApplied
  BY DEF IInv
<1> QED BY <1>1, Invariance, PTL

(* A posted document and its journal entry say the same, on both databases: the entry is the *)
(* one its command made, with the lines its content gives, and its debits are the total.     *)
THEOREM DocumentsAlwaysAgree == Spec => []DocumentsAgree
<1>1. ASSUME IInv PROVE DocumentsAgree
  <2> SUFFICES ASSUME NEW d \in Documents, IsFrozen(d)
               PROVE  /\ IsPosted(Command(d)) /\ Entry(Command(d)).id = doc[d].entry
                      /\ d \notin overtaken => /\ Entry(Command(d)).lines = Journal(d)
                                               /\ Debits(Entry(Command(d)).lines) = doc[d].total
    BY DEF DocumentsAgree
  <2>1. PICK e \in events : e.cmd = Command(d) /\ e.id = doc[d].entry
    BY <1>1 DEF IInv, DocumentsOK
  <2>2. IsPosted(Command(d))
    BY <2>1 DEF IsPosted
  <2>3. Entry(Command(d)) = e
    BY <1>1, <2>1, <2>2, EntryIs
  <2>4. ASSUME d \notin overtaken PROVE e.lines = Journal(d) /\ Debits(e.lines) = doc[d].total
    <3>1. /\ doc[d].status # "none" /\ e.lines = Journal(d)
          /\ d \in Receipts => \A i \in DOMAIN doc[d].content : IsFrozen(i)
      BY <1>1, <2>1, <2>4 DEF IInv, EventsOK
    <3>2. Debits(Journal(d)) = DocTotal(d)
      BY <1>1, <3>1, JournalOf DEF IInv
    <3>3. doc[d].total = DocTotal(d)
      BY <1>1, <2>4 DEF IInv, DocumentsOK
    <3> QED BY <3>1, <3>2, <3>3
  <2> QED BY <2>1, <2>2, <2>3, <2>4
<1>2. IInv => DocumentsAgree
  BY <1>1
<1> QED BY <1>2, Invariance, PTL

(* Only a request in ledger.post adds an entry, its own and after the period was looked at.  *)
LEMMA AddsEntry ==
  ASSUME IInv, [Next]_vars, events' # events
  PROVE  \E c \in Clients : \E id : /\ task[c].at \in {"append", "commit"}
                                     /\ events' = events \cup {NewEvent(task[c], id)}
<1>1. ~UNCHANGED vars
  BY DEF vars, ledger
<1>2. ASSUME NEW c \in Clients, LedgerStep(c)
      PROVE  AppendEvent(c) \/ PostEntryCommit(c)
  BY <1>2 DEF LedgerStep, ReverseEntry, validateRefs, PostEntryCheck, PostEntryInsert,
              transitionStatus, transitionWrite, EnsureBalances, EnsureBalancesWrite,
              ReadTrialBalance, Crash, ledger
<1>3. ~ArchiveAccount /\ ~CreateDraft /\ ~CreateReceiptDraft /\ ~SaveRate /\ ~Terminated
  BY DEF ArchiveAccount, CreateDraft, CreateReceiptDraft, SaveRate, Terminated, vars, ledger
<1>4. ASSUME NEW c \in Clients,
             \/ UpdateDraft(c) \/ UpdateReceiptDraft(c) \/ UpdateDraftWrite(c)
             \/ PostInvoice(c) \/ PostReceipt(c)
             \/ Accept(c) \/ AcceptRead(c) \/ AcceptWrite(c)
      PROVE  FALSE
  BY <1>4 DEF UpdateDraft, UpdateReceiptDraft, UpdateDraftWrite, PostInvoice, PostReceipt,
              Accept, AcceptRead, AcceptWrite, ledger
<1>5. PICK c \in Clients : AppendEvent(c) \/ PostEntryCommit(c)
  <2>1. Next
    BY <1>1
  <2>2. PICK c \in Clients : LedgerStep(c)
    BY <1>3, <1>4, <2>1 DEF Next
  <2> QED BY <1>2, <2>2
<1>6. CASE AppendEvent(c)
  BY <1>6 DEF AppendEvent
<1>7. CASE PostEntryCommit(c)
  BY <1>7 DEF PostEntryCommit
<1> QED BY <1>5, <1>6, <1>7

(* INV-F2 and the seal of a closed period: entries are only added, never two for a command,  *)
(* and to a closed period only by a request that was in ledger.post when it was closed.      *)
THEOREM PeriodsStaySealed == Spec => PeriodSealed
<1>1. ASSUME IInv, IInv', [Next]_vars PROVE [AppendOnly /\ Sealed]_events
  <2> SUFFICES ASSUME events' # events PROVE AppendOnly /\ Sealed
    OBVIOUS
  <2>0. PICK c \in Clients : \E id : /\ task[c].at \in {"append", "commit"}
                                     /\ events' = events \cup {NewEvent(task[c], id)}
    BY <1>1, AddsEntry
  <2>1. PICK id : /\ task[c].at \in {"append", "commit"}
                  /\ events' = events \cup {NewEvent(task[c], id)}
    BY <2>0
  <2>2. AppendOnly
    BY <1>1, <2>1 DEF AppendOnly, IInv, EventsOK
  <2>3. PICK t : t = task[c]
    OBVIOUS
  <2>4. PostOK(c, t)
    BY <1>1, <2>1, <2>3, PostingTask
  <2>5. t.period \in Periods /\ (t.period \in open \/ c \in straddle[t.period])
    BY <2>1, <2>3, <2>4 DEF PostOK
  <2>6. ASSUME NEW p \in Periods \ open, NEW e \in events' \ events, e.period = p
        PROVE  \E b \in straddle[p] : task[b].at \in {"append", "commit"} /\ task[b].cmd = e.cmd
    <3>1. e = NewEvent(t, id)
      BY <2>1, <2>3, <2>6
    <3>2. e.period = t.period /\ e.cmd = t.cmd
      BY <3>1 DEF NewEvent
    <3> QED BY <2>1, <2>3, <2>5, <2>6, <3>2
  <2> QED BY <2>2, <2>6 DEF Sealed
<1>2. IInv /\ IInv' /\ [Next]_vars => [AppendOnly /\ Sealed]_events
  BY <1>1
<1> QED BY <1>2, Invariance, PTL DEF Spec, PeriodSealed
--------------------------------------------------------------------------------
(* The statements. *)

\* The accounts of a section.
Of(section) == {a \in Accounts : classify(AccountType[a]) = section}

BooksOf(b) == b \in [Accounts -> Int]

LEMMA BooksSummable ==
  ASSUME NEW b, BooksOf(b), NEW S, S \subseteq Accounts
  PROVE  Summable(b, S) /\ SumFunctionOnSet(b, S) \in Int
<1>1. Summable(b, S)
  BY LedgerAssumption, FS_Subset DEF Summable, BooksOf
<1> QED BY <1>1, SumType

(* A section totals its accounts, in the sign of its normal balance. *)
LEMMA SectionIs ==
  ASSUME NEW b, BooksOf(b),
         NEW section \in {"asset", "liability", "equity", "income", "expense", "unclassified"}
  PROVE  Section(section, b) = IF section \in {"asset", "expense", "unclassified"}
                                 THEN SumFunctionOnSet(b, Of(section))
                                 ELSE -SumFunctionOnSet(b, Of(section))
<1> DEFINE S == Of(section)
           f == [a \in S |-> IF section = "unclassified" THEN b[a] ELSE presentation(AccountType[a], b[a])]
<1>1. Section(section, b) = SumFunctionOnSet(f, S)
  BY DEF Section, SumOver, SumFunction, Of
<1>2. S \subseteq Accounts
  BY DEF Of
<1>3. Summable(b, S)
  BY <1>2, BooksSummable
<1>4. ASSUME NEW a \in S
      PROVE  f[a] = IF section \in {"asset", "expense", "unclassified"} THEN b[a] ELSE -b[a]
  <2>1. b[a] \in Int /\ classify(AccountType[a]) = section
    BY <1>2 DEF BooksOf, Of
  <2>2. normalBalance(AccountType[a]) = IF section \in {"asset", "expense"} THEN 1 ELSE -1
    BY <2>1 DEF normalBalance
  <2> QED BY <2>1, <2>2 DEF presentation
<1> HIDE DEF S, f
<1>5. CASE section \in {"asset", "expense", "unclassified"}
  <2>1. \A a \in S : b[a] = f[a]
    BY <1>4, <1>5
  <2>2. SumFunctionOnSet(b, S) = SumFunctionOnSet(f, S)
    BY ONLY <1>3, <2>1, SumSame
  <2> QED BY <1>1, <1>5, <2>2 DEF S
<1>6. CASE section \notin {"asset", "expense", "unclassified"}
  <2>1. \A a \in S : f[a] = -b[a]
    BY <1>4, <1>6
  <2>2. SumFunctionOnSet(f, S) = -SumFunctionOnSet(b, S)
    BY ONLY <1>3, <2>1, SumNegates
  <2> QED BY <1>1, <1>6, <2>2 DEF S
<1> QED BY <1>5, <1>6

LEMMA Partitioned ==
  ASSUME NEW b, BooksOf(b), NEW S, NEW T, S \subseteq Accounts, T \subseteq Accounts, S \cap T = {}
  PROVE  SumFunctionOnSet(b, S \cup T) = SumFunctionOnSet(b, S) + SumFunctionOnSet(b, T)
<1>1. Summable(b, S \cup T)
  BY BooksSummable
<1> QED BY <1>1, SumUnion

(* The six sections are all accounts. *)
LEMMA SectionsCover ==
  ASSUME NEW b, BooksOf(b)
  PROVE  /\ SumFunctionOnSet(b, Accounts)
              = SumFunctionOnSet(b, Of("asset")) + SumFunctionOnSet(b, Of("unclassified"))
                + SumFunctionOnSet(b, Of("liability")) + SumFunctionOnSet(b, Of("equity"))
                + SumFunctionOnSet(b, Of("income")) + SumFunctionOnSet(b, Of("expense"))
<1> DEFINE A == Of("asset")
           U == Of("unclassified")
           L == Of("liability")
           E == Of("equity")
           I == Of("income")
           X == Of("expense")
<1>1. /\ A \subseteq Accounts /\ U \subseteq Accounts /\ L \subseteq Accounts
      /\ E \subseteq Accounts /\ I \subseteq Accounts /\ X \subseteq Accounts
  BY DEF Of
<1>2. /\ A \cap U = {} /\ (A \cup U) \cap L = {} /\ (A \cup U \cup L) \cap E = {}
      /\ (A \cup U \cup L \cup E) \cap I = {} /\ (A \cup U \cup L \cup E \cup I) \cap X = {}
  BY DEF Of
<1>3. A \cup U \cup L \cup E \cup I \cup X = Accounts
  BY DEF Of, classify
<1> HIDE DEF A, U, L, E, I, X
<1>4. SumFunctionOnSet(b, A \cup U) = SumFunctionOnSet(b, A) + SumFunctionOnSet(b, U)
  BY <1>1, <1>2, Partitioned
<1>5. SumFunctionOnSet(b, A \cup U \cup L) = SumFunctionOnSet(b, A \cup U) + SumFunctionOnSet(b, L)
  BY <1>1, <1>2, Partitioned
<1>6. SumFunctionOnSet(b, A \cup U \cup L \cup E) = SumFunctionOnSet(b, A \cup U \cup L) + SumFunctionOnSet(b, E)
  BY <1>1, <1>2, Partitioned
<1>7. SumFunctionOnSet(b, A \cup U \cup L \cup E \cup I)
        = SumFunctionOnSet(b, A \cup U \cup L \cup E) + SumFunctionOnSet(b, I)
  BY <1>1, <1>2, Partitioned
<1>8. SumFunctionOnSet(b, Accounts) = SumFunctionOnSet(b, A \cup U \cup L \cup E \cup I) + SumFunctionOnSet(b, X)
  BY <1>1, <1>2, <1>3, Partitioned
<1>9. SumFunctionOnSet(b, Accounts)
        = SumFunctionOnSet(b, A) + SumFunctionOnSet(b, U) + SumFunctionOnSet(b, L)
          + SumFunctionOnSet(b, E) + SumFunctionOnSet(b, I) + SumFunctionOnSet(b, X)
  BY <1>4, <1>5, <1>6, <1>7, <1>8
<1> QED BY <1>9 DEF A, U, L, E, I, X

(* Balances that add up to zero give a balance sheet and a trial balance that balance. *)
LEMMA ZeroBalances ==
  ASSUME NEW b, BooksOf(b), SumFunctionOnSet(b, Accounts) = 0
  PROVE  Balances(b)
<1>1. /\ Section("asset", b) = SumFunctionOnSet(b, Of("asset"))
      /\ Section("expense", b) = SumFunctionOnSet(b, Of("expense"))
      /\ Section("unclassified", b) = SumFunctionOnSet(b, Of("unclassified"))
      /\ Section("liability", b) = -SumFunctionOnSet(b, Of("liability"))
      /\ Section("equity", b) = -SumFunctionOnSet(b, Of("equity"))
      /\ Section("income", b) = -SumFunctionOnSet(b, Of("income"))
  BY SectionIs
<1>2. \A s : SumFunctionOnSet(b, Of(s)) \in Int
  BY BooksSummable DEF Of
<1>3. BalanceSheet(b).assets + BalanceSheet(b).unclassified
        = BalanceSheet(b).liabilities + BalanceSheet(b).equity
  <2>1. /\ BalanceSheet(b).assets = Section("asset", b)
        /\ BalanceSheet(b).unclassified = Section("unclassified", b)
        /\ BalanceSheet(b).liabilities = Section("liability", b)
        /\ BalanceSheet(b).equity = Section("equity", b) + (Section("income", b) - Section("expense", b))
    BY DEF BalanceSheet, NetIncome
  <2> QED BY <1>1, <1>2, <2>1, SectionsCover
<1> DEFINE P == {a \in Accounts : b[a] > 0}
           N == {a \in Accounts : b[a] < 0}
           g == [a \in N |-> -b[a]]
<1>4. SumFunctionOnSet(b, P \cup N) = 0
  <2>1. P \cup N \subseteq Accounts /\ \A a \in Accounts \ (P \cup N) : b[a] = 0
    BY DEF BooksOf
  <2>2. Summable(b, Accounts)
    BY BooksSummable
  <2> HIDE DEF P, N
  <2> QED BY <2>1, <2>2, SumSupport
<1>5. P \subseteq Accounts /\ N \subseteq Accounts /\ P \cap N = {}
  BY DEF BooksOf
<1>6. TrialBalance(b).debits = SumFunctionOnSet([a \in P |-> b[a]], P)
      /\ TrialBalance(b).credits = SumFunctionOnSet(g, N)
  BY DEF TrialBalance, SumOver, SumFunction
<1>7. SumFunctionOnSet([a \in P |-> b[a]], P) = SumFunctionOnSet(b, P)
  <2> DEFINE f == [a \in P |-> b[a]]
  <2>1. Summable(b, P) /\ \A a \in P : b[a] = f[a]
    BY <1>5, BooksSummable
  <2> HIDE DEF f, P
  <2>2. SumFunctionOnSet(b, P) = SumFunctionOnSet(f, P)
    BY ONLY <2>1, SumSame
  <2> QED BY <2>2 DEF f
<1>8. SumFunctionOnSet(g, N) = -SumFunctionOnSet(b, N)
  <2>1. Summable(b, N) /\ \A a \in N : g[a] = -b[a]
    BY <1>5, BooksSummable
  <2> HIDE DEF g, N
  <2> QED BY ONLY <2>1, SumNegates
<1> HIDE DEF P, N, g
<1>9. SumFunctionOnSet(b, P) = -SumFunctionOnSet(b, N)
  <2>1. SumFunctionOnSet(b, P) \in Int /\ SumFunctionOnSet(b, N) \in Int
    BY <1>5, BooksSummable
  <2>2. SumFunctionOnSet(b, P \cup N) = SumFunctionOnSet(b, P) + SumFunctionOnSet(b, N)
    BY <1>5, Partitioned
  <2> QED BY <1>4, <2>1, <2>2
<1>10. TrialBalance(b).debits = TrialBalance(b).credits
  BY <1>6, <1>7, <1>8, <1>9
<1> QED BY <1>3, <1>10 DEF Balances

(* The balance sheet and the trial balance balance, for any chart of accounts and whatever   *)
(* classify makes of their types, on the projection and on the log up to any period.         *)
THEOREM StatementsAlwaysBalance == Spec => []StatementsBalance
<1>1. ASSUME IInv PROVE StatementsBalance
  <2>1. BooksOf(bal) /\ SumFunctionOnSet(bal, Accounts) = 0
    BY <1>1 DEF IInv, TypeOK, LedgerTypeOK, Projected, SumFunction, BooksOf
  <2>2. ASSUME NEW p \in Periods PROVE Balances(BalancesForPeriods(periodFilter(p, "stock")))
    <3> DEFINE es == {e \in events : e.period \in periodFilter(p, "stock")}
    <3>1. EntriesOK(es)
      BY <1>1, LogEntries
    <3>2. BooksOf(Fold(es)) /\ SumFunctionOnSet(Fold(es), Accounts) = 0
      BY <3>1, FoldType, FoldBalances DEF BooksOf
    <3> QED BY <3>2, ZeroBalances DEF BalancesForPeriods
  <2> QED BY <2>1, <2>2, ZeroBalances DEF StatementsBalance
<1>2. IInv => StatementsBalance
  BY <1>1
<1> QED BY <1>2, Invariance, PTL

(* A section is linear in the balances. *)
LEMMA SectionPlus ==
  ASSUME NEW b, NEW c, NEW d, BooksOf(b), BooksOf(c), BooksOf(d),
         \A a \in Accounts : d[a] = b[a] + c[a],
         NEW section \in {"asset", "liability", "equity", "income", "expense", "unclassified"}
  PROVE  /\ Section(section, d) = Section(section, b) + Section(section, c)
         /\ Section(section, b) \in Int /\ Section(section, c) \in Int
<1> DEFINE S == Of(section)
<1>1. S \subseteq Accounts
  BY DEF Of
<1> HIDE DEF S
<1>2. SumFunctionOnSet(d, S) = SumFunctionOnSet(b, S) + SumFunctionOnSet(c, S)
  <2>1. Summable(b, S) /\ Summable(c, S) /\ \A a \in S : d[a] = b[a] + c[a]
    BY <1>1, BooksSummable
  <2> QED BY ONLY <2>1, SumPlus
<1>3. SumFunctionOnSet(b, S) \in Int /\ SumFunctionOnSet(c, S) \in Int
  BY <1>1, BooksSummable
<1>4. /\ Section(section, b) = IF section \in {"asset", "expense", "unclassified"}
                                 THEN SumFunctionOnSet(b, S) ELSE -SumFunctionOnSet(b, S)
      /\ Section(section, c) = IF section \in {"asset", "expense", "unclassified"}
                                 THEN SumFunctionOnSet(c, S) ELSE -SumFunctionOnSet(c, S)
      /\ Section(section, d) = IF section \in {"asset", "expense", "unclassified"}
                                 THEN SumFunctionOnSet(d, S) ELSE -SumFunctionOnSet(d, S)
  BY SectionIs DEF S
<1> QED BY <1>2, <1>3, <1>4

\* The entries of period p.
EntriesIn(p) == {e \in events : e.period = p}

LEMMA FlowIs ==
  ASSUME IInv, NEW p \in Periods
  PROVE  /\ BalancesForPeriods(periodFilter(p, "flow")) = Fold(EntriesIn(p))
         /\ EntriesOK(EntriesIn(p)) /\ BooksOf(Fold(EntriesIn(p)))
<1>1. EntriesOK(EntriesIn(p))
  BY LogEntries DEF EntriesIn
<1>2. {e \in events : e.period \in periodFilter(p, "flow")} = EntriesIn(p)
  BY DEF periodFilter, EntriesIn
<1> QED BY <1>1, <1>2, FoldType DEF BalancesForPeriods, BooksOf

(* A stock moves from one period to the next by what its accounts took in it. *)
LEMMA StockMoves ==
  ASSUME IInv, NEW p \in Periods, p - 1 \in Periods,
         NEW section \in {"asset", "liability", "equity", "income", "expense", "unclassified"}
  PROVE  Section(section, BalancesForPeriods(periodFilter(p, "stock")))
           - Section(section, BalancesForPeriods(periodFilter(p - 1, "stock")))
             = Section(section, Fold(EntriesIn(p)))
<1> DEFINE old == {e \in events : e.period \in periodFilter(p - 1, "stock")}
           all == {e \in events : e.period \in periodFilter(p, "stock")}
           new == EntriesIn(p)
<1>1. EntriesOK(old) /\ EntriesOK(all) /\ EntriesOK(new)
  BY LogEntries, FlowIs
<1>2. old \cap new = {} /\ all = old \cup new
  <2>1. \A e \in events : e.period \in Nat /\ e.period \in Periods
    BY LedgerAssumption DEF IInv, TypeOK, LedgerTypeOK
  <2>2. p \in Nat
    BY LedgerAssumption
  <2> QED BY <2>1, <2>2 DEF periodFilter, EntriesIn
<1>3. /\ BalancesForPeriods(periodFilter(p, "stock")) = Fold(all)
      /\ BalancesForPeriods(periodFilter(p - 1, "stock")) = Fold(old)
  BY DEF BalancesForPeriods
<1> HIDE DEF old, all, new
<1>4. BooksOf(Fold(old)) /\ BooksOf(Fold(all)) /\ BooksOf(Fold(new))
  BY <1>1, FoldType DEF BooksOf
<1>5. \A a \in Accounts : Fold(all)[a] = Fold(old)[a] + Fold(new)[a]
  <2>1. Fold(old \cup new) = [a \in Accounts |-> Fold(old)[a] + Fold(new)[a]]
    BY <1>1, <1>2, FoldUnion
  <2> HIDE DEF Fold
  <2> QED BY <1>2, <2>1
<1>6. /\ Section(section, Fold(all)) = Section(section, Fold(old)) + Section(section, Fold(new))
      /\ Section(section, Fold(old)) \in Int /\ Section(section, Fold(new)) \in Int
  BY <1>4, <1>5, SectionPlus, ZenonT(60)
<1> QED BY <1>3, <1>6 DEF new

(* The log is its periods: an account's balance is the sum of what each period brought. *)
LEMMA PeriodsAddUp ==
  ASSUME IInv, NEW a \in Accounts
  PROVE  Fold(events)[a] = SumFunctionOnSet([p \in Periods |-> Fold(EntriesIn(p))[a]], Periods)
<1> DEFINE f == Effects(events, a)
           key == [e \in events |-> e.period]
           group == [p \in Periods |-> Fold(EntriesIn(p))[a]]
<1>1. EntriesOK(events) /\ IsFiniteSet(Periods)
  BY LogEntries, LedgerAssumption
<1>2. Summable(f, events) /\ Fold(events)[a] = SumFunctionOnSet(f, events)
  BY <1>1, FoldIs
<1>3. \A e \in events : key[e] \in Periods
  BY DEF IInv, TypeOK, LedgerTypeOK
<1>4. ASSUME NEW p \in Periods PROVE group[p] = SumFunctionOnSet(f, {e \in events : key[e] = p})
  <2> DEFINE es == EntriesIn(p)
             g == Effects(es, a)
  <2>1. group[p] = SumFunctionOnSet(g, es) /\ Summable(g, es)
    BY FlowIs, FoldIs
  <2>2. es = {e \in events : key[e] = p} /\ \A e \in es : g[e] = f[e]
    BY DEF EntriesIn, Effects
  <2> HIDE DEF es, f, g, group
  <2>3. SumFunctionOnSet(g, es) = SumFunctionOnSet(f, es)
    BY ONLY <2>1, <2>2, SumSame
  <2> QED BY <2>1, <2>2, <2>3
<1>5. Groups(group, f, events, key, Periods)
  BY <1>4 DEF Groups
<1> HIDE DEF f, key, group
<1>6. SumFunctionOnSet(group, Periods) = SumFunctionOnSet(f, events)
  BY ONLY <1>1, <1>2, <1>3, <1>5, SumGrouped
<1> QED BY <1>2, <1>6 DEF group

LEMMA NetIncomeIs ==
  ASSUME NEW b, BooksOf(b)
  PROVE  NetIncome(b) = -SumFunctionOnSet(b, Of("income") \cup Of("expense"))
<1>1. Section("income", b) = -SumFunctionOnSet(b, Of("income"))
      /\ Section("expense", b) = SumFunctionOnSet(b, Of("expense"))
  BY SectionIs
<1>2. /\ Of("income") \subseteq Accounts /\ Of("expense") \subseteq Accounts
      /\ Of("income") \cap Of("expense") = {}
  BY DEF Of
<1>3. SumFunctionOnSet(b, Of("income")) \in Int /\ SumFunctionOnSet(b, Of("expense")) \in Int
  BY <1>2, BooksSummable
<1>4. SumFunctionOnSet(b, Of("income") \cup Of("expense"))
        = SumFunctionOnSet(b, Of("income")) + SumFunctionOnSet(b, Of("expense"))
  BY <1>2, Partitioned
<1> QED BY <1>1, <1>3, <1>4 DEF NetIncome

(* The earnings of the log are those of its periods. *)
LEMMA EarningsAddUp ==
  ASSUME IInv
  PROVE  SumFunctionOnSet([p \in Periods |-> NetIncome(Fold(EntriesIn(p)))], Periods)
           = NetIncome(Fold(events))
<1> DEFINE A == Of("income") \cup Of("expense")
           table == [a \in A |-> [p \in Periods |-> Fold(EntriesIn(p))[a]]]
           column == [p \in Periods |-> SumFunctionOnSet(Fold(EntriesIn(p)), A)]
           log == Fold(events)
           earned == [p \in Periods |-> NetIncome(Fold(EntriesIn(p)))]
<1>1. A \subseteq Accounts /\ IsFiniteSet(A) /\ IsFiniteSet(Periods)
  BY LedgerAssumption, FS_Subset DEF Of
<1>2. BooksOf(log) /\ \A p \in Periods : BooksOf(Fold(EntriesIn(p)))
  BY LogEntries, FoldType, FlowIs DEF BooksOf
<1>3. IsTable(table, A, Periods)
  <2> HIDE DEF A
  <2> QED BY <1>1, <1>2 DEF IsTable, BooksOf
<1>4. SumsRows(log, table, A, Periods)
  <2> SUFFICES ASSUME NEW a \in A PROVE log[a] = SumFunctionOnSet(table[a], Periods)
    BY DEF SumsRows
  <2>1. a \in Accounts
    BY <1>1
  <2> QED BY <2>1, PeriodsAddUp
<1>5. SumsColumns(column, table, A, Periods)
  <2> SUFFICES ASSUME NEW p \in Periods
               PROVE  SumFunctionOnSet(Fold(EntriesIn(p)), A) = SumFunctionOnSet([a \in A |-> table[a][p]], A)
    BY DEF SumsColumns
  <2> DEFINE b == Fold(EntriesIn(p))
             f == [a \in A |-> table[a][p]]
  <2>1. Summable(b, A)
    BY <1>1, <1>2, BooksSummable
  <2>2. \A a \in A : b[a] = f[a]
    OBVIOUS
  <2> HIDE DEF b, f, A, table
  <2>3. SumFunctionOnSet(b, A) = SumFunctionOnSet(f, A)
    BY ONLY <2>1, <2>2, SumSame
  <2> QED BY <2>3 DEF b, f
<1>6. \A p \in Periods : earned[p] = -column[p] /\ column[p] \in Int
  <2> SUFFICES ASSUME NEW p \in Periods
               PROVE  /\ NetIncome(Fold(EntriesIn(p))) = -SumFunctionOnSet(Fold(EntriesIn(p)), A)
                      /\ SumFunctionOnSet(Fold(EntriesIn(p)), A) \in Int
    OBVIOUS
  <2> QED BY <1>1, <1>2, NetIncomeIs, BooksSummable
<1>7. NetIncome(log) = -SumFunctionOnSet(log, A)
  BY <1>2, NetIncomeIs
<1> HIDE DEF A, table, column, log, earned
<1>8. SumFunctionOnSet(log, A) = SumFunctionOnSet(column, Periods)
  BY ONLY <1>3, <1>4, <1>5, SumExchange
<1>9. SumFunctionOnSet(earned, Periods) = -SumFunctionOnSet(column, Periods)
  <2>1. Summable(column, Periods)
    BY <1>1, <1>6 DEF Summable
  <2> QED BY <1>6, <2>1, SumNegates
<1> QED BY <1>7, <1>8, <1>9 DEF earned, log

(* The cards of the periods tell one story, for any number of periods: comparisons of stocks *)
(* are the flows between them, and the flows of all periods are the earnings in equity.      *)
THEOREM CardsAlwaysAddUp == Spec => []CardsAddUp
<1>1. ASSUME IInv PROVE CardsAddUp
  <2> DEFINE flow == [p \in Periods |-> BalancesForPeriods(periodFilter(p, "flow"))]
             log == Fold(events)
  <2>1. \A p \in Periods : flow[p] = Fold(EntriesIn(p)) /\ BooksOf(flow[p])
    BY <1>1, FlowIs
  <2>2. ASSUME NEW p \in Periods, NEW m \in DOMAIN LedgerMetrics,
               compareCard(m, p).comparison # None, LedgerMetrics[m][2] = "stock"
        PROVE  compareCard(m, p).comparison.delta = Section(LedgerMetrics[m][1], flow[p])
    <3>1. p - 1 \in Periods
      BY <2>2 DEF compareCard
    <3>2. compareCard(m, p).comparison.delta = Evaluate(m, p) - Evaluate(m, p - 1)
      BY <3>1 DEF compareCard, compare
    <3>3. LedgerMetrics[m][1] \in {"asset", "liability", "equity", "income", "expense", "unclassified"}
      BY <2>2 DEF LedgerMetrics
    <3> QED BY <1>1, <2>1, <2>2, <3>1, <3>2, <3>3, StockMoves DEF Evaluate
  <2>3. SumOver(LAMBDA p : Evaluate("revenue", p) - Evaluate("expenses", p), Periods)
          = BalanceSheet(log).equity - Section("equity", log)
    <3> DEFINE f == [p \in Periods |-> Evaluate("revenue", p) - Evaluate("expenses", p)]
               g == [p \in Periods |-> NetIncome(Fold(EntriesIn(p)))]
    <3>1. \A p \in Periods : f[p] = g[p]
      <4> SUFFICES ASSUME NEW p \in Periods
                   PROVE  Evaluate("revenue", p) - Evaluate("expenses", p) = NetIncome(Fold(EntriesIn(p)))
        OBVIOUS
      <4>1. /\ LedgerMetrics["revenue"][1] = "income" /\ LedgerMetrics["revenue"][2] = "flow"
            /\ LedgerMetrics["expenses"][1] = "expense" /\ LedgerMetrics["expenses"][2] = "flow"
        BY DEF LedgerMetrics
      <4> QED BY <2>1, <4>1 DEF Evaluate, NetIncome
    <3>2. f = g
      BY <3>1
    <3>3. SumFunctionOnSet(f, Periods) = NetIncome(log)
      <4>1. SumFunctionOnSet(g, Periods) = NetIncome(log)
        BY <1>1, EarningsAddUp
      <4> HIDE DEF f, g, log
      <4> QED BY <3>2, <4>1
    <3>4. BalanceSheet(log).equity = Section("equity", log) + NetIncome(log)
      BY DEF BalanceSheet
    <3>5. Section("equity", log) \in Int /\ NetIncome(log) \in Int
      <4>1. BooksOf(log)
        BY <1>1, LogEntries, FoldType DEF BooksOf
      <4>2. Section("equity", log) = -SumFunctionOnSet(log, Of("equity"))
            /\ NetIncome(log) = -SumFunctionOnSet(log, Of("income") \cup Of("expense"))
        BY <4>1, SectionIs, NetIncomeIs
      <4>3. Of("equity") \subseteq Accounts /\ Of("income") \cup Of("expense") \subseteq Accounts
        BY DEF Of
      <4> QED BY <4>1, <4>2, <4>3, BooksSummable
    <3>6. SumFunctionOnSet(f, Periods) = BalanceSheet(log).equity - Section("equity", log)
      <4> HIDE DEF f, log
      <4> QED BY <3>3, <3>4, <3>5
    <3> QED BY <3>6 DEF SumOver, SumFunction
  <2> HIDE DEF flow
  <2>4. \A p \in Periods, m \in DOMAIN LedgerMetrics :
          (compareCard(m, p).comparison # None /\ LedgerMetrics[m][2] = "stock")
            => compareCard(m, p).comparison.delta = Section(LedgerMetrics[m][1], flow[p])
    BY <2>2
  <2> QED BY <2>3, <2>4 DEF CardsAddUp, flow
<1>2. IInv => CardsAddUp
  BY <1>1
<1> QED BY <1>2, Invariance, PTL
--------------------------------------------------------------------------------
(* What a journal does to a receivable account. *)

LEMMA NoEffect ==
  ASSUME NEW lines \in Seq(Line), NEW a, \A k \in DOMAIN lines : lines[k].account # a
  PROVE  add(lines, a) = 0
<1>1. Summable(Adds(lines, a), DOMAIN lines)
      /\ add(lines, a) = SumFunctionOnSet(Adds(lines, a), DOMAIN lines)
  BY AddIs
<1>2. IsFiniteSet(DOMAIN lines) /\ \A k \in DOMAIN lines : Adds(lines, a)[k] = 0
  BY <1>1 DEF Summable, Adds
<1> QED BY <1>1, <1>2, SumZero

LEMMA OneEffect ==
  ASSUME NEW lines \in Seq(Line), NEW a, NEW k \in DOMAIN lines, lines[k].account = a,
         \A j \in DOMAIN lines \ {k} : lines[j].account # a
  PROVE  add(lines, a) = lines[k].debit - lines[k].credit
<1> DEFINE S == DOMAIN lines
           f == Adds(lines, a)
<1>1. Summable(f, S) /\ add(lines, a) = SumFunctionOnSet(f, S)
  BY AddIs
<1>2. k \in S /\ f[k] = lines[k].debit - lines[k].credit /\ \A j \in S \ {k} : f[j] = 0
  BY DEF Adds
<1> HIDE DEF S, f
<1>3. SumFunctionOnSet(f, S) = f[k]
  BY ONLY <1>1, <1>2, SumOfOne
<1> QED BY <1>1, <1>2, <1>3

LEMMA AfterFirst ==
  ASSUME NEW Y, NEW x, NEW rest \in Seq(Y)
  PROVE  /\ 1 \in DOMAIN (<<x>> \o rest) /\ (<<x>> \o rest)[1] = x
         /\ \A k \in DOMAIN (<<x>> \o rest) \ {1} :
              k - 1 \in DOMAIN rest /\ (<<x>> \o rest)[k] = rest[k - 1] /\ rest[k - 1] \in Y
         /\ \A k \in DOMAIN rest : k + 1 \in DOMAIN (<<x>> \o rest) /\ (<<x>> \o rest)[k + 1] = rest[k]
OBVIOUS

(* An invoice debits its receivable the gross, and no account that is not of its lines. *)
LEMMA InvoiceEffect ==
  ASSUME NEW i \in Invoices, NEW v \in Contents[i], NEW tax \in Nat,
         NEW a \in Accounts \ (RevenueAccounts(v) \cup {TaxAccount})
  PROVE  add(buildInvoiceJournal(v, tax), a) = IF v.ar = a THEN Gross(v, tax) ELSE 0
<1> DEFINE A == RevenueAccounts(v)
           Y == {l \in Line : l.account # a}
           S == {Credit(x, Net(v, x)) : x \in A}
           nets == SetToSeq(S)
           taxed == IF tax # 0 THEN <<Credit(TaxAccount, tax)>> ELSE <<>>
           first == Debit(v.ar, Gross(v, tax))
           rest == nets \o taxed
<1>1. Gross(v, tax) \in Nat /\ v.ar \in Accounts /\ TaxAccount \in Accounts
      /\ A \subseteq Accounts /\ IsFiniteSet(A) /\ \A x \in A : Net(v, x) \in Nat
  BY InvoiceAmounts, InvoicingAssumption
<1>2. nets \in Seq(Y)
  <2>1. IsFiniteSet(S)
    <3> DEFINE g == [x \in A |-> Credit(x, Net(v, x))]
    <3>1. g \in Surjection(A, S)
      BY DEF Surjection
    <3> HIDE DEF g, S, A
    <3> QED BY <1>1, <3>1, FS_Surjection
  <2>2. S \subseteq Y
    <3> SUFFICES ASSUME NEW x \in A PROVE Credit(x, Net(v, x)) \in Y
      OBVIOUS
    <3>1. x \in Accounts /\ x # a /\ Net(v, x) \in Nat
      BY <1>1
    <3> HIDE DEF A
    <3> QED BY <3>1 DEF Credit, Line
  <2> HIDE DEF S, Y
  <2> QED BY <2>1, <2>2, SetAsSeq
<1>3. taxed \in Seq(Y)
  <2>1. Credit(TaxAccount, tax) \in Y
    BY <1>1 DEF Credit, Line
  <2> HIDE DEF Y
  <2> QED BY <2>1
<1>4. rest \in Seq(Y)
  <2> HIDE DEF nets, taxed, Y
  <2> QED BY <1>2, <1>3
<1>5. first \in Line /\ first.account = v.ar /\ first.debit = Gross(v, tax) /\ first.credit = 0
  BY <1>1 DEF Debit, Line
<1>6. buildInvoiceJournal(v, tax) = <<first>> \o rest
  <2>1. buildInvoiceJournal(v, tax) = (<<first>> \o nets) \o taxed
    BY DEF buildInvoiceJournal
  <2>2. nets \in Seq(Line) /\ taxed \in Seq(Line)
    <3>1. Y \subseteq Line
      OBVIOUS
    <3> HIDE DEF nets, taxed, Y
    <3> QED BY <1>2, <1>3, <3>1
  <2> HIDE DEF Line, first, nets, taxed
  <2> QED BY <1>5, <2>1, <2>2
<1> DEFINE lines == <<first>> \o rest
<1>7. lines \in Seq(Line)
  BY <1>6, InvoiceJournal
<1>8. 1 \in DOMAIN lines /\ lines[1] = first /\ \A k \in DOMAIN lines \ {1} : lines[k] \in Y
  <2> HIDE DEF Y, first, rest
  <2> QED BY <1>4, AfterFirst
<1>9. \A k \in DOMAIN lines \ {1} : lines[k].account # a
  <2> HIDE DEF lines, first
  <2> QED BY <1>8
<1> HIDE DEF lines, first
<1>10. CASE v.ar = a
  <2>1. add(lines, a) = lines[1].debit - lines[1].credit
    BY <1>5, <1>7, <1>8, <1>9, <1>10, OneEffect
  <2> QED BY <1>1, <1>5, <1>6, <1>8, <1>10, <2>1 DEF lines
<1>11. CASE v.ar # a
  <2>1. \A k \in DOMAIN lines : lines[k].account # a
    BY <1>5, <1>8, <1>9, <1>11
  <2>2. add(lines, a) = 0
    BY <1>7, <2>1, NoEffect
  <2> QED BY <1>6, <1>11, <2>2 DEF lines
<1> QED BY <1>10, <1>11

(* Each element of a set is once in its sequence. *)
LEMMA SetAsSeqOnce ==
  ASSUME NEW S, IsFiniteSet(S), NEW x \in S
  PROVE  \E k \in DOMAIN SetToSeq(S) : /\ SetToSeq(S)[k] = x
                                       /\ \A j \in DOMAIN SetToSeq(S) \ {k} : SetToSeq(S)[j] # x
<1> DEFINE D == 1..Cardinality(S)
<1>1. Cardinality(S) \in Nat /\ ExistsBijection(D, S)
  BY FS_CardinalityType
<1>2. PICK f : f \in [D -> S] /\ IsInjective(f)
  BY <1>1 DEF ExistsBijection, Bijection, Injection
<1>3. PICK s : s = SetToSeq(S)
  OBVIOUS
<1>4. s \in [D -> S] /\ IsInjective(s)
  BY <1>2, <1>3 DEF SetToSeq
<1>5. s \in Injection(D, S)
  BY <1>4 DEF Injection
<1>6. Cardinality(D) = Cardinality(S)
  BY <1>1, FS_Bijection, FS_Interval
<1> HIDE DEF D
<1>7. s \in Surjection(D, S)
  BY <1>5, <1>6, FS_Injection
<1>8. PICK k \in D : s[k] = x
  BY <1>7 DEF Surjection
<1>9. DOMAIN s = D /\ \A j \in D \ {k} : s[j] # x
  BY <1>4, <1>8 DEF IsInjective
<1> QED BY <1>3, <1>8, <1>9

\* What a receipt of content v applies to the invoices whose receivable is a.
AppliedTo(v, ar, a) == SumFunctionOnSet([i \in {x \in DOMAIN v : ar[x] = a} |-> v[i]],
                                        {x \in DOMAIN v : ar[x] = a})

LEMMA AppliedToType ==
  ASSUME NEW r \in Receipts, NEW v \in Contents[r], NEW ar, NEW a
  PROVE  AppliedTo(v, ar, a) \in Nat
<1> DEFINE S == {i \in DOMAIN v : ar[i] = a}
           g == [i \in S |-> v[i]]
<1>1. IsFiniteSet(S) /\ \A i \in S : g[i] \in Nat
  BY ReceiptAmounts, FS_Subset
<1>2. AppliedTo(v, ar, a) = SumFunctionOnSet(g, S)
  BY DEF AppliedTo
<1> HIDE DEF g, S
<1> QED BY <1>1, <1>2, SumNat

(* A receipt credits a receivable what it applies to its invoices. *)
LEMMA ReceiptEffect ==
  ASSUME NEW r \in Receipts, NEW v \in Contents[r],
         NEW ar, \A i \in DOMAIN v : ar[i] \in Accounts, NEW a \in Accounts \ {BankAccount}
  PROVE  add(buildReceiptJournal(v, ar), a) = -AppliedTo(v, ar, a)
<1> DEFINE A == {ar[i] : i \in DOMAIN v}
           S == {Credit(x, AppliedTo(v, ar, x)) : x \in A}
           rest == SetToSeq(S)
           first == Debit(BankAccount, Total(v))
           lines == <<first>> \o rest
<1>1. /\ IsFiniteSet(A) /\ A \subseteq Accounts
      /\ \A x \in A : AppliedTo(v, ar, x) \in Nat
  <2>1. A \subseteq Accounts
    OBVIOUS
  <2> QED BY <2>1, LedgerAssumption, FS_Subset, AppliedToType
<1>2. buildReceiptJournal(v, ar) = lines
  BY DEF buildReceiptJournal, AppliedTo, SumOver, SumFunction
<1>3. lines \in Seq(Line)
  BY <1>2, ReceiptJournal
<1>4. IsFiniteSet(S)
  <2> DEFINE g == [x \in A |-> Credit(x, AppliedTo(v, ar, x))]
  <2>1. g \in Surjection(A, S)
    BY DEF Surjection
  <2> HIDE DEF g, S, A
  <2> QED BY <1>1, <2>1, FS_Surjection
<1>5. rest \in Seq(S)
  <2> HIDE DEF S
  <2> QED BY <1>4, SetAsSeq
<1>6. /\ 1 \in DOMAIN lines /\ lines[1] = first
      /\ \A k \in DOMAIN lines \ {1} : k - 1 \in DOMAIN rest /\ lines[k] = rest[k - 1] /\ lines[k] \in S
      /\ \A k \in DOMAIN rest : k + 1 \in DOMAIN lines /\ lines[k + 1] = rest[k]
  <2> HIDE DEF S, first, rest
  <2> QED BY <1>5, AfterFirst
<1>7. first.account # a
  BY DEF Debit
<1>8. \A x \in S : x.account \in A /\ x = Credit(x.account, AppliedTo(v, ar, x.account))
  BY DEF Credit
<1>9. CASE a \notin A
  <2>1. \A k \in DOMAIN lines : lines[k].account # a
    <3> HIDE DEF lines, first, S, A
    <3> QED BY <1>6, <1>7, <1>8, <1>9
  <2>2. add(lines, a) = 0
    <3> HIDE DEF lines
    <3> QED BY <1>3, <2>1, NoEffect
  <2>3. AppliedTo(v, ar, a) = 0
    <3>1. {x \in DOMAIN v : ar[x] = a} = {}
      BY <1>9
    <3> QED BY <3>1, SumEmpty DEF AppliedTo
  <2>4. -AppliedTo(v, ar, a) = 0
    <3>1. AppliedTo(v, ar, a) \in Int /\ AppliedTo(v, ar, a) <= 0 /\ AppliedTo(v, ar, a) >= 0
      BY <2>3
    <3> QED BY ONLY <3>1
  <2> HIDE DEF lines
  <2> QED BY <1>2, <2>2, <2>4
<1>10. CASE a \in A
  <2> DEFINE x == Credit(a, AppliedTo(v, ar, a))
  <2>1. x \in S
    BY <1>10
  <2>2. PICK k \in DOMAIN rest : rest[k] = x /\ \A j \in DOMAIN rest \ {k} : rest[j] # x
    <3> HIDE DEF S, x
    <3> QED BY <1>4, <2>1, SetAsSeqOnce
  <2>3. k + 1 \in DOMAIN lines /\ lines[k + 1] = x
    BY <1>6, <2>2
  <2>4. DOMAIN rest = 1..Len(rest) /\ Len(rest) \in Nat /\ DOMAIN lines \subseteq Nat
    <3>1. DOMAIN rest = 1..Len(rest) /\ Len(rest) \in Nat
      <4> HIDE DEF S, rest
      <4> QED BY <1>5
    <3>2. DOMAIN lines \subseteq Nat
      <4> HIDE DEF lines
      <4> QED BY <1>3
    <3> QED BY <3>1, <3>2
  <2>5. ASSUME NEW j \in DOMAIN lines \ {k + 1} PROVE lines[j].account # a
    <3>1. CASE j = 1
      <4> HIDE DEF lines, first
      <4> QED BY <1>6, <1>7, <3>1
    <3>2. CASE j # 1
      <4>1. j - 1 \in DOMAIN rest /\ lines[j] = rest[j - 1] /\ lines[j] \in S
        <5> HIDE DEF lines, rest, S
        <5> QED BY <1>6, <3>2
      <4>2. j - 1 # k
        <5> HIDE DEF lines, rest
        <5> QED BY <2>4, <2>5
      <4>3. lines[j] # x
        <5> HIDE DEF lines, rest, x
        <5> QED BY <2>2, <4>1, <4>2
      <4>4. lines[j] = Credit(lines[j].account, AppliedTo(v, ar, lines[j].account))
        <5> HIDE DEF lines, S
        <5> QED BY <1>8, <4>1
      <4> HIDE DEF lines
      <4> QED BY <4>3, <4>4
    <3> QED BY <3>1, <3>2
  <2>6. x.account = a /\ x.debit = 0 /\ x.credit = AppliedTo(v, ar, a)
    BY DEF Credit
  <2>7. add(lines, a) = lines[k + 1].debit - lines[k + 1].credit
    <3> HIDE DEF lines, x
    <3> QED BY <1>3, <2>3, <2>5, <2>6, OneEffect
  <2>8. AppliedTo(v, ar, a) \in Nat
    BY AppliedToType
  <2> HIDE DEF lines, x
  <2> QED BY <1>2, <2>3, <2>6, <2>7, <2>8
<1> QED BY <1>9, <1>10
--------------------------------------------------------------------------------
(* The receivables. *)

\* No receivable of an invoice is also the revenue account of one, or the tax or bank account.
\* Nothing in the code checks it; where it fails, the ledger's receivables hold more than what
\* is owed.
ReceivablesApart ==
  \A i, j \in Invoices : \A v \in Contents[i], w \in Contents[j] :
    v.ar \notin RevenueAccounts(w) \cup {TaxAccount, BankAccount}

\* When the receivables are promised to reconcile.
Settled == IInv /\ dialect = "sqlite" /\ overtaken = {} /\ ReceivablesApart

PostedInvoices == {i \in Invoices : IsFrozen(i)}
PostedReceipts == {r \in Receipts : IsFrozen(r)}
PostedDocuments == PostedInvoices \cup PostedReceipts
TheirEntries == {e \in events : \E d \in Documents : IsFrozen(d) /\ e.cmd = Command(d)}

LEMMA PostedFinite ==
  /\ IsFiniteSet(PostedInvoices) /\ IsFiniteSet(PostedReceipts) /\ IsFiniteSet(PostedDocuments)
  /\ PostedInvoices \cap PostedReceipts = {}
<1>1. PostedInvoices \subseteq Invoices /\ PostedReceipts \subseteq Receipts
  BY DEF PostedInvoices, PostedReceipts
<1>2. IsFiniteSet(PostedInvoices) /\ IsFiniteSet(PostedReceipts)
  BY <1>1, InvoicingAssumption, FS_Subset
<1> QED BY <1>1, <1>2, InvoicingAssumption, FS_Union DEF PostedDocuments

(* A posted document has one entry, with the lines of its content. *)
LEMMA PostedEntry ==
  ASSUME Settled, NEW d \in PostedDocuments
  PROVE  /\ d \in Documents /\ doc[d].content \in Contents[d] /\ doc[d].total = DocTotal(d)
         /\ d \in Receipts => \A i \in DOMAIN doc[d].content : i \in PostedInvoices
         /\ \E e \in events : e.cmd = Command(d) /\ e.lines = Journal(d)
<1>1. d \in Documents /\ IsFrozen(d) /\ IInv /\ overtaken = {}
  BY DEF PostedDocuments, PostedInvoices, PostedReceipts, Documents, Settled
<1>2. doc[d].content \in Contents[d]
  BY <1>1 DEF IInv, TypeOK, IsFrozen
<1>3. PICK e \in events : e.cmd = Command(d)
  BY <1>1 DEF IInv, DocumentsOK
<1>4. e.lines = Journal(d) /\ (d \in Receipts => \A i \in DOMAIN doc[d].content : IsFrozen(i))
  BY <1>1, <1>3 DEF IInv, EventsOK
<1>5. doc[d].total = DocTotal(d)
  BY <1>1 DEF IInv, DocumentsOK
<1>6. d \in Receipts => DOMAIN doc[d].content \subseteq Invoices
  BY <1>2, ReceiptAmounts
<1> QED BY <1>1, <1>2, <1>3, <1>4, <1>5, <1>6 DEF PostedInvoices

(* The entries of the posted documents are their journals. *)
LEMMA FoldsJournals ==
  ASSUME Settled, NEW a \in Accounts
  PROVE  /\ Summable([d \in PostedDocuments |-> add(Journal(d), a)], PostedDocuments)
         /\ Fold(TheirEntries)[a]
              = SumFunctionOnSet([d \in PostedDocuments |-> add(Journal(d), a)], PostedDocuments)
<1> DEFINE S == TheirEntries
           f == Effects(S, a)
           B == PostedDocuments
           key == [e \in S |-> e.cmd[2]]
           group == [d \in B |-> add(Journal(d), a)]
<1>1. IInv /\ EntriesOK(S) /\ IsFiniteSet(B)
  BY LogEntries, PostedFinite DEF Settled, TheirEntries
<1>2. Summable(f, S) /\ Fold(S)[a] = SumFunctionOnSet(f, S)
  BY <1>1, FoldIs
<1>3. \A d : Command(d)[2] = d
  BY DEF Command
<1>4. ASSUME NEW e \in S PROVE key[e] \in B /\ e.cmd = Command(key[e])
  <2>1. PICK d \in Documents : IsFrozen(d) /\ e.cmd = Command(d)
    BY DEF TheirEntries
  <2>2. d \in B /\ e.cmd[2] = d
    BY <1>3, <2>1 DEF PostedDocuments, PostedInvoices, PostedReceipts, Documents
  <2> QED BY <2>1, <2>2
<1>5. ASSUME NEW d \in B
      PROVE  group[d] \in Int /\ group[d] = SumFunctionOnSet(f, {e \in S : key[e] = d})
  <2>1. d \in Documents /\ IsFrozen(d)
    BY DEF PostedDocuments, PostedInvoices, PostedReceipts, Documents
  <2>2. PICK e \in events : e.cmd = Command(d) /\ e.lines = Journal(d)
    BY PostedEntry
  <2> DEFINE T == {x \in S : key[x] = d}
  <2>3. e \in S /\ key[e] = d
    BY <1>3, <2>1, <2>2 DEF TheirEntries
  <2>4. T = {e}
    <3> SUFFICES ASSUME NEW x \in T PROVE x = e
      BY <2>3
    <3>1. x \in events /\ x.cmd = Command(d)
      BY <1>4 DEF TheirEntries
    <3> QED BY <1>1, <2>2, <3>1 DEF IInv, EventsOK
  <2>5. f[e] = add(Journal(d), a) /\ f[e] \in Int
    BY <1>2, <2>2, <2>3 DEF Effects, Summable
  <2>6. Summable(f, T) /\ e \in T /\ \A x \in T \ {e} : f[x] = 0
    <3> HIDE DEF f, S, key
    <3> QED BY <1>2, <2>3, <2>4, SummableSubset
  <2> HIDE DEF T, f
  <2>7. SumFunctionOnSet(f, T) = f[e]
    BY ONLY <2>6, SumOfOne
  <2> QED BY <2>5, <2>7 DEF T
<1>6. Groups(group, f, S, key, B) /\ \A e \in S : key[e] \in B
  BY <1>4, <1>5 DEF Groups
<1>7. Summable(group, B)
  <2> HIDE DEF group, B
  <2> QED BY <1>1, <1>5 DEF Summable
<1> HIDE DEF f, S, B, key, group
<1>8. SumFunctionOnSet(group, B) = SumFunctionOnSet(f, S)
  BY ONLY <1>1, <1>2, <1>6, SumGrouped
<1> QED BY <1>2, <1>7, <1>8 DEF group, B, S

\* What is left to pay of each posted invoice, what was applied to it and what it came to.
Due == [i \in PostedInvoices |-> SettlementFor(i)]
Paid == [i \in PostedInvoices |-> AppliedToInvoice(i, None)]
Billed == [i \in PostedInvoices |-> doc[i].total]

LEMMA DueIs ==
  ASSUME Settled, NEW i \in PostedInvoices
  PROVE  /\ Due[i] \in Nat /\ Paid[i] \in Nat /\ Billed[i] \in Nat /\ Billed[i] = Due[i] + Paid[i]
         /\ i \in OpenItems <=> Due[i] > 0
<1> DEFINE S == {x \in Receipts : doc[x].status = "posted" /\ i \in DOMAIN doc[x].content}
           f == [x \in S |-> doc[x].content[i]]
<1>1. IInv /\ i \in Invoices /\ IsFrozen(i) /\ overtaken = {} /\ dialect = "sqlite"
  BY DEF Settled, PostedInvoices
<1>2. /\ {x \in Receipts \ {None} : IsFrozen(x) /\ i \in DOMAIN doc[x].content} = S
      /\ {x \in Receipts \ overtaken : IsFrozen(x) /\ i \in DOMAIN doc[x].content} = S
  BY <1>1, InvoicingAssumption DEF IsFrozen
<1>3. Paid[i] = SumFunctionOnSet(f, S)
  BY <1>1, <1>2 DEF Paid, PostedInvoices, AppliedToInvoice, SumOver, SumFunction
<1>4. SumFunctionOnSet(f, S) <= doc[i].total
  BY <1>1, <1>2 DEF IInv, NotOverApplied, SumOver, SumFunction
<1>5. SumFunctionOnSet(f, S) \in Nat
  <2>1. IsFiniteSet(S) /\ \A x \in S : f[x] \in Nat
    BY <1>1, AppliedType
  <2> HIDE DEF S, f
  <2> QED BY <2>1, SumNat
<1>6. doc[i].total \in Nat
  BY <1>1 DEF IInv, TypeOK, Documents
<1>7. Due[i] = doc[i].total - Paid[i] /\ Billed[i] = doc[i].total
  BY DEF Due, Paid, Billed, SettlementFor
<1> HIDE DEF f, S
<1>8. Due[i] \in Nat /\ Paid[i] \in Nat /\ Billed[i] \in Nat /\ Billed[i] = Due[i] + Paid[i]
  BY <1>3, <1>4, <1>5, <1>6, <1>7
<1>9. i \in OpenItems <=> Due[i] > 0
  BY <1>1 DEF OpenItems, Due, PostedInvoices
<1> QED BY <1>8, <1>9

LEMMA DueOver ==
  ASSUME Settled, NEW T, T \subseteq PostedInvoices
  PROVE  /\ IsFiniteSet(T) /\ Summable(Due, T) /\ \A i \in T : Due[i] \in Nat
         /\ SumOver(SettlementFor, T) = SumFunctionOnSet(Due, T)
<1> DEFINE f == [i \in T |-> SettlementFor(i)]
<1>1. IsFiniteSet(T) /\ \A i \in T : Due[i] \in Nat
  BY PostedFinite, FS_Subset, DueIs
<1>2. Summable(Due, T) /\ \A i \in T : Due[i] = f[i]
  BY <1>1 DEF Summable, Due
<1>3. SumFunctionOnSet(Due, T) = SumFunctionOnSet(f, T)
  <2> HIDE DEF f
  <2> QED BY ONLY <1>2, SumSame
<1> QED BY <1>1, <1>2, <1>3 DEF SumOver, SumFunction

\* The posted invoices whose receivable is account a.
BilledTo(a) == {i \in PostedInvoices : doc[i].content.ar = a}

(* What the receipts applied to those, receipt by receipt or invoice by invoice. *)
LEMMA AppliedBothWays ==
  ASSUME Settled, NEW a,
         NEW g, \A r \in PostedReceipts : g[r] = AppliedTo(doc[r].content, Receivables(doc[r].content), a)
  PROVE  /\ Summable(g, PostedReceipts) /\ Summable(Paid, BilledTo(a))
         /\ SumFunctionOnSet(g, PostedReceipts) = SumFunctionOnSet(Paid, BilledTo(a))
<1> DEFINE J == BilledTo(a)
           R == PostedReceipts
           table == [i \in J |-> [r \in R |-> IF i \in DOMAIN doc[r].content THEN doc[r].content[i] ELSE 0]]
<1>1. J \subseteq PostedInvoices /\ IsFiniteSet(J) /\ IsFiniteSet(R)
  <2>1. J \subseteq PostedInvoices
    BY DEF BilledTo
  <2> QED BY <2>1, PostedFinite, FS_Subset
<1>2. ASSUME NEW r \in R
      PROVE  /\ r \in Receipts /\ doc[r].content \in Contents[r] /\ IsFrozen(r)
             /\ \A i \in DOMAIN doc[r].content : i \in PostedInvoices /\ doc[r].content[i] \in Nat
             /\ IsFiniteSet(DOMAIN doc[r].content)
  <2>1. r \in PostedDocuments /\ r \in Receipts /\ IsFrozen(r)
    BY DEF PostedDocuments, PostedReceipts
  <2> QED BY <2>1, PostedEntry, ReceiptAmounts
<1>3. IsTable(table, J, R)
  <2>1. ASSUME NEW i \in J, NEW r \in R PROVE table[i][r] \in Int
    BY <1>2
  <2> HIDE DEF table, J, R
  <2> QED BY <1>1, <2>1 DEF IsTable
<1>4. ASSUME NEW i \in J PROVE Paid[i] = SumFunctionOnSet(table[i], R)
  <2> DEFINE S == {x \in R : i \in DOMAIN doc[x].content}
             f == [x \in S |-> doc[x].content[i]]
             h == table[i]
  <2>1. {x \in Receipts \ {None} : IsFrozen(x) /\ i \in DOMAIN doc[x].content} = S
    BY InvoicingAssumption DEF PostedReceipts
  <2>2. Paid[i] = SumFunctionOnSet(f, S)
    BY <1>1, <2>1 DEF Paid, AppliedToInvoice, SumOver, SumFunction
  <2>3. Summable(h, R) /\ S \subseteq R /\ \A x \in R \ S : h[x] = 0
    <3>1. \A x \in R : h[x] \in Int
      BY <1>2
    <3>2. S \subseteq R /\ \A x \in R \ S : h[x] = 0
      OBVIOUS
    <3> HIDE DEF h, R, S
    <3> QED BY <1>1, <3>1, <3>2 DEF Summable
  <2>4. Summable(h, S) /\ \A x \in S : h[x] = f[x]
    <3>1. \A x \in S : h[x] = f[x]
      OBVIOUS
    <3> HIDE DEF h, R, S, f
    <3> QED BY <2>3, <3>1, SummableSubset
  <2> HIDE DEF h, R, S, f
  <2>5. SumFunctionOnSet(h, R) = SumFunctionOnSet(h, S)
    BY ONLY <2>3, SumSupport
  <2>6. SumFunctionOnSet(h, S) = SumFunctionOnSet(f, S)
    BY ONLY <2>4, SumSame
  <2> QED BY <2>2, <2>5, <2>6 DEF h
<1>5. ASSUME NEW r \in R PROVE g[r] = SumFunctionOnSet([i \in J |-> table[i][r]], J) /\ g[r] \in Int
  <2> DEFINE v == doc[r].content
             S == {x \in DOMAIN v : Receivables(v)[x] = a}
             f == [i \in S |-> v[i]]
             h == [i \in J |-> table[i][r]]
  <2>1. g[r] = SumFunctionOnSet(f, S)
    BY DEF AppliedTo
  <2>2. S \subseteq J
    BY <1>2 DEF Receivables, BilledTo
  <2>3. \A i \in J : h[i] = IF i \in DOMAIN v THEN v[i] ELSE 0
    OBVIOUS
  <2>4. \A i \in S : h[i] = f[i]
    BY <2>2, <2>3
  <2>5. ASSUME NEW i \in J \ S PROVE h[i] = 0
    <3>1. i \notin DOMAIN v
      BY DEF Receivables, BilledTo
    <3> QED BY <3>1
  <2>6. \A i \in J : h[i] \in Int
    BY <1>2
  <2> HIDE DEF h, S, f, J
  <2>7. Summable(h, J)
    BY <1>1, <2>6 DEF Summable
  <2>8. Summable(h, S)
    BY <2>2, <2>7, SummableSubset
  <2>9. SumFunctionOnSet(h, J) = SumFunctionOnSet(h, S)
    BY ONLY <2>2, <2>5, <2>7, SumSupport
  <2>10. SumFunctionOnSet(h, S) = SumFunctionOnSet(f, S)
    BY ONLY <2>4, <2>8, SumSame
  <2>11. SumFunctionOnSet(h, S) \in Int
    BY <2>8, SumType
  <2> QED BY <2>1, <2>9, <2>10, <2>11 DEF h
<1>6. Summable(Paid, J) /\ Summable(g, R)
  <2>1. \A i \in J : Paid[i] \in Int
    BY <1>1, DueIs
  <2> HIDE DEF J, R
  <2> QED BY <1>1, <1>5, <2>1 DEF Summable
<1> HIDE DEF table, J, R
<1>7. SumsRows(Paid, table, J, R) /\ SumsColumns(g, table, J, R)
  BY <1>4, <1>5 DEF SumsRows, SumsColumns
<1>8. SumFunctionOnSet(Paid, J) = SumFunctionOnSet(g, R)
  BY ONLY <1>3, <1>7, SumExchange
<1> QED BY <1>6, <1>8 DEF J, R

(* The ledger's balance of a receivable, over the entries of the posted documents, is what is *)
(* due on its invoices.                                                                       *)
LEMMA ReceivableIsDue ==
  ASSUME Settled, NEW i0 \in PostedInvoices, NEW a, a = doc[i0].content.ar
  PROVE  Fold(TheirEntries)[a] = SumFunctionOnSet(Due, BilledTo(a))
<1> DEFINE f == [d \in PostedDocuments |-> add(Journal(d), a)]
           I == PostedInvoices
           R == PostedReceipts
           J == BilledTo(a)
           g == [r \in R |-> AppliedTo(doc[r].content, Receivables(doc[r].content), a)]
<1>1. \A i \in I : /\ i \in Invoices /\ i \in PostedDocuments /\ doc[i].content \in Contents[i]
                   /\ doc[i].total = DocTotal(i)
  BY PostedEntry DEF PostedInvoices, PostedDocuments
<1>2. a \in Accounts /\ a # BankAccount /\ a # TaxAccount /\ \A i \in I : a \notin RevenueAccounts(doc[i].content)
  <2>1. doc[i0].content \in Contents[i0] /\ i0 \in Invoices
    BY <1>1
  <2>2. a \in Accounts
    BY <2>1, InvoiceAmounts
  <2> QED BY <1>1, <2>1, <2>2 DEF Settled, ReceivablesApart
<1>3. Summable(f, PostedDocuments) /\ Fold(TheirEntries)[a] = SumFunctionOnSet(f, PostedDocuments)
  BY <1>2, FoldsJournals
<1>4. ASSUME NEW i \in I PROVE f[i] = IF i \in J THEN Billed[i] ELSE 0
  <2>1. Journal(i) = buildInvoiceJournal(doc[i].content, DocTax(i))
        /\ DocTotal(i) = Gross(doc[i].content, DocTax(i))
    BY <1>1 DEF Journal, DocTotal
  <2>2. a \in Accounts \ (RevenueAccounts(doc[i].content) \cup {TaxAccount})
    BY <1>2
  <2>3. add(Journal(i), a) = IF doc[i].content.ar = a THEN Gross(doc[i].content, DocTax(i)) ELSE 0
    <3>1. DocTax(i) \in Nat
      <4>1. i \in Documents /\ i \notin Receipts
        BY <1>1, InvoicingAssumption DEF Documents
      <4>2. doc[i].tax \in Nat
        BY <4>1 DEF Settled, IInv, TypeOK
      <4> QED BY <4>1, <4>2 DEF DocTax, PostedInvoices
    <3> QED BY <1>1, <2>1, <2>2, <3>1, InvoiceEffect
  <2> QED BY <1>1, <2>1, <2>3 DEF BilledTo, Billed
<1>5. ASSUME NEW r \in R PROVE f[r] = -g[r]
  <2> DEFINE v == doc[r].content
             ar == Receivables(v)
  <2>1. r \in PostedDocuments /\ r \in Receipts /\ r \notin Invoices
    BY InvoicingAssumption DEF PostedReceipts, PostedDocuments
  <2>2. v \in Contents[r] /\ \A i \in DOMAIN v : i \in I
    BY <2>1, PostedEntry
  <2>3. \A i \in DOMAIN v : ar[i] \in Accounts
    <3> SUFFICES ASSUME NEW i \in DOMAIN v PROVE doc[i].content.ar \in Accounts
      BY DEF Receivables
    <3>1. i \in Invoices /\ doc[i].content \in Contents[i]
      BY <1>1, <2>2
    <3> QED BY <3>1, InvoiceAmounts
  <2>4. Journal(r) = buildReceiptJournal(v, ar)
    BY <2>1 DEF Journal
  <2>5. a \in Accounts \ {BankAccount}
    BY <1>2
  <2> HIDE DEF v, ar
  <2>6. add(buildReceiptJournal(v, ar), a) = -AppliedTo(v, ar, a)
    BY <2>1, <2>2, <2>3, <2>5, ReceiptEffect
  <2> QED BY <2>1, <2>4, <2>6 DEF v, ar
<1>6. \A r \in R : g[r] = AppliedTo(doc[r].content, Receivables(doc[r].content), a)
  OBVIOUS
<1>7. Summable(Billed, J) /\ Summable(Due, J) /\ J \subseteq I /\ \A i \in J : Billed[i] = Due[i] + Paid[i]
  <2>1. J \subseteq I
    BY DEF BilledTo
  <2>2. IsFiniteSet(J)
    BY <2>1, PostedFinite, FS_Subset
  <2>3. \A i \in J : Billed[i] \in Int /\ Due[i] \in Int /\ Billed[i] = Due[i] + Paid[i]
    BY <2>1, DueIs
  <2> QED BY <2>1, <2>2, <2>3 DEF Summable
<1> HIDE DEF f, g, J, I, R
<1>8. Summable(g, R) /\ Summable(Paid, J) /\ SumFunctionOnSet(g, R) = SumFunctionOnSet(Paid, J)
  BY <1>6, AppliedBothWays DEF J, R
<1>9. SumFunctionOnSet(f, PostedDocuments) = SumFunctionOnSet(f, I) + SumFunctionOnSet(f, R)
  <2>1. PostedDocuments = I \cup R /\ I \cap R = {}
    BY PostedFinite DEF I, R, PostedDocuments
  <2> QED BY <1>3, <2>1, SumUnion
<1>10. SumFunctionOnSet(f, I) = SumFunctionOnSet(Billed, J)
  <2>1. Summable(f, I)
    <3>1. I \subseteq PostedDocuments
      BY DEF I, PostedDocuments
    <3> QED BY <1>3, <3>1, SummableSubset
  <2>2. \A i \in I \ J : f[i] = 0
    BY <1>4
  <2>3. \A i \in J : Billed[i] = f[i]
    BY <1>4, <1>7
  <2>4. SumFunctionOnSet(f, I) = SumFunctionOnSet(f, J)
    BY ONLY <1>7, <2>1, <2>2, SumSupport
  <2>5. SumFunctionOnSet(Billed, J) = SumFunctionOnSet(f, J)
    BY ONLY <1>7, <2>3, SumSame
  <2> QED BY <2>4, <2>5
<1>11. SumFunctionOnSet(f, R) = -SumFunctionOnSet(g, R)
  BY ONLY <1>5, <1>8, SumNegates
<1>12. SumFunctionOnSet(Billed, J) = SumFunctionOnSet(Due, J) + SumFunctionOnSet(Paid, J)
  BY ONLY <1>7, <1>8, SumPlus
<1>13. SumFunctionOnSet(Due, J) \in Int /\ SumFunctionOnSet(Paid, J) \in Int
  BY <1>7, <1>8, SumType
<1>14. Fold(TheirEntries)[a] = SumFunctionOnSet(Due, J)
  BY <1>3, <1>8, <1>9, <1>10, <1>11, <1>12, <1>13
<1> QED BY <1>14 DEF J

Buckets == {"current", "1_30", "31_60", "61_90", "90_plus"}

LEMMA AgeIs ==
  ASSUME NEW i \in Invoices
  PROVE  /\ ageInDays(i) \in Nat /\ bucketFor(ageInDays(i)) \in Buckets
         /\ bucketFor(ageInDays(i)) = "current" <=> ~(ageInDays(i) > 0)
<1>1. ageInDays(i) \in Nat
  BY ReportingAssumption DEF ageInDays
<1>2. PICK n \in Nat : n = ageInDays(i)
  BY <1>1
<1>3. bucketFor(n) \in Buckets /\ (bucketFor(n) = "current" <=> ~(n > 0))
  BY DEF bucketFor, Buckets
<1> QED BY <1>2, <1>3

(* The aging shows every open item once. *)
LEMMA AgingIsWhole ==
  ASSUME Settled
  PROVE  /\ SumOver(LAMBDA b : ARAging[b], DOMAIN ARAging) = ar_outstanding
         /\ ar_outstanding - ARAging["current"] = ar_overdue
<1> DEFINE S == OpenItems
           key == [i \in S |-> bucketFor(ageInDays(i))]
           group == [b \in Buckets |-> ARAging[b]]
           late == {i \in S : ageInDays(i) > 0}
           now == {i \in S : bucketFor(ageInDays(i)) = "current"}
<1>1. S \subseteq PostedInvoices /\ S \subseteq Invoices
  BY DEF OpenItems, PostedInvoices
<1>2. /\ DOMAIN ARAging = Buckets
      /\ \A b \in Buckets : ARAging[b] = SumOver(SettlementFor, {i \in S : bucketFor(ageInDays(i)) = b})
  BY DEF ARAging, Buckets
<1>3. \A b \in Buckets : ARAging[b] = SumFunctionOnSet(Due, {i \in S : bucketFor(ageInDays(i)) = b})
  <2> SUFFICES ASSUME NEW b \in Buckets
               PROVE  SumOver(SettlementFor, {i \in S : bucketFor(ageInDays(i)) = b})
                        = SumFunctionOnSet(Due, {i \in S : bucketFor(ageInDays(i)) = b})
    BY <1>2
  <2> DEFINE T == {i \in S : bucketFor(ageInDays(i)) = b}
  <2>1. T \subseteq PostedInvoices
    BY <1>1
  <2> HIDE DEF T
  <2>2. SumOver(SettlementFor, T) = SumFunctionOnSet(Due, T)
    BY <2>1, DueOver
  <2> QED BY <2>2 DEF T
<1>4. Summable(Due, S) /\ ar_outstanding = SumFunctionOnSet(Due, S)
  BY <1>1, DueOver DEF ar_outstanding
<1>5. ar_overdue = SumFunctionOnSet(Due, late)
  <2>1. late \subseteq PostedInvoices /\ ar_overdue = SumOver(SettlementFor, late)
    BY <1>1 DEF ar_overdue
  <2> HIDE DEF late
  <2> QED BY <2>1, DueOver
<1>6. \A i \in S : key[i] \in Buckets
  BY <1>1, AgeIs
<1>7. ASSUME NEW b \in Buckets PROVE group[b] = SumFunctionOnSet(Due, {i \in S : key[i] = b})
  <2>1. {i \in S : key[i] = b} = {i \in S : bucketFor(ageInDays(i)) = b}
    OBVIOUS
  <2> QED BY <1>3, <2>1
<1>8. IsFiniteSet(Buckets)
  <2>1. IsFiniteSet({"current"}) /\ IsFiniteSet({"1_30"}) /\ IsFiniteSet({"31_60"})
        /\ IsFiniteSet({"61_90"}) /\ IsFiniteSet({"90_plus"})
    BY FS_Singleton
  <2>2. Buckets = {"current"} \cup ({"1_30"} \cup ({"31_60"} \cup ({"61_90"} \cup {"90_plus"})))
    BY DEF Buckets
  <2> HIDE DEF Buckets
  <2> QED BY <2>1, <2>2, FS_Union
<1>9. SumFunctionOnSet(group, Buckets) = ar_outstanding
  <2>1. Groups(group, Due, S, key, Buckets)
    BY <1>7 DEF Groups
  <2> HIDE DEF group, S, key, Buckets
  <2>2. SumFunctionOnSet(group, Buckets) = SumFunctionOnSet(Due, S)
    BY ONLY <1>4, <1>6, <1>8, <2>1, SumGrouped
  <2> QED BY <1>4, <2>2
<1>10. SumOver(LAMBDA b : ARAging[b], DOMAIN ARAging) = SumFunctionOnSet(group, Buckets)
  BY <1>2 DEF SumOver, SumFunction
<1>11. ar_outstanding - ARAging["current"] = ar_overdue
  <2>1. S = now \cup late /\ now \cap late = {}
    BY <1>1, AgeIs
  <2>2. ARAging["current"] = SumFunctionOnSet(Due, now)
    BY <1>3 DEF Buckets
  <2>3. Summable(Due, now) /\ Summable(Due, late)
    <3>1. now \subseteq S /\ late \subseteq S
      OBVIOUS
    <3> HIDE DEF now, late, S
    <3> QED BY <1>4, <3>1, SummableSubset
  <2> HIDE DEF now, late, S
  <2>4. SumFunctionOnSet(Due, S) = SumFunctionOnSet(Due, now) + SumFunctionOnSet(Due, late)
    BY <1>4, <2>1, SumUnion
  <2>5. SumFunctionOnSet(Due, now) \in Int /\ SumFunctionOnSet(Due, late) \in Int
    BY <2>3, SumType
  <2> QED BY <1>4, <1>5, <2>2, <2>4, <2>5
<1>12. SumOver(LAMBDA b : ARAging[b], DOMAIN ARAging) = ar_outstanding
  BY <1>9, <1>10 DEF SumOver
<1> QED BY <1>11, <1>12

LEMMA OpenIsDue ==
  ASSUME Settled
  PROVE  open_invoice_count > 0 <=> ar_outstanding > 0
<1> DEFINE S == OpenItems
<1>1. S \subseteq PostedInvoices
  BY DEF OpenItems, PostedInvoices
<1>2. /\ IsFiniteSet(S) /\ Summable(Due, S) /\ ar_outstanding = SumFunctionOnSet(Due, S)
      /\ \A i \in S : Due[i] \in Nat /\ Due[i] > 0
  BY <1>1, DueOver, DueIs DEF ar_outstanding
<1>3. open_invoice_count = Cardinality(S) /\ Cardinality(S) \in Nat /\ (Cardinality(S) = 0 <=> S = {})
  BY <1>2, FS_CardinalityType, FS_EmptySet DEF open_invoice_count
<1> HIDE DEF S
<1>4. CASE S = {}
  <2>1. SumFunctionOnSet(Due, S) = 0
    BY <1>4, SumEmpty
  <2> QED BY <1>2, <1>3, <1>4, <2>1
<1>5. CASE S # {}
  <2>1. PICK i \in S : TRUE
    BY <1>5
  <2> DEFINE T == S \ {i}
  <2>2. Grown(S, T, i) /\ T \subseteq S
    BY DEF Grown
  <2>3. IsFiniteSet(T) /\ \A x \in T : Due[x] \in Nat
    BY <1>2, FS_Subset
  <2> HIDE DEF T
  <2>4. SumFunctionOnSet(Due, S) = SumFunctionOnSet(Due, T) + Due[i]
    BY <1>2, <2>2, SumGrows
  <2>5. SumFunctionOnSet(Due, T) \in Nat
    BY <2>3, SumNat
  <2>6. ar_outstanding > 0
    BY <1>2, <2>4, <2>5
  <2> QED BY <1>3, <1>5, <2>6
<1> QED BY <1>4, <1>5

(* The open items of each receivable are its balance, the aging shows all of them, and there  *)
(* is something outstanding exactly when an item is open: for any invoices and receipts, as   *)
(* long as no account is both a receivable and one of the others that journals use.           *)
THEOREM ReceivablesAlwaysReconcile ==
  ASSUME ReceivablesApart
  PROVE  Spec => []ReceivablesReconcile
<1>1. ASSUME IInv PROVE ReceivablesReconcile
  <2> SUFFICES ASSUME dialect = "sqlite", overtaken = {}
               PROVE  LET tb == Fold({e \in events : \E d \in Documents : IsFrozen(d) /\ e.cmd = Command(d)})
                          aging == ARAging
                          receivables == {doc[i].content.ar : i \in {x \in Invoices : IsFrozen(x)}}
                          openIn(a) == SumOver(SettlementFor, {i \in OpenItems : doc[i].content.ar = a})
                      IN /\ \A a \in receivables : openIn(a) = tb[a]
                         /\ SumOver(LAMBDA b : aging[b], DOMAIN aging) = ar_outstanding
                         /\ ar_outstanding - aging["current"] = ar_overdue
                         /\ open_invoice_count > 0 <=> ar_outstanding > 0
    BY DEF ReceivablesReconcile
  <2>1. Settled
    BY <1>1 DEF Settled
  <2>2. ASSUME NEW a \in {doc[i].content.ar : i \in {x \in Invoices : IsFrozen(x)}}
        PROVE  SumOver(SettlementFor, {i \in OpenItems : doc[i].content.ar = a}) = Fold(TheirEntries)[a]
    <3>1. PICK i0 \in PostedInvoices : a = doc[i0].content.ar
      BY DEF PostedInvoices
    <3> DEFINE T == {i \in OpenItems : doc[i].content.ar = a}
               J == BilledTo(a)
    <3>2. T \subseteq J /\ J \subseteq PostedInvoices /\ T \subseteq PostedInvoices
      BY DEF OpenItems, PostedInvoices, BilledTo
    <3>3. \A i \in J \ T : Due[i] = 0
      <4> SUFFICES ASSUME NEW i \in J \ T PROVE Due[i] = 0
        OBVIOUS
      <4>1. i \in PostedInvoices /\ i \notin OpenItems
        BY DEF BilledTo
      <4> QED BY <2>1, <4>1, DueIs
    <3> HIDE DEF T, J
    <3>4. Summable(Due, J) /\ SumOver(SettlementFor, T) = SumFunctionOnSet(Due, T)
      BY <2>1, <3>2, DueOver
    <3>5. SumFunctionOnSet(Due, J) = SumFunctionOnSet(Due, T)
      BY ONLY <3>2, <3>3, <3>4, SumSupport
    <3>6. Fold(TheirEntries)[a] = SumFunctionOnSet(Due, J)
      BY <2>1, <3>1, ReceivableIsDue DEF J
    <3> QED BY <3>4, <3>5, <3>6 DEF T
  <2>3. /\ SumOver(LAMBDA b : ARAging[b], DOMAIN ARAging) = ar_outstanding
        /\ ar_outstanding - ARAging["current"] = ar_overdue
    BY <2>1, AgingIsWhole
  <2>4. open_invoice_count > 0 <=> ar_outstanding > 0
    BY <2>1, OpenIsDue
  <2> QED BY <2>2, <2>3, <2>4 DEF TheirEntries
<1>2. IInv => ReceivablesReconcile
  BY <1>1
<1> QED BY <1>2, Invariance, PTL

(* The reports agree with the books and with each other. *)
THEOREM ReportsAlwaysAgree ==
  ASSUME ReceivablesApart
  PROVE  Spec => []ReportsAgree
<1>1. Spec => [](StatementsBalance /\ CardsAddUp /\ ReceivablesReconcile)
  BY StatementsAlwaysBalance, CardsAlwaysAddUp, ReceivablesAlwaysReconcile, PTL
<1> QED BY <1>1, PTL DEF ReportsAgree
================================================================================
