------------------------------- MODULE RecordsProofs -------------------------------
(****************************************************************************)
(* What holds of the records of a business object whatever the object, the  *)
(* overlays, the hooks, the modules and the number of clients are.          *)
(****************************************************************************)
EXTENDS Records, WellFoundedInduction, FiniteSetTheorems, TLAPS

(* Induction over the naturals, and what a fold computes. *)

(* A set that holds zero, and with a number the next one, holds every number: otherwise
   there was a least one that it does not hold. *)
LEMMA Induction ==
  ASSUME NEW G, 0 \in G, \A n \in Nat : n \in G => n + 1 \in G
  PROVE  \A n \in Nat : n \in G
<1> DEFINE T == {n \in Nat : n \notin G}
           R == OpToRel(<, Nat)
<1>1. SUFFICES ASSUME T # {} PROVE FALSE
  OBVIOUS
<1>2. PICK x \in T : \A y \in T : ~(<<y, x>> \in R)
  <2>1. IsWellFoundedOn(R, Nat)
    BY NatLessThanWellFounded
  <2>2. T \subseteq Nat
    OBVIOUS
  <2> HIDE DEF T, R
  <2> QED BY <1>1, <2>1, <2>2, WFMin
<1>3. x \in Nat /\ x # 0 /\ x - 1 \in Nat /\ x - 1 < x
  <2>1. x \in Nat /\ x \notin G
    BY <1>2
  <2> QED BY <2>1
<1>4. x - 1 \notin T
  <2>1. <<x - 1, x>> \in R
    BY <1>3 DEF OpToRel
  <2> QED BY <1>2, <2>1
<1>5. x - 1 \in G
  BY <1>3, <1>4
<1>6. x \notin G
  BY <1>2
<1> HIDE DEF T, R
<1> QED BY <1>3, <1>5, <1>6

(* A nonempty set of numbers up to n has a largest one. *)
LEMMA Largest ==
  ASSUME NEW n \in Nat, NEW S, S \subseteq 1..n, S # {}
  PROVE  Max(S) \in S /\ \A y \in S : Max(S) >= y
<1> DEFINE Bounded(m) == \A s : s \subseteq 1..m /\ s # {} => \E x \in s : \A y \in s : x >= y
           G == {m \in Nat : Bounded(m)}
<1>1. 0 \in G
  OBVIOUS
<1>2. ASSUME NEW m \in Nat, m \in G PROVE m + 1 \in G
  <2>1. Bounded(m + 1)
    <3> SUFFICES ASSUME NEW s, s \subseteq 1..m + 1, s # {}
                 PROVE  \E x \in s : \A y \in s : x >= y
      OBVIOUS
    <3>1. CASE m + 1 \in s
      BY <3>1
    <3>2. CASE m + 1 \notin s
      <4>1. s \subseteq 1..m
        BY <3>2
      <4> QED BY <4>1, <1>2
    <3> QED BY <3>1, <3>2
  <2> HIDE DEF Bounded
  <2> QED BY <2>1
<1>3. n \in G
  <2> HIDE DEF G
  <2> QED BY <1>1, <1>2, Induction
<1>4. \E x \in S : \A y \in S : x >= y
  BY <1>3
<1> QED BY <1>4 DEF Max

\* A fold takes the elements of a finite set out one by one, in the order of pick, and
\* combines them with step.
Picks(S, pick) == \A s \in SUBSET S : s # {} => pick[s] \in s
Steps(S, V, step) == \A x \in S, v \in V : step[<<x, v>>] \in V
IsFold(it, S, V, base, pick, step) ==
  /\ it \in [SUBSET S -> V]
  /\ \A s \in SUBSET S : it[s] = IF s = {} THEN base ELSE step[<<pick[s], it[s \ {pick[s]}]>>]

(* The function that a fold over a finite set is defined with exists. *)
LEMMA FoldExists ==
  ASSUME NEW S, IsFiniteSet(S), NEW V, NEW base \in V,
         NEW pick, Picks(S, pick), NEW step, Steps(S, V, step)
  PROVE  \E it : IsFold(it, S, V, base, pick, step)
<1> USE DEF Picks, Steps, IsFold
<1> DEFINE Small(n) == {s \in SUBSET S : Cardinality(s) <= n}
           Good(n, it) == /\ it \in [Small(n) -> V]
                          /\ \A s \in Small(n) :
                               it[s] = IF s = {} THEN base ELSE step[<<pick[s], it[s \ {pick[s]}]>>]
           G == {n \in Nat : \E it : Good(n, it)}
<1>1. ASSUME NEW s \in SUBSET S
      PROVE  /\ IsFiniteSet(s) /\ Cardinality(s) \in Nat
             /\ Cardinality(s) = 0 <=> s = {}
             /\ Cardinality(s) <= Cardinality(S)
  <2>1. IsFiniteSet(s)
    BY FS_Subset
  <2> QED BY <2>1, FS_CardinalityType, FS_EmptySet, FS_Subset
<1>2. ASSUME NEW s \in SUBSET S, s # {}
      PROVE  s \ {pick[s]} \in SUBSET S /\ Cardinality(s \ {pick[s]}) = Cardinality(s) - 1 /\ pick[s] \in S
  BY <1>1, <1>2, FS_RemoveElement
<1>3. 0 \in G
  <2> DEFINE it == [s \in Small(0) |-> base]
  <2>1. \A s \in Small(0) : s = {}
    BY <1>1
  <2>2. Good(0, it)
    BY <2>1
  <2> QED BY <2>2
<1>4. ASSUME NEW n \in Nat, n \in G PROVE n + 1 \in G
  <2>1. PICK it : Good(n, it)
    BY <1>4
  <2> DEFINE more == [s \in Small(n + 1) |->
                        IF s = {} THEN base ELSE step[<<pick[s], it[s \ {pick[s]}]>>]]
  <2>2. ASSUME NEW s \in Small(n + 1), s # {}
        PROVE  s \ {pick[s]} \in Small(n) /\ pick[s] \in S /\ it[s \ {pick[s]}] \in V
    <3>1. s \ {pick[s]} \in Small(n) /\ pick[s] \in S
      BY <1>1, <1>2, <2>2
    <3> QED BY <3>1, <2>1
  <2>3. more \in [Small(n + 1) -> V]
    BY <2>2
  <2>4. ASSUME NEW s \in Small(n) PROVE s \in Small(n + 1) /\ more[s] = it[s]
    <3>1. s \in Small(n + 1)
      BY <1>1
    <3> QED BY <3>1, <2>1
  <2>5. Good(n + 1, more)
    <3>1. ASSUME NEW s \in Small(n + 1)
          PROVE  more[s] = IF s = {} THEN base ELSE step[<<pick[s], more[s \ {pick[s]}]>>]
      <4>1. s # {} => more[s \ {pick[s]}] = it[s \ {pick[s]}]
        BY <2>2, <2>4
      <4> QED BY <4>1
    <3> QED BY <3>1, <2>3
  <2>6. \E good : Good(n + 1, good)
    <3> HIDE DEF Good, more
    <3> QED BY <2>5
  <2>7. n + 1 \in Nat
    OBVIOUS
  <2> HIDE DEF Good
  <2> QED BY <2>6, <2>7
<1>5. Cardinality(S) \in G
  <2> HIDE DEF G
  <2> QED BY <1>1, <1>3, <1>4, Induction
<1>6. PICK it : Good(Cardinality(S), it)
  BY <1>5
<1>7. Small(Cardinality(S)) = SUBSET S
  BY <1>1
<1> QED BY <1>6, <1>7

Computes(g, S, V, base, pick, step) ==
  /\ g[{}] = base
  /\ \A s \in SUBSET S :
       s # {} /\ g[s \ {pick[s]}] \in V => g[s] = step[<<pick[s], g[s \ {pick[s]}]>>]

(* And there is only one: what is computed the same way is the same. *)
LEMMA FoldOnly ==
  ASSUME NEW S, IsFiniteSet(S), NEW V, NEW base, NEW pick, Picks(S, pick), NEW step,
         NEW it, IsFold(it, S, V, base, pick, step),
         NEW g, Computes(g, S, V, base, pick, step)
  PROVE  \A s \in SUBSET S : g[s] = it[s]
<1> DEFINE G == {n \in Nat : \A s \in SUBSET S : Cardinality(s) = n => g[s] = it[s]}
<1>1. ASSUME NEW s \in SUBSET S
      PROVE  IsFiniteSet(s) /\ Cardinality(s) \in Nat /\ (Cardinality(s) = 0 <=> s = {})
  <2>1. IsFiniteSet(s)
    BY FS_Subset
  <2> QED BY <2>1, FS_CardinalityType, FS_EmptySet
<1>2. 0 \in G
  BY <1>1 DEF IsFold, Computes
<1>3. ASSUME NEW n \in Nat, n \in G PROVE n + 1 \in G
  <2> SUFFICES ASSUME NEW s \in SUBSET S, Cardinality(s) = n + 1 PROVE g[s] = it[s]
    OBVIOUS
  <2>1. s # {} /\ pick[s] \in s /\ s \ {pick[s]} \in SUBSET S
    BY <1>1 DEF Picks
  <2>2. Cardinality(s \ {pick[s]}) = n
    <3>1. Cardinality(s \ {pick[s]}) = Cardinality(s) - 1
      BY <1>1, <2>1, FS_RemoveElement
    <3> QED BY <3>1
  <2>3. g[s \ {pick[s]}] = it[s \ {pick[s]}] /\ it[s \ {pick[s]}] \in V
    BY <1>3, <2>1, <2>2 DEF IsFold
  <2> QED BY <2>1, <2>3 DEF IsFold, Computes
<1>4. \A n \in Nat : n \in G
  <2> HIDE DEF G
  <2> QED BY <1>2, <1>3, Induction
<1> QED BY <1>1, <1>4
------------------------------------------------------------------------------------


\* The documents a source may bring, and what they may say of the roles.
AllDocuments == UNION Range(Documents)

\* A shape that core or one of the layers has given: it has the columns, and accepts no more
\* in them than core does.
Shape(eff) ==
  /\ DOMAIN Core \subseteq DOMAIN eff.fields /\ DOMAIN eff.fields \subseteq Names
  /\ \A f \in DOMAIN eff.fields : eff.fields[f] \in Field
  /\ \A f \in DOMAIN Core : eff.fields[f].options \subseteq Core[f].options

RowOK(row) ==
  /\ DOMAIN row = {"core", "custom", "archived"}
  /\ row.core \in [DOMAIN Core -> Values]
  /\ \A f \in DOMAIN Core : row.core[f] \in Core[f].options
  /\ DOMAIN row.custom \subseteq Names \ DOMAIN Core
  /\ \A f \in DOMAIN row.custom : row.custom[f] \in Values

Plugin == [hook : HookKinds, failures : 0..BreakerThreshold, breaker : {"closed", "open", "cooled"}]
ListOK(list) == DOMAIN list \subseteq Plugins /\ \A x \in DOMAIN list : list[x] \in Plugin

\* What the clerk may do to records is conditional.
OwnOnly(conds) == conds \subseteq {{"own"}}

\* A write on its way. It has the fields of the step it is at; the shape it was given is one;
\* the hooks that must pass it are among those it has still to ask; in the transaction the
\* body has been judged by that shape, and none is left that must pass it.
WriteOK(t) ==
  /\ t.at \in {"gate", "resolve", "auth", "plugins", "hooks", "insert", "read", "commit"}
  /\ {"verb", "by", "id", "body"} \subseteq DOMAIN t
  /\ t.verb \in {"create", "update", "delete"} /\ t.by \in Users /\ t.id \in Ids
  /\ \A f \in DOMAIN t.body : t.body[f] \in Values
  /\ t.verb # "create" => t.id \in DOMAIN rows
  /\ t.at \in {"auth", "plugins", "hooks", "insert", "read", "commit"} =>
       "eff" \in DOMAIN t /\ Shape(t.eff)
  /\ t.at \in {"plugins", "hooks", "insert", "read", "commit"} =>
       /\ "conds" \in DOMAIN t
       /\ t.by = Clerk /\ scenario.left["grant"] = 0 => OwnOnly(t.conds)
  /\ t.at \in {"hooks", "insert", "read", "commit"} =>
       /\ {"list", "todo", "must"} \subseteq DOMAIN t
       /\ ListOK(t.list)
       /\ t.todo \subseteq DOMAIN t.list
       /\ t.must \subseteq {x \in t.todo : t.list[x].hook = "reject"}
  /\ t.at \in {"insert", "read", "commit"} =>
       /\ t.must = {}
       /\ t.verb = "delete" \/ validated(t.eff, t.body, t.verb # "create")
       /\ t.at = "insert" <=> t.verb = "create"
  /\ t.at = "commit" =>
       /\ "row" \in DOMAIN t /\ RowOK(t.row)
       /\ Allow(t.conds, t.row.core[Owner])

\* An administrator who stores or removes a document.
DocumentOK(t) ==
  /\ "source" \in DOMAIN t /\ t.source \in DOMAIN Documents
  /\ t.op \in {"overlay", "unoverlay"} => t.source = Tenant
  /\ t.op \in {"install", "uninstall"} => t.source \in Plugins
  /\ t.op # "uninstall" => "doc" \in DOMAIN t /\ t.doc \in Documents[t.source]

\* The modules stay whole if s is what is on.
Whole(s) == Kernel \subseteq s /\ s \subseteq Modules /\ \A m \in s : Requires[m] \subseteq s

\* An administrator who switches a module: what is about to be written leaves the modules
\* that were on when they were read whole, if they were.
SwitchOK(t) ==
  /\ "mod" \in DOMAIN t /\ t.mod \in Modules
  /\ t.at = "write" =>
       /\ {"seen", "on", "off"} \subseteq DOMAIN t
       /\ t.on \subseteq Modules
       /\ Whole(t.seen) => Whole((t.seen \cup t.on) \ t.off)

TaskOK(t) ==
  /\ {"op", "at"} \subseteq DOMAIN t
  /\ t.op \in {"idle", "write", "overlay", "unoverlay", "install", "uninstall",
               "enable", "disable", "profile"}
  /\ t.op = "write" => WriteOK(t)
  /\ t.op \in {"overlay", "unoverlay", "install", "uninstall"} => DocumentOK(t)
  /\ t.op \in {"enable", "disable"} => SwitchOK(t)

\* What is in the tables of the rows is well typed and accepted by core.
RowsOK == DOMAIN rows \subseteq Ids /\ \A id \in DOMAIN rows : RowOK(rows[id]) /\ rows[id].archived \in BOOLEAN

\* The audit log: it is about rows there are, was passed by the hooks, and tells the row.
EntryOK(e) ==
  /\ e.id \in DOMAIN rows
  /\ DOMAIN e.diff \subseteq Names \cup {ArchivedAt}
  /\ e.must = {}
AuditOK ==
  /\ \A i \in 1..Len(audit) : EntryOK(audit[i])
  /\ audit \in Seq(Range(audit))
  /\ AuditTellsTheRow

\* Without new grants the clerk keeps what it has at most.
GrantsOK ==
  /\ members = {<<Boss, 1>>, <<Clerk, 2>>}
  /\ scenario.left["grant"] = 0 => left["grant"] = 0
  /\ scenario.left["grant"] = 0 =>
       \A g \in grants : g.role = 2 /\ g.perm \in ConditionalActions => g.cond = {"own"}

ModulesOK == enabled \subseteq Modules /\ (scenario.dialect = "sqlite" => Whole(enabled))

\* The rows and their log.
RecordsOK == RowsOK /\ AuditOK /\ (scenario.left["grant"] = 0 => OwnRecordsOnly)

TasksOK == DOMAIN task = Clients /\ \A c \in Clients : TaskOK(task[c])

\* The inductive invariant.
IInv == AuthzTypeOK /\ GrantsOK /\ OverlaysTypeOK /\ ModulesOK /\ RecordsOK /\ TasksOK

\* The step is one of c: the other tasks are where they were.
Acts(c) == DOMAIN task' = Clients /\ \A d \in Clients : d # c => task'[d] = task[d]

--------------------------------------------------------------------------------
(* Steps of a task. *)

(* Goto, Keep and End touch one task, and of that what they say. *)
LEMMA Gone ==
  ASSUME DOMAIN task = Clients, NEW c \in Clients, NEW step, Goto(c, step), "at" \in DOMAIN task[c]
  PROVE  /\ DOMAIN task' = Clients
         /\ \A d \in Clients : d # c => task'[d] = task[d]
         /\ DOMAIN task'[c] = DOMAIN task[c] /\ task'[c].at = step
         /\ \A f \in DOMAIN task[c] : f # "at" => task'[c][f] = task[c][f]
  BY DEF Goto

LEMMA Kept ==
  ASSUME DOMAIN task = Clients, NEW c \in Clients, NEW step, NEW what, Keep(c, step, what)
  PROVE  /\ DOMAIN task' = Clients
         /\ \A d \in Clients : d # c => task'[d] = task[d]
         /\ DOMAIN task'[c] = DOMAIN task[c] \cup DOMAIN what \cup {"at"} /\ task'[c].at = step
         /\ \A f \in DOMAIN what : f # "at" => task'[c][f] = what[f]
         /\ \A f \in DOMAIN task[c] : f \notin DOMAIN what \cup {"at"} => task'[c][f] = task[c][f]
  BY DEF Keep, Amend

LEMMA Ended ==
  ASSUME DOMAIN task = Clients, NEW c \in Clients, End(c)
  PROVE  /\ DOMAIN task' = Clients /\ task'[c] = Idle
         /\ \A d \in Clients : d # c => task'[d] = task[d]
  BY DEF End
--------------------------------------------------------------------------------
(* What a stack of documents merges to. *)

(* A layer that fits gives a shape again: it adds fields that are not there, and narrows. *)
LEMMA LaysShape ==
  ASSUME NEW eff, eff = None \/ Shape(eff), NEW doc \in AllDocuments, Lay(eff, doc) # None
  PROVE  Shape(Lay(eff, doc))
<1> DEFINE added == [f \in DOMAIN doc.add |-> [doc.add[f] EXCEPT !.overlay = TRUE]]
           fields == Amend(eff.fields, added)
           new == Lay(eff, doc).fields
<1>1. /\ Shape(eff)
      /\ DOMAIN doc.add \cap DOMAIN eff.fields = {}
      /\ narrow(fields, doc.narrow)
      /\ new = [f \in DOMAIN fields |-> IF f \in DOMAIN doc.narrow
                                        THEN [fields[f] EXCEPT !.options = doc.narrow[f]] ELSE fields[f]]
  BY DEF Lay
<1>2. DOMAIN fields = DOMAIN eff.fields \cup DOMAIN doc.add /\ DOMAIN new = DOMAIN fields
  BY <1>1 DEF Amend
<1>3. DOMAIN doc.add \subseteq Names
  BY DEF AllDocuments, Names
<1>4. \A f \in DOMAIN eff.fields : fields[f] = eff.fields[f]
  BY <1>1 DEF Amend
<1>5. \A f \in DOMAIN doc.add : fields[f] \in Field
  <2> SUFFICES ASSUME NEW f \in DOMAIN doc.add PROVE fields[f] \in Field
    OBVIOUS
  <2>1. fields[f] = [doc.add[f] EXCEPT !.overlay = TRUE]
    BY DEF Amend
  <2>2. doc.add[f] \in Field
    BY OverlayAssumption DEF AllDocuments
  <2> QED BY <2>1, <2>2 DEF Field
<1>6. \A f \in DOMAIN fields : fields[f] \in Field
  BY <1>1, <1>2, <1>4, <1>5 DEF Shape
<1>7. ASSUME NEW f \in DOMAIN new
      PROVE  new[f] \in Field /\ new[f].options \subseteq fields[f].options
  <2> HIDE DEF fields, new
  <2>1. CASE f \in DOMAIN doc.narrow
    <3>1. doc.narrow[f] \subseteq fields[f].options /\ fields[f] \in Field
      BY <1>1, <1>2, <1>6, <1>7, <2>1 DEF narrow
    <3>2. new[f] = [fields[f] EXCEPT !.options = doc.narrow[f]]
      BY <1>1, <1>2, <1>7, <2>1
    <3> QED BY <3>1, <3>2 DEF Field
  <2>2. CASE f \notin DOMAIN doc.narrow
    BY <1>1, <1>2, <1>6, <1>7, <2>2
  <2> QED BY <2>1, <2>2
<1>8. \A f \in DOMAIN Core : new[f].options \subseteq Core[f].options
  <2> SUFFICES ASSUME NEW f \in DOMAIN Core PROVE new[f].options \subseteq Core[f].options
    OBVIOUS
  <2>1. f \in DOMAIN eff.fields /\ eff.fields[f].options \subseteq Core[f].options
    BY <1>1 DEF Shape
  <2>2. fields[f] = eff.fields[f] /\ f \in DOMAIN new
    BY <2>1, <1>2, <1>4
  <2> HIDE DEF fields, new
  <2> QED BY <1>7, <2>1, <2>2
<1> HIDE DEF fields
<1> QED BY <1>1, <1>2, <1>3, <1>7, <1>8 DEF Shape

(* Whatever is stored merges to a shape, or not at all. *)
LEMMA MergesToShape ==
  ASSUME NEW stored, \A s \in DOMAIN stored : stored[s] \in AllDocuments
  PROVE  Merge(stored) # None => Shape(Merge(stored))
<1> DEFINE S == DOMAIN Stack
           Tables == UNION {[D -> Field] : D \in SUBSET Names}
           V == {None} \cup {v \in [fields : Tables, roles : {Floor} \cup {d.roles : d \in AllDocuments}] :
                               Shape(v)}
           base == [fields |-> Core, roles |-> Floor]
           lay(eff, s) == IF s \in DOMAIN stored THEN Lay(eff, stored[s]) ELSE eff
           pick == [s \in SUBSET S |-> Max(s)]
           step == [xv \in S \X V |-> lay(xv[2], Stack[xv[1]])]
           Is(it) == it = [s \in SUBSET S |->
                             IF s = {} THEN base ELSE lay(it[s \ {Max(s)}], Stack[Max(s)])]
           it0 == CHOOSE it : Is(it)
<1>1. S = 1..Len(Stack) /\ Len(Stack) \in Nat /\ IsFiniteSet(S)
  BY OverlayAssumption, FS_Interval
<1>2. Picks(S, pick)
  <2> SUFFICES ASSUME NEW s \in SUBSET S, s # {} PROVE Max(s) \in s
    BY DEF Picks
  <2> QED BY <1>1, Largest
<1>3. base \in V
  BY OverlayAssumption DEF Shape, Names
<1>4. \A x \in S, v \in V : lay(v, Stack[x]) \in V
  <2> SUFFICES ASSUME NEW x \in S, NEW v \in V, Stack[x] \in DOMAIN stored,
                      Lay(v, stored[Stack[x]]) # None
               PROVE  Lay(v, stored[Stack[x]]) \in V
    OBVIOUS
  <2> DEFINE doc == stored[Stack[x]]
             new == Lay(v, doc)
  <2>1. doc \in AllDocuments /\ v # None /\ Shape(v) /\ v.roles \in {Floor} \cup {d.roles : d \in AllDocuments}
    BY DEF Lay
  <2>2. Shape(new)
    <3>1. Lay(v, doc) # None
      OBVIOUS
    <3> HIDE DEF doc, V
    <3> QED BY <2>1, <3>1, LaysShape
  <2>3. /\ new = [fields |-> new.fields, roles |-> new.roles]
        /\ new.fields = [f \in DOMAIN new.fields |-> new.fields[f]]
        /\ new.roles \in {v.roles, doc.roles}
    <3>1. Lay(v, doc) # None
      OBVIOUS
    <3> DEFINE fields == Amend(v.fields, [f \in DOMAIN doc.add |-> [doc.add[f] EXCEPT !.overlay = TRUE]])
               narrowed == [f \in DOMAIN fields |-> IF f \in DOMAIN doc.narrow
                              THEN [fields[f] EXCEPT !.options = doc.narrow[f]] ELSE fields[f]]
    <3>2. new = [fields |-> narrowed, roles |-> IF doc.roles = None THEN v.roles ELSE doc.roles]
      <4> HIDE DEF doc, V
      <4> QED BY <2>1, <3>1 DEF Lay
    <3>3. narrowed = [f \in DOMAIN narrowed |-> narrowed[f]]
      <4> HIDE DEF fields
      <4> QED OBVIOUS
    <3> HIDE DEF narrowed, new
    <3> QED BY <3>2, <3>3
  <2>4. new.fields \in [DOMAIN new.fields -> Field] /\ DOMAIN new.fields \in SUBSET Names
    <3> HIDE DEF new
    <3> QED BY <2>2, <2>3 DEF Shape
  <2> HIDE DEF new, doc
  <2>5. new.fields \in Tables
    BY <2>4
  <2>6. new.roles \in {Floor} \cup {d.roles : d \in AllDocuments}
    BY <2>1, <2>3
  <2> HIDE DEF Tables
  <2>7. new \in [fields : Tables, roles : {Floor} \cup {d.roles : d \in AllDocuments}]
    BY <2>3, <2>5, <2>6
  <2> QED BY <2>2, <2>7 DEF new, doc
<1>5. Steps(S, V, step)
  BY <1>4 DEF Steps
<1>6. PICK it : IsFold(it, S, V, base, pick, step)
  <2> HIDE DEF S, V, base, pick, step
  <2> QED BY <1>1, <1>2, <1>3, <1>5, FoldExists
<1>7. Is(it)
  <2>1. ASSUME NEW s \in SUBSET S, s # {}
        PROVE  it[s] = lay(it[s \ {Max(s)}], Stack[Max(s)])
    <3>1. s \ {pick[s]} \in SUBSET S /\ pick[s] \in S
      BY <1>2, <2>1 DEF Picks
    <3>2. it[s \ {pick[s]}] \in V /\ it[s] = step[<<pick[s], it[s \ {pick[s]}]>>]
      <4> HIDE DEF pick, step, V
      <4> QED BY <3>1, <1>6, <2>1 DEF IsFold
    <3>3. it[s] = lay(it[s \ {pick[s]}], Stack[pick[s]])
      <4> HIDE DEF pick, V, lay
      <4> QED BY <3>1, <3>2
    <3> QED BY <3>3
  <2> HIDE DEF V, lay
  <2> QED BY <1>6, <2>1 DEF IsFold
<1>8. Is(it0)
  <2> HIDE DEF Is
  <2> QED BY <1>7
<1>9. Merge(stored) = it0[S]
  BY DEF Merge, FoldLeft, MapThenFoldSet
<1>10. \A s \in SUBSET S : it0[s] = it[s]
  <2>1. it0[{}] = base
    BY <1>8
  <2>2. ASSUME NEW s \in SUBSET S, s # {}, it0[s \ {pick[s]}] \in V
        PROVE  it0[s] = step[<<pick[s], it0[s \ {pick[s]}]>>]
    <3>1. pick[s] \in S /\ pick[s] = Max(s)
      BY <1>2, <2>2 DEF Picks
    <3>2. it0[s] = lay(it0[s \ {pick[s]}], Stack[pick[s]])
      <4> HIDE DEF it0, lay, V
      <4> QED BY <1>8, <2>2, <3>1
    <3> HIDE DEF it0, lay, V, pick
    <3> QED BY <2>2, <3>1, <3>2
  <2>3. Computes(it0, S, V, base, pick, step)
    <3> HIDE DEF S, V, base, pick, step, it0
    <3> QED BY <2>1, <2>2 DEF Computes
  <2>4. IsFiniteSet(S)
    BY <1>1
  <2> HIDE DEF S, V, base, pick, step, it0, lay
  <2> QED BY ONLY <1>2, <1>6, <2>3, <2>4, FoldOnly
<1>11. Merge(stored) \in V
  <2> HIDE DEF V, it0
  <2> QED BY <1>6, <1>9, <1>10 DEF IsFold
<1> QED BY <1>11

--------------------------------------------------------------------------------
(* What a step leaves alone stays right. *)

LEMMA AuthzRests ==
  ASSUME AuthzTypeOK, GrantsOK, UNCHANGED <<tables, scenario, fresh>>,
         UNCHANGED left \/ \E k \in Kinds : Spend(k)
  PROVE  AuthzTypeOK' /\ GrantsOK'
<1>1. left' \in [Kinds -> Nat] /\ (left["grant"] = 0 => left'["grant"] = 0)
  <2>1. left \in [Kinds -> Nat]
    BY DEF AuthzTypeOK
  <2>2. CASE UNCHANGED left
    BY <2>1, <2>2
  <2>3. CASE \E k \in Kinds : Spend(k)
    <3>1. PICK k \in Kinds : Spend(k)
      BY <2>3
    <3>2. left[k] \in Nat /\ left[k] - 1 \in Nat
      BY <2>1, <3>1 DEF Spend
    <3>3. "grant" \in Kinds
      BY DEF Kinds
    <3> QED BY <2>1, <3>1, <3>2, <3>3 DEF Spend
  <2> QED BY <2>2, <2>3
<1> QED BY <1>1 DEF AuthzTypeOK, GrantsOK, tables

LEMMA OverlaysRest ==
  ASSUME OverlaysTypeOK, UNCHANGED overlays
  PROVE  OverlaysTypeOK'
  BY DEF OverlaysTypeOK, overlays

LEMMA ModulesRest ==
  ASSUME ModulesOK, UNCHANGED <<scenario, enabled>>
  PROVE  ModulesOK'
  BY DEF ModulesOK, Whole

LEMMA RecordsRest ==
  ASSUME RecordsOK, UNCHANGED <<scenario, records>>
  PROVE  RecordsOK'
<1>1. UNCHANGED <<scenario, rows, audit>>
  BY DEF records
<1>2. RowsOK'
  BY <1>1 DEF RecordsOK, RowsOK, RowOK
<1>3. \A k, id, f : Told(k, id, f)' = Told(k, id, f)
  BY <1>1 DEF Told, Decided
<1>4. AuditTellsTheRow' /\ (scenario.left["grant"] = 0 => OwnRecordsOnly)'
  BY <1>1, <1>3 DEF RecordsOK, AuditOK, AuditTellsTheRow, OwnRecordsOnly, Archivings
<1>5. AuditOK'
  BY <1>1, <1>4 DEF RecordsOK, AuditOK, EntryOK
<1> QED BY <1>2, <1>4, <1>5 DEF RecordsOK

LEMMA TaskRests ==
  ASSUME NEW d \in Clients, TaskOK(task[d]), task'[d] = task[d],
         DOMAIN rows \subseteq DOMAIN rows', UNCHANGED scenario
  PROVE  TaskOK(task[d])'
<1>1. WriteOK(task[d]) => WriteOK(task[d])'
  BY DEF WriteOK, Shape, ListOK, RowOK, OwnOnly, validated, Allow
<1>2. DocumentOK(task[d]) => DocumentOK(task[d])'
  BY DEF DocumentOK
<1>3. SwitchOK(task[d]) => SwitchOK(task[d])'
  BY DEF SwitchOK, Whole
<1> QED BY <1>1, <1>2, <1>3 DEF TaskOK

LEMMA OthersRest ==
  ASSUME TasksOK, NEW c \in Clients, Acts(c), DOMAIN rows \subseteq DOMAIN rows', UNCHANGED scenario,
         TaskOK(task[c])'
  PROVE  TasksOK'
<1>1. ASSUME NEW d \in Clients, d # c PROVE TaskOK(task[d])'
  BY <1>1, TaskRests DEF TasksOK, Acts
<1> QED BY <1>1 DEF TasksOK, Acts

LEMMA IdleOK == TaskOK(Idle)'
  BY DEF TaskOK, Idle

(* A step that changes nothing but one task. *)
LEMMA QuietStep ==
  ASSUME IInv, NEW c \in Clients, Acts(c), Quietly, TaskOK(task[c])'
  PROVE  IInv'
<1>1. UNCHANGED <<tables, scenario, fresh, left, overlays, enabled, records>>
  BY DEF Quietly
<1>2. AuthzTypeOK' /\ GrantsOK'
  BY <1>1, AuthzRests DEF IInv
<1>3. OverlaysTypeOK' /\ ModulesOK' /\ RecordsOK'
  BY <1>1, OverlaysRest, ModulesRest, RecordsRest DEF IInv
<1>4. TasksOK'
  BY <1>1, OthersRest DEF IInv, records
<1> QED BY <1>2, <1>3, <1>4 DEF IInv

--------------------------------------------------------------------------------
(* The way to the transaction. *)

(* A task that ends is idle. *)
LEMMA EndsOK ==
  ASSUME TasksOK, NEW c \in Clients, End(c)
  PROVE  Acts(c) /\ TaskOK(task[c])'
  BY Ended, IdleOK DEF TasksOK, Acts, TaskOK

LEMMA BeginWriteOK ==
  ASSUME IInv, NEW c \in Clients, BeginWrite(c)
  PROVE  IInv'
<1>1. PICK u \in Users, verb \in {"create", "update", "delete"}, id \in Ids, b \in Bodies :
        /\ verb # "create" => id \in DOMAIN rows
        /\ task' = [task EXCEPT ![c] = [op |-> "write", at |-> "gate", verb |-> verb, by |-> u,
                                        id |-> id, body |-> b]]
  BY DEF BeginWrite
<1>2. /\ Spend("write") /\ "write" \in Kinds
      /\ UNCHANGED <<tables, scenario, fresh, overlays, enabled, records>>
  BY DEF BeginWrite, Kinds
<1>3. AuthzTypeOK' /\ GrantsOK'
  BY <1>2, AuthzRests DEF IInv
<1>4. OverlaysTypeOK' /\ ModulesOK' /\ RecordsOK'
  BY <1>2, OverlaysRest, ModulesRest, RecordsRest DEF IInv
<1>5. Acts(c) /\ task'[c] = [op |-> "write", at |-> "gate", verb |-> verb, by |-> u, id |-> id, body |-> b]
  BY <1>1 DEF IInv, TasksOK, Acts
<1>6. WriteOK(task[c])'
  BY <1>1, <1>2, <1>5, RecordsAssumption DEF WriteOK, records
<1>7. TaskOK(task[c])'
  BY <1>5, <1>6 DEF TaskOK
<1> QED BY <1>2, <1>3, <1>4, <1>5, <1>7, OthersRest DEF IInv, records

LEMMA GateOK ==
  ASSUME IInv, NEW c \in Clients, capabilityGate(c)
  PROVE  IInv'
<1>1. Quietly /\ TaskOK(task[c]) /\ task[c].op = "write" /\ task[c].at = "gate" /\ TasksOK
  BY DEF capabilityGate, At, IInv, TasksOK
<1>2. CASE End(c)
  BY <1>1, <1>2, EndsOK, QuietStep
<1>3. CASE Goto(c, "resolve")
  <2>1. /\ Acts(c) /\ DOMAIN task'[c] = DOMAIN task[c] /\ task'[c].at = "resolve"
        /\ \A f \in DOMAIN task[c] : f # "at" => task'[c][f] = task[c][f]
    BY <1>1, <1>3, Gone DEF TasksOK, TaskOK, Acts
  <2>2. WriteOK(task[c])'
    BY <1>1, <2>1 DEF TaskOK, WriteOK, Quietly, records
  <2>3. TaskOK(task[c])'
    BY <1>1, <2>1, <2>2 DEF TaskOK
  <2> QED BY <1>1, <2>1, <2>3, QuietStep
<1> QED BY <1>2, <1>3 DEF capabilityGate

(* The shape a write is given is one. *)
LEMMA ResolveOK ==
  ASSUME IInv, NEW c \in Clients, Resolve(c)
  PROVE  IInv'
<1> DEFINE eff == Merge(layers)
<1>1. Quietly /\ TaskOK(task[c]) /\ task[c].op = "write" /\ task[c].at = "resolve" /\ TasksOK
  BY DEF Resolve, At, IInv, TasksOK
<1>2. CASE End(c)
  BY <1>1, <1>2, EndsOK, QuietStep
<1>3. CASE eff # None /\ Keep(c, "auth", [eff |-> eff])
  <2>1. Shape(eff)
    <3>1. \A s \in DOMAIN layers : layers[s] \in AllDocuments
      BY OverlayAssumption DEF IInv, OverlaysTypeOK, AllDocuments, Range
    <3> QED BY <1>3, <3>1, MergesToShape
  <2> HIDE DEF eff
  <2>2. /\ Acts(c) /\ DOMAIN task'[c] = DOMAIN task[c] \cup {"eff", "at"} /\ task'[c].at = "auth"
        /\ task'[c].eff = eff
        /\ \A f \in DOMAIN task[c] : f \notin {"eff", "at"} => task'[c][f] = task[c][f]
    <3> DEFINE what == [eff |-> eff]
    <3>1. DOMAIN what = {"eff"} /\ what.eff = eff
      OBVIOUS
    <3> HIDE DEF what
    <3> QED BY <1>1, <1>3, <3>1, Kept DEF TasksOK, Acts, what
  <2>3. WriteOK(task[c])'
    BY <1>1, <2>1, <2>2 DEF TaskOK, WriteOK, Quietly, records, Shape
  <2>4. TaskOK(task[c])'
    BY <1>1, <2>2, <2>3 DEF TaskOK
  <2> QED BY <1>1, <2>2, <2>4, QuietStep
<1> QED BY <1>2, <1>3 DEF Resolve

(* The clerk may do to its own records only what it may do. *)
LEMMA ClerkOwnOnly ==
  ASSUME GrantsOK, scenario.left["grant"] = 0, NEW verb \in {"create", "update", "delete"}
  PROVE  OwnOnly(GrantsFor(Clerk, verb))
<1>1. \A g \in grants : <<Clerk, g.role>> \in members => g.role = 2
  BY AuthzAssumption DEF GrantsOK
<1> QED BY <1>1 DEF GrantsOK, GrantsFor, OwnOnly, ConditionalActions

(* A write that may be made knows the conditions it may be made on. *)
LEMMA AuthorizeOK ==
  ASSUME IInv, NEW c \in Clients, Authorize(c)
  PROVE  IInv'
<1> DEFINE conds == GrantsFor(task[c].by, task[c].verb)
           what == [conds |-> conds]
<1>1. Quietly /\ TaskOK(task[c]) /\ task[c].op = "write" /\ task[c].at = "auth" /\ TasksOK
  BY DEF Authorize, At, IInv, TasksOK
<1>2. CASE End(c)
  BY <1>1, <1>2, EndsOK, QuietStep
<1>3. CASE Keep(c, "plugins", what)
  <2>1. DOMAIN what = {"conds"} /\ what.conds = conds
    OBVIOUS
  <2>2. /\ Acts(c) /\ DOMAIN task'[c] = DOMAIN task[c] \cup {"conds", "at"}
        /\ task'[c].at = "plugins" /\ task'[c].conds = conds
        /\ \A f \in DOMAIN task[c] : f \notin {"conds", "at"} => task'[c][f] = task[c][f]
    <3> HIDE DEF what
    <3> QED BY <1>1, <1>3, <2>1, Kept DEF TasksOK, Acts
  <2>3. task[c].by = Clerk /\ scenario.left["grant"] = 0 => OwnOnly(conds)
    BY <1>1, ClerkOwnOnly DEF IInv, TaskOK, WriteOK
  <2> HIDE DEF conds
  <2>4. WriteOK(task[c])'
    <3>1. /\ task'[c].op = "write" /\ task'[c].by = task[c].by /\ task'[c].verb = task[c].verb
          /\ task'[c].id = task[c].id /\ task'[c].body = task[c].body /\ task'[c].eff = task[c].eff
          /\ WriteOK(task[c])
      BY <1>1, <2>2 DEF TaskOK, WriteOK
    <3> QED BY <1>1, <2>2, <2>3, <3>1 DEF WriteOK, Quietly, records, Shape, OwnOnly
  <2>5. TaskOK(task[c])'
    BY <1>1, <2>2, <2>4 DEF TaskOK
  <2> QED BY <1>1, <2>2, <2>5, QuietStep
<1> QED BY <1>2, <1>3 DEF Authorize

(* It is given the list of the hooks, all of them to be asked. *)
LEMMA BeforeHooksOK ==
  ASSUME IInv, NEW c \in Clients, BeforeHooks(c)
  PROVE  IInv'
<1> DEFINE hard == {x \in DOMAIN cached : cached[x].hook = "reject"}
           what == [list |-> cached, todo |-> DOMAIN cached, must |-> hard]
<1>1. /\ Quietly /\ TaskOK(task[c]) /\ task[c].op = "write" /\ task[c].at = "plugins" /\ TasksOK
      /\ Keep(c, "hooks", what)
  BY DEF BeforeHooks, At, IInv, TasksOK
<1>2. /\ DOMAIN what = {"list", "todo", "must"}
      /\ what.list = cached /\ what.todo = DOMAIN cached /\ what.must = hard
  OBVIOUS
<1>3. /\ Acts(c) /\ DOMAIN task'[c] = DOMAIN task[c] \cup {"list", "todo", "must", "at"}
      /\ task'[c].at = "hooks" /\ task'[c].list = cached
      /\ task'[c].todo = DOMAIN cached /\ task'[c].must = hard
      /\ \A f \in DOMAIN task[c] : f \notin {"list", "todo", "must", "at"} => task'[c][f] = task[c][f]
  <2> HIDE DEF what
  <2> QED BY <1>1, <1>2, Kept DEF TasksOK, Acts
<1>4. ListOK(cached)
  BY DEF IInv, OverlaysTypeOK, ListOK, Plugin
<1>5. WriteOK(task[c])'
  <2>1. /\ task'[c].op = "write" /\ task'[c].by = task[c].by /\ task'[c].verb = task[c].verb
        /\ task'[c].id = task[c].id /\ task'[c].body = task[c].body /\ task'[c].eff = task[c].eff
        /\ task'[c].conds = task[c].conds /\ WriteOK(task[c])
    BY <1>1, <1>3 DEF TaskOK, WriteOK
  <2> QED BY <1>1, <1>3, <1>4, <2>1 DEF WriteOK, Quietly, records, Shape, ListOK, OwnOnly
<1>6. TaskOK(task[c])'
  BY <1>1, <1>3, <1>5 DEF TaskOK
<1> QED BY <1>1, <1>3, <1>6, QuietStep

LEMMA HooksDoneOK ==
  ASSUME IInv, NEW c \in Clients, HooksDone(c)
  PROVE  IInv'
<1> DEFINE next == IF task[c].verb = "create" THEN "insert" ELSE "read"
<1>1. /\ Quietly /\ TaskOK(task[c]) /\ task[c].op = "write" /\ task[c].at = "hooks" /\ TasksOK
      /\ task[c].todo = {}
  BY DEF HooksDone, At, IInv, TasksOK
<1>2. CASE End(c)
  BY <1>1, <1>2, EndsOK, QuietStep
<1>3. CASE /\ task[c].verb = "delete" \/ validated(task[c].eff, task[c].body, task[c].verb # "create")
           /\ Goto(c, next)
  <2>1. /\ Acts(c) /\ DOMAIN task'[c] = DOMAIN task[c] /\ task'[c].at = next
        /\ \A f \in DOMAIN task[c] : f # "at" => task'[c][f] = task[c][f]
    BY <1>1, <1>3, Gone DEF TasksOK, TaskOK, Acts
  <2>2. WriteOK(task[c])'
    <3>1. /\ task'[c].op = "write" /\ task'[c].by = task[c].by /\ task'[c].verb = task[c].verb
          /\ task'[c].id = task[c].id /\ task'[c].body = task[c].body /\ task'[c].eff = task[c].eff
          /\ task'[c].conds = task[c].conds /\ task'[c].list = task[c].list
          /\ task'[c].todo = task[c].todo /\ task'[c].must = task[c].must
          /\ WriteOK(task[c])
      BY <1>1, <2>1 DEF TaskOK, WriteOK
    <3>2. task[c].must = {}
      BY <1>1, <3>1 DEF WriteOK
    <3> QED BY <1>1, <1>3, <2>1, <3>1, <3>2
         DEF WriteOK, Quietly, records, Shape, ListOK, OwnOnly, validated
  <2>3. TaskOK(task[c])'
    BY <1>1, <2>1, <2>2 DEF TaskOK
  <2> QED BY <1>1, <2>1, <2>3, QuietStep
<1> QED BY <1>2, <1>3 DEF HooksDone

--------------------------------------------------------------------------------
(* The hooks. *)

(* A hook that must pass a write is taken off the list of those only by passing it: it is not
   skipped, and if it fails the write ends. *)
LEMMA AnswerOK ==
  ASSUME TasksOK, NEW c \in Clients, At(c, "write", "hooks"), NEW x \in task[c].todo,
         NEW how \in {"skip", "veto", "ok", "fail"}, NEW body, \A f \in DOMAIN body : body[f] \in Values,
         how = "skip" => task[c].list[x].hook # "reject",
         Answer(c, x, how, body), UNCHANGED <<scenario, rows>>
  PROVE  Acts(c) /\ TaskOK(task[c])'
<1> DEFINE t == task[c]
           passed == IF how = "ok" THEN t.must \ {x} ELSE t.must
           what == [todo |-> t.todo \ {x}, must |-> passed, body |-> body]
<1>1. TaskOK(t) /\ t.op = "write" /\ t.at = "hooks" /\ WriteOK(t)
  BY DEF At, TasksOK, TaskOK
<1>2. CASE End(c)
  BY <1>2, EndsOK
<1>3. CASE /\ Keep(c, "hooks", what)
           /\ ~(how = "veto" \/ (how = "fail" /\ t.list[x].hook = "reject"))
  <2>1. /\ DOMAIN what = {"todo", "must", "body"}
        /\ what.todo = t.todo \ {x} /\ what.must = passed /\ what.body = body
    OBVIOUS
  <2>2. /\ Acts(c) /\ DOMAIN task'[c] = DOMAIN t \cup {"todo", "must", "body", "at"}
        /\ task'[c].at = "hooks" /\ task'[c].todo = t.todo \ {x} /\ task'[c].must = passed
        /\ task'[c].body = body
        /\ \A f \in DOMAIN t : f \notin {"todo", "must", "body", "at"} => task'[c][f] = t[f]
    <3>1. Keep(c, "hooks", what) /\ DOMAIN task = Clients
      BY <1>3 DEF TasksOK
    <3> HIDE DEF what, passed
    <3> QED BY <2>1, <3>1, Kept DEF Acts
  <2>3. passed \subseteq {y \in t.todo \ {x} : t.list[y].hook = "reject"}
    <3>1. t.must \subseteq {y \in t.todo : t.list[y].hook = "reject"}
      BY <1>1 DEF WriteOK
    <3> QED BY <1>3, <3>1
  <2> HIDE DEF passed
  <2>4. WriteOK(task[c])'
    <3>1. /\ task'[c].op = "write" /\ task'[c].by = t.by /\ task'[c].verb = t.verb
          /\ task'[c].id = t.id /\ task'[c].eff = t.eff
          /\ task'[c].conds = t.conds /\ task'[c].list = t.list
      BY <1>1, <2>2 DEF TaskOK, WriteOK
    <3> QED BY <1>1, <2>2, <2>3, <3>1 DEF WriteOK, Shape, ListOK, OwnOnly
  <2>5. TaskOK(task[c])'
    BY <1>1, <2>2, <2>4 DEF TaskOK
  <2> QED BY <2>2, <2>5
<1> QED BY <1>2, <1>3 DEF Answer

(* The breaker counts to its threshold. *)
LEMMA BumpOK ==
  ASSUME OverlaysTypeOK, NEW p, NEW x, p[x] \in Plugin, NEW failed, bumpBreaker(p, x, failed),
         UNCHANGED layers
  PROVE  OverlaysTypeOK'
<1> DEFINE n == IF failed THEN Min({p[x].failures + 1, BreakerThreshold}) ELSE 0
           put(t) == IF x \in DOMAIN t
                     THEN [t EXCEPT ![x] = [hook |-> @.hook, failures |-> n,
                                            breaker |-> IF n = BreakerThreshold THEN "open" ELSE "closed"]]
                     ELSE t
<1>1. n \in 0..BreakerThreshold
  <2>1. p[x].failures \in 0..BreakerThreshold /\ BreakerThreshold \in Nat
    BY OverlayAssumption DEF Plugin
  <2>2. \E m \in {p[x].failures + 1, BreakerThreshold} :
          \A k \in {p[x].failures + 1, BreakerThreshold} : m =< k
    BY <2>1
  <2> QED BY <2>1, <2>2 DEF Min
<1>2. ASSUME NEW t, ListOK(t) PROVE ListOK(put(t))
  <2>1. CASE x \notin DOMAIN t
    BY <1>2, <2>1
  <2>2. CASE x \in DOMAIN t
    <3> HIDE DEF n
    <3>1. put(t) = [y \in DOMAIN t |-> IF y = x THEN [hook |-> t[x].hook, failures |-> n,
                       breaker |-> IF n = BreakerThreshold THEN "open" ELSE "closed"] ELSE t[y]]
      BY <2>2
    <3> HIDE DEF put
    <3> QED BY <1>1, <1>2, <2>2, <3>1 DEF ListOK, Plugin
  <2> QED BY <2>1, <2>2
<1>3. ListOK(breakers) /\ ListOK(cached)
  BY DEF OverlaysTypeOK, ListOK, Plugin
<1>4. breakers' \in {breakers, put(breakers)} /\ cached' \in {cached, put(cached)}
  BY DEF bumpBreaker
<1> HIDE DEF put
<1>5. ListOK(breakers)' /\ ListOK(cached)'
  BY <1>2, <1>3, <1>4 DEF ListOK, Plugin
<1> QED BY <1>5 DEF OverlaysTypeOK, ListOK, Plugin

LEMMA RunHookOK ==
  ASSUME IInv, NEW c \in Clients, runHook(c)
  PROVE  IInv'
<1> DEFINE t == task[c]
           Asks(x, p) ==
        \/ /\ p[x].hook = "none" \/ skips(p, x)
           /\ Answer(c, x, "skip", t.body) /\ UNCHANGED overlays
        \/ \E how \in {"veto", "ok", "fail"},
              b \in IF t.verb = "delete" THEN {t.body} ELSE {t.body} \cup Replies :
             Answer(c, x, how, b) /\ bumpBreaker(p, x, how = "fail") /\ UNCHANGED layers
<1>1. At(c, "write", "hooks") /\ UNCHANGED <<tables, scenario, fresh, left, enabled, records>>
  BY DEF runHook
<1>9. PICK x \in t.todo : \E p \in Shown(t, x) : Asks(x, p)
  BY DEF runHook
<1>2. PICK p \in Shown(t, x) : Asks(x, p)
  BY <1>9
<1>3. WriteOK(t) /\ ListOK(t.list) /\ x \in DOMAIN t.list
  BY <1>1 DEF IInv, TasksOK, TaskOK, WriteOK, At
<1>4. p[x].hook = t.list[x].hook /\ p[x] \in Plugin
  BY <1>2, <1>3 DEF Shown, ListOK, Plugin, IInv, OverlaysTypeOK
<1>5. ASSUME NEW how \in {"skip", "veto", "ok", "fail"}, NEW b \in {t.body} \cup Replies,
             how = "skip" => t.list[x].hook # "reject", Answer(c, x, how, b)
      PROVE  Acts(c) /\ TaskOK(task[c])'
  <2>1. \A f \in DOMAIN b : b[f] \in Values
    BY <1>3, RecordsAssumption DEF WriteOK
  <2> QED BY <1>1, <1>5, <2>1, AnswerOK DEF IInv, records
<1>6. OverlaysTypeOK' /\ Acts(c) /\ TaskOK(task[c])'
  <2>1. CASE /\ p[x].hook = "none" \/ skips(p, x)
             /\ Answer(c, x, "skip", t.body) /\ UNCHANGED overlays
    <3>1. t.list[x].hook # "reject"
      BY <1>4, <2>1 DEF skips
    <3> QED BY <2>1, <3>1, <1>5, OverlaysRest DEF IInv
  <2>2. CASE \E how \in {"veto", "ok", "fail"},
                b \in IF t.verb = "delete" THEN {t.body} ELSE {t.body} \cup Replies :
               Answer(c, x, how, b) /\ bumpBreaker(p, x, how = "fail") /\ UNCHANGED layers
    <3>1. PICK how \in {"veto", "ok", "fail"}, b \in {t.body} \cup Replies :
               Answer(c, x, how, b) /\ bumpBreaker(p, x, how = "fail") /\ UNCHANGED layers
      BY <2>2
    <3> QED BY <3>1, <1>4, <1>5, BumpOK DEF IInv
  <2> QED BY <1>2, <2>1, <2>2
<1>7. AuthzTypeOK' /\ GrantsOK' /\ ModulesOK' /\ RecordsOK'
  BY <1>1, AuthzRests, ModulesRest, RecordsRest DEF IInv
<1> QED BY <1>1, <1>6, <1>7, OthersRest DEF IInv, records

--------------------------------------------------------------------------------
(* The audit log. *)

\* The value of a field of a row, None if it has none.
Cell(row, f) == IF f \in DOMAIN Columns(row) THEN Columns(row)[f] ELSE None

\* The entry decides the value of the field: it sets it, or wrote the shared column without
\* knowing of it; and the value it leaves.
Decides(e, f) == f \in DOMAIN e.diff \/ (e.custom /\ f \notin e.knew \cup {I18n})
Leaves(e, f) == IF f \in DOMAIN e.diff THEN e.diff[f].new ELSE None

Grown(e) == /\ Len(audit') = Len(audit) + 1 /\ Len(audit) \in Nat
            /\ \A i \in 1..Len(audit) : audit'[i] = audit[i]
            /\ audit'[Len(audit) + 1] = e

LEMMA LogGrows ==
  ASSUME audit \in Seq(Range(audit)), NEW e, audit' = Append(audit, e)
  PROVE  Grown(e) /\ audit' \in Seq(Range(audit'))
<1>1. Len(audit) \in Nat /\ DOMAIN audit = 1..Len(audit)
  OBVIOUS
<1> DEFINE T == Range(audit) \cup {e}
<1>2. audit \in Seq(T) /\ e \in T
  BY DEF Range
<1> HIDE DEF T
<1>3. /\ audit' \in Seq(T) /\ Len(audit') = Len(audit) + 1 /\ DOMAIN audit' = 1..Len(audit) + 1
      /\ \A i \in 1..Len(audit) : audit'[i] = audit[i]
      /\ audit'[Len(audit) + 1] = e
  BY <1>1, <1>2
<1>4. \A i \in 1..Len(audit') : audit'[i] \in Range(audit')
  BY <1>1, <1>3 DEF Range
<1>5. audit' \in Seq(Range(audit'))
  BY <1>1, <1>3, <1>4
<1> QED BY <1>1, <1>3, <1>5 DEF Grown

(* A new entry changes nothing of what the log told before it, and tells of the fields that
   it decides. *)
LEMMA ToldBefore ==
  ASSUME NEW e, Grown(e), NEW k \in 1..Len(audit) + 1, NEW id, NEW f
  PROVE  Told(k, id, f)' = Told(k, id, f)
<1> DEFINE d == Decided(k, id, f)
<1>1. d \subseteq 1..Len(audit)
  BY DEF Grown, Decided
<1>2. Decided(k, id, f)' = d
  BY DEF Grown, Decided
<1>3. d # {} => Max(d) \in 1..Len(audit)
  <2> HIDE DEF d
  <2> QED BY <1>1, Largest DEF Grown
<1>4. d # {} => audit'[Max(d)] = audit[Max(d)]
  BY <1>3 DEF Grown
<1> HIDE DEF d
<1> QED BY <1>2, <1>4 DEF Told, d

LEMMA ToldAfter ==
  ASSUME NEW e, Grown(e), NEW id, NEW f
  PROVE  Told(Len(audit) + 1, id, f)' =
           IF e.id = id /\ Decides(e, f) THEN Leaves(e, f) ELSE Told(Len(audit) + 1, id, f)
<1> DEFINE n == Len(audit) + 1
           old == Decided(n, id, f)
           new == Decided(Len(audit) + 1, id, f)'
           mine == IF e.id = id /\ Decides(e, f) THEN {n} ELSE {}
<1>1. n \in Nat /\ n - 1 = Len(audit) /\ (n + 1) - 1 = n /\ audit'[n] = e /\ Len(audit) \in Nat
      /\ Len(audit') + 1 = n + 1 /\ Len(audit') = n
  BY DEF Grown
<1>2. old \subseteq 1..Len(audit)
  BY <1>1 DEF Decided
<1>3. new = old \cup mine
  <2>1. \A i : i \in 1..n <=> i \in 1..Len(audit) \/ i = n
    BY <1>1
  <2>2. \A i \in 1..Len(audit) : audit'[i] = audit[i] /\ i # n
    BY <1>1 DEF Grown
  <2>3. new = {i \in 1..n : audit'[i].id = id /\ Decides(audit'[i], f)}
    BY <1>1 DEF Decided, Decides
  <2>4. old = {i \in 1..Len(audit) : audit[i].id = id /\ Decides(audit[i], f)}
    BY <1>1 DEF Decided, Decides
  <2>5. \A i : i \in new <=> i \in old \cup mine
    <3> HIDE DEF n, new, old
    <3> QED BY <1>1, <2>1, <2>2, <2>3, <2>4
  <2> HIDE DEF n, new, old, mine
  <2> QED BY <2>5
<1>4. CASE e.id = id /\ Decides(e, f)
  <2>1. n \in new /\ new \subseteq 1..n
    BY <1>1, <1>2, <1>3, <1>4
  <2>2. Max(new) \in new /\ Max(new) >= n
    <3> HIDE DEF new, n
    <3> QED BY <1>1, <2>1, Largest
  <2>3. Max(new) = n /\ new # {}
    <3> HIDE DEF new
    <3>1. Max(new) \in 1..n
      BY <2>1, <2>2
    <3>2. \A m \in 1..n : m >= n => m = n
      BY <1>1
    <3> QED BY <2>1, <2>2, <3>1, <3>2
  <2>4. Told(Len(audit) + 1, id, f)' = Leaves(e, f)
    <3> HIDE DEF n
    <3> QED BY <1>1, <2>3 DEF Told, Leaves
  <2> QED BY <1>1, <1>4, <2>4
<1>5. CASE ~(e.id = id /\ Decides(e, f))
  <2>1. new = old
    BY <1>3, <1>5
  <2>2. old # {} => Max(old) \in 1..Len(audit)
    <3> HIDE DEF old
    <3> QED BY <1>1, <1>2, Largest
  <2>3. old # {} => audit'[Max(old)] = audit[Max(old)]
    BY <2>2 DEF Grown
  <2>4. Told(Len(audit) + 1, id, f)' = Told(n, id, f)
    <3> HIDE DEF n
    <3> QED BY <2>1, <2>3 DEF Told
  <2> QED BY <1>1, <1>5, <2>4
<1> QED BY <1>4, <1>5

(* A write of one row with its entry keeps the log and the rows together, if the entry says
   what the write does. *)
LEMMA Recorded ==
  ASSUME RecordsOK, NEW e, audit' = Append(audit, e), EntryOK(e)', UNCHANGED scenario,
         DOMAIN rows' = DOMAIN rows \cup {e.id}, \A id \in DOMAIN rows : id # e.id => rows'[id] = rows[id],
         e.id \in Ids, RowOK(rows'[e.id]), rows'[e.id].archived \in BOOLEAN,
         \A f \in Names : f \in DOMAIN Core \/ scenario.dialect = "sqlite" =>
           Cell(rows'[e.id], f) = IF Decides(e, f) THEN Leaves(e, f)
                                  ELSE IF e.id \in DOMAIN rows THEN Cell(rows[e.id], f) ELSE None,
         scenario.dialect = "sqlite" =>
           \A f \in DOMAIN e.diff \ {ArchivedAt} :
             e.diff[f].old = IF e.id \in DOMAIN rows THEN Cell(rows[e.id], f) ELSE None,
         rows'[e.id].archived <=> \/ e.id \in DOMAIN rows /\ rows[e.id].archived
                                 \/ ArchivedAt \in DOMAIN e.diff,
         scenario.left["grant"] = 0 /\ scenario.dialect = "sqlite" /\ e.by = Clerk =>
           (IF e.verb = "create" THEN e.diff[Owner].new ELSE Cell(rows[e.id], Owner)) = "own",
         e.verb # "create" => e.id \in DOMAIN rows
  PROVE  RecordsOK'
<1> DEFINE n == Len(audit) + 1
<1>1. Grown(e) /\ audit' \in Seq(Range(audit'))
  BY LogGrows DEF RecordsOK, AuditOK
<1>2. Len(audit) \in Nat /\ Len(audit') = n /\ DOMAIN audit = 1..Len(audit) /\ DOMAIN audit' = 1..n
  BY <1>1 DEF Grown, RecordsOK, AuditOK
<1>3. \A i : i \in 1..n <=> i \in 1..Len(audit) \/ i = n
  BY <1>2
<1>4. RowsOK'
  <2> SUFFICES ASSUME NEW id \in DOMAIN rows' 
               PROVE  RowOK(rows'[id]) /\ rows'[id].archived \in BOOLEAN /\ id \in Ids
    BY DEF RowsOK, RowOK
  <2> QED BY DEF RecordsOK, RowsOK, RowOK
<1>5. \A i \in 1..n : EntryOK(audit[i])'
  <2> SUFFICES ASSUME NEW i \in 1..n PROVE EntryOK(audit[i])'
    OBVIOUS
  <2>1. CASE i = n
    <3>1. audit'[i] = e
      BY <1>1, <2>1 DEF Grown
    <3> QED BY <3>1 DEF EntryOK
  <2>2. CASE i \in 1..Len(audit)
    BY <1>1, <2>2 DEF Grown, RecordsOK, AuditOK, EntryOK
  <2> QED BY <1>3, <2>1, <2>2
<1>6. ASSUME NEW f \in Names, f \in DOMAIN Core \/ scenario.dialect = "sqlite"
      PROVE  Told(n, e.id, f) = IF e.id \in DOMAIN rows THEN Cell(rows[e.id], f) ELSE None
  <2>1. CASE e.id \in DOMAIN rows
    BY <1>6, <2>1 DEF RecordsOK, AuditOK, AuditTellsTheRow, Cell
  <2>2. CASE e.id \notin DOMAIN rows
    <3>1. Decided(n, e.id, f) = {}
      BY <1>2, <2>2 DEF Decided, RecordsOK, AuditOK, EntryOK
    <3> HIDE DEF n
    <3> QED BY <2>2, <3>1 DEF Told
  <2> QED BY <2>1, <2>2
<1>7. ASSUME NEW id \in DOMAIN rows', NEW f \in Names, f \in DOMAIN Core \/ scenario.dialect = "sqlite"
      PROVE  Cell(rows'[id], f) = Told(Len(audit) + 1, id, f)'
  <2>1. CASE id = e.id
    <3>1. Told(Len(audit) + 1, id, f)' = IF Decides(e, f) THEN Leaves(e, f) ELSE Told(n, e.id, f)
      BY <1>1, <2>1, ToldAfter
    <3> HIDE DEF n
    <3> QED BY <1>6, <1>7, <2>1, <3>1
  <2>2. CASE id # e.id
    <3>1. Told(Len(audit) + 1, id, f)' = Told(n, id, f)
      BY <1>1, <2>2, ToldAfter
    <3>2. Told(n, id, f) = Cell(rows[id], f)
      BY <1>7, <2>2 DEF RecordsOK, AuditOK, AuditTellsTheRow, Cell
    <3> HIDE DEF n
    <3> QED BY <2>2, <3>1, <3>2
  <2> QED BY <2>1, <2>2
<1>8. ASSUME NEW id \in DOMAIN rows', scenario.dialect = "sqlite",
             NEW i \in 1..n, audit'[i].id = id, NEW f \in DOMAIN audit'[i].diff \ {ArchivedAt}
      PROVE  audit'[i].diff[f].old = Told(i, id, f)'
  <2>0. Told(i, id, f)' = Told(i, id, f)
    BY <1>1, <1>2, ToldBefore
  <2>1. CASE i = n
    <3>1. audit'[i] = e
      BY <1>1, <2>1 DEF Grown
    <3>2. f \in Names /\ f \in DOMAIN e.diff \ {ArchivedAt}
      BY <1>8, <3>1 DEF EntryOK
    <3> HIDE DEF n
    <3> QED BY <1>6, <1>8, <2>0, <2>1, <3>1, <3>2
  <2>2. CASE i \in 1..Len(audit)
    <3>1. audit'[i] = audit[i] /\ audit[i].id \in DOMAIN rows
      BY <1>1, <2>2 DEF Grown, RecordsOK, AuditOK, EntryOK
    <3>2. audit[i].diff[f].old = Told(i, id, f)
      BY <1>2, <1>8, <2>2, <3>1 DEF RecordsOK, AuditOK, AuditTellsTheRow
    <3> QED BY <2>0, <3>1, <3>2
  <2> QED BY <1>3, <2>1, <2>2
<1>9. ASSUME NEW id \in DOMAIN rows'
      PROVE  rows'[id].archived <=> Archivings(id)' # {}
  <2>1. Archivings(id)' = Archivings(id) \cup
          (IF e.id = id /\ ArchivedAt \in DOMAIN e.diff THEN {n} ELSE {})
    <3>1. \A i \in 1..Len(audit) : audit'[i] = audit[i]
      BY <1>1 DEF Grown
    <3>2. audit'[n] = e /\ n \notin 1..Len(audit)
      BY <1>1, <1>2 DEF Grown
    <3> HIDE DEF n
    <3> QED BY <1>2, <1>3, <3>1, <3>2 DEF Archivings
  <2>2. CASE id \in DOMAIN rows
    <3>1. rows[id].archived <=> Archivings(id) # {}
      BY <2>2 DEF RecordsOK, AuditOK, AuditTellsTheRow
    <3> HIDE DEF n
    <3> QED BY <2>1, <2>2, <3>1
  <2>3. CASE id \notin DOMAIN rows
    <3>1. Archivings(id) = {} /\ id = e.id
      BY <1>2, <2>3 DEF Archivings, RecordsOK, AuditOK, EntryOK
    <3> HIDE DEF n
    <3> QED BY <2>1, <2>3, <3>1
  <2> QED BY <2>2, <2>3
<1>10. AuditTellsTheRow'
  <2>1. \A id \in DOMAIN rows' : \A f \in Names : f \in DOMAIN Core \/ scenario.dialect = "sqlite" =>
          (IF f \in DOMAIN Columns(rows'[id]) THEN Columns(rows'[id])[f] ELSE None)
            = Told(Len(audit) + 1, id, f)'
    BY <1>7 DEF Cell
  <2>2. scenario'.dialect = scenario.dialect
    OBVIOUS
  <2> HIDE DEF n
  <2> QED BY <1>2, <1>8, <1>9, <2>1, <2>2 DEF AuditTellsTheRow, Columns
<1>11. ASSUME scenario.left["grant"] = 0, scenario.dialect = "sqlite",
              NEW i \in 1..n, audit'[i].by = Clerk
       PROVE  (IF audit'[i].verb = "create" THEN audit'[i].diff[Owner].new
               ELSE Told(i, audit[i].id, Owner)') = "own"
  <2>1. CASE i = n
    <3>1. audit'[i] = e
      BY <1>1, <2>1 DEF Grown
    <3>2. Told(i, e.id, Owner)' = Told(i, e.id, Owner)
      BY <1>1, <1>2, ToldBefore
    <3>3. Told(i, audit[i].id, Owner)' = Told(i, e.id, Owner)'
      BY <3>1
    <3>4. Owner \in Names /\ Owner \in DOMAIN Core
      BY RecordsAssumption DEF Names
    <3> HIDE DEF n
    <3> QED BY <1>6, <1>11, <2>1, <3>1, <3>2, <3>3, <3>4
  <2>2. CASE i \in 1..Len(audit)
    <3>1. audit'[i] = audit[i]
      BY <1>1, <2>2 DEF Grown
    <3>2. (IF audit[i].verb = "create" THEN audit[i].diff[Owner].new
           ELSE Told(i, audit[i].id, Owner)) = "own"
      BY <1>2, <1>11, <2>2, <3>1 DEF RecordsOK, OwnRecordsOnly
    <3> DEFINE id == audit[i].id
    <3>3. Told(i, id, Owner)' = Told(i, id, Owner)
      <4>1. PICK k : k = audit[i].id
        OBVIOUS
      <4>2. Told(i, k, Owner)' = Told(i, k, Owner)
        BY <1>1, <1>2, ToldBefore
      <4> QED BY <3>1, <4>1, <4>2
    <3> QED BY <3>1, <3>2, <3>3
  <2> QED BY <1>3, <2>1, <2>2
<1>12. (scenario.left["grant"] = 0 => OwnRecordsOnly)'
  BY <1>2, <1>11 DEF OwnRecordsOnly
<1> QED BY <1>1, <1>2, <1>4, <1>5, <1>10, <1>12 DEF RecordsOK, AuditOK

--------------------------------------------------------------------------------
(* The transaction. *)

(* A step that writes records, and nothing else but one task. *)
LEMMA WriteStep ==
  ASSUME IInv, NEW c \in Clients, End(c), RecordsOK', DOMAIN rows \subseteq DOMAIN rows',
         UNCHANGED <<tables, scenario, fresh, left, overlays, enabled>>
  PROVE  IInv'
<1>1. AuthzTypeOK' /\ GrantsOK'
  BY AuthzRests DEF IInv
<1>2. OverlaysTypeOK' /\ ModulesOK'
  BY OverlaysRest, ModulesRest DEF IInv
<1>3. TasksOK'
  BY EndsOK, OthersRest DEF IInv
<1> QED BY <1>1, <1>2, <1>3 DEF IInv

(* A body that has been judged by a shape makes a row that core accepts. *)
LEMMA BodyFits ==
  ASSUME NEW eff, Shape(eff), NEW body, NEW partial, validated(eff, body, partial),
         \A f \in DOMAIN body : body[f] \in Values
  PROVE  /\ DOMAIN body \subseteq Names
         /\ \A f \in DOMAIN body \cap DOMAIN Core : body[f] \in Core[f].options
         /\ DOMAIN Custom(body) = DOMAIN body \ DOMAIN Core
         /\ \A f \in DOMAIN Custom(body) : Custom(body)[f] = body[f]
<1>1. DOMAIN body \subseteq Names
  BY DEF validated, Shape, Names
<1>2. \A f \in DOMAIN body \cap DOMAIN Core : body[f] \in Core[f].options
  BY DEF validated, Shape
<1> QED BY <1>1, <1>2 DEF Custom, Restrict

LEMMA CreateOK ==
  ASSUME IInv, NEW c \in Clients, Create(c)
  PROVE  IInv'
<1> DEFINE t == task[c]
           diff == [f \in DOMAIN t.body |-> [old |-> None, new |-> t.body[f]]]
           entry == [id |-> t.id, verb |-> t.verb, by |-> t.by, diff |-> diff,
                     custom |-> TRUE, knew |-> DOMAIN t.eff.fields, must |-> t.must]
           row == [core |-> Restrict(t.body, DOMAIN Core), custom |-> Custom(t.body), archived |-> FALSE]
<1>1. /\ WriteOK(t) /\ t.at = "insert" /\ RecordsOK /\ End(c)
      /\ UNCHANGED <<tables, scenario, fresh, left, overlays, enabled>>
  BY DEF Create, At, IInv, TasksOK, TaskOK
<1>2. CASE UNCHANGED records
  BY <1>1, <1>2, RecordsRest, WriteStep DEF records
<1>3. CASE /\ Allow(t.conds, t.body[Owner]) /\ t.id \notin DOMAIN rows
           /\ rows' = Amend(rows, Row(t.id, row))
           /\ audit' = Append(audit, entry)
  <2>1. /\ t.verb = "create" /\ validated(t.eff, t.body, FALSE) /\ Shape(t.eff) /\ t.must = {}
        /\ t.id \in Ids /\ \A f \in DOMAIN t.body : t.body[f] \in Values
    BY <1>1 DEF WriteOK
  <2>2. /\ DOMAIN t.body \subseteq Names
        /\ \A f \in DOMAIN t.body \cap DOMAIN Core : t.body[f] \in Core[f].options
        /\ DOMAIN Custom(t.body) = DOMAIN t.body \ DOMAIN Core
        /\ \A f \in DOMAIN Custom(t.body) : Custom(t.body)[f] = t.body[f]
    BY <2>1, BodyFits
  <2>3. DOMAIN Core \subseteq DOMAIN t.body
    BY <2>1 DEF validated
  <2>4. /\ DOMAIN rows' = DOMAIN rows \cup {t.id} /\ rows'[t.id] = row
        /\ \A id \in DOMAIN rows : id # t.id => rows'[id] = rows[id]
    <3> HIDE DEF row
    <3> QED BY <1>3 DEF Amend, Row
  <2>5. /\ DOMAIN row.core = DOMAIN Core /\ \A f \in DOMAIN Core : row.core[f] = t.body[f]
        /\ row.core = [f \in DOMAIN Core |-> row.core[f]]
        /\ row.custom = Custom(t.body) /\ row.archived = FALSE
        /\ DOMAIN row = {"core", "custom", "archived"}
    BY <2>3 DEF Restrict
  <2> HIDE DEF row
  <2>6. RowOK(row)
    BY <2>1, <2>2, <2>3, <2>5 DEF RowOK
  <2>7. \A f \in Names : Cell(row, f) = IF f \in DOMAIN t.body THEN t.body[f] ELSE None
    BY <2>2, <2>3, <2>5 DEF Cell, Columns, Amend
  <2>13. PICK e : e = entry
    OBVIOUS
  <2>8. /\ e.id = t.id /\ e.verb = "create" /\ e.by = t.by /\ e.diff = diff /\ e.must = {}
        /\ DOMAIN diff = DOMAIN t.body
        /\ \A f \in DOMAIN diff : diff[f].old = None /\ diff[f].new = t.body[f]
    BY <2>1, <2>13
  <2>9. t.by = Clerk /\ scenario.left["grant"] = 0 => t.body[Owner] = "own"
    BY <1>1, <1>3, AuthzAssumption DEF WriteOK, OwnOnly, Allow, Records
  <2> HIDE DEF entry, diff
  <2>10. EntryOK(e)'
    BY <2>2, <2>4, <2>8 DEF EntryOK
  <2>11. \A f \in Names : Cell(row, f) = IF Decides(e, f) THEN Leaves(e, f) ELSE None
    BY <2>7, <2>8 DEF Decides, Leaves
  <2>12. RecordsOK'
    <3>1. e.id \in Ids /\ RowOK(rows'[e.id]) /\ rows'[e.id].archived \in BOOLEAN /\ e.id \notin DOMAIN rows
      BY <1>3, <2>1, <2>4, <2>5, <2>6, <2>8
    <3>2. \A f \in Names : f \in DOMAIN Core \/ scenario.dialect = "sqlite" =>
            Cell(rows'[e.id], f) = IF Decides(e, f) THEN Leaves(e, f)
                                   ELSE IF e.id \in DOMAIN rows THEN Cell(rows[e.id], f) ELSE None
      BY <2>4, <2>8, <2>11, <3>1
    <3>3. scenario.dialect = "sqlite" => \A f \in DOMAIN e.diff \ {ArchivedAt} :
            e.diff[f].old = IF e.id \in DOMAIN rows THEN Cell(rows[e.id], f) ELSE None
      BY <2>8, <3>1
    <3>4. scenario.left["grant"] = 0 /\ scenario.dialect = "sqlite" /\ e.by = Clerk =>
            (IF e.verb = "create" THEN e.diff[Owner].new ELSE Cell(rows[e.id], Owner)) = "own"
      BY <2>3, <2>8, <2>9, RecordsAssumption
    <3>5. audit' = Append(audit, e) /\ UNCHANGED scenario
      BY <1>1, <1>3, <2>13
    <3>6. DOMAIN rows' = DOMAIN rows \cup {e.id} /\ \A id \in DOMAIN rows : id # e.id => rows'[id] = rows[id]
      BY <2>4, <2>8
    <3>7. e.verb # "create" => e.id \in DOMAIN rows
      BY <2>8
    <3>8. rows'[e.id].archived <=> \/ e.id \in DOMAIN rows /\ rows[e.id].archived
                                  \/ ArchivedAt \in DOMAIN e.diff
      BY <2>2, <2>4, <2>5, <2>8, <3>1, ArchivedAtAssumption
    <3> QED BY <1>1, <2>10, <3>1, <3>2, <3>3, <3>4, <3>5, <3>6, <3>7, <3>8, Recorded
  <2> QED BY <1>1, <2>4, <2>12, WriteStep
<1> QED BY <1>1, <1>2, <1>3 DEF Create, recordAudit, WriteOK

LEMMA ReadRowOK ==
  ASSUME IInv, NEW c \in Clients, ReadRow(c)
  PROVE  IInv'
<1> DEFINE t == task[c]
           what == [row |-> rows[t.id]]
<1>1. Quietly /\ TaskOK(t) /\ t.op = "write" /\ t.at = "read" /\ TasksOK /\ WriteOK(t)
  BY DEF ReadRow, At, IInv, TasksOK, TaskOK
<1>2. CASE End(c)
  BY <1>1, <1>2, EndsOK, QuietStep
<1>3. CASE t.id \in DOMAIN rows /\ Allow(t.conds, rows[t.id].core[Owner]) /\ Keep(c, "commit", what)
  <2>1. DOMAIN what = {"row"} /\ what.row = rows[t.id]
    OBVIOUS
  <2>2. /\ Acts(c) /\ DOMAIN task'[c] = DOMAIN t \cup {"row", "at"}
        /\ task'[c].at = "commit" /\ task'[c].row = rows[t.id]
        /\ \A f \in DOMAIN t : f \notin {"row", "at"} => task'[c][f] = t[f]
    <3>1. Keep(c, "commit", what) /\ DOMAIN task = Clients
      BY <1>1, <1>3 DEF TasksOK
    <3> HIDE DEF what
    <3> QED BY <2>1, <3>1, Kept DEF Acts
  <2>3. /\ task'[c].op = "write" /\ task'[c].by = t.by /\ task'[c].verb = t.verb
        /\ task'[c].id = t.id /\ task'[c].body = t.body /\ task'[c].eff = t.eff
        /\ task'[c].conds = t.conds /\ task'[c].list = t.list
        /\ task'[c].todo = t.todo /\ task'[c].must = t.must
    BY <1>1, <2>2 DEF TaskOK, WriteOK
  <2>4. RowOK(rows[t.id])
    BY <1>3 DEF IInv, RecordsOK, RowsOK
  <2>5. RowOK(task'[c].row) /\ Allow(task'[c].conds, task'[c].row.core[Owner])
    BY <1>3, <2>2, <2>3, <2>4
  <2>6. WriteOK(task[c])'
    BY <1>1, <1>3, <2>2, <2>3, <2>5
       DEF WriteOK, Quietly, records, Shape, ListOK, OwnOnly, validated, Allow, RowOK
  <2>7. TaskOK(task[c])'
    BY <1>1, <2>2, <2>3, <2>6 DEF TaskOK
  <2> QED BY <1>1, <2>2, <2>7, QuietStep
<1> QED BY <1>2, <1>3 DEF ReadRow

LEMMA StartAgainOK ==
  ASSUME IInv, NEW c \in Clients, StartAgain(c)
  PROVE  IInv'
<1> DEFINE t == task[c]
<1>1. /\ Quietly /\ TaskOK(t) /\ t.op = "write" /\ t.at = "commit" /\ TasksOK /\ WriteOK(t)
      /\ Goto(c, "read")
  BY DEF StartAgain, At, IInv, TasksOK, TaskOK
<1>2. /\ Acts(c) /\ DOMAIN task'[c] = DOMAIN t /\ task'[c].at = "read"
      /\ \A f \in DOMAIN t : f # "at" => task'[c][f] = t[f]
  BY <1>1, Gone DEF TasksOK, TaskOK, Acts
<1>3. /\ task'[c].op = "write" /\ task'[c].by = t.by /\ task'[c].verb = t.verb
      /\ task'[c].id = t.id /\ task'[c].body = t.body /\ task'[c].eff = t.eff
      /\ task'[c].conds = t.conds /\ task'[c].list = t.list
      /\ task'[c].todo = t.todo /\ task'[c].must = t.must
  BY <1>1, <1>2 DEF TaskOK, WriteOK
<1>4. WriteOK(task[c])'
  BY <1>1, <1>2, <1>3 DEF WriteOK, Quietly, records, Shape, ListOK, OwnOnly, validated
<1>5. TaskOK(task[c])'
  BY <1>1, <1>2, <1>3, <1>4 DEF TaskOK
<1> QED BY <1>1, <1>2, <1>5, QuietStep

(* An update whose row may have changed since it was read only on Postgres. *)
LEMMA UpdateOK ==
  ASSUME IInv, NEW c \in Clients, Update(c)
  PROVE  IInv'
<1> DEFINE t == task[c]
           touched == DOMAIN Custom(t.body) # {}
           now == rows[t.id]
           diff == [f \in DOMAIN t.body |->
                      [old |-> Current(t.row, DOMAIN t.eff.fields, f), new |-> t.body[f]]]
           entry == [id |-> t.id, verb |-> t.verb, by |-> t.by, diff |-> diff,
                     custom |-> touched, knew |-> DOMAIN t.eff.fields, must |-> t.must]
           set == Restrict(t.body, DOMAIN t.body \cap DOMAIN Core)
           row == [core |-> Amend(now.core, set),
                   custom |-> IF touched THEN merged(t) ELSE now.custom, archived |-> now.archived]
<1>1. /\ WriteOK(t) /\ t.at = "commit" /\ RecordsOK /\ End(c) /\ t.verb = "update" /\ MayCommit(t)
      /\ UNCHANGED <<tables, scenario, fresh, left, overlays, enabled>>
  BY DEF Update, At, IInv, TasksOK, TaskOK
<1>2. rows' = [rows EXCEPT ![t.id] = row] /\ audit' = Append(audit, entry)
  BY DEF Update, recordAudit
<1>3. /\ validated(t.eff, t.body, TRUE) /\ Shape(t.eff) /\ t.must = {} /\ t.id \in Ids
      /\ t.id \in DOMAIN rows /\ RowOK(t.row) /\ Allow(t.conds, t.row.core[Owner])
      /\ \A f \in DOMAIN t.body : t.body[f] \in Values
  BY <1>1 DEF WriteOK
<1>4. RowOK(now) /\ now.archived \in BOOLEAN
  BY <1>1, <1>3 DEF RecordsOK, RowsOK
<1>5. /\ DOMAIN t.body \subseteq Names
      /\ \A f \in DOMAIN t.body \cap DOMAIN Core : t.body[f] \in Core[f].options
      /\ DOMAIN Custom(t.body) = DOMAIN t.body \ DOMAIN Core
      /\ \A f \in DOMAIN Custom(t.body) : Custom(t.body)[f] = t.body[f]
  BY <1>3, BodyFits
<1>6. /\ DOMAIN rows' = DOMAIN rows \cup {t.id} /\ rows'[t.id] = row
      /\ \A id \in DOMAIN rows : id # t.id => rows'[id] = rows[id]
  <2> HIDE DEF row
  <2> QED BY <1>2, <1>3
<1>7. /\ row.core = [f \in DOMAIN Core |-> row.core[f]]
      /\ \A f \in DOMAIN Core :
           row.core[f] = IF f \in DOMAIN t.body THEN t.body[f] ELSE now.core[f]
  <2>1. DOMAIN now.core = DOMAIN Core
    BY <1>4 DEF RowOK
  <2> HIDE DEF now
  <2> QED BY <2>1 DEF Amend, Restrict
<1>8. /\ touched => DOMAIN row.custom = (DOMAIN t.row.custom \cap (DOMAIN t.eff.fields \cup {I18n}))
                                        \cup DOMAIN Custom(t.body)
      /\ touched => \A f \in DOMAIN row.custom :
           row.custom[f] = IF f \in DOMAIN Custom(t.body) THEN t.body[f] ELSE t.row.custom[f]
      /\ ~touched => row.custom = now.custom
      /\ row.archived = now.archived /\ DOMAIN row = {"core", "custom", "archived"}
  <2>1. /\ row.custom = (IF touched THEN merged(t) ELSE now.custom) /\ row.archived = now.archived
        /\ DOMAIN row = {"core", "custom", "archived"}
    OBVIOUS
  <2> HIDE DEF row, now
  <2> QED BY <1>5, <2>1 DEF merged, Amend, Restrict
<1> HIDE DEF row
<1>9. RowOK(row)
  <2>1. \A f \in DOMAIN Core : row.core[f] \in Core[f].options /\ row.core[f] \in Values
    BY <1>3, <1>4, <1>5, <1>7 DEF RowOK
  <2>2. DOMAIN row.custom \subseteq Names \ DOMAIN Core /\ \A f \in DOMAIN row.custom : row.custom[f] \in Values
    <3> HIDE DEF now
    <3>1. CASE touched
      BY <1>3, <1>5, <1>8, <3>1 DEF RowOK
    <3>2. CASE ~touched
      BY <1>4, <1>8, <3>2 DEF RowOK
    <3> QED BY <3>1, <3>2
  <2> QED BY <1>7, <1>8, <2>1, <2>2 DEF RowOK
<1>10. PICK e : e = entry
  OBVIOUS
<1>11. /\ e.id = t.id /\ e.verb = "update" /\ e.by = t.by /\ e.diff = diff /\ e.must = {}
       /\ e.custom = touched /\ e.knew = DOMAIN t.eff.fields
       /\ DOMAIN diff = DOMAIN t.body
       /\ \A f \in DOMAIN diff : /\ diff[f].old = Current(t.row, DOMAIN t.eff.fields, f)
                                 /\ diff[f].new = t.body[f]
  BY <1>1, <1>3, <1>10
<1> HIDE DEF entry, diff
<1>12. scenario.dialect = "sqlite" => now = t.row
  BY <1>1 DEF MayCommit
<1>13. EntryOK(e)'
  BY <1>3, <1>5, <1>6, <1>11 DEF EntryOK
<1>14. ASSUME NEW f \in Names, f \in DOMAIN Core \/ scenario.dialect = "sqlite"
       PROVE  Cell(row, f) = IF Decides(e, f) THEN Leaves(e, f) ELSE Cell(now, f)
  <2>0. /\ DOMAIN row.core = DOMAIN Core /\ DOMAIN now.core = DOMAIN Core
        /\ DOMAIN Core \subseteq DOMAIN t.eff.fields
    BY <1>3, <1>4, <1>7 DEF RowOK, Shape
  <2>1. CASE f \in DOMAIN Core
    <3>1. Cell(row, f) = row.core[f] /\ Cell(now, f) = now.core[f]
      BY <2>0, <2>1 DEF Cell, Columns, Amend
    <3>2. Decides(e, f) <=> f \in DOMAIN t.body
      BY <1>11, <2>0, <2>1 DEF Decides
    <3> QED BY <1>7, <1>11, <2>1, <3>1, <3>2 DEF Leaves
  <2>2. CASE f \notin DOMAIN Core /\ scenario.dialect = "sqlite"
    <3>1. /\ Cell(row, f) = IF f \in DOMAIN row.custom THEN row.custom[f] ELSE None
          /\ Cell(now, f) = IF f \in DOMAIN t.row.custom THEN t.row.custom[f] ELSE None
      BY <1>12, <2>0, <2>2 DEF Cell, Columns, Amend
    <3>2. Decides(e, f) <=> f \in DOMAIN t.body \/ (touched /\ f \notin DOMAIN t.eff.fields \cup {I18n})
      BY <1>11 DEF Decides
    <3>3. f \in DOMAIN t.body => touched /\ f \in DOMAIN Custom(t.body)
      BY <1>5, <2>2
    <3>4. Leaves(e, f) = IF f \in DOMAIN t.body THEN t.body[f] ELSE None
      BY <1>11 DEF Leaves
    <3>5. CASE touched
      <4> HIDE DEF now, touched
      <4> QED BY <1>5, <1>8, <2>2, <3>1, <3>2, <3>3, <3>4, <3>5
    <3>6. CASE ~touched
      <4> HIDE DEF now, touched
      <4> QED BY <1>8, <1>12, <2>2, <3>1, <3>2, <3>3, <3>6
    <3> QED BY <3>5, <3>6
  <2> QED BY <1>14, <2>1, <2>2
<1>15. ASSUME scenario.dialect = "sqlite", NEW f \in DOMAIN t.body
       PROVE  diff[f].old = Cell(now, f)
  <2>1. f \in DOMAIN t.eff.fields \cup {I18n}
    BY <1>3 DEF validated
  <2> QED BY <1>11, <1>12, <1>15, <2>1 DEF Current, Cell
<1>16. t.by = Clerk /\ scenario.left["grant"] = 0 /\ scenario.dialect = "sqlite" => Cell(now, Owner) = "own"
  <2>1. t.by = Clerk /\ scenario.left["grant"] = 0 => t.row.core[Owner] = "own"
    BY <1>1, <1>3, AuthzAssumption DEF WriteOK, OwnOnly, Allow, Records
  <2>2. Cell(now, Owner) = now.core[Owner]
    BY <1>4, RecordsAssumption DEF Cell, Columns, Amend, RowOK
  <2> QED BY <1>12, <2>1, <2>2
<1>17. RecordsOK'
  <2>1. e.id \in Ids /\ RowOK(rows'[e.id]) /\ rows'[e.id].archived \in BOOLEAN /\ e.id \in DOMAIN rows
    BY <1>3, <1>4, <1>6, <1>8, <1>9, <1>11
  <2>2. \A f \in Names : f \in DOMAIN Core \/ scenario.dialect = "sqlite" =>
          Cell(rows'[e.id], f) = IF Decides(e, f) THEN Leaves(e, f)
                                 ELSE IF e.id \in DOMAIN rows THEN Cell(rows[e.id], f) ELSE None
    BY <1>6, <1>11, <1>14, <2>1
  <2>3. scenario.dialect = "sqlite" => \A f \in DOMAIN e.diff \ {ArchivedAt} :
          e.diff[f].old = IF e.id \in DOMAIN rows THEN Cell(rows[e.id], f) ELSE None
    BY <1>11, <1>15, <2>1
  <2>4. scenario.left["grant"] = 0 /\ scenario.dialect = "sqlite" /\ e.by = Clerk =>
          (IF e.verb = "create" THEN e.diff[Owner].new ELSE Cell(rows[e.id], Owner)) = "own"
    BY <1>11, <1>16
  <2>5. audit' = Append(audit, e) /\ UNCHANGED scenario
    BY <1>1, <1>2, <1>10
  <2>6. DOMAIN rows' = DOMAIN rows \cup {e.id} /\ \A id \in DOMAIN rows : id # e.id => rows'[id] = rows[id]
    BY <1>6, <1>11
  <2>7. rows'[e.id].archived <=> \/ e.id \in DOMAIN rows /\ rows[e.id].archived
                                \/ ArchivedAt \in DOMAIN e.diff
    BY <1>5, <1>6, <1>8, <1>11, <2>1, ArchivedAtAssumption
  <2> QED BY <1>1, <1>13, <2>1, <2>2, <2>3, <2>4, <2>5, <2>6, <2>7, Recorded
<1> QED BY <1>1, <1>6, <1>17, WriteStep

LEMMA SoftDeleteOK ==
  ASSUME IInv, NEW c \in Clients, SoftDelete(c)
  PROVE  IInv'
<1> DEFINE t == task[c]
           now == rows[t.id]
           entry == [id |-> t.id, verb |-> t.verb, by |-> t.by,
                     diff |-> [f \in {ArchivedAt} |-> [old |-> None, new |-> Now]],
                     custom |-> FALSE, knew |-> DOMAIN t.eff.fields, must |-> t.must]
<1>1. /\ WriteOK(t) /\ t.at = "commit" /\ RecordsOK /\ End(c) /\ t.verb = "delete" /\ MayCommit(t)
      /\ UNCHANGED <<tables, scenario, fresh, left, overlays, enabled>>
  BY DEF SoftDelete, At, IInv, TasksOK, TaskOK
<1>2. rows' = [rows EXCEPT ![t.id].archived = TRUE] /\ audit' = Append(audit, entry)
  BY DEF SoftDelete, recordAudit
<1>3. /\ t.must = {} /\ t.id \in Ids /\ t.id \in DOMAIN rows /\ Allow(t.conds, t.row.core[Owner])
  BY <1>1 DEF WriteOK
<1>4. RowOK(now)
  BY <1>1, <1>3 DEF RecordsOK, RowsOK
<1>5. /\ DOMAIN rows' = DOMAIN rows \cup {t.id}
      /\ \A id \in DOMAIN rows : id # t.id => rows'[id] = rows[id]
      /\ rows'[t.id].core = now.core /\ rows'[t.id].custom = now.custom
      /\ DOMAIN rows'[t.id] = DOMAIN now /\ rows'[t.id].archived = TRUE
  <2>1. rows'[t.id] = [now EXCEPT !.archived = TRUE]
    BY <1>2, <1>3
  <2>2. DOMAIN now = {"core", "custom", "archived"}
    BY <1>4 DEF RowOK
  <2> QED BY <1>2, <1>3, <2>1, <2>2
<1>6. rows'[t.id].archived \in BOOLEAN
  BY <1>5
<1>7. PICK e : e = entry
  OBVIOUS
<1>8. /\ e.id = t.id /\ e.verb = "delete" /\ e.by = t.by /\ DOMAIN e.diff = {ArchivedAt} /\ e.must = {}
      /\ e.custom = FALSE
  BY <1>1, <1>3, <1>7
<1> HIDE DEF entry
<1>9. EntryOK(e)'
  BY <1>3, <1>5, <1>8 DEF EntryOK
<1>10. \A f \in Names : Cell(rows'[t.id], f) = Cell(now, f) /\ ~Decides(e, f)
  BY <1>5, <1>8, ArchivedAtAssumption DEF Cell, Columns, Decides
<1>11. t.by = Clerk /\ scenario.left["grant"] = 0 /\ scenario.dialect = "sqlite" => Cell(now, Owner) = "own"
  <2>1. t.by = Clerk /\ scenario.left["grant"] = 0 => t.row.core[Owner] = "own"
    BY <1>1, <1>3, AuthzAssumption DEF WriteOK, OwnOnly, Allow, Records
  <2>2. Cell(now, Owner) = now.core[Owner]
    BY <1>4, RecordsAssumption DEF Cell, Columns, Amend, RowOK
  <2> QED BY <1>1, <2>1, <2>2 DEF MayCommit
<1>12. RecordsOK'
  <2>1. e.id \in Ids /\ RowOK(rows'[e.id]) /\ rows'[e.id].archived \in BOOLEAN /\ e.id \in DOMAIN rows
    BY <1>3, <1>4, <1>5, <1>6, <1>8 DEF RowOK
  <2>2. \A f \in Names : f \in DOMAIN Core \/ scenario.dialect = "sqlite" =>
          Cell(rows'[e.id], f) = IF Decides(e, f) THEN Leaves(e, f)
                                 ELSE IF e.id \in DOMAIN rows THEN Cell(rows[e.id], f) ELSE None
    BY <1>8, <1>10, <2>1
  <2>3. scenario.left["grant"] = 0 /\ scenario.dialect = "sqlite" /\ e.by = Clerk =>
          (IF e.verb = "create" THEN e.diff[Owner].new ELSE Cell(rows[e.id], Owner)) = "own"
    BY <1>8, <1>11
  <2>4. audit' = Append(audit, e) /\ UNCHANGED scenario
    BY <1>1, <1>2, <1>7
  <2>5. DOMAIN rows' = DOMAIN rows \cup {e.id} /\ \A id \in DOMAIN rows : id # e.id => rows'[id] = rows[id]
    BY <1>5, <1>8
  <2>6. \A f \in DOMAIN e.diff \ {ArchivedAt} : e.diff[f].old = IF e.id \in DOMAIN rows THEN Cell(rows[e.id], f) ELSE None
    BY <1>8
  <2>7. rows'[e.id].archived <=> \/ e.id \in DOMAIN rows /\ rows[e.id].archived
                                \/ ArchivedAt \in DOMAIN e.diff
    BY <1>5, <1>8
  <2> QED BY <1>1, <1>9, <2>1, <2>2, <2>3, <2>4, <2>5, <2>6, <2>7, Recorded
<1> QED BY <1>1, <1>5, <1>12, WriteStep

--------------------------------------------------------------------------------
(* Administrators: documents and plugins. *)

(* A step of overlays. *)
LEMMA OverlayStep ==
  ASSUME IInv, NEW c \in Clients, Acts(c), TaskOK(task[c])', OverlaysTypeOK',
         UNCHANGED <<tables, scenario, fresh, enabled, records>>,
         UNCHANGED left \/ \E k \in Kinds : Spend(k)
  PROVE  IInv'
<1>1. AuthzTypeOK' /\ GrantsOK'
  BY AuthzRests DEF IInv
<1>2. ModulesOK' /\ RecordsOK'
  BY ModulesRest, RecordsRest DEF IInv
<1>3. TasksOK'
  BY OthersRest DEF IInv, records
<1> QED BY <1>1, <1>2, <1>3 DEF IInv

(* A task that begins. *)
LEMMA Begun ==
  ASSUME TasksOK, NEW c \in Clients, NEW t, task' = [task EXCEPT ![c] = t], TaskOK(t)'
  PROVE  Acts(c) /\ TaskOK(task[c])'
<1>1. Acts(c) /\ task'[c] = t
  BY DEF TasksOK, Acts
<1> QED BY <1>1 DEF TaskOK, WriteOK, DocumentOK, SwitchOK

LEMMA Sources == Tenant \in DOMAIN Documents /\ Plugins \subseteq DOMAIN Documents
  BY OverlayAssumption

LEMMA BeginDocumentOK ==
  ASSUME IInv, NEW c \in Clients, BeginOverlay(c) \/ BeginPlugin(c), UNCHANGED <<enabled, records>>
  PROVE  IInv'
<1>1. UNCHANGED <<tables, scenario, fresh, overlays>> /\ \E k \in Kinds : Spend(k)
  BY DEF BeginOverlay, BeginPlugin, Kinds
<1>2. PICK t : /\ task' = [task EXCEPT ![c] = t]
               /\ \/ \E d \in Documents[Tenant], op \in {"overlay", "unoverlay"} :
                       t = [op |-> op, at |-> "check", source |-> Tenant, doc |-> d]
                  \/ \E x \in Plugins : \E d \in Documents[x] :
                       t = [op |-> "install", at |-> "check", source |-> x, doc |-> d]
                  \/ \E x \in Plugins : t = [op |-> "uninstall", at |-> "write", source |-> x]
  <2>1. CASE BeginOverlay(c)
    BY <2>1 DEF BeginOverlay
  <2>2. CASE BeginPlugin(c)
    BY <2>2 DEF BeginPlugin
  <2> QED BY <2>1, <2>2
<1>3. TaskOK(t)'
  BY <1>2, Sources DEF TaskOK, DocumentOK
<1>4. Acts(c) /\ TaskOK(task[c])'
  BY <1>2, <1>3, Begun DEF IInv
<1>5. OverlaysTypeOK'
  BY <1>1, OverlaysRest DEF IInv
<1> QED BY <1>1, <1>4, <1>5, OverlayStep

LEMMA CheckOverlayOK ==
  ASSUME IInv, NEW c \in Clients, CheckOverlay(c), UNCHANGED <<enabled, records>>
  PROVE  IInv'
<1>1. /\ Quietly /\ TaskOK(task[c]) /\ task[c].op \in {"overlay", "install"} /\ TasksOK
      /\ End(c) \/ Goto(c, "write")
  BY DEF CheckOverlay, IInv, TasksOK, Quietly
<1>2. CASE End(c)
  BY <1>1, <1>2, EndsOK, QuietStep
<1>3. CASE Goto(c, "write")
  <2>1. /\ Acts(c) /\ DOMAIN task'[c] = DOMAIN task[c]
        /\ \A f \in DOMAIN task[c] : f # "at" => task'[c][f] = task[c][f]
    BY <1>1, <1>3, Gone DEF TasksOK, TaskOK, Acts
  <2>2. TaskOK(task[c])'
    BY <1>1, <2>1 DEF TaskOK, DocumentOK
  <2> QED BY <1>1, <2>1, <2>2, QuietStep
<1> QED BY <1>1, <1>2, <1>3

(* The tables of the overlays with one entry more. *)
LEMMA StoresDocument ==
  ASSUME OverlaysTypeOK, NEW s \in DOMAIN Documents, NEW d \in Documents[s],
         layers' = Amend(layers, Row(s, d))
  PROVE  DOMAIN layers' \subseteq DOMAIN Documents /\ \A x \in DOMAIN layers' : layers'[x] \in Documents[x]
  BY DEF OverlaysTypeOK, Amend, Row

LEMMA StoreOverlayOK ==
  ASSUME IInv, NEW c \in Clients, SaveOverlayTx(c) \/ DeleteOverlay(c), UNCHANGED <<enabled, records>>
  PROVE  IInv'
<1>1. UNCHANGED <<tables, scenario, fresh, left, breakers, cached>> /\ End(c)
  BY DEF SaveOverlayTx, DeleteOverlay
<1>2. Acts(c) /\ TaskOK(task[c])'
  BY <1>1, EndsOK DEF IInv
<1>3. DOMAIN layers' \subseteq DOMAIN Documents /\ \A s \in DOMAIN layers' : layers'[s] \in Documents[s]
  <2>1. CASE SaveOverlayTx(c)
    <3>1. task[c].doc \in Documents[Tenant] /\ layers' = Amend(layers, Row(Tenant, task[c].doc))
      BY <2>1 DEF SaveOverlayTx, At, IInv, TasksOK, TaskOK, DocumentOK
    <3> QED BY <3>1, Sources, StoresDocument DEF IInv
  <2>2. CASE DeleteOverlay(c)
    BY <2>2 DEF DeleteOverlay, Restrict, IInv, OverlaysTypeOK
  <2> QED BY <2>1, <2>2
<1>4. OverlaysTypeOK'
  BY <1>1, <1>3 DEF IInv, OverlaysTypeOK
<1> QED BY <1>1, <1>2, <1>4, OverlayStep

LEMMA InstallTxOK ==
  ASSUME IInv, NEW c \in Clients, InstallTx(c), UNCHANGED <<enabled, records>>
  PROVE  IInv'
<1> DEFINE t == task[c]
<1>1. UNCHANGED <<tables, scenario, fresh, left>> /\ End(c)
  BY DEF InstallTx
<1>2. Acts(c) /\ TaskOK(task[c])'
  BY <1>1, EndsOK DEF IInv
<1>3. t.source \in Plugins /\ t.doc \in Documents[t.source]
  BY DEF InstallTx, At, IInv, TasksOK, TaskOK, DocumentOK
<1>4. OverlaysTypeOK'
  <2>1. CASE UNCHANGED overlays
    BY <2>1, OverlaysRest DEF IInv
  <2>2. CASE /\ layers' = Amend(layers, Row(t.source, t.doc))
             /\ breakers' = Amend(breakers, Row(t.source, Closed(t.doc.hook)))
             /\ cached' \in {cached, breakers'}
    <3>1. DOMAIN layers' \subseteq DOMAIN Documents /\ \A s \in DOMAIN layers' : layers'[s] \in Documents[s]
      BY <1>3, <2>2, Sources, StoresDocument DEF IInv
    <3>2. Closed(t.doc.hook) \in Plugin
      <4>1. t.doc.hook \in HookKinds /\ 0 \in 0..BreakerThreshold
        BY <1>3, Sources, OverlayAssumption DEF Range
      <4> QED BY <4>1 DEF Closed, Plugin
    <3>3. ListOK(breakers) /\ ListOK(cached)
      BY DEF IInv, OverlaysTypeOK, ListOK, Plugin
    <3>4. ListOK(breakers')
      BY <1>3, <2>2, <3>2, <3>3 DEF ListOK, Amend, Row
    <3>5. ListOK(cached')
      BY <2>2, <3>3, <3>4
    <3> QED BY <3>1, <3>4, <3>5 DEF OverlaysTypeOK, ListOK, Plugin
  <2> QED BY <2>1, <2>2 DEF InstallTx
<1> QED BY <1>1, <1>2, <1>4, OverlayStep

LEMMA UninstallTxOK ==
  ASSUME IInv, NEW c \in Clients, UninstallTx(c), UNCHANGED <<enabled, records>>
  PROVE  IInv'
<1>1. UNCHANGED <<tables, scenario, fresh, left>> /\ End(c)
  BY DEF UninstallTx
<1>2. Acts(c) /\ TaskOK(task[c])'
  BY <1>1, EndsOK DEF IInv
<1>3. OverlaysTypeOK'
  <2>1. DOMAIN layers' \subseteq DOMAIN Documents /\ \A s \in DOMAIN layers' : layers'[s] \in Documents[s]
    BY DEF UninstallTx, Restrict, IInv, OverlaysTypeOK
  <2>2. ListOK(breakers) /\ ListOK(cached)
    BY DEF IInv, OverlaysTypeOK, ListOK, Plugin
  <2>3. ListOK(breakers')
    BY <2>2 DEF UninstallTx, Restrict, ListOK
  <2>4. ListOK(cached')
    BY <2>2, <2>3 DEF UninstallTx
  <2> QED BY <2>1, <2>3, <2>4 DEF OverlaysTypeOK, ListOK, Plugin
<1> QED BY <1>1, <1>2, <1>3, OverlayStep

(* What the breakers do by themselves. *)
LEMMA BreakersOK ==
  ASSUME IInv, pluginsFor \/ Cooldown \/ ResetBreaker, UNCHANGED <<enabled, records>>
  PROVE  IInv'
<1>1. /\ UNCHANGED <<tables, scenario, fresh, task, layers>>
      /\ UNCHANGED left \/ \E k \in Kinds : Spend(k)
  BY DEF pluginsFor, Cooldown, ResetBreaker, Kinds
<1>2. ListOK(breakers) /\ ListOK(cached)
  BY DEF IInv, OverlaysTypeOK, ListOK, Plugin
<1>3. ListOK(breakers') /\ ListOK(cached')
  <2>1. CASE pluginsFor
    BY <1>2, <2>1 DEF pluginsFor
  <2>2. CASE Cooldown
    <3> DEFINE cool(t, x) == IF x \in DOMAIN t /\ t[x].breaker = "open"
                             THEN [t EXCEPT ![x].breaker = "cooled"] ELSE t
    <3>1. PICK x \in DOMAIN breakers : breakers' = cool(breakers, x) /\ cached' = cool(cached, x)
      BY <2>2 DEF Cooldown
    <3>2. ASSUME NEW t, ListOK(t) PROVE ListOK(cool(t, x))
      <4>1. CASE x \in DOMAIN t /\ t[x].breaker = "open"
        <5>1. t[x] \in Plugin
          BY <3>2, <4>1 DEF ListOK
        <5>2. [t[x] EXCEPT !.breaker = "cooled"] \in Plugin
          BY <5>1 DEF Plugin
        <5>3. DOMAIN cool(t, x) = DOMAIN t /\ \A y \in DOMAIN t :
                cool(t, x)[y] = IF y = x THEN [t[x] EXCEPT !.breaker = "cooled"] ELSE t[y]
          BY <4>1
        <5> HIDE DEF cool
        <5> QED BY <3>2, <5>2, <5>3 DEF ListOK
      <4>2. CASE ~(x \in DOMAIN t /\ t[x].breaker = "open")
        BY <3>2, <4>2
      <4> QED BY <4>1, <4>2
    <3> HIDE DEF cool
    <3> QED BY <1>2, <3>1, <3>2
  <2>3. CASE ResetBreaker
    <3>1. PICK x \in DOMAIN breakers : breakers' = [breakers EXCEPT ![x] = Closed(@.hook)]
      BY <2>3 DEF ResetBreaker
    <3>2. Closed(breakers[x].hook) \in Plugin
      <4>1. breakers[x].hook \in HookKinds /\ 0 \in 0..BreakerThreshold
        BY <1>2, <3>1, OverlayAssumption DEF ListOK, Plugin
      <4> QED BY <4>1 DEF Closed, Plugin
    <3> QED BY <1>2, <2>3, <3>1, <3>2 DEF ListOK, ResetBreaker
  <2> QED BY <2>1, <2>2, <2>3
<1>4. OverlaysTypeOK'
  BY <1>1, <1>3 DEF IInv, OverlaysTypeOK, ListOK, Plugin
<1>5. AuthzTypeOK' /\ GrantsOK' /\ ModulesOK' /\ RecordsOK'
  BY <1>1, AuthzRests, ModulesRest, RecordsRest DEF IInv
<1>6. TasksOK'
  <2>1. \A c \in Clients : TaskOK(task[c])'
    BY <1>1, TaskRests DEF IInv, TasksOK, records
  <2> QED BY <1>1, <2>1 DEF IInv, TasksOK
<1> QED BY <1>4, <1>5, <1>6 DEF IInv

--------------------------------------------------------------------------------
(* Administrators: modules. *)

(* The closure of some modules is whole, has them, and is part of every whole set that has. *)
LEMMA ClosureWhole ==
  ASSUME NEW seeds \in SUBSET Modules
  PROVE  Whole(Closure(seeds)) /\ seeds \subseteq Closure(seeds)
<1>1. Closure(seeds) \subseteq Modules /\ seeds \cup Kernel \subseteq Closure(seeds)
  BY ModulesAssumption DEF Closure
<1>2. ASSUME NEW m \in Closure(seeds), NEW n \in Requires[m] PROVE n \in Closure(seeds)
  <2>1. n \in Modules
    BY <1>1, ModulesAssumption
  <2> QED BY <2>1 DEF Closure
<1> QED BY <1>1, <1>2 DEF Whole

(* A module that nothing on needs can go. *)
LEMMA StaysWhole ==
  ASSUME NEW on, Whole(on), NEW m, m \notin Kernel, DisableImpact(on, m) = {}
  PROVE  Whole(on \ {m})
<1>1. ASSUME NEW n \in on \ {m} PROVE Requires[n] \subseteq on \ {m}
  <2>1. CASE n \in Kernel
    BY <2>1, ModulesAssumption DEF Whole
  <2>2. CASE n \notin Kernel
    BY <2>2 DEF DisableImpact
  <2> QED BY <2>1, <2>2
<1> QED BY <1>1 DEF Whole

(* A step of the modules. *)
LEMMA ModuleStep ==
  ASSUME IInv, NEW c \in Clients, Acts(c), TaskOK(task[c])', ModulesOK',
         UNCHANGED <<tables, scenario, fresh, overlays, records>>,
         UNCHANGED left \/ \E k \in Kinds : Spend(k)
  PROVE  IInv'
<1>1. AuthzTypeOK' /\ GrantsOK'
  BY AuthzRests DEF IInv
<1>2. OverlaysTypeOK' /\ RecordsOK'
  BY OverlaysRest, RecordsRest DEF IInv
<1>3. TasksOK'
  BY OthersRest DEF IInv, records
<1> QED BY <1>1, <1>2, <1>3 DEF IInv

LEMMA BeginModuleOK ==
  ASSUME IInv, NEW c \in Clients, BeginModule(c), UNCHANGED records
  PROVE  IInv'
<1>1. UNCHANGED <<tables, scenario, fresh, overlays, enabled>> /\ \E k \in Kinds : Spend(k)
  BY DEF BeginModule, Kinds
<1>2. PICK t : /\ task' = [task EXCEPT ![c] = t]
               /\ \E m \in Modules, op \in {"enable", "disable", "profile"} :
                    t = [op |-> op, at |-> "read", mod |-> m]
  BY DEF BeginModule
<1>3. TaskOK(t)'
  BY <1>2 DEF TaskOK, SwitchOK
<1>4. Acts(c) /\ TaskOK(task[c])'
  BY <1>2, <1>3, Begun DEF IInv
<1>5. ModulesOK'
  BY <1>1, ModulesRest DEF IInv
<1> QED BY <1>1, <1>4, <1>5, ModuleStep

(* What is read is used to decide what is written. *)
LEMMA ReadModulesOK ==
  ASSUME IInv, NEW c \in Clients, DisableRead(c) \/ EnableRead(c), UNCHANGED records
  PROVE  IInv'
<1> DEFINE t == task[c]
<1>1. /\ Quietly /\ TaskOK(t) /\ t.op \in {"enable", "disable"} /\ TasksOK
      /\ "mod" \in DOMAIN t /\ t.mod \in Modules /\ enabled \subseteq Modules
  BY DEF DisableRead, EnableRead, At, IInv, TasksOK, TaskOK, SwitchOK, Quietly, ModulesOK
<1>2. ASSUME NEW on, NEW off, Keep(c, "write", [seen |-> enabled, off |-> off, on |-> on]),
             on \subseteq Modules, Whole(enabled) => Whole((enabled \cup on) \ off)
      PROVE  IInv'
  <2> DEFINE what == [seen |-> enabled, off |-> off, on |-> on]
  <2>1. DOMAIN what = {"seen", "off", "on"} /\ what.seen = enabled /\ what.off = off /\ what.on = on
    OBVIOUS
  <2>2. /\ Acts(c) /\ DOMAIN task'[c] = DOMAIN t \cup {"seen", "off", "on", "at"}
        /\ task'[c].at = "write" /\ task'[c].seen = enabled /\ task'[c].off = off /\ task'[c].on = on
        /\ \A f \in DOMAIN t : f \notin {"seen", "off", "on", "at"} => task'[c][f] = t[f]
    <3>1. Keep(c, "write", what) /\ DOMAIN task = Clients
      BY <1>1, <1>2 DEF TasksOK
    <3> HIDE DEF what
    <3> QED BY <2>1, <3>1, Kept DEF Acts
  <2>3. SwitchOK(task[c])'
    BY <1>1, <1>2, <2>2 DEF SwitchOK, Whole
  <2>4. TaskOK(task[c])'
    BY <1>1, <2>2, <2>3 DEF TaskOK
  <2> QED BY <1>1, <2>2, <2>4, QuietStep
<1>3. CASE EnableRead(c)
  <2> DEFINE on == EnableClosure(enabled, t.mod)
             all == Closure(enabled \cup {t.mod})
  <2>1. Whole(all) /\ enabled \subseteq all /\ on = all \ enabled
    BY <1>1, ClosureWhole DEF EnableClosure
  <2>2. (enabled \cup on) \ {} = all /\ on \subseteq Modules
    BY <2>1 DEF Whole
  <2>3. Keep(c, "write", [seen |-> enabled, off |-> {}, on |-> on])
    BY <1>3 DEF EnableRead
  <2> HIDE DEF on, all
  <2> QED BY <1>2, <2>1, <2>2, <2>3
<1>4. CASE DisableRead(c)
  <2>1. CASE End(c)
    BY <1>1, <2>1, EndsOK, QuietStep
  <2>2. CASE /\ t.mod \notin Kernel /\ DisableImpact(enabled, t.mod) = {}
             /\ Keep(c, "write", [seen |-> enabled, off |-> {t.mod}, on |-> {}])
    <3>1. Whole(enabled) => Whole((enabled \cup {}) \ {t.mod})
      BY <2>2, StaysWhole
    <3> QED BY <1>2, <2>2, <3>1
  <2> QED BY <1>4, <2>1, <2>2 DEF DisableRead
<1> QED BY <1>3, <1>4

LEMMA WriteModulesOK ==
  ASSUME IInv, NEW c \in Clients, WriteModules(c), UNCHANGED records
  PROVE  IInv'
<1> DEFINE t == task[c]
<1>1. /\ UNCHANGED <<tables, scenario, fresh, left, overlays>> /\ TaskOK(t) /\ TasksOK /\ ModulesOK
      /\ t.op \in {"enable", "disable"} /\ t.at = "write" /\ SwitchOK(t)
  BY DEF WriteModules, IInv, TasksOK, TaskOK
<1>2. CASE Goto(c, "read") /\ UNCHANGED enabled
  <2>1. /\ Acts(c) /\ DOMAIN task'[c] = DOMAIN t /\ task'[c].at = "read"
        /\ \A f \in DOMAIN t : f # "at" => task'[c][f] = t[f]
    BY <1>1, <1>2, Gone DEF TasksOK, TaskOK, Acts
  <2>2. TaskOK(task[c])'
    BY <1>1, <2>1 DEF TaskOK, SwitchOK
  <2>3. ModulesOK'
    BY <1>1, <1>2, ModulesRest
  <2> QED BY <1>1, <2>1, <2>2, <2>3, ModuleStep
<1>3. CASE /\ ~(scenario.dialect = "sqlite" /\ enabled # t.seen)
           /\ End(c) /\ enabled' = (enabled \cup t.on) \ t.off
  <2>1. ModulesOK'
    BY <1>1, <1>3 DEF ModulesOK, SwitchOK, Whole
  <2>2. Acts(c) /\ TaskOK(task[c])'
    BY <1>1, <1>3, EndsOK
  <2> QED BY <1>1, <2>1, <2>2, ModuleStep
<1> QED BY <1>2, <1>3 DEF WriteModules

LEMMA ApplyProfileOK ==
  ASSUME IInv, NEW c \in Clients, ApplyProfile(c), UNCHANGED records
  PROVE  IInv'
<1>1. Whole(Closure(Profile))
  BY ClosureWhole, ModulesAssumption
<1>2. ModulesOK'
  BY <1>1 DEF ApplyProfile, IInv, ModulesOK, Whole
<1>3. Acts(c) /\ TaskOK(task[c])'
  BY EndsOK DEF ApplyProfile, IInv
<1> QED BY <1>2, <1>3, ModuleStep DEF ApplyProfile

(* What people may do changes: without new grants it only gets less. *)
LEMMA AdministerOK ==
  ASSUME IInv, Administer, UNCHANGED <<overlays, enabled, records>>
  PROVE  IInv'
<1>1. UNCHANGED <<roles, members, vouched, scenario, fresh, task>>
  BY DEF Administer
<1>2. PICK u \in Users : \E r \in RoleByName(u), perm \in Perms, cond \in Conditions :
        \/ Spend("grant") /\ GrantPermission(r, perm, cond)
        \/ Spend("revoke") /\ RevokePermission(r, perm)
  BY DEF Administer
<1>3. PICK r \in RoleByName(u), perm \in Perms, cond \in Conditions :
        \/ Spend("grant") /\ GrantPermission(r, perm, cond)
        \/ Spend("revoke") /\ RevokePermission(r, perm)
  BY <1>2
<1>4. left \in [Kinds -> Nat] /\ "grant" \in Kinds /\ "revoke" \in Kinds
  BY DEF IInv, AuthzTypeOK, Kinds
<1>5. left' \in [Kinds -> Nat]
  <2>1. \A k \in Kinds : Spend(k) => left' \in [Kinds -> Nat]
    BY <1>4 DEF Spend
  <2> QED BY <1>3, <1>4, <2>1
<1>6. grants' \subseteq [role : 1..fresh.role, perm : Perms, cond : Conditions]
  <2>1. r \in 1..fresh.role
    BY <1>3 DEF RoleByName, IInv, AuthzTypeOK
  <2>2. [role |-> r, perm |-> perm, cond |-> cond] \in [role : 1..fresh.role, perm : Perms, cond : Conditions]
    BY <1>3, <2>1
  <2> QED BY <1>3, <2>2 DEF GrantPermission, RevokePermission, IInv, AuthzTypeOK
<1>7. AuthzTypeOK'
  BY <1>1, <1>5, <1>6 DEF IInv, AuthzTypeOK
<1>8. GrantsOK'
  <2>1. CASE scenario.left["grant"] = 0
    <3>1. left["grant"] = 0
      BY <2>1 DEF IInv, GrantsOK
    <3>2. Spend("revoke") /\ grants' \subseteq grants
      BY <1>3, <3>1 DEF Spend, RevokePermission
    <3>3. left'["grant"] = 0
      BY <1>4, <3>1, <3>2 DEF Spend
    <3> QED BY <1>1, <3>2, <3>3 DEF IInv, GrantsOK
  <2>2. CASE scenario.left["grant"] # 0
    BY <1>1, <2>2 DEF IInv, GrantsOK
  <2> QED BY <2>1, <2>2
<1>9. OverlaysTypeOK' /\ ModulesOK' /\ RecordsOK'
  BY <1>1, OverlaysRest, ModulesRest, RecordsRest DEF IInv
<1>10. TasksOK'
  <2>1. \A c \in Clients : TaskOK(task[c])'
    BY <1>1, TaskRests DEF IInv, TasksOK, records
  <2> QED BY <1>1, <2>1 DEF IInv, TasksOK
<1> QED BY <1>7, <1>8, <1>9, <1>10 DEF IInv

--------------------------------------------------------------------------------
(* The theorems. *)

LEMMA InitOK == Init => IInv
<1> SUFFICES ASSUME Init PROVE IInv
  OBVIOUS
<1>1. PICK s \in Scenarios : scenario = s /\ left = s.left
  BY DEF Init, AuthzInit
<1>2. s.left \in [Kinds -> Nat]
  BY AuthzAssumption
<1>3. AuthzTypeOK
  <2>1. /\ DOMAIN roles = {1, 2} /\ roles[1] = [name |-> Boss, core |-> TRUE]
        /\ roles[2] = [name |-> Clerk, core |-> FALSE] /\ fresh.role = 2
    BY DEF Init, AuthzInit
  <2>2. grants \subseteq [role : 1..fresh.role, perm : Perms, cond : Conditions]
    BY <2>1 DEF Init, AuthzInit, Conditions, Records, ClerkPerms, Perms, ConditionalActions
  <2>3. members \subseteq Principals \X (1..fresh.role)
    BY <2>1 DEF Init, AuthzInit, Principals, Users
  <2>5. \A r \in DOMAIN roles : roles[r] \in [name : Principals, core : BOOLEAN]
    <3>1. Boss \in Principals /\ Clerk \in Principals
      BY DEF Principals, Users
    <3>2. [name |-> Boss, core |-> TRUE] \in [name : Principals, core : BOOLEAN]
      BY <3>1
    <3>3. [name |-> Clerk, core |-> FALSE] \in [name : Principals, core : BOOLEAN]
      BY <3>1
    <3> QED BY <2>1, <3>2, <3>3
  <2>4. DOMAIN vouched = {}
    BY DEF Init, AuthzInit
  <2> QED BY <1>1, <1>2, <2>1, <2>2, <2>3, <2>4, <2>5 DEF AuthzTypeOK
<1>4. GrantsOK
  <2>1. \A g \in grants : g.role = 2 /\ g.perm \in ConditionalActions => g.cond = {"own"}
    BY DEF Init, AuthzInit, ConditionalActions, ClerkPerms
  <2> QED BY <1>1, <2>1 DEF GrantsOK, Init, AuthzInit
<1>5. OverlaysTypeOK
  BY DEF Init, OverlaysInit, OverlaysTypeOK
<1>6. ModulesOK
  BY ClosureWhole, ModulesAssumption DEF Init, CapabilitiesInit, ModulesOK, Whole
<1>7. RecordsOK
  <2>1. rows = <<>> /\ audit = <<>> /\ DOMAIN rows = {} /\ DOMAIN audit = {} /\ Len(audit) = 0
    BY DEF Init
  <2>2. audit \in Seq(Range(audit))
    BY <2>1
  <2> QED BY <2>1, <2>2 DEF RecordsOK, RowsOK, AuditOK, AuditTellsTheRow, OwnRecordsOnly
<1>8. TasksOK
  BY DEF Init, AuthzInit, TasksOK, TaskOK, Idle
<1> QED BY <1>3, <1>4, <1>5, <1>6, <1>7, <1>8 DEF IInv

LEMMA StepOK == IInv /\ [Next]_system => IInv'
<1> SUFFICES ASSUME IInv, [Next]_system PROVE IInv'
  OBVIOUS
<1>1. CASE RecordsNext
  <2>1. PICK c \in Clients :
          \/ BeginWrite(c) \/ capabilityGate(c) \/ Resolve(c) \/ Authorize(c)
          \/ BeforeHooks(c) \/ runHook(c) \/ HooksDone(c)
          \/ Create(c) \/ ReadRow(c) \/ Update(c) \/ SoftDelete(c) \/ StartAgain(c)
    BY <1>1 DEF RecordsNext
  <2> QED BY <2>1, BeginWriteOK, GateOK, ResolveOK, AuthorizeOK, BeforeHooksOK, RunHookOK, HooksDoneOK,
             CreateOK, ReadRowOK, UpdateOK, SoftDeleteOK, StartAgainOK
<1>2. CASE OverlaysNext /\ UNCHANGED <<enabled, records>>
  BY <1>2, BeginDocumentOK, CheckOverlayOK, StoreOverlayOK, InstallTxOK, UninstallTxOK, BreakersOK
     DEF OverlaysNext
<1>3. CASE CapabilitiesNext /\ UNCHANGED records
  BY <1>3, BeginModuleOK, ReadModulesOK, WriteModulesOK, ApplyProfileOK DEF CapabilitiesNext
<1>4. CASE Administer /\ UNCHANGED <<overlays, enabled, records>>
  BY <1>4, AdministerOK
<1>5. CASE UNCHANGED system
  <2>1. UNCHANGED <<tables, scenario, fresh, task, left, overlays, enabled, records>>
    BY <1>5 DEF system
  <2>2. \A c \in Clients : TaskOK(task[c])'
    BY <2>1, TaskRests DEF IInv, TasksOK, records
  <2>3. TasksOK'
    BY <2>1, <2>2 DEF IInv, TasksOK
  <2> QED BY <2>1, <2>3, AuthzRests, OverlaysRest, ModulesRest, RecordsRest DEF IInv
<1> QED BY <1>1, <1>2, <1>3, <1>4, <1>5 DEF Next

(* The inductive invariant holds: what every task has read and decided so far still entitles
   it to the step it takes next. *)
THEOREM Invariance == Spec => []IInv
  BY InitOK, StepOK, PTL DEF Spec

(* No stack of overlays and no hook can make a column hold what core does not accept, and the
   tables stay well typed. *)
THEOREM RowsStayWellFormed == Spec => []RowsWellFormed
<1>1. IInv => RowsWellFormed
  <2> SUFFICES ASSUME IInv PROVE RowsWellFormed
    OBVIOUS
  <2>1. AuthzTypeOK /\ OverlaysTypeOK /\ CapabilitiesTypeOK
    BY DEF IInv, ModulesOK, CapabilitiesTypeOK
  <2>2. /\ DOMAIN rows \subseteq Ids
        /\ \A id \in DOMAIN rows : RowOK(rows[id]) /\ rows[id].archived \in BOOLEAN
    BY DEF IInv, RecordsOK, RowsOK
  <2>3. \A i \in DOMAIN audit : audit[i].id \in DOMAIN rows /\ DOMAIN audit[i].diff \subseteq Names \cup {ArchivedAt}
    BY DEF IInv, RecordsOK, AuditOK, EntryOK
  <2> QED BY <2>1, <2>2, <2>3 DEF RowsWellFormed, TypeOK, RowOK, Range
<1> QED BY <1>1, Invariance, PTL

(* The audit log tells every row, and on SQLite every entry what was there before it, but for
   the time of an archiving (recordAudit, SoftDelete): with any number of clients no update
   undoes another, except in fields its caller had not been told of; on Postgres the log tells
   the columns. *)
THEOREM LogTellsTheRow == Spec => []AuditTellsTheRow
<1>1. IInv => AuditTellsTheRow
  BY DEF IInv, RecordsOK, AuditOK
<1> QED BY <1>1, Invariance, PTL

(* As long as nobody grants more, the clerk writes its own records only, on SQLite. *)
THEOREM ClerkWritesOwn == Spec => [](scenario.left["grant"] = 0 => OwnRecordsOnly)
<1>1. IInv => (scenario.left["grant"] = 0 => OwnRecordsOnly)
  BY DEF IInv, RecordsOK
<1> QED BY <1>1, Invariance, PTL

(* No write is stored that a hook which must not be skipped has not passed. *)
THEOREM RulesAlwaysHold == Spec => []RulesHold
<1>1. IInv => RulesHold
  BY DEF IInv, RecordsOK, AuditOK, EntryOK, RulesHold
<1> QED BY <1>1, Invariance, PTL

(* On SQLite, every module that is on has what it requires. *)
THEOREM ModulesStayWhole == Spec => []EnabledModulesWhole
<1>1. IInv => EnabledModulesWhole
  BY DEF IInv, ModulesOK, Whole, EnabledModulesWhole
<1> QED BY <1>1, Invariance, PTL
================================================================================
