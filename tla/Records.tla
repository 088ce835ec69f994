---------------------------------- MODULE Records ----------------------------------
(****************************************************************************)
(* kernel/metadata/crud.go behind the routes of kernel/api/gateway.go: the  *)
(* generic records of one business object. A write is a series of steps     *)
(* that each see the database at another time: is the module on, what shape *)
(* has the object, what may the caller do, is the body valid, what do the   *)
(* hooks say, and then the transaction that reads, judges and writes the    *)
(* row and its audit entry. Overlays, modules, hooks and grants change in   *)
(* between. (Idempotency is about the key a write comes with, ChangeFeed    *)
(* about the feed it is announced on.)                                      *)
(*                                                                          *)
(* Core fields are columns. Fields of overlays, and the translations, share *)
(* one JSON column that is written as a whole.                              *)
(****************************************************************************)
EXTENDS Capabilities

CONSTANTS
  Ids,
  Bodies,     \* what clients send: functions from field names to values
  Replies,    \* the records hooks answer with
  Owner,      \* the core field that conditions read
  I18n        \* the key of the translations

ASSUME RecordsAssumption ==
  /\ Owner \in DOMAIN Core /\ Core[Owner].options = Records
  /\ I18n \notin DOMAIN Core /\ None \notin Values
  /\ \A b \in Bodies \cup Replies : \A f \in DOMAIN b : b[f] \in Values

VARIABLES
  rows,   \* the table of the object: a function from ids to [core, custom, archived]
  audit   \* audit_log, of this object; with the fields the writer knew, and the hooks that
          \* had to pass it and did not

records == <<rows, audit>>
system == <<tables, scenario, fresh, task, left, overlays, enabled, records>>

Names == DOMAIN Core \cup {I18n}
         \cup UNION {DOMAIN d.add : d \in UNION Range(Documents)}

\* The column of the time a row was archived at, which no field is named after. Of the time
\* the model keeps that there is one.
ArchivedAt == "archived_at"
Now == "now"

ASSUME ArchivedAtAssumption == ArchivedAt \notin Names

TypeOK ==
  /\ AuthzTypeOK /\ OverlaysTypeOK /\ CapabilitiesTypeOK
  /\ DOMAIN rows \subseteq Ids
  /\ \A id \in DOMAIN rows :
       /\ rows[id].core \in [DOMAIN Core -> Values] /\ rows[id].archived \in BOOLEAN
       /\ DOMAIN rows[id].custom \subseteq Names \ DOMAIN Core
       /\ Range(rows[id].custom) \subseteq Values
  /\ \A i \in DOMAIN audit : audit[i].id \in DOMAIN rows
                           /\ DOMAIN audit[i].diff \subseteq Names \cup {ArchivedAt}

Init ==
  /\ AuthzInit /\ OverlaysInit /\ CapabilitiesInit
  /\ rows = <<>>
  /\ audit = <<>>
--------------------------------------------------------------------------------
(* One field of a row, and the values of a body. *)

Columns(row) == Amend(row.custom, row.core)

\* current[f]: nil for a field that is not in the row, or not in the shape.
Current(row, fields, f) ==
  IF f \in DOMAIN Columns(row) /\ f \in fields \cup {I18n} THEN Columns(row)[f] ELSE None

\* validated: no field the shape does not have, no value a field does not accept; on a
\* create every core field (the model's are all required).
validated(eff, body, partial) ==
  /\ DOMAIN body \subseteq DOMAIN eff.fields \cup {I18n}
  /\ \A f \in DOMAIN body \cap DOMAIN eff.fields : body[f] \in eff.fields[f].options
  /\ partial \/ DOMAIN Core \subseteq DOMAIN body

\* The part of a body that belongs into the shared column.
Custom(body) == Restrict(body, DOMAIN body \ DOMAIN Core)
--------------------------------------------------------------------------------
(* The way to the transaction. *)

BeginWrite(c) ==
  /\ task[c] = Idle
  /\ Spend("write")
  /\ \E u \in Users, verb \in {"create", "update", "delete"}, id \in Ids, b \in Bodies :
       /\ verb = "delete" => b = CHOOSE x \in Bodies : TRUE
       /\ verb # "create" => id \in DOMAIN rows
       /\ task' = [task EXCEPT ![c] = [op |-> "write", at |-> "gate", verb |-> verb, by |-> u,
                                       id |-> id, body |-> b]]
  /\ UNCHANGED <<tables, scenario, fresh, overlays, enabled, records>>

Quietly == UNCHANGED <<tables, scenario, fresh, left, overlays, enabled, records>>

capabilityGate(c) ==
  /\ At(c, "write", "gate")
  /\ IF Reachable THEN Goto(c, "resolve") ELSE End(c)
  /\ Quietly

\* engineFor: a stack that does not merge is a 500.
Resolve(c) ==
  LET eff == Merge(layers) IN
  /\ At(c, "write", "resolve")
  /\ IF eff = None THEN End(c) ELSE Keep(c, "auth", [eff |-> eff])
  /\ Quietly

\* AuthorizeGrants, then the body is judged: not before, and by the shape read before.
Authorize(c) ==
  LET t == task[c] conds == GrantsFor(t.by, t.verb) IN
  /\ At(c, "write", "auth")
  /\ IF conds # {} /\ (t.verb # "delete" => validated(t.eff, t.body, t.verb # "create"))
     THEN Keep(c, "plugins", [conds |-> conds]) ELSE End(c)
  /\ Quietly

\* Before starts with the cached list of the plugins.
BeforeHooks(c) ==
  /\ At(c, "write", "plugins")
  /\ Keep(c, "hooks", [list |-> cached, todo |-> DOMAIN cached,
                       must |-> {x \in DOMAIN cached : cached[x].hook = "reject"}])
  /\ Quietly

\* Mutant: an open breaker skips every hook.
skipsAny(p, x) == p[x].breaker = "open"

\* An open breaker skips a hook that declared itself skippable.
skips(p, x) == p[x].hook = "allow" /\ p[x].breaker = "open"

Answer(c, x, how, body) ==
  LET t == task[c]
      passed == IF how = "ok" THEN t.must \ {x} ELSE t.must
  IN CASE how = "veto" -> End(c)
       [] how = "fail" /\ t.list[x].hook = "reject" -> End(c)
       [] OTHER -> Keep(c, "hooks", [todo |-> t.todo \ {x}, must |-> passed, body |-> body])

\* The list a request was given is the cached one itself, unless that has been read again
\* since: it shows what other requests have counted meanwhile.
Shown(t, x) ==
  {t.list} \cup {p \in {cached} : x \in DOMAIN p /\ p[x].hook = t.list[x].hook}

\* Before: the hooks one after the other, in no transaction; a hook vetoes, changes the
\* record, has no opinion, or fails.
runHook(c) ==
  LET t == task[c]
      place(x) == SelectInSeq(Stack, LAMBDA s : s = x)
  IN
  /\ At(c, "write", "hooks")
  /\ \E x \in t.todo : \E p \in Shown(t, x) :
       /\ \A y \in t.todo : place(x) <= place(y)
       /\ IF p[x].hook = "none" \/ skips(p, x)
          THEN Answer(c, x, "skip", t.body) /\ UNCHANGED overlays
          ELSE \E how \in {"veto", "ok", "fail"},
                  b \in IF t.verb = "delete" THEN {t.body} ELSE {t.body} \cup Replies :
                 /\ how # "ok" => b = t.body
                 /\ Answer(c, x, how, b)
                 /\ bumpBreaker(p, x, how = "fail")
                 /\ UNCHANGED layers
  /\ UNCHANGED <<tables, scenario, fresh, left, enabled, records>>

\* runBefore: the result is validated again.
HooksDone(c) ==
  LET t == task[c] IN
  /\ At(c, "write", "hooks") /\ t.todo = {}
  /\ IF t.verb = "delete" \/ validated(t.eff, t.body, t.verb # "create")
     THEN Goto(c, IF t.verb = "create" THEN "insert" ELSE "read") ELSE End(c)
  /\ Quietly
--------------------------------------------------------------------------------
(* The transaction. *)

recordAudit(t, diff, custom) ==
  audit' = Append(audit, [id |-> t.id, verb |-> t.verb, by |-> t.by, diff |-> diff,
                          custom |-> custom, knew |-> DOMAIN t.eff.fields, must |-> t.must])

\* Create: the condition is asked of the record as it will be; an id that is taken is a 409.
Create(c) ==
  LET t == task[c] IN
  /\ At(c, "write", "insert")
  /\ IF Allow(t.conds, t.body[Owner]) /\ t.id \notin DOMAIN rows
     THEN /\ rows' = Amend(rows, Row(t.id, [core |-> Restrict(t.body, DOMAIN Core),
                                            custom |-> Custom(t.body), archived |-> FALSE]))
          /\ recordAudit(t, [f \in DOMAIN t.body |-> [old |-> None, new |-> t.body[f]]], TRUE)
     ELSE UNCHANGED records
  /\ End(c)
  /\ UNCHANGED <<tables, scenario, fresh, left, overlays, enabled>>

\* getTx and the condition, of the row as it is.
ReadRow(c) ==
  LET t == task[c] IN
  /\ At(c, "write", "read")
  /\ IF t.id \in DOMAIN rows /\ Allow(t.conds, rows[t.id].core[Owner])
     THEN Keep(c, "commit", [row |-> rows[t.id]]) ELSE End(c)
  /\ Quietly

\* Mutant: the shared column is written with the fields of this update only.
mergedUnseeded(t) == Custom(t.body)

\* The shared column as it is written: the fields of the shape and the translations as they
\* were read, and the changes.
merged(t) ==
  Amend(Restrict(t.row.custom, DOMAIN t.row.custom \cap (DOMAIN t.eff.fields \cup {I18n})),
        Custom(t.body))

\* Mutant: on SQLite too, the row may have changed since it was read.
MayCommitAlways(t) == TRUE

\* Postgres lets another transaction write the row since it was read; on SQLite this one is
\* told to start again.
MayCommit(t) == scenario.dialect = "sqlite" => rows[t.id] = t.row

\* Update: the columns that are touched; the shared column if one of its fields is.
Update(c) ==
  LET t == task[c] touched == DOMAIN Custom(t.body) # {} IN
  /\ At(c, "write", "commit") /\ t.verb = "update" /\ MayCommit(t)
  /\ rows' = [rows EXCEPT ![t.id] =
                [core |-> Amend(@.core, Restrict(t.body, DOMAIN t.body \cap DOMAIN Core)),
                 custom |-> IF touched THEN merged(t) ELSE @.custom, archived |-> @.archived]]
  /\ recordAudit(t, [f \in DOMAIN t.body |->
                       [old |-> Current(t.row, DOMAIN t.eff.fields, f), new |-> t.body[f]]], touched)
  /\ End(c)
  /\ UNCHANGED <<tables, scenario, fresh, left, overlays, enabled>>

\* SoftDelete: an archived row can be read, written and archived again; the entry says each
\* time that it was not archived before.
SoftDelete(c) ==
  LET t == task[c] IN
  /\ At(c, "write", "commit") /\ t.verb = "delete" /\ MayCommit(t)
  /\ rows' = [rows EXCEPT ![t.id].archived = TRUE]
  /\ recordAudit(t, [f \in {ArchivedAt} |-> [old |-> None, new |-> Now]], FALSE)
  /\ End(c)
  /\ UNCHANGED <<tables, scenario, fresh, left, overlays, enabled>>

StartAgain(c) ==
  /\ At(c, "write", "commit") /\ ~MayCommit(task[c])
  /\ Goto(c, "read")
  /\ Quietly

RecordsNext ==
  \E c \in Clients :
    \/ BeginWrite(c) \/ capabilityGate(c) \/ Resolve(c) \/ Authorize(c)
    \/ BeforeHooks(c) \/ runHook(c) \/ HooksDone(c)
    \/ Create(c) \/ ReadRow(c) \/ Update(c) \/ SoftDelete(c) \/ StartAgain(c)

Next ==
  \/ RecordsNext
  \/ OverlaysNext /\ UNCHANGED <<enabled, records>>
  \/ CapabilitiesNext /\ UNCHANGED records
  \/ Administer /\ UNCHANGED <<overlays, enabled, records>>

Spec == Init /\ [][Next]_system
--------------------------------------------------------------------------------
\* The entries about id before the k-th that decided the value of field f: they set it, or
\* they wrote the shared column without knowing of it.
Decided(k, id, f) ==
  {i \in 1..k - 1 : /\ audit[i].id = id
                    /\ \/ f \in DOMAIN audit[i].diff
                       \/ audit[i].custom /\ f \notin audit[i].knew \cup {I18n}}

\* The value the audit log says the field had then.
Told(k, id, f) ==
  LET d == Decided(k, id, f) IN
  IF d = {} \/ f \notin DOMAIN audit[Max(d)].diff THEN None ELSE audit[Max(d)].diff[f].new

\* The entries that archived the row.
Archivings(id) == {i \in DOMAIN audit : audit[i].id = id /\ ArchivedAt \in DOMAIN audit[i].diff}

\* The audit log tells the row: every field of every row has the value the last entry that
\* set it says, a row is archived if an entry says so, and every entry says of the fields it
\* sets what was there before it, so no update undoes another one that it does not mention.
\* The exceptions: an update whose caller was given a shape without the field drops its
\* value; what an archiving says was there is OldValuesTold. On Postgres this holds of the
\* columns, and of neither the shared column nor the old values: two updates at once may
\* both have read the row before either wrote it.
AuditTellsTheRow ==
  \A id \in DOMAIN rows :
    /\ \A f \in Names :
         f \in DOMAIN Core \/ scenario.dialect = "sqlite" =>
           (IF f \in DOMAIN Columns(rows[id]) THEN Columns(rows[id])[f] ELSE None)
             = Told(Len(audit) + 1, id, f)
    /\ rows[id].archived <=> Archivings(id) # {}
    /\ scenario.dialect = "sqlite" =>
         \A i \in DOMAIN audit : audit[i].id = id =>
           \A f \in DOMAIN audit[i].diff \ {ArchivedAt} :
             audit[i].diff[f].old = Told(i, id, f)

\* "CRUD audit captures old/new values" (crud.go:460), of the column archived_at: an entry
\* that archives a row says that it was not archived if, and only if, it was not.
OldValuesTold ==
  \A id \in DOMAIN rows : \A i \in Archivings(id) :
    audit[i].diff[ArchivedAt].old = None <=> \A j \in Archivings(id) : j >= i

\* "untouched ones survive the re-marshal" (crud.go:462): a field that is not in the row was
\* never set, since no update takes a field away that it does not touch.
UntouchedSurvive ==
  scenario.dialect = "sqlite" =>
    \A id \in DOMAIN rows : \A f \in Names \ DOMAIN Columns(rows[id]) :
      \A i \in DOMAIN audit : audit[i].id = id => f \notin DOMAIN audit[i].diff

\* "the row a condition approved is the row that gets updated, with no window between the
\* check and the write": the clerk, who may write its own records only, writes no record that
\* somebody else has taken over by then, and creates none for somebody else, whatever a hook
\* makes of it. (On Postgres there is that window.)
OwnRecordsOnly ==
  scenario.dialect = "sqlite" =>
    \A i \in DOMAIN audit :
      audit[i].by = Clerk =>
        (IF audit[i].verb = "create" THEN audit[i].diff[Owner].new ELSE Told(i, audit[i].id, Owner))
          = "own"

\* The tables are well formed. A column never holds a value that the core object does not
\* accept: no stack of overlays, in whatever order they were stored and removed, and no hook
\* can widen what a field of the shipped object may hold. The shared column holds no column.
RowsWellFormed ==
  /\ TypeOK
  /\ \A id \in DOMAIN rows : \A f \in DOMAIN Core : rows[id].core[f] \in Core[f].options

\* A rule that must hold does: no write is stored that a hook which must not be skipped was
\* to judge and has not passed, however often that hook has failed before.
RulesHold == \A i \in DOMAIN audit : audit[i].must = {}
================================================================================
