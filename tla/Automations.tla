------------------------------- MODULE Automations -------------------------------
(****************************************************************************)
(* kernel/automations: saving and deleting an automation with the role it   *)
(* acts through (store.go), the passes that fire it for the changes of the  *)
(* feed, on several nodes at once, and the jobs it queues (runner.go).      *)
(*                                                                          *)
(* The business object is one record; a change of it is an entry of the     *)
(* feed, committed with it (ChangeFeed is about the order of the entries).  *)
(****************************************************************************)
EXTENDS PluginInstall

CONSTANTS
  Definitions,  \* what may be saved: trigger, condition, actions, destination
  FeedBatch     \* entries one pass reads for an automation

ActionTypes == {"field_update", "call_plugin", "webhook"}

ASSUME AutomationsAssumption ==
  /\ FeedBatch \in Nat \ {0}
  /\ \A d \in Definitions :
       /\ d.trigger \in {"object", "schedule"} /\ d.holds \in BOOLEAN /\ d.enabled \in BOOLEAN
       /\ d.actions \in Seq(ActionTypes) /\ d.actions # <<>>
       /\ d.trigger = "schedule" => "field_update" \notin Range(d.actions)
       /\ d.dest \in Destinations /\ d.plugin \in Plugins

VARIABLES
  automations, \* the table automations: a function from ids to definitions
  cursors,     \* automation_cursors, a function from ids
  record,      \* the business record: gone, plain, or marked by a field_update
  log,         \* the feed: who changed, and whether it was the object of the trigger
  runs,        \* automation_runs: <<id, entry>> of every firing recorded
  since,       \* history: where the cursor of the automation stood when it was created
  silenced     \* history: automations whose deletion no save overlapped, with no save since

history == <<runs, since, silenced>>
state == <<automations, cursors, record, log, history>>
platform == <<tables, scenario, fresh, task, left, vault, extension, state>>

Init ==
  /\ AuthzInit /\ VaultInit /\ PluginInit
  /\ automations = <<>> /\ cursors = <<>>
  /\ record = "plain" /\ log = <<>>
  /\ runs = {} /\ since = <<>> /\ silenced = {}

\* Every definition, table and history has its type.
TypeOK ==
  /\ AuthzTypeOK /\ VaultTypeOK /\ PluginTypeOK
  /\ DOMAIN automations \subseteq Automations
  /\ \A a \in DOMAIN automations : automations[a] \in Definitions
  /\ DOMAIN cursors \subseteq Automations /\ \A a \in DOMAIN cursors : cursors[a] \in 0..Len(log)
  /\ record \in {"gone", "plain", "marked"}
  /\ log \in Seq([actor : Principals, hit : BOOLEAN])
  /\ runs \subseteq Automations \X (1..Len(log))
  /\ DOMAIN since = DOMAIN automations /\ silenced \subseteq Automations

\* Permissions: what the definition needs, derived from its trigger and its actions.
Needs == [field_update |-> "update", call_plugin |-> "invoke", webhook |-> "send"]
Permissions(d) == (IF d.trigger = "object" THEN {"read"} ELSE {})
                  \cup {Needs[a] : a \in Range(d.actions)}
--------------------------------------------------------------------------------
(* Save: the role first, the definition last. *)

BeginSave(c) ==
  /\ task[c] = Idle
  /\ \E u \in Users, a \in Automations, d \in Definitions :
       /\ Spend("save") /\ Can(u, "manage")
       /\ task' = [task EXCEPT ![c] = Approval("save", a, u, Permissions(d), [def |-> d])]
       /\ silenced' = silenced \ {a}
  /\ UNCHANGED <<tables, scenario, fresh, vault, extension, automations, cursors, record, log,
                 runs, since>>

SaveCheck(c) ==
  /\ task[c].op = "save" /\ CheckApprover(c, "lookup")
  /\ UNCHANGED <<vault, extension, state>>

\* revokeAuthority: the role is looked up by its name, and deleted by its id in the next
\* transaction.
LookupRole(c, op, next) ==
  LET found == RoleByName(task[c].id) IN
  /\ At(c, op, "lookup")
  /\ IF found = {} THEN Goto(c, next)
                   ELSE \E r \in found : Keep(c, "revoke", [role |-> r])
  /\ UNCHANGED <<tables, scenario, fresh, left, vault, extension, state>>

\* Mutant: the role is left where it is.
LeaveRole(c, op, next) ==
  /\ At(c, op, "revoke") /\ Goto(c, next)
  /\ UNCHANGED <<tables, scenario, fresh, left, vault, extension, state>>

RevokeRole(c, op, next) ==
  /\ At(c, op, "revoke")
  /\ DeleteRole(task[c].role)
  /\ Goto(c, next)
  /\ UNCHANGED <<vouched, scenario, fresh, left, vault, extension, state>>

SaveRole(c) ==
  /\ task[c].op = "save"
  /\ CreateOwnRole(c) \/ GrantOwn(c) \/ AssignOwn(c, "destination")
  /\ UNCHANGED <<vault, extension, state>>

\* checkDestinations, after the role has been replaced.
SaveDestination(c) ==
  LET d == task[c].def IN
  /\ At(c, "save", "destination")
  /\ IF "webhook" \in Range(d.actions) /\ d.dest \notin DOMAIN destinations
     THEN End(c) ELSE Goto(c, "high")
  /\ UNCHANGED <<tables, scenario, fresh, left, vault, extension, state>>

SaveHighWater(c) ==
  /\ At(c, "save", "high")
  /\ Keep(c, "commit", [high |-> Len(log)])
  /\ UNCHANGED <<tables, scenario, fresh, left, vault, extension, state>>

\* Mutant: the cursor is left to the first pass.
SaveWithoutCursor(c) ==
  LET t == task[c] IN
  /\ At(c, "save", "commit")
  /\ automations' = Amend(automations, Row(t.id, t.def))
  /\ since' = Amend(Row(t.id, t.high), since)
  /\ End(c)
  /\ UNCHANGED <<tables, scenario, fresh, left, vault, extension, cursors, record, log, runs, silenced>>

\* The row is replaced or inserted; a cursor that is there stays.
SaveCommit(c) ==
  LET t == task[c] IN
  /\ At(c, "save", "commit")
  /\ automations' = Amend(automations, Row(t.id, t.def))
  /\ cursors' = Amend(Row(t.id, t.high), cursors)
  /\ since' = Amend(Row(t.id, cursors'[t.id]), since)
  /\ End(c)
  /\ UNCHANGED <<tables, scenario, fresh, left, vault, extension, record, log, runs, silenced>>
--------------------------------------------------------------------------------
(* Delete, and the schedules every sweep and every deletion bring up to date. *)

BeginDelete(c) ==
  /\ task[c] = Idle
  /\ \E u \in Users, a \in Automations :
       /\ Spend("delete") /\ Can(u, "manage")
       /\ task' = [task EXCEPT ![c] = [op |-> "delete", at |-> "lookup", id |-> a,
                                       before |-> left["save"],
                                       alone |-> \A x \in Clients : task[x].op = "save" => task[x].id # a]]
  /\ UNCHANGED <<tables, scenario, fresh, vault, extension, state>>

DeleteCommit(c) ==
  LET a == task[c].id IN
  /\ At(c, "delete", "commit")
  /\ automations' = Restrict(automations, DOMAIN automations \ {a})
  /\ cursors' = Restrict(cursors, DOMAIN cursors \ {a})
  /\ since' = Restrict(since, DOMAIN since \ {a})
  /\ silenced' = IF task[c].alone /\ left["save"] = task[c].before
                 THEN silenced \cup {a} ELSE silenced
  /\ Goto(c, "list")
  /\ UNCHANGED <<tables, scenario, fresh, left, vault, extension, record, log, runs>>

BeginSync(c) ==
  /\ task[c] = Idle /\ Spend("sync")
  /\ task' = [task EXCEPT ![c] = [op |-> "sync", at |-> "list"]]
  /\ UNCHANGED <<tables, scenario, fresh, vault, extension, state>>

\* SyncSchedules: the enabled automations with a schedule, ...
SyncList(c) ==
  /\ task[c].op \in {"sync", "delete"} /\ task[c].at = "list"
  /\ Keep(c, "clear", [todo |-> {a \in DOMAIN automations :
                                   automations[a].enabled /\ automations[a].trigger = "schedule"}])
  /\ UNCHANGED <<tables, scenario, fresh, left, vault, extension, state>>

\* ... after the rows of all of them are deleted, are written again one by one.
SyncClear(c) ==
  /\ task[c].op \in {"sync", "delete"} /\ task[c].at = "clear"
  /\ schedules' = schedules \ Automations
  /\ Goto(c, "upsert")
  /\ UNCHANGED <<tables, scenario, fresh, left, vault, plugins, belongings, queue, state>>

SyncUpsert(c) ==
  /\ task[c].op \in {"sync", "delete"} /\ task[c].at = "upsert"
  /\ \/ /\ task[c].todo = {} /\ End(c) /\ UNCHANGED schedules
     \/ \E a \in task[c].todo : /\ schedules' = schedules \cup {a}
                                /\ Keep(c, "upsert", [todo |-> task[c].todo \ {a}])
  /\ UNCHANGED <<tables, scenario, fresh, left, vault, plugins, belongings, queue, state>>
--------------------------------------------------------------------------------
(* RunOnce: for each enabled automation with an object trigger, its part of the feed. *)

Pass(c, step) == At(c, "pass", step)

BeginPass(c) ==
  /\ task[c] = Idle /\ Spend("pass")
  /\ LET listed == {a \in DOMAIN automations :
                      automations[a].enabled /\ automations[a].trigger = "object"}
     IN task' = [task EXCEPT ![c] = [op |-> "pass", at |-> "cursor", todo |-> listed,
                                     defs |-> Restrict(automations, listed)]]
  /\ UNCHANGED <<tables, scenario, fresh, vault, extension, state>>

\* A cursor that is missing is written at the end of the feed.
ReadCursor(c) ==
  LET t == task[c] IN
  /\ Pass(c, "cursor")
  /\ \/ t.todo = {} /\ End(c) /\ UNCHANGED cursors
     \/ \E a \in t.todo :
          /\ cursors' = Amend(Row(a, Len(log)), cursors)
          /\ Keep(c, "read", [id |-> a, def |-> t.defs[a], todo |-> t.todo \ {a},
                              from |-> cursors'[a]])
  /\ UNCHANGED <<tables, scenario, fresh, left, vault, extension, automations, record, log, history>>

ReadFeed(c) ==
  LET t == task[c] IN
  /\ Pass(c, "read")
  /\ Keep(c, "next", [upto |-> Min({Len(log), t.from + FeedBatch})])
  /\ UNCHANGED <<tables, scenario, fresh, left, vault, extension, state>>

\* An entry about another object, and an entry of its own making, are passed over.
NextEntry(c) ==
  LET t == task[c] i == t.from + 1 IN
  /\ Pass(c, "next")
  /\ IF i > t.upto THEN Goto(c, "cursor")
     ELSE Goto(c, IF log[i].hit /\ log[i].actor # t.id THEN "get" ELSE "advance")
  /\ UNCHANGED <<tables, scenario, fresh, left, vault, extension, state>>

\* fire: the record is read under the principal's own permission, and the condition is
\* asked of it. A refusal, a record that is gone and a condition that does not hold are
\* recorded, and that is all.
Get(c) ==
  LET t == task[c] IN
  /\ Pass(c, "get")
  /\ IF Can(t.id, "read") /\ record # "gone" /\ t.def.holds
     THEN Keep(c, "act", [seen |-> record, i |-> 1])
     ELSE Goto(c, "record")
  /\ UNCHANGED <<tables, scenario, fresh, left, vault, extension, state>>

\* act: the actions in order. A job is queued without a further question; an assignment
\* that changes nothing is dropped.
Act(c) ==
  LET t == task[c] kind == t.def.actions[t.i] IN
  /\ t.at = "act"
  /\ \/ t.i > Len(t.def.actions) /\ Goto(c, "record") /\ UNCHANGED <<fresh, queue>>
     \/ /\ t.i <= Len(t.def.actions) /\ kind = "field_update"
        /\ IF t.seen = "marked" THEN Keep(c, "act", [i |-> t.i + 1]) ELSE Goto(c, "auth")
        /\ UNCHANGED <<fresh, queue>>
     \/ /\ t.i <= Len(t.def.actions) /\ kind # "field_update"
        /\ fresh' = [fresh EXCEPT !.job = @ + 1]
        /\ queue' = queue \cup
             {[n |-> fresh.job + 1, kind |-> IF kind = "webhook" THEN "hook" ELSE "plugin",
               id |-> IF kind = "webhook" THEN t.id ELSE t.def.plugin,
               dest |-> IF kind = "webhook" THEN t.def.dest ELSE None]}
        /\ Keep(c, "act", [i |-> t.i + 1])
  /\ UNCHANGED <<tables, scenario, left, vault, plugins, belongings, schedules, state>>

\* Update through CRUD: the permission is asked in one transaction and the record written
\* in the next. A failed action ends the firing; the run is recorded all the same.
UpdateAuthorize(c) ==
  LET t == task[c] IN
  /\ Pass(c, "auth")
  /\ Goto(c, IF GrantsFor(t.id, "update") # {} THEN "write" ELSE "record")
  /\ UNCHANGED <<tables, scenario, fresh, left, vault, extension, state>>

UpdateWrite(c) ==
  LET t == task[c] IN
  /\ Pass(c, "write")
  /\ IF record = "gone" THEN Goto(c, "record") /\ UNCHANGED <<record, log>>
     ELSE /\ record' = "marked"
          /\ log' = Append(log, [actor |-> t.id, hit |-> TRUE])
          /\ Keep(c, "act", [i |-> t.i + 1])
  /\ UNCHANGED <<tables, scenario, fresh, left, vault, extension, automations, cursors, history>>

RecordRun(c) ==
  LET t == task[c] IN
  /\ t.at = "record"
  /\ runs' = IF t.op = "pass" THEN runs \cup {<<t.id, t.from + 1>>} ELSE runs
  /\ IF t.op = "pass" THEN Goto(c, "advance") ELSE End(c)
  /\ UNCHANGED <<tables, scenario, fresh, left, vault, extension, automations, cursors, record, log,
                 since, silenced>>

\* advanceCursor: only from where this pass saw it; whether it moved is not looked at.
AdvanceCursor(c) ==
  LET t == task[c] IN
  /\ Pass(c, "advance")
  /\ cursors' = [a \in DOMAIN cursors |->
                   IF a = t.id /\ cursors[a] = t.from THEN t.from + 1 ELSE cursors[a]]
  /\ Keep(c, "next", [from |-> t.from + 1])
  /\ UNCHANGED <<tables, scenario, fresh, left, vault, extension, automations, record, log, history>>
--------------------------------------------------------------------------------
(* Jobs: a schedule that is due, a webhook, the call of a plugin. *)

Cron ==
  /\ Spend("cron")
  /\ \E a \in schedules :
       /\ fresh' = [fresh EXCEPT !.job = @ + 1]
       /\ queue' = queue \cup {[n |-> fresh.job + 1, id |-> a, dest |-> None,
                                kind |-> IF a \in Plugins THEN "plugin" ELSE "run"]}
  /\ UNCHANGED <<tables, scenario, task, vault, plugins, belongings, schedules, state>>

\* The worker claims a job (Jobs is about leases and attempts); one that fails may be
\* queued again.
BeginJob(c) ==
  /\ task[c] = Idle /\ Spend("job")
  /\ \E q \in queue :
       /\ queue' = queue \ {q}
       /\ task' = [task EXCEPT ![c] = IF q.kind = "plugin"
                     THEN [op |-> "call", at |-> "get", id |-> q.id]
                     ELSE [op |-> "job", at |-> "load", id |-> q.id, job |-> q]]
  /\ UNCHANGED <<tables, scenario, fresh, vault, plugins, belongings, schedules, state>>

Retry(c) == queue' = queue \cup {task[c].job} \/ queue' = queue

\* Both handlers read the automation again: one that is deleted or disabled since does
\* nothing. A schedule has no record, so its condition is asked of an empty one.
JobLoad(c) ==
  LET t == task[c] a == t.id IN
  /\ At(c, "job", "load")
  /\ IF a \in DOMAIN automations /\ automations[a].enabled
     THEN IF t.job.kind = "hook" THEN Goto(c, "destination")
          ELSE IF automations[a].holds
          THEN Keep(c, "act", [def |-> automations[a], i |-> 1])
          ELSE Goto(c, "record")
     ELSE End(c)
  /\ UNCHANGED <<tables, scenario, fresh, left, vault, extension, state>>

\* Send: the destination is read, and then its secret.
JobDestination(c) ==
  LET t == task[c] IN
  /\ At(c, "job", "destination")
  /\ IF t.job.dest \in DOMAIN destinations
     THEN Keep(c, "resolve", [row |-> destinations[t.job.dest]]) /\ UNCHANGED queue
     ELSE Goto(c, "record") /\ Retry(c)
  /\ UNCHANGED <<tables, scenario, fresh, left, vault, plugins, belongings, schedules, state>>

\* The URL must still point at the registered host; then the call is made.
JobSend(c) ==
  LET t == task[c] IN
  /\ At(c, "job", "resolve")
  /\ \/ Resolves(t.row) /\ End(c) /\ UNCHANGED queue
     \/ Goto(c, "record") /\ Retry(c)
  /\ UNCHANGED <<tables, scenario, fresh, left, vault, plugins, belongings, schedules, state>>
--------------------------------------------------------------------------------
(* The environment. *)

\* A person changes the record, this one or another, or deletes it: CRUD asks whether one
\* of the grants allows it on the record.
Change ==
  /\ Spend("change")
  /\ \E u \in Users, r \in Records, hit \in BOOLEAN :
       /\ Allow(GrantsFor(u, "update"), r)
       /\ log' = Append(log, [actor |-> u, hit |-> hit])
       /\ record' \in IF hit THEN {"gone", "plain"} ELSE {record}
  /\ UNCHANGED <<tables, scenario, fresh, task, vault, extension, automations, cursors, history>>

\* A statement fails, or the request is cancelled: the task ends, and nothing is undone.
Fail ==
  /\ Spend("fail")
  /\ \E c \in Clients : task[c] # Idle /\ End(c)
  /\ UNCHANGED <<tables, scenario, fresh, vault, extension, state>>

AutomationsNext ==
  \/ \E c \in Clients :
       \/ BeginSave(c) \/ SaveCheck(c) \/ LookupRole(c, "save", "create")
       \/ RevokeRole(c, "save", "create") \/ SaveRole(c) \/ SaveDestination(c)
       \/ SaveHighWater(c) \/ SaveCommit(c)
       \/ BeginDelete(c) \/ LookupRole(c, "delete", "commit")
       \/ RevokeRole(c, "delete", "commit") \/ DeleteCommit(c)
       \/ BeginSync(c) \/ SyncList(c) \/ SyncClear(c) \/ SyncUpsert(c)
       \/ BeginPass(c) \/ ReadCursor(c) \/ ReadFeed(c) \/ NextEntry(c) \/ Get(c) \/ Act(c)
       \/ UpdateAuthorize(c) \/ UpdateWrite(c) \/ RecordRun(c) \/ AdvanceCursor(c)
       \/ BeginJob(c) \/ JobLoad(c) \/ JobDestination(c) \/ JobSend(c)
  \/ Cron \/ Change \/ Fail

Next ==
  \/ AutomationsNext
  \/ PluginNext /\ UNCHANGED state
  \/ VaultNext /\ UNCHANGED <<extension, state>>
  \/ Administer /\ UNCHANGED <<vault, extension, state>>

Spec == Init /\ [][Next]_platform
--------------------------------------------------------------------------------
\* Nobody approves more than they hold (INV-T3): every permission of the role of a plugin
\* or an automation was held by whoever approved that role, for every record and not only
\* for some, when it was asked for; whatever roles were left behind, taken away or given
\* in between.
NoBorrowedAuthority ==
  \A g \in grants : g.role \in DOMAIN vouched => g.perm \in vouched[g.role] /\ g.cond = None

\* The cursor of an automation passes no change it should react to: every change of its
\* object by somebody else, from where the cursor stood when it was created, is either
\* still ahead of the cursor or has a run on record, with two nodes at it, passes that stop
\* half-way, deletions and new creations.
EveryChangeRuns ==
  \A a \in DOMAIN automations \cap DOMAIN cursors : \A i \in since[a] + 1 .. cursors[a] :
    log[i].hit /\ log[i].actor # a => <<a, i>> \in runs

\* A pass or a job that loaded an automation earlier is given access to the record, or gets
\* past the re-reading of the automation.
Admitted(c) ==
  LET t == task[c] u == task'[c] IN
  /\ t.op \in {"pass", "job"} /\ t.at \in {"get", "auth", "load"}
  /\ u.op = t.op /\ u.at # t.at /\ u.at \in {"act", "write", "destination"}

\* Deleting an automation takes its authority away at once, and always (store.go:209): from
\* the moment a deletion that no save overlapped has answered, and until the next save,
\* nothing is let through that loaded the automation earlier.
GoesAlways == [][\A c \in Clients : Admitted(c) => task[c].id \notin silenced]_platform

\* The same, as far as the code keeps it: the automation may still be assigned a role that
\* is gone, since on SQLite, which does not enforce foreign keys, a save that an earlier
\* deletion overlapped writes grants and an assignment no later deletion finds.
RevocationBites ==
  [][\A c \in Clients : Admitted(c) /\ task[c].id \in silenced =>
       /\ scenario.dialect = "sqlite"
       /\ \E m \in members : m[1] = task[c].id /\ m[2] \notin DOMAIN roles]_platform
================================================================================
