------------------------------ MODULE PlatformProofs ------------------------------
(****************************************************************************)
(* Proofs about Automations, for any number of tasks, plugins, automations, *)
(* secrets and keys and any number of operations: nobody approves more than *)
(* they hold, installed plugins are whole, secrets open, no automation      *)
(* passes over a change, and a deletion takes authority away.               *)
(*                                                                          *)
(* Every task works in several transactions and is entitled to each by what *)
(* it found in the ones before. The invariant says what that is, step by    *)
(* step, and why nobody else can have undone it since.                      *)
(****************************************************************************)
EXTENDS Automations, TLAPS

\* Every person's role is one of the first two and stays; the others belong to extensions,
\* one each.
PeopleOK ==
  /\ {1, 2} \subseteq DOMAIN roles /\ roles[1].name = Boss /\ roles[2].name = Clerk
  /\ \A r \in DOMAIN roles : r \notin {1, 2} => roles[r].name \in Extensions
  /\ \A r, s \in DOMAIN roles : roles[r].name = roles[s].name => r = s
  /\ \A m \in members : m[1] \in Users => m[2] \in {1, 2}
  /\ 1 \notin DOMAIN vouched /\ 2 \notin DOMAIN vouched

\* An extension acts through a role of its own name. SQLite lets automations keep roles that
\* are gone.
MembersOK ==
  \A m \in members : m[1] \in Plugins \/ (m[1] \in Automations /\ scenario.dialect = "postgres") =>
    m[2] \in DOMAIN roles /\ roles[m[2]].name = m[1]

RolesOK == /\ AuthzTypeOK /\ fresh \in [role : Nat, dek : Nat, job : Nat]
           /\ PeopleOK /\ MembersOK /\ NoBorrowedAuthority

\* The role is there, is called x, and may do just this.
GrantsOf(r) == {g.perm : g \in {h \in grants : h.role = r}}
Exactly(r, x, perms) == r \in DOMAIN roles /\ roles[r].name = x /\ GrantsOf(r) = perms

\* A role a task has read and is about to delete is still its own, if it is there.
Known(t, names) == "role" \in DOMAIN t /\ t.role \in 1..fresh.role
                   /\ (t.role \in DOMAIN roles => roles[t.role].name \in names)

\* A plugin being installed, or an automation being saved: what it asks for is asked of the
\* approver, found with the approver, and then given to the role that is vouched for.
ApprovalOK(t) ==
  /\ {"id", "by", "perms", "todo", "missing", "held", "role"} \subseteq DOMAIN t
  /\ t.at \notin {"act", "record"}
  /\ t.by \in Users /\ t.perms \subseteq Perms /\ t.held \subseteq Perms /\ t.missing \in BOOLEAN
  /\ t.op = "install" => /\ t.id \in Plugins /\ "manifest" \in DOMAIN t
                         /\ t.manifest \in Manifests /\ t.perms = t.manifest.perms
  /\ t.op = "save" => /\ t.id \in Automations /\ "def" \in DOMAIN t /\ t.def \in Definitions
                      /\ t.at = "revoke" => Known(t, {t.id})
                      /\ t.at = "commit" => "high" \in DOMAIN t /\ t.high \in 0..Len(log)
  /\ t.at = "check" => t.missing \/ t.perms \subseteq t.held \cup t.todo
  /\ t.at \in {"overlay", "absent", "lookup", "revoke", "create"} => t.perms \subseteq t.held
  /\ t.at = "grant" => /\ t.todo \subseteq t.perms
                       /\ Known(t, {t.id})
                       /\ t.role \in DOMAIN vouched /\ t.perms \subseteq vouched[t.role]

DeleteOK(t) ==
  /\ {"id", "before", "alone"} \subseteq DOMAIN t /\ t.at \notin {"act", "record"}
  /\ t.id \in Automations /\ t.alone \in BOOLEAN
  /\ t.before \in Nat /\ left["save"] <= t.before
  /\ t.at = "revoke" => Known(t, {t.id})

UninstallOK(t) ==
  /\ "id" \in DOMAIN t /\ t.id \in Plugins /\ t.at \notin {"act", "record"}
  /\ t.at = "role" => Known(t, Plugins)

\* A pass over the feed: where it is, and that the entry it is about to leave behind has been
\* dealt with.
PassOK(t) ==
  /\ {"todo", "defs"} \subseteq DOMAIN t /\ t.todo \subseteq Automations
  /\ t.at # "cursor" =>
       /\ {"id", "from"} \subseteq DOMAIN t
       /\ t.id \in Automations /\ t.from \in 0..Len(log)
  /\ t.at \notin {"cursor", "read"} => "upto" \in DOMAIN t /\ t.upto \in 0..Len(log)
  /\ t.at \notin {"cursor", "read", "next"} => t.from + 1 <= t.upto
  /\ t.at = "advance" => (log[t.from + 1].hit /\ log[t.from + 1].actor # t.id => <<t.id, t.from + 1>> \in runs)

TaskOK(t) ==
  /\ {"op", "at"} \subseteq DOMAIN t
  /\ t.op \in {"install", "save"} => ApprovalOK(t)
  /\ t.op = "delete" => DeleteOK(t)
  /\ t.op = "uninstall" => UninstallOK(t)
  /\ t.op = "pass" => PassOK(t)

TasksOK == DOMAIN task = Clients /\ \A c \in Clients : TaskOK(task[c])

\* Tasks whose next step rests on what nobody else may touch meanwhile.
Owning(t) == t.op = "install" /\ t.at \in {"grant", "commit"}
Removing(t) == t.op = "uninstall" /\ t.at = "role"
Deleting(t) == t.op = "delete" /\ t.at \in {"lookup", "revoke", "commit"}

\* The role of a plugin on its way is the task's own: no row names it, and no other task.
OwnerOK(c) ==
  LET t == task[c] IN
  /\ Exactly(t.role, t.id, IF t.at = "grant" THEN t.perms \ t.todo ELSE t.perms)
  /\ t.at = "commit" => <<t.id, t.role>> \in members
  /\ \A x \in DOMAIN plugins : plugins[x].role # t.role
  /\ \A d \in Clients : d # c /\ (Owning(task[d]) \/ Removing(task[d])) => task[d].role # t.role

OwnersOK == \A c \in Clients : Owning(task[c]) => OwnerOK(c)

\* A plugin that is not being uninstalled has its role, and what its manifest calls for.
PluginOK(x) ==
  LET p == plugins[x] IN
  /\ DOMAIN p = {"manifest", "role", "by", "leaving"}
  /\ p.manifest \in Manifests /\ p.leaving \in BOOLEAN
  /\ Known(p, Plugins)
  /\ ~p.leaving => /\ Exactly(p.role, x, p.manifest.perms)
                   /\ <<x, p.role>> \in members
                   /\ p.manifest.async => x \in belongings.deliveries
                   /\ p.manifest.overlay = "fits" => x \in belongings.overlays

PluginsOK == /\ DOMAIN plugins \subseteq Plugins /\ \A x \in DOMAIN plugins : PluginOK(x)
             /\ DOMAIN belongings = {"deliveries", "kv", "overlays"}

\* Nobody saves the automation a.
NoSave(a) == \A c \in Clients : task[c].op = "save" => task[c].id # a

SilencedOK ==
  \A a \in silenced : /\ a \in Automations /\ a \notin DOMAIN automations
                      /\ RoleByName(a) = {} /\ NoSave(a)

\* A deletion that no save overlaps: the role it finds is the only one, and then there is none.
Undisturbed(t) == Deleting(t) /\ t.alone /\ left["save"] = t.before
DeleterOK(c) ==
  LET t == task[c] IN
  /\ NoSave(t.id)
  /\ t.at = "revoke" => RoleByName(t.id) \subseteq {t.role}
  /\ t.at = "commit" => RoleByName(t.id) = {}

DeletersOK == \A c \in Clients : Undisturbed(task[c]) => DeleterOK(c)

FeedOK ==
  /\ DOMAIN automations \subseteq Automations /\ DOMAIN since = DOMAIN automations
  /\ DOMAIN automations \subseteq DOMAIN cursors
  /\ \A a \in DOMAIN automations : automations[a] \in Definitions /\ since[a] \in Nat
  /\ \A a \in DOMAIN cursors : cursors[a] \in 0..Len(log)
  /\ log \in Seq([actor : Principals, hit : BOOLEAN])
  /\ EveryChangeRuns

\* While a rotation runs, the file, what the server has loaded and what the rotation read are
\* one; and all that is not under the current key is on its list. What a rotation has drained
\* stays drained until there is a new key.
VaultOK ==
  /\ file \in [current : Keys, keys : SUBSET Keys] /\ file.current \in file.keys
  /\ \A n \in DOMAIN secrets : DOMAIN secrets[n] = {"key", "wrapped", "sealed", "host"}
  /\ Careful =>
       /\ loaded.current \in file.keys /\ drained \in Nat /\ drained <= file.current
       /\ SecretsOpen
       /\ drained = file.current =>
            loaded.current = file.current /\ \A n \in DOMAIN secrets : secrets[n].key = file.current
       /\ cli # NoRotation =>
            /\ {"at", "src", "stale"} \subseteq DOMAIN cli
            /\ cli.src = file /\ loaded = file
            /\ \A n \in DOMAIN secrets : secrets[n].key # file.current => n \in cli.stale

\* The inductive invariant.
IInv == RolesOK /\ TasksOK /\ OwnersOK /\ PluginsOK /\ SilencedOK /\ DeletersOK /\ FeedOK /\ VaultOK
--------------------------------------------------------------------------------
(* Steps of a task. *)

(* Goto, Keep and End touch one task, and of that what they say. *)
LEMMA Gone ==
  ASSUME TasksOK, NEW c \in Clients, NEW step, Goto(c, step)
  PROVE  /\ DOMAIN task' = Clients
         /\ \A d \in Clients : d # c => task'[d] = task[d]
         /\ DOMAIN task'[c] = DOMAIN task[c] /\ task'[c].at = step /\ task'[c].op = task[c].op
         /\ \A f \in DOMAIN task[c] : f # "at" => task'[c][f] = task[c][f]
<1>1. {"op", "at"} \subseteq DOMAIN task[c] /\ DOMAIN task = Clients
  BY DEF TasksOK, TaskOK
<1> QED BY <1>1 DEF Goto

LEMMA Kept ==
  ASSUME TasksOK, NEW c \in Clients, NEW step, NEW what, Keep(c, step, what)
  PROVE  /\ DOMAIN task' = Clients
         /\ \A d \in Clients : d # c => task'[d] = task[d]
         /\ DOMAIN task'[c] = DOMAIN task[c] \cup DOMAIN what \cup {"at"} /\ task'[c].at = step
         /\ \A f \in DOMAIN what : f # "at" => task'[c][f] = what[f]
         /\ \A f \in DOMAIN task[c] : f \notin DOMAIN what \cup {"at"} => task'[c][f] = task[c][f]
  BY DEF Keep, Amend, TasksOK

LEMMA Ended ==
  ASSUME TasksOK, NEW c \in Clients, End(c)
  PROVE  /\ DOMAIN task' = Clients /\ task'[c] = Idle
         /\ \A d \in Clients : d # c => task'[d] = task[d]
  BY DEF End, TasksOK

LEMMA IdleOK == TaskOK(Idle)'
  BY DEF TaskOK, Idle
--------------------------------------------------------------------------------
(* What rests while others act. *)

\* What no step takes back: roles do not change and their ids are not used again, what was
\* vouched for, the feed and the runs stay, and what is left gets less.
LeftFalls == left' \in [Kinds -> Nat] /\ left'["save"] <= left["save"]
RolesAge ==
  /\ fresh' \in [role : Nat, dek : Nat, job : Nat] /\ fresh.role <= fresh'.role
  /\ \A r \in DOMAIN roles' : r \in 1..fresh.role => r \in DOMAIN roles /\ roles'[r] = roles[r]
  /\ \A r \in DOMAIN vouched : r \in DOMAIN vouched' /\ vouched'[r] = vouched[r]
FeedAges ==
  /\ Len(log') \in Nat /\ Len(log) <= Len(log')
  /\ \A i \in 1..Len(log) : log'[i] = log[i]
  /\ runs \subseteq runs'
Ages == scenario' = scenario /\ RolesAge /\ FeedAges /\ LeftFalls

LEMMA SpendFalls ==
  ASSUME IInv, NEW k \in Kinds, Spend(k)
  PROVE  LeftFalls
<1>1. left \in [Kinds -> Nat] /\ "save" \in Kinds
  BY DEF IInv, RolesOK, AuthzTypeOK, Kinds
<1>2. left[k] \in Nat /\ left[k] - 1 \in Nat /\ left["save"] \in Nat
  BY <1>1 DEF Spend
<1> QED BY <1>1, <1>2 DEF Spend, LeftFalls

LEMMA LeftRests ==
  ASSUME IInv, UNCHANGED left
  PROVE  LeftFalls
<1>1. left \in [Kinds -> Nat] /\ "save" \in Kinds
  BY DEF IInv, RolesOK, AuthzTypeOK, Kinds
<1>2. left["save"] \in Nat
  BY <1>1
<1> QED BY <1>1, <1>2 DEF LeftFalls

LEMMA LogLength ==
  ASSUME IInv
  PROVE  Len(log) \in Nat /\ log \in Seq([actor : Principals, hit : BOOLEAN])
  BY DEF IInv, FeedOK

LEMMA FeedRestsAges ==
  ASSUME IInv, UNCHANGED <<log, runs>>
  PROVE  FeedAges
  BY LogLength DEF FeedAges

LEMMA TaskRests ==
  ASSUME IInv, Ages, NEW d \in Clients, task'[d] = task[d]
  PROVE  TaskOK(task[d])'
<1>1. TaskOK(task[d]) /\ fresh.role \in Nat /\ fresh'.role \in Nat /\ fresh.role <= fresh'.role
  BY DEF IInv, TasksOK, RolesOK, Ages, RolesAge
<1>2. \A r \in 1..fresh.role : r \in 1..fresh'.role
  BY <1>1
<1>3. \A i \in 0..Len(log) : i \in 0..Len(log')
  BY LogLength DEF Ages, FeedAges
<1>4. ASSUME NEW names, Known(task[d], names)
      PROVE  /\ "role" \in DOMAIN task'[d] /\ task'[d].role \in 1..fresh'.role
             /\ task'[d].role \in DOMAIN roles' => roles'[task'[d].role].name \in names
  BY <1>2, <1>4 DEF Known, Ages, RolesAge
<1>5. ASSUME ApprovalOK(task[d]) PROVE ApprovalOK(task[d])'
  BY <1>3, <1>4, <1>5 DEF ApprovalOK, Known, Ages, RolesAge
<1>6. ASSUME DeleteOK(task[d]) PROVE DeleteOK(task[d])'
  <2>1. left["save"] \in Nat /\ left'["save"] \in Nat /\ left'["save"] <= left["save"]
    BY DEF IInv, RolesOK, AuthzTypeOK, Ages, LeftFalls, Kinds
  <2>2. left'["save"] <= task[d].before
    BY <1>6, <2>1 DEF DeleteOK
  <2> QED BY <1>4, <1>6, <2>2 DEF DeleteOK, Known
<1>7. ASSUME UninstallOK(task[d]) PROVE UninstallOK(task[d])'
  BY <1>4, <1>7 DEF UninstallOK, Known
<1>8. ASSUME PassOK(task[d]) PROVE PassOK(task[d])'
  <2>1. task[d].at = "advance" => task[d].from + 1 \in 1..Len(log)
    BY <1>8, LogLength DEF PassOK
  <2>2. task[d].at = "advance" => log'[task[d].from + 1] = log[task[d].from + 1]
    BY <2>1 DEF Ages, FeedAges
  <2>3. runs \subseteq runs'
    BY DEF Ages, FeedAges
  <2> QED BY <1>3, <1>8, <2>2, <2>3 DEF PassOK
<1> QED BY <1>1, <1>5, <1>6, <1>7, <1>8 DEF TaskOK

\* Tasks that move on do not come into the possession of anything, and nobody begins to save.
Calm ==
  /\ DOMAIN task' = Clients
  /\ \A d \in Clients :
       \/ task'[d] = task[d]
       \/ /\ ~Owning(task'[d]) /\ ~Removing(task'[d]) /\ ~Deleting(task'[d])
          /\ task'[d].op = "save" => task[d].op = "save" /\ task'[d].id = task[d].id

MovedOK == \A d \in Clients : task'[d] # task[d] => TaskOK(task[d])'

LEMMA TasksCalm ==
  ASSUME IInv, Ages, DOMAIN task' = Clients, MovedOK
  PROVE  TasksOK'
<1>1. ASSUME NEW d \in Clients PROVE TaskOK(task[d])'
  BY <1>1, TaskRests DEF MovedOK
<1> QED BY <1>1 DEF TasksOK

LEMMA OwnersSteady ==
  ASSUME IInv, UNCHANGED <<roles, grants, members, plugins>>,
         \A d \in Clients : Owning(task'[d]) \/ Removing(task'[d]) => task'[d] = task[d]
  PROVE  OwnersOK'
<1> SUFFICES ASSUME NEW c \in Clients, Owning(task'[c]) PROVE OwnerOK(c)'
  BY DEF OwnersOK
<1>1. task'[c] = task[c] /\ OwnerOK(c)
  BY DEF IInv, OwnersOK
<1> QED BY <1>1 DEF OwnerOK, Exactly, GrantsOf

LEMMA OwnersCalm ==
  ASSUME IInv, Calm, UNCHANGED <<roles, grants, members, plugins>>
  PROVE  OwnersOK'
  BY OwnersSteady DEF Calm

\* An automation that nobody saves is given no role.
NoNewRole == \A a \in Automations : NoSave(a) => RoleByName(a)' \subseteq RoleByName(a)

\* Nobody begins to save.
NoNewSave == /\ DOMAIN task' = Clients
             /\ \A d \in Clients : task'[d].op = "save" => task[d].op = "save" /\ task'[d].id = task[d].id

LEMMA CalmSave ==
  ASSUME Calm PROVE NoNewSave
  BY DEF Calm, NoNewSave

LEMMA SilencedKept ==
  ASSUME IInv, NoNewSave, NoNewRole, DOMAIN automations' \subseteq DOMAIN automations,
         silenced' \subseteq silenced
  PROVE  SilencedOK'
<1> SUFFICES ASSUME NEW a \in silenced'
             PROVE  (/\ a \in Automations /\ a \notin DOMAIN automations
                     /\ RoleByName(a) = {} /\ NoSave(a))'
  BY DEF SilencedOK
<1>1. a \in Automations /\ a \notin DOMAIN automations /\ RoleByName(a) = {} /\ NoSave(a)
  BY DEF IInv, SilencedOK
<1>2. NoSave(a)'
  BY <1>1 DEF NoSave, NoNewSave
<1> QED BY <1>1, <1>2 DEF NoNewRole

LEMMA DeletersKept ==
  ASSUME IInv, NoNewSave, NoNewRole, LeftFalls,
         \A d \in Clients : task'[d] # task[d] => (Undisturbed(task[d])' => DeleterOK(d)')
  PROVE  DeletersOK'
<1> SUFFICES ASSUME NEW c \in Clients, Undisturbed(task[c])', task'[c] = task[c] PROVE DeleterOK(c)'
  BY DEF DeletersOK
<1>1. Deleting(task[c])
  BY DEF Undisturbed, Deleting
<1>2. DeleteOK(task[c])
  BY <1>1 DEF IInv, TasksOK, TaskOK, Deleting
<1>3. left["save"] = task[c].before
  <2>1. left["save"] \in Nat /\ left'["save"] \in Nat
    BY DEF IInv, RolesOK, AuthzTypeOK, LeftFalls, Kinds
  <2>2. left'["save"] = task[c].before /\ left'["save"] <= left["save"] /\ left["save"] <= task[c].before
        /\ task[c].before \in Nat
    BY <1>1, <1>2 DEF Undisturbed, DeleteOK, LeftFalls
  <2> QED BY <2>1, <2>2
<1>4. Undisturbed(task[c])
  BY <1>1, <1>3 DEF Undisturbed
<1>5. DeleterOK(c) /\ task[c].id \in Automations
  BY <1>2, <1>4 DEF IInv, DeletersOK, DeleteOK
<1>6. NoSave(task[c].id)'
  BY <1>5 DEF DeleterOK, NoSave, NoNewSave
<1>7. RoleByName(task[c].id)' \subseteq RoleByName(task[c].id)
  BY <1>5 DEF DeleterOK, NoNewRole, RoleByName
<1> QED BY <1>5, <1>6, <1>7 DEF DeleterOK

LEMMA RolesKeepNames ==
  ASSUME UNCHANGED roles PROVE NoNewRole
  BY DEF NoNewRole, RoleByName

LEMMA SilencedCalm ==
  ASSUME IInv, Calm, UNCHANGED roles, DOMAIN automations' \subseteq DOMAIN automations,
         silenced' \subseteq silenced
  PROVE  SilencedOK'
  BY SilencedKept, CalmSave, RolesKeepNames

LEMMA DeletersCalm ==
  ASSUME IInv, Calm, UNCHANGED roles, LeftFalls
  PROVE  DeletersOK'
<1>1. \A d \in Clients : task'[d] # task[d] => ~Undisturbed(task[d])'
  BY DEF Calm, Undisturbed
<1> QED BY <1>1, DeletersKept, CalmSave, RolesKeepNames

LEMMA RolesRest ==
  ASSUME IInv, UNCHANGED <<roles, grants, members, vouched, scenario>>, LeftFalls,
         fresh' \in [role : Nat, dek : Nat, job : Nat], fresh'.role = fresh.role
  PROVE  RolesOK' /\ RolesAge
<1>1. AuthzTypeOK'
  BY DEF IInv, RolesOK, AuthzTypeOK, LeftFalls
<1>2. PeopleOK' /\ MembersOK' /\ NoBorrowedAuthority'
  BY DEF IInv, RolesOK, PeopleOK, MembersOK, NoBorrowedAuthority
<1>3. RolesAge
  <2>1. fresh.role \in Nat
    BY DEF IInv, RolesOK
  <2> QED BY <2>1 DEF RolesAge
<1> QED BY <1>1, <1>2, <1>3 DEF RolesOK

LEMMA PluginsRest ==
  ASSUME IInv, UNCHANGED <<roles, grants, members, plugins>>, fresh'.role = fresh.role,
         DOMAIN belongings' = DOMAIN belongings, belongings'.deliveries = belongings.deliveries,
         belongings'.overlays = belongings.overlays
  PROVE  PluginsOK'
<1>1. ASSUME NEW x \in DOMAIN plugins PROVE PluginOK(x)'
  <2>1. PluginOK(x)
    BY DEF IInv, PluginsOK
  <2> QED BY <2>1 DEF PluginOK, Known, Exactly, GrantsOf
<1> QED BY <1>1 DEF IInv, PluginsOK

LEMMA FeedRests ==
  ASSUME IInv, UNCHANGED <<automations, cursors, log, runs, since>>
  PROVE  FeedOK'
  BY DEF IInv, FeedOK, EveryChangeRuns

LEMMA VaultRests ==
  ASSUME IInv, UNCHANGED <<scenario, file, loaded, secrets, cli, drained>>
  PROVE  VaultOK'
  BY DEF IInv, VaultOK, Careful, SecretsOpen, Opens

(* A step that changes none of the tables the invariant is about. *)
LEMMA QuietStep ==
  ASSUME IInv, Calm, MovedOK, LeftFalls,
         UNCHANGED <<roles, grants, members, vouched, scenario, plugins>>,
         UNCHANGED <<automations, cursors, log, runs, since>>, silenced' \subseteq silenced,
         UNCHANGED <<file, loaded, secrets, cli, drained>>,
         fresh' \in [role : Nat, dek : Nat, job : Nat], fresh'.role = fresh.role,
         DOMAIN belongings' = DOMAIN belongings, belongings'.deliveries = belongings.deliveries,
         belongings'.overlays = belongings.overlays
  PROVE  IInv'
<1>1. RolesOK' /\ RolesAge
  BY RolesRest
<1>2. Ages
  BY <1>1, FeedRestsAges DEF Ages
<1>3. TasksOK'
  BY <1>2, TasksCalm DEF Calm
<1>4. OwnersOK' /\ SilencedOK' /\ DeletersOK'
  BY OwnersCalm, SilencedCalm, DeletersCalm
<1>5. PluginsOK' /\ FeedOK' /\ VaultOK'
  BY PluginsRest, FeedRests, VaultRests
<1> QED BY <1>1, <1>3, <1>4, <1>5 DEF IInv

(* A step of one task that does not come into possession of anything. *)
LEMMA OneMoves ==
  ASSUME NEW c \in Clients, DOMAIN task' = Clients, \A d \in Clients : d # c => task'[d] = task[d],
         TaskOK(task[c])', ~Owning(task'[c]), ~Removing(task'[c]), ~Deleting(task'[c]),
         task'[c].op = "save" => task[c].op = "save" /\ task'[c].id = task[c].id
  PROVE  Calm /\ MovedOK
<1>1. Calm
  BY DEF Calm
<1>2. MovedOK
  BY DEF MovedOK
<1> QED BY <1>1, <1>2

LEMMA EndMoves ==
  ASSUME IInv, NEW c \in Clients, End(c)
  PROVE  Calm /\ MovedOK
<1>1. /\ DOMAIN task' = Clients /\ task'[c] = Idle
      /\ \A d \in Clients : d # c => task'[d] = task[d]
  BY Ended DEF IInv
<1>2. TaskOK(task[c])'
  BY <1>1, IdleOK DEF TaskOK
<1>3. ~Owning(task'[c]) /\ ~Removing(task'[c]) /\ ~Deleting(task'[c]) /\ task'[c].op # "save"
  BY <1>1 DEF Idle, Owning, Removing, Deleting
<1> QED BY <1>1, <1>2, <1>3, OneMoves

Still == UNCHANGED <<tables, scenario, fresh, vault, plugins, belongings, state>>

LEMMA StillStep ==
  ASSUME IInv, Calm, MovedOK, LeftFalls, Still
  PROVE  IInv'
<1>1. /\ UNCHANGED <<roles, grants, members, vouched, scenario, fresh, plugins, belongings>>
      /\ UNCHANGED <<automations, cursors, log, runs, since, silenced>>
      /\ UNCHANGED <<file, loaded, secrets, cli, drained>>
  BY DEF Still, tables, vault, state, history
<1>2. fresh' \in [role : Nat, dek : Nat, job : Nat] /\ silenced' \subseteq silenced
  BY <1>1 DEF IInv, RolesOK
<1> QED BY <1>1, <1>2, QuietStep

LEMMA StillEnd ==
  ASSUME IInv, NEW c \in Clients, End(c), Still, UNCHANGED left
  PROVE  IInv'
  BY EndMoves, StillStep, LeftRests

(* A task begins with a record of its own. *)
LEMMA Begun ==
  ASSUME IInv, NEW c \in Clients, NEW t, task' = [task EXCEPT ![c] = t]
  PROVE  /\ DOMAIN task' = Clients /\ task'[c] = t
         /\ \A d \in Clients : d # c => task'[d] = task[d]
  BY DEF IInv, TasksOK

LEMMA PlainMoves ==
  ASSUME NEW c \in Clients, DOMAIN task' = Clients, \A d \in Clients : d # c => task'[d] = task[d],
         {"op", "at"} \subseteq DOMAIN task'[c],
         task'[c].op \notin {"install", "save", "delete", "uninstall", "pass"}
  PROVE  Calm /\ MovedOK
<1>1. TaskOK(task[c])'
  BY DEF TaskOK
<1>2. ~Owning(task'[c]) /\ ~Removing(task'[c]) /\ ~Deleting(task'[c]) /\ task'[c].op # "save"
  BY DEF Owning, Removing, Deleting
<1> QED BY <1>1, <1>2, OneMoves
--------------------------------------------------------------------------------
(* Secrets, destinations, calls and jobs: nothing depends on what these tasks have read. *)

LEMMA OperationKinds ==
  {"put", "drop", "register", "unregister", "call", "sync", "job", "pass", "install", "uninstall",
   "save", "delete", "cron", "change", "fail", "rotate", "newkey", "retire", "restart"} \subseteq Kinds
  BY DEF Kinds

LEMMA BeginSecretOK ==
  ASSUME IInv, NEW c \in Clients, BeginSecret(c), UNCHANGED <<extension, state>>
  PROVE  IInv'
<1>1. PICK n \in Names, h \in Hosts, op \in {"put", "drop"} :
        Spend(op) /\ task' = [task EXCEPT ![c] = [op |-> op, at |-> op, name |-> n, host |-> h]]
  BY DEF BeginSecret
<1>2. Still
  BY DEF BeginSecret, Still, extension
<1>3. Calm /\ MovedOK
  BY <1>1, Begun, PlainMoves
<1>4. LeftFalls
  BY <1>1, SpendFalls, OperationKinds
<1> QED BY <1>2, <1>3, <1>4, StillStep

LEMMA BeginDestinationOK ==
  ASSUME IInv, NEW c \in Clients, BeginDestination(c), UNCHANGED <<extension, state>>
  PROVE  IInv'
<1>1. PICK d \in Destinations, dest \in [host : Hosts, secret : Names], op \in {"register", "unregister"} :
        Spend(op) /\ task' = [task EXCEPT ![c] = [op |-> op, at |-> "check", dest |-> d, row |-> dest]]
  BY DEF BeginDestination
<1>2. Still
  BY DEF BeginDestination, Still, extension
<1>3. Calm /\ MovedOK
  BY <1>1, Begun, PlainMoves
<1>4. LeftFalls
  BY <1>1, SpendFalls, OperationKinds
<1> QED BY <1>2, <1>3, <1>4, StillStep

LEMMA DestinationsOK ==
  ASSUME IInv, NEW c \in Clients, RegisterCheck(c) \/ RegisterWrite(c) \/ DeleteDestination(c),
         UNCHANGED <<extension, state>>
  PROVE  IInv'
<1>1. /\ UNCHANGED <<roles, grants, members, vouched, scenario, fresh, plugins, belongings, left>>
      /\ UNCHANGED <<automations, cursors, log, runs, since, silenced>>
      /\ UNCHANGED <<file, loaded, secrets, cli, drained>>
  BY DEF RegisterCheck, RegisterWrite, DeleteDestination, tables, vault, extension, state, history
<1>2. Calm /\ MovedOK
  <2>1. CASE End(c)
    BY <2>1, EndMoves
  <2>2. CASE Goto(c, "write") /\ task[c].op = "register"
    <3>1. {"op", "at"} \subseteq DOMAIN task[c]
      BY DEF IInv, TasksOK, TaskOK
    <3> QED BY <2>2, <3>1, Gone, PlainMoves DEF IInv
  <2> QED BY <2>1, <2>2 DEF RegisterCheck, RegisterWrite, DeleteDestination, At
<1>3. fresh' \in [role : Nat, dek : Nat, job : Nat]
  BY <1>1 DEF IInv, RolesOK
<1> QED BY <1>1, <1>2, <1>3, LeftRests, QuietStep

LEMMA CallsOK ==
  ASSUME IInv, NEW c \in Clients, BeginCall(c) \/ CallGet(c) \/ KvSet(c), UNCHANGED state
  PROVE  IInv'
<1>1. CASE BeginCall(c)
  <2>1. PICK x \in Plugins :
          Spend("call") /\ task' = [task EXCEPT ![c] = [op |-> "call", at |-> "get", id |-> x]]
    BY <1>1 DEF BeginCall
  <2>2. Calm /\ MovedOK
    BY <2>1, Begun, PlainMoves
  <2>3. Still
    BY <1>1 DEF BeginCall, Still, extension
  <2>4. LeftFalls
    BY <2>1, SpendFalls, OperationKinds
  <2> QED BY <2>2, <2>3, <2>4, StillStep
<1>2. CASE CallGet(c)
  <2>1. Still /\ UNCHANGED left /\ task[c].op = "call"
    BY <1>2 DEF CallGet, Still, At, extension
  <2>2. {"op", "at"} \subseteq DOMAIN task[c]
    BY DEF IInv, TasksOK, TaskOK
  <2>3. CASE Goto(c, "run")
    <3>1. Calm /\ MovedOK
      BY <2>1, <2>2, <2>3, Gone, PlainMoves DEF IInv
    <3> QED BY <2>1, <3>1, StillStep, LeftRests
  <2> QED BY <1>2, <2>1, <2>3, StillEnd DEF CallGet
<1>3. CASE KvSet(c)
  <2>1. /\ UNCHANGED <<roles, grants, members, vouched, scenario, fresh, plugins, left>>
        /\ UNCHANGED <<automations, cursors, log, runs, since, silenced>>
        /\ UNCHANGED <<file, loaded, secrets, cli, drained>>
        /\ belongings' = [belongings EXCEPT !.kv = @ \cup {task[c].id}] /\ End(c)
    BY <1>3 DEF KvSet, tables, vault, state, history
  <2>2. fresh' \in [role : Nat, dek : Nat, job : Nat]
    BY <2>1 DEF IInv, RolesOK
  <2>3. DOMAIN belongings' = DOMAIN belongings /\ belongings'.deliveries = belongings.deliveries
        /\ belongings'.overlays = belongings.overlays
    BY <2>1 DEF IInv, PluginsOK
  <2> QED BY <2>1, <2>2, <2>3, EndMoves, LeftRests, QuietStep
<1> QED BY <1>1, <1>2, <1>3

LEMMA JobsOK ==
  ASSUME IInv, NEW c \in Clients, BeginJob(c) \/ JobLoad(c) \/ JobDestination(c) \/ JobSend(c)
  PROVE  IInv'
<1>1. CASE BeginJob(c)
  <2>1. PICK q \in queue :
          task' = [task EXCEPT ![c] = IF q.kind = "plugin"
                     THEN [op |-> "call", at |-> "get", id |-> q.id]
                     ELSE [op |-> "job", at |-> "load", id |-> q.id, job |-> q]]
    BY <1>1 DEF BeginJob
  <2>2. Calm /\ MovedOK
    <3>1. CASE q.kind = "plugin"
      BY <2>1, <3>1, Begun, PlainMoves
    <3>2. CASE q.kind # "plugin"
      BY <2>1, <3>2, Begun, PlainMoves
    <3> QED BY <3>1, <3>2
  <2>3. Still /\ Spend("job")
    BY <1>1 DEF BeginJob, Still
  <2>4. LeftFalls
    BY <2>3, SpendFalls, OperationKinds
  <2> QED BY <2>2, <2>3, <2>4, StillStep
<1>2. CASE JobLoad(c) \/ JobDestination(c) \/ JobSend(c)
  <2>1. Still /\ UNCHANGED left /\ task[c].op = "job"
    BY <1>2 DEF JobLoad, JobDestination, JobSend, Still, At, extension
  <2>2. {"op", "at"} \subseteq DOMAIN task[c]
    BY DEF IInv, TasksOK, TaskOK
  <2>3. ASSUME NEW step, Goto(c, step) PROVE IInv'
    <3>1. Calm /\ MovedOK
      BY <2>1, <2>2, <2>3, Gone, PlainMoves DEF IInv
    <3> QED BY <2>1, <3>1, StillStep, LeftRests
  <2>4. ASSUME NEW step, NEW what, Keep(c, step, what), "op" \notin DOMAIN what PROVE IInv'
    <3>1. task'[c].op = "job" /\ {"op", "at"} \subseteq DOMAIN task'[c]
      BY <2>1, <2>2, <2>4, Kept DEF IInv
    <3>2. Calm /\ MovedOK
      BY <2>4, <3>1, Kept, PlainMoves DEF IInv
    <3> QED BY <2>1, <3>2, StillStep, LeftRests
  <2>5. CASE JobLoad(c)
    BY <2>1, <2>3, <2>4, <2>5, StillEnd DEF JobLoad
  <2>6. CASE JobDestination(c)
    BY <2>1, <2>3, <2>4, <2>6, StillEnd DEF JobDestination
  <2>7. CASE JobSend(c)
    BY <2>1, <2>3, <2>7, StillEnd DEF JobSend
  <2> QED BY <1>2, <2>5, <2>6, <2>7
<1> QED BY <1>1, <1>2
--------------------------------------------------------------------------------
(* The vault. *)

LEMMA StayCalm ==
  ASSUME IInv, UNCHANGED task
  PROVE  Calm /\ MovedOK
  BY DEF IInv, TasksOK, Calm, MovedOK

(* What a step of the vault has to show. *)
LEMMA VaultStep ==
  ASSUME IInv, Calm, MovedOK, LeftFalls, UNCHANGED <<tables, scenario, extension, state>>,
         fresh' \in [role : Nat, dek : Nat, job : Nat], fresh'.role = fresh.role, VaultOK'
  PROVE  IInv'
<1>1. /\ UNCHANGED <<roles, grants, members, vouched, scenario, plugins, belongings>>
      /\ UNCHANGED <<automations, cursors, log, runs, since, silenced>>
  BY DEF tables, extension, state, history
<1>2. RolesOK' /\ RolesAge
  BY <1>1, RolesRest
<1>3. Ages
  BY <1>1, <1>2, FeedRestsAges DEF Ages
<1>4. TasksOK'
  BY <1>3, TasksCalm DEF Calm
<1>5. OwnersOK' /\ SilencedOK' /\ DeletersOK'
  BY <1>1, OwnersCalm, SilencedCalm, DeletersCalm
<1>6. PluginsOK' /\ FeedOK'
  BY <1>1, PluginsRest, FeedRests
<1> QED BY <1>2, <1>4, <1>5, <1>6 DEF IInv

LEMMA PutOK ==
  ASSUME IInv, NEW c \in Clients, Put(c), UNCHANGED <<extension, state>>
  PROVE  IInv'
<1> DEFINE name == task[c].name
           row == [key |-> loaded.current, wrapped |-> fresh.dek + 1, sealed |-> fresh.dek + 1,
                   host |-> task[c].host]
<1>1. /\ UNCHANGED <<tables, scenario, left, file, loaded, cli, drained>> /\ End(c)
      /\ fresh' = [fresh EXCEPT !.dek = @ + 1]
      /\ secrets' = Amend(secrets, Row(name, row))
  BY DEF Put
<1>2. fresh' \in [role : Nat, dek : Nat, job : Nat] /\ fresh'.role = fresh.role
  BY <1>1 DEF IInv, RolesOK
<1>3. /\ DOMAIN row = {"key", "wrapped", "sealed", "host"} /\ row.wrapped = row.sealed
      /\ row.key = loaded.current
  OBVIOUS
<1> HIDE DEF row
<1>4. /\ DOMAIN secrets' = DOMAIN secrets \cup {name}
      /\ \A n \in DOMAIN secrets' : secrets'[n] = IF n = name THEN row ELSE secrets[n]
  BY <1>1 DEF Amend, Row
<1>5. VaultOK'
  <2>1. \A n \in DOMAIN secrets' : DOMAIN secrets'[n] = {"key", "wrapped", "sealed", "host"}
    BY <1>3, <1>4 DEF IInv, VaultOK
  <2>2. ASSUME Careful
        PROVE  /\ SecretsOpen'
               /\ drained = file.current => \A n \in DOMAIN secrets' : secrets'[n].key = file.current
               /\ cli # NoRotation =>
                    \A n \in DOMAIN secrets' : secrets'[n].key # file.current => n \in cli.stale
    <3>1. VaultOK /\ UNCHANGED <<file, loaded, cli, drained>>
      BY <1>1 DEF IInv
    <3>2. SecretsOpen'
      BY <1>3, <1>4, <2>2, <3>1 DEF VaultOK, SecretsOpen, Opens
    <3> QED BY <1>3, <1>4, <2>2, <3>1, <3>2 DEF VaultOK
  <2>3. Careful' = Careful
    BY <1>1 DEF Careful
  <2> QED BY <1>1, <2>1, <2>2, <2>3 DEF IInv, VaultOK
<1> QED BY <1>1, <1>2, <1>5, EndMoves, LeftRests, VaultStep

LEMMA DeleteSecretOK ==
  ASSUME IInv, NEW c \in Clients, DeleteSecret(c), UNCHANGED <<extension, state>>
  PROVE  IInv'
<1>1. /\ UNCHANGED <<tables, scenario, fresh, left, file, loaded, cli, drained>> /\ End(c)
      /\ secrets' = Restrict(secrets, DOMAIN secrets \ {task[c].name})
  BY DEF DeleteSecret
<1>2. DOMAIN secrets' \subseteq DOMAIN secrets /\ \A n \in DOMAIN secrets' : secrets'[n] = secrets[n]
  BY <1>1 DEF Restrict
<1>3. VaultOK'
  BY <1>1, <1>2, ZenonT(60) DEF IInv, VaultOK, Careful, SecretsOpen, Opens
<1>4. fresh' \in [role : Nat, dek : Nat, job : Nat] /\ fresh'.role = fresh.role
  BY <1>1 DEF IInv, RolesOK
<1> QED BY <1>1, <1>3, <1>4, EndMoves, LeftRests, VaultStep

LEMMA RotationOK ==
  ASSUME IInv, RotateList \/ RewrapRead \/ RewrapWrite \/ RotateDone \/ RotateDies,
         UNCHANGED <<extension, state>>
  PROVE  IInv'
<1>1. UNCHANGED <<tables, scenario, fresh, task, file, loaded, destinations>>
  BY DEF RotateList, RewrapRead, RewrapWrite, RotateDone, RotateDies
<1>2. LeftFalls
  <2>1. UNCHANGED left \/ Spend("rotate") \/ Spend("fail")
    BY DEF RotateList, RewrapRead, RewrapWrite, RotateDone, RotateDies
  <2> QED BY <2>1, SpendFalls, LeftRests, OperationKinds
<1>3. fresh' \in [role : Nat, dek : Nat, job : Nat] /\ fresh'.role = fresh.role
  BY <1>1 DEF IInv, RolesOK
<1>4. VaultOK /\ Careful' = Careful
  BY <1>1 DEF IInv, Careful
<1>5. VaultOK'
  <2>1. CASE RotateList
    <3>1. /\ UNCHANGED <<secrets, drained>> /\ (scenario.careful => loaded = file)
          /\ cli' = [at |-> "read", src |-> file,
                     stale |-> {n \in DOMAIN secrets : secrets[n].key # file.current}]
      BY <2>1 DEF RotateList
    <3>2. /\ {"at", "src", "stale"} \subseteq DOMAIN cli' /\ cli'.src = file
          /\ \A n \in DOMAIN secrets : secrets[n].key # file.current => n \in cli'.stale
      BY <3>1
    <3>3. Careful => scenario.careful
      BY DEF Careful
    <3> QED BY <1>1, <1>4, <3>1, <3>2, <3>3 DEF VaultOK, SecretsOpen, Opens
  <2>2. CASE RewrapRead
    <3> DEFINE n == Min(cli.stale)
    <3>1. UNCHANGED <<secrets, drained>> /\ cli # NoRotation
      BY <2>2 DEF RewrapRead, NoRotation
    <3>2. \/ cli' = NoRotation
          \/ n \in DOMAIN secrets /\ secrets[n].key = cli.src.current /\ cli' = [cli EXCEPT !.stale = @ \ {n}]
          \/ cli' = Amend(cli, [row |-> secrets[n], at |-> "write"])
      BY <2>2 DEF RewrapRead
    <3> HIDE DEF n
    <3>3. ASSUME Careful, cli' # NoRotation
          PROVE  /\ {"at", "src", "stale"} \subseteq DOMAIN cli' /\ cli'.src = file
                 /\ \A k \in DOMAIN secrets : secrets[k].key # file.current => k \in cli'.stale
      <4>1. /\ {"at", "src", "stale"} \subseteq DOMAIN cli /\ cli.src = file
            /\ \A k \in DOMAIN secrets : secrets[k].key # file.current => k \in cli.stale
        BY <1>4, <3>1, <3>3 DEF VaultOK
      <4>2. CASE cli' = Amend(cli, [row |-> secrets[n], at |-> "write"])
        BY <4>1, <4>2 DEF Amend
      <4>3. CASE secrets[n].key = cli.src.current /\ cli' = [cli EXCEPT !.stale = @ \ {n}]
        BY <4>1, <4>3
      <4> QED BY <3>2, <3>3, <4>2, <4>3
    <3> QED BY <1>1, <1>4, <3>1, <3>3 DEF VaultOK, SecretsOpen, Opens
  <2>3. CASE RewrapWrite
    <3> DEFINE n == Min(cli.stale)
               same == n \in DOMAIN secrets /\ secrets[n] = cli.row
    <3>1. /\ UNCHANGED drained /\ cli # NoRotation
          /\ \/ /\ UNCHANGED secrets /\ cli' = [cli EXCEPT !.at = "read"]
             \/ /\ scenario.dialect = "sqlite" => same
                /\ secrets' = IF n \in DOMAIN secrets
                              THEN [secrets EXCEPT ![n].key = cli.src.current,
                                                   ![n].wrapped = cli.row.wrapped]
                              ELSE secrets
                /\ cli' = [cli EXCEPT !.at = "read", !.stale = @ \ {n}]
      BY <2>3 DEF RewrapWrite, NoRotation
    <3>2. CASE UNCHANGED secrets /\ cli' = [cli EXCEPT !.at = "read"]
      <4>1. Careful => {"at", "src", "stale"} \subseteq DOMAIN cli
        BY <1>4, <3>1 DEF VaultOK
      <4>2. Careful => {"at", "src", "stale"} \subseteq DOMAIN cli' /\ cli'.src = cli.src /\ cli'.stale = cli.stale
        BY <3>2, <4>1
      <4> QED BY <1>1, <1>4, <3>1, <3>2, <4>2 DEF VaultOK, SecretsOpen, Opens
    <3>3. CASE /\ scenario.dialect = "sqlite" => same
               /\ secrets' = IF n \in DOMAIN secrets
                             THEN [secrets EXCEPT ![n].key = cli.src.current,
                                                  ![n].wrapped = cli.row.wrapped]
                             ELSE secrets
               /\ cli' = [cli EXCEPT !.at = "read", !.stale = @ \ {n}]
      <4> HIDE DEF n
      <4>1. /\ DOMAIN secrets' = DOMAIN secrets
            /\ \A k \in DOMAIN secrets : k # n => secrets'[k] = secrets[k]
            /\ n \in DOMAIN secrets => /\ secrets'[n].key = cli.src.current
                                       /\ secrets'[n].wrapped = cli.row.wrapped
                                       /\ secrets'[n].sealed = secrets[n].sealed
                                       /\ DOMAIN secrets'[n] = {"key", "wrapped", "sealed", "host"}
        BY <1>4, <3>3 DEF VaultOK
      <4>2. ASSUME Careful
            PROVE  /\ SecretsOpen'
                   /\ \A k \in DOMAIN secrets' : secrets'[k].key = file.current \/ secrets'[k] = secrets[k]
                   /\ {"at", "src", "stale"} \subseteq DOMAIN cli' /\ cli'.src = file
                   /\ \A k \in DOMAIN secrets' : secrets'[k].key # file.current => k \in cli'.stale
        <5>1. /\ {"at", "src", "stale"} \subseteq DOMAIN cli /\ cli.src = file /\ same
              /\ \A k \in DOMAIN secrets : secrets[k].key # file.current => k \in cli.stale
              /\ SecretsOpen /\ file.current \in file.keys
          BY <1>4, <3>1, <3>3, <4>2 DEF VaultOK, Careful
        <5>2. {"at", "src", "stale"} \subseteq DOMAIN cli' /\ cli'.src = file /\ cli'.stale = cli.stale \ {n}
          BY <3>3, <5>1
        <5>3. SecretsOpen'
          BY <1>1, <4>1, <5>1 DEF SecretsOpen, Opens
        <5> QED BY <4>1, <5>1, <5>2, <5>3
      <4>3. \A k \in DOMAIN secrets' : DOMAIN secrets'[k] = {"key", "wrapped", "sealed", "host"}
        BY <1>4, <4>1 DEF VaultOK
      <4>4. ASSUME Careful
            PROVE  /\ loaded.current \in file.keys
                   /\ cli # NoRotation => loaded = file
                   /\ drained = file.current => /\ loaded.current = file.current
                                                /\ \A k \in DOMAIN secrets' : secrets'[k].key = file.current
        BY <1>4, <4>1, <4>2, <4>4 DEF VaultOK
      <4> HIDE DEF same
      <4> QED BY <1>1, <1>4, <3>1, <4>2, <4>3, <4>4 DEF VaultOK
    <3> QED BY <3>1, <3>2, <3>3
  <2>4. CASE RotateDone
    <3>1. /\ UNCHANGED secrets /\ cli # NoRotation /\ cli.stale = {} /\ cli' = NoRotation
          /\ drained' = cli.src.current
      BY <2>4 DEF RotateDone, NoRotation
    <3>2. CASE Careful
      <4>1. /\ cli.src = file /\ loaded = file
            /\ \A n \in DOMAIN secrets : secrets[n].key = file.current
        BY <1>4, <3>1, <3>2 DEF VaultOK
      <4>2. file.current \in Nat
        BY <1>4, VaultAssumption DEF VaultOK
      <4> QED BY <1>1, <1>4, <3>1, <3>2, <4>1, <4>2 DEF VaultOK, SecretsOpen, Opens
    <3>3. CASE ~Careful
      BY <1>1, <1>4, <3>1, <3>3 DEF VaultOK
    <3> QED BY <3>2, <3>3
  <2>5. CASE RotateDies
    <3>1. UNCHANGED <<secrets, drained>> /\ cli' = NoRotation
      BY <2>5 DEF RotateDies
    <3> QED BY <1>1, <1>4, <3>1 DEF VaultOK, SecretsOpen, Opens
  <2> QED BY <2>1, <2>2, <2>3, <2>4, <2>5
<1> QED BY <1>1, <1>2, <1>3, <1>5, StayCalm, VaultStep

LEMMA KeysOK ==
  ASSUME IInv, NewKey \/ RetireKey, UNCHANGED <<extension, state>>
  PROVE  IInv'
<1>1. /\ UNCHANGED <<tables, scenario, fresh, task, loaded, secrets, cli, drained>>
      /\ cli = NoRotation /\ VaultOK /\ Careful' = Careful
  BY DEF NewKey, RetireKey, IInv, Careful
<1>2. LeftFalls
  BY SpendFalls, OperationKinds DEF NewKey, RetireKey
<1>3. fresh' \in [role : Nat, dek : Nat, job : Nat] /\ fresh'.role = fresh.role
  BY <1>1 DEF IInv, RolesOK
<1>4. VaultOK'
  <2>1. CASE NewKey
    <3>1. PICK k \in Keys : k > file.current /\ file' = [current |-> k, keys |-> file.keys \cup {k}]
      BY <2>1 DEF NewKey
    <3>2. /\ file' \in [current : Keys, keys : SUBSET Keys] /\ file'.current \in file'.keys
          /\ file.keys \subseteq file'.keys /\ file'.current = k
      BY <1>1, <3>1 DEF VaultOK
    <3>3. k \in Nat /\ file.current \in Nat
      BY <1>1, VaultAssumption DEF VaultOK
    <3>4. SecretsOpen => SecretsOpen'
      BY <1>1, <3>2 DEF SecretsOpen, Opens
    <3>5. Careful => drained \in Nat /\ drained <= k /\ drained # k
      BY <1>1, <3>1, <3>3 DEF VaultOK
    <3> QED BY <1>1, <3>2, <3>4, <3>5 DEF VaultOK
  <2>2. CASE RetireKey
    <3>1. PICK k \in file.keys \ {file.current} : file' = [file EXCEPT !.keys = @ \ {k}]
      BY <2>2 DEF RetireKey
    <3>2. /\ file' \in [current : Keys, keys : SUBSET Keys] /\ file'.current \in file'.keys
          /\ file'.current = file.current
      BY <1>1, <3>1 DEF VaultOK
    <3>3. drained = file.current
      BY <2>2 DEF RetireKey
    <3>4. Careful => SecretsOpen'
      BY <1>1, <3>2, <3>3 DEF VaultOK, SecretsOpen, Opens
    <3> QED BY <1>1, <3>2, <3>3, <3>4 DEF VaultOK
  <2> QED BY <2>1, <2>2
<1> QED BY <1>1, <1>2, <1>3, <1>4, StayCalm, VaultStep

(* A restart ends every task of the server, and the next keys are those of the file. *)
LEMMA RestartOK ==
  ASSUME IInv, Restart, UNCHANGED <<extension, state>>
  PROVE  IInv'
<1>1. /\ UNCHANGED <<tables, scenario, fresh, file, secrets, cli, drained>> /\ loaded' = file
      /\ task' = [c \in Clients |-> Idle] /\ Spend("restart")
  BY DEF Restart
<1>2. LeftFalls
  BY <1>1, SpendFalls, OperationKinds
<1>3. fresh' \in [role : Nat, dek : Nat, job : Nat] /\ fresh'.role = fresh.role
  BY <1>1 DEF IInv, RolesOK
<1>4. Calm
  BY <1>1 DEF Calm, Idle, Owning, Removing, Deleting
<1>5. MovedOK
  BY <1>1 DEF MovedOK, TaskOK, Idle
<1>6. VaultOK'
  BY <1>1 DEF IInv, VaultOK, Careful, SecretsOpen, Opens
<1> QED BY <1>1, <1>2, <1>3, <1>4, <1>5, <1>6, VaultStep
--------------------------------------------------------------------------------
(* The environment. *)

LEMMA CronOK ==
  ASSUME IInv, Cron
  PROVE  IInv'
<1>1. /\ UNCHANGED <<roles, grants, members, vouched, scenario, plugins, belongings, task>>
      /\ UNCHANGED <<automations, cursors, log, runs, since, silenced>>
      /\ UNCHANGED <<file, loaded, secrets, cli, drained>>
      /\ fresh' = [fresh EXCEPT !.job = @ + 1] /\ Spend("cron")
  BY DEF Cron, tables, vault, state, history
<1>2. fresh' \in [role : Nat, dek : Nat, job : Nat] /\ fresh'.role = fresh.role
  BY <1>1 DEF IInv, RolesOK
<1> QED BY <1>1, <1>2, StayCalm, SpendFalls, OperationKinds, QuietStep

LEMMA FailOK ==
  ASSUME IInv, Fail
  PROVE  IInv'
<1>1. PICK c \in Clients : End(c)
  BY DEF Fail
<1>2. Still /\ Spend("fail")
  BY DEF Fail, Still, extension
<1> QED BY <1>1, <1>2, EndMoves, SpendFalls, OperationKinds, StillStep

(* What a step that changes automations, cursors, the feed or the runs has to show. *)
LEMMA FeedStep ==
  ASSUME IInv, Calm, MovedOK, LeftFalls, FeedAges, FeedOK', SilencedOK',
         UNCHANGED <<tables, scenario, fresh, vault, plugins, belongings>>
  PROVE  IInv'
<1>1. /\ UNCHANGED <<roles, grants, members, vouched, scenario, fresh, plugins, belongings>>
      /\ UNCHANGED <<file, loaded, secrets, cli, drained>>
  BY DEF tables, vault
<1>2. fresh' \in [role : Nat, dek : Nat, job : Nat] /\ fresh'.role = fresh.role
  BY <1>1 DEF IInv, RolesOK
<1>3. RolesOK' /\ RolesAge
  BY <1>1, <1>2, RolesRest
<1>4. TasksOK'
  BY <1>1, <1>3, TasksCalm DEF Ages, Calm
<1>5. OwnersOK' /\ DeletersOK'
  BY <1>1, OwnersCalm, DeletersCalm
<1>6. PluginsOK' /\ VaultOK'
  BY <1>1, PluginsRest, VaultRests
<1> QED BY <1>3, <1>4, <1>5, <1>6 DEF IInv

(* The feed grows by one entry. *)
LEMMA LogGrows ==
  ASSUME IInv, NEW e \in [actor : Principals, hit : BOOLEAN], log' = Append(log, e),
         UNCHANGED <<automations, cursors, runs, since>>
  PROVE  FeedAges /\ FeedOK'
<1>1. /\ log' \in Seq([actor : Principals, hit : BOOLEAN]) /\ Len(log) \in Nat
      /\ Len(log') = Len(log) + 1 /\ \A i \in 1..Len(log) : log'[i] = log[i]
  BY LogLength
<1>2. \A i \in 0..Len(log) : i \in 0..Len(log')
  BY <1>1
<1>3. FeedAges
  BY <1>1 DEF FeedAges
<1>4. EveryChangeRuns'
  <2> SUFFICES ASSUME NEW a \in DOMAIN automations \cap DOMAIN cursors, NEW i \in since[a] + 1 .. cursors[a],
                      log'[i].hit /\ log'[i].actor # a
               PROVE  <<a, i>> \in runs
    BY DEF EveryChangeRuns
  <2>1. since[a] \in Nat /\ cursors[a] \in 0..Len(log) /\ EveryChangeRuns
    BY DEF IInv, FeedOK
  <2>2. i \in 1..Len(log)
    BY <1>1, <2>1
  <2> QED BY <1>1, <2>1, <2>2 DEF EveryChangeRuns
<1> QED BY <1>1, <1>2, <1>3, <1>4 DEF IInv, FeedOK

LEMMA ChangeOK ==
  ASSUME IInv, Change
  PROVE  IInv'
<1>1. PICK u \in Users, hit \in BOOLEAN : log' = Append(log, [actor |-> u, hit |-> hit])
  BY DEF Change
<1>2. [actor |-> u, hit |-> hit] \in [actor : Principals, hit : BOOLEAN]
  BY DEF Principals
<1>3. /\ UNCHANGED <<automations, cursors, runs, since, silenced, roles, task>>
      /\ UNCHANGED <<tables, scenario, fresh, vault, plugins, belongings>> /\ Spend("change")
  BY DEF Change, tables, extension, history
<1>4. FeedAges /\ FeedOK'
  BY <1>1, <1>2, <1>3, LogGrows
<1>5. Calm /\ MovedOK /\ LeftFalls
  BY <1>3, StayCalm, SpendFalls, OperationKinds
<1>6. SilencedOK'
  BY <1>3, <1>5, SilencedCalm
<1> QED BY <1>3, <1>4, <1>5, <1>6, FeedStep
--------------------------------------------------------------------------------
(* Schedules. *)

LEMMA SyncOK ==
  ASSUME IInv, NEW c \in Clients, BeginSync(c) \/ SyncList(c) \/ SyncClear(c) \/ SyncUpsert(c)
  PROVE  IInv'
<1>1. Still
  BY DEF BeginSync, SyncList, SyncClear, SyncUpsert, Still, extension
<1>2. CASE BeginSync(c)
  <2>1. Spend("sync") /\ task' = [task EXCEPT ![c] = [op |-> "sync", at |-> "list"]]
    BY <1>2 DEF BeginSync
  <2>2. Calm /\ MovedOK
    BY <2>1, Begun, PlainMoves
  <2> QED BY <1>1, <2>1, <2>2, SpendFalls, OperationKinds, StillStep
<1>3. CASE SyncList(c) \/ SyncClear(c) \/ SyncUpsert(c)
  <2>1. UNCHANGED left /\ task[c].op \in {"sync", "delete"} /\ task[c].at \in {"list", "clear", "upsert"}
    BY <1>3 DEF SyncList, SyncClear, SyncUpsert
  <2>2. TaskOK(task[c])
    BY DEF IInv, TasksOK
  <2>3. ASSUME DOMAIN task' = Clients, \A d \in Clients : d # c => task'[d] = task[d],
               DOMAIN task[c] \subseteq DOMAIN task'[c], task'[c].at \in {"list", "clear", "upsert"},
               \A f \in {"op", "id", "before", "alone"} \cap DOMAIN task[c] : task'[c][f] = task[c][f]
        PROVE  IInv'
    <3>1. task'[c].op = task[c].op /\ {"op", "at"} \subseteq DOMAIN task'[c]
      BY <2>2, <2>3 DEF TaskOK
    <3>2. task[c].op = "delete" => DeleteOK(task[c])'
      BY <1>1, <2>1, <2>2, <2>3 DEF TaskOK, DeleteOK
    <3>3. TaskOK(task[c])'
      BY <2>1, <3>1, <3>2 DEF TaskOK
    <3>4. ~Owning(task'[c]) /\ ~Removing(task'[c]) /\ ~Deleting(task'[c]) /\ task'[c].op # "save"
      BY <2>1, <2>3, <3>1 DEF Owning, Removing, Deleting
    <3>5. Calm /\ MovedOK
      BY <2>3, <3>3, <3>4, OneMoves
    <3> QED BY <1>1, <2>1, <3>5, LeftRests, StillStep
  <2>4. ASSUME NEW step \in {"list", "clear", "upsert"}, Goto(c, step) PROVE IInv'
    <3>1. {"op", "id", "before", "alone"} \cap {"at"} = {}
      OBVIOUS
    <3> QED BY <2>3, <2>4, <3>1, Gone DEF IInv
  <2>5. ASSUME NEW step \in {"list", "clear", "upsert"}, NEW todo, Keep(c, step, [todo |-> todo]) PROVE IInv'
    <3>1. DOMAIN [todo |-> todo] = {"todo"} /\ {"op", "id", "before", "alone"} \cap {"at", "todo"} = {}
      OBVIOUS
    <3>2. /\ DOMAIN task' = Clients
          /\ \A d \in Clients : d # c => task'[d] = task[d]
          /\ DOMAIN task'[c] = DOMAIN task[c] \cup DOMAIN [todo |-> todo] \cup {"at"} /\ task'[c].at = step
          /\ \A f \in DOMAIN task[c] : f \notin DOMAIN [todo |-> todo] \cup {"at"} => task'[c][f] = task[c][f]
      BY <2>5, Kept DEF IInv
    <3> QED BY <2>3, <3>1, <3>2
  <2> QED BY <1>1, <1>3, <2>1, <2>4, <2>5, StillEnd DEF SyncList, SyncClear, SyncUpsert
<1> QED BY <1>2, <1>3
--------------------------------------------------------------------------------
(* Passes over the feed. *)

\* A pass that goes on, as a task of the next state.
PassOn(c) ==
  /\ DOMAIN task' = Clients /\ \A d \in Clients : d # c => task'[d] = task[d]
  /\ {"op", "at"} \subseteq DOMAIN task'[c] /\ task'[c].op = "pass" /\ PassOK(task[c])'

LEMMA PassMoves ==
  ASSUME NEW c \in Clients, PassOn(c)
  PROVE  Calm /\ MovedOK
<1>1. TaskOK(task[c])'
  BY DEF PassOn, TaskOK
<1>2. ~Owning(task'[c]) /\ ~Removing(task'[c]) /\ ~Deleting(task'[c]) /\ task'[c].op # "save"
  BY DEF PassOn, Owning, Removing, Deleting
<1> QED BY <1>1, <1>2, OneMoves DEF PassOn

LEMMA PassTask ==
  ASSUME IInv, NEW c \in Clients, task[c].op = "pass"
  PROVE  {"op", "at"} \subseteq DOMAIN task[c] /\ PassOK(task[c])
  BY DEF IInv, TasksOK, TaskOK

(* The steps of a firing leave the fields PassOK is about alone. *)
LEMMA GotoPasses ==
  ASSUME IInv, FeedAges, NEW c \in Clients, task[c].op = "pass", NEW step, Goto(c, step),
         task[c].at = "cursor" => step = "cursor",
         task[c].at = "read" => step \in {"cursor", "read"},
         task[c].at = "next" => step \in {"cursor", "next"} \/ task[c].from + 1 <= task[c].upto,
         step = "advance" => (log'[task[c].from + 1].hit /\ log'[task[c].from + 1].actor # task[c].id
                              => <<task[c].id, task[c].from + 1>> \in runs')
  PROVE  PassOn(c)
<1>1. {"op", "at"} \subseteq DOMAIN task[c] /\ PassOK(task[c])
  BY PassTask
<1>2. /\ DOMAIN task' = Clients
      /\ \A d \in Clients : d # c => task'[d] = task[d]
      /\ DOMAIN task'[c] = DOMAIN task[c] /\ task'[c].at = step /\ task'[c].op = "pass"
      /\ \A f \in DOMAIN task[c] : f # "at" => task'[c][f] = task[c][f]
  BY Gone DEF IInv
<1>3. \A i \in 0..Len(log) : i \in 0..Len(log')
  BY LogLength DEF FeedAges
<1>4. task'[c].todo = task[c].todo /\ ("id" \in DOMAIN task[c] => task'[c].id = task[c].id)
      /\ ("from" \in DOMAIN task[c] => task'[c].from = task[c].from)
      /\ ("upto" \in DOMAIN task[c] => task'[c].upto = task[c].upto)
  BY <1>1, <1>2 DEF PassOK
<1>5. PassOK(task[c])'
  BY <1>1, <1>2, <1>3, <1>4 DEF PassOK
<1> QED BY <1>1, <1>2, <1>5 DEF PassOn

LEMMA KeepPasses ==
  ASSUME IInv, FeedAges, NEW c \in Clients, task[c].op = "pass", NEW step, NEW what, Keep(c, step, what),
         DOMAIN what \cap {"op", "at", "todo", "defs", "id", "from", "upto"} = {},
         task[c].at \notin {"cursor", "read", "next"}, step # "advance"
  PROVE  PassOn(c)
<1>1. {"op", "at"} \subseteq DOMAIN task[c] /\ PassOK(task[c])
  BY PassTask
<1>2. /\ DOMAIN task' = Clients
      /\ \A d \in Clients : d # c => task'[d] = task[d]
      /\ DOMAIN task[c] \subseteq DOMAIN task'[c] /\ task'[c].at = step
      /\ \A f \in DOMAIN task[c] : f \notin DOMAIN what \cup {"at"} => task'[c][f] = task[c][f]
  BY Kept DEF IInv
<1>3. \A i \in 0..Len(log) : i \in 0..Len(log')
  BY LogLength DEF FeedAges
<1>4. task'[c].op = "pass" /\ task'[c].todo = task[c].todo /\ task'[c].id = task[c].id
      /\ task'[c].from = task[c].from /\ task'[c].upto = task[c].upto
  BY <1>1, <1>2 DEF PassOK
<1>5. PassOK(task[c])'
  BY <1>1, <1>2, <1>3, <1>4 DEF PassOK
<1> QED BY <1>1, <1>2, <1>4, <1>5 DEF PassOn

LEMMA BeginPassOK ==
  ASSUME IInv, NEW c \in Clients, BeginPass(c)
  PROVE  IInv'
<1> DEFINE listed == {a \in DOMAIN automations :
                        automations[a].enabled /\ automations[a].trigger = "object"}
<1>1. /\ Spend("pass") /\ Still
      /\ task' = [task EXCEPT ![c] = [op |-> "pass", at |-> "cursor", todo |-> listed,
                                      defs |-> Restrict(automations, listed)]]
  BY DEF BeginPass, Still, extension
<1>2. listed \subseteq Automations
  BY DEF IInv, FeedOK
<1> HIDE DEF listed
<1>3. PassOn(c)
  BY <1>1, <1>2, Begun DEF PassOn, PassOK
<1> QED BY <1>1, <1>3, PassMoves, SpendFalls, OperationKinds, StillStep

(* A new cursor stands at the end of the feed; the automation has none then, so it is not
   there. *)
LEMMA ReadCursorOK ==
  ASSUME IInv, NEW c \in Clients, ReadCursor(c)
  PROVE  IInv'
<1>1. /\ UNCHANGED <<tables, scenario, fresh, left, vault, extension, automations, log, runs, since, silenced>>
      /\ UNCHANGED <<roles, plugins, belongings>>
      /\ task[c].op = "pass" /\ task[c].at = "cursor"
  BY DEF ReadCursor, history, tables, extension, Pass, At
<1>2. CASE End(c) /\ UNCHANGED cursors
  <2>1. FeedAges /\ FeedOK' /\ LeftFalls
    BY <1>1, <1>2, FeedRestsAges, FeedRests, LeftRests
  <2>2. SilencedOK'
    BY <1>1, <1>2, EndMoves, SilencedCalm
  <2> QED BY <1>1, <1>2, <2>1, <2>2, EndMoves, FeedStep
<1>3. CASE \E a \in task[c].todo :
             /\ cursors' = Amend(Row(a, Len(log)), cursors)
             /\ Keep(c, "read", [id |-> a, def |-> task[c].defs[a], todo |-> task[c].todo \ {a},
                                 from |-> cursors'[a]])
  <2>1. PICK a \in task[c].todo :
             /\ cursors' = Amend(Row(a, Len(log)), cursors)
             /\ Keep(c, "read", [id |-> a, def |-> task[c].defs[a], todo |-> task[c].todo \ {a},
                                 from |-> cursors'[a]])
    BY <1>3
  <2>2. {"op", "at"} \subseteq DOMAIN task[c] /\ PassOK(task[c]) /\ a \in Automations
    BY <1>1, PassTask DEF PassOK
  <2>3. /\ DOMAIN cursors' = DOMAIN cursors \cup {a} /\ \A b \in DOMAIN cursors : cursors'[b] = cursors[b]
        /\ a \notin DOMAIN cursors => cursors'[a] = Len(log)
    BY <2>1 DEF Amend, Row
  <2>4. \A b \in DOMAIN cursors' : cursors'[b] \in 0..Len(log)
    BY <2>3, LogLength DEF IInv, FeedOK
  <2>5. FeedAges /\ LeftFalls
    BY <1>1, FeedRestsAges, LeftRests
  <2>6. FeedOK'
    BY <1>1, <2>3, <2>4 DEF IInv, FeedOK, EveryChangeRuns
  <2> DEFINE what == [id |-> a, def |-> task[c].defs[a], todo |-> task[c].todo \ {a}, from |-> cursors'[a]]
  <2>7. /\ DOMAIN what = {"id", "def", "todo", "from"} /\ what.id = a
        /\ what.todo \subseteq Automations /\ what.from \in 0..Len(log')
    BY <1>1, <2>2, <2>3, <2>4 DEF PassOK
  <2>8. Keep(c, "read", what)
    BY <2>1
  <2> HIDE DEF what
  <2>9. /\ DOMAIN task' = Clients
        /\ \A d \in Clients : d # c => task'[d] = task[d]
        /\ DOMAIN task'[c] = DOMAIN task[c] \cup DOMAIN what \cup {"at"} /\ task'[c].at = "read"
        /\ \A f \in DOMAIN what : f # "at" => task'[c][f] = what[f]
        /\ \A f \in DOMAIN task[c] : f \notin DOMAIN what \cup {"at"} => task'[c][f] = task[c][f]
    BY <2>8, Kept DEF IInv
  <2>10. task'[c].op = "pass" /\ task'[c].id = a /\ task'[c].todo = what.todo /\ task'[c].from = what.from
    BY <1>1, <2>2, <2>7, <2>9
  <2>11. PassOK(task[c])'
    BY <2>2, <2>7, <2>9, <2>10 DEF PassOK
  <2>12. Calm /\ MovedOK
    BY <2>2, <2>9, <2>10, <2>11, PassMoves DEF PassOn
  <2>13. SilencedOK'
    BY <1>1, <2>12, SilencedCalm
  <2> QED BY <1>1, <2>5, <2>6, <2>12, <2>13, FeedStep
<1> QED BY <1>2, <1>3 DEF ReadCursor

LEMMA ReadFeedOK ==
  ASSUME IInv, NEW c \in Clients, ReadFeed(c)
  PROVE  IInv'
<1> DEFINE upto == Min({Len(log), task[c].from + FeedBatch})
<1>1. /\ task[c].op = "pass" /\ task[c].at = "read" /\ Still /\ UNCHANGED left
      /\ Keep(c, "next", [upto |-> upto])
  BY DEF ReadFeed, Pass, At, Still, extension
<1>2. {"op", "at"} \subseteq DOMAIN task[c] /\ PassOK(task[c])
  BY <1>1, PassTask
<1>3. upto \in 0..Len(log)
  <2>1. Len(log) \in Nat /\ task[c].from \in Nat /\ FeedBatch \in Nat
    BY <1>1, <1>2, LogLength, AutomationsAssumption DEF PassOK
  <2> DEFINE a == Len(log)
             b == task[c].from + FeedBatch
             Least(x) == x \in {a, b} /\ \A y \in {a, b} : x <= y
  <2>2. a \in Nat /\ b \in Nat
    BY <2>1
  <2> HIDE DEF a, b
  <2>3. \E x : Least(x)
    BY <2>2
  <2>4. upto = CHOOSE x : Least(x)
    BY DEF Min, a, b
  <2>5. Least(upto)
    BY <2>3, <2>4
  <2> QED BY <2>2, <2>5 DEF a
<1> HIDE DEF upto
<1>4. UNCHANGED log
  BY <1>1 DEF Still, state
<1>5. DOMAIN [upto |-> upto] = {"upto"} /\ [upto |-> upto].upto = upto
  OBVIOUS
<1>6. /\ DOMAIN task' = Clients
      /\ \A d \in Clients : d # c => task'[d] = task[d]
      /\ DOMAIN task'[c] = DOMAIN task[c] \cup {"upto", "at"} /\ task'[c].at = "next"
      /\ task'[c].upto = upto
      /\ \A f \in DOMAIN task[c] : f \notin {"upto", "at"} => task'[c][f] = task[c][f]
  BY <1>1, <1>5, Kept DEF IInv
<1>7. PassOK(task[c])'
  BY <1>1, <1>2, <1>3, <1>4, <1>6 DEF PassOK
<1>8. PassOn(c)
  BY <1>1, <1>2, <1>6, <1>7 DEF PassOn
<1> QED BY <1>1, <1>8, PassMoves, LeftRests, StillStep

LEMMA NextEntryOK ==
  ASSUME IInv, NEW c \in Clients, NextEntry(c)
  PROVE  IInv'
<1> DEFINE i == task[c].from + 1
<1>1. /\ task[c].op = "pass" /\ task[c].at = "next" /\ Still /\ UNCHANGED left
      /\ \/ Goto(c, "cursor")
         \/ ~(i > task[c].upto) /\ Goto(c, "get")
         \/ ~(i > task[c].upto) /\ ~(log[i].hit /\ log[i].actor # task[c].id) /\ Goto(c, "advance")
  BY DEF NextEntry, Pass, At, Still, extension
<1>2. PassOK(task[c]) /\ UNCHANGED <<log, runs>> /\ FeedAges
  BY <1>1, PassTask, FeedRestsAges DEF Still, state, history
<1>3. ~(i > task[c].upto) => task[c].from + 1 <= task[c].upto
  BY <1>1, <1>2, LogLength DEF PassOK
<1>4. PassOn(c)
  BY <1>1, <1>2, <1>3, GotoPasses
<1> QED BY <1>1, <1>4, PassMoves, LeftRests, StillStep

(* The steps of a firing that write nothing. *)
LEMMA FiringOK ==
  ASSUME IInv, NEW c \in Clients, Get(c) \/ UpdateAuthorize(c)
  PROVE  IInv'
<1>1. task[c].op = "pass" /\ task[c].at \in {"get", "auth"} /\ Still /\ UNCHANGED left
  BY DEF Get, UpdateAuthorize, Pass, At, Still, extension
<1>2. FeedAges
  BY <1>1, FeedRestsAges DEF Still, state, history
<1>3. \/ \E step \in {"record", "write"} : Goto(c, step)
      \/ Keep(c, "act", [seen |-> record, i |-> 1])
  BY DEF Get, UpdateAuthorize
<1>4. DOMAIN [seen |-> record, i |-> 1] \cap {"op", "at", "todo", "defs", "id", "from", "upto"} = {}
  OBVIOUS
<1>5. CASE \E step \in {"record", "write"} : Goto(c, step)
  BY <1>1, <1>2, <1>5, GotoPasses, PassMoves, LeftRests, StillStep
<1>6. CASE Keep(c, "act", [seen |-> record, i |-> 1])
  BY <1>1, <1>2, <1>4, <1>6, KeepPasses, PassMoves, LeftRests, StillStep
<1> QED BY <1>3, <1>5, <1>6

LEMMA ActOK ==
  ASSUME IInv, NEW c \in Clients, Act(c)
  PROVE  IInv'
<1>1. /\ UNCHANGED <<roles, grants, members, vouched, scenario, plugins, belongings, left>>
      /\ UNCHANGED <<automations, cursors, log, runs, since, silenced>>
      /\ UNCHANGED <<file, loaded, secrets, cli, drained>>
      /\ task[c].at = "act"
      /\ fresh' = fresh \/ fresh' = [fresh EXCEPT !.job = @ + 1]
      /\ \/ \E step \in {"record", "auth"} : Goto(c, step)
         \/ Keep(c, "act", [i |-> task[c].i + 1])
  BY DEF Act, tables, vault, state, history
<1>2. fresh' \in [role : Nat, dek : Nat, job : Nat] /\ fresh'.role = fresh.role
  BY <1>1 DEF IInv, RolesOK
<1>3. TaskOK(task[c]) /\ FeedAges
  BY <1>1, FeedRestsAges DEF IInv, TasksOK
<1>4. task[c].op \notin {"install", "save", "delete", "uninstall"} /\ {"op", "at"} \subseteq DOMAIN task[c]
  BY <1>1, <1>3 DEF TaskOK, ApprovalOK, DeleteOK, UninstallOK
<1>5. Calm /\ MovedOK
  <2>1. DOMAIN [i |-> task[c].i + 1] \cap {"op", "at", "todo", "defs", "id", "from", "upto"} = {}
    OBVIOUS
  <2>2. CASE task[c].op = "pass"
    BY <1>1, <1>3, <2>1, <2>2, GotoPasses, KeepPasses, PassMoves
  <2>3. CASE task[c].op # "pass"
    <3>1. CASE \E step \in {"record", "auth"} : Goto(c, step)
      BY <1>4, <2>3, <3>1, Gone, PlainMoves DEF IInv
    <3>2. CASE Keep(c, "act", [i |-> task[c].i + 1])
      <4>1. /\ DOMAIN task' = Clients
            /\ \A d \in Clients : d # c => task'[d] = task[d]
            /\ {"op", "at"} \subseteq DOMAIN task'[c] /\ task'[c].op = task[c].op
        BY <1>4, <2>1, <3>2, Kept DEF IInv
      <4> QED BY <1>4, <2>3, <4>1, PlainMoves
    <3> QED BY <1>1, <3>1, <3>2
  <2> QED BY <2>2, <2>3
<1> QED BY <1>1, <1>2, <1>5, LeftRests, QuietStep

LEMMA UpdateWriteOK ==
  ASSUME IInv, NEW c \in Clients, UpdateWrite(c)
  PROVE  IInv'
<1>1. /\ task[c].op = "pass" /\ task[c].at = "write"
      /\ UNCHANGED <<tables, scenario, fresh, left, vault, extension, automations, cursors, runs, since, silenced>>
      /\ UNCHANGED <<roles, plugins, belongings>>
  BY DEF UpdateWrite, Pass, At, history, tables, extension
<1>2. PassOK(task[c])
  BY <1>1, PassTask
<1>3. CASE Goto(c, "record") /\ UNCHANGED log
  <2>1. FeedAges /\ FeedOK'
    BY <1>1, <1>3, FeedRestsAges, FeedRests
  <2>2. Calm /\ MovedOK
    BY <1>1, <1>3, <2>1, GotoPasses, PassMoves
  <2> QED BY <1>1, <2>1, <2>2, LeftRests, SilencedCalm, FeedStep
<1>4. CASE /\ log' = Append(log, [actor |-> task[c].id, hit |-> TRUE])
           /\ Keep(c, "act", [i |-> task[c].i + 1])
  <2>1. [actor |-> task[c].id, hit |-> TRUE] \in [actor : Principals, hit : BOOLEAN]
    BY <1>1, <1>2 DEF PassOK, Principals, Extensions
  <2>2. FeedAges /\ FeedOK'
    BY <1>1, <1>4, <2>1, LogGrows
  <2>3. DOMAIN [i |-> task[c].i + 1] \cap {"op", "at", "todo", "defs", "id", "from", "upto"} = {}
    OBVIOUS
  <2>4. Calm /\ MovedOK
    BY <1>1, <1>4, <2>2, <2>3, KeepPasses, PassMoves
  <2> QED BY <1>1, <2>2, <2>4, LeftRests, SilencedCalm, FeedStep
<1> QED BY <1>3, <1>4 DEF UpdateWrite

LEMMA RecordRunOK ==
  ASSUME IInv, NEW c \in Clients, RecordRun(c)
  PROVE  IInv'
<1>1. /\ task[c].at = "record"
      /\ UNCHANGED <<tables, scenario, fresh, left, vault, extension, automations, cursors, log, since, silenced>>
      /\ UNCHANGED <<roles, plugins, belongings>>
      /\ runs' = IF task[c].op = "pass" THEN runs \cup {<<task[c].id, task[c].from + 1>>} ELSE runs
      /\ IF task[c].op = "pass" THEN Goto(c, "advance") ELSE End(c)
  BY DEF RecordRun, history, tables, extension
<1>2. FeedAges
  BY <1>1, LogLength DEF FeedAges
<1>3. FeedOK'
  <2>1. runs \subseteq runs'
    BY <1>1
  <2> QED BY <1>1, <2>1 DEF IInv, FeedOK, EveryChangeRuns
<1>4. Calm /\ MovedOK
  BY <1>1, <1>2, GotoPasses, PassMoves, EndMoves
<1> QED BY <1>1, <1>2, <1>3, <1>4, LeftRests, SilencedCalm, FeedStep

(* The cursor moves by one entry, which has been dealt with. *)
LEMMA AdvanceCursorOK ==
  ASSUME IInv, NEW c \in Clients, AdvanceCursor(c)
  PROVE  IInv'
<1>1. /\ task[c].op = "pass" /\ task[c].at = "advance"
      /\ UNCHANGED <<tables, scenario, fresh, left, vault, extension, automations, log, runs, since, silenced>>
      /\ UNCHANGED <<roles, plugins, belongings>>
      /\ cursors' = [a \in DOMAIN cursors |->
                      IF a = task[c].id /\ cursors[a] = task[c].from THEN task[c].from + 1 ELSE cursors[a]]
      /\ Keep(c, "next", [from |-> task[c].from + 1])
  BY DEF AdvanceCursor, Pass, At, history, tables, extension
<1>2. {"op", "at"} \subseteq DOMAIN task[c] /\ PassOK(task[c])
  BY <1>1, PassTask
<1>3. FeedAges /\ LeftFalls
  BY <1>1, FeedRestsAges, LeftRests
<1>4. PICK from : from = task[c].from
  OBVIOUS
<1>5. from \in Nat /\ from + 1 \in 0..Len(log) /\ task[c].id \in Automations
      /\ (log[from + 1].hit /\ log[from + 1].actor # task[c].id => <<task[c].id, from + 1>> \in runs)
  BY <1>1, <1>2, <1>4, LogLength DEF PassOK
<1>6. FeedOK'
  <2>1. \A a \in DOMAIN cursors' : cursors'[a] \in 0..Len(log)
    BY <1>1, <1>4, <1>5 DEF IInv, FeedOK
  <2>2. EveryChangeRuns'
    <3> SUFFICES ASSUME NEW a \in DOMAIN automations \cap DOMAIN cursors, NEW i \in since[a] + 1 .. cursors'[a],
                        log[i].hit /\ log[i].actor # a
                 PROVE  <<a, i>> \in runs
      BY <1>1 DEF EveryChangeRuns
    <3>1. since[a] \in Nat /\ cursors[a] \in Nat /\ EveryChangeRuns
      BY LogLength DEF IInv, FeedOK
    <3>2. CASE i \in since[a] + 1 .. cursors[a]
      BY <3>1, <3>2 DEF EveryChangeRuns
    <3>3. CASE a = task[c].id /\ i = from + 1
      BY <1>5, <3>3
    <3>4. \/ cursors'[a] = cursors[a]
          \/ a = task[c].id /\ cursors[a] = from /\ cursors'[a] = from + 1
      BY <1>1, <1>4
    <3> QED BY <1>5, <3>1, <3>2, <3>3, <3>4
  <2> QED BY <1>1, <2>1, <2>2 DEF IInv, FeedOK
<1>7. PassOn(c)
  <2>1. DOMAIN [from |-> from + 1] = {"from"} /\ [from |-> from + 1].from = from + 1
    OBVIOUS
  <2>2. /\ DOMAIN task' = Clients
        /\ \A d \in Clients : d # c => task'[d] = task[d]
        /\ DOMAIN task'[c] = DOMAIN task[c] \cup {"from", "at"} /\ task'[c].at = "next"
        /\ task'[c].from = from + 1
        /\ \A f \in DOMAIN task[c] : f \notin {"from", "at"} => task'[c][f] = task[c][f]
    BY <1>1, <1>4, <2>1, Kept DEF IInv
  <2>3. PassOK(task[c])'
    BY <1>1, <1>2, <1>5, <2>2 DEF PassOK
  <2> QED BY <1>1, <1>2, <2>2, <2>3 DEF PassOn
<1> QED BY <1>1, <1>3, <1>6, <1>7, PassMoves, SilencedCalm, FeedStep
--------------------------------------------------------------------------------
(* Approvals: the steps of installing and saving that leave the roles alone. *)

LEMMA ApprovalTask ==
  ASSUME IInv, NEW c \in Clients, task[c].op \in {"install", "save"}
  PROVE  {"op", "at"} \subseteq DOMAIN task[c] /\ ApprovalOK(task[c])
  BY DEF IInv, TasksOK, TaskOK

LEMMA ApprovalMoves ==
  ASSUME NEW c \in Clients, DOMAIN task' = Clients, \A d \in Clients : d # c => task'[d] = task[d],
         {"op", "at"} \subseteq DOMAIN task'[c],
         task'[c].op \in {"install", "save"}, ApprovalOK(task[c])', ~Owning(task'[c]),
         task'[c].op = "save" => task[c].op = "save" /\ task'[c].id = task[c].id
  PROVE  Calm /\ MovedOK
<1>1. TaskOK(task[c])'
  BY DEF TaskOK
<1>2. ~Removing(task'[c]) /\ ~Deleting(task'[c])
  BY DEF Removing, Deleting
<1> QED BY <1>1, <1>2, OneMoves

LEMMA ApprovalGoto ==
  ASSUME IInv, NEW c \in Clients, task[c].op \in {"install", "save"}, NEW step, Goto(c, step),
         step \notin {"act", "record", "revoke", "grant", "commit", "check"},
         step \in {"overlay", "absent", "lookup", "create"} => task[c].perms \subseteq task[c].held
  PROVE  Calm /\ MovedOK
<1>1. {"op", "at"} \subseteq DOMAIN task[c] /\ ApprovalOK(task[c])
  BY ApprovalTask
<1>2. /\ DOMAIN task' = Clients
      /\ \A d \in Clients : d # c => task'[d] = task[d]
      /\ DOMAIN task'[c] = DOMAIN task[c] /\ task'[c].at = step /\ task'[c].op = task[c].op
      /\ \A f \in DOMAIN task[c] : f # "at" => task'[c][f] = task[c][f]
  BY Gone DEF IInv
<1>3. \A f \in {"id", "by", "perms", "todo", "missing", "held", "role"} : task'[c][f] = task[c][f]
  BY <1>1, <1>2 DEF ApprovalOK
<1>4. /\ "manifest" \in DOMAIN task[c] => task'[c].manifest = task[c].manifest
      /\ "def" \in DOMAIN task[c] => task'[c].def = task[c].def
  BY <1>2
<1>5. ApprovalOK(task[c])'
  BY <1>1, <1>2, <1>3, <1>4 DEF ApprovalOK
<1>6. ~Owning(task'[c])
  BY <1>2 DEF Owning
<1> QED BY <1>1, <1>2, <1>3, <1>5, <1>6, ApprovalMoves

(* What a person is said to hold, the person holds: the role is there. *)
LEMMA CanHolds ==
  ASSUME IInv, NEW u \in Users, NEW perm \in Perms, Can(u, perm)
  PROVE  Holds(u, perm)
<1>1. PICK g \in grants : <<u, g.role>> \in members /\ g.perm = perm /\ g.cond = None
  BY DEF Can
<1>2. PeopleOK /\ grants \subseteq [role : 1..fresh.role, perm : Perms, cond : Conditions]
  BY DEF IInv, RolesOK, AuthzTypeOK
<1>3. g.role \in {1, 2}
  <2>1. \A m \in members : m[1] \in Users => m[2] \in {1, 2}
    BY <1>2 DEF PeopleOK
  <2>2. <<u, g.role>>[1] = u /\ <<u, g.role>>[2] = g.role
    OBVIOUS
  <2> QED BY <1>1, <2>1, <2>2
<1>4. g = [role |-> g.role, perm |-> perm, cond |-> None]
  BY <1>1, <1>2
<1> QED BY <1>1, <1>2, <1>3, <1>4 DEF Holds, PeopleOK

LEMMA CheckApproverMoves ==
  ASSUME IInv, NEW c \in Clients, NEW next \in {"overlay", "lookup"},
         task[c].op \in {"install", "save"}, CheckApprover(c, next)
  PROVE  Calm /\ MovedOK
<1>1. /\ {"op", "at"} \subseteq DOMAIN task[c] /\ ApprovalOK(task[c]) /\ task[c].at = "check"
      /\ task[c].missing \/ task[c].perms \subseteq task[c].held \cup task[c].todo
  BY ApprovalTask DEF CheckApprover, ApprovalOK
<1>2. CASE task[c].todo = {} /\ task[c].missing
  BY <1>2, EndMoves DEF CheckApprover
<1>3. CASE task[c].todo = {} /\ ~task[c].missing
  <2>1. Goto(c, next)
    BY <1>3 DEF CheckApprover
  <2>2. task[c].perms \subseteq task[c].held
    BY <1>1, <1>3
  <2> QED BY <2>1, <2>2, ApprovalGoto
<1>4. CASE task[c].todo # {}
  <2> DEFINE t == task[c]
  <2>1. PICK perm \in t.todo :
          Keep(c, "check",
               [todo |-> t.todo \ {perm}, missing |-> t.missing \/ ~Can(t.by, perm),
                held |-> IF Holds(t.by, perm) THEN t.held \cup {perm} ELSE t.held])
    BY <1>4 DEF CheckApprover
  <2> DEFINE miss == t.missing \/ ~Can(t.by, perm)
             hold == IF Holds(t.by, perm) THEN t.held \cup {perm} ELSE t.held
             what == [todo |-> t.todo \ {perm}, missing |-> miss, held |-> hold]
  <2>2. /\ DOMAIN what = {"todo", "missing", "held"}
        /\ what.todo = t.todo \ {perm} /\ what.missing = miss /\ what.held = hold
    OBVIOUS
  <2>3. t.by \in Users /\ t.held \subseteq Perms /\ t.missing \in BOOLEAN /\ t.perms \subseteq Perms
    BY <1>1 DEF ApprovalOK
  <2>4. miss \in BOOLEAN
    BY <2>3 DEF Can
  <2>5. miss \/ t.perms \subseteq hold \cup (t.todo \ {perm})
    <3>1. CASE perm \in t.perms
      BY <1>1, <2>3, <3>1, CanHolds
    <3>2. CASE perm \notin t.perms
      BY <1>1, <3>2
    <3> QED BY <3>1, <3>2
  <2>6. Keep(c, "check", what)
    BY <2>1
  <2>7. /\ DOMAIN task' = Clients
        /\ \A d \in Clients : d # c => task'[d] = task[d]
        /\ DOMAIN task'[c] = DOMAIN task[c] \cup DOMAIN what \cup {"at"} /\ task'[c].at = "check"
        /\ \A f \in DOMAIN what : f # "at" => task'[c][f] = what[f]
        /\ \A f \in DOMAIN task[c] : f \notin DOMAIN what \cup {"at"} => task'[c][f] = task[c][f]
    BY <2>6, Kept DEF IInv
  <2> HIDE DEF what, miss
  <2>8. /\ task'[c].missing = miss /\ task'[c].held = hold /\ task'[c].todo = t.todo \ {perm}
        /\ task'[c].op = task[c].op
        /\ \A f \in {"id", "by", "perms", "role"} : task'[c][f] = task[c][f]
        /\ "manifest" \in DOMAIN task[c] => task'[c].manifest = task[c].manifest
        /\ "def" \in DOMAIN task[c] => task'[c].def = task[c].def
    BY <1>1, <2>2, <2>7, SMTT(40) DEF ApprovalOK
  <2>9. hold \subseteq Perms
    <3>1. ASSUME Holds(t.by, perm) PROVE perm \in Perms
      <4>1. PICK r \in DOMAIN roles : [role |-> r, perm |-> perm, cond |-> None] \in grants
        BY <3>1 DEF Holds
      <4>2. grants \subseteq [role : 1..fresh.role, perm : Perms, cond : Conditions]
        BY DEF IInv, RolesOK, AuthzTypeOK
      <4> QED BY <4>1, <4>2
    <3> QED BY <2>3, <3>1
  <2> HIDE DEF hold
  <2>10. ApprovalOK(task[c])'
    BY <1>1, <2>3, <2>4, <2>5, <2>7, <2>8, <2>9 DEF ApprovalOK
  <2>11. ~Owning(task'[c])
    BY <2>7 DEF Owning
  <2> QED BY <1>1, <2>7, <2>8, <2>10, <2>11, ApprovalMoves
<1> QED BY <1>1, <1>2, <1>3, <1>4 DEF ApprovalOK

LEMMA ChecksOK ==
  ASSUME IInv, NEW c \in Clients, \/ SaveCheck(c)
                                  \/ InstallCheck(c) /\ UNCHANGED state
  PROVE  IInv'
<1>1. Still /\ UNCHANGED left
  BY DEF SaveCheck, InstallCheck, CheckApprover, Still, extension
<1>2. Calm /\ MovedOK
  BY CheckApproverMoves DEF SaveCheck, InstallCheck
<1> QED BY <1>1, <1>2, LeftRests, StillStep

LEMMA InstallChecksOK ==
  ASSUME IInv, NEW c \in Clients, InstallCheckOverlay(c) \/ InstallCheckAbsent(c), UNCHANGED state
  PROVE  IInv'
<1>1. Still /\ UNCHANGED left /\ task[c].op = "install" /\ task[c].at \in {"overlay", "absent"}
  BY DEF InstallCheckOverlay, InstallCheckAbsent, Still, extension, At
<1>2. task[c].perms \subseteq task[c].held
  BY <1>1, ApprovalTask DEF ApprovalOK
<1>3. End(c) \/ \E step \in {"absent", "create"} : Goto(c, step)
  BY DEF InstallCheckOverlay, InstallCheckAbsent
<1>4. Calm /\ MovedOK
  BY <1>1, <1>2, <1>3, EndMoves, ApprovalGoto
<1> QED BY <1>1, <1>4, LeftRests, StillStep

LEMMA InstallSchedulesOK ==
  ASSUME IInv, NEW c \in Clients, InstallUnschedule(c) \/ InstallSchedule(c), UNCHANGED state
  PROVE  IInv'
<1>1. Still /\ UNCHANGED left /\ task[c].op = "install"
  BY DEF InstallUnschedule, InstallSchedule, Still, At
<1>2. End(c) \/ Goto(c, "schedule")
  BY DEF InstallUnschedule, InstallSchedule
<1>3. Calm /\ MovedOK
  BY <1>1, <1>2, EndMoves, ApprovalGoto
<1> QED BY <1>1, <1>3, LeftRests, StillStep

LEMMA BeginInstallOK ==
  ASSUME IInv, NEW c \in Clients, BeginInstall(c), UNCHANGED state
  PROVE  IInv'
<1>1. PICK u \in Users, x \in Plugins, m \in Manifests :
        /\ Spend("install")
        /\ task' = [task EXCEPT ![c] = [Approval("install", x, u, m.perms, [manifest |-> m])
                                        EXCEPT !.todo = Approved(m)]]
  BY DEF BeginInstall
<1> DEFINE t == [Approval("install", x, u, m.perms, [manifest |-> m]) EXCEPT !.todo = Approved(m)]
<1>2. /\ DOMAIN t = {"manifest", "op", "at", "id", "by", "perms", "todo", "missing", "held", "role"}
      /\ t.manifest = m /\ t.op = "install" /\ t.at = "check" /\ t.id = x /\ t.by = u
      /\ t.perms = m.perms /\ t.todo = Approved(m) /\ t.missing = FALSE /\ t.held = {} /\ t.role = 0
  BY DEF Approval, Amend
<1>3. m.perms \subseteq Perms /\ m.perms \subseteq Approved(m)
  BY ManifestAssumption DEF Approved
<1> HIDE DEF t
<1>4. task'[c] = t /\ DOMAIN task' = Clients /\ \A d \in Clients : d # c => task'[d] = task[d]
  BY <1>1, Begun DEF t
<1>5. ApprovalOK(task[c])'
  BY <1>2, <1>3, <1>4 DEF ApprovalOK
<1>6. Calm /\ MovedOK
  BY <1>2, <1>4, <1>5, ApprovalMoves DEF Owning
<1>7. Still
  BY DEF BeginInstall, Still, extension
<1> QED BY <1>1, <1>6, <1>7, SpendFalls, OperationKinds, StillStep

LEMMA SaveLookupOK ==
  ASSUME IInv, NEW c \in Clients, LookupRole(c, "save", "create")
  PROVE  IInv'
<1>1. Still /\ UNCHANGED left /\ task[c].op = "save" /\ task[c].at = "lookup"
  BY DEF LookupRole, Still, extension, At
<1>2. {"op", "at"} \subseteq DOMAIN task[c] /\ ApprovalOK(task[c]) /\ task[c].perms \subseteq task[c].held
  BY <1>1, ApprovalTask DEF ApprovalOK
<1>3. CASE Goto(c, "create")
  BY <1>1, <1>2, <1>3, ApprovalGoto, LeftRests, StillStep
<1>4. ASSUME NEW r \in RoleByName(task[c].id), Keep(c, "revoke", [role |-> r]) PROVE IInv'
  <2>1. DOMAIN [role |-> r] = {"role"} /\ [role |-> r].role = r
    OBVIOUS
  <2>2. /\ DOMAIN task' = Clients
        /\ \A d \in Clients : d # c => task'[d] = task[d]
        /\ DOMAIN task'[c] = DOMAIN task[c] \cup {"role", "at"} /\ task'[c].at = "revoke"
        /\ task'[c].role = r
        /\ \A f \in DOMAIN task[c] : f \notin {"role", "at"} => task'[c][f] = task[c][f]
    BY <1>4, <2>1, Kept DEF IInv
  <2>3. /\ r \in 1..fresh.role /\ roles[r].name = task[c].id
        /\ UNCHANGED <<roles, fresh>>
    BY <1>1 DEF RoleByName, IInv, RolesOK, AuthzTypeOK, Still, tables
  <2>4. /\ \A f \in {"op", "id", "by", "perms", "todo", "missing", "held", "def"} : task'[c][f] = task[c][f]
    BY <1>1, <1>2, <2>2 DEF ApprovalOK
  <2>5. Known(task[c], {task[c].id})'
    BY <2>2, <2>3, <2>4 DEF Known
  <2>6. ApprovalOK(task[c])'
    BY <1>1, <1>2, <2>2, <2>4, <2>5 DEF ApprovalOK
  <2>7. Calm /\ MovedOK
    BY <1>1, <1>2, <2>2, <2>4, <2>6, ApprovalMoves DEF Owning
  <2> QED BY <1>1, <2>7, LeftRests, StillStep
<1> QED BY <1>3, <1>4 DEF LookupRole

LEMMA SavePreparesOK ==
  ASSUME IInv, NEW c \in Clients, SaveDestination(c) \/ SaveHighWater(c)
  PROVE  IInv'
<1>1. Still /\ UNCHANGED left /\ task[c].op = "save"
  BY DEF SaveDestination, SaveHighWater, Still, extension, At
<1>2. {"op", "at"} \subseteq DOMAIN task[c] /\ ApprovalOK(task[c])
  BY <1>1, ApprovalTask
<1>3. CASE SaveDestination(c)
  <2>1. End(c) \/ Goto(c, "high")
    BY <1>3 DEF SaveDestination
  <2> QED BY <1>1, <2>1, EndMoves, ApprovalGoto, LeftRests, StillStep
<1>4. CASE SaveHighWater(c)
  <2>1. DOMAIN [high |-> Len(log)] = {"high"} /\ [high |-> Len(log)].high = Len(log)
    OBVIOUS
  <2>2. /\ DOMAIN task' = Clients
        /\ \A d \in Clients : d # c => task'[d] = task[d]
        /\ DOMAIN task'[c] = DOMAIN task[c] \cup {"high", "at"} /\ task'[c].at = "commit"
        /\ task'[c].high = Len(log)
        /\ \A f \in DOMAIN task[c] : f \notin {"high", "at"} => task'[c][f] = task[c][f]
    BY <1>4, <2>1, Kept DEF IInv, SaveHighWater
  <2>3. Len(log) \in 0..Len(log) /\ UNCHANGED log
    BY <1>1, LogLength DEF Still, state
  <2>4. \A f \in {"op", "id", "by", "perms", "todo", "missing", "held", "role", "def"} : task'[c][f] = task[c][f]
    BY <1>1, <1>2, <2>2 DEF ApprovalOK
  <2>5. ApprovalOK(task[c])'
    BY <1>1, <1>2, <2>2, <2>3, <2>4 DEF ApprovalOK
  <2>6. Calm /\ MovedOK
    BY <1>1, <1>2, <2>2, <2>4, <2>5, ApprovalMoves DEF Owning
  <2> QED BY <1>1, <2>6, LeftRests, StillStep
<1> QED BY <1>3, <1>4

(* The cursor of an automation that is there is there too; that of a new one stands where the
   history of the automation begins. *)
LEMMA SaveCommitOK ==
  ASSUME IInv, NEW c \in Clients, SaveCommit(c)
  PROVE  IInv'
<1>1. /\ task[c].op = "save" /\ task[c].at = "commit" /\ End(c)
      /\ UNCHANGED <<tables, scenario, fresh, left, vault, extension, log, runs, silenced>>
      /\ UNCHANGED <<roles, plugins, belongings>>
  BY DEF SaveCommit, At, tables, extension
<1>2. PICK a, high, def : a = task[c].id /\ high = task[c].high /\ def = task[c].def
  OBVIOUS
<1>3. /\ automations' = Amend(automations, Row(a, def))
      /\ cursors' = Amend(Row(a, high), cursors)
      /\ since' = Amend(Row(a, cursors'[a]), since)
  BY <1>2 DEF SaveCommit
<1>4. a \in Automations /\ high \in 0..Len(log) /\ def \in Definitions
  BY <1>1, <1>2, ApprovalTask DEF ApprovalOK
<1>5. /\ DOMAIN automations' = DOMAIN automations \cup {a}
      /\ \A b \in DOMAIN automations' : automations'[b] = IF b = a THEN def ELSE automations[b]
  BY <1>3 DEF Amend, Row
<1>6. /\ DOMAIN cursors' = DOMAIN cursors \cup {a}
      /\ \A b \in DOMAIN cursors : cursors'[b] = cursors[b]
      /\ a \notin DOMAIN cursors => cursors'[a] = high
  BY <1>3 DEF Amend, Row
<1>7. /\ DOMAIN since' = DOMAIN since \cup {a}
      /\ \A b \in DOMAIN since : since'[b] = since[b]
      /\ a \notin DOMAIN since => since'[a] = cursors'[a]
  BY <1>3 DEF Amend, Row
<1>8. \A b \in DOMAIN cursors' : cursors'[b] \in 0..Len(log)
  BY <1>4, <1>6 DEF IInv, FeedOK
<1>9. FeedOK'
  <2>1. FeedOK /\ Len(log) \in Nat
    BY LogLength DEF IInv
  <2>2. \A b \in DOMAIN automations' : automations'[b] \in Definitions /\ since'[b] \in Nat
    BY <1>4, <1>5, <1>6, <1>7, <1>8, <2>1 DEF FeedOK
  <2>3. EveryChangeRuns'
    <3> SUFFICES ASSUME NEW b \in DOMAIN automations' \cap DOMAIN cursors',
                        NEW i \in since'[b] + 1 .. cursors'[b], log[i].hit /\ log[i].actor # b
                 PROVE  <<b, i>> \in runs
      BY <1>1 DEF EveryChangeRuns
    <3>1. CASE b \in DOMAIN automations
      BY <1>6, <1>7, <2>1, <3>1 DEF FeedOK, EveryChangeRuns
    <3>2. CASE b \notin DOMAIN automations
      <4>1. since'[b] = cursors'[b] /\ cursors'[b] \in Nat
        BY <1>5, <1>7, <1>8, <2>1, <3>2 DEF FeedOK
      <4> QED BY <4>1
    <3> QED BY <3>1, <3>2
  <2> QED BY <1>1, <1>4, <1>5, <1>6, <1>7, <1>8, <2>1, <2>2, <2>3 DEF FeedOK
<1>10. SilencedOK'
  <2>1. a \notin silenced
    BY <1>1, <1>2 DEF IInv, SilencedOK, NoSave
  <2>2. Calm
    BY <1>1, EndMoves
  <2> QED BY <1>1, <1>5, <2>1, <2>2 DEF IInv, SilencedOK, NoSave, RoleByName, Calm
<1> QED BY <1>1, <1>9, <1>10, EndMoves, LeftRests, FeedRestsAges, FeedStep

(* A save that begins ends the silence, and every deletion that is under way is disturbed. *)
LEMMA BeginSaveOK ==
  ASSUME IInv, NEW c \in Clients, BeginSave(c)
  PROVE  IInv'
<1>1. PICK u \in Users, a \in Automations, def \in Definitions :
        /\ Spend("save") /\ silenced' = silenced \ {a}
        /\ task' = [task EXCEPT ![c] = Approval("save", a, u, Permissions(def), [def |-> def])]
  BY DEF BeginSave
<1> DEFINE t == Approval("save", a, u, Permissions(def), [def |-> def])
<1>2. /\ DOMAIN t = {"def", "op", "at", "id", "by", "perms", "todo", "missing", "held", "role"}
      /\ t.def = def /\ t.op = "save" /\ t.at = "check" /\ t.id = a /\ t.by = u
      /\ t.perms = Permissions(def) /\ t.todo = t.perms /\ t.missing = FALSE /\ t.held = {} /\ t.role = 0
  BY DEF Approval, Amend
<1>3. Permissions(def) \subseteq Perms
  <2>1. Range(def.actions) \subseteq ActionTypes
    BY AutomationsAssumption DEF Range
  <2>2. \A k \in ActionTypes : Needs[k] \in Perms
    BY DEF ActionTypes, Needs, Perms
  <2>3. "read" \in Perms
    BY DEF Perms
  <2> QED BY <2>1, <2>2, <2>3 DEF Permissions
<1> HIDE DEF t
<1>4. task'[c] = t /\ DOMAIN task' = Clients /\ \A d \in Clients : d # c => task'[d] = task[d]
  BY <1>1, Begun DEF t
<1>5. ApprovalOK(task[c])'
  BY <1>2, <1>3, <1>4 DEF ApprovalOK
<1>6. /\ UNCHANGED <<roles, grants, members, vouched, scenario, fresh, plugins, belongings>>
      /\ UNCHANGED <<automations, cursors, log, runs, since>>
      /\ UNCHANGED <<file, loaded, secrets, cli, drained>>
  BY DEF BeginSave, tables, vault, extension
<1>7. LeftFalls
  BY <1>1, SpendFalls, OperationKinds
<1>8. fresh' \in [role : Nat, dek : Nat, job : Nat]
  BY <1>6 DEF IInv, RolesOK
<1>9. RolesOK' /\ RolesAge
  BY <1>6, <1>7, <1>8, RolesRest
<1>10. MovedOK
  BY <1>2, <1>4, <1>5 DEF MovedOK, TaskOK
<1>11. TasksOK'
  BY <1>4, <1>6, <1>7, <1>9, <1>10, FeedRestsAges, TasksCalm DEF Ages
<1>12. OwnersOK'
  <2>1. \A e \in Clients : Owning(task'[e]) \/ Removing(task'[e]) => task'[e] = task[e]
    BY <1>2, <1>4 DEF Owning, Removing
  <2> QED BY <1>6, <2>1, OwnersSteady
<1>13. SilencedOK'
  <2> SUFFICES ASSUME NEW b \in silenced'
               PROVE  (/\ b \in Automations /\ b \notin DOMAIN automations
                       /\ RoleByName(b) = {} /\ NoSave(b))'
    BY DEF SilencedOK
  <2>1. b \in silenced /\ b # a
    BY <1>1
  <2> QED BY <1>2, <1>4, <1>6, <2>1 DEF IInv, SilencedOK, NoSave, RoleByName
<1>14. DeletersOK'
  <2> SUFFICES ASSUME NEW d \in Clients, Undisturbed(task[d])' PROVE FALSE
    BY DEF DeletersOK
  <2>1. task'[d] = task[d] /\ Deleting(task[d]) /\ left'["save"] = task[d].before
    BY <1>2, <1>4 DEF Undisturbed, Deleting
  <2>2. DeleteOK(task[d])
    BY <2>1 DEF IInv, TasksOK, TaskOK, Deleting
  <2>3. left \in [Kinds -> Nat] /\ "save" \in Kinds /\ left["save"] > 0 /\ left'["save"] = left["save"] - 1
    BY <1>1, OperationKinds DEF IInv, RolesOK, AuthzTypeOK, Spend
  <2>4. left["save"] \in Nat
    BY <2>3
  <2> QED BY <2>1, <2>2, <2>3, <2>4 DEF DeleteOK
<1>15. PluginsOK' /\ FeedOK' /\ VaultOK'
  BY <1>6, PluginsRest, FeedRests, VaultRests
<1> QED BY <1>9, <1>11, <1>12, <1>13, <1>14, <1>15 DEF IInv
--------------------------------------------------------------------------------
(* Deleting and uninstalling: the steps that leave the roles alone. *)

LEMMA PossessStep ==
  ASSUME IInv, DOMAIN task' = Clients, MovedOK, NoNewSave, LeftFalls, Still, OwnersOK', DeletersOK'
  PROVE  IInv'
<1>1. /\ UNCHANGED <<roles, grants, members, vouched, scenario, fresh, plugins, belongings>>
      /\ UNCHANGED <<automations, cursors, log, runs, since, silenced>>
      /\ UNCHANGED <<file, loaded, secrets, cli, drained>>
  BY DEF Still, tables, vault, state, history
<1>2. fresh' \in [role : Nat, dek : Nat, job : Nat]
  BY <1>1 DEF IInv, RolesOK
<1>3. RolesOK' /\ RolesAge
  BY <1>1, <1>2, RolesRest
<1>4. TasksOK'
  BY <1>1, <1>3, FeedRestsAges, TasksCalm DEF Ages
<1>5. SilencedOK'
  BY <1>1, SilencedKept, RolesKeepNames
<1>6. PluginsOK' /\ FeedOK' /\ VaultOK'
  BY <1>1, PluginsRest, FeedRests, VaultRests
<1> QED BY <1>3, <1>4, <1>5, <1>6 DEF IInv

(* A deletion of c that moves on. *)
DeletesOn(c) ==
  /\ DOMAIN task' = Clients /\ \A d \in Clients : d # c => task'[d] = task[d]
  /\ {"op", "at"} \subseteq DOMAIN task'[c] /\ task'[c].op = "delete" /\ DeleteOK(task[c])'

LEMMA DeletesMoves ==
  ASSUME NEW c \in Clients, DeletesOn(c)
  PROVE  /\ MovedOK /\ NoNewSave
         /\ \A d \in Clients : Owning(task'[d]) \/ Removing(task'[d]) => task'[d] = task[d]
<1>1. TaskOK(task[c])'
  BY DEF DeletesOn, TaskOK
<1>2. MovedOK
  BY <1>1 DEF DeletesOn, MovedOK
<1> QED BY <1>2 DEF DeletesOn, NoNewSave, Owning, Removing

LEMMA DeleteTask ==
  ASSUME IInv, NEW c \in Clients, task[c].op = "delete"
  PROVE  {"op", "at"} \subseteq DOMAIN task[c] /\ DeleteOK(task[c])
  BY DEF IInv, TasksOK, TaskOK

LEMMA BeginDeleteOK ==
  ASSUME IInv, NEW c \in Clients, BeginDelete(c)
  PROVE  IInv'
<1>1. PICK a \in Automations :
        /\ Spend("delete")
        /\ task' = [task EXCEPT ![c] = [op |-> "delete", at |-> "lookup", id |-> a,
                                        before |-> left["save"],
                                        alone |-> \A x \in Clients : task[x].op = "save" => task[x].id # a]]
  BY DEF BeginDelete
<1> DEFINE alone == \A x \in Clients : task[x].op = "save" => task[x].id # a
           t == [op |-> "delete", at |-> "lookup", id |-> a, before |-> left["save"], alone |-> alone]
<1>2. /\ DOMAIN t = {"op", "at", "id", "before", "alone"} /\ t.op = "delete" /\ t.at = "lookup" /\ t.id = a
      /\ t.before = left["save"] /\ t.alone = alone
  OBVIOUS
<1>3. alone \in BOOLEAN /\ alone = NoSave(a)
  BY DEF NoSave
<1>4. task' = [task EXCEPT ![c] = t]
  BY <1>1
<1> HIDE DEF t, alone
<1>5. task'[c] = t /\ DOMAIN task' = Clients /\ \A d \in Clients : d # c => task'[d] = task[d]
  BY <1>4, Begun
<1>6. LeftFalls
  BY <1>1, SpendFalls, OperationKinds
<1>7. left["save"] \in Nat /\ left'["save"] \in Nat /\ left'["save"] <= left["save"]
  BY <1>6, OperationKinds DEF IInv, RolesOK, AuthzTypeOK, LeftFalls
<1>8. DeleteOK(task[c])'
  BY <1>2, <1>3, <1>5, <1>7 DEF DeleteOK
<1>9. DeletesOn(c)
  BY <1>2, <1>5, <1>8 DEF DeletesOn
<1>10. Still /\ UNCHANGED <<roles, grants, members, plugins>>
  BY DEF BeginDelete, Still, extension, tables
<1>11. OwnersOK'
  BY <1>9, <1>10, DeletesMoves, OwnersSteady
<1>12. DeletersOK'
  <2>1. Undisturbed(task[c])' => DeleterOK(c)'
    <3>1. ASSUME Undisturbed(task[c])' PROVE NoSave(a)'
      <4>1. NoSave(a)
        BY <1>2, <1>3, <1>5, <3>1 DEF Undisturbed
      <4> QED BY <1>2, <1>5, <4>1 DEF NoSave
    <3>2. task'[c].id = a /\ task'[c].at = "lookup"
      BY <1>2, <1>5
    <3> QED BY <3>1, <3>2 DEF DeleterOK, NoSave
  <2> QED BY <1>5, <1>6, <1>9, <1>10, <2>1, DeletesMoves, RolesKeepNames, DeletersKept
<1> QED BY <1>5, <1>6, <1>9, <1>10, <1>11, <1>12, DeletesMoves, PossessStep

(* A role found by its name is the only one. *)
LEMMA DeleteLookupOK ==
  ASSUME IInv, NEW c \in Clients, LookupRole(c, "delete", "commit")
  PROVE  IInv'
<1>1. Still /\ UNCHANGED left /\ task[c].op = "delete" /\ task[c].at = "lookup"
      /\ UNCHANGED <<roles, grants, members, plugins, fresh>>
  BY DEF LookupRole, Still, extension, At, tables
<1>2. {"op", "at"} \subseteq DOMAIN task[c] /\ DeleteOK(task[c])
  BY <1>1, DeleteTask
<1>3. PICK a : a = task[c].id
  OBVIOUS
<1>4. ASSUME DOMAIN task' = Clients, \A d \in Clients : d # c => task'[d] = task[d],
             DOMAIN task[c] \subseteq DOMAIN task'[c],
             \A f \in {"op", "id", "before", "alone"} : task'[c][f] = task[c][f],
             \/ task'[c].at = "commit" /\ RoleByName(a) = {}
             \/ /\ task'[c].at = "revoke" /\ "role" \in DOMAIN task'[c]
                /\ task'[c].role \in RoleByName(a)
      PROVE  IInv'
  <2>1. Known(task[c], {task[c].id})' \/ task'[c].at = "commit"
    <3>1. DOMAIN roles \subseteq 1..fresh.role
      BY DEF IInv, RolesOK, AuthzTypeOK
    <3> QED BY <1>1, <1>3, <1>4, <3>1 DEF Known, RoleByName
  <2>2. DeleteOK(task[c])'
    BY <1>1, <1>2, <1>4, <2>1 DEF DeleteOK
  <2>3. DeletesOn(c)
    BY <1>1, <1>2, <1>4, <2>2 DEF DeletesOn
  <2>4. Undisturbed(task[c])' => DeleterOK(c)'
    <3>1. ASSUME Undisturbed(task[c])' PROVE NoSave(a)
      <4>1. Undisturbed(task[c])
        BY <1>1, <1>4, <3>1 DEF Undisturbed, Deleting
      <4> QED BY <1>3, <4>1 DEF IInv, DeletersOK, DeleterOK
    <3>2. ASSUME NoSave(a) PROVE NoSave(a)'
      BY <1>1, <1>4, <3>2 DEF NoSave
    <3>3. RoleByName(a)' = RoleByName(a)
      BY <1>1 DEF RoleByName
    <3>4. \A r \in RoleByName(a) : RoleByName(a) \subseteq {r}
      BY DEF IInv, RolesOK, PeopleOK, RoleByName
    <3>5. task'[c].id = a
      BY <1>3, <1>4
    <3> QED BY <1>4, <3>1, <3>2, <3>3, <3>4, <3>5 DEF DeleterOK, NoSave, RoleByName
  <2>5. OwnersOK'
    BY <1>1, <2>3, DeletesMoves, OwnersSteady
  <2>6. DeletersOK'
    BY <1>1, <1>4, <2>3, <2>4, DeletesMoves, LeftRests, RolesKeepNames, DeletersKept
  <2> QED BY <1>1, <1>4, <2>3, <2>5, <2>6, DeletesMoves, LeftRests, PossessStep
<1>5. CASE RoleByName(a) = {}
  <2>1. Goto(c, "commit")
    BY <1>3, <1>5 DEF LookupRole
  <2>2. \A f \in {"op", "id", "before", "alone"} : f \in DOMAIN task[c] /\ f # "at"
    BY <1>2 DEF DeleteOK
  <2> QED BY <1>4, <1>5, <2>1, <2>2, Gone DEF IInv
<1>6. CASE RoleByName(a) # {}
  <2>1. PICK r \in RoleByName(a) : Keep(c, "revoke", [role |-> r])
    BY <1>3, <1>6 DEF LookupRole
  <2>2. \A f \in {"op", "id", "before", "alone"} : f \in DOMAIN task[c] /\ f \notin {"role", "at"}
    BY <1>2 DEF DeleteOK
  <2>3. DOMAIN [role |-> r] = {"role"} /\ [role |-> r].role = r
    OBVIOUS
  <2>4. /\ DOMAIN task' = Clients
        /\ \A d \in Clients : d # c => task'[d] = task[d]
        /\ DOMAIN task'[c] = DOMAIN task[c] \cup {"role", "at"} /\ task'[c].at = "revoke"
        /\ task'[c].role = r
        /\ \A f \in DOMAIN task[c] : f \notin {"role", "at"} => task'[c][f] = task[c][f]
    BY <2>1, <2>3, Kept DEF IInv
  <2> QED BY <1>4, <2>2, <2>4
<1> QED BY <1>5, <1>6

LEMMA DeleteCommitOK ==
  ASSUME IInv, NEW c \in Clients, DeleteCommit(c)
  PROVE  IInv'
<1>1. PICK a : a = task[c].id
  OBVIOUS
<1>2. /\ task[c].op = "delete" /\ task[c].at = "commit" /\ Goto(c, "list")
      /\ UNCHANGED <<tables, scenario, fresh, left, vault, extension, log, runs>>
      /\ UNCHANGED <<roles, plugins, belongings>>
      /\ automations' = Restrict(automations, DOMAIN automations \ {a})
      /\ cursors' = Restrict(cursors, DOMAIN cursors \ {a})
      /\ since' = Restrict(since, DOMAIN since \ {a})
      /\ silenced' = silenced \/ (Undisturbed(task[c]) /\ silenced' = silenced \cup {a})
  BY <1>1 DEF DeleteCommit, At, tables, extension, Undisturbed, Deleting
<1>3. {"op", "at"} \subseteq DOMAIN task[c] /\ DeleteOK(task[c])
  BY <1>2, DeleteTask
<1>4. /\ DOMAIN task' = Clients
      /\ \A d \in Clients : d # c => task'[d] = task[d]
      /\ DOMAIN task'[c] = DOMAIN task[c] /\ task'[c].at = "list" /\ task'[c].op = "delete"
      /\ \A f \in DOMAIN task[c] : f # "at" => task'[c][f] = task[c][f]
  BY <1>2, Gone DEF IInv
<1>5. DeleteOK(task[c])'
  <2>1. \A f \in {"id", "before", "alone"} : task'[c][f] = task[c][f]
    BY <1>3, <1>4 DEF DeleteOK
  <2> QED BY <1>2, <1>3, <1>4, <2>1 DEF DeleteOK
<1>6. Calm /\ MovedOK
  <2>1. TaskOK(task[c])'
    BY <1>3, <1>4, <1>5 DEF TaskOK
  <2>2. ~Owning(task'[c]) /\ ~Removing(task'[c]) /\ ~Deleting(task'[c]) /\ task'[c].op # "save"
    BY <1>4 DEF Owning, Removing, Deleting
  <2> QED BY <1>4, <2>1, <2>2, OneMoves
<1>7. /\ DOMAIN automations' = DOMAIN automations \ {a}
      /\ \A b \in DOMAIN automations' : automations'[b] = automations[b]
      /\ DOMAIN cursors' = DOMAIN cursors \ {a}
      /\ \A b \in DOMAIN cursors' : cursors'[b] = cursors[b]
      /\ DOMAIN since' = DOMAIN since \ {a}
      /\ \A b \in DOMAIN since' : since'[b] = since[b]
  BY <1>2 DEF Restrict
<1>8. FeedOK'
  BY <1>2, <1>7, ZenonT(60) DEF IInv, FeedOK, EveryChangeRuns
<1>9. SilencedOK'
  <2> SUFFICES ASSUME NEW b \in silenced'
               PROVE  (/\ b \in Automations /\ b \notin DOMAIN automations
                       /\ RoleByName(b) = {} /\ NoSave(b))'
    BY DEF SilencedOK
  <2>1. CASE b \in silenced
    BY <1>2, <1>6, <1>7, <2>1 DEF IInv, SilencedOK, NoSave, RoleByName, Calm
  <2>2. CASE b = a /\ Undisturbed(task[c])
    <3>1. NoSave(a) /\ RoleByName(a) = {}
      BY <1>1, <1>2, <2>2 DEF IInv, DeletersOK, DeleterOK
    <3>2. a \in Automations
      BY <1>1, <1>3 DEF DeleteOK
    <3> QED BY <1>2, <1>6, <1>7, <2>2, <3>1, <3>2 DEF NoSave, RoleByName, Calm
  <2> QED BY <1>2, <2>1, <2>2
<1> QED BY <1>2, <1>6, <1>8, <1>9, FeedRestsAges, LeftRests, FeedStep

(* An uninstall of c that moves on. *)
UninstallsOn(c) ==
  /\ DOMAIN task' = Clients /\ \A d \in Clients : d # c => task'[d] = task[d]
  /\ {"op", "at"} \subseteq DOMAIN task'[c] /\ task'[c].op = "uninstall" /\ UninstallOK(task[c])'

LEMMA UninstallMoves ==
  ASSUME NEW c \in Clients, UninstallsOn(c)
  PROVE  MovedOK /\ NoNewSave /\ (task'[c].at # "role" => Calm)
<1>1. TaskOK(task[c])' /\ task'[c].op = "uninstall"
  BY DEF UninstallsOn, TaskOK
<1>2. MovedOK
  BY <1>1 DEF UninstallsOn, MovedOK
<1>3. task'[c].at # "role" => Calm
  BY <1>1, OneMoves DEF UninstallsOn, Owning, Removing, Deleting
<1> QED BY <1>2, <1>3 DEF UninstallsOn, NoNewSave

LEMMA UninstallTask ==
  ASSUME IInv, NEW c \in Clients, task[c].op = "uninstall"
  PROVE  {"op", "at"} \subseteq DOMAIN task[c] /\ UninstallOK(task[c])
  BY DEF IInv, TasksOK, TaskOK

LEMMA BeginUninstallOK ==
  ASSUME IInv, NEW c \in Clients, BeginUninstall(c), UNCHANGED state
  PROVE  IInv'
<1>1. PICK x \in Plugins :
        Spend("uninstall") /\ task' = [task EXCEPT ![c] = [op |-> "uninstall", at |-> "get", id |-> x]]
  BY DEF BeginUninstall
<1>2. UninstallsOn(c) /\ task'[c].at = "get"
  BY <1>1, Begun DEF UninstallsOn, UninstallOK
<1>3. Still
  BY DEF BeginUninstall, Still, extension
<1> QED BY <1>1, <1>2, <1>3, UninstallMoves, SpendFalls, OperationKinds, StillStep

LEMMA UninstallSchedulesOK ==
  ASSUME IInv, NEW c \in Clients, UninstallSchedules(c), UNCHANGED state
  PROVE  IInv'
<1>1. Still /\ UNCHANGED left /\ task[c].op = "uninstall" /\ Goto(c, "commit")
  BY DEF UninstallSchedules, Still, At
<1>2. {"op", "at"} \subseteq DOMAIN task[c] /\ UninstallOK(task[c])
  BY <1>1, UninstallTask
<1>3. /\ DOMAIN task' = Clients
      /\ \A d \in Clients : d # c => task'[d] = task[d]
      /\ DOMAIN task'[c] = DOMAIN task[c] /\ task'[c].at = "commit" /\ task'[c].op = "uninstall"
      /\ task'[c].id = task[c].id
  BY <1>1, <1>2, Gone DEF IInv, UninstallOK
<1>4. UninstallsOn(c)
  BY <1>2, <1>3 DEF UninstallsOn, UninstallOK
<1> QED BY <1>1, <1>3, <1>4, UninstallMoves, LeftRests, StillStep

(* The role a row names is no task's own. *)
LEMMA UninstallGetOK ==
  ASSUME IInv, NEW c \in Clients, UninstallGet(c), UNCHANGED state
  PROVE  IInv'
<1>1. Still /\ UNCHANGED left /\ task[c].op = "uninstall" /\ UNCHANGED <<roles, grants, members, plugins, fresh>>
  BY DEF UninstallGet, Still, extension, tables, At
<1>2. {"op", "at"} \subseteq DOMAIN task[c] /\ UninstallOK(task[c])
  BY <1>1, UninstallTask
<1>3. CASE task[c].id \notin DOMAIN plugins
  BY <1>1, <1>3, StillEnd DEF UninstallGet
<1>4. CASE task[c].id \in DOMAIN plugins
  <2>1. PICK r : r = plugins[task[c].id].role
    OBVIOUS
  <2>2. Keep(c, "role", [role |-> r])
    BY <1>4, <2>1 DEF UninstallGet
  <2>3. DOMAIN [role |-> r] = {"role"} /\ [role |-> r].role = r
    OBVIOUS
  <2>4. /\ DOMAIN task' = Clients
        /\ \A d \in Clients : d # c => task'[d] = task[d]
        /\ DOMAIN task'[c] = DOMAIN task[c] \cup {"role", "at"} /\ task'[c].at = "role"
        /\ task'[c].role = r /\ task'[c].op = "uninstall" /\ task'[c].id = task[c].id
    BY <1>1, <1>2, <2>2, <2>3, Kept DEF IInv, UninstallOK
  <2>5. Known(plugins[task[c].id], Plugins)
    BY <1>4 DEF IInv, PluginsOK, PluginOK
  <2>6. UninstallOK(task[c])'
    BY <1>1, <1>2, <2>1, <2>4, <2>5 DEF UninstallOK, Known
  <2>7. UninstallsOn(c)
    BY <1>2, <2>4, <2>6 DEF UninstallsOn
  <2>8. OwnersOK'
    <3> SUFFICES ASSUME NEW d \in Clients, Owning(task'[d]) PROVE OwnerOK(d)'
      BY DEF OwnersOK
    <3>1. d # c /\ task'[d] = task[d] /\ OwnerOK(d)
      BY <2>4 DEF IInv, OwnersOK, Owning
    <3>2. task[d].role # r
      BY <1>4, <2>1, <3>1 DEF OwnerOK
    <3>3. \A e \in Clients : e # d /\ (Owning(task'[e]) \/ Removing(task'[e])) => task'[e].role # task[d].role
      BY <2>4, <3>1, <3>2 DEF OwnerOK, Owning, Removing
    <3> QED BY <1>1, <3>1, <3>3 DEF OwnerOK, Exactly, GrantsOf
  <2>9. DeletersOK'
    <3>1. ~Undisturbed(task[c])'
      BY <2>4 DEF Undisturbed, Deleting
    <3> QED BY <1>1, <2>4, <2>7, <3>1, UninstallMoves, LeftRests, RolesKeepNames, DeletersKept
  <2> QED BY <1>1, <2>4, <2>7, <2>8, <2>9, UninstallMoves, LeftRests, PossessStep
<1> QED BY <1>3, <1>4

(* What a step that changes plugins and their rows has to show. *)
LEMMA PluginStep ==
  ASSUME IInv, Calm, MovedOK, PluginsOK', OwnersOK',
         UNCHANGED <<tables, scenario, fresh, left, vault, state>>
  PROVE  IInv'
<1>1. /\ UNCHANGED <<roles, grants, members, vouched, scenario, fresh>>
      /\ UNCHANGED <<automations, cursors, log, runs, since, silenced>>
      /\ UNCHANGED <<file, loaded, secrets, cli, drained>>
  BY DEF tables, vault, state, history
<1>2. fresh' \in [role : Nat, dek : Nat, job : Nat] /\ LeftFalls
  BY <1>1, LeftRests DEF IInv, RolesOK
<1>3. RolesOK' /\ RolesAge
  BY <1>1, <1>2, RolesRest
<1>4. TasksOK'
  BY <1>1, <1>2, <1>3, FeedRestsAges, TasksCalm DEF Ages, Calm
<1>5. SilencedOK' /\ DeletersOK'
  BY <1>1, <1>2, SilencedCalm, DeletersCalm
<1>6. FeedOK' /\ VaultOK'
  BY <1>1, FeedRests, VaultRests
<1> QED BY <1>3, <1>4, <1>5, <1>6 DEF IInv

LEMMA UninstallCommitOK ==
  ASSUME IInv, NEW c \in Clients, UninstallCommit(c), UNCHANGED state
  PROVE  IInv'
<1>1. PICK x : x = task[c].id
  OBVIOUS
<1>2. /\ End(c) /\ UNCHANGED <<tables, scenario, fresh, left, vault>> /\ UNCHANGED <<roles, grants, members>>
      /\ plugins' = Restrict(plugins, DOMAIN plugins \ {x})
      /\ belongings' = [k \in DOMAIN belongings |-> belongings[k] \ {x}]
  BY <1>1 DEF UninstallCommit, tables
<1>3. /\ DOMAIN plugins' = DOMAIN plugins \ {x} /\ \A y \in DOMAIN plugins' : plugins'[y] = plugins[y]
      /\ DOMAIN belongings' = DOMAIN belongings
  BY <1>2 DEF Restrict
<1>4. \A y : y # x => /\ y \in belongings.deliveries => y \in belongings'.deliveries
                      /\ y \in belongings.overlays => y \in belongings'.overlays
  BY <1>2 DEF IInv, PluginsOK
<1>5. PluginsOK'
  <2>1. ASSUME NEW y \in DOMAIN plugins' PROVE PluginOK(y)'
    <3>1. PluginOK(y) /\ y # x /\ plugins'[y] = plugins[y]
      BY <1>3 DEF IInv, PluginsOK
    <3> QED BY <1>2, <1>4, <3>1 DEF PluginOK, Known, Exactly, GrantsOf
  <2> QED BY <1>3, <2>1 DEF IInv, PluginsOK
<1>6. OwnersOK'
  <2> SUFFICES ASSUME NEW d \in Clients, Owning(task'[d]) PROVE OwnerOK(d)'
    BY DEF OwnersOK
  <2>1. \A e \in Clients : Owning(task'[e]) \/ Removing(task'[e]) => task'[e] = task[e]
    BY <1>2, EndMoves DEF Calm
  <2>2. task'[d] = task[d] /\ OwnerOK(d)
    BY <2>1 DEF IInv, OwnersOK
  <2> QED BY <1>2, <1>3, <2>1, <2>2 DEF OwnerOK, Exactly, GrantsOf
<1> QED BY <1>2, <1>5, <1>6, EndMoves, PluginStep

(* The role handed over to the row has been the task's own, and is whole. *)
LEMMA InstallCommitOK ==
  ASSUME IInv, NEW c \in Clients, InstallCommit(c), UNCHANGED state
  PROVE  IInv'
<1>1. /\ task[c].op = "install" /\ task[c].at = "commit"
      /\ UNCHANGED <<tables, scenario, fresh, left, vault>> /\ UNCHANGED <<roles, grants, members>>
  BY DEF InstallCommit, At, tables
<1>2. CASE End(c) /\ UNCHANGED extension
  <2>1. Still
    BY <1>1, <1>2 DEF Still, extension
  <2> QED BY <1>1, <1>2, <2>1, StillEnd
<1>3. PICK x, m, r, by : x = task[c].id /\ m = task[c].manifest /\ r = task[c].role /\ by = task[c].by
  OBVIOUS
<1> DEFINE row == [manifest |-> m, role |-> r, by |-> by, leaving |-> FALSE]
<1>4. CASE /\ x \notin DOMAIN plugins
           /\ plugins' = Amend(plugins, Row(x, row))
           /\ belongings' = [belongings EXCEPT !.deliveries = With(@, x, m.async),
                                               !.overlays = With(@, x, m.overlay = "fits")]
           /\ Goto(c, "unschedule")
  <2>1. ApprovalOK(task[c]) /\ OwnerOK(c)
    BY <1>1, ApprovalTask DEF IInv, OwnersOK, Owning
  <2>2. /\ x \in Plugins /\ m \in Manifests /\ Exactly(r, x, m.perms) /\ <<x, r>> \in members
        /\ \A d \in Clients : d # c /\ (Owning(task[d]) \/ Removing(task[d])) => task[d].role # r
    BY <1>1, <1>3, <2>1 DEF ApprovalOK, OwnerOK
  <2>3. /\ DOMAIN row = {"manifest", "role", "by", "leaving"} /\ row.manifest = m /\ row.role = r
        /\ row.leaving = FALSE
    OBVIOUS
  <2> HIDE DEF row
  <2>4. /\ DOMAIN plugins' = DOMAIN plugins \cup {x} /\ plugins'[x] = row
        /\ \A y \in DOMAIN plugins : y # x => plugins'[y] = plugins[y]
    BY <1>4 DEF Amend, Row
  <2>5. /\ DOMAIN belongings' = DOMAIN belongings
        /\ belongings.deliveries \subseteq belongings'.deliveries
        /\ belongings.overlays \subseteq belongings'.overlays
        /\ m.async => x \in belongings'.deliveries
        /\ m.overlay = "fits" => x \in belongings'.overlays
    BY <1>4 DEF IInv, PluginsOK, With
  <2>6. Calm /\ MovedOK
    BY <1>1, <1>4, ApprovalGoto
  <2>7. PluginOK(x)'
    <3>1. r \in 1..fresh.role /\ roles[r].name \in Plugins
      BY <2>2 DEF Exactly, IInv, RolesOK, AuthzTypeOK
    <3> QED BY <1>1, <2>2, <2>3, <2>4, <2>5, <3>1 DEF PluginOK, Known, Exactly, GrantsOf
  <2>8. PluginsOK'
    <3>1. ASSUME NEW y \in DOMAIN plugins, y # x PROVE PluginOK(y)'
      <4>1. PluginOK(y) /\ plugins'[y] = plugins[y]
        BY <2>4, <3>1 DEF IInv, PluginsOK
      <4> QED BY <1>1, <2>5, <4>1 DEF PluginOK, Known, Exactly, GrantsOf
    <3> QED BY <2>2, <2>4, <2>5, <2>7, <3>1 DEF IInv, PluginsOK
  <2>9. OwnersOK'
    <3> SUFFICES ASSUME NEW d \in Clients, Owning(task'[d]) PROVE OwnerOK(d)'
      BY DEF OwnersOK
    <3>1. \A e \in Clients : Owning(task'[e]) \/ Removing(task'[e]) => task'[e] = task[e]
      BY <2>6 DEF Calm
    <3>2. task'[d] = task[d] /\ OwnerOK(d)
      BY <3>1 DEF IInv, OwnersOK
    <3>3. d # c
      BY <1>4, <3>2, Gone DEF IInv, Owning
    <3>4. task[d].role # r
      BY <2>2, <3>2, <3>3 DEF Owning
    <3> QED BY <1>1, <2>3, <2>4, <3>1, <3>2, <3>4 DEF OwnerOK, Exactly, GrantsOf
  <2> QED BY <1>1, <2>6, <2>8, <2>9, PluginStep
<1> QED BY <1>2, <1>3, <1>4 DEF InstallCommit
--------------------------------------------------------------------------------
(* Steps that change a role, its grants or its members: they touch one role, R, and what
   rests on the others stays. *)

Beside(R) ==
  /\ \A r \in DOMAIN roles : r # R => r \in DOMAIN roles' /\ roles'[r] = roles[r]
  /\ \A g \in grants \cup grants' : g.role # R => (g \in grants <=> g \in grants')
  /\ \A m \in members : m[2] # R => m \in members'

LEMMA ExactlyBeside ==
  ASSUME NEW R, Beside(R), NEW r, NEW x, NEW perms, Exactly(r, x, perms), r # R
  PROVE  /\ r \in DOMAIN roles' /\ roles'[r].name = x
         /\ {g.perm : g \in {h \in grants' : h.role = r}} = perms
         /\ <<x, r>> \in members => <<x, r>> \in members'
<1>1. r \in DOMAIN roles' /\ roles'[r].name = x
  BY DEF Beside, Exactly
<1>2. {h \in grants' : h.role = r} = {h \in grants : h.role = r}
  BY DEF Beside
<1>3. {g.perm : g \in {h \in grants' : h.role = r}} = perms
  BY <1>2 DEF Exactly, GrantsOf
<1>4. <<x, r>>[2] = r
  OBVIOUS
<1> QED BY <1>1, <1>3, <1>4 DEF Beside

LEMMA OwnerBeside ==
  ASSUME IInv, NEW R, Beside(R), NEW d \in Clients, Owning(task[d]), task'[d] = task[d], task[d].role # R,
         \A x \in DOMAIN plugins' : x \in DOMAIN plugins /\ plugins'[x].role = plugins[x].role,
         \A e \in Clients : e # d /\ (Owning(task'[e]) \/ Removing(task'[e])) => task'[e].role # task[d].role
  PROVE  OwnerOK(d)'
<1>1. OwnerOK(d)
  BY DEF IInv, OwnersOK
<1>2. PICK r, x, perms : /\ r = task[d].role /\ x = task[d].id
                         /\ perms = IF task[d].at = "grant" THEN task[d].perms \ task[d].todo ELSE task[d].perms
  OBVIOUS
<1>3. Exactly(r, x, perms) /\ r # R
  BY <1>1, <1>2 DEF OwnerOK
<1>4. /\ r \in DOMAIN roles' /\ roles'[r].name = x
      /\ {g.perm : g \in {h \in grants' : h.role = r}} = perms
      /\ <<x, r>> \in members => <<x, r>> \in members'
  BY <1>3, ExactlyBeside
<1> QED BY <1>1, <1>2, <1>4 DEF OwnerOK, Exactly, GrantsOf

LEMMA PluginsBeside ==
  ASSUME IInv, NEW R, Beside(R), RolesAge, UNCHANGED belongings, DOMAIN plugins' = DOMAIN plugins,
         \A x \in DOMAIN plugins :
           /\ DOMAIN plugins'[x] = DOMAIN plugins[x] /\ plugins'[x].manifest = plugins[x].manifest
           /\ plugins'[x].role = plugins[x].role /\ plugins'[x].leaving \in BOOLEAN
           /\ ~plugins'[x].leaving => ~plugins[x].leaving /\ plugins[x].role # R
  PROVE  PluginsOK'
<1>1. ASSUME NEW x \in DOMAIN plugins PROVE PluginOK(x)'
  <2>1. PluginOK(x)
    BY DEF IInv, PluginsOK
  <2>2. PICK p : p = plugins[x]
    OBVIOUS
  <2>3. Known(plugins[x], Plugins)'
    <3>1. fresh.role \in Nat /\ fresh'.role \in Nat /\ fresh.role <= fresh'.role
      BY DEF IInv, RolesOK, RolesAge
    <3> QED BY <2>1, <3>1 DEF PluginOK, Known, RolesAge
  <2>4. ASSUME ~plugins'[x].leaving
        PROVE  Exactly(p.role, x, p.manifest.perms)' /\ <<x, p.role>> \in members'
    <3>1. Exactly(p.role, x, p.manifest.perms) /\ <<x, p.role>> \in members /\ p.role # R
      BY <2>1, <2>2, <2>4 DEF PluginOK
    <3>2. PICK r, perms : r = p.role /\ perms = p.manifest.perms
      OBVIOUS
    <3>3. Exactly(r, x, perms) /\ <<x, r>> \in members /\ r # R
      BY <3>1, <3>2
    <3>4. /\ r \in DOMAIN roles' /\ roles'[r].name = x
          /\ {g.perm : g \in {h \in grants' : h.role = r}} = perms
          /\ <<x, r>> \in members'
      BY <3>3, ExactlyBeside
    <3> QED BY <3>2, <3>4 DEF Exactly, GrantsOf
  <2> QED BY <2>1, <2>2, <2>3, <2>4 DEF PluginOK, Exactly, GrantsOf
<1> QED BY <1>1 DEF IInv, PluginsOK

(* A role that is gone, or a person's, or an automation's, is nobody's that is on its way, and
   no plugin's that stays. *)
LEMMA Apart ==
  ASSUME IInv, NEW R, R \in DOMAIN roles => roles[R].name \notin Plugins
  PROVE  /\ \A d \in Clients : Owning(task[d]) => task[d].role # R
         /\ \A x \in DOMAIN plugins : ~plugins[x].leaving => plugins[x].role # R
<1>1. ASSUME NEW d \in Clients, Owning(task[d]) PROVE task[d].role # R
  <2>1. OwnerOK(d) /\ ApprovalOK(task[d]) /\ task[d].op = "install"
    BY <1>1, ApprovalTask DEF IInv, OwnersOK, Owning
  <2> QED BY <2>1 DEF OwnerOK, Exactly, ApprovalOK
<1>2. ASSUME NEW x \in DOMAIN plugins, ~plugins[x].leaving PROVE plugins[x].role # R
  <2>1. PluginOK(x) /\ x \in Plugins
    BY DEF IInv, PluginsOK
  <2> QED BY <1>2, <2>1 DEF PluginOK, Exactly
<1> QED BY <1>1, <1>2

(* What a step that touches a role has to show. *)
LEMMA RoleStep ==
  ASSUME IInv, RolesOK', RolesAge, NoNewRole, NoNewSave, MovedOK, LeftFalls, OwnersOK', PluginsOK',
         \A d \in Clients : task'[d] # task[d] => (Undisturbed(task[d])' => DeleterOK(d)'),
         UNCHANGED <<scenario, vault, state>>
  PROVE  IInv'
<1>1. /\ UNCHANGED <<automations, cursors, log, runs, since, silenced>>
      /\ UNCHANGED <<file, loaded, secrets, cli, drained>>
  BY DEF vault, state, history
<1>2. TasksOK'
  BY <1>1, FeedRestsAges, TasksCalm DEF Ages, NoNewSave
<1>3. SilencedOK' /\ DeletersOK'
  BY <1>1, SilencedKept, DeletersKept
<1>4. FeedOK' /\ VaultOK'
  BY <1>1, FeedRests, VaultRests
<1> QED BY <1>2, <1>3, <1>4 DEF IInv

(* ... when the role is nobody's whose possession matters. *)
LEMMA ApartStep ==
  ASSUME IInv, NEW R, R \in DOMAIN roles => roles[R].name \notin Plugins, Beside(R),
         RolesOK', RolesAge, NoNewRole, NoNewSave, MovedOK, LeftFalls,
         \A d \in Clients : Owning(task'[d]) \/ Removing(task'[d]) => task'[d] = task[d],
         \A d \in Clients : task'[d] # task[d] => (Undisturbed(task[d])' => DeleterOK(d)'),
         UNCHANGED <<scenario, vault, state, plugins, belongings>>
  PROVE  IInv'
<1>1. /\ \A d \in Clients : Owning(task[d]) => task[d].role # R
      /\ \A x \in DOMAIN plugins : ~plugins[x].leaving => plugins[x].role # R
  BY Apart
<1>2. OwnersOK'
  <2> SUFFICES ASSUME NEW d \in Clients, Owning(task'[d]) PROVE OwnerOK(d)'
    BY DEF OwnersOK
  <2>1. task'[d] = task[d] /\ OwnerOK(d) /\ Owning(task[d]) /\ task[d].role # R
    BY <1>1 DEF IInv, OwnersOK
  <2>2. \A e \in Clients : e # d /\ (Owning(task'[e]) \/ Removing(task'[e])) => task'[e].role # task[d].role
    BY <2>1 DEF OwnerOK
  <2> QED BY <2>1, <2>2, OwnerBeside
<1>3. PluginsOK'
  <2>1. \A x \in DOMAIN plugins : plugins[x].leaving \in BOOLEAN
    BY DEF IInv, PluginsOK, PluginOK
  <2> QED BY <1>1, <2>1, PluginsBeside
<1> QED BY <1>2, <1>3, RoleStep
--------------------------------------------------------------------------------
(* The changes of the tables themselves. *)

LEMMA RoleNumbers ==
  ASSUME IInv
  PROVE  fresh \in [role : Nat, dek : Nat, job : Nat] /\ fresh.role \in Nat
  BY DEF IInv, RolesOK

LEMMA NewRole ==
  ASSUME IInv, NEW x \in Extensions, NEW held \in SUBSET Perms, RoleByName(x) = {},
         roles' = Amend(roles, Row(fresh.role + 1, [name |-> x, core |-> FALSE])),
         fresh' = [fresh EXCEPT !.role = @ + 1],
         vouched' = Amend(vouched, Row(fresh.role + 1, held)),
         UNCHANGED <<grants, members, scenario, left>>
  PROVE  /\ RolesOK' /\ RolesAge /\ Beside(fresh.role + 1)
         /\ DOMAIN roles' = DOMAIN roles \cup {fresh.role + 1}
         /\ roles'[fresh.role + 1].name = x /\ vouched'[fresh.role + 1] = held
         /\ fresh.role + 1 \notin DOMAIN roles
         /\ \A r \in DOMAIN roles : roles'[r] = roles[r]
<1> DEFINE R == fresh.role + 1
           row == [name |-> x, core |-> FALSE]
<1>1. /\ fresh.role \in Nat /\ R \in Nat /\ R \notin 1..fresh.role /\ R \in 1..R
      /\ \A r \in 1..fresh.role : r \in 1..R
      /\ fresh' \in [role : Nat, dek : Nat, job : Nat] /\ fresh'.role = R /\ fresh.role <= R
  BY RoleNumbers
<1>2. /\ AuthzTypeOK /\ PeopleOK /\ MembersOK /\ NoBorrowedAuthority
  BY DEF IInv, RolesOK
<1>3. R \notin DOMAIN roles /\ R \notin DOMAIN vouched
  BY <1>1, <1>2 DEF AuthzTypeOK
<1>4. row \in [name : Principals, core : BOOLEAN] /\ row.name = x
  BY DEF Principals
<1> HIDE DEF R, row
<1>5. /\ DOMAIN roles' = DOMAIN roles \cup {R} /\ roles'[R] = row
      /\ \A r \in DOMAIN roles : roles'[r] = roles[r]
  BY <1>3 DEF Amend, Row, R, row
<1>6. /\ DOMAIN vouched' = DOMAIN vouched \cup {R} /\ vouched'[R] = held
      /\ \A r \in DOMAIN vouched : vouched'[r] = vouched[r]
  BY <1>3 DEF Amend, Row, R
<1>7. AuthzTypeOK'
  <2>1. DOMAIN roles' \subseteq 1..fresh'.role /\ DOMAIN vouched' \subseteq 1..fresh'.role
    BY <1>1, <1>2, <1>5, <1>6 DEF AuthzTypeOK
  <2>2. \A r \in DOMAIN roles' : roles'[r] \in [name : Principals, core : BOOLEAN]
    BY <1>2, <1>4, <1>5 DEF AuthzTypeOK
  <2>3. \A r \in DOMAIN vouched' : vouched'[r] \subseteq Perms
    BY <1>2, <1>6 DEF AuthzTypeOK
  <2>4. grants' \subseteq [role : 1..fresh'.role, perm : Perms, cond : Conditions]
    <3>1. grants \subseteq [role : 1..fresh.role, perm : Perms, cond : Conditions]
      BY <1>2 DEF AuthzTypeOK
    <3> QED BY <1>1, <3>1
  <2>5. members' \subseteq Principals \X (1..fresh'.role)
    <3>1. members \subseteq Principals \X (1..fresh.role)
      BY <1>2 DEF AuthzTypeOK
    <3> QED BY <1>1, <3>1
  <2> QED BY <1>2, <2>1, <2>2, <2>3, <2>4, <2>5 DEF AuthzTypeOK
<1>8. PeopleOK'
  <2>1. R \notin {1, 2}
    BY <1>2, <1>3 DEF PeopleOK
  <2>2. \A r \in DOMAIN roles : roles[r].name # x
    BY DEF RoleByName
  <2>3. \A r, s \in DOMAIN roles' : roles'[r].name = roles'[s].name => r = s
    <3> SUFFICES ASSUME NEW r \in DOMAIN roles', NEW s \in DOMAIN roles', roles'[r].name = roles'[s].name
                 PROVE  r = s
      OBVIOUS
    <3>1. CASE r \in DOMAIN roles /\ s \in DOMAIN roles
      BY <1>2, <1>5, <3>1 DEF PeopleOK
    <3>2. CASE r \notin DOMAIN roles \/ s \notin DOMAIN roles
      BY <1>4, <1>5, <2>2, <3>2
    <3> QED BY <3>1, <3>2
  <2>4. \A r \in DOMAIN roles' : r \notin {1, 2} => roles'[r].name \in Extensions
    BY <1>2, <1>4, <1>5 DEF PeopleOK
  <2> QED BY <1>2, <1>5, <1>6, <2>1, <2>3, <2>4 DEF PeopleOK
<1>9. MembersOK'
  BY <1>2, <1>5 DEF MembersOK
<1>10. NoBorrowedAuthority'
  <2>1. \A g \in grants : g.role # R
    BY <1>1, <1>2 DEF AuthzTypeOK
  <2> QED BY <1>2, <1>6, <2>1 DEF NoBorrowedAuthority
<1>11. RolesOK'
  BY <1>1, <1>7, <1>8, <1>9, <1>10 DEF RolesOK
<1>12. RolesAge
  <2>1. \A r \in DOMAIN roles' : r \in 1..fresh.role => r \in DOMAIN roles
    BY <1>1, <1>5
  <2> QED BY <1>1, <1>5, <1>6, <2>1 DEF RolesAge
<1>13. Beside(R)
  BY <1>5 DEF Beside
<1> QED BY <1>3, <1>4, <1>5, <1>6, <1>11, <1>12, <1>13 DEF R

LEMMA RoleGone ==
  ASSUME IInv, NEW R, R \in DOMAIN roles => roles[R].name \notin Users, DeleteRole(R),
         UNCHANGED <<vouched, scenario, fresh, left>>
  PROVE  /\ RolesOK' /\ RolesAge /\ Beside(R)
         /\ DOMAIN roles' = DOMAIN roles \ {R} /\ \A r \in DOMAIN roles' : roles'[r] = roles[r]
<1>1. /\ AuthzTypeOK /\ PeopleOK /\ MembersOK /\ NoBorrowedAuthority
      /\ fresh' \in [role : Nat, dek : Nat, job : Nat] /\ fresh.role \in Nat
  BY RoleNumbers DEF IInv, RolesOK
<1>2. /\ DOMAIN roles' = DOMAIN roles \ {R} /\ \A r \in DOMAIN roles' : roles'[r] = roles[r]
      /\ grants' \subseteq grants /\ members' \subseteq members
      /\ \A g \in grants : g.role # R => g \in grants'
      /\ \A m \in members : m[2] # R => m \in members'
      /\ R \in DOMAIN roles => \A m \in members' : m[2] # R
  BY DEF DeleteRole, Restrict
<1>3. AuthzTypeOK'
  BY <1>1, <1>2 DEF AuthzTypeOK
<1>4. PeopleOK'
  <2>1. R \notin {1, 2}
    BY <1>1 DEF PeopleOK, Users
  <2> QED BY <1>1, <1>2, <2>1 DEF PeopleOK
<1>5. MembersOK'
  BY <1>1, <1>2 DEF MembersOK
<1>6. NoBorrowedAuthority'
  BY <1>1, <1>2 DEF NoBorrowedAuthority
<1>7. RolesAge
  BY <1>1, <1>2 DEF RolesAge
<1>8. Beside(R)
  BY <1>2 DEF Beside
<1> QED BY <1>1, <1>2, <1>3, <1>4, <1>5, <1>6, <1>7, <1>8 DEF RolesOK

(* Grants change: those of an extension's role stay within what was vouched for. *)
LEMMA GrantsMove ==
  ASSUME IInv, NEW R, \A g \in grants \cup grants' : g.role # R => (g \in grants <=> g \in grants'),
         \A g \in grants' : /\ g \in [role : 1..fresh.role, perm : Perms, cond : Conditions]
                            /\ g \notin grants /\ g.role \in DOMAIN vouched =>
                                 g.perm \in vouched[g.role] /\ g.cond = None,
         UNCHANGED <<roles, members, vouched, scenario, fresh>>, LeftFalls
  PROVE  RolesOK' /\ RolesAge /\ Beside(R) /\ NoNewRole
<1>1. /\ AuthzTypeOK /\ PeopleOK /\ MembersOK /\ NoBorrowedAuthority
      /\ fresh' \in [role : Nat, dek : Nat, job : Nat] /\ fresh.role \in Nat
  BY RoleNumbers DEF IInv, RolesOK
<1>2. AuthzTypeOK'
  BY <1>1 DEF AuthzTypeOK, LeftFalls
<1>3. PeopleOK' /\ MembersOK'
  BY <1>1 DEF PeopleOK, MembersOK
<1>4. NoBorrowedAuthority'
  BY <1>1 DEF NoBorrowedAuthority
<1>5. RolesAge
  BY <1>1 DEF RolesAge
<1>6. Beside(R)
  BY DEF Beside
<1> QED BY <1>1, <1>2, <1>3, <1>4, <1>5, <1>6, RolesKeepNames DEF RolesOK

LEMMA MemberJoins ==
  ASSUME IInv, NEW R \in 1..fresh.role, NEW x \in Extensions, members' = members \cup {<<x, R>>},
         x \in Plugins \/ scenario.dialect = "postgres" => R \in DOMAIN roles /\ roles[R].name = x,
         UNCHANGED <<roles, grants, vouched, scenario, fresh, left>>
  PROVE  RolesOK' /\ RolesAge /\ Beside(R) /\ NoNewRole
<1>1. /\ AuthzTypeOK /\ PeopleOK /\ MembersOK /\ NoBorrowedAuthority
      /\ fresh' \in [role : Nat, dek : Nat, job : Nat] /\ fresh.role \in Nat
  BY RoleNumbers DEF IInv, RolesOK
<1>2. <<x, R>>[1] = x /\ <<x, R>>[2] = R /\ <<x, R>> \in Principals \X (1..fresh.role)
  BY DEF Principals
<1>3. AuthzTypeOK'
  BY <1>1, <1>2 DEF AuthzTypeOK
<1>4. x \notin Users
  BY AuthzAssumption DEF Extensions
<1>5. PeopleOK'
  <2>1. \A m \in members' : m[1] \in Users => m[2] \in {1, 2}
    BY <1>1, <1>2, <1>4 DEF PeopleOK
  <2> QED BY <1>1, <2>1 DEF PeopleOK
<1>6. MembersOK'
  BY <1>1, <1>2 DEF MembersOK
<1>7. NoBorrowedAuthority' /\ RolesAge
  BY <1>1 DEF NoBorrowedAuthority, RolesAge
<1>8. Beside(R)
  BY DEF Beside
<1> QED BY <1>1, <1>3, <1>5, <1>6, <1>7, <1>8, RolesKeepNames DEF RolesOK
--------------------------------------------------------------------------------
(* The steps. *)

LEMMA AdministerOK ==
  ASSUME IInv, Administer, UNCHANGED <<vault, extension, state>>
  PROVE  IInv'
<1>0. PICK u \in Users : \E r \in RoleByName(u), perm \in Perms, cond \in Conditions :
        \/ Spend("grant") /\ GrantPermission(r, perm, cond)
        \/ Spend("revoke") /\ RevokePermission(r, perm)
  BY DEF Administer
<1>1. PICK r \in RoleByName(u), perm \in Perms, cond \in Conditions :
        \/ Spend("grant") /\ GrantPermission(r, perm, cond)
        \/ Spend("revoke") /\ RevokePermission(r, perm)
  BY <1>0
<1>2. /\ UNCHANGED <<roles, members, vouched, scenario, fresh, task>>
      /\ UNCHANGED <<plugins, belongings>>
  BY DEF Administer, extension
<1>3. /\ AuthzTypeOK /\ PeopleOK
  BY DEF IInv, RolesOK
<1>4. r \in 1..fresh.role /\ r \in DOMAIN roles /\ roles[r].name = u /\ u \notin Extensions /\ r \in {1, 2}
  BY <1>3, AuthzAssumption DEF RoleByName, AuthzTypeOK, PeopleOK
<1>5. r \notin DOMAIN vouched /\ roles[r].name \notin Plugins
  BY <1>3, <1>4 DEF PeopleOK, Extensions
<1>6. LeftFalls
  <2>1. {"grant", "revoke"} \subseteq Kinds
    BY DEF Kinds
  <2> QED BY <1>1, <2>1, SpendFalls
<1>7. /\ \A g \in grants \cup grants' : g.role # r => (g \in grants <=> g \in grants')
      /\ \A g \in grants' : /\ g \in [role : 1..fresh.role, perm : Perms, cond : Conditions]
                            /\ g \notin grants => g.role = r
  <2> DEFINE new == [role |-> r, perm |-> perm, cond |-> cond]
  <2>1. new \in [role : 1..fresh.role, perm : Perms, cond : Conditions] /\ new.role = r
    BY <1>4
  <2>2. grants \subseteq [role : 1..fresh.role, perm : Perms, cond : Conditions]
    BY <1>3 DEF AuthzTypeOK
  <2>3. CASE GrantPermission(r, perm, cond)
    <3>1. grants' = grants \cup {new}
      BY <2>3 DEF GrantPermission
    <3> HIDE DEF new
    <3> QED BY <2>1, <2>2, <3>1
  <2>4. CASE RevokePermission(r, perm)
    BY <2>2, <2>4 DEF RevokePermission
  <2> QED BY <1>1, <2>3, <2>4
<1>8. RolesOK' /\ RolesAge /\ Beside(r) /\ NoNewRole
  BY <1>2, <1>5, <1>6, <1>7, GrantsMove
<1>9. MovedOK /\ NoNewSave /\ \A d \in Clients : task'[d] = task[d]
  BY <1>2, StayCalm, CalmSave
<1> QED BY <1>2, <1>5, <1>6, <1>8, <1>9, ApartStep

(* A role that an automation has looked up goes; no plugin's can be under that id. *)
LEMMA RevokeRoleOK ==
  ASSUME IInv, NEW c \in Clients, \/ RevokeRole(c, "save", "create")
                                  \/ RevokeRole(c, "delete", "commit")
  PROVE  IInv'
<1>1. PICK R, a : R = task[c].role /\ a = task[c].id
  OBVIOUS
<1>2. /\ task[c].op \in {"save", "delete"} /\ task[c].at = "revoke" /\ DeleteRole(R)
      /\ UNCHANGED <<vouched, scenario, fresh, left, vault, state>> /\ UNCHANGED <<plugins, belongings>>
      /\ task[c].op = "save" => Goto(c, "create")
      /\ task[c].op = "delete" => Goto(c, "commit")
  BY <1>1 DEF RevokeRole, At, extension
<1>3. {"op", "at"} \subseteq DOMAIN task[c] /\ Known(task[c], {a}) /\ a \in Automations
  BY <1>1, <1>2, ApprovalTask, DeleteTask DEF ApprovalOK, DeleteOK
<1>4. R \in DOMAIN roles => roles[R].name = a /\ roles[R].name \notin Users /\ roles[R].name \notin Plugins
  BY <1>1, <1>3, AuthzAssumption DEF Known, Extensions
<1>5. /\ RolesOK' /\ RolesAge /\ Beside(R)
      /\ DOMAIN roles' = DOMAIN roles \ {R} /\ \A r \in DOMAIN roles' : roles'[r] = roles[r]
  BY <1>2, <1>4, RoleGone
<1>6. NoNewRole
  BY <1>5 DEF NoNewRole, RoleByName
<1>7. LeftFalls
  BY <1>2, LeftRests
<1>8. CASE task[c].op = "save"
  <2>1. task[c].perms \subseteq task[c].held
    BY <1>2, <1>8, ApprovalTask DEF ApprovalOK
  <2>2. Calm /\ MovedOK
    BY <1>2, <1>8, <2>1, ApprovalGoto
  <2>3. /\ \A d \in Clients : Owning(task'[d]) \/ Removing(task'[d]) => task'[d] = task[d]
        /\ \A d \in Clients : task'[d] # task[d] => ~Undisturbed(task[d])'
    BY <2>2 DEF Calm, Undisturbed
  <2> QED BY <1>2, <1>4, <1>5, <1>6, <1>7, <2>2, <2>3, CalmSave, ApartStep
<1>9. CASE task[c].op = "delete"
  <2>1. DeleteOK(task[c])
    BY <1>9, DeleteTask
  <2>2. /\ DOMAIN task' = Clients
        /\ \A d \in Clients : d # c => task'[d] = task[d]
        /\ DOMAIN task'[c] = DOMAIN task[c] /\ task'[c].at = "commit" /\ task'[c].op = "delete"
        /\ \A f \in DOMAIN task[c] : f # "at" => task'[c][f] = task[c][f]
    BY <1>2, <1>9, Gone DEF IInv
  <2>3. \A f \in {"id", "before", "alone"} : task'[c][f] = task[c][f]
    BY <2>1, <2>2 DEF DeleteOK
  <2>4. DeleteOK(task[c])'
    BY <1>2, <2>1, <2>2, <2>3 DEF DeleteOK
  <2>5. DeletesOn(c)
    BY <1>3, <2>2, <2>4 DEF DeletesOn
  <2>6. Undisturbed(task[c])' => DeleterOK(c)'
    <3>1. ASSUME Undisturbed(task[c])' PROVE NoSave(a) /\ RoleByName(a) \subseteq {R}
      <4>1. Undisturbed(task[c])
        BY <1>2, <1>9, <2>3, <3>1 DEF Undisturbed, Deleting
      <4> QED BY <1>1, <1>2, <4>1 DEF IInv, DeletersOK, DeleterOK
    <3>2. NoSave(a) => NoSave(a)'
      BY <2>2 DEF NoSave
    <3>3. RoleByName(a) \subseteq {R} => RoleByName(a)' = {}
      BY <1>5 DEF RoleByName
    <3>4. task'[c].id = a /\ task'[c].at = "commit"
      BY <1>1, <2>2, <2>3
    <3> QED BY <3>1, <3>2, <3>3, <3>4 DEF DeleterOK, NoSave, RoleByName
  <2> QED BY <1>2, <1>4, <1>5, <1>6, <1>7, <2>2, <2>5, <2>6, DeletesMoves, ApartStep
<1> QED BY <1>2, <1>8, <1>9

(* The role of an uninstalled plugin goes, and the rows that name it are marked. *)
LEMMA UninstallRoleOK ==
  ASSUME IInv, NEW c \in Clients, UninstallRole(c), UNCHANGED state
  PROVE  IInv'
<1>1. PICK R : R = task[c].role
  OBVIOUS
<1>2. /\ task[c].op = "uninstall" /\ task[c].at = "role" /\ DeleteRole(R) /\ Goto(c, "schedules")
      /\ UNCHANGED <<vouched, scenario, fresh, left, vault, belongings>>
      /\ plugins' = [x \in DOMAIN plugins |-> [plugins[x] EXCEPT !.leaving = @ \/ plugins[x].role = R]]
  BY <1>1 DEF UninstallRole, At
<1>3. {"op", "at"} \subseteq DOMAIN task[c] /\ UninstallOK(task[c]) /\ Known(task[c], Plugins)
  BY <1>2, UninstallTask DEF UninstallOK
<1>4. R \in DOMAIN roles => roles[R].name \notin Users
  BY <1>1, <1>3, AuthzAssumption DEF Known, Extensions
<1>5. /\ RolesOK' /\ RolesAge /\ Beside(R)
      /\ DOMAIN roles' = DOMAIN roles \ {R} /\ \A r \in DOMAIN roles' : roles'[r] = roles[r]
  BY <1>2, <1>4, RoleGone
<1>6. NoNewRole /\ LeftFalls
  BY <1>2, <1>5, LeftRests DEF NoNewRole, RoleByName
<1>7. /\ DOMAIN task' = Clients
      /\ \A d \in Clients : d # c => task'[d] = task[d]
      /\ DOMAIN task'[c] = DOMAIN task[c] /\ task'[c].at = "schedules" /\ task'[c].op = "uninstall"
      /\ task'[c].id = task[c].id
  BY <1>2, <1>3, Gone DEF IInv, UninstallOK
<1>8. UninstallsOn(c)
  BY <1>3, <1>7 DEF UninstallsOn, UninstallOK
<1>9. \A x \in DOMAIN plugins :
        /\ DOMAIN plugins'[x] = DOMAIN plugins[x] /\ plugins'[x].manifest = plugins[x].manifest
        /\ plugins'[x].role = plugins[x].role /\ plugins'[x].leaving = (plugins[x].leaving \/ plugins[x].role = R)
        /\ plugins[x].leaving \in BOOLEAN
  <2> SUFFICES ASSUME NEW x \in DOMAIN plugins
               PROVE  /\ DOMAIN plugins'[x] = DOMAIN plugins[x] /\ plugins'[x].manifest = plugins[x].manifest
                      /\ plugins'[x].role = plugins[x].role
                      /\ plugins'[x].leaving = (plugins[x].leaving \/ plugins[x].role = R)
                      /\ plugins[x].leaving \in BOOLEAN
    OBVIOUS
  <2>1. DOMAIN plugins[x] = {"manifest", "role", "by", "leaving"} /\ plugins[x].leaving \in BOOLEAN
    BY DEF IInv, PluginsOK, PluginOK
  <2> QED BY <1>2, <2>1
<1>10. PluginsOK'
  <2>1. \A x \in DOMAIN plugins : plugins'[x].leaving \in BOOLEAN
                                  /\ (~plugins'[x].leaving => ~plugins[x].leaving /\ plugins[x].role # R)
    BY <1>9
  <2>2. DOMAIN plugins' = DOMAIN plugins /\ UNCHANGED belongings
    BY <1>2
  <2> QED BY <1>5, <1>9, <2>1, <2>2, PluginsBeside
<1>11. OwnersOK'
  <2> SUFFICES ASSUME NEW d \in Clients, Owning(task'[d]) PROVE OwnerOK(d)'
    BY DEF OwnersOK
  <2>1. d # c /\ task'[d] = task[d] /\ OwnerOK(d) /\ Owning(task[d])
    BY <1>7 DEF IInv, OwnersOK, Owning
  <2>2. task[d].role # R
    BY <1>1, <1>2, <2>1 DEF OwnerOK, Removing
  <2>3. \A e \in Clients : e # d /\ (Owning(task'[e]) \/ Removing(task'[e])) => task'[e].role # task[d].role
    BY <1>7, <2>1 DEF OwnerOK, Owning, Removing
  <2>4. \A x \in DOMAIN plugins' : x \in DOMAIN plugins /\ plugins'[x].role = plugins[x].role
    BY <1>2, <1>9
  <2> QED BY <1>5, <2>1, <2>2, <2>3, <2>4, OwnerBeside
<1>12. \A d \in Clients : task'[d] # task[d] => ~Undisturbed(task[d])'
  BY <1>7 DEF Undisturbed, Deleting
<1> QED BY <1>2, <1>5, <1>6, <1>8, <1>10, <1>11, <1>12, UninstallMoves, RoleStep

(* Roles of tasks on their way are among the ids taken. *)
LEMMA TakenRoles ==
  ASSUME IInv
  PROVE  /\ \A d \in Clients : Owning(task[d]) \/ Removing(task[d]) => task[d].role \in 1..fresh.role
         /\ \A x \in DOMAIN plugins : plugins[x].role \in 1..fresh.role
<1>1. ASSUME NEW d \in Clients, Owning(task[d]) PROVE task[d].role \in 1..fresh.role
  <2>1. OwnerOK(d)
    BY <1>1 DEF IInv, OwnersOK
  <2> QED BY <2>1 DEF OwnerOK, Exactly, IInv, RolesOK, AuthzTypeOK
<1>2. ASSUME NEW d \in Clients, Removing(task[d]) PROVE task[d].role \in 1..fresh.role
  BY <1>2, UninstallTask DEF Removing, UninstallOK, Known
<1>3. ASSUME NEW x \in DOMAIN plugins PROVE plugins[x].role \in 1..fresh.role
  BY DEF IInv, PluginsOK, PluginOK, Known
<1> QED BY <1>1, <1>2, <1>3

LEMMA CreateOwnRoleOK ==
  ASSUME IInv, NEW c \in Clients, task[c].op \in {"install", "save"}, CreateOwnRole(c),
         UNCHANGED <<vault, extension, state>>
  PROVE  IInv'
<1>1. {"op", "at"} \subseteq DOMAIN task[c] /\ ApprovalOK(task[c]) /\ task[c].at = "create"
      /\ UNCHANGED <<plugins, belongings>>
  BY ApprovalTask DEF CreateOwnRole, extension
<1>2. PICK x, held, perms, R : /\ x = task[c].id /\ held = task[c].held /\ perms = task[c].perms
                               /\ R = fresh.role + 1
  OBVIOUS
<1>3. x \in Extensions /\ held \in SUBSET Perms /\ perms \subseteq held
  BY <1>1, <1>2 DEF ApprovalOK, Extensions
<1>4. CASE End(c) /\ UNCHANGED <<tables, scenario, fresh, left>>
  <2>1. Still
    BY <1>4 DEF Still, extension
  <2> QED BY <1>4, <2>1, StillEnd
<1>5. ASSUME RoleByName(x) = {},
             roles' = Amend(roles, Row(R, [name |-> x, core |-> FALSE])),
             fresh' = [fresh EXCEPT !.role = @ + 1],
             NEW mine, mine = CHOOSE r \in DOMAIN roles' : roles'[r].name = x,
             vouched' = Amend(vouched, Row(mine, held)),
             Keep(c, "grant", [role |-> mine, todo |-> perms]),
             UNCHANGED <<grants, members, scenario, left>>
      PROVE  IInv'
  <2>1. /\ DOMAIN roles' = DOMAIN roles \cup {R} /\ roles'[R].name = x
        /\ \A r \in DOMAIN roles : r # R => roles'[r] = roles[r]
    BY <1>5 DEF Amend, Row
  <2>2. \A r \in DOMAIN roles' : roles'[r].name = x => r = R
    BY <1>5, <2>1 DEF RoleByName
  <2>3. mine = R
    BY <1>5, <2>1, <2>2
  <2>4. /\ RolesOK' /\ RolesAge /\ Beside(R) /\ R \notin DOMAIN roles
        /\ vouched'[R] = held /\ \A r \in DOMAIN roles : roles'[r] = roles[r]
    BY <1>2, <1>3, <1>5, <2>3, NewRole
  <2> DEFINE what == [role |-> R, todo |-> perms]
  <2>5. /\ DOMAIN what = {"role", "todo"} /\ what.role = R /\ what.todo = perms
        /\ Keep(c, "grant", what)
    BY <1>5, <2>3
  <2> HIDE DEF what
  <2>6. /\ DOMAIN task' = Clients
        /\ \A d \in Clients : d # c => task'[d] = task[d]
        /\ DOMAIN task'[c] = DOMAIN task[c] \cup {"role", "todo", "at"} /\ task'[c].at = "grant"
        /\ task'[c].role = R /\ task'[c].todo = perms
        /\ \A f \in DOMAIN task[c] : f \notin {"role", "todo", "at"} => task'[c][f] = task[c][f]
    <3>1. /\ DOMAIN task' = Clients
          /\ \A d \in Clients : d # c => task'[d] = task[d]
          /\ DOMAIN task'[c] = DOMAIN task[c] \cup DOMAIN what \cup {"at"} /\ task'[c].at = "grant"
          /\ \A f \in DOMAIN what : f # "at" => task'[c][f] = what[f]
          /\ \A f \in DOMAIN task[c] : f \notin DOMAIN what \cup {"at"} => task'[c][f] = task[c][f]
      BY <2>5, Kept DEF IInv
    <3> QED BY <2>5, <3>1
  <2>7. /\ \A f \in {"op", "id", "by", "perms", "missing", "held"} : task'[c][f] = task[c][f]
        /\ "manifest" \in DOMAIN task[c] => task'[c].manifest = task[c].manifest
        /\ "def" \in DOMAIN task[c] => task'[c].def = task[c].def
    BY <1>1, <2>6 DEF ApprovalOK
  <2>8. fresh.role \in Nat /\ fresh'.role = R /\ R \in 1..R /\ R \notin 1..fresh.role
    BY <1>2, <1>5, RoleNumbers
  <2>9. R \in DOMAIN vouched'
    BY <1>5, <2>3 DEF Amend, Row
  <2>10. Known(task[c], {task[c].id})'
    BY <1>2, <2>1, <2>6, <2>7, <2>8 DEF Known
  <2>11. ApprovalOK(task[c])'
    BY <1>1, <1>2, <1>3, <2>4, <2>6, <2>7, <2>9, <2>10 DEF ApprovalOK
  <2>12. MovedOK
    BY <1>1, <2>6, <2>7, <2>11 DEF MovedOK, TaskOK
  <2>13. NoNewSave /\ \A d \in Clients : task'[d] # task[d] => ~Undisturbed(task[d])'
    BY <2>6, <2>7 DEF NoNewSave, Undisturbed, Deleting
  <2>14. NoNewRole
    <3> SUFFICES ASSUME NEW a \in Automations, NoSave(a) PROVE RoleByName(a)' \subseteq RoleByName(a)
      BY DEF NoNewRole
    <3>1. a # x
      BY <1>1, <1>2, AuthzAssumption DEF NoSave, ApprovalOK
    <3> QED BY <2>1, <2>4, <3>1 DEF RoleByName
  <2>15. LeftFalls
    BY <1>5, LeftRests
  <2>16. CASE task[c].op = "save"
    <3>1. \A d \in Clients : Owning(task'[d]) \/ Removing(task'[d]) => task'[d] = task[d]
      BY <2>6, <2>7, <2>16 DEF Owning, Removing
    <3> QED BY <1>1, <1>5, <2>4, <2>12, <2>13, <2>14, <2>15, <3>1, ApartStep
  <2>17. CASE task[c].op = "install"
    <3>1. /\ \A d \in Clients : Owning(task[d]) \/ Removing(task[d]) => task[d].role # R
          /\ \A y \in DOMAIN plugins : plugins[y].role # R
      BY <2>8, TakenRoles
    <3>2. OwnerOK(c)'
      <4>1. \A g \in grants' : g.role # R
        BY <1>5, <2>8 DEF IInv, RolesOK, AuthzTypeOK
      <4>2. Exactly(task[c].role, task[c].id, task[c].perms \ task[c].todo)'
        BY <1>2, <2>1, <2>6, <2>7, <4>1 DEF Exactly, GrantsOf
      <4> QED BY <1>1, <2>6, <3>1, <4>2 DEF OwnerOK
    <3>3. OwnersOK'
      <4> SUFFICES ASSUME NEW d \in Clients, Owning(task'[d]), d # c PROVE OwnerOK(d)'
        BY <3>2 DEF OwnersOK
      <4>1. task'[d] = task[d] /\ OwnerOK(d) /\ Owning(task[d]) /\ task[d].role # R
        BY <2>6, <3>1 DEF IInv, OwnersOK
      <4>2. \A e \in Clients : e # d /\ (Owning(task'[e]) \/ Removing(task'[e])) => task'[e].role # task[d].role
        BY <2>6, <4>1 DEF OwnerOK
      <4> QED BY <1>1, <2>4, <4>1, <4>2, OwnerBeside
    <3>4. PluginsOK'
      <4>1. \A y \in DOMAIN plugins : plugins[y].leaving \in BOOLEAN
        BY DEF IInv, PluginsOK, PluginOK
      <4> QED BY <1>1, <2>4, <3>1, <4>1, PluginsBeside
    <3> QED BY <1>5, <2>4, <2>12, <2>13, <2>14, <2>15, <3>3, <3>4, RoleStep
  <2> QED BY <2>16, <2>17
<1>6. CASE /\ CreateRole(x, FALSE)
           /\ LET mine == CHOOSE r \in DOMAIN roles' : roles'[r].name = x IN
              /\ vouched' = Amend(vouched, Row(mine, held))
              /\ Keep(c, "grant", [role |-> mine, todo |-> perms])
           /\ UNCHANGED <<grants, members, scenario, left>>
  <2>1. PICK mine : mine = CHOOSE r \in DOMAIN roles' : roles'[r].name = x
    OBVIOUS
  <2>2. /\ RoleByName(x) = {}
        /\ roles' = Amend(roles, Row(R, [name |-> x, core |-> FALSE]))
        /\ fresh' = [fresh EXCEPT !.role = @ + 1]
        /\ vouched' = Amend(vouched, Row(mine, held))
        /\ Keep(c, "grant", [role |-> mine, todo |-> perms])
        /\ UNCHANGED <<grants, members, scenario, left>>
    BY <1>2, <1>6, <2>1 DEF CreateRole
  <2> QED BY <1>5, <2>1, <2>2
<1> QED BY <1>2, <1>4, <1>6 DEF CreateOwnRole

LEMMA GrantOwnOK ==
  ASSUME IInv, NEW c \in Clients, task[c].op \in {"install", "save"}, GrantOwn(c),
         UNCHANGED <<vault, extension, state>>
  PROVE  IInv'
<1>1. /\ {"op", "at"} \subseteq DOMAIN task[c] /\ ApprovalOK(task[c]) /\ task[c].at = "grant"
      /\ UNCHANGED <<roles, members, vouched, scenario, fresh, left>> /\ UNCHANGED <<plugins, belongings>>
  BY ApprovalTask DEF GrantOwn, extension
<1>2. CASE End(c) /\ UNCHANGED grants
  <2>1. Still
    BY <1>1, <1>2 DEF Still, extension, tables
  <2> QED BY <1>1, <1>2, <2>1, StillEnd
<1>3. ASSUME NEW perm \in task[c].todo, GrantPermission(task[c].role, perm, None),
             Keep(c, "grant", [todo |-> task[c].todo \ {perm}])
      PROVE  IInv'
  <2>1. PICK R, x, perms, todo : /\ R = task[c].role /\ x = task[c].id /\ perms = task[c].perms
                                 /\ todo = task[c].todo
    OBVIOUS
  <2>2. /\ todo \subseteq perms /\ perms \subseteq Perms /\ Known(task[c], {x}) /\ R \in 1..fresh.role
        /\ R \in DOMAIN vouched /\ perms \subseteq vouched[R]
    BY <1>1, <2>1 DEF ApprovalOK, Known
  <2> DEFINE new == [role |-> R, perm |-> perm, cond |-> None]
  <2>3. /\ grants' = grants \cup {new} /\ new.role = R /\ new.perm = perm /\ new.cond = None
        /\ new \in [role : 1..fresh.role, perm : Perms, cond : Conditions]
    BY <1>3, <2>1, <2>2 DEF GrantPermission, Conditions
  <2> HIDE DEF new
  <2>4. LeftFalls
    BY <1>1, LeftRests
  <2>5. grants \subseteq [role : 1..fresh.role, perm : Perms, cond : Conditions]
    BY DEF IInv, RolesOK, AuthzTypeOK
  <2>6. /\ \A g \in grants \cup grants' : g.role # R => (g \in grants <=> g \in grants')
        /\ \A g \in grants' : /\ g \in [role : 1..fresh.role, perm : Perms, cond : Conditions]
                              /\ g \notin grants /\ g.role \in DOMAIN vouched =>
                                   g.perm \in vouched[g.role] /\ g.cond = None
    BY <1>3, <2>1, <2>2, <2>3, <2>5
  <2>7. RolesOK' /\ RolesAge /\ Beside(R) /\ NoNewRole
    BY <1>1, <2>4, <2>6, GrantsMove
  <2>8. DOMAIN [todo |-> todo \ {perm}] = {"todo"} /\ [todo |-> todo \ {perm}].todo = todo \ {perm}
    OBVIOUS
  <2>9. /\ DOMAIN task' = Clients
        /\ \A d \in Clients : d # c => task'[d] = task[d]
        /\ DOMAIN task'[c] = DOMAIN task[c] \cup {"todo", "at"} /\ task'[c].at = "grant"
        /\ task'[c].todo = todo \ {perm}
        /\ \A f \in DOMAIN task[c] : f \notin {"todo", "at"} => task'[c][f] = task[c][f]
    BY <1>3, <2>1, <2>8, Kept DEF IInv
  <2>10. /\ \A f \in {"op", "id", "by", "perms", "missing", "held", "role"} : task'[c][f] = task[c][f]
         /\ "manifest" \in DOMAIN task[c] => task'[c].manifest = task[c].manifest
         /\ "def" \in DOMAIN task[c] => task'[c].def = task[c].def
    BY <1>1, <2>9 DEF ApprovalOK
  <2>11. Known(task[c], {task[c].id})'
    BY <1>1, <2>1, <2>2, <2>9, <2>10 DEF Known
  <2>12. ApprovalOK(task[c])'
    BY <1>1, <2>1, <2>2, <2>9, <2>10, <2>11 DEF ApprovalOK
  <2>13. MovedOK
    BY <1>1, <2>9, <2>10, <2>12 DEF MovedOK, TaskOK
  <2>14. NoNewSave /\ \A d \in Clients : task'[d] # task[d] => ~Undisturbed(task[d])'
    BY <2>9, <2>10 DEF NoNewSave, Undisturbed, Deleting
  <2>15. CASE task[c].op = "save"
    <3>1. \A d \in Clients : Owning(task'[d]) \/ Removing(task'[d]) => task'[d] = task[d]
      BY <2>9, <2>10, <2>15 DEF Owning, Removing
    <3>2. R \in DOMAIN roles => roles[R].name \notin Plugins
      BY <1>1, <2>1, <2>2, <2>15, AuthzAssumption DEF Known, ApprovalOK
    <3> QED BY <1>1, <2>4, <2>7, <2>13, <2>14, <3>1, <3>2, ApartStep
  <2>16. CASE task[c].op = "install"
    <3>1. OwnerOK(c) /\ Exactly(R, x, perms \ todo) /\ \A y \in DOMAIN plugins : plugins[y].role # R
      BY <1>1, <2>1, <2>16 DEF IInv, OwnersOK, Owning, OwnerOK
    <3>2. OwnerOK(c)'
      <4>1. {g.perm : g \in {h \in grants' : h.role = R}} = {g.perm : g \in {h \in grants : h.role = R}} \cup {perm}
        BY <2>3
      <4>2. perms \ (todo \ {perm}) = (perms \ todo) \cup {perm}
        BY <1>3, <2>1, <2>2
      <4>3. Exactly(task[c].role, task[c].id, task[c].perms \ task[c].todo)'
        <5>1. task'[c].role = R /\ task'[c].id = x /\ task'[c].perms \ task'[c].todo = perms \ (todo \ {perm})
          BY <2>1, <2>9, <2>10
        <5>2. GrantsOf(R)' = GrantsOf(R) \cup {perm}
          BY <4>1 DEF GrantsOf
        <5>3. R \in DOMAIN roles' /\ roles'[R].name = x /\ GrantsOf(R)' = perms \ (todo \ {perm})
          BY <1>1, <2>1, <3>1, <4>2, <5>2 DEF Exactly
        <5>4. GrantsOf(task[c].role)' = GrantsOf(R)'
          BY <5>1
        <5> QED BY <5>1, <5>3, <5>4 DEF Exactly
      <4>4. \A d \in Clients : d # c /\ (Owning(task'[d]) \/ Removing(task'[d])) => task'[d].role # task'[c].role
        BY <2>9, <2>10, <3>1 DEF OwnerOK
      <4> QED BY <1>1, <2>1, <2>9, <2>10, <3>1, <4>3, <4>4 DEF OwnerOK
    <3>3. OwnersOK'
      <4> SUFFICES ASSUME NEW d \in Clients, Owning(task'[d]), d # c PROVE OwnerOK(d)'
        BY <3>2 DEF OwnersOK
      <4>1. task'[d] = task[d] /\ OwnerOK(d) /\ Owning(task[d]) /\ task[d].role # R
        BY <2>1, <2>9, <3>1 DEF IInv, OwnersOK, OwnerOK
      <4>2. \A e \in Clients : e # d /\ (Owning(task'[e]) \/ Removing(task'[e])) => task'[e].role # task[d].role
        BY <2>1, <2>9, <2>10, <4>1 DEF OwnerOK
      <4> QED BY <1>1, <2>7, <4>1, <4>2, OwnerBeside
    <3>4. PluginsOK'
      <4>1. \A y \in DOMAIN plugins : plugins[y].leaving \in BOOLEAN
        BY DEF IInv, PluginsOK, PluginOK
      <4> QED BY <1>1, <2>7, <3>1, <4>1, PluginsBeside
    <3> QED BY <1>1, <2>4, <2>7, <2>13, <2>14, <3>3, <3>4, RoleStep
  <2> QED BY <2>15, <2>16
<1> QED BY <1>2, <1>3 DEF GrantOwn

LEMMA AssignOwnOK ==
  ASSUME IInv, NEW c \in Clients, \/ task[c].op = "install" /\ AssignOwn(c, "commit")
                                  \/ task[c].op = "save" /\ AssignOwn(c, "destination"),
         UNCHANGED <<vault, extension, state>>
  PROVE  IInv'
<1>1. /\ {"op", "at"} \subseteq DOMAIN task[c] /\ ApprovalOK(task[c]) /\ task[c].at = "grant" /\ task[c].todo = {}
      /\ UNCHANGED <<roles, grants, vouched, scenario, fresh, left>> /\ UNCHANGED <<plugins, belongings>>
  BY ApprovalTask DEF AssignOwn, extension
<1>2. CASE End(c) /\ UNCHANGED members
  <2>1. Still
    BY <1>1, <1>2 DEF Still, extension, tables
  <2> QED BY <1>1, <1>2, <2>1, StillEnd
<1>3. ASSUME References(task[c].role), AssignRole(task[c].id, task[c].role),
             \/ task[c].op = "install" /\ Goto(c, "commit")
             \/ task[c].op = "save" /\ Goto(c, "destination")
      PROVE  IInv'
  <2>1. PICK R, x, perms : R = task[c].role /\ x = task[c].id /\ perms = task[c].perms
    OBVIOUS
  <2>2. Known(task[c], {x}) /\ R \in 1..fresh.role /\ members' = members \cup {<<x, R>>} /\ x \in Extensions
    BY <1>1, <1>3, <2>1 DEF ApprovalOK, Known, AssignRole, Extensions
  <2>3. CASE task[c].op = "save"
    <3>1. R \in DOMAIN roles => roles[R].name = x
      BY <2>1, <2>2 DEF Known
    <3>2. x \in Automations /\ x \notin Plugins
      BY <1>1, <2>1, <2>3, AuthzAssumption DEF ApprovalOK
    <3>3. scenario.dialect = "postgres" => R \in DOMAIN roles
      BY <1>3, <2>1 DEF References
    <3>4. RolesOK' /\ RolesAge /\ Beside(R) /\ NoNewRole
      BY <1>1, <2>2, <3>1, <3>2, <3>3, MemberJoins
    <3>5. Calm /\ MovedOK /\ LeftFalls
      BY <1>1, <1>3, <2>3, ApprovalGoto, LeftRests
    <3>6. /\ \A d \in Clients : Owning(task'[d]) \/ Removing(task'[d]) => task'[d] = task[d]
          /\ \A d \in Clients : task'[d] # task[d] => ~Undisturbed(task[d])'
      BY <3>5 DEF Calm, Undisturbed
    <3> QED BY <1>1, <3>1, <3>2, <3>4, <3>5, <3>6, CalmSave, ApartStep
  <2>4. CASE task[c].op = "install"
    <3>1. OwnerOK(c) /\ Exactly(R, x, perms) /\ \A y \in DOMAIN plugins : plugins[y].role # R
      <4>1. OwnerOK(c)
        BY <1>1, <2>4 DEF IInv, OwnersOK, Owning
      <4>2. Exactly(R, x, perms \ {})
        BY <1>1, <2>1, <4>1 DEF OwnerOK
      <4>3. perms \ {} = perms
        OBVIOUS
      <4> QED BY <2>1, <4>1, <4>2, <4>3 DEF OwnerOK
    <3>2. RolesOK' /\ RolesAge /\ Beside(R) /\ NoNewRole
      BY <1>1, <2>2, <3>1, MemberJoins DEF Exactly
    <3>3. LeftFalls
      BY <1>1, LeftRests
    <3>4. /\ DOMAIN task' = Clients
          /\ \A d \in Clients : d # c => task'[d] = task[d]
          /\ DOMAIN task'[c] = DOMAIN task[c] /\ task'[c].at = "commit" /\ task'[c].op = "install"
          /\ \A f \in DOMAIN task[c] : f # "at" => task'[c][f] = task[c][f]
      BY <1>3, <2>4, Gone DEF IInv
    <3>5. \A f \in {"id", "by", "perms", "todo", "missing", "held", "role", "manifest"} :
            task'[c][f] = task[c][f]
      BY <1>1, <2>4, <3>4 DEF ApprovalOK
    <3>6. ApprovalOK(task[c])'
      BY <1>1, <2>4, <3>4, <3>5 DEF ApprovalOK
    <3>7. MovedOK
      BY <1>1, <3>4, <3>6 DEF MovedOK, TaskOK
    <3>8. NoNewSave /\ \A d \in Clients : task'[d] # task[d] => ~Undisturbed(task[d])'
      BY <3>4 DEF NoNewSave, Undisturbed, Deleting
    <3>9. OwnerOK(c)'
      <4>1. Exactly(task[c].role, task[c].id, task[c].perms)'
        BY <1>1, <2>1, <3>1, <3>5 DEF Exactly, GrantsOf
      <4>2. \A d \in Clients : d # c /\ (Owning(task'[d]) \/ Removing(task'[d])) => task'[d].role # task'[c].role
        BY <3>1, <3>4, <3>5 DEF OwnerOK
      <4> QED BY <1>1, <2>1, <2>2, <3>1, <3>4, <3>5, <4>1, <4>2 DEF OwnerOK
    <3>10. OwnersOK'
      <4> SUFFICES ASSUME NEW d \in Clients, Owning(task'[d]), d # c PROVE OwnerOK(d)'
        BY <3>9 DEF OwnersOK
      <4>1. task'[d] = task[d] /\ OwnerOK(d) /\ Owning(task[d]) /\ task[d].role # R /\ Owning(task[c])
        BY <1>1, <2>1, <2>4, <3>1, <3>4 DEF IInv, OwnersOK, OwnerOK, Owning
      <4>2. \A e \in Clients : e # d /\ (Owning(task'[e]) \/ Removing(task'[e])) => task'[e].role # task[d].role
        BY <2>1, <3>4, <3>5, <4>1 DEF OwnerOK
      <4> QED BY <1>1, <3>2, <4>1, <4>2, OwnerBeside
    <3>11. PluginsOK'
      <4>1. \A y \in DOMAIN plugins : plugins[y].leaving \in BOOLEAN
        BY DEF IInv, PluginsOK, PluginOK
      <4> QED BY <1>1, <3>1, <3>2, <4>1, PluginsBeside
    <3> QED BY <1>1, <3>2, <3>3, <3>7, <3>8, <3>10, <3>11, RoleStep
  <2> QED BY <1>3, <2>3, <2>4
<1> QED BY <1>2, <1>3 DEF AssignOwn
--------------------------------------------------------------------------------
(* The inductive invariant, from its parts. *)

LEMMA Begins ==
  ASSUME Init
  PROVE  IInv
<1>1. /\ roles = <<[name |-> Boss, core |-> TRUE], [name |-> Clerk, core |-> FALSE]>>
      /\ grants = [role : {1}, perm : Perms, cond : {None}]
                  \cup [role : {2}, perm : ClerkPerms, cond : {None}]
                  \cup [role : {2}, perm : ConditionalActions, cond : {{"own"}}]
      /\ members = {<<Boss, 1>>, <<Clerk, 2>>} /\ vouched = <<>>
      /\ fresh = [role |-> 2, dek |-> 1, job |-> 0]
      /\ task = [c \in Clients |-> Idle]
      /\ scenario \in Scenarios /\ left = scenario.left
  BY DEF Init, AuthzInit
<1>2. /\ plugins = <<>> /\ belongings = [deliveries |-> {}, kv |-> {}, overlays |-> {}]
      /\ automations = <<>> /\ cursors = <<>> /\ log = <<>> /\ since = <<>> /\ silenced = {}
  BY DEF Init, PluginInit
<1>3. DOMAIN roles = {1, 2} /\ roles[1] = [name |-> Boss, core |-> TRUE] /\ roles[2] = [name |-> Clerk, core |-> FALSE]
  BY <1>1
<1>4. DOMAIN vouched = {} /\ DOMAIN plugins = {} /\ DOMAIN automations = {} /\ DOMAIN cursors = {} /\ DOMAIN since = {}
  BY <1>1, <1>2
<1>5. fresh \in [role : Nat, dek : Nat, job : Nat] /\ fresh.role = 2 /\ 1..2 = {1, 2}
  BY <1>1
<1>6. AuthzTypeOK
  <2>1. \A r \in DOMAIN roles : roles[r] \in [name : Principals, core : BOOLEAN]
    <3>1. Boss \in Principals /\ Clerk \in Principals
      BY DEF Principals, Users
    <3>2. roles[1] \in [name : Principals, core : BOOLEAN] /\ roles[2] \in [name : Principals, core : BOOLEAN]
      BY <1>3, <3>1
    <3> QED BY <1>3, <3>2
  <2>2. ClerkPerms \subseteq Perms /\ ConditionalActions \subseteq Perms
    BY DEF ClerkPerms, ConditionalActions, Perms
  <2>3. None \in Conditions /\ {"own"} \in Conditions
    BY DEF Conditions, Records
  <2>4. grants \subseteq [role : {1, 2}, perm : Perms, cond : Conditions]
    BY <1>1, <2>2, <2>3
  <2>5. members \subseteq Principals \X {1, 2}
    BY <1>1 DEF Principals, Users
  <2>6. left \in [Kinds -> Nat]
    BY <1>1, AuthzAssumption
  <2> QED BY <1>1, <1>3, <1>4, <1>5, <2>1, <2>4, <2>5, <2>6 DEF AuthzTypeOK
<1>7. PeopleOK
  <2>1. \A m \in members : m[2] \in {1, 2}
    BY <1>1
  <2> QED BY <1>3, <1>4, <2>1, AuthzAssumption DEF PeopleOK
<1>8. MembersOK
  <2>1. \A m \in members : m[1] \in Users
    BY <1>1 DEF Users
  <2> QED BY <2>1, AuthzAssumption DEF MembersOK, Extensions
<1>9. RolesOK
  BY <1>4, <1>5, <1>6, <1>7, <1>8 DEF RolesOK, NoBorrowedAuthority
<1>10. DOMAIN task = Clients /\ \A c \in Clients : task[c] = Idle
  BY <1>1
<1>11. TasksOK
  BY <1>10 DEF TasksOK, TaskOK, Idle
<1>12. OwnersOK /\ DeletersOK
  BY <1>10 DEF OwnersOK, DeletersOK, Owning, Undisturbed, Deleting, Idle
<1>13. PluginsOK /\ SilencedOK
  BY <1>2, <1>4 DEF PluginsOK, SilencedOK
<1>14. FeedOK
  BY <1>2, <1>4 DEF FeedOK, EveryChangeRuns
<1>15. VaultOK
  <2>1. PICK h \in Hosts :
          /\ secrets = Row(Min(Names), [key |-> 1, wrapped |-> 1, sealed |-> 1, host |-> h])
          /\ file = [current |-> 1, keys |-> {1}] /\ loaded = file /\ cli = NoRotation /\ drained = 0
    BY DEF Init, VaultInit
  <2>2. \A n \in DOMAIN secrets : secrets[n] = [key |-> 1, wrapped |-> 1, sealed |-> 1, host |-> h]
    BY <2>1 DEF Row
  <2>3. SecretsOpen
    BY <2>1, <2>2 DEF SecretsOpen, Opens
  <2>4. file \in [current : Keys, keys : SUBSET Keys] /\ file.current \in file.keys /\ file.current = 1
    BY <2>1, VaultAssumption
  <2> QED BY <2>1, <2>2, <2>3, <2>4 DEF VaultOK
<1> QED BY <1>9, <1>11, <1>12, <1>13, <1>14, <1>15 DEF IInv

LEMMA SaveRoleOK ==
  ASSUME IInv, NEW c \in Clients, \/ SaveRole(c)
                                  \/ InstallRole(c) /\ UNCHANGED state
  PROVE  IInv'
  BY CreateOwnRoleOK, GrantOwnOK, AssignOwnOK DEF SaveRole, InstallRole

LEMMA Continues ==
  ASSUME IInv, [Next]_platform
  PROVE  IInv'
<1>1. CASE AutomationsNext
  <2>1. CASE Cron \/ Change \/ Fail
    BY <2>1, CronOK, ChangeOK, FailOK
  <2>2. ASSUME NEW c \in Clients,
               \/ BeginSave(c) \/ SaveCheck(c) \/ LookupRole(c, "save", "create")
               \/ RevokeRole(c, "save", "create") \/ SaveRole(c) \/ SaveDestination(c)
               \/ SaveHighWater(c) \/ SaveCommit(c)
        PROVE  IInv'
    BY <2>2, BeginSaveOK, ChecksOK, SaveLookupOK, RevokeRoleOK, SaveRoleOK, SavePreparesOK, SaveCommitOK
  <2>3. ASSUME NEW c \in Clients,
               \/ BeginDelete(c) \/ LookupRole(c, "delete", "commit")
               \/ RevokeRole(c, "delete", "commit") \/ DeleteCommit(c)
               \/ BeginSync(c) \/ SyncList(c) \/ SyncClear(c) \/ SyncUpsert(c)
        PROVE  IInv'
    BY <2>3, BeginDeleteOK, DeleteLookupOK, RevokeRoleOK, DeleteCommitOK, SyncOK
  <2>4. ASSUME NEW c \in Clients,
               \/ BeginPass(c) \/ ReadCursor(c) \/ ReadFeed(c) \/ NextEntry(c) \/ Get(c) \/ Act(c)
               \/ UpdateAuthorize(c) \/ UpdateWrite(c) \/ RecordRun(c) \/ AdvanceCursor(c)
        PROVE  IInv'
    BY <2>4, BeginPassOK, ReadCursorOK, ReadFeedOK, NextEntryOK, FiringOK, ActOK, UpdateWriteOK,
       RecordRunOK, AdvanceCursorOK
  <2>5. ASSUME NEW c \in Clients, BeginJob(c) \/ JobLoad(c) \/ JobDestination(c) \/ JobSend(c)
        PROVE  IInv'
    BY <2>5, JobsOK
  <2> QED BY <1>1, <2>1, <2>2, <2>3, <2>4, <2>5 DEF AutomationsNext
<1>2. CASE PluginNext /\ UNCHANGED state
  <2>1. ASSUME NEW c \in Clients,
               \/ BeginInstall(c) \/ InstallCheck(c) \/ InstallCheckOverlay(c) \/ InstallCheckAbsent(c)
               \/ InstallRole(c) \/ InstallCommit(c) \/ InstallUnschedule(c) \/ InstallSchedule(c)
        PROVE  IInv'
    BY <1>2, <2>1, BeginInstallOK, ChecksOK, InstallChecksOK, SaveRoleOK, InstallCommitOK, InstallSchedulesOK
  <2>2. ASSUME NEW c \in Clients,
               \/ BeginUninstall(c) \/ UninstallGet(c) \/ UninstallRole(c) \/ UninstallSchedules(c)
               \/ UninstallCommit(c) \/ BeginCall(c) \/ CallGet(c) \/ KvSet(c)
        PROVE  IInv'
    BY <1>2, <2>2, BeginUninstallOK, UninstallGetOK, UninstallRoleOK, UninstallSchedulesOK,
       UninstallCommitOK, CallsOK
  <2> QED BY <1>2, <2>1, <2>2 DEF PluginNext
<1>3. CASE VaultNext /\ UNCHANGED <<extension, state>>
  BY <1>3, RotationOK, KeysOK, RestartOK, BeginSecretOK, PutOK, DeleteSecretOK, BeginDestinationOK,
     DestinationsOK DEF VaultNext
<1>4. CASE Administer /\ UNCHANGED <<vault, extension, state>>
  BY <1>4, AdministerOK
<1>5. CASE UNCHANGED platform
  <2>1. Still /\ UNCHANGED left /\ UNCHANGED task
    BY <1>5 DEF platform, Still, extension
  <2> QED BY <2>1, StayCalm, LeftRests, StillStep
<1> QED BY <1>1, <1>2, <1>3, <1>4, <1>5 DEF Next

(* The inductive invariant holds, of any number of tasks and operations. *)
THEOREM Invariance == Spec => []IInv
<1>1. Init => IInv
  BY Begins
<1>2. IInv /\ [Next]_platform => IInv'
  BY Continues
<1> QED BY <1>1, <1>2, PTL DEF Spec

(* Nobody approves more than they hold (grantAuthority, Install): every permission of an
   extension's role was held by its approver, without a condition, when it was asked for. *)
THEOREM NothingIsBorrowed == Spec => []NoBorrowedAuthority
<1>1. IInv => NoBorrowedAuthority
  BY DEF IInv, RolesOK
<1> QED BY <1>1, Invariance, PTL

(* An installed plugin has the role its row names, with just the permissions of its manifest,
   and the rows the manifest calls for, until an uninstall takes the role away. *)
THEOREM PluginsStayWhole == Spec => []InstalledIsWhole
<1>1. IInv => InstalledIsWhole
  <2> SUFFICES ASSUME IInv, NEW x \in DOMAIN plugins, ~plugins[x].leaving
               PROVE  LET p == plugins[x] IN
                      /\ p.role \in DOMAIN roles /\ roles[p.role].name = x
                      /\ PermsOf(x) = p.manifest.perms
                      /\ p.manifest.async => x \in belongings.deliveries
                      /\ p.manifest.overlay = "fits" => x \in belongings.overlays
    BY DEF InstalledIsWhole
  <2>1. PluginOK(x) /\ x \in Plugins
    BY DEF IInv, PluginsOK
  <2>2. PICK r : r = plugins[x].role
    OBVIOUS
  <2>3. Exactly(r, x, plugins[x].manifest.perms) /\ <<x, r>> \in members
    BY <2>1, <2>2 DEF PluginOK
  <2>4. \A s : <<x, s>> \in members => s = r
    <3> SUFFICES ASSUME NEW s, <<x, s>> \in members PROVE s = r
      OBVIOUS
    <3>1. <<x, s>>[1] = x /\ <<x, s>>[2] = s
      OBVIOUS
    <3>2. s \in DOMAIN roles /\ roles[s].name = x
      BY <2>1, <3>1 DEF IInv, RolesOK, MembersOK
    <3> QED BY <2>3, <3>2 DEF Exactly, IInv, RolesOK, PeopleOK
  <2>5. {h \in grants : <<x, h.role>> \in members} = {h \in grants : h.role = r}
    BY <2>3, <2>4
  <2>6. PermsOf(x) = GrantsOf(r)
    BY <2>5 DEF PermsOf, GrantsOf
  <2> QED BY <2>1, <2>2, <2>3, <2>6 DEF PluginOK, Exactly
<1> QED BY <1>1, Invariance, PTL

(* No cursor passes over a change that has no run on record (RunOnce), however many passes
   are at it. *)
THEOREM NoChangeIsPassedOver == Spec => []EveryChangeRuns
<1>1. IInv => EveryChangeRuns
  BY DEF IInv, FeedOK
<1> QED BY <1>1, Invariance, PTL

(* Stored secrets open (rotate.go), for an operator who restarts the server before a rotation,
   on SQLite. *)
THEOREM SecretsStayOpen == Spec => []CarefulSecretsOpen
<1>1. IInv => CarefulSecretsOpen
  BY DEF IInv, VaultOK, CarefulSecretsOpen
<1> QED BY <1>1, Invariance, PTL
--------------------------------------------------------------------------------
(* Deletion takes authority away. *)

\* Tasks other than d's rest; and d's is not about to be let through.
Elsewhere(d) == \A e \in Clients : e # d => task'[e] = task[e]
AtDoor(t) == t.op \in {"pass", "job"} /\ t.at \in {"get", "auth", "load"}

LEMMA GotoElsewhere ==
  ASSUME IInv, NEW d \in Clients, NEW step, Goto(d, step)
  PROVE  Elsewhere(d)
  BY Gone DEF IInv, Elsewhere

LEMMA KeepElsewhere ==
  ASSUME IInv, NEW d \in Clients, NEW step, NEW what, Keep(d, step, what)
  PROVE  Elsewhere(d)
  BY Kept DEF IInv, Elsewhere

LEMMA EndElsewhere ==
  ASSUME IInv, NEW d \in Clients, End(d)
  PROVE  Elsewhere(d) /\ task'[d] = Idle
  BY Ended DEF IInv, Elsewhere

LEMMA BeginElsewhere ==
  ASSUME IInv, NEW d \in Clients, NEW t, task' = [task EXCEPT ![d] = t]
  PROVE  Elsewhere(d)
  BY Begun DEF Elsewhere

(* Who leaves the door, and how. *)
LEMMA DoorKeepers ==
  ASSUME IInv, Next, NEW c \in Clients, AtDoor(task[c]), task'[c] # task[c]
  PROVE  task'[c] = Idle \/ Get(c) \/ UpdateAuthorize(c) \/ JobLoad(c)
<1>0. task[c] # Idle
  BY DEF AtDoor, Idle
<1>1. ASSUME NEW d \in Clients, task[d] = Idle, Elsewhere(d) PROVE FALSE
  BY <1>0, <1>1 DEF Elsewhere
<1>2. ASSUME NEW d \in Clients, Elsewhere(d), ~AtDoor(task[d]) PROVE FALSE
  BY <1>2 DEF Elsewhere
<1>3. CASE AutomationsNext
  <2>1. CASE Cron \/ Change
    BY <2>1 DEF Cron, Change
  <2>2. CASE Fail
    <3>1. PICK d \in Clients : End(d)
      BY <2>2 DEF Fail
    <3> QED BY <3>1, EndElsewhere DEF Elsewhere
  <2>3. ASSUME NEW d \in Clients,
               BeginSave(d) \/ BeginDelete(d) \/ BeginSync(d) \/ BeginPass(d) \/ BeginJob(d)
        PROVE  FALSE
    <3>1. task[d] = Idle
      BY <2>3 DEF BeginSave, BeginDelete, BeginSync, BeginPass, BeginJob
    <3>2. \E t : task' = [task EXCEPT ![d] = t]
      BY <2>3 DEF BeginSave, BeginDelete, BeginSync, BeginPass, BeginJob
    <3> QED BY <1>1, <3>1, <3>2, BeginElsewhere
  <2>4. ASSUME NEW d \in Clients,
               \/ SaveCheck(d) \/ LookupRole(d, "save", "create") \/ LookupRole(d, "delete", "commit")
               \/ SaveDestination(d) \/ SaveHighWater(d) \/ SaveCommit(d) \/ DeleteCommit(d)
        PROVE  FALSE
    <3>1. ~AtDoor(task[d])
      BY <2>4 DEF SaveCheck, LookupRole, SaveDestination, SaveHighWater, SaveCommit, DeleteCommit, At, AtDoor
    <3>2. Elsewhere(d)
      BY <2>4, GotoElsewhere, KeepElsewhere, EndElsewhere
         DEF SaveCheck, CheckApprover, LookupRole, SaveDestination, SaveHighWater, SaveCommit, DeleteCommit
    <3> QED BY <1>2, <3>1, <3>2
  <2>5. ASSUME NEW d \in Clients,
               RevokeRole(d, "save", "create") \/ RevokeRole(d, "delete", "commit") \/ SaveRole(d)
        PROVE  FALSE
    <3>1. ~AtDoor(task[d])
      BY <2>5 DEF RevokeRole, SaveRole, At, AtDoor
    <3>2. Elsewhere(d)
      BY <2>5, GotoElsewhere, KeepElsewhere, EndElsewhere
         DEF RevokeRole, SaveRole, CreateOwnRole, GrantOwn, AssignOwn
    <3> QED BY <1>2, <3>1, <3>2
  <2>6. ASSUME NEW d \in Clients, \/ SyncList(d) \/ SyncClear(d) \/ SyncUpsert(d)
                                  \/ ReadCursor(d) \/ ReadFeed(d) \/ NextEntry(d)
        PROVE  FALSE
    <3>1. ~AtDoor(task[d])
      BY <2>6 DEF SyncList, SyncClear, SyncUpsert, ReadCursor, ReadFeed, NextEntry, Pass, At, AtDoor
    <3>2. Elsewhere(d)
      BY <2>6, GotoElsewhere, KeepElsewhere, EndElsewhere
         DEF SyncList, SyncClear, SyncUpsert, ReadCursor, ReadFeed, NextEntry
    <3> QED BY <1>2, <3>1, <3>2
  <2>7. ASSUME NEW d \in Clients, \/ Act(d) \/ UpdateWrite(d) \/ RecordRun(d) \/ AdvanceCursor(d)
                                  \/ JobDestination(d) \/ JobSend(d)
        PROVE  FALSE
    <3>1. ~AtDoor(task[d])
      BY <2>7 DEF Act, UpdateWrite, RecordRun, AdvanceCursor, JobDestination, JobSend, Pass, At, AtDoor
    <3>2. Elsewhere(d)
      BY <2>7, GotoElsewhere, KeepElsewhere, EndElsewhere
         DEF Act, UpdateWrite, RecordRun, AdvanceCursor, JobDestination, JobSend
    <3> QED BY <1>2, <3>1, <3>2
  <2>8. ASSUME NEW d \in Clients, Get(d) \/ UpdateAuthorize(d) \/ JobLoad(d)
        PROVE  d = c
    <3>1. Elsewhere(d)
      BY <2>8, GotoElsewhere, KeepElsewhere, EndElsewhere DEF Get, UpdateAuthorize, JobLoad
    <3> QED BY <3>1 DEF Elsewhere
  <2> QED BY <1>3, <2>1, <2>2, <2>3, <2>4, <2>5, <2>6, <2>7, <2>8 DEF AutomationsNext
<1>4. CASE PluginNext
  <2>1. PICK d \in Clients :
          \/ BeginInstall(d) \/ InstallCheck(d) \/ InstallCheckOverlay(d) \/ InstallCheckAbsent(d)
          \/ InstallRole(d) \/ InstallCommit(d) \/ InstallUnschedule(d) \/ InstallSchedule(d)
          \/ BeginUninstall(d) \/ UninstallGet(d) \/ UninstallRole(d) \/ UninstallSchedules(d)
          \/ UninstallCommit(d) \/ BeginCall(d) \/ CallGet(d) \/ KvSet(d)
    BY <1>4 DEF PluginNext
  <2>2. CASE BeginInstall(d) \/ BeginUninstall(d) \/ BeginCall(d)
    <3>1. task[d] = Idle /\ \E t : task' = [task EXCEPT ![d] = t]
      BY <2>2 DEF BeginInstall, BeginUninstall, BeginCall
    <3> QED BY <1>1, <3>1, BeginElsewhere
  <2>3. CASE \/ InstallCheck(d) \/ InstallCheckOverlay(d) \/ InstallCheckAbsent(d)
             \/ InstallRole(d) \/ InstallCommit(d) \/ InstallUnschedule(d) \/ InstallSchedule(d)
    <3>1. ~AtDoor(task[d])
      BY <2>3 DEF InstallCheck, InstallCheckOverlay, InstallCheckAbsent, InstallRole, InstallCommit,
                  InstallUnschedule, InstallSchedule, At, AtDoor
    <3>2. Elsewhere(d)
      BY <2>3, GotoElsewhere, KeepElsewhere, EndElsewhere
         DEF InstallCheck, CheckApprover, InstallCheckOverlay, InstallCheckAbsent, InstallRole,
             CreateOwnRole, GrantOwn, AssignOwn, InstallCommit, InstallUnschedule, InstallSchedule
    <3> QED BY <1>2, <3>1, <3>2
  <2>4. CASE \/ UninstallGet(d) \/ UninstallRole(d) \/ UninstallSchedules(d)
             \/ UninstallCommit(d) \/ CallGet(d) \/ KvSet(d)
    <3>1. ~AtDoor(task[d])
      BY <2>4 DEF UninstallGet, UninstallRole, UninstallSchedules, UninstallCommit, CallGet, KvSet, At, AtDoor
    <3>2. Elsewhere(d)
      BY <2>4, GotoElsewhere, KeepElsewhere, EndElsewhere
         DEF UninstallGet, UninstallRole, UninstallSchedules, UninstallCommit, CallGet, KvSet
    <3> QED BY <1>2, <3>1, <3>2
  <2> QED BY <2>1, <2>2, <2>3, <2>4
<1>5. CASE VaultNext
  <2>1. CASE RotateList \/ RewrapRead \/ RewrapWrite \/ RotateDone \/ RotateDies \/ NewKey \/ RetireKey
    BY <2>1 DEF RotateList, RewrapRead, RewrapWrite, RotateDone, RotateDies, NewKey, RetireKey
  <2>2. CASE Restart
    BY <2>2 DEF Restart
  <2>3. ASSUME NEW d \in Clients, BeginSecret(d) \/ BeginDestination(d) PROVE FALSE
    <3>1. task[d] = Idle /\ \E t : task' = [task EXCEPT ![d] = t]
      BY <2>3 DEF BeginSecret, BeginDestination
    <3> QED BY <1>1, <3>1, BeginElsewhere
  <2>4. ASSUME NEW d \in Clients,
               Put(d) \/ DeleteSecret(d) \/ RegisterCheck(d) \/ RegisterWrite(d) \/ DeleteDestination(d)
        PROVE  FALSE
    <3>1. ~AtDoor(task[d])
      BY <2>4 DEF Put, DeleteSecret, RegisterCheck, RegisterWrite, DeleteDestination, At, AtDoor
    <3>2. Elsewhere(d)
      BY <2>4, GotoElsewhere, EndElsewhere
         DEF Put, DeleteSecret, RegisterCheck, RegisterWrite, DeleteDestination
    <3> QED BY <1>2, <3>1, <3>2
  <2> QED BY <1>5, <2>1, <2>2, <2>3, <2>4 DEF VaultNext
<1>6. CASE Administer
  BY <1>6 DEF Administer
<1> QED BY <1>3, <1>4, <1>5, <1>6 DEF Next

(* The scenario stays. *)
LEMMA ScenarioStays ==
  ASSUME [Next]_platform
  PROVE  UNCHANGED scenario
<1>1. CASE AutomationsNext
  <2>1. ASSUME NEW c \in Clients,
               \/ BeginSave(c) \/ SaveCheck(c) \/ LookupRole(c, "save", "create")
               \/ RevokeRole(c, "save", "create") \/ SaveRole(c) \/ SaveDestination(c)
               \/ SaveHighWater(c) \/ SaveCommit(c)
        PROVE  UNCHANGED scenario
    BY <2>1 DEF BeginSave, SaveCheck, CheckApprover, LookupRole, RevokeRole, SaveRole, CreateOwnRole,
       GrantOwn, AssignOwn, SaveDestination, SaveHighWater, SaveCommit
  <2>2. ASSUME NEW c \in Clients,
               \/ BeginDelete(c) \/ LookupRole(c, "delete", "commit")
               \/ RevokeRole(c, "delete", "commit") \/ DeleteCommit(c)
               \/ BeginSync(c) \/ SyncList(c) \/ SyncClear(c) \/ SyncUpsert(c)
        PROVE  UNCHANGED scenario
    BY <2>2 DEF BeginDelete, LookupRole, RevokeRole, DeleteCommit, BeginSync, SyncList, SyncClear, SyncUpsert
  <2>3. ASSUME NEW c \in Clients,
               \/ BeginPass(c) \/ ReadCursor(c) \/ ReadFeed(c) \/ NextEntry(c) \/ Get(c) \/ Act(c)
               \/ UpdateAuthorize(c) \/ UpdateWrite(c) \/ RecordRun(c) \/ AdvanceCursor(c)
               \/ BeginJob(c) \/ JobLoad(c) \/ JobDestination(c) \/ JobSend(c)
        PROVE  UNCHANGED scenario
    BY <2>3 DEF BeginPass, ReadCursor, ReadFeed, NextEntry, Get, Act, UpdateAuthorize, UpdateWrite,
       RecordRun, AdvanceCursor, BeginJob, JobLoad, JobDestination, JobSend
  <2>4. CASE Cron \/ Change \/ Fail
    BY <2>4 DEF Cron, Change, Fail
  <2> QED BY <1>1, <2>1, <2>2, <2>3, <2>4 DEF AutomationsNext
<1>2. CASE PluginNext
  BY <1>2 DEF PluginNext, BeginInstall, InstallCheck, CheckApprover, InstallCheckOverlay,
     InstallCheckAbsent, InstallRole, CreateOwnRole, GrantOwn, AssignOwn, InstallCommit,
     InstallUnschedule, InstallSchedule, BeginUninstall, UninstallGet, UninstallRole,
     UninstallSchedules, UninstallCommit, BeginCall, CallGet, KvSet
<1>3. CASE VaultNext
  BY <1>3 DEF VaultNext, RotateList, RewrapRead, RewrapWrite, RotateDone, RotateDies, NewKey,
     RetireKey, Restart, BeginSecret, Put, DeleteSecret, BeginDestination, RegisterCheck,
     RegisterWrite, DeleteDestination
<1>4. CASE Administer
  BY <1>4 DEF Administer
<1>5. CASE UNCHANGED platform
  BY <1>5 DEF platform
<1> QED BY <1>1, <1>2, <1>3, <1>4, <1>5 DEF Next

(* On Postgres, which refuses a reference to a role that is gone, a deletion that no save
   overlapped takes the authority of the automation away at once (Delete, revokeAuthority):
   passes and jobs that loaded it earlier are let through nowhere, without exception. *)
THEOREM DeletionBites == Spec /\ scenario.dialect = "postgres" => GoesAlways
<1> DEFINE Postgres == scenario.dialect = "postgres"
           Barred == \A c \in Clients : Admitted(c) => task[c].id \notin silenced
<1>1. IInv /\ Postgres /\ [Next]_platform => [Barred]_platform
  <2> SUFFICES ASSUME IInv, Postgres, Next, NEW c \in Clients, AtDoor(task[c]),
                      task'[c].op = task[c].op, task'[c].at # task[c].at,
                      task'[c].at \in {"act", "write", "destination"}, task[c].id \in silenced
               PROVE  FALSE
    BY DEF AtDoor, Admitted
  <2>1. PICK a : a = task[c].id
    OBVIOUS
  <2>2. a \in Automations /\ a \notin DOMAIN automations /\ RoleByName(a) = {}
    BY <2>1 DEF IInv, SilencedOK
  <2>3. \A r : <<a, r>> \notin members
    <3> SUFFICES ASSUME NEW r, <<a, r>> \in members PROVE FALSE
      OBVIOUS
    <3>1. <<a, r>>[1] = a /\ <<a, r>>[2] = r
      OBVIOUS
    <3>2. r \in DOMAIN roles /\ roles[r].name = a
      BY <2>2, <3>1 DEF IInv, RolesOK, MembersOK
    <3> QED BY <2>2, <3>2 DEF RoleByName
  <2>4. ~Can(a, "read") /\ GrantsFor(a, "update") = {}
    BY <2>3 DEF Can, GrantsFor
  <2>5. task'[c] # Idle /\ task'[c] # task[c]
    BY DEF Idle
  <2>6. CASE Get(c)
    <3>1. Goto(c, "record")
      BY <2>1, <2>4, <2>6 DEF Get
    <3> QED BY <3>1, Gone DEF IInv
  <2>7. CASE UpdateAuthorize(c)
    <3>1. Goto(c, "record")
      BY <2>1, <2>4, <2>7 DEF UpdateAuthorize
    <3> QED BY <3>1, Gone DEF IInv
  <2>8. CASE JobLoad(c)
    <3>1. End(c)
      BY <2>1, <2>2, <2>8 DEF JobLoad
    <3> QED BY <2>5, <3>1, Ended DEF IInv
  <2> QED BY <2>5, <2>6, <2>7, <2>8, DoorKeepers
<1>2. Postgres /\ [Next]_platform => Postgres'
  BY ScenarioStays
<1>3. Spec => [][Next]_platform
  BY PTL DEF Spec
<1> HIDE DEF Postgres
<1>4. Spec /\ Postgres => [][Barred]_platform
  BY <1>1, <1>2, <1>3, Invariance, PTL
<1> QED BY <1>4 DEF GoesAlways, Postgres
================================================================================
