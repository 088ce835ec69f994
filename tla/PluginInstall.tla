------------------------------ MODULE PluginInstall ------------------------------
(****************************************************************************)
(* kernel/plugins/install.go: installing a plugin, approving what it asks   *)
(* for, and uninstalling it with everything it came with; jobs.go and kv.go *)
(* as far as they read or leave rows of a plugin. The role, the schedules   *)
(* and the rest are written by different transactions.                      *)
(****************************************************************************)
EXTENDS Vault

CONSTANT
  Manifests  \* what a bundle may ask for: permissions, secrets, an overlay, hooks, a schedule

ASSUME ManifestAssumption ==
  Manifests \subseteq [perms : SUBSET Perms, secrets : BOOLEAN, overlay : {"none", "fits", "widens"},
                       async : BOOLEAN, schedule : BOOLEAN]

VARIABLES
  plugins,    \* the table plugins: a function from ids to [manifest, role, by], and whether an
              \* uninstall has taken its role away
  belongings, \* ids with a row in plugin_deliveries, plugin_kv and the overlays
  schedules,  \* owners of rows of job_schedules
  queue       \* queued jobs: [n, kind, id, dest]

extension == <<plugins, belongings, schedules, queue>>

PluginInit ==
  /\ plugins = <<>>
  /\ belongings = [deliveries |-> {}, kv |-> {}, overlays |-> {}]
  /\ schedules = {}
  /\ queue = {}

PluginTypeOK ==
  /\ DOMAIN plugins \subseteq Plugins
  /\ \A x \in DOMAIN plugins : plugins[x] \in [manifest : Manifests, role : 1..fresh.role, by : Users,
                                             leaving : BOOLEAN]
  /\ belongings \in [deliveries : SUBSET Plugins, kv : SUBSET Plugins, overlays : SUBSET Plugins]
  /\ schedules \subseteq Extensions
  /\ queue \subseteq [n : 1..fresh.job, kind : {"plugin", "run", "hook"}, id : Extensions,
                      dest : Destinations \cup {None}]

\* The permissions the approver must hold: those of the manifest, and that of the vault if
\* the plugin is to be handed secrets.
Approved(m) == m.perms \cup (IF m.secrets THEN {"secret"} ELSE {})
--------------------------------------------------------------------------------
(* Install. *)

BeginInstall(c) ==
  /\ task[c] = Idle
  /\ \E u \in Users, x \in Plugins, m \in Manifests :
       /\ Spend("install") /\ Can(u, "manage")
       /\ task' = [task EXCEPT ![c] = [Approval("install", x, u, m.perms, [manifest |-> m])
                                       EXCEPT !.todo = Approved(m)]]
  /\ UNCHANGED <<tables, scenario, fresh, vault, extension>>

InstallCheck(c) ==
  /\ task[c].op = "install" /\ CheckApprover(c, "overlay")
  /\ UNCHANGED <<vault, extension>>

\* CheckOverlay refuses an overlay that would widen the object; Get refuses an id that is
\* installed.
InstallCheckOverlay(c) ==
  /\ At(c, "install", "overlay")
  /\ IF task[c].manifest.overlay = "widens" THEN End(c) ELSE Goto(c, "absent")
  /\ UNCHANGED <<tables, scenario, fresh, left, vault, extension>>

InstallCheckAbsent(c) ==
  /\ At(c, "install", "absent")
  /\ IF task[c].id \in DOMAIN plugins THEN End(c) ELSE Goto(c, "create")
  /\ UNCHANGED <<tables, scenario, fresh, left, vault, extension>>

InstallRole(c) ==
  /\ task[c].op = "install"
  /\ CreateOwnRole(c) \/ GrantOwn(c) \/ AssignOwn(c, "commit")
  /\ UNCHANGED <<vault, extension>>

With(owners, x, yes) == IF yes THEN owners \cup {x} ELSE owners

\* The row, the cursor of its delivery and its overlays in one transaction; the id is the
\* key of the table.
InstallCommit(c) ==
  LET t == task[c] x == t.id IN
  /\ At(c, "install", "commit")
  /\ IF x \in DOMAIN plugins \/ (t.manifest.async /\ x \in belongings.deliveries)
     THEN End(c) /\ UNCHANGED extension
     ELSE /\ plugins' = Amend(plugins, Row(x, [manifest |-> t.manifest, role |-> t.role,
                                               by |-> t.by, leaving |-> FALSE]))
          /\ belongings' = [belongings EXCEPT
                              !.deliveries = With(@, x, t.manifest.async),
                              !.overlays = With(@, x, t.manifest.overlay = "fits")]
          /\ Goto(c, "unschedule")
          /\ UNCHANGED <<schedules, queue>>
  /\ UNCHANGED <<tables, scenario, fresh, left, vault>>

\* SyncSchedules: the rows of the owner are deleted, then those of the manifest written.
InstallUnschedule(c) ==
  /\ At(c, "install", "unschedule")
  /\ schedules' = schedules \ {task[c].id}
  /\ IF task[c].manifest.schedule THEN Goto(c, "schedule") ELSE End(c)
  /\ UNCHANGED <<tables, scenario, fresh, left, vault, plugins, belongings, queue>>

InstallSchedule(c) ==
  /\ At(c, "install", "schedule")
  /\ schedules' = schedules \cup {task[c].id}
  /\ End(c)
  /\ UNCHANGED <<tables, scenario, fresh, left, vault, plugins, belongings, queue>>
--------------------------------------------------------------------------------
(* Uninstall: the role the row names, the schedules, then the row and what is left. *)

BeginUninstall(c) ==
  /\ task[c] = Idle
  /\ \E u \in Users, x \in Plugins :
       /\ Spend("uninstall") /\ Can(u, "manage")
       /\ task' = [task EXCEPT ![c] = [op |-> "uninstall", at |-> "get", id |-> x]]
  /\ UNCHANGED <<tables, scenario, fresh, vault, extension>>

UninstallGet(c) ==
  LET x == task[c].id IN
  /\ At(c, "uninstall", "get")
  /\ IF x \in DOMAIN plugins THEN Keep(c, "role", [role |-> plugins[x].role]) ELSE End(c)
  /\ UNCHANGED <<tables, scenario, fresh, left, vault, extension>>

UninstallRole(c) ==
  /\ At(c, "uninstall", "role")
  /\ DeleteRole(task[c].role)
  /\ plugins' = [x \in DOMAIN plugins |->
                  [plugins[x] EXCEPT !.leaving = @ \/ plugins[x].role = task[c].role]]
  /\ Goto(c, "schedules")
  /\ UNCHANGED <<vouched, scenario, fresh, left, vault, belongings, schedules, queue>>

UninstallSchedules(c) ==
  /\ At(c, "uninstall", "schedules")
  /\ schedules' = schedules \ {task[c].id}
  /\ Goto(c, "commit")
  /\ UNCHANGED <<tables, scenario, fresh, left, vault, plugins, belongings, queue>>

UninstallCommit(c) ==
  LET x == task[c].id IN
  /\ At(c, "uninstall", "commit")
  /\ plugins' = Restrict(plugins, DOMAIN plugins \ {x})
  /\ belongings' = [k \in DOMAIN belongings |-> belongings[k] \ {x}]
  /\ End(c)
  /\ UNCHANGED <<tables, scenario, fresh, left, vault, schedules, queue>>
--------------------------------------------------------------------------------
(* A call of one of its functions: by a user with the permission, or by a job. *)

BeginCall(c) ==
  /\ task[c] = Idle
  /\ \E u \in Users, x \in Plugins :
       /\ Spend("call") /\ Can(u, "invoke")
       /\ task' = [task EXCEPT ![c] = [op |-> "call", at |-> "get", id |-> x]]
  /\ UNCHANGED <<tables, scenario, fresh, vault, extension>>

CallGet(c) ==
  /\ At(c, "call", "get")
  /\ IF task[c].id \in DOMAIN plugins THEN Goto(c, "run") ELSE End(c)
  /\ UNCHANGED <<tables, scenario, fresh, left, vault, extension>>

\* The function stores a value of its own: the row is inserted whether or not the plugin
\* is still installed.
KvSet(c) ==
  /\ At(c, "call", "run")
  /\ belongings' = [belongings EXCEPT !.kv = @ \cup {task[c].id}]
  /\ End(c)
  /\ UNCHANGED <<tables, scenario, fresh, left, vault, plugins, schedules, queue>>

PluginNext ==
  \E c \in Clients :
    \/ BeginInstall(c) \/ InstallCheck(c) \/ InstallCheckOverlay(c) \/ InstallCheckAbsent(c)
    \/ InstallRole(c) \/ InstallCommit(c) \/ InstallUnschedule(c) \/ InstallSchedule(c)
    \/ BeginUninstall(c) \/ UninstallGet(c) \/ UninstallRole(c) \/ UninstallSchedules(c)
    \/ UninstallCommit(c) \/ BeginCall(c) \/ CallGet(c) \/ KvSet(c)
--------------------------------------------------------------------------------
PermsOf(p) == {g.perm : g \in {h \in grants : <<p, h.role>> \in members}}

\* An installed plugin is whole: until an uninstall takes its role away, it may do what its
\* manifest asked for, all of it and nothing else, through the role its row names, and the
\* rows the manifest calls for are there; whatever failed or raced before.
InstalledIsWhole ==
  \A x \in DOMAIN plugins :
    LET p == plugins[x] IN
    \/ p.leaving
    \/ /\ p.role \in DOMAIN roles /\ roles[p.role].name = x
       /\ PermsOf(x) = p.manifest.perms
       /\ p.manifest.async => x \in belongings.deliveries
       /\ p.manifest.overlay = "fits" => x \in belongings.overlays
================================================================================
