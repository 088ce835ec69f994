---------------------------------- MODULE Authz ----------------------------------
(****************************************************************************)
(* kernel/authz: roles, the permissions granted to them and the principals  *)
(* they are assigned to. Every function of the package is one transaction,  *)
(* so an operation that calls several is a task of several steps: another   *)
(* task may run between any two of them, and the task may end between them. *)
(*                                                                          *)
(* Principals are people (Users) and extensions: a plugin or an automation  *)
(* acts as a principal of its own, whose name is also that of its role.     *)
(****************************************************************************)
EXTENDS Naturals, FiniteSets, Sequences, Functions, FiniteSetsExt, Tables

CONSTANTS
  Clients,      \* tasks in progress at the same time
  Boss, Clerk,  \* the first administrator, and a user with a role of fewer permissions
  Plugins,      \* ids of plugins
  Automations,  \* ids of automations
  Scenarios,    \* dialect, habits of the operator, and what may happen how often
  None

Users == {Boss, Clerk}
Extensions == Plugins \cup Automations
Principals == Users \cup Extensions

\* The permissions of the model: on the business object, and the powers of docs/08.
Perms == {"read", "create", "update", "delete", "invoke", "send", "secret", "manage"}

\* A condition is the set of records it holds of; one that no longer compiles holds of
\* none. A grant without one has None.
Records == {"own", "other"}
Conditions == {None} \cup SUBSET Records
ConditionalActions == {"create", "update", "delete"}

Kinds == {"grant", "revoke", "install", "uninstall", "call", "save", "delete", "pass",
          "sync", "cron", "job", "change", "put", "drop", "register", "unregister",
          "newkey", "restart", "rotate", "retire", "fail", "write", "overlay", "cache",
          "module"}

ASSUME AuthzAssumption ==
  /\ IsFiniteSet(Clients) /\ Boss # Clerk /\ Users \cap Extensions = {}
  /\ Plugins \cap Automations = {} /\ None \notin Principals
  /\ \A r \in SUBSET Records : r # None
  /\ Scenarios \subseteq [dialect : {"postgres", "sqlite"}, careful : BOOLEAN,
                          left : [Kinds -> Nat]]

VARIABLES
  roles,     \* the table roles: a function from ids to [name, core]
  grants,    \* the table role_permissions: [role, perm, cond]
  members,   \* the table user_roles: <<principal, role>>
  vouched,   \* history: what the approver of an extension's role held without condition
             \* when it was checked
  scenario,  \* the database, and whether the operator restarts the server in time
  fresh,     \* ids taken so far: roles, data keys, queued jobs
  task,      \* task[c]: the operation c performs and the step it takes next
  left       \* what the scenario still allows

tables == <<roles, grants, members, vouched>>

Idle == [op |-> "idle", at |-> "idle"]
Goto(c, step) == task' = [task EXCEPT ![c].at = step]
Keep(c, step, what) == task' = [task EXCEPT ![c] = Amend(@, Amend(what, [at |-> step]))]
End(c) == task' = [task EXCEPT ![c] = Idle]
At(c, op, step) == task[c].op = op /\ task[c].at = step
Spend(k) == /\ left[k] > 0
            /\ left' = [left EXCEPT ![k] = @ - 1]

\* What somebody has given the clerk, beside the writing of its own records.
ClerkPerms == {"read", "invoke", "manage"}

\* Bootstrap: the first administrator has a core role with every permission; the clerk has
\* been given a role that may write its own records only.
AuthzInit ==
  /\ roles = <<[name |-> Boss, core |-> TRUE], [name |-> Clerk, core |-> FALSE]>>
  /\ grants = [role : {1}, perm : Perms, cond : {None}]
              \cup [role : {2}, perm : ClerkPerms, cond : {None}]
              \cup [role : {2}, perm : ConditionalActions, cond : {{"own"}}]
  /\ members = {<<Boss, 1>>, <<Clerk, 2>>}
  /\ vouched = <<>>
  /\ fresh = [role |-> 2, dek |-> 1, job |-> 0]
  /\ task = [c \in Clients |-> Idle]
  /\ \E s \in Scenarios : scenario = s /\ left = s.left

AuthzTypeOK ==
  /\ DOMAIN roles \subseteq 1..fresh.role
  /\ \A r \in DOMAIN roles : roles[r] \in [name : Principals, core : BOOLEAN]
  /\ grants \subseteq [role : 1..fresh.role, perm : Perms, cond : Conditions]
  /\ members \subseteq Principals \X (1..fresh.role)
  /\ DOMAIN vouched \subseteq 1..fresh.role /\ \A r \in DOMAIN vouched : vouched[r] \subseteq Perms
  /\ scenario \in Scenarios
  /\ left \in [Kinds -> Nat]
--------------------------------------------------------------------------------
(* Questions. Neither looks at the table roles. *)

\* Mutant: a grant with a condition counts too.
CanIgnoringConditions(p, perm) ==
  \E g \in grants : <<p, g.role>> \in members /\ g.perm = perm

\* A question without a record is answered by the grants without a condition.
Can(p, perm) ==
  \E g \in grants : <<p, g.role>> \in members /\ g.perm = perm /\ g.cond = None

GrantsFor(p, perm) == {g.cond : g \in {h \in grants : <<p, h.role>> \in members /\ h.perm = perm}}

\* Allow: a condition that does not compile, or fails, allows nothing.
Allow(conds, r) == \E cond \in conds : cond # None => r \in cond

RoleByName(name) == {r \in DOMAIN roles : roles[r].name = name}
--------------------------------------------------------------------------------
(* Changes. A reference to a role that is gone is refused by Postgres only: SQLite is
   opened without foreign keys. *)

References(role) == scenario.dialect = "sqlite" \/ role \in DOMAIN roles

\* Mutant: an existing role of that name is taken over.
CreateRoleOrReuse(name, isCore) ==
  IF RoleByName(name) # {}
  THEN roles' = roles /\ fresh' = fresh
  ELSE /\ roles' = Amend(roles, Row(fresh.role + 1, [name |-> name, core |-> isCore]))
       /\ fresh' = [fresh EXCEPT !.role = @ + 1]

\* The name is unique within the tenant.
CreateRole(name, isCore) ==
  /\ RoleByName(name) = {}
  /\ roles' = Amend(roles, Row(fresh.role + 1, [name |-> name, core |-> isCore]))
  /\ fresh' = [fresh EXCEPT !.role = @ + 1]

validateCondition(perm, cond) == cond = None \/ perm \in ConditionalActions

GrantPermission(role, perm, cond) ==
  /\ validateCondition(perm, cond)
  /\ References(role)
  /\ ~\E g \in grants : g.role = role /\ g.perm = perm
  /\ grants' = grants \cup {[role |-> role, perm |-> perm, cond |-> cond]}

AssignRole(p, role) ==
  /\ References(role)
  /\ <<p, role>> \notin members
  /\ members' = members \cup {<<p, role>>}

\* A role that is gone is no error, and a core role cannot lose anything.
RevokePermission(role, perm) ==
  /\ role \in DOMAIN roles => ~roles[role].core
  /\ grants' = {g \in grants : ~(g.role = role /\ g.perm = perm /\ role \in DOMAIN roles)}

DeleteRole(role) ==
  IF role \notin DOMAIN roles
  THEN UNCHANGED <<roles, grants, members>>
  ELSE /\ ~roles[role].core
       /\ grants' = {g \in grants : g.role # role}
       /\ members' = {m \in members : m[2] # role}
       /\ roles' = Restrict(roles, DOMAIN roles \ {role})

\* An administrator changes what a person may do. No route does this yet: the package is
\* called by the operator's scripts.
Administer ==
  \E u \in Users : \E r \in RoleByName(u), perm \in Perms, cond \in Conditions :
    /\ \/ /\ Spend("grant")
          /\ GrantPermission(r, perm, cond)
       \/ /\ Spend("revoke") /\ cond = None
          /\ \E g \in grants : g.role = r /\ g.perm = perm
          /\ RevokePermission(r, perm)
    /\ UNCHANGED <<roles, members, vouched, scenario, fresh, task>>
--------------------------------------------------------------------------------
(* What install.go and automations/store.go do alike: ask for every permission of the
   extension whether the approver holds it, one transaction each; then give a new role of
   its name all of them and assign it. *)

\* What the approver really holds, for every record.
Holds(u, perm) ==
  \E r \in DOMAIN roles : /\ <<u, r>> \in members
                          /\ [role |-> r, perm |-> perm, cond |-> None] \in grants

Approval(op, id, by, perms, what) ==
  Amend(what, [op |-> op, at |-> "check", id |-> id, by |-> by, perms |-> perms, todo |-> perms,
               missing |-> FALSE, held |-> {}, role |-> 0])

CheckApprover(c, next) ==
  LET t == task[c] IN
  /\ t.at = "check"
  /\ IF t.todo = {}
     THEN IF t.missing THEN End(c) ELSE Goto(c, next)
     ELSE \E perm \in t.todo :
            Keep(c, "check",
                 [todo |-> t.todo \ {perm}, missing |-> t.missing \/ ~Can(t.by, perm),
                  held |-> IF Holds(t.by, perm) THEN t.held \cup {perm} ELSE t.held])
  /\ UNCHANGED <<tables, scenario, fresh, left>>

\* A role of that name, or a role that is gone, fails the operation: what it has written
\* so far stays.
CreateOwnRole(c) ==
  LET t == task[c] IN
  /\ t.at = "create"
  /\ \/ /\ CreateRole(t.id, FALSE)
        /\ LET mine == CHOOSE r \in DOMAIN roles' : roles'[r].name = t.id IN
           /\ vouched' = Amend(vouched, Row(mine, t.held))
           /\ Keep(c, "grant", [role |-> mine, todo |-> t.perms])
        /\ UNCHANGED <<grants, members, scenario, left>>
     \/ /\ RoleByName(t.id) # {}
        /\ End(c)
        /\ UNCHANGED <<tables, scenario, fresh, left>>

GrantOwn(c) ==
  LET t == task[c] IN
  /\ t.at = "grant" /\ t.todo # {}
  /\ IF References(t.role)
     THEN \E perm \in t.todo : /\ GrantPermission(t.role, perm, None)
                               /\ Keep(c, "grant", [todo |-> t.todo \ {perm}])
     ELSE End(c) /\ UNCHANGED grants
  /\ UNCHANGED <<roles, members, vouched, scenario, fresh, left>>

AssignOwn(c, next) ==
  LET t == task[c] IN
  /\ t.at = "grant" /\ t.todo = {}
  /\ IF References(t.role) THEN AssignRole(t.id, t.role) /\ Goto(c, next)
                           ELSE End(c) /\ UNCHANGED members
  /\ UNCHANGED <<roles, grants, vouched, scenario, fresh, left>>
================================================================================
