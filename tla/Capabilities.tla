------------------------------- MODULE Capabilities --------------------------------
(****************************************************************************)
(* kernel/capability: which modules a tenant has switched on. A module      *)
(* names the capabilities it requires, and each capability has one module   *)
(* that provides it; Requires is the two put together.                      *)
(****************************************************************************)
EXTENDS Overlays

CONSTANTS
  Modules,
  Kernel,     \* the modules that are always on
  Requires,   \* Requires[m]: the modules that provide what m requires
  Profile,    \* the modules a tenant starts with
  Home        \* the module the business object belongs to

ASSUME ModulesAssumption ==
  /\ IsFiniteSet(Modules) /\ Kernel \subseteq Modules /\ Profile \subseteq Modules /\ Home \in Modules
  /\ Requires \in [Modules -> SUBSET Modules]
  /\ \A m \in Kernel : Requires[m] \subseteq Kernel  \* DisableImpact does not look at them

VARIABLE enabled  \* the table module_state: the modules whose row says so

\* The worklist of Closure ends with the least set that holds the seeds and the kernel, and
\* what its members require.
Closure(seeds) ==
  LET whole(s) == \A m \in s : Requires[m] \subseteq s
  IN {m \in Modules : \A s \in SUBSET Modules : seeds \cup Kernel \subseteq s /\ whole(s) => m \in s}

\* Bootstrap enables them one by one.
CapabilitiesInit == enabled = Closure(Profile)

CapabilitiesTypeOK == enabled \subseteq Modules

EnableClosure(on, m) == Closure(on \cup {m}) \ on

\* The modules that could not stay on without m.
DisableImpact(on, m) == {n \in on \ ({m} \cup Kernel) : ~(Requires[n] \subseteq on \ {m})}

\* GatewayChecker.Enabled.
Reachable == Home \in Kernel \/ Home \in enabled

BeginModule(c) ==
  /\ task[c] = Idle
  /\ Spend("module")
  /\ \E u \in Users, m \in Modules, op \in {"enable", "disable", "profile"} :
       /\ Can(u, "manage")
       /\ task' = [task EXCEPT ![c] = [op |-> op, at |-> "read", mod |-> m]]
  /\ UNCHANGED <<tables, scenario, fresh, overlays, enabled>>

\* Mutant: what the modules that stay on need is not looked at.
DisableReadUnchecked(c) ==
  /\ At(c, "disable", "read")
  /\ IF task[c].mod \notin enabled \/ task[c].mod \in Kernel
     THEN End(c) ELSE Keep(c, "write", [seen |-> enabled, off |-> {task[c].mod}, on |-> {}])
  /\ UNCHANGED <<tables, scenario, fresh, left, overlays, enabled>>

\* Disable refuses a module of the kernel, and one that others need.
DisableRead(c) ==
  LET m == task[c].mod IN
  /\ At(c, "disable", "read")
  /\ IF m \notin enabled \/ m \in Kernel \/ DisableImpact(enabled, m) # {}
     THEN End(c) ELSE Keep(c, "write", [seen |-> enabled, off |-> {m}, on |-> {}])
  /\ UNCHANGED <<tables, scenario, fresh, left, overlays, enabled>>

EnableRead(c) ==
  /\ At(c, "enable", "read")
  /\ Keep(c, "write", [seen |-> enabled, off |-> {}, on |-> EnableClosure(enabled, task[c].mod)])
  /\ UNCHANGED <<tables, scenario, fresh, left, overlays, enabled>>

\* The rows are written in the transaction that read them: Postgres lets another one write
\* in between, SQLite makes this one start again.
WriteModules(c) ==
  LET t == task[c] IN
  /\ t.op \in {"enable", "disable"} /\ t.at = "write"
  /\ IF scenario.dialect = "sqlite" /\ enabled # t.seen
     THEN Goto(c, "read") /\ UNCHANGED enabled
     ELSE End(c) /\ enabled' = (enabled \cup t.on) \ t.off
  /\ UNCHANGED <<tables, scenario, fresh, left, overlays>>

\* ApplyProfile reads nothing. No route offers it yet.
ApplyProfile(c) ==
  /\ At(c, "profile", "read")
  /\ enabled' = enabled \cup Closure(Profile)
  /\ End(c)
  /\ UNCHANGED <<tables, scenario, fresh, left, overlays>>

CapabilitiesNext ==
  \E c \in Clients : \/ BeginModule(c) \/ DisableRead(c) \/ EnableRead(c) \/ WriteModules(c)
                     \/ ApplyProfile(c)
--------------------------------------------------------------------------------
\* Every module that is on has everything it requires, with two administrators switching
\* modules on and off at once. (On Postgres a module can be switched off between the
\* reading and the writing of somebody who switches on one that needs it.)
EnabledModulesWhole ==
  scenario.dialect = "sqlite" => \A m \in enabled : Requires[m] \subseteq enabled
================================================================================
