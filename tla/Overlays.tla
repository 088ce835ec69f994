--------------------------------- MODULE Overlays ---------------------------------
(****************************************************************************)
(* kernel/metadata: the shape of one business object as one tenant sees it. *)
(* The core object is shipped; every installed plugin, and then the tenant  *)
(* itself, may lay a document over it that adds fields and narrows the      *)
(* option sets of enums. The documents are stored one by one and merged     *)
(* each time the shape is asked for. kernel/plugins/dispatch.go and         *)
(* breaker.go: the hooks of the same plugins that every write waits for.    *)
(*                                                                          *)
(* PluginInstall is about the other things an installation writes; here it  *)
(* is the check of the document and the transaction that stores it.         *)
(****************************************************************************)
EXTENDS Authz, SequencesExt

CONSTANTS
  Values,    \* of any field
  Core,      \* the core object: a function from its fields to what they accept
  Floor,     \* the roles that may write it whatever an overlay says
  Tenant,    \* the source of the tenant's own layer
  Stack,     \* the sources in the order of the merge: plugins by id, then the tenant
  Documents, \* Documents[s]: the overlays source s may bring; a plugin's comes with its hook
  BreakerThreshold

\* A plugin without a hook, and what becomes of a write when its hook fails.
HookKinds == {"none", "reject", "allow"}

Field == [enum : BOOLEAN, options : SUBSET Values, overlay : BOOLEAN]

ASSUME OverlayAssumption ==
  /\ Stack \in Seq(Plugins \cup {Tenant}) /\ Range(Stack) = Plugins \cup {Tenant}
  /\ Last(Stack) = Tenant /\ IsInjective(Stack)
  /\ DOMAIN Documents = Range(Stack) /\ None \notin UNION Range(Documents)
  /\ Core \in [DOMAIN Core -> Field] /\ \A f \in DOMAIN Core : ~Core[f].overlay
  /\ \A d \in UNION Range(Documents) :
       d.hook \in HookKinds /\ \A f \in DOMAIN d.add : d.add[f] \in Field
  /\ BreakerThreshold \in Nat \ {0}

VARIABLES
  layers,    \* the table object_overlays: a function from sources to documents
  breakers,  \* the table plugins: the hook of each, its failures in a row and its breaker
  cached     \* the dispatcher's copy of that table

overlays == <<layers, breakers, cached>>

Closed(hook) == [hook |-> hook, failures |-> 0, breaker |-> "closed"]

OverlaysInit == layers = <<>> /\ breakers = <<>> /\ cached = <<>>

OverlaysTypeOK ==
  /\ DOMAIN layers \subseteq DOMAIN Documents
  /\ \A s \in DOMAIN layers : layers[s] \in Documents[s]
  /\ \A t \in {breakers, cached} :
       /\ DOMAIN t \subseteq Plugins
       /\ \A x \in DOMAIN t : t[x] \in [hook : HookKinds, failures : 0..BreakerThreshold,
                                         breaker : {"closed", "open", "cooled"}]
--------------------------------------------------------------------------------
(* overlay.go. *)

\* Mutant: an option that the layers below do not have is taken over.
narrowWidening(fields, narrowed) ==
  \A f \in DOMAIN narrowed : f \in DOMAIN fields /\ fields[f].enum /\ narrowed[f] # {}

\* narrow: only an enum that is there, to some of its options, and not to none.
narrow(fields, narrowed) ==
  \A f \in DOMAIN narrowed :
    /\ f \in DOMAIN fields /\ fields[f].enum
    /\ narrowed[f] # {} /\ narrowed[f] \subseteq fields[f].options

\* A field that is no enum accepts any value.
validField(f) == IF f.enum THEN f.options # {} ELSE f.options = Values

\* One round of Merge: None once a layer does not fit what is below it.
Lay(eff, doc) ==
  IF eff = None THEN None
  ELSE LET added == [f \in DOMAIN doc.add |-> [doc.add[f] EXCEPT !.overlay = TRUE]]
           fields == Amend(eff.fields, added)
       IN IF /\ DOMAIN doc.add \cap DOMAIN eff.fields = {}
             /\ \A f \in DOMAIN doc.add : validField(doc.add[f])
             /\ doc.roles # None => eff.roles \subseteq doc.roles
             /\ narrow(fields, doc.narrow)
          THEN [fields |-> [f \in DOMAIN fields |->
                              IF f \in DOMAIN doc.narrow
                              THEN [fields[f] EXCEPT !.options = doc.narrow[f]] ELSE fields[f]],
                roles |-> IF doc.roles = None THEN eff.roles ELSE doc.roles]
          ELSE None

\* The core object and, in the order of the stack, the documents that are stored.
Merge(stored) ==
  LET lay(eff, s) == IF s \in DOMAIN stored THEN Lay(eff, stored[s]) ELSE eff
  IN FoldLeft(lay, [fields |-> Core, roles |-> Floor], Stack)
--------------------------------------------------------------------------------
(* tenant_overlay.go and app/overlays.go. Checking and storing are two transactions. *)

BeginOverlay(c) ==
  /\ task[c] = Idle
  /\ Spend("overlay")
  /\ \E u \in Users, d \in Documents[Tenant], op \in {"overlay", "unoverlay"} :
       /\ Can(u, "manage")
       /\ task' = [task EXCEPT ![c] = [op |-> op, at |-> "check", source |-> Tenant, doc |-> d]]
  /\ UNCHANGED <<tables, scenario, fresh, overlays>>

\* Install does the same with the document of the plugin.
BeginPlugin(c) ==
  /\ task[c] = Idle
  /\ \E u \in Users, x \in Plugins :
       /\ Can(u, "manage")
       /\ \/ /\ Spend("install") /\ x \notin DOMAIN breakers
             /\ \E d \in Documents[x] :
                  task' = [task EXCEPT ![c] = [op |-> "install", at |-> "check", source |-> x, doc |-> d]]
          \/ /\ Spend("uninstall") /\ x \in DOMAIN breakers
             /\ task' = [task EXCEPT ![c] = [op |-> "uninstall", at |-> "write", source |-> x]]
  /\ UNCHANGED <<tables, scenario, fresh, overlays>>

\* CheckOverlay: the stack as it would be.
CheckOverlay(c) ==
  LET t == task[c] IN
  /\ t.op \in {"overlay", "install"} /\ t.at = "check"
  /\ IF Merge(Amend(layers, Row(t.source, t.doc))) = None THEN End(c) ELSE Goto(c, "write")
  /\ UNCHANGED <<tables, scenario, fresh, left, overlays>>

\* SaveOverlayTx does not ask again.
SaveOverlayTx(c) ==
  /\ At(c, "overlay", "write")
  /\ layers' = Amend(layers, Row(Tenant, task[c].doc))
  /\ End(c)
  /\ UNCHANGED <<tables, scenario, fresh, left, breakers, cached>>

DeleteOverlay(c) ==
  /\ At(c, "unoverlay", "check")
  /\ layers' = Restrict(layers, DOMAIN layers \ {Tenant})
  /\ End(c)
  /\ UNCHANGED <<tables, scenario, fresh, left, breakers, cached>>

\* The row of the plugin and its layer in one transaction; then Forget, on this node: the
\* copy of another node, or a reading that began before and is stored after, stays.
InstallTx(c) ==
  LET t == task[c] IN
  /\ At(c, "install", "write")
  /\ IF t.source \in DOMAIN breakers THEN UNCHANGED overlays
     ELSE /\ layers' = Amend(layers, Row(t.source, t.doc))
          /\ breakers' = Amend(breakers, Row(t.source, Closed(t.doc.hook)))
          /\ cached' \in {cached, breakers'}
  /\ End(c)
  /\ UNCHANGED <<tables, scenario, fresh, left>>

\* DeleteOverlaysBySourceTx: what lies on top is not looked at.
UninstallTx(c) ==
  LET keep == Plugins \ {task[c].source} IN
  /\ At(c, "uninstall", "write")
  /\ layers' = Restrict(layers, DOMAIN layers \ {task[c].source})
  /\ breakers' = Restrict(breakers, DOMAIN breakers \cap keep)
  /\ cached' \in {cached, breakers'}
  /\ End(c)
  /\ UNCHANGED <<tables, scenario, fresh, left>>
--------------------------------------------------------------------------------
(* dispatch.go and breaker.go. *)

\* The copy is read again when it is five seconds old, or was forgotten.
pluginsFor ==
  /\ cached # breakers /\ cached' = breakers
  /\ UNCHANGED <<tables, scenario, fresh, task, left, layers, breakers>>

\* The cooldown of an open breaker passes: it reads as closed, and the next failure opens it.
Cooldown ==
  /\ Spend("cache")
  /\ \E x \in DOMAIN breakers :
       /\ breakers[x].breaker = "open"
       /\ LET cool(t) == IF x \in DOMAIN t /\ t[x].breaker = "open"
                         THEN [t EXCEPT ![x].breaker = "cooled"] ELSE t
          IN breakers' = cool(breakers) /\ cached' = cool(cached)
  /\ UNCHANGED <<tables, scenario, fresh, task, layers>>

ResetBreaker ==
  /\ Spend("cache")
  /\ \E u \in Users, x \in DOMAIN breakers :
       /\ Can(u, "manage") /\ breakers[x].failures > 0
       /\ breakers' = [breakers EXCEPT ![x] = Closed(@.hook)]
  /\ UNCHANGED <<tables, scenario, fresh, task, layers, cached>>

\* bumpBreaker, from the list p the request was given, which may or may not be the cached one
\* still: a success writes nothing if that list knows of no failure.
bumpBreaker(p, x, failed) ==
  LET n == IF failed THEN Min({p[x].failures + 1, BreakerThreshold}) ELSE 0
      put(t) == IF x \in DOMAIN t
                THEN [t EXCEPT ![x] = [hook |-> @.hook, failures |-> n,
                                       breaker |-> IF n = BreakerThreshold THEN "open" ELSE "closed"]]
                ELSE t
  IN IF n = 0 /\ p[x].failures = 0 THEN UNCHANGED <<breakers, cached>>
     ELSE breakers' = put(breakers) /\ cached' \in {cached, put(cached)}

OverlaysNext ==
  \/ \E c \in Clients :
       \/ BeginOverlay(c) \/ BeginPlugin(c) \/ CheckOverlay(c) \/ SaveOverlayTx(c)
       \/ DeleteOverlay(c) \/ InstallTx(c) \/ UninstallTx(c)
  \/ pluginsFor \/ Cooldown \/ ResetBreaker
================================================================================
