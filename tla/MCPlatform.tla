------------------------------- MODULE MCPlatform --------------------------------
(* Two tasks at a time; one plugin, one automation, one destination. Each scenario allows
   the operations whose interleaving is of interest, on one database or the other. *)
EXTENDS Automations, TLC

CONSTANTS c1, c2, boss, clerk, crm, rule, hooks, h1, h2

Few(few) == [k \in Kinds |-> IF k \in DOMAIN few THEN few[k] ELSE 0]
On(db, few) == [dialect |-> db, careful |-> TRUE, left |-> Few(few)]

Def(trigger, holds, enabled, actions) ==
  [trigger |-> trigger, holds |-> holds, enabled |-> enabled, actions |-> actions,
   dest |-> hooks, plugin |-> crm]

MCDefinitions ==
  { Def("object", TRUE, TRUE, <<"field_update">>),
    Def("object", FALSE, TRUE, <<"call_plugin">>),
    Def("object", TRUE, TRUE, <<"webhook", "call_plugin">>),
    Def("schedule", TRUE, TRUE, <<"webhook">>) }

MCManifests ==
  { [perms |-> {"read", "update"}, secrets |-> FALSE, overlay |-> "fits", async |-> TRUE, schedule |-> FALSE],
    [perms |-> {"read"}, secrets |-> TRUE, overlay |-> "none", async |-> FALSE, schedule |-> TRUE],
    [perms |-> {"invoke"}, secrets |-> FALSE, overlay |-> "widens", async |-> FALSE, schedule |-> FALSE] }

MCScenarios ==
  { \* one automation saved twice at once, by two people, and deleted
    On("postgres", [save |-> 2, delete |-> 1]),
    On("postgres", [save |-> 2, fail |-> 1]),
    On("sqlite", [save |-> 1, delete |-> 1, revoke |-> 1]),
    \* two nodes fire it, and a pass stops half-way
    On("postgres", [save |-> 1, pass |-> 2, change |-> 2]),
    On("postgres", [save |-> 1, pass |-> 2, change |-> 1, fail |-> 1]),
    \* it is deleted while they do
    On("postgres", [save |-> 1, delete |-> 1, pass |-> 1, change |-> 1]),
    On("sqlite", [save |-> 1, delete |-> 2, pass |-> 1, change |-> 1]),
    \* its schedule, its webhook and the destination of it
    On("sqlite", [register |-> 1, save |-> 1, sync |-> 1, cron |-> 1, job |-> 1, delete |-> 1]),
    On("sqlite", [register |-> 1, unregister |-> 1, save |-> 1, pass |-> 1, change |-> 1, job |-> 1]),
    \* a plugin is installed, called and uninstalled, more than once at a time
    On("postgres", [install |-> 2, uninstall |-> 1, fail |-> 1]),
    On("sqlite", [install |-> 2, uninstall |-> 2, call |-> 1]),
    On("postgres", [install |-> 1, grant |-> 1, revoke |-> 1]),
    \* secrets come and go while the operator rotates the key
    On("sqlite", [put |-> 2, drop |-> 1, newkey |-> 1, restart |-> 1, rotate |-> 2, retire |-> 1,
                  fail |-> 1]),
    On("sqlite", [put |-> 1, newkey |-> 2, restart |-> 2, rotate |-> 2, retire |-> 2, register |-> 1]) }

\* The procedure of docs/09, by the letter: a new key, a rotation, the old key removed.
MCByTheBook ==
  {[On("sqlite", [put |-> 1, newkey |-> 1, rotate |-> 1, retire |-> 1]) EXCEPT !.careful = FALSE]}

\* A secret is replaced while the rotation is at its row.
MCReplaced == {On("postgres", [put |-> 1, newkey |-> 1, rotate |-> 1, restart |-> 1])}

\* A deletion overlaps the save, and a second one comes after it.
MCDeletedTwice == {On("sqlite", [save |-> 1, delete |-> 2, pass |-> 1, change |-> 1])}

Symmetry == Permutations(Clients) \cup Permutations(Hosts)
================================================================================
