-------------------------------- MODULE MCRecords ---------------------------------
(* Two writers or administrators at a time, one record, one plugin; the shipped object has
   an owner and a status, the plugin adds a size, the tenant a note. *)
EXTENDS Records, TLC

CONSTANTS c1, c2, boss, clerk, crm

Text == [enum |-> FALSE, options |-> Values, overlay |-> FALSE]
Enum(options) == [enum |-> TRUE, options |-> options, overlay |-> FALSE]

MCValues == {"own", "other", "a", "b", "c"}
MCCore == [owner |-> Enum({"own", "other"}), status |-> Enum({"a", "b"})]

MCStack == <<crm, "tenant">>

Doc(add, narrowed, granted, hook) ==
  [add |-> add, narrow |-> narrowed, roles |-> granted, hook |-> hook]
MCDocuments ==
  crm :> { Doc([size |-> Enum({"a", "b", "c"})], <<>>, None, "allow"),
           Doc(<<>>, [status |-> {"a"}], None, "reject"),
           Doc(<<>>, [status |-> {"a", "b", "c"}], None, "none") }
  @@ "tenant" :> { Doc([note |-> Text], [status |-> {"a"}], None, "none"),
                   Doc(<<>>, [size |-> {"a"}], {"admin", "sales"}, "none"),
                   Doc([size |-> Text], <<>>, {"sales"}, "none") }

MCBodies ==
  { [owner |-> "own", status |-> "a"], [status |-> "c"], [owner |-> "other"],
    [size |-> "b"], [note |-> "a"], [status |-> "b", i18n |-> "b"] }

MCReplies == { [owner |-> "other", status |-> "a"], [owner |-> "own", status |-> "c"] }

MCRequires == [kernel |-> {}, ledger |-> {"kernel"}, contacts |-> {"kernel"},
               invoicing |-> {"contacts", "ledger"}]

Few(few) == [k \in Kinds |-> IF k \in DOMAIN few THEN few[k] ELSE 0]
On(db, few) == [dialect |-> db, careful |-> TRUE, left |-> Few(few)]

MCScenarios ==
  { \* two writers of one record, with overlays that come and go
    On("sqlite", [write |-> 3, overlay |-> 1]),
    On("postgres", [write |-> 3]),
    On("sqlite", [write |-> 2, install |-> 1, uninstall |-> 1, cache |-> 1]),
    On("postgres", [write |-> 2, install |-> 1, overlay |-> 1]),
    \* a hook that keeps failing
    On("sqlite", [write |-> 2, install |-> 1, cache |-> 2]),
    On("sqlite", [install |-> 1, overlay |-> 2, uninstall |-> 1]),
    \* modules on and off, under a write
    On("sqlite", [module |-> 3]),
    On("postgres", [module |-> 1, write |-> 2, revoke |-> 1]) }

\* A record is made and archived twice.
MCArchivedTwice == {On("sqlite", [write |-> 3])}

\* The tenant adds a field while an update is on its way.
MCGrown == {On("sqlite", [write |-> 3, overlay |-> 1])}

Symmetry == Permutations(Clients)
================================================================================
