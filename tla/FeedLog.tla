-------------------------------- MODULE FeedLog --------------------------------
(****************************************************************************)
(* What the change feed promises a reader (INV-S5): per tenant there is one *)
(* append-only log in a fixed total order, and a reader has always received *)
(* exactly a prefix of its scope of that log: nothing skipped, nothing      *)
(* delivered twice, nothing out of order, on resume too.                    *)
(*                                                                          *)
(* The module knows nothing of transactions, locks, sequences, cursors or   *)
(* pages; ChangeFeed implements it.                                         *)
(****************************************************************************)
EXTENDS Naturals

CONSTANTS Tenants,      \* tenants of the installation
          Keys,         \* scope keys (object kinds, changefeed.ScopeKeyFor)
          Readers,      \* cursored readers of the feed
          TenantOf,     \* TenantOf[r]: the tenant reader r is authenticated for
          ScopeOf       \* ScopeOf[r]: the scope keys computeScope returns for r

VARIABLES log,          \* entries published so far
          got           \* got[r]: ids of the entries reader r has received

logVars == <<log, got>>

Entry == [id : Nat, tenant : Tenants, key : Keys]

\* The part of a set of entries that reader r is entitled to see.
InScope(r, S) == {e \in S : e.tenant = TenantOf[r] /\ e.key \in ScopeOf[r]}

Ids(S) == {e.id : e \in S}

LogInit == log = {} /\ got = [r \in Readers |-> {}]

\* A transaction of tenant t publishes: what it adds comes after everything that
\* tenant has published before, and nothing published ever changes.
Publish(t) ==
  /\ log \subseteq log'
  /\ \A e \in log' \ log : /\ e \in Entry /\ e.tenant = t
                           /\ \A f \in log : f.tenant = t => f.id < e.id
  /\ UNCHANGED got

\* Reader r catches up to position n: it now has all of its scope up to n. It
\* never un-receives anything.
Deliver(r, n) ==
  LET prefix == Ids({e \in InScope(r, log) : e.id <= n}) IN
  /\ got[r] \subseteq prefix
  /\ got' = [got EXCEPT ![r] = prefix]
  /\ UNCHANGED log

LogNext ==
  \/ \E t \in Tenants : Publish(t)
  \/ \E r \in Readers : \E n \in Ids(log) : Deliver(r, n)

LogSpec == LogInit /\ [][LogNext]_logVars
================================================================================
