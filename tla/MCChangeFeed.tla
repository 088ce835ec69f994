----------------------------- MODULE MCChangeFeed ------------------------------
(* ChangeFeed on small instances. *)
EXTENDS ChangeFeed, TLC

CONSTANTS t1, t2, contact, invoice, r1, k1, k2

\* One reader, whose scope hides some of its tenant's entries; the other tenant only writes.
MCTenantOf == r1 :> t1
MCScopeOf == r1 :> {contact}

MCAdvisoryKey == t1 :> k1 @@ t2 :> k2
================================================================================
