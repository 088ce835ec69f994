-------------------------------- MODULE MCBooks ---------------------------------
(* Two invoices with receivables of their own, two receipts that together settle one of
   them beyond its gross, two periods. One account has a type the ledger does not know. *)
EXTENDS Reporting, TLC

CONSTANTS c1, c2, i1, i2, r1, r2

MCRates == {1, 2}

\* The second version of the rates is one dearer for what is taxed.
Line1(a, n, t) == [account |-> a, net |-> n, tax |-> [v \in MCRates |-> IF t = 0 THEN 0 ELSE t + v - 1]]
MCContents ==
  (i1 :> {[ar |-> "ar1", lines |-> <<Line1("sales", 2, 1)>>],
          [ar |-> "ar1", lines |-> <<Line1("sales", 1, 0)>>]})
  @@ (i2 :> {[ar |-> "ar2", lines |-> <<Line1("sales", 1, 0), Line1("other", 1, 0)>>]})
  @@ (r1 :> {i1 :> 2}) @@ (r2 :> {(i1 :> 2) @@ (i2 :> 1)})

MCAccountType == [ar1 |-> "asset", ar2 |-> "asset", bank |-> "asset", tax |-> "liability",
                  sales |-> "income", other |-> "banana"]
MCAccounts == DOMAIN MCAccountType
MCIssueDay == (i1 :> 40) @@ (i2 :> 100)

\* What one scenario lets happen; the other kinds do not.
Scenario(few) == [k \in Kinds |-> IF k \in DOMAIN few THEN few[k] ELSE 0]

\* A crash after the entry, a new rate, a retry; and an invoice whose entry is reversed.
MCRetaxed == {Scenario([draft |-> 1, invoice |-> 2, rate |-> 1, crash |-> 1])}
MCReversed == {Scenario([draft |-> 1, invoice |-> 1, reverse |-> 1])}

MCScenarios == MCRetaxed \cup
  { \* two receipts race for one invoice; a retry after a crash
    Scenario([draft |-> 3, invoice |-> 1, receipt |-> 3, crash |-> 1]),
    \* a receipt for two invoices
    Scenario([draft |-> 3, invoice |-> 2, receipt |-> 1]),
    \* one invoice posted by two requests, with an edit and a crash on the way
    Scenario([draft |-> 1, invoice |-> 3, update |-> 1, crash |-> 1]),
    \* the same before another invoice of the series
    Scenario([draft |-> 2, invoice |-> 3]),
    \* two invoices and a reversal around the close and reopening of a period
    Scenario([draft |-> 2, invoice |-> 2, reverse |-> 1, close |-> 1, reopen |-> 1]),
    \* reports, an archived account and a reversal of a reversal
    Scenario([draft |-> 1, invoice |-> 1, reverse |-> 2, report |-> 2, archive |-> 1]) }

Symmetry == Permutations(Clients)
================================================================================
