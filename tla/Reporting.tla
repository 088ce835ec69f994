------------------------------- MODULE Reporting --------------------------------
(****************************************************************************)
(* modules/reporting: the statements, the AR aging and the metrics, as      *)
(* functions of the books that Invoicing and Ledger keep. A report loads    *)
(* its data (EnsureBalances, ReadTrialBalance in Ledger, or the fold of the *)
(* log for a period) and computes the rest in memory.                       *)
(****************************************************************************)
EXTENDS Invoicing

CONSTANTS
  AccountType,   \* AccountType[a]: the type of an account, possibly none the ledger knows
  IssueDay,      \* IssueDay[i]: the day invoice i was issued
  Today          \* the day a report is as of

ASSUME ReportingAssumption ==
  /\ DOMAIN AccountType = Accounts
  /\ \A i \in Invoices : IssueDay[i] \in Nat
  /\ Today \in Nat

classify(type) ==
  IF type \in {"asset", "liability", "equity", "income", "expense"} THEN type ELSE "unclassified"

normalBalance(type) == IF classify(type) \in {"asset", "expense"} THEN 1 ELSE -1
presentation(type, net) == net * normalBalance(type)

\* The total of a section, in the sign its reader expects, or raw for an account
\* without a known one. Archived accounts are still in it.
Section(section, b) ==
  SumOver(LAMBDA a : IF section = "unclassified" THEN b[a] ELSE presentation(AccountType[a], b[a]),
          {a \in Accounts : classify(AccountType[a]) = section})

NetIncome(b) == Section("income", b) - Section("expense", b)

TrialBalance(b) == [debits  |-> SumOver(LAMBDA a : b[a], {a \in Accounts : b[a] > 0}),
                    credits |-> SumOver(LAMBDA a : -b[a], {a \in Accounts : b[a] < 0})]

BalanceSheet(b) == [assets |-> Section("asset", b), liabilities |-> Section("liability", b),
                    equity |-> Section("equity", b) + NetIncome(b),
                    unclassified |-> Section("unclassified", b)]

\* Mutant: a stock stops short of its own period.
periodFilterShort(p, grain) ==
  IF grain = "flow" THEN {p} ELSE {q \in Periods : q < p}

\* A flow sees exactly its period, a stock everything up to it.
periodFilter(p, grain) ==
  IF grain = "flow" THEN {p} ELSE {q \in Periods : q <= p}

BalancesForPeriods(ps) == Fold({e \in events : e.period \in ps})

SettlementFor(i) == doc[i].total - AppliedToInvoice(i, None)

\* Invoices that are settled, or more than settled, leave the receivables.
OpenItems == {i \in Invoices : IsFrozen(i) /\ SettlementFor(i) > 0}

ageInDays(i) == IF IssueDay[i] > Today THEN 0 ELSE Today - IssueDay[i]

bucketFor(days) == CASE days <= 0 -> "current" [] days \in 1..30 -> "1_30"
                     [] days \in 31..60 -> "31_60" [] days \in 61..90 -> "61_90"
                     [] OTHER -> "90_plus"

ARAging ==
  [b \in {"current", "1_30", "31_60", "61_90", "90_plus"} |->
     SumOver(SettlementFor, {i \in OpenItems : bucketFor(ageInDays(i)) = b})]
--------------------------------------------------------------------------------
(* Metrics and cards. *)

\* The ledger's metrics and the section each one totals, with its grain and whether up is
\* good. cash_position is total_assets under another name.
LedgerMetrics == [revenue |-> <<"income", "flow", TRUE>>, expenses |-> <<"expense", "flow", FALSE>>,
                  total_assets |-> <<"asset", "stock", TRUE>>,
                  total_liabilities |-> <<"liability", "stock", FALSE>>]

\* loadScoped and the section's total: the balances are folded from the log.
Evaluate(m, p) ==
  Section(LedgerMetrics[m][1], BalancesForPeriods(periodFilter(p, LedgerMetrics[m][2])))

\* The three receivables' metrics, for an age of each item. They see the invoices and
\* receipts of the moment, whatever period they are asked for.
ar_outstanding == SumOver(SettlementFor, OpenItems)
ar_overdue == SumOver(SettlementFor, {i \in OpenItems : ageInDays(i) > 0})
open_invoice_count == Cardinality(OpenItems)

\* Division that drops the fraction towards zero, as Go's does.
Quot(n, d) == IF n >= 0 THEN n \div d ELSE -((-n) \div d)

\* The change in hundredths of a percent of the prior value's magnitude; none from zero.
compare(current, prior, up) ==
  [value |-> prior, delta |-> current - prior,
   bp |-> IF prior = 0 THEN None
          ELSE Quot((current - prior) * 10000, IF prior < 0 THEN -prior ELSE prior),
   improved |-> IF current = prior THEN None ELSE (current > prior) = up]

compareCard(m, p) ==
  [value |-> Evaluate(m, p),
   comparison |-> IF p - 1 \in Periods
                    THEN compare(Evaluate(m, p), Evaluate(m, p - 1), LedgerMetrics[m][3])
                    ELSE None]
--------------------------------------------------------------------------------
(* Properties. *)

\* The balance sheet balances, the unclassified accounts included, and so does the
\* trial balance, on what the projection holds and on the log up to any period.
Balances(b) ==
  LET s == BalanceSheet(b) IN
  /\ s.assets + s.unclassified = s.liabilities + s.equity
  /\ TrialBalance(b).debits = TrialBalance(b).credits
StatementsBalance ==
  Balances(bal) /\ \A p \in Periods : Balances(BalancesForPeriods(periodFilter(p, "stock")))

\* The cards of the periods tell one story: a stock moves from one period's card to the
\* next by what its accounts took in that period, and the flows of all periods add up to
\* the earnings that the balance sheet counts as equity.
CardsAddUp ==
  LET flow == [p \in Periods |-> BalancesForPeriods(periodFilter(p, "flow"))]
      log == Fold(events)
  IN /\ \A p \in Periods, m \in DOMAIN LedgerMetrics :
          LET c == compareCard(m, p).comparison IN
          (c # None /\ LedgerMetrics[m][2] = "stock")
            => c.delta = Section(LedgerMetrics[m][1], flow[p])
     /\ SumOver(LAMBDA p : Evaluate("revenue", p) - Evaluate("expenses", p), Periods)
          = BalanceSheet(log).equity - Section("equity", log)

\* The open items of each receivable account are its balance over the entries of the
\* posted documents, and the aging shows all of them. The other entries are left out: a
\* reversal, or the entry of a document that was never accepted, is in no aging
\* (AgingTiesToLedger). It is promised on SQLite, as a receipt may over-apply on Postgres
\* and its excess then leaves the aging but not the ledger, and of documents that nothing
\* overtook.
ReceivablesReconcile ==
  (dialect = "sqlite" /\ overtaken = {}) =>
    LET tb == Fold({e \in events : \E d \in Documents : IsFrozen(d) /\ e.cmd = Command(d)})
        aging == ARAging
        receivables == {doc[i].content.ar : i \in {x \in Invoices : IsFrozen(x)}}
        openIn(a) == SumOver(SettlementFor, {i \in OpenItems : doc[i].content.ar = a})
    IN /\ \A a \in receivables : openIn(a) = tb[a]
       /\ SumOver(LAMBDA b : aging[b], DOMAIN aging) = ar_outstanding
       /\ ar_outstanding - aging["current"] = ar_overdue
       /\ open_invoice_count > 0 <=> ar_outstanding > 0

\* What the tests and the decisions say of the aging: its open items are the ledger's
\* balance of the receivable accounts, once no request is half-way. A reversal takes an
\* invoice out of the ledger and leaves it in the aging.
AgingTiesToLedger ==
  (\A c \in Clients : task[c] = Idle) =>
    LET receivables == {doc[i].content.ar : i \in {x \in Invoices : IsFrozen(x)}}
        ledgerBalance == Fold(events)
    IN ar_outstanding = SumOver(LAMBDA a : ledgerBalance[a], receivables)

\* The reports agree with the books and with each other.
ReportsAgree == StatementsBalance /\ CardsAddUp /\ ReceivablesReconcile
================================================================================
