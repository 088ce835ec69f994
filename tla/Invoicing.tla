------------------------------- MODULE Invoicing --------------------------------
(****************************************************************************)
(* modules/invoicing over Ledger: drafts of invoices and receipts, posting  *)
(* them, and settlement. Posting is three transactions: read the draft,     *)
(* post its journal entry (ledger.Post), then accept it: give it the next   *)
(* number of its series and freeze it.                                      *)
(****************************************************************************)
EXTENDS Ledger

CONSTANTS
  Invoices, Receipts,
  Contents,      \* Contents[d]: what d may hold. An invoice, its AR account and its lines,
                 \* each with the revenue account, the net and the tax that each version
                 \* of the rates gives it; a receipt, an amount for each invoice it settles
  Rates,         \* versions of the tax rates, 1 the one the tenant starts with
  TaxAccount, BankAccount

ASSUME InvoicingAssumption ==
  /\ Invoices \cap Receipts = {} /\ IsFiniteSet(Invoices) /\ IsFiniteSet(Receipts)
  /\ None \notin Receipts
  /\ \A i \in Invoices : \A v \in Contents[i] :
       /\ v.ar \in Accounts /\ v.lines # <<>>
       /\ v.lines \in Seq([account : Accounts, net : Nat, tax : [Rates -> Nat]])
  /\ \A r \in Receipts : \A v \in Contents[r] :
       /\ DOMAIN v \subseteq Invoices /\ DOMAIN v # {}
       /\ \A i \in DOMAIN v : v[i] \in Nat \ {0}
  /\ {TaxAccount, BankAccount} \subseteq Accounts
  /\ 1 \in Rates

VARIABLES
  doc,         \* doc[d]: the row of invoice or receipt d
  next,        \* next[s]: next_value of number series s, 0 before it has a row
  rates,       \* the tax rates on file
  overtaken    \* history: documents edited, or taxed anew, after a request to post them
               \* had read them

documents == <<doc, next, rates, overtaken>>
vars == <<dialect, ledger, task, left, documents>>

Documents == Invoices \cup Receipts
Series(d) == IF d \in Invoices THEN "invoice" ELSE "receipt"
Command(d) == <<Series(d), d>>
IsDraft(d) == doc[d].status = "draft"
IsFrozen(d) == doc[d].status = "posted"

TypeOK ==
  /\ LedgerTypeOK
  /\ \A d \in Documents : /\ doc[d].status \in {"none", "draft", "posted"}
                          /\ doc[d].status # "none" => doc[d].content \in Contents[d]
                          /\ doc[d].num \in Nat /\ doc[d].entry \in 0..seq
                          /\ doc[d].tax \in Nat /\ doc[d].total \in Nat
  /\ rates \in Rates
  /\ next \in [{"invoice", "receipt"} -> Nat]
  /\ overtaken \subseteq Documents

Init ==
  /\ LedgerInit
  /\ doc = [d \in Documents |-> [status |-> "none", content |-> None, num |-> 0,
                                 tax |-> 0, total |-> 0, entry |-> 0]]
  /\ rates = 1
  /\ next = [s \in {"invoice", "receipt"} |-> 0]
  /\ overtaken = {}
--------------------------------------------------------------------------------
(* The posting templates. *)

Debit(a, n) == [account |-> a, debit |-> n, credit |-> 0]
Credit(a, n) == [account |-> a, debit |-> 0, credit |-> n]

Net(content, a) == SumOver(LAMBDA i : content.lines[i].net,
                           {i \in DOMAIN content.lines : content.lines[i].account = a})
\* resolveInvoiceTax: what the rates on file make of the lines.
Tax(content) == SumOver(LAMBDA i : content.lines[i].tax[rates], DOMAIN content.lines)
RevenueAccounts(content) == {content.lines[i].account : i \in DOMAIN content.lines}
Gross(content, tax) == tax + SumOver(LAMBDA a : Net(content, a), RevenueAccounts(content))

\* The receivable is debited the gross; each revenue account is credited its net, and
\* the tax account the tax when there is any.
buildInvoiceJournal(content, tax) ==
  <<Debit(content.ar, Gross(content, tax))>>
  \o SetToSeq({Credit(a, Net(content, a)) : a \in RevenueAccounts(content)})
  \o IF tax # 0 THEN <<Credit(TaxAccount, tax)>> ELSE <<>>

Total(apps) == SumFunction(apps)

\* The bank is debited; each invoice's own receivable account, ar[i], is credited.
buildReceiptJournal(apps, ar) ==
  LET applied(a) == SumOver(LAMBDA i : apps[i], {i \in DOMAIN apps : ar[i] = a})
  IN <<Debit(BankAccount, Total(apps))>>
     \o SetToSeq({Credit(a, applied(a)) : a \in {ar[i] : i \in DOMAIN apps}})

Receivables(apps) == [i \in DOMAIN apps |-> doc[i].content.ar]

\* The tax of an invoice is what its row was frozen with, and until then what the rates
\* say at the moment: nothing of an attempt to post it is kept for the next one.
DocTax(d) == IF d \in Receipts THEN 0
             ELSE IF IsFrozen(d) THEN doc[d].tax ELSE Tax(doc[d].content)
Journal(d) == IF d \in Invoices THEN buildInvoiceJournal(doc[d].content, DocTax(d))
              ELSE buildReceiptJournal(doc[d].content, Receivables(doc[d].content))
DocTotal(d) == IF d \in Invoices THEN Gross(doc[d].content, DocTax(d)) ELSE Total(doc[d].content)

\* appliedToInvoiceTx: what the posted receipts, other than r, settle of invoice i.
AppliedToInvoice(i, r) ==
  SumOver(LAMBDA x : doc[x].content[i],
          {x \in Receipts \ {r} : IsFrozen(x) /\ i \in DOMAIN doc[x].content})

checkNotOverApplied(r, apps) ==
  \A i \in DOMAIN apps : AppliedToInvoice(i, r) + apps[i] <= doc[i].total
--------------------------------------------------------------------------------
(* Drafts. *)

NewDraft(d) ==
  \E content \in Contents[d] :
    /\ doc[d].status = "none"
    /\ doc' = [doc EXCEPT ![d] = [status |-> "draft", content |-> content, num |-> 0,
                                  tax |-> 0, total |-> 0, entry |-> 0]]

CreateDraft ==
  /\ Spend("draft")
  /\ \E d \in Invoices : NewDraft(d)
  /\ UNCHANGED <<dialect, ledger, task, next, rates, overtaken>>

\* The invoices it names need not be posted, or exist, before the receipt is posted.
CreateReceiptDraft ==
  /\ Spend("draft")
  /\ \E d \in Receipts : NewDraft(d)
  /\ UNCHANGED <<dialect, ledger, task, next, rates, overtaken>>

\* The status is read before the update, in a transaction of its own.
ReadDraft(c, d) ==
  \E content \in Contents[d] :
    /\ IsDraft(d)
    /\ Goto(c, [op |-> "update", at |-> "write", doc |-> d, content |-> content])

UpdateDraft(c) ==
  /\ task[c] = Idle /\ Spend("update")
  /\ \E d \in Invoices : ReadDraft(c, d)
  /\ UNCHANGED <<dialect, ledger, documents>>

UpdateReceiptDraft(c) ==
  /\ task[c] = Idle /\ Spend("update")
  /\ \E d \in Receipts : ReadDraft(c, d)
  /\ UNCHANGED <<dialect, ledger, documents>>

BeingPosted(d) == \/ IsPosted(Command(d))
                  \/ \E c \in Clients : task[c].op = Series(d) /\ task[c].doc = d

\* Mutant: there is no trigger to reject the update of a posted row.
UpdateDraftNoTrigger(c) ==
  /\ task[c].at = "write"
  /\ doc' = [doc EXCEPT ![task[c].doc].content = task[c].content]
  /\ overtaken' = IF IsDraft(task[c].doc) /\ BeingPosted(task[c].doc)
                    THEN overtaken \cup {task[c].doc} ELSE overtaken
  /\ Done(c) /\ UNCHANGED <<dialect, ledger, left, next, rates>>

\* By then the row may be posted: the trigger rejects the update.
UpdateDraftWrite(c) ==
  LET d == task[c].doc IN
  /\ task[c].at = "write"
  /\ IF IsDraft(d)
       THEN /\ doc' = [doc EXCEPT ![d].content = task[c].content]
            /\ overtaken' = IF BeingPosted(d) THEN overtaken \cup {d} ELSE overtaken
       ELSE UNCHANGED <<doc, overtaken>>
  /\ Done(c)
  /\ UNCHANGED <<dialect, ledger, left, next, rates>>

\* A rate is put on file, possibly with a day that is over. Invoices that are drafts take
\* the new one, the ones whose journal entry is posted already among them.
SaveRate ==
  /\ Spend("rate")
  /\ \E v \in Rates \ {rates} : rates' = v
  /\ overtaken' = overtaken \cup {i \in Invoices : IsDraft(i) /\ BeingPosted(i)}
  /\ UNCHANGED <<dialect, ledger, task, doc, next>>
--------------------------------------------------------------------------------
(* Posting a document. *)

StartPost(c, d) ==
  \E p \in Periods :
    post(c, [op |-> Series(d), at |-> "refs", period |-> p, lines |-> Journal(d),
             cmd |-> Command(d), doc |-> d, content |-> doc[d].content,
             tax |-> DocTax(d), total |-> DocTotal(d), id |-> 0, num |-> 0])

PostInvoice(c) ==
  /\ task[c] = Idle /\ Spend("invoice")
  /\ \E d \in Invoices : IsDraft(d) /\ StartPost(c, d)
  /\ UNCHANGED <<dialect, ledger, documents>>

\* Every invoice it settles must be posted.
PostReceipt(c) ==
  /\ task[c] = Idle /\ Spend("receipt")
  /\ \E d \in Receipts : /\ IsDraft(d)
                         /\ \A i \in DOMAIN doc[d].content : IsFrozen(i)
                         /\ StartPost(c, d)
  /\ UNCHANGED <<dialect, ledger, documents>>

MayAccept(t) == t.op = "receipt" => checkNotOverApplied(t.doc, t.content)

\* allocateNumber: the first number of a series makes its row.
NumberOf(n) == IF n = 0 THEN 1 ELSE n

\* The draft becomes posted, with the totals of what was read when the request began.
Freeze(t, n) ==
  doc' = [doc EXCEPT ![t.doc] = [status |-> "posted", content |-> @.content, num |-> n,
                                 tax |-> t.tax, total |-> t.total, entry |-> t.id]]

\* Mutant: the number is taken whether or not the document is still a draft.
AcceptNoRollback(c) ==
  LET t == task[c] IN
  /\ t.at = "accept" /\ dialect = "sqlite"
  /\ IF MayAccept(t)
       THEN /\ next' = [next EXCEPT ![t.op] = NumberOf(@) + 1]
            /\ IF IsDraft(t.doc) THEN Freeze(t, NumberOf(next[t.op])) ELSE UNCHANGED doc
       ELSE UNCHANGED <<doc, next>>
  /\ Done(c) /\ UNCHANGED <<dialect, ledger, left, rates, overtaken>>

\* Mutant: what other receipts settle is not looked at again at acceptance.
AcceptNoRecheck(c) ==
  LET t == task[c] IN
  /\ t.at = "accept" /\ dialect = "sqlite"
  /\ IF IsDraft(t.doc)
       THEN Freeze(t, NumberOf(next[t.op])) /\ next' = [next EXCEPT ![t.op] = NumberOf(@) + 1]
       ELSE UNCHANGED <<doc, next>>
  /\ Done(c) /\ UNCHANGED <<dialect, ledger, left, rates, overtaken>>

\* The acceptance on SQLite: over-application, number, freeze, all or nothing.
Accept(c) ==
  LET t == task[c] IN
  /\ t.at = "accept" /\ dialect = "sqlite"
  /\ IF MayAccept(t) /\ IsDraft(t.doc)
       THEN Freeze(t, NumberOf(next[t.op])) /\ next' = [next EXCEPT ![t.op] = NumberOf(@) + 1]
       ELSE UNCHANGED <<doc, next>>
  /\ Done(c)
  /\ UNCHANGED <<dialect, ledger, left, rates, overtaken>>

\* On Postgres it reads first: the applications, then the counter ...
AcceptRead(c) ==
  LET t == task[c] IN
  /\ t.at = "accept" /\ dialect = "postgres"
  /\ IF MayAccept(t) THEN Goto(c, [t EXCEPT !.at = "freeze", !.num = next[t.op]]) ELSE Done(c)
  /\ UNCHANGED <<dialect, ledger, left, documents>>

\* ... and then adds one to the counter, whatever it holds by now. A second row of the
\* series is refused by its primary key.
AcceptWrite(c) ==
  LET t == task[c] IN
  /\ t.at = "freeze"
  /\ IF IsDraft(t.doc) /\ (t.num = 0 => next[t.op] = 0)
       THEN /\ Freeze(t, NumberOf(t.num))
            /\ next' = [next EXCEPT ![t.op] = NumberOf(@) + 1]
       ELSE UNCHANGED <<doc, next>>
  /\ Done(c)
  /\ UNCHANGED <<dialect, ledger, left, rates, overtaken>>

Terminated == /\ \A c \in Clients : task[c] = Idle
              /\ UNCHANGED vars

Next ==
  \/ \E c \in Clients : LedgerStep(c) /\ UNCHANGED documents
  \/ ArchiveAccount /\ UNCHANGED documents
  \/ CreateDraft \/ CreateReceiptDraft \/ SaveRate
  \/ \E c \in Clients :
       \/ UpdateDraft(c) \/ UpdateReceiptDraft(c) \/ UpdateDraftWrite(c)
       \/ PostInvoice(c) \/ PostReceipt(c)
       \/ Accept(c) \/ AcceptRead(c) \/ AcceptWrite(c)
  \/ Terminated

Spec == Init /\ [][Next]_vars
--------------------------------------------------------------------------------
(* Properties. *)

Numbers(s) == {doc[d].num : d \in {x \in Documents : Series(x) = s /\ IsFrozen(x)}}
InSeries(s) == {d \in Documents : Series(d) = s /\ IsFrozen(d)}

\* INV-F6: the posted documents of a series are numbered 1, 2, 3, ... with no number
\* missing and none given twice, whatever is refused, retried or dies on the way.
Gapless == \A s \in {"invoice", "receipt"} : Numbers(s) = 1..Cardinality(InSeries(s))
NumbersGapless == dialect = "sqlite" => Gapless

\* INV-F8: no invoice is settled beyond its gross, however many receipts drafted for it
\* are posted at once. A receipt edited while it is being posted escapes the check.
NotOverApplied ==
  dialect = "sqlite" =>
    \A i \in Invoices : IsFrozen(i) =>
      SumOver(LAMBDA x : doc[x].content[i],
              {x \in Receipts \ overtaken : IsFrozen(x) /\ i \in DOMAIN doc[x].content})
        <= doc[i].total

\* A posted document is what its journal entry says: the entry its command made, with
\* the lines its content and its tax give, the same after crashes, retries and posting
\* twice at once. A document edited, or whose rates were changed, after a request to post
\* it had read it may differ.
DocumentsAgree ==
  \A d \in Documents : IsFrozen(d) =>
    /\ IsPosted(Command(d)) /\ Entry(Command(d)).id = doc[d].entry
    /\ d \notin overtaken => /\ Entry(Command(d)).lines = Journal(d)
                             /\ Debits(Entry(Command(d)).lines) = doc[d].total

\* What PostInvoice says of itself: after a crash between the entry and the freeze "a
\* retry is idempotent", so the total of a posted document is what its entry debits.
\* The retry takes the entry of the first attempt and the tax of its own.
RetryIdempotent ==
  \A d \in Documents : IsFrozen(d) => Debits(Entry(Command(d)).lines) = doc[d].total
================================================================================
