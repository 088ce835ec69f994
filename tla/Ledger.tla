--------------------------------- MODULE Ledger ---------------------------------
(****************************************************************************)
(* modules/ledger over kernel/eventstore: posting a journal entry, reversing*)
(* one, closing and reopening a period, and the balance projection that the *)
(* reports read. One tenant and one currency.                               *)
(*                                                                          *)
(* A request is a task that takes one database transaction, or one part of  *)
(* one, per action. On SQLite a transaction is one action: writers exclude  *)
(* each other, and tenancy.WithTenant runs one that lost its snapshot again *)
(* from the start. On Postgres, under READ COMMITTED, what a transaction    *)
(* reads may be out of date when it writes, so reading and writing are two  *)
(* actions; from its first write to its commit its row locks keep others    *)
(* out. The documents that post entries are in Invoicing, which also says   *)
(* which tasks there are: this module has the steps.                        *)
(****************************************************************************)
EXTENDS Integers, FiniteSets, Sequences, SequencesExt

CONSTANTS
  Dialects,    \* the databases considered: a subset of {"sqlite", "postgres"}
  Clients,     \* concurrent requests
  Accounts,    \* the chart of accounts
  Periods,     \* fiscal periods, numbered from the oldest
  Scenarios,   \* bound: how often each kind of request and fault may happen
  None

Kinds == {"draft", "update", "invoice", "receipt", "reverse", "close", "reopen",
          "archive", "rate", "report", "crash"}

ASSUME LedgerAssumption ==
  /\ Dialects \subseteq {"sqlite", "postgres"}
  /\ Periods \subseteq Nat \ {0} /\ IsFiniteSet(Periods) /\ IsFiniteSet(Accounts)
  /\ Scenarios \subseteq [Kinds -> Nat]

VARIABLES
  dialect,
  events,     \* committed rows of events: the posted journal entries
  seq,        \* the last event id handed out
  open,       \* periods whose status is open
  active,     \* accounts that are not archived
  bal,        \* ledger_balances: net of each account
  cursor,     \* ledger_balance_cursor.last_event_id
  task,       \* task[c]: the request c is serving
  straddle,   \* history: straddle[p] are the tasks that were posting to p when it closed
  left        \* how much of the scenario is left

ledger == <<events, seq, open, active, bal, cursor, straddle>>

Idle == [op |-> "idle", at |-> "idle"]
Line == [account : Accounts, debit : Nat, credit : Nat]

Spend(k) == /\ left[k] > 0
            /\ left' = [left EXCEPT ![k] = @ - 1]
Goto(c, t) == task' = [task EXCEPT ![c] = t]
Done(c) == Goto(c, Idle)

\* A task whose request has reached ledger.post and is not through it.
Posting(c) == task[c].at \in {"refs", "append", "insert", "commit"}

LedgerTypeOK ==
  /\ dialect \in Dialects
  /\ \A e \in events : /\ e.id \in 1..seq /\ e.period \in Periods
                       /\ e.lines \in Seq(Line)
  /\ seq \in Nat
  /\ open \subseteq Periods
  /\ active \subseteq Accounts
  /\ bal \in [Accounts -> Int]
  /\ cursor \in 0..seq
  /\ straddle \in [Periods -> SUBSET Clients]
  /\ left \in [Kinds -> Nat]

LedgerInit ==
  /\ dialect \in Dialects
  /\ events = {} /\ seq = 0
  /\ open = Periods /\ active = Accounts
  /\ bal = [a \in Accounts |-> 0] /\ cursor = 0
  /\ task = [c \in Clients |-> Idle]
  /\ straddle = [p \in Periods |-> {}]
  /\ left \in Scenarios
--------------------------------------------------------------------------------
(* Entries. *)

SumOver(F(_), S) == SumFunction([x \in S |-> F(x)])

Debits(lines) == SumOver(LAMBDA i : lines[i].debit, DOMAIN lines)
Credits(lines) == SumOver(LAMBDA i : lines[i].credit, DOMAIN lines)

\* The amounts of an instance are small: the int64 sums of the code do not wrap around.
validateEntry(lines) ==
  /\ Len(lines) >= 2
  /\ \A i \in DOMAIN lines : /\ lines[i].debit >= 0 /\ lines[i].credit >= 0
                             /\ (lines[i].debit = 0) # (lines[i].credit = 0)
  /\ Debits(lines) = Credits(lines)

Reversed(lines) ==
  [i \in DOMAIN lines |-> [account |-> lines[i].account,
                           debit |-> lines[i].credit, credit |-> lines[i].debit]]

\* TrialBalance.add: what the lines of an entry add to an account; and the fold of a set of
\* entries that starts from nothing.
add(lines, a) ==
  SumOver(LAMBDA i : IF lines[i].account = a THEN lines[i].debit - lines[i].credit ELSE 0,
          DOMAIN lines)
Fold(es) == [a \in Accounts |-> SumOver(LAMBDA e : add(e.lines, a), es)]

IsPosted(cmd) == \E e \in events : e.cmd = cmd
Entry(cmd) == CHOOSE e \in events : e.cmd = cmd

\* What a caller of ledger.post has put together. A structural error ends it here.
post(c, t) ==
  IF validateEntry(t.lines) THEN Goto(c, [t EXCEPT !.at = "refs"]) ELSE Done(c)

\* ledger.Reverse: load an entry and post its mirror image into the same period. Nothing
\* says that an entry was reversed before, or that it is itself a reversal. The
\* command id comes from the request's idempotency key: one per request.
ReverseEntry(c) ==
  /\ task[c] = Idle /\ Spend("reverse")
  /\ \E e \in events :
       post(c, [op |-> "reverse", at |-> "refs", period |-> e.period,
                lines |-> Reversed(e.lines), cmd |-> <<"reverse", left["reverse"]>>,
                doc |-> e.id, content |-> None, tax |-> 0, total |-> 0,
                id |-> 0, num |-> 0])
  /\ UNCHANGED <<dialect, ledger>>

\* Mutant: the period is not looked at.
validateRefsAccounts(c) ==
  LET t == task[c] IN
  /\ t.at = "refs"
  /\ IF \A i \in DOMAIN t.lines : t.lines[i].account \in active
       THEN Goto(c, [t EXCEPT !.at = "append"]) ELSE Done(c)
  /\ UNCHANGED <<dialect, ledger, left>>

\* validateRefs, in a transaction of its own: the period is open and the accounts live.
validateRefs(c) ==
  LET t == task[c] IN
  /\ t.at = "refs"
  /\ IF t.period \in open /\ \A i \in DOMAIN t.lines : t.lines[i].account \in active
       THEN Goto(c, [t EXCEPT !.at = "append"]) ELSE Done(c)
  /\ UNCHANGED <<dialect, ledger, left>>

\* A reversal is over when its entry is posted, a document goes on to be accepted.
Posted(c, id) ==
  IF task[c].op = "reverse" THEN Done(c) ELSE Goto(c, [task[c] EXCEPT !.at = "accept", !.id = id])

NewEvent(t, id) == [id |-> id, cmd |-> t.cmd, period |-> t.period, lines |-> t.lines,
                    reverses |-> IF t.op = "reverse" THEN t.doc ELSE 0]

\* eventstore.Append on SQLite: a command id seen before returns the event it made.
\* Whether the period is still open is not asked again. The stream is new, so the
\* version it expects is the one it finds.
AppendEvent(c) ==
  LET t == task[c] IN
  /\ t.at = "append" /\ dialect = "sqlite"
  /\ IF IsPosted(t.cmd)
       THEN Posted(c, Entry(t.cmd).id) /\ UNCHANGED <<events, seq>>
       ELSE /\ seq' = seq + 1
            /\ events' = events \cup {NewEvent(t, seq + 1)}
            /\ Posted(c, seq + 1)
  /\ UNCHANGED <<dialect, open, active, bal, cursor, straddle, left>>

\* postEntryPG: ledger_post_entry looks for the command id, then for the period.
PostEntryCheck(c) ==
  LET t == task[c] IN
  /\ t.at = "append" /\ dialect = "postgres"
  /\ IF IsPosted(t.cmd) THEN Posted(c, Entry(t.cmd).id)
     ELSE IF t.period \in open THEN Goto(c, [t EXCEPT !.at = "insert"])
     ELSE Done(c)
  /\ UNCHANGED <<dialect, ledger, left>>

\* Its INSERT takes an id. A second one with the same command id waits for the first
\* to end, and then fails on the unique index: nothing looks the command up again.
PostEntryInsert(c) ==
  LET t == task[c] IN
  /\ t.at = "insert"
  /\ \A d \in Clients : task[d].at = "commit" => task[d].cmd # t.cmd
  /\ IF IsPosted(t.cmd) THEN Done(c) /\ UNCHANGED seq
     ELSE seq' = seq + 1 /\ Goto(c, [t EXCEPT !.at = "commit", !.id = seq + 1])
  /\ UNCHANGED <<dialect, events, open, active, bal, cursor, straddle, left>>

PostEntryCommit(c) ==
  LET t == task[c] IN
  /\ t.at = "commit"
  /\ events' = events \cup {NewEvent(t, t.id)}
  /\ Posted(c, t.id)
  /\ UNCHANGED <<dialect, seq, open, active, bal, cursor, straddle, left>>
--------------------------------------------------------------------------------
(* Periods and accounts. *)

\* ClosePeriod and ReopenPeriod: the status is read in one transaction and written
\* in the next, whatever it is by then.
transitionStatus(c, op) ==
  /\ task[c] = Idle /\ Spend(op)
  /\ \E p \in IF op = "close" THEN open ELSE Periods \ open :
       Goto(c, [op |-> op, at |-> "status", period |-> p])
  /\ UNCHANGED <<dialect, ledger>>

transitionWrite(c) ==
  LET p == task[c].period IN
  /\ task[c].at = "status"
  /\ open' = IF task[c].op = "close" THEN open \ {p} ELSE open \cup {p}
  /\ straddle' = [straddle EXCEPT ![p] =
       IF task[c].op = "reopen" THEN {} ELSE @ \cup {d \in Clients : Posting(d) /\ task[d].period = p}]
  /\ Done(c)
  /\ UNCHANGED <<dialect, events, seq, active, bal, cursor, left>>

\* An account is archived through the generic object routes.
ArchiveAccount ==
  /\ Spend("archive")
  /\ \E a \in active : active' = active \ {a}
  /\ UNCHANGED <<dialect, events, seq, open, bal, cursor, straddle, task>>
--------------------------------------------------------------------------------
(* The balance projection. *)

After(n) == {e \in events : e.id > n}
IdsOf(es) == {e.id : e \in es}

\* Mutant: the deltas are added but the cursor stays where it was.
CatchUpNoCursor(es) ==
  /\ LET delta == Fold(es) IN bal' = [a \in Accounts |-> bal[a] + delta[a]]
  /\ UNCHANGED cursor

\* Mutant: the cursor is the next id to read, not the last one read.
CatchUpPast(es) ==
  /\ LET delta == Fold(es) IN bal' = [a \in Accounts |-> bal[a] + delta[a]]
  /\ cursor' = IF es = {} THEN cursor ELSE Max(IdsOf(es)) + 1

\* The deltas and the cursor, in one transaction.
CatchUp(es) ==
  /\ LET delta == Fold(es) IN bal' = [a \in Accounts |-> bal[a] + delta[a]]
  /\ cursor' = IF es = {} THEN cursor ELSE Max(IdsOf(es))

\* reporting.Load: EnsureBalances, then the trial balance and the accounts are read.
\* "since" are the entries there were when the report was asked for.
EnsureBalances(c) ==
  /\ task[c] = Idle /\ Spend("report")
  /\ IF dialect = "sqlite"
       THEN /\ CatchUp(After(cursor))
            /\ Goto(c, [op |-> "report", at |-> "read", since |-> events])
       ELSE /\ Goto(c, [op |-> "report", at |-> "fold", since |-> events,
                       from |-> cursor, new |-> After(cursor)])
            /\ UNCHANGED <<bal, cursor>>
  /\ UNCHANGED <<dialect, events, seq, open, active, straddle>>

\* On Postgres the balances and the cursor may have moved since they were read. Rows are
\* updated, or inserted when there are none: of two transactions that insert one row at
\* the same time the second fails on its primary key.
EnsureBalancesWrite(c) ==
  /\ task[c].at = "fold"
  /\ \/ CatchUp(task[c].new) /\ Goto(c, [op |-> "report", at |-> "read", since |-> task[c].since])
     \/ cursor # task[c].from /\ Done(c) /\ UNCHANGED <<bal, cursor>>
  /\ UNCHANGED <<dialect, events, seq, open, active, straddle, left>>

\* ReadTrialBalance and loadAccounts.
ReadTrialBalance(c) ==
  /\ task[c].at = "read"
  /\ Done(c)
  /\ UNCHANGED <<dialect, ledger, left>>

\* The process dies, or the request is cancelled: its open transaction is rolled back.
Crash(c) ==
  /\ task[c] # Idle /\ Spend("crash")
  /\ Done(c)
  /\ UNCHANGED <<dialect, ledger>>

LedgerStep(c) ==
  \/ ReverseEntry(c) \/ validateRefs(c) \/ AppendEvent(c)
  \/ PostEntryCheck(c) \/ PostEntryInsert(c) \/ PostEntryCommit(c)
  \/ transitionStatus(c, "close") \/ transitionStatus(c, "reopen") \/ transitionWrite(c)
  \/ EnsureBalances(c) \/ EnsureBalancesWrite(c) \/ ReadTrialBalance(c)
  \/ Crash(c)
--------------------------------------------------------------------------------
(* Properties. *)

\* What is posted stays as it was posted (INV-F2): a reversal is a new entry, and no
\* command id, retried or raced, has two.
AppendOnly ==
  /\ events \subseteq events'
  /\ \A e, f \in events' : e.cmd = f.cmd => e = f

\* A closed period takes an entry only from a request that was in ledger.post already
\* when it was closed: once those are over, it is sealed until it is reopened.
Sealed ==
  \A p \in Periods \ open : \A e \in events' \ events :
    e.period = p => \E c \in straddle[p] : task[c].at \in {"append", "commit"} /\ task[c].cmd = e.cmd

\* The log is immutable, and closed periods stay as they were.
PeriodSealed == [][AppendOnly /\ Sealed]_events

\* On SQLite the projection is the fold of exactly the entries up to its cursor, and a
\* report that has caught up shows every entry there was when it was asked for. On both
\* databases every entry balances, and so do the balances whatever was folded twice.
ProjectionExact ==
  /\ dialect = "sqlite" =>
       /\ bal = Fold({e \in events : e.id <= cursor})
       /\ \A c \in Clients : task[c].at = "read" => \A e \in task[c].since : e.id <= cursor
  /\ SumFunction(bal) = 0
================================================================================
