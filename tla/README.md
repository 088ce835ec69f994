# LastERP in TLA+

LastERP is an ERP server in Go (Postgres or SQLite, many tenants) with a
TypeScript web client that keeps a local replica, works offline and queues its
writes. This directory holds TLA+ models of the parts whose correctness depends
on interleaving, failure and order, the TLC configurations that check them on
small instances, and proofs checked by TLAPS for every instance.

## 1. The system

| Component | State | Operations | Interacts with |
|---|---|---|---|
| change feed (`kernel/changefeed`) | append-only `change_feed`, one id sequence, a per-tenant advisory lock | `Append` in the transaction of the row or event, `HighWater`, `Read` | written by metadata CRUD and the event store; read by replicas, plugin hooks, automations |
| gateway (`kernel/api`) | `idempotency_keys`, token buckets | `handleWrite`: begin, exec, finalize, discard; guard; listing | calls metadata CRUD and module actions; called by the outbox |
| sync endpoints (`internal/app/sync.go`, `scope.go`, `meta.go`) | none of their own | metadata, scope, snapshot pages, change pages with materialized rows | change feed, authorization, capabilities |
| web replica (`web/src/sync`) | local tables, hydration marks, cursor, outbox, tray of refused commands | `enqueue`, `drain`, `reshape`, `hydrate`, `pull`, `wipeReplica` | gateway and sync endpoints, over a network that loses requests and answers |
| job queue (`kernel/jobs`) | `jobs`, `job_dead_letters`, `job_schedules` | `Enqueue`, `Claim`, `Complete`, `Fail`, `TickSchedules`, schedule upsert and removal | filled by plugins and automations, run by every node |
| plugins (`kernel/plugins`) | `plugins` with the breaker, `plugin_deliveries`, dead letters, kv | `Install`, `Uninstall`, synchronous dispatch, asynchronous `Deliver`, breaker, host calls | change feed, job queue, metadata hooks, authorization |
| automations (`kernel/automations`) | definitions, cursors, runs | `Save`, `Delete`, passes over the feed, webhooks, `SyncSchedules` | change feed, job queue, authorization, outbound calls |
| event store and ledger (`kernel/eventstore`, `modules/ledger`) | `events`, periods, accounts, the balance projection and its cursor | post, reverse, close, reopen, archive, `EnsureBalances` | written by invoicing, read by reporting |
| invoicing and reporting (`modules`) | invoices, receipts, number series | draft, update, post, settle; statements, aging, metrics | ledger, tax, contacts |
| metadata (`kernel/metadata`) | object tables, overlays, audit | CRUD with hooks, conditions and audit; overlay merge; schema evolution | everything above |
| capabilities (`kernel/capability`) | `module_state` | `Enable`, `Disable`, `ApplyProfile` | gateway |
| identity and OIDC (`kernel/identity`, `kernel/oidc`) | users, recovery codes, sessions, devices | login, second factor, refresh, revoke, wipe, external sign-in | gateway; an identity provider |
| authorization, secrets, outbound (`kernel/authz`, `secrets`, `outbound`) | roles, grants, members; sealed secrets and the key file; destinations | grant, assign, delete a role; put, drop, rotate; register | plugins, automations, gateway |
| money, tax, cron, expressions | none | pure computations | ledger, invoicing, jobs |

What is hard in it:

* **Order.** Feed and event ids come from a sequence that is not transactional, so
  id order is commit order only while an ordering lock works. Positions read in one
  transaction are used in another (high-water marks, snapshot cursors, plugin and
  automation cursors, the clock of a job pass).
* **Check, then act.** An operation is a series of transactions: a permission, a
  status, a device or a stack of overlays is looked at in one, and the write that
  relies on it is in the next. On Postgres (READ COMMITTED) even two statements of
  one transaction may see different states; SQLite runs a transaction that lost its
  snapshot again. The models say which of the two a step is.
* **Concurrency without a coordinator.** Every node runs every ticker. What keeps
  them apart is a compare-and-set, a lease or a primary key, and a copy read
  before is used after.
* **Failure between two transactions.** The process dies, the client disconnects,
  a COMMIT is not acknowledged, a hook fails for ever.
* **Optimism.** The replica shows writes that the server has not seen, rolls them
  back when they are refused, and meanwhile pulls other people's writes.

## 2. Modules

Each module names its code in comments; `PROJECT.json` maps every definition to
its lines. Modules that end in `Proofs` hold theorems, modules that begin with
`MC` the instances TLC checks.

| Group | Modules | Run |
|---|---|---|
| feed | `FeedLog`, `ChangeFeed` | `feed` |
| gateway writes | `Idempotency` | `idempotency` |
| client | `Replica` | `replica_*` |
| jobs | `Jobs` | `jobs_queue` |
| hooks after the write | `HookDelivery` | `hook_delivery` |
| books | `Ledger` < `Invoicing` < `Reporting` | `books` |
| accounts and devices | `Users` < `Sessions` | `sessions` |
| extensions | `Authz` < `Vault` < `PluginInstall` < `Automations` | `platform`, `platform_by_the_book` |
| records | `Authz` < `Overlays` < `Capabilities` < `Records` | `records` |

`A < B` means that B extends A and composes its steps with its own. In these four
groups a request is a task with a position; each action is one transaction (or one
part of one, where Postgres lets another transaction in between), so every
interleaving of two requests is explored. `Scenarios` is a set of budgets: each
says how often each kind of request, fault or administrative act may happen in one
behaviour, and a behaviour follows one of them. In `Ledger`, `Authz` and what is
built on them the database is part of the initial state, so both are explored.
`Tables`, which `Users` and `Authz` extend, adds and changes fields of a record.

### ChangeFeed, implementing FeedLog

`FeedLog` is the promise of INV-S5 in `docs/19-DATA-INTEGRITY.md`: per tenant one
ordered log; a reader has always received a prefix of its scope. `ChangeFeed` has
sessions with open transactions (`tx`), the sequence, the lock table and polling
readers. `Append` is two steps (`serializeAppend`, then the INSERT), because the
lock may be waited for; a poll is two transactions (`HighWater`, then `Read`), as
in `readChanges`; an answer may be lost. `AdvisoryKey` is a hash, so two tenants
may share a lock. `Dialect` selects the Postgres advisory lock or the SQLite write
lock. Ids that roll back leave gaps.

### Idempotency

A request is a handler whose position is the last transaction it committed:
`absent` (lookup found nothing), `lost` (INSERT hit the primary key), `reserved`,
`ok` or `failed` (exec is over). An answer may be lost on the way (`MaxCuts` of
them). Faults are a closed connection (`disconnect`: `net/http` then cancels the
context that all four transactions use), a `crash`, a database error (`dberror`), and
a COMMIT that succeeds while its handler is told that it failed: of one of the store's own
transactions (`acklost`; of the reservation, it leaves a pending row that is nobody's) or
of the mutation (`commitlost`). The fingerprint leaves out the body of credentialed
routes, as the code does. `runs` and `ran` record what the mutations did.

### Replica

One device of one tenant against its server. Server state is rows (`srv`), the
feed, grants, enabled modules, executed commands (`resp`, which the idempotency
store replays) and the wipe flag. Client state is local rows (`tab`), hydration
marks, cursor, outbox entries with their pre-images, and the tray. A cycle is the
sequence of steps of `sync`: fetch metadata, drain one command per step, reshape to
the scope, hydrate page by page, pull page by page. The user may enqueue, and
others may write, at every await. `Interrupt` ends a cycle anywhere. `wake` is what starts
one (a mount, a write, the network or the user coming back; there is no timer), `cycle`
what it then does by itself. The server may refuse a command it has executed already,
since the guard and the capability gate come before the stored answer. A wipe is two steps:
`wipeReplica` clears the outbox, the tray and the tables the cached metadata names,
`wipeStorage` gives the file back; a tab that closes in between leaves a replica that knows
of no table and is told again (`openWiped`). A row's value
is a version number: which fields a write changes does not matter to any property.
`SnapshotRace` says whether others may write between the two reads of the snapshot
handler.

### Jobs

Workers run passes (`RunOnce`): tick the due schedules by compare-and-set, enqueue
the firings, then claim and run up to `MaxPerPass` jobs. A row has its status,
instant, attempts and lease end; `dead` also numbers the incarnations of a dedupe
key, which stands for the row id that `Complete` and `Fail` use. The clock is
shared, and a pass uses the value it read at its start for everything, as the code
does. The handler of a job runs between `Claim` and `Complete` or `Fail`, so
anything may happen in between. `SyncSchedules` and `UpsertSchedule` are the two
transactions of the automation runner's sync. `owed` and `cut` are history: the firings that
have fallen due, and those a pass was cut short over.

### HookDelivery

Passes of `Runner.Deliver` over the feed as an ordered log, for one plugin with one
hook. A pass loads the plugin row (`fails`, `since` are its copies), reads or creates
the cursor, reads a page, and for each entry skips, stops at an open breaker, or
calls the hook, writes the breaker and moves the cursor by compare-and-set. The
result of that compare-and-set is ignored, as in the code. `opened` is the age of
`breaker_opened_at`: null, recent or past the cooldown. `Install` is two steps, the
feed position first.

### Ledger, Invoicing, Reporting

`Ledger` has the event log (`events`), the periods and accounts, and the balance
projection (`bal`, `cursor`). `ledger.post` is `validateEntry`, `validateRefs` in a
transaction of its own, and the append: one step on SQLite (`AppendEvent`), three on
Postgres (`PostEntryCheck`, `PostEntryInsert`, `PostEntryCommit`), where an id is taken
before the commit. A period is closed by reading its status and writing it later.
`EnsureBalances` folds what lies past the cursor; on Postgres what it read may be
stale when it writes.

`Invoicing` adds the documents: drafts that are edited, and posting in three
transactions, which read the draft, post its entry under a command id made from
the document, and accept it (over-application, next number, freeze). The journal
templates are operators over the document's content; the tax of a line is resolved from
`rates` at every attempt to post, and `SaveRate` may change them in between. `overtaken`
and `straddle` are history: they name the documents (edited, or taxed anew, after a request
to post them had read the draft) and the requests that the properties must except because
the code does not protect them.

`Reporting` states the reports as functions of the books: sections in presentation
sign, the two statements, balances by period for flows and stocks, the aging
buckets, the metrics and their comparison cards.

### Users, Sessions

`Users` is one account: password, second factor, recovery codes, lockout, external
identity. A code is the secret and the clock step it was made for; `verify` reads the
row, and the second factor is judged by that copy while counting and consuming are
single statements on the stored row. `Sessions` adds devices, session rows, the
cookies of each browser (`jar`), the gateway's authentication, refresh, logout, the
administrator's wipe and revocation, and the sign-in at an identity provider with
its flow states, key cache and refetch interval. What the provider does
(`RotateKey`, redeeming a code once) is marked external.

### Authz, Vault, PluginInstall, Automations

`Authz` is the three tables, the two questions (`Can` without a record, `Allow` with
one) and the changes; a condition is the set of records it holds of. It also has
what installs and saves do alike: ask for each permission whether the approver
holds it, create a role of the extension's name, grant, assign; one transaction
each. `Vault` is the secrets with wrapped data keys, the key file, the copy the
server loaded, and `lasterp secrets rotate`, which lists, reads and rewrites row by
row; `careful` says that the operator restarts the server before rotating.
`PluginInstall` is the order of checks and transactions of `Install` and `Uninstall`
with everything they write. `Automations` has `Save`, `Delete`, `SyncSchedules`, the
passes with their cursors, actions in order, and the jobs they queue; `Administer`
changes grants meanwhile, and `Fail` ends a task anywhere.

### Overlays, Capabilities, Records

`Overlays` has the stored layers and their merge (`narrow` and `Lay` over the core
object in the order of the stack), the check and the storing of a layer as separate
transactions, and the dispatcher's cached table of hooks with its breaker.
`Capabilities` has the enabled modules, the closure of their requirements and the
impact of switching one off. `Records` is the path of a write: module gate, shape,
grants, validation, hooks one after the other, validation again, and the
transaction with condition, row and audit entry. Core fields are columns; overlay
fields and translations share one column that is written whole.

## 3. Runs

All properties are stated and explained in their modules.

| Run | Checks | Instance |
|---|---|---|
| `feed` | `NothingStranded`, `ExactlyOnce`, `ImplementsLog`, `EventuallyDelivered` | Postgres, 2 tenants, 2 sessions, 1 scoped reader, page size 1, 3 ids |
| `idempotency` | `AtMostOnce`, `OkMeansDone`, `DoneIsForever`, `RetryIsAnswered` | 3 handlers, 1 key, 2 requests that differ in their body, 1 answer lost on the way, 1 fault of any kind but a lost acknowledgement of the mutation's COMMIT |
| `replica_converges` | `TypeOK`, `CaughtUpAgrees`, `PurgedStaysPurged` | 2 objects, 3 rows; three scenarios (edits; refusals; filling a new replica while a grant changes) |
| `replica_settles` | `NoSilentLoss`, `OutboxDrains`, `WipeHonoured` | two commands on one row with lost requests and answers, a retry and a refusal; a row created and changed while a grant or a module comes and goes; a wipe, cut in two by a closing tab |
| `replica_snapshot_race` | `CaughtUpAgrees`, violated (section 6) | one edit during a snapshot page |
| `jobs_queue` | `ExclusiveUnlessOverrun`, `RemovedAfterMaxAttempts`, `PluginFiringsKept` | 2 workers, 1 job, a plugin's and an automation's schedule, clock 0..2, lease 1, 2 attempts |
| `hook_delivery` | `NothingSkipped`, `EventuallyHandled` | 2 passes, pages of 2, breaker threshold 2; 3 entries, or 2 with a crash and a reset, or 2 with a reinstall |
| `books` | `TypeOK`, `ProjectionExact`, `NumbersGapless`, `NotOverApplied`, `DocumentsAgree`, `ReportsAgree`, `PeriodSealed` | both databases, 2 requests at a time, 2 invoices, 2 receipts, 6 accounts, 2 periods, 2 tax rates, 7 scenarios |
| `sessions` | `RecoveryWorks`, `LockoutCounts`, `DevicesStayOut`, `LinkedOnce` | 2 requests at a time, 2 devices, 2 subjects, 1 recovery code per set, lock after 2 failures, 8 scenarios |
| `platform` | `NoBorrowedAuthority`, `CarefulSecretsOpen`, `InstalledIsWhole`, `EveryChangeRuns`, `RevocationBites` | 2 tasks at a time, 2 people, 1 plugin with 3 manifests, 1 automation with 4 definitions, 2 secrets, 3 keys, 14 scenarios |
| `platform_by_the_book` | `SecretsOpen`, violated (section 6) | one secret, one key rotation as `docs/09` has it |
| `records` | `RowsWellFormed`, `AuditTellsTheRow`, `OwnRecordsOnly`, `RulesHold`, `EnabledModulesWhole` | both databases, 2 requests at a time, 1 record, 1 plugin with 3 overlays, 3 overlays of the tenant, 4 modules, 8 scenarios |

What they show, for the four newer groups:

* `books`: the log is append-only and no command has two entries; a closed period
  takes entries only from requests that were posting when it closed; on SQLite the
  projection is the fold of the log up to its cursor, numbers have no gap and no
  repetition, and no invoice is settled beyond its gross; a posted document is what
  its entry says, after crashes, retries and double posting, unless it was edited or
  taxed anew after a request to post it had read it; statements balance, the cards of
  the periods add up to them, and the open items are the receivables of the entries of the
  posted documents (what a reversal of such an entry does is in section 6).
* `sessions`: each recovery code lets one request in, and an account with a second
  factor has a set of them stored; wrong codes are all counted since the last right one;
  a revoked or wiped device gets no session except from a request already under way; a
  provider's sign-in gives at most one session and an account is linked once.
* `platform`: an extension's role never holds what its approver did not hold for
  every record when it was asked; every stored secret opens whatever a rotation was stopped at,
  for an operator who restarts the server before it (on SQLite); an installed plugin has its
  role and rows; an automation's cursor passes no change without a run; a deleted automation
  is shut out, unless it is still assigned a role that is gone.
* `records`: no stack of layers, and no hook, widens what a column may hold; the audit
  log tells every field of every row and what was there before, but for the time of an
  archiving and for fields an update was not told of; a writer restricted to its own records
  writes no other; a hook that must not be skipped is not; an enabled module has what it
  requires. The audit log, own records and modules are on SQLite.

Where the code breaks what a comment or a document says, the property a passing run
checks names the exception, and section 6 has the instance in which the statement without
the exception fails. Which part is promised on SQLite only is in each property.

Why these bounds. The feed needs two sessions of one tenant for an overtaking
commit and a third id for something to lie behind it; a page of 1 makes full and
short pages both occur. The run is on Postgres, where transactions overlap; SQLite
is covered by the proofs, which are for both. Three handlers are the smallest number
in which one loses the INSERT to a second while a third arrives after that one's
discard. Two bodies make a re-send and a reuse of the key both occur; that a credentialed
route does not compare bodies is left to the proofs, which are for any routes. In the replica, interference is between one command, one foreign write and
one cycle, and each scenario combines one kind of outside event with the others at
least twice. For leases, a clock of two ticks lets a lease of one expire and a later
claim expire again; the automation's schedule is synced but does not fire within
this bound. Three entries with a threshold of two leave one entry behind an opened
breaker, in a page that another pass has half delivered. In the four newer groups
the hazards are between two requests, so two run at a time and further ones follow
them; a scenario holds the kinds of requests that touch the same rows, with a crash,
a failure or an administrator's act where that matters. `BreakerThreshold` is 1 in
`Records.cfg`, so that a second write meets an open breaker, and hooks answer with one
of two records or the one they were given.

`CHECK_DEADLOCK FALSE` is set where the system comes to rest within its bounds: the
clock has stopped, the plugin is uninstalled, or the scenario is used up.

The type invariants of `ChangeFeed`, `Idempotency` (`GatewayTypeOK`), `HookDelivery`, `Jobs` and `Sessions`
are proved and not listed in a cfg; that of `Automations` (`TypeOK`) is there for whoever
changes the model, to be added to `INVARIANTS`.

### Fairness

* Feed (`Spec`): none. Nothing in the client polls by a timer: a sync starts when a screen
  mounts or reads again, on a write, on `online` and on `visibilitychange`. So
  `EventuallyDelivered` is about a reader that stays in touch, and says so: `StaysInTouch(r)`,
  answers reach it again and again. Nothing is assumed of transactions either: the property
  is about entries that have committed.
* Idempotency (`GatewayLiveSpec`): a started handler goes on, since nothing in it waits for
  another handler. What clients do is no part of the specification: `RetryIsAnswered` is about
  a command whose client keeps re-sending it (`drain` leaves a command queued when
  the wire fails), with strong fairness, as a free goroutine is there again and again.
* Replica (`LiveSpec`): weak fairness of `cycle`, for a cycle that has been started runs on by itself.
  Nothing starts one by itself. `OutboxDrains` and `WipeHonoured` are about an
  application that goes on being used (`Woken`: again and again something starts a cycle).
  Interruptions, losses and refusals are bounded by the scenario, so in the end a cycle gets
  through.
* Hooks (`FairSpec`): tickers fire and passes run on, and the cooldown goes by.
  Nothing is assumed about crashes except that they are bounded.

The other groups are checked for safety only: their operations are requests, and
nothing obliges a person to make one.

## 4. Proofs

`ChangeFeedProofs` holds for any tenants, scope keys, sessions, readers, page size
and number of ids, any hash onto lock keys and both dialects, from
`ChangeFeedAssumption`. `ExactlyOnce` is not inductive by itself: that nothing can
commit at or below a cursor has to be known. The invariant `IInv` adds that a session with
uncommitted entries holds its tenant's lock (`LockInv`), that ids in use have been
handed out (`SeqInv`), that cursors and high-water marks are committed ids
(`PositionInv`), and finiteness, which counting a page needs. `NothingStranded`
follows from the lock, `ExactlyOnce` from `NothingStranded` and the position of the
cursor. `TypeCorrect`, `NoneStranded`, `ReadExactlyOnce` and `NeverRewinds` are its
consequences. `Refinement` shows that each step is a `Publish`, a `Deliver` or no step
of `FeedLog`.

`WriteProofs` is about a write from the outbox (`Replica`) to the gateway (`Idempotency`).

The gateway part holds for any keys, requests, handlers, faults and bounds. `Core`
(a handler past its INSERT owns a pending row, and is alone in that) is inductive
whatever fails, and gives `TypeCorrect` (finalize writes into a row that must be
there) and `DoneForever`. With a `Counted` execution per owner and `Recorded`
answers it gives `ExecutedAtMostOnce`, `OkIsTrue` and `FreeIsUnused`, from the
assumption that the acknowledgement of no mutation's COMMIT is lost
(`"commitlost" \notin Faults`). That assumption is needed: with it dropped, TLC finds a
second execution. Lost acknowledgements of the store's own transactions are allowed for.

The replica part holds for any objects, rows, commands, page size, number of attempts,
outbox limit and scenarios, from `ReplicaAssumption`.

* `ReplicaTypeCorrect` needs that what the feed names exists (`FeedRows`) and what a page
  in hand is made of (`SnapType`); the first and last of a page are least and largest
  elements of finite sets, which are proved to exist from well-foundedness.
* `NothingLost` follows from an account of every command (`QueueInv`): issued once, queued
  at most once, and only what was issued waits, lies in the tray or was executed.
* `PurgeLasts` is for scenarios in which no module is switched and grants change at most
  twice (`FewGrants`). `PurgeInv`: an object that is not held has no rows, unless it was given
  back for good, and a cycle past `open` holds every object, so `reshape` misses none.
* `CaughtUp` is for `Orderly` scenarios and no write between the two reads of a snapshot
  request (`~SnapshotRace`). `CaughtUpAgrees` speaks of the end of a cycle; the invariant says at every
  moment and of every row (`Agreed`) that it is right once the snapshot has covered it, no
  command of it is left to execute and no entry of it is left to fetch. Around it stand
  what every cycle keeps (`Ground`: the scope only shrinks, a row is created once, a phase leaves
  what the next one needs, the page in hand is current) and what a rollback or a replayed
  answer needs in order to put the right row back. That differs between the two kinds of orderly
  scenarios. Where nothing is refused (`NeverRefused`: others may write the same rows), every
  command in the outbox has yet to be executed and will succeed, since the queue keeps a row's creation
  ahead of its changes (`Unrefused`). Where nobody else writes (`NeverContested`: either answers are
  lost or commands are refused and given up, not both), a rollback meets a command that was
  never executed, and pre-images and stored answers are still the server's rows (`Uncontested`).
  In both the scope shrinks at most once in each way.
  The scenarios of `replica_converges` satisfy `Orderly` and `FewGrants`; section 6 has what TLC
  finds without each condition.

`HookDeliveryProofs` holds for any passes, entries, page size, breaker threshold and
budgets of crashes, resets and installs. `NothingSkipped` says nothing of the entry a
pass is about to move the cursor over; `Settled` adds that such an entry has been
handled or was not for this plugin, and `HasCursor` that an installed plugin has a
cursor. `TypeCorrect`, `AtLeastOnce` and `NeverRewinds` follow.

`JobsProofs` holds for any workers, jobs, schedules, lease, number of attempts and
clock, from `JobsAssumption`. `ExclusiveUnlessOverrun` only forbids two workers on one
row; the invariant `Leased` says why: as long as nobody has gone on past a lease, a
worker finds its row running, in the incarnation it claimed, and leased until the
instant at which the worker's own lease ends, so no clock that another worker has read
makes it claimable. `ClaimExcludes`, `RemovedOnlyAsDeadLetters`, `PluginFiringsAreKept` and
`TypeCorrect` follow. A plugin's firing that has fallen due stands on its schedule, is in the hands
of the worker that moved the schedule on, has become a job, or was lost with a pass cut short
between those two transactions; that last case is one the code has, and the theorem names it. That a backoff is a number needs the recursive function
`backoff` to exist (`BackoffType`).

`SessionsProofs` holds for any number of requests at a time, devices, subjects,
recovery codes, limit, window and budgets. A request acts on what an earlier step of it
read. `RequestOK` says which steps its operation can be at, that what it was given is
still true, what it has read or written and what the administrators had decided when
it began; `FlowsOK` that no two requests have redeemed one code of the provider. It rests on
shared state that only grows: a session does not change its device, a decision is not
taken back, a token is not issued twice. `RecoveryCodesOnce`, `EveryFailureCounts`,
`DevicesStayOutAlways`, `LinkedOnceAlways` and `TypeCorrect` follow.

`BooksProofs` holds for any finite sets of accounts, periods, invoices and receipts, any
contents of the documents, any number of clients and both databases, with the
exceptions for Postgres that the properties make. `TaskOK` says what a request in
flight may rely on: the period it looked at is open or was closed behind its back, the
draft and the rates it read are as they were unless the document is marked as overtaken,
the invoices a receipt settles are posted, the entry to be accepted is in the log. `EventsOK` (every entry
balances, one per command, with the lines of its document) and `Projected` (the balances
are the fold of the log up to the cursor) give `ProjectionStaysExact`,
`NumbersStayGapless`, `NeverOverApplied`, `DocumentsAlwaysAgree` and `PeriodsStaySealed`. The
reports are sums over accounts, entries and periods, and `StatementsAlwaysBalance`,
`CardsAlwaysAddUp` and `ReportsAlwaysAgree` are theorems about exchanging and splitting
such sums. `ReportsAlwaysAgree` has one hypothesis, `ReceivablesApart`: no account is a
receivable of one invoice and a revenue, tax or bank account of another. Nothing in
the code checks that, and where it fails the ledger's receivables hold more than what
is owed. The instance of `books` satisfies it.

`RecordsProofs` holds for any object, stack of overlays, documents, hooks, modules and
number of clients. Its `WriteOK` says of a write at each of its steps what has been
found so far (its shape has core's columns and accepts no more in them than core, the
body passed it, a hook that must hold and has not been asked is still on its list), `DocumentOK` and
`SwitchOK` the same of changes to overlays and modules. `RowsStayWellFormed` needs that
laying a document over a shape only narrows core's columns, by induction along the
stack. `LogTellsTheRow`, `RulesAlwaysHold` and `ModulesStayWhole` follow. `LogTellsTheRow` is of
SQLite, and speaks of what was there before every entry but for the time of an archiving,
which the code makes up; on Postgres it leaves the columns. `ClerkWritesOwn` is of SQLite too, where no
transaction comes between the check of the condition and the write, and
for scenarios that allow no further grant (`scenario.left["grant"] = 0`), as a clerk who is
given more may write more.
`ModulesAssumption` says that a kernel module requires only kernel modules, which
`DisableImpact` takes for granted.

`PlatformProofs` holds for any tasks, plugins, automations, definitions, manifests, secrets
and keys. Roles are never renamed and ids not reused (`RolesOK`); the role of a plugin that is
being installed is known to that task alone (`OwnersOK`), so nobody adds to it or
takes from it before the row names it; a deletion that no save overlaps has found the
only role there was (`DeletersOK`); an entry that a pass is about to leave has its run
(`PassOK`); while a rotation runs, the key file, the server's copy and the rotation's
are the same and every secret under an older key is on its list (`VaultOK`).
`NothingIsBorrowed`, `PluginsStayWhole` and `NoChangeIsPassedOver` hold without
conditions. Two theorems name what they need. `SecretsStayOpen` is `CarefulSecretsOpen`: for an
operator who restarts the server before rotating, on SQLite. It is no statement about the
procedure of `docs/09` or about Postgres, where secrets are lost (section 6).
`DeletionBites` is for Postgres, which refuses a reference to a role that is gone: there
`RevocationBites` holds without its exception (`GoesAlways`).

Assumptions on constants are named in the modules that declare them and evaluated by
TLC. Besides types and finiteness they only say that marks such as `None` and `Absent`
are not among the values they stand apart from, that a POST has a fresh id, and that a stack of overlays lists
each source once with the tenant last.

Induction. The provers cannot instantiate an induction theorem over predicates, but
they can use one over sets: `Induction` (a set that holds 0, and with n also n + 1,
holds every number) is proved from the well-foundedness of `<`. From it come the
existence and the uniqueness of what a fold computes (`FoldExists`, `FoldOnly`), induction over
finite sets, and the lemmas on sums in `BooksProofs`. `RecordsProofs` and `JobsProofs` state the few of
them that they use again.

Each inductive invariant was also checked by TLC on the instance of its run before it
was proved.

Only model-checked: the liveness properties (`EventuallyDelivered`, `RetryIsAnswered`,
`OutboxDrains`, `WipeHonoured`, `EventuallyHandled`: fairness and ENABLED are outside this
prover).

## 5. Not modelled

`PROJECT.json` lists every component with its status and reason.

* Pure computations: money (rounding, allocation, conversion), tax, cron, expressions.
  The amounts of `Ledger` are small, so that the int64 sums of `validateEntry`, which
  wrap around, do not; the next firing of a schedule is a constant.
* Cryptography and formats: hashing, signatures and the validation of claims are
  accepted or refused by the environment; sealing is perfect.
* The WASM sandbox, bundles, registries and signatures of plugins; several hooks of
  one plugin on one entry.
* The rate limiter, the OpenAPI document, problem formatting, PDF, dashboards,
  exports, the web UI and the loops that wire tickers to components.
* The evolution of tables (server and client), parsing of object definitions,
  event-sourced objects, listing; snapshots and upcasters of the event store.
* Row-level security, which the database enforces; creating tenants; audit rows of
  identity; the feed notifier, which only shortens a wait; the browser's storage
  pool and its wipe.

## 6. Where code and comments disagree

With a run:

* `replica_snapshot_race`: `readSnapshot` reads rows before the high-water mark. A
  write in between is on neither side of the recorded cursor
  (`internal/app/sync.go:290`, `kernel/changefeed/feed.go:178`).
* `platform_by_the_book`: the documented rotation (`docs/09`, lines 72-78: add the key,
  point `current` at it, re-wrap, remove the old one) does not restart the server, which goes
  on sealing under the key it loaded (`kernel/secrets/keysource.go:72`).

With an instance beside the runs: each of these configurations states what a comment, a
document or a test says, and `tlc -config X.cfg M` ends with a short trace in which the code
does otherwise.

| Configuration of | Property | What happens |
|---|---|---|
| `IdempotencyWedged.cfg` of `MCIdempotency` | `PendingIsInFlight` (`idempotency.go:50`, `gateway.go:622`) | the reservation commits and its acknowledgement is lost: the pending row is nobody's, and every re-send is told that its original request is in flight |
| `ReplicaLateRefusal.cfg` of `MCReplica` | `CaughtUpAgrees` (`outbox.ts:613`: "the server state never changed") | a command is executed, its answer is lost, and the re-send is refused by the guard or the capability gate: the rollback undoes what the server has done |
| `JobsResync.cfg` of `MCJobs` | `MissedWindowFires` (`schedules.go:147`: "A missed window fires once") | `SyncSchedules` replaces a due schedule by its next firing; nothing fails. A pass cut short between the schedule and the job loses a firing too (`schedules.go:180`) |
| `BooksRetaxed.cfg` of `MCBooks` | `RetryIdempotent` (`post.go:138`) | a rate is put on file between the entry and the retry after a crash: the document is frozen with other totals than its entry has |
| `BooksReversed.cfg` of `MCBooks` | `AgingTiesToLedger` (`aging_integrity_test.go:202`) | the entry of a posted invoice is reversed: the ledger's receivable is gone, the aging still shows it |
| `SessionsLock.cfg` of `MCSessions` | `LockHolds` (`user.go:304`: such a request "*unlocks* the account") | a right code of a request that read the account before the lock clears it |
| `PlatformReplaced.cfg` of `MCPlatform` | `SecretsOpen` (`docs/09`, line 80) | on Postgres a `Put` between the two statements of a rewrap loses its data key (`rotate.go:98`) |
| `PlatformDeletedTwice.cfg` of `MCPlatform` | `GoesAlways` (`store.go:209`: "goes first and goes always") | on SQLite, opened without foreign keys, a save that a deletion overlaps grants and assigns to a role that is gone; `revokeAuthority` finds a role by its name (`store.go:431`), so no later deletion removes these rows, and a pass that had loaded the automation is given access |
| `RecordsArchived.cfg` of `MCRecords` | `OldValuesTold` (`crud.go:459`, ADR-003) | a record is archived twice: the second audit entry says it was not archived before |
| `RecordsGrown.cfg` of `MCRecords` | `UntouchedSurvive` (`crud.go:460`) | an update whose shape was read before an overlay was added drops that overlay's value |

Without an instance of their own; most can be seen in a model by the change named.

Gateway and replica:

* `finalize` and `discard` run under `r.Context()`. A client that drops while its
  command executes leaves the key pending for good, and every re-send is answered
  409 although the command committed (`kernel/api/gateway.go:646`). It is the exception
  `RetryIsAnswered` makes.
* A lost acknowledgement of the mutation's COMMIT makes `discard` free a key whose write is
  in. Add `"commitlost"` to `Faults` of `Idempotency.cfg`.
* A command queued while a cycle runs keeps a pre-image older than the page that
  cycle applies; its rejection restores the old row for good. A scenario
  `InStep([Calm({c1}) EXCEPT !.edit = 1, !.reject = 1])` of `MCReplica` violates
  `CaughtUpAgrees`.
  The same scenario with `!.busy = 2` for the refusal runs out of attempts, with
  `!.lost = 1` replays the answer of that time over a newer row (`outbox.ts:256`).
* Two commands of one row, both refused, leave the first one's value: the second
  pre-image is the first optimistic row (`Calm({c1, c5})` with `!.reject = 2`).
* A command whose answer was lost can reach `MAX_ATTEMPTS` and is then rolled back and
  filed although it was executed (`outbox.ts:288`; `Calm({c1})` with `!.lost = 1, !.busy = 2`).
* A POST accepted before the first snapshot page moves no cursor; if somebody archives the row
  before the page is read, neither the page nor the feed says so, and the replica keeps it
  (`Fresh([Calm({c3}) EXCEPT !.edit = 1])`).
* A grant or a module that is withdrawn and given back during a cycle hides entries from a
  page whose cursor passes them (`!.edit = 1` with `!.grant = 2` or `!.module = 2`).
* The worker's index is that of its start, so the user can queue a POST of an object that has been
  purged since. `drainUnknown` files it and leaves its row, and later purges pass it by, as the object
  is not held: `!.module = 1` violates `PurgedStaysPurged` (`outbox.ts:236`). So does `!.grant = 3`: a page
  pulled while the grant was back brings rows of an object that is not held.
* A wipe clears the tables of the objects whose metadata is cached (`wipe.ts:45`); the others
  go with the file, and until then they are there.

Jobs and hooks:

* The lease of a job counts from the start of the pass, so late jobs of a long pass
  have leases that are nearly over (`kernel/jobs/store.go:171`); a job that takes its
  process down is retried past `MaxAttempts` (`store.go:194`).
* A pass that loses the cursor's compare-and-set goes on through its page
  (`kernel/plugins/runner.go:198`), where `runner.go:40` says the window is one entry. A
  pass that loaded a plugin just before its removal inserts a delivery row that makes
  every later install of it fail (`runner.go:183`). `bumpBreaker` writes from a stale
  copy and can close a breaker without an audit row (`breaker.go:54`).

Books:

* On Postgres two acceptances can read one counter and give one number twice, with a
  gap after it (`modules/invoicing/numbers.go:26`; its comment promises neither
  happens); two receipts posted at once can over-apply; two readers can fold the same
  events twice; an event with a smaller id can commit after the projection's cursor
  has passed it. All are behaviours of the model, which
  `dialect = "sqlite"` in the properties excepts.
* `ledger_post_entry` claims to close the window between the check of the period and
  the append (`0029_ledger_pipeline_functions.postgres.sql:40-44`); it reads the status
  without a lock, so a close that commits in between is not seen. A second post that
  races on one command id is answered with a raw unique violation.
* A receipt refused for over-application has its entry in the ledger already, and a
  draft edited between the entry and the freeze disagrees with it, as one taxed anew does.
  Nothing refuses a second reversal of an entry. The receivables' metrics ignore the date they are asked
  for (`modules/reporting/period.go:16`). Posts through the stored procedure write no
  change-feed entry.

Accounts and devices:

* The step of a TOTP code is judged by a row read earlier and written
  unconditionally, so one code can let two requests in. `StartTOTPEnrollment` checks
  and writes in two transactions; a confirmation racing a confirmation and a disable can
  enable a second factor without a secret. After the transaction that enables it, the audit
  entry may fail or the answer be lost, and then nobody has seen the recovery codes and a
  retry is answered `ErrTOTPAlreadyEnabled`, where `internal/app/totp.go:200` says that there is
  no such state (a scenario `[enroll |-> 1, confirm |-> 1, fail |-> 1]` reaches it). A logout clears the device cookie. A
  revoked device keeps its token until that expires.

Extensions:

* An install that fails after `CreateRole` leaves the role, and every retry fails on it.
  A save refused for its destination has replaced the role already
  (`kernel/automations/store.go:388`). A sync or a kv write after an uninstall leaves
  rows. A webhook queued by a deleted automation is sent if one of its id is created
  again.
* `Delete` removes the cursor because "one left behind would make a re-created
  automation under the same id resume from a position it never chose"
  (`store.go:219`). A pass that listed the automation before it was deleted inserts a
  cursor (`store.go:253`), and the next `Save` keeps it (`store.go:112`): the new
  automation resumes from there. `since` of `Automations` is where the cursor stood when
  the automation was created, so that `EveryChangeRuns` speaks of the changes after it.

Records:

* A plugin adds an enum, the tenant narrows it, the plugin is uninstalled: the stack no
  longer merges and every request for the object is answered 500
  (`kernel/metadata/tenant_overlay.go:259`). In the model it is
  `Merge(layers) = None`, reached in `records`.
* On Postgres two updates of custom fields lose one, there is a window between the
  check of a condition and the write (`kernel/metadata/crud.go:494`), and `Enable` racing
  `Disable` leaves a module without what it requires.
* The dispatcher's cache can store a list loaded before an install after `Forget`
  (`kernel/plugins/dispatch.go:208`), so a write may pass without the new hook.

## 7. Plan

1. Operators against reference definitions: money rounding and allocation, tax,
   cron. They need a module of their own, outside those that are proved about.
2. The rate limiter and the evolution of tables; the pool wipe of the browser.

Runs are kept to one per question.
