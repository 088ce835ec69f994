-------------------------------- MODULE Replica --------------------------------
(****************************************************************************)
(* web/src/sync: the offline replica. A browser worker keeps a copy of the  *)
(* rows its user may read, queues the user's writes in an outbox, and runs  *)
(* sync cycles: open, drain, reshape, hydrate, pull.                        *)
(*                                                                          *)
(* The server side is what internal/app/sync.go and the gateway show to the *)
(* client: rows, a feed in commit order (module ChangeFeed), one execution  *)
(* per command with the stored answer replayed (module Idempotency), and a  *)
(* scope. Other users edit rows and administrators change the scope at any  *)
(* moment; the user enqueues at any moment, since the worker takes messages *)
(* at every await of a cycle.                                               *)
(*                                                                          *)
(* A step is one request and the local transaction its answer leads to: the *)
(* answer depends on the server alone and the transaction on the answer     *)
(* alone, so what happens in between commutes with one of the two. Only the *)
(* snapshot handler, which reads twice, is split.                           *)
(****************************************************************************)
EXTENDS Naturals, Sequences, FiniteSetsExt, FiniteSets

CONSTANTS
  Objects,      \* object kinds, by name order: a set of naturals
  Rows,         \* row ids, in id order: a set of positive naturals
  ObjectOf,     \* ObjectOf[r]: the object row r belongs to
  NewRows,      \* rows that only a POST creates
  Commands,     \* command ids
  MethodOf,     \* MethodOf[c]: "POST", "PATCH" or "DELETE"
  RowOf,        \* RowOf[c]: the row command c writes
  PageSize,     \* PAGE_SIZE
  MaxAttempts,  \* MAX_ATTEMPTS
  OutboxLimit,  \* UNPERSISTED_OUTBOX_LIMIT
  Scenarios,    \* bounds: which commands the user issues, how often each kind of
                \* outside event happens, and whether the replica starts hydrated
  SnapshotRace, \* whether others may write while a snapshot page is being read
  None, Gone, Null

\* What the outside may still do: commands to issue, and events of each kind.
Budget == [write : SUBSET Commands, edit : Nat, reject : Nat, busy : Nat, lost : Nat,
           offline : Nat, grant : Nat, module : Nat, wipe : Nat]

\* A value is what the last write left: 0 at the start, the number of somebody
\* else's edit, or the command that wrote it.
Value == (UNION {0..s.budget.edit : s \in Scenarios}) \cup Commands

\* A line of _hydration: the last row of the last page, and whether it was the last page.
Progress == [after : Rows \cup {0}, done : BOOLEAN]

\* A client id is fresh: no command creates a row that was there before. None, Gone and
\* Null are no data.
ASSUME ReplicaAssumption ==
  /\ Objects \subseteq Nat /\ Rows \subseteq Nat \ {0} /\ IsFiniteSet(Rows)
  /\ ObjectOf \in [Rows -> Objects]
  /\ NewRows \subseteq Rows
  /\ MethodOf \in [Commands -> {"POST", "PATCH", "DELETE"}]
  /\ RowOf \in [Commands -> Rows]
  /\ \A c \in Commands : MethodOf[c] = "POST" => RowOf[c] \in NewRows
  /\ PageSize \in Nat \ {0} /\ MaxAttempts \in Nat \ {0} /\ OutboxLimit \in Nat
  /\ \A s \in Scenarios : s.budget \in Budget /\ s.hydrated \in BOOLEAN
  /\ SnapshotRace \in BOOLEAN
  /\ Value \cap {None, Gone, Null} = {} /\ None # Gone /\ None # Null /\ Gone # Null
  /\ (\A p \in Progress : p # None) /\ (\A S \in SUBSET Objects : S # None)

VARIABLES
  \* server
  srv,      \* srv[r]: the row's value, Gone when archived, None when never created
  feed,     \* the change feed: rows written, in commit order
  resp,     \* resp[c]: the body stored under command c's idempotency key, or None
  granted,  \* objects the user may read
  enabled,  \* objects whose module is enabled, which /meta/objects lists
  wiped,    \* the device has been marked wiped
  \* client, durable
  tab,      \* tab[r]: the replica's row, or Gone
  outbox,   \* _outbox, oldest first
  tray,     \* _conflicts
  hyd,      \* _hydration: hyd[o] is [after, done], or None
  cursor,   \* _sync_state
  meta,     \* _meta: objects the replica was generated from, or None
  \* client, volatile
  pc,       \* where the sync cycle is
  snap,     \* the page a snapshot request has read
  index,    \* the worker's own schema index, from when it started, or None
  known,    \* objects whose tables this cycle would clear on a wipe
  \* history
  issued,   \* commands enqueued so far
  dropped,  \* commands the user discarded or a wipe erased
  left      \* what the outside may still do

server == <<srv, feed, resp, granted, enabled, wiped>>
client == <<tab, outbox, tray, hyd, cursor, meta>>
vars == <<server, client, pc, snap, index, known, issued, dropped, left>>

\* A line of _outbox: the command, the row's pre-image, the attempts so far.
Entry == [cmd : Commands, before : Value \cup {Gone}, tries : 0..MaxAttempts]

TypeOK ==
  /\ srv \in [Rows -> Value \cup {Gone, None}]
  /\ feed \in Seq(Rows)
  /\ resp \in [Commands -> Value \cup {Gone, Null, None}]
  /\ granted \subseteq Objects /\ enabled \subseteq Objects /\ wiped \in BOOLEAN
  /\ tab \in [Rows -> Value \cup {Gone}]
  /\ outbox \in Seq(Entry)
  /\ tray \subseteq Commands
  /\ hyd \in [Objects -> Progress \cup {None}]
  /\ cursor \in 0..Len(feed)
  /\ meta \in (SUBSET Objects) \cup {None}
  /\ pc \in {"idle", "drain", "scope", "hydrate", "snapshot", "pull", "wiping"} /\ (pc = "wiping" => wiped)
  /\ index \in (SUBSET Objects) \cup {None}
  /\ known \subseteq Objects
  /\ issued \subseteq Commands /\ dropped \subseteq Commands
  /\ left \in Budget

Init ==
  /\ srv = [r \in Rows |-> IF r \in NewRows THEN None ELSE 0]
  /\ feed = <<>>
  /\ resp = [c \in Commands |-> None]
  /\ granted = Objects /\ enabled = Objects /\ wiped = FALSE
  /\ outbox = <<>> /\ tray = {} /\ cursor = 0
  /\ \E s \in Scenarios :
       /\ left = s.budget
       /\ IF s.hydrated
            THEN /\ tab = [r \in Rows |-> IF r \in NewRows THEN Gone ELSE 0]
                 /\ hyd = [o \in Objects |-> [after |-> 0, done |-> TRUE]]
                 /\ meta = Objects
            ELSE /\ tab = [r \in Rows |-> Gone]
                 /\ hyd = [o \in Objects |-> None]
                 /\ meta = None
  /\ pc = "idle" /\ snap = Null /\ index = meta /\ known = {}
  /\ issued = {} /\ dropped = {}

Spend(k) == left[k] > 0 /\ left' = [left EXCEPT ![k] = @ - 1]

RowsOf(o) == {r \in Rows : ObjectOf[r] = o}

\* A page: the first PAGE_SIZE of a set of numbers.
FirstOf(S) == {x \in S : Cardinality({y \in S : y <= x}) <= PageSize}
--------------------------------------------------------------------------------
(* The server. *)

computeScope == granted \cap enabled

\* CRUD.Update or CRUD.SoftDelete by somebody else; recordAudit appends to the feed.
Edit(r) ==
  /\ srv[r] \notin {None, Gone}
  /\ SnapshotRace \/ pc # "snapshot"
  /\ Spend("edit")
  /\ \E v \in {left.edit, Gone} : srv' = [srv EXCEPT ![r] = v]
  /\ feed' = Append(feed, r)
  /\ UNCHANGED <<resp, granted, enabled, wiped, client, pc, snap, index, known, issued, dropped>>

Toggle(S, o) == IF o \in S THEN S \ {o} ELSE S \cup {o}

\* A role of the user loses or regains its read grant on o.
SetGrant(o) ==
  /\ Spend("grant")
  /\ granted' = Toggle(granted, o)
  /\ UNCHANGED <<srv, feed, resp, enabled, wiped, client, pc, snap, index, known, issued, dropped>>

\* The module of o is switched off or on for the tenant.
SetModule(o) ==
  /\ Spend("module")
  /\ enabled' = Toggle(enabled, o)
  /\ UNCHANGED <<srv, feed, resp, granted, wiped, client, pc, snap, index, known, issued, dropped>>

MarkWiped ==
  /\ ~wiped
  /\ Spend("wipe")
  /\ wiped' = TRUE
  /\ UNCHANGED <<srv, feed, resp, granted, enabled, client, pc, snap, index, known, issued, dropped>>

\* What the mutation needs: a POST a fresh id (ErrIDTaken), the others a row
\* (ErrRecordNotFound). An archived row is still a row.
Executable(c) == (MethodOf[c] = "POST") = (srv[RowOf[c]] = None)

\* Mutant: a delete removes the row instead of archiving it.
AfterHardDelete(c) == IF MethodOf[c] = "DELETE" THEN None
                      ELSE IF MethodOf[c] = "PATCH" /\ srv[RowOf[c]] = Gone THEN Gone ELSE c

After(c) == CASE MethodOf[c] = "DELETE" -> Gone
              [] MethodOf[c] = "PATCH" /\ srv[RowOf[c]] = Gone -> Gone
              [] OTHER -> c

\* The gateway: execute once and store the body (none for a 204), else replay.
Execute(c) ==
  \/ /\ resp[c] # None
     /\ UNCHANGED <<srv, feed, resp>>
  \/ /\ resp[c] = None
     /\ Executable(c)
     /\ srv' = [srv EXCEPT ![RowOf[c]] = After(c)]
     /\ feed' = Append(feed, RowOf[c])
     /\ resp' = [resp EXCEPT ![c] = IF MethodOf[c] = "DELETE" THEN Null ELSE After(c)]
--------------------------------------------------------------------------------
(* The user. *)

\* One transaction: the optimistic row, the command with the row's pre-image. A
\* PATCH or DELETE is of a row the user sees; a POST has a fresh id.
enqueue(c) ==
  /\ index # None /\ ObjectOf[RowOf[c]] \in index
  /\ c \in left.write /\ left' = [left EXCEPT !.write = @ \ {c}]
  /\ Len(outbox) < OutboxLimit
  /\ (MethodOf[c] = "POST") = (tab[RowOf[c]] = Gone)
  /\ tab' = [tab EXCEPT ![RowOf[c]] = IF MethodOf[c] = "DELETE" THEN Gone ELSE c]
  /\ outbox' = Append(outbox, [cmd |-> c, before |-> tab[RowOf[c]], tries |-> 0])
  /\ issued' = issued \cup {c}
  /\ UNCHANGED <<server, tray, hyd, cursor, meta, pc, snap, index, known, dropped>>

discardConflict(c) ==
  /\ c \in tray
  /\ tray' = tray \ {c}
  /\ dropped' = dropped \cup {c}
  /\ UNCHANGED <<server, tab, outbox, hyd, cursor, meta, pc, snap, index, known, issued, left>>
--------------------------------------------------------------------------------
(* The sync cycle. *)

\* open: fresh metadata, or the cached copy when the server cannot be reached or
\* refuses. initReplica adds a _hydration row for every object that has none. A
\* wipe later in the cycle goes by the copy cached before sync opened, which a
\* worker that has just started has cached itself.
open ==
  /\ pc = "idle"
  /\ \/ ~wiped /\ meta' = enabled /\ UNCHANGED left
     \/ wiped /\ meta # None /\ UNCHANGED <<meta, left>>
     \/ meta # None /\ Spend("offline") /\ UNCHANGED meta
  /\ hyd' = [o \in Objects |-> IF o \in meta' /\ hyd[o] = None THEN [after |-> 0, done |-> FALSE]
                                                               ELSE hyd[o]]
  /\ index' = IF index = None THEN meta' ELSE index
  /\ known' = IF index # None /\ meta # None THEN meta ELSE meta'
  /\ pc' = "drain"
  /\ UNCHANGED <<server, tab, outbox, tray, cursor, snap, issued, dropped>>

InOutbox == {outbox[i].cmd : i \in DOMAIN outbox}
Next1 == outbox[1].cmd           \* nextCommand: the oldest
Draining == pc = "drain" /\ outbox # <<>>

\* rollback: the pre-image back, or no row when there was none.
rollback(e) == [tab EXCEPT ![RowOf[e.cmd]] = e.before]

\* rollback, file and clear in one transaction; the drain stops.
file(e) == tray \cup {e.cmd}

drainEmpty ==
  /\ pc = "drain" /\ outbox = <<>>
  /\ pc' = "scope"
  /\ UNCHANGED <<server, client, snap, index, known, issued, dropped, left>>

\* Mutant: a command with no route is left at the head of the queue.
drainUnknownStuck ==
  /\ Draining
  /\ ObjectOf[RowOf[Next1]] \notin meta
  /\ pc' = "scope"
  /\ UNCHANGED <<server, client, snap, index, known, issued, dropped, left>>

\* The command's object has left the metadata: filed, its row left alone.
drainUnknown ==
  /\ Draining
  /\ ObjectOf[RowOf[Next1]] \notin meta
  /\ tray' = file(outbox[1])
  /\ outbox' = Tail(outbox)
  /\ pc' = "scope"
  /\ UNCHANGED <<server, tab, hyd, cursor, meta, snap, index, known, issued, dropped, left>>

Sendable == Draining /\ ObjectOf[RowOf[Next1]] \in meta

\* Mutant: the command is cleared before it is sent.
drainLostCleared ==
  /\ Sendable /\ ~wiped
  /\ Spend("lost")
  /\ \/ Execute(Next1)
     \/ UNCHANGED <<srv, feed, resp>>
  /\ outbox' = Tail(outbox)
  /\ pc' = "scope"
  /\ UNCHANGED <<granted, enabled, wiped, tab, tray, hyd, cursor, meta, snap, index, known, issued, dropped>>

\* transport.command throws: the request or its answer is lost, and nobody knows
\* which. The command stays queued and the cycle goes on.
drainLost ==
  /\ Sendable /\ ~wiped
  /\ Spend("lost")
  /\ \/ Execute(Next1)
     \/ UNCHANGED <<srv, feed, resp>>
  /\ pc' = "scope"
  /\ UNCHANGED <<granted, enabled, wiped, client, snap, index, known, issued, dropped>>

\* A wiped device is refused; the drain takes that for a lost request as well.
drainWiped ==
  /\ Sendable /\ wiped
  /\ pc' = "scope"
  /\ UNCHANGED <<server, client, snap, index, known, issued, dropped, left>>

\* 2xx: applyRecord with the body, if there is one, and clear.
drainAccepted ==
  /\ Sendable /\ ~wiped
  /\ Execute(Next1)
  /\ tab' = IF resp'[Next1] = Null THEN tab ELSE [tab EXCEPT ![RowOf[Next1]] = resp'[Next1]]
  /\ outbox' = Tail(outbox)
  /\ UNCHANGED <<granted, enabled, wiped, tray, hyd, cursor, meta, pc, snap, index, known, issued, dropped, left>>

\* Refused: by the mutation, a validation rule or a permission; or by the guard or
\* the capability gate, which come before the stored answer of a command that has
\* been executed.
drainRejected ==
  /\ Sendable /\ ~wiped
  /\ \/ resp[Next1] = None /\ ~Executable(Next1) /\ UNCHANGED left
     \/ Spend("reject")
  /\ tab' = rollback(outbox[1])
  /\ tray' = file(outbox[1])
  /\ outbox' = Tail(outbox)
  /\ pc' = "scope"
  /\ UNCHANGED <<server, hyd, cursor, meta, snap, index, known, issued, dropped>>

\* retryable: a 5xx, a rate limit, a busy key. MAX_ATTEMPTS of them are a refusal.
drainRetryable ==
  /\ Sendable /\ ~wiped
  /\ Spend("busy")
  /\ IF outbox[1].tries + 1 < MaxAttempts
       THEN /\ outbox' = [outbox EXCEPT ![1].tries = @ + 1]
            /\ UNCHANGED <<tab, tray>>
       ELSE /\ tab' = rollback(outbox[1])
            /\ tray' = file(outbox[1])
            /\ outbox' = Tail(outbox)
  /\ pc' = "scope"
  /\ UNCHANGED <<server, hyd, cursor, meta, snap, index, known, issued, dropped>>

\* Mutant: a revoked object's rows stay.
reshapeKeeping ==
  /\ pc = "scope" /\ ~wiped
  /\ hyd' = [o \in Objects |-> IF o \notin computeScope THEN None
                               ELSE IF hyd[o] = None THEN [after |-> 0, done |-> FALSE]
                               ELSE hyd[o]]
  /\ pc' = "hydrate"
  /\ UNCHANGED <<server, tab, outbox, tray, cursor, meta, snap, index, known, issued, dropped, left>>

\* transport.scope and reshape: purge what is held and out of scope, adopt what is
\* in scope and not held. The outbox and the tray are never touched.
reshape ==
  /\ pc = "scope" /\ ~wiped
  /\ tab' = [r \in Rows |-> IF hyd[ObjectOf[r]] # None /\ ObjectOf[r] \notin computeScope
                              THEN Gone ELSE tab[r]]
  /\ hyd' = [o \in Objects |-> IF o \notin computeScope THEN None
                               ELSE IF hyd[o] = None THEN [after |-> 0, done |-> FALSE]
                               ELSE hyd[o]]
  /\ pc' = "hydrate"
  /\ UNCHANGED <<server, outbox, tray, cursor, meta, snap, index, known, issued, dropped, left>>

Unhydrated == {o \in Objects : hyd[o] # None /\ ~hyd[o].done}
NextObject == Min(Unhydrated)

hydrateDone ==
  /\ pc = "hydrate" /\ Unhydrated = {}
  /\ pc' = "pull"
  /\ UNCHANGED <<server, client, snap, index, known, issued, dropped, left>>

\* An object with no schema in the index is marked done and skipped.
hydrateUnknown ==
  /\ pc = "hydrate" /\ Unhydrated # {} /\ NextObject \notin meta
  /\ hyd' = [hyd EXCEPT ![NextObject].done = TRUE]
  /\ UNCHANGED <<server, tab, outbox, tray, cursor, meta, pc, snap, index, known, issued, dropped, left>>

\* readSnapshot, first read: ListPage, the live rows after the given id. Without
\* the grant or the module it answers an error and the cycle ends.
ListPage ==
  /\ pc = "hydrate" /\ ~wiped
  /\ Unhydrated # {} /\ NextObject \in meta
  /\ IF NextObject \in computeScope
       THEN LET live == {r \in RowsOf(NextObject) : r > hyd[NextObject].after /\ srv[r] \notin {None, Gone}}
                page == FirstOf(live)
            IN /\ snap' = [obj |-> NextObject,
                           data |-> [r \in page |-> srv[r]],
                           next |-> IF Cardinality(page) = PageSize THEN Max(page) ELSE 0]
               /\ pc' = "snapshot"
       ELSE pc' = "idle" /\ UNCHANGED snap
  /\ UNCHANGED <<server, client, index, known, issued, dropped, left>>

hydrationStarted == \E o \in Objects : hyd[o] # None /\ (hyd[o].after # 0 \/ hyd[o].done)

\* Mutant: every page moves the cursor, not just the first one.
ResumeLatest == Len(feed)

\* The cursor is recorded once, from the first page of the first object.
Resume == IF hydrationStarted THEN cursor ELSE Len(feed)

\* readSnapshot, second read: HighWater; then hydrate's transaction for the page.
hydrate ==
  /\ pc = "snapshot"
  /\ cursor' = Resume
  /\ tab' = [r \in Rows |-> IF r \in DOMAIN snap.data THEN snap.data[r] ELSE tab[r]]
  /\ hyd' = [hyd EXCEPT ![snap.obj] = [after |-> snap.next, done |-> snap.next = 0]]
  /\ snap' = Null
  /\ pc' = "hydrate"
  /\ UNCHANGED <<server, outbox, tray, meta, index, known, issued, dropped, left>>

\* readChanges: the visible entries above the cursor, at most a page of them.
Visible == {i \in (cursor + 1)..Len(feed) : ObjectOf[feed[i]] \in computeScope}
Page == FirstOf(Visible)
FullPage == Cardinality(Page) = PageSize

\* materialize: current state of the rows on the page, archived ones included.
materialize == [r \in {feed[i] : i \in Page} |-> srv[r]]

\* pull: one page and applyPage. A page with rows for an object this replica has
\* no table for is refused and ends the cycle; a short page ends it too.
pull ==
  /\ pc = "pull" /\ ~wiped
  /\ IF \E i \in Page : ObjectOf[feed[i]] \notin meta
       THEN pc' = "idle" /\ UNCHANGED <<tab, cursor>>
       ELSE /\ tab' = [r \in Rows |-> IF r \in DOMAIN materialize THEN materialize[r] ELSE tab[r]]
            /\ cursor' = IF FullPage THEN Max(Page) ELSE Len(feed)
            /\ pc' = IF FullPage THEN "pull" ELSE "idle"
  /\ UNCHANGED <<server, outbox, tray, hyd, meta, snap, index, known, issued, dropped, left>>

\* A request fails or the tab is closed: what is committed stays.
Interrupt ==
  /\ pc # "idle"
  /\ Spend("offline")
  /\ pc' = "idle" /\ snap' = Null
  /\ index' \in {index, None}
  /\ UNCHANGED <<server, client, known, issued, dropped>>

\* Any read of a wiped device throws DeviceWipedError, which sync answers with
\* wipeReplica: the bookkeeping and the tables it knows of. The worker forgets its
\* store.
wipeReplica ==
  /\ wiped
  /\ pc \in {"scope", "hydrate", "pull"}
  /\ tab' = [r \in Rows |-> IF ObjectOf[r] \in known THEN Gone ELSE tab[r]]
  /\ outbox' = <<>> /\ tray' = {}
  /\ hyd' = [o \in Objects |-> None] /\ cursor' = 0 /\ meta' = None /\ index' = None
  /\ pc' = "wiping"
  /\ dropped' = dropped \cup InOutbox \cup tray
  /\ UNCHANGED <<server, snap, known, issued, left>>

\* A wiped device with no cached metadata is told when the worker opens the replica.
openWiped ==
  /\ pc = "idle"
  /\ wiped /\ meta = None
  /\ pc' = "wiping"
  /\ UNCHANGED <<server, client, snap, index, known, issued, dropped, left>>

\* Mutant: the worker closes its store and leaves the file.
wipeStorageClosing ==
  /\ pc = "wiping"
  /\ pc' = "idle"
  /\ UNCHANGED <<server, client, snap, index, known, issued, dropped, left>>

\* wipeStorage: the file itself is given back.
wipeStorage ==
  /\ pc = "wiping"
  /\ tab' = [r \in Rows |-> Gone]
  /\ pc' = "idle"
  /\ UNCHANGED <<server, outbox, tray, hyd, cursor, meta, snap, index, known, issued, dropped, left>>

\* A cycle that has been started runs on by itself.
cycle ==
  \/ drainEmpty \/ drainUnknown \/ drainLost \/ drainWiped \/ drainAccepted \/ drainRejected
  \/ drainRetryable
  \/ reshape \/ hydrateDone \/ hydrateUnknown \/ ListPage \/ hydrate \/ pull
  \/ wipeReplica \/ wipeStorage

\* What starts one: a screen that mounts or reads again, a write, the network coming
\* back, the user returning to the tab.
wake == open \/ openWiped

sync == wake \/ cycle

User == \E c \in Commands : enqueue(c) \/ discardConflict(c)

Next ==
  \/ \E r \in Rows : Edit(r)
  \/ \E o \in Objects : SetGrant(o) \/ SetModule(o)
  \/ MarkWiped
  \/ User
  \/ sync
  \/ Interrupt

Spec == Init /\ [][Next]_vars

\* A cycle runs on; nothing in the worker starts one by itself.
LiveSpec == Spec /\ WF_vars(cycle)
--------------------------------------------------------------------------------
Held(r) == hyd[ObjectOf[r]] # None /\ hyd[ObjectOf[r]].done /\ ObjectOf[r] \in computeScope

\* INV-S1, INV-S4: a write the replica accepted is never lost silently. It waits in
\* the outbox, lies in the tray, has been executed by the server, or was dropped
\* by the user or a wipe; and it waits or lies in one place only.
NoSilentLoss ==
  /\ \A c \in issued : c \in InOutbox \/ c \in tray \/ resp[c] # None \/ c \in dropped
  /\ InOutbox \cap tray = {}

\* INV-S3: a replica that has nothing to send and nothing to fetch shows the
\* server's rows. Nothing but a later change of the same row could repair it.
CaughtUpAgrees ==
  pc = "idle" /\ outbox = <<>> /\ cursor = Len(feed) /\ ~wiped =>
    \A r \in Rows : Held(r) => tab[r] = IF srv[r] = None THEN Gone ELSE srv[r]

\* A purged object stays purged: once reshape has let it go, no late rollback or
\* answer brings a row of it back, except work the user has queued since.
PurgedStaysPurged ==
  pc \in {"hydrate", "snapshot", "pull"} =>
    \A r \in Rows :
      hyd[ObjectOf[r]] = None /\ ObjectOf[r] \notin computeScope /\ (\A c \in InOutbox : RowOf[c] # r) => tab[r] = Gone

\* The application is used: cycles are started again and again.
Woken == []<><<wake>>_vars

\* As long as the application is used, every accepted write is answered for in the
\* end: it leaves the outbox. A write queued behind the drain of a running cycle has
\* to wait for the next one.
OutboxDrains == Woken => \A c \in Commands : c \in InOutbox ~> c \notin InOutbox

\* INV-D1, client half: a wiped device that is still used and gets through to the
\* server ends up with nothing, queued work included, and stays that way, even when
\* the tab is closed in the middle of it.
WipeHonoured ==
  Woken => [](wiped => <>[](tab = [r \in Rows |-> Gone] /\ outbox = <<>> /\ tray = {}))
================================================================================
