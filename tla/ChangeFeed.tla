------------------------------ MODULE ChangeFeed -------------------------------
(****************************************************************************)
(* kernel/changefeed and its HTTP reader (internal/app/sync.go readChanges):*)
(* the per-tenant log a replica follows.                                    *)
(*                                                                          *)
(* Writers append feed entries inside the transaction of the row or event   *)
(* they describe. Ids come from one sequence (BIGSERIAL), which is not      *)
(* transactional: id order is not commit order by itself. serializeAppend   *)
(* takes a per-tenant advisory lock before the INSERT and holds it to the   *)
(* end of the transaction. Readers poll with the cursor of the last answer; *)
(* an answer may be lost on the way.                                        *)
(*                                                                          *)
(* SQLite has no advisory lock; its one write lock is held from the first   *)
(* write to the end of the transaction. Dialect selects the behaviour.      *)
(****************************************************************************)
EXTENDS Naturals, FiniteSets

CONSTANTS Tenants, Keys, Readers, TenantOf, ScopeOf,   \* see FeedLog
          Writers,       \* database sessions that write
          LockKeys,      \* the int64 keyspace of pg_advisory_xact_lock
          AdvisoryKey,   \* advisoryKey: a hash, so tenants may share a key
          Dialect,       \* "postgres" or "sqlite"
          Limit,         \* entries per page
          MaxId,         \* bound: ids the sequence hands out
          NoWriter

ASSUME ChangeFeedAssumption ==
  /\ Readers # {}
  /\ TenantOf \in [Readers -> Tenants]
  /\ ScopeOf \in [Readers -> SUBSET Keys]
  /\ AdvisoryKey \in [Tenants -> LockKeys]
  /\ Dialect \in {"postgres", "sqlite"}
  /\ Limit \in Nat \ {0}
  /\ MaxId \in Nat
  /\ NoWriter \notin Writers

VARIABLES
  seq,      \* the sequence behind change_feed.id: last id handed out
  holder,   \* holder[k]: session holding lock k, or NoWriter
  tx,       \* tx[w]: the transaction session w has open
  feed,     \* committed change_feed rows
  cursor,   \* cursor[r]: position reader r resumes from
  poll,     \* poll[r]: a request being served: "none" or the high water it read
  got       \* got[r]: ids of the entries reader r has received

vars == <<seq, holder, tx, feed, cursor, poll, got>>

Log == INSTANCE FeedLog WITH log <- feed

NoTx == [st |-> "none"]
Idle == [st |-> "idle"]

\* The lock that orders a tenant's appends. On SQLite it is the database's only
\* write lock, whatever the tenant.
OrderLock(t) == IF Dialect = "postgres" THEN AdvisoryKey[t] ELSE CHOOSE k \in LockKeys : TRUE

\* A transaction in progress: "open" (nothing written yet), "written" (the row
\* or event is written, feed entries may follow), "locked" (serializeAppend has
\* returned, the INSERT is next). entries are its uncommitted feed rows.
Tx == [st : {"open", "written", "locked"}, tenant : Tenants, entries : SUBSET Log!Entry]

TypeOK ==
  /\ seq \in 0..MaxId
  /\ holder \in [LockKeys -> Writers \cup {NoWriter}]
  /\ tx \in [Writers -> Tx \cup {NoTx}]
  /\ feed \subseteq Log!Entry
  /\ cursor \in [Readers -> Nat]
  /\ poll \in [Readers -> [st : {"serving"}, high : Nat] \cup {Idle}]
  /\ got \in [Readers -> SUBSET Nat]

Init ==
  /\ seq = 0
  /\ holder = [k \in LockKeys |-> NoWriter]
  /\ tx = [w \in Writers |-> NoTx]
  /\ feed = {}
  /\ cursor = [r \in Readers |-> 0]
  /\ poll = [r \in Readers |-> Idle]
  /\ got = [r \in Readers |-> {}]

readerVars == <<cursor, poll, got>>
--------------------------------------------------------------------------------
(* Writers. *)

\* withTenantOnce: open a transaction for tenant t.
Begin(w, t) ==
  /\ tx[w] = NoTx
  /\ tx' = [tx EXCEPT ![w] = [st |-> "open", tenant |-> t, entries |-> {}]]
  /\ UNCHANGED <<seq, holder, feed, readerVars>>

\* The write the entry describes. On SQLite the first write takes the write lock
\* (a session that cannot have it gets SQLITE_BUSY, rolls back and retries).
Write(w) ==
  /\ tx[w].st = "open"
  /\ tx' = [tx EXCEPT ![w].st = "written"]
  /\ IF Dialect = "sqlite"
       THEN /\ holder[OrderLock(tx[w].tenant)] = NoWriter
            /\ holder' = [holder EXCEPT ![OrderLock(tx[w].tenant)] = w]
       ELSE UNCHANGED holder
  /\ UNCHANGED <<seq, feed, readerVars>>

\* Mutant: the ordering lock is not taken.
serializeAppendUnlocked(w) ==
  /\ tx[w].st = "written"
  /\ seq < MaxId
  /\ tx' = [tx EXCEPT ![w].st = "locked"]
  /\ UNCHANGED <<seq, holder, feed, readerVars>>

\* pg_advisory_xact_lock: blocks while another session holds the key, returns at
\* once when this one does. Nothing to do on SQLite.
serializeAppend(w) ==
  /\ tx[w].st = "written"
  /\ seq < MaxId
  /\ IF Dialect = "postgres"
       THEN LET k == OrderLock(tx[w].tenant) IN
            /\ holder[k] \in {NoWriter, w}
            /\ holder' = [holder EXCEPT ![k] = w]
       ELSE UNCHANGED holder
  /\ tx' = [tx EXCEPT ![w].st = "locked"]
  /\ UNCHANGED <<seq, feed, readerVars>>

\* The INSERT of changefeed.Append. The id is taken here and is never returned.
\* A transaction may append again (several audited writes in one transaction).
Append(w, key) ==
  /\ tx[w].st = "locked"
  /\ seq < MaxId
  /\ seq' = seq + 1
  /\ tx' = [tx EXCEPT ![w].st = "written",
                      ![w].entries = @ \cup {[id |-> seq + 1, tenant |-> tx[w].tenant, key |-> key]}]
  /\ UNCHANGED <<holder, feed, readerVars>>

\* Locks go with the transaction, however it ends.
Release(w) == holder' = [k \in LockKeys |-> IF holder[k] = w THEN NoWriter ELSE holder[k]]

Commit(w) ==
  /\ tx[w].st = "written"
  /\ feed' = feed \cup tx[w].entries
  /\ tx' = [tx EXCEPT ![w] = NoTx]
  /\ Release(w)
  /\ UNCHANGED <<seq, readerVars>>

\* An error in the callback, SQLITE_BUSY, a cancelled request or a crashed
\* session: the deferred Rollback. The ids taken stay taken.
Rollback(w) ==
  /\ tx[w] # NoTx
  /\ tx' = [tx EXCEPT ![w] = NoTx]
  /\ Release(w)
  /\ UNCHANGED <<seq, feed, readerVars>>
--------------------------------------------------------------------------------
(* Readers. *)

\* MAX(id) of the tenant's committed entries, 0 when there is none.
IsHighWater(t, n) ==
  LET mine == {e \in feed : e.tenant = t} IN
  \/ mine = {} /\ n = 0
  \/ n \in Log!Ids(mine) /\ \A e \in mine : e.id <= n

\* readChanges, first query: the high-water mark, before the page.
HighWater(r) ==
  /\ poll[r] = Idle
  /\ \E n \in 0..MaxId : IsHighWater(TenantOf[r], n)
                         /\ poll' = [poll EXCEPT ![r] = [st |-> "serving", high |-> n]]
  /\ UNCHANGED <<seq, holder, tx, feed, cursor, got>>

\* changefeed.Read: what lies after the cursor in r's scope, and the first Limit of it.
After(r) == {e \in Log!InScope(r, feed) : e.id > cursor[r]}

\* Mutant: ORDER BY id DESC.
ReadNewest(r) == {e \in After(r) : Cardinality({f \in After(r) : f.id > e.id}) < Limit}

Read(r) == {e \in After(r) : Cardinality({f \in After(r) : f.id < e.id}) < Limit}

\* Mutant: every page resumes from the high-water mark.
ResumeHigh(r, last) == IF poll[r].high > last THEN poll[r].high ELSE last

\* readChanges: a full page resumes from its last entry, a short one from the
\* high-water mark when that is further on.
Resume(r, last) ==
  IF Cardinality(After(r)) < Limit /\ poll[r].high > last THEN poll[r].high ELSE last

\* readChanges, second query, answered and received: the client applies the page
\* and stores the cursor in one transaction.
readChanges(r) ==
  /\ poll[r] # Idle
  /\ got' = [got EXCEPT ![r] = @ \cup Log!Ids(Read(r))]
  /\ \/ Read(r) = {} /\ cursor' = [cursor EXCEPT ![r] = Resume(r, cursor[r])]
     \/ \E e \in Read(r) : /\ \A f \in Read(r) : f.id <= e.id
                           /\ cursor' = [cursor EXCEPT ![r] = Resume(r, e.id)]
  /\ poll' = [poll EXCEPT ![r] = Idle]
  /\ UNCHANGED <<seq, holder, tx, feed>>

\* The request fails or its answer is lost: the client still has its old cursor.
LoseAnswer(r) ==
  /\ poll[r] # Idle
  /\ poll' = [poll EXCEPT ![r] = Idle]
  /\ UNCHANGED <<seq, holder, tx, feed, cursor, got>>
--------------------------------------------------------------------------------
Next ==
  \/ \E w \in Writers : \/ \E t \in Tenants : Begin(w, t)
                        \/ Write(w)
                        \/ serializeAppend(w)
                        \/ \E key \in Keys : Append(w, key)
                        \/ Commit(w)
                        \/ Rollback(w)
  \/ \E r \in Readers : HighWater(r) \/ readChanges(r) \/ LoseAnswer(r)

\* No fairness: nothing wakes a reader by the clock, and its user may never come back.
Spec == Init /\ [][Next]_vars
--------------------------------------------------------------------------------
(* Properties. *)

\* order.go: an id a transaction still holds uncommitted lies above every id its
\* tenant has committed, so nothing can commit below a position already read.
NothingStranded ==
  \A w \in Writers : tx[w] # NoTx =>
    \A e \in tx[w].entries, f \in feed : f.tenant = tx[w].tenant => f.id < e.id

\* INV-S5, "observes every committed entry exactly once": of the committed entries
\* in its scope a reader has received those its cursor has passed (none skipped)
\* and no other (none will be sent again).
ExactlyOnce ==
  \A r \in Readers : \A e \in Log!InScope(r, feed) : e.id <= cursor[r] <=> e.id \in got[r]

\* sync.go 155: the reported cursor is "never zero, which would silently rewind a
\* caught-up client": no answer moves a reader back.
CursorNeverRewinds == [][\A r \in Readers : cursor'[r] >= cursor[r]]_vars

\* INV-S5 as a whole: transactions, locks, sequence, pages, high-water mark and
\* lost answers together behave like one ordered log of which a reader always
\* holds a prefix of its scope.
ImplementsLog == Log!LogSpec

\* Answers go on reaching the reader: a screen is opened or refetched, something is
\* written, the tab comes back or goes online, and now and then the network holds.
StaysInTouch(r) == []<><<readChanges(r)>>_vars

\* A committed entry reaches every entitled reader that stays in touch: whatever else is
\* committed meanwhile, entries outside its scope, full pages and lost answers neither
\* skip it nor stall the reader short of it.
EventuallyDelivered ==
  \A r \in Readers : StaysInTouch(r) =>
    \A i \in 1..MaxId : (i \in Log!Ids(Log!InScope(r, feed))) ~> (i \in got[r])
================================================================================
