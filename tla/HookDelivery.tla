------------------------------ MODULE HookDelivery ------------------------------
(****************************************************************************)
(* kernel/plugins: delivery of after_* hooks to one plugin of one tenant.   *)
(* Every node runs passes (Runner.Deliver) that read a page of the change   *)
(* feed after the plugin's cursor, call the hook for each entry, and move   *)
(* the cursor by compare-and-set. A hook that keeps failing has its entry   *)
(* filed as a dead letter and, in the end, opens the plugin's breaker.      *)
(*                                                                          *)
(* The feed is the ordered log that module ChangeFeed implements. Each step *)
(* is one transaction, or the call of the hook. A pass works on the plugin  *)
(* row as it loaded it: its failure count and breaker are copies.           *)
(****************************************************************************)
EXTENDS Naturals, Sequences, FiniteSetsExt

CONSTANTS
  Passes,            \* nodes running Deliver for this tenant
  DeliveryBatch, BreakerThreshold,
  Budgets,           \* bounds: entries, passes cut short, ResetBreaker calls, installs
  Null

ASSUME HookAssumption ==
  /\ DeliveryBatch \in Nat \ {0} /\ BreakerThreshold \in Nat \ {0}
  /\ Budgets \subseteq [entry : Nat, crash : Nat, reset : Nat, install : Nat]
  /\ Null \notin Nat

VARIABLES
  feed,        \* feed[e]: whether the plugin has a hook for entry e and did not write it
  installed,   \* there is a plugins row
  cursor,      \* plugin_deliveries.cursor, or Null
  failures,    \* plugins.hook_failures
  opened,      \* plugins.breaker_opened_at: "null", "recent" or BreakerCooldown "old"
  start,       \* where delivery began at the last install
  high,        \* the feed position an install in progress has read, or Null
  handled,     \* entries the hook accepted or that are filed as dead letters
  pc, cur, hi, fails, since,   \* a pass: step, cursor, end of page, copies of the row
  left         \* what is still to come of one of the Budgets

Time == {"null", "recent", "old"}
row == <<failures, opened>>
pass == <<pc, cur, hi, fails, since>>
vars == <<feed, installed, cursor, row, start, high, handled, pass, left>>

TypeOK ==
  /\ feed \in Seq(BOOLEAN)
  /\ installed \in BOOLEAN
  /\ cursor \in 0..Len(feed) \cup {Null}
  /\ failures \in Nat /\ opened \in Time
  /\ start \in 0..Len(feed)
  /\ high \in 0..Len(feed) \cup {Null}
  /\ handled \subseteq 1..Len(feed)
  /\ pc \in [Passes -> {"idle", "loaded", "read", "deliver", "called", "dead", "advance"}]
  /\ cur \in [Passes -> 0..Len(feed)]
  /\ hi \in [Passes -> 0..Len(feed)]
  /\ fails \in [Passes -> Nat]
  /\ since \in [Passes -> Time]
  /\ left \in [entry : Nat, crash : Nat, reset : Nat, install : Nat]

Init ==
  /\ feed = <<>>
  /\ installed = TRUE /\ cursor = 0 /\ start = 0 /\ high = Null
  /\ failures = 0 /\ opened = "null"
  /\ handled = {}
  /\ pc = [p \in Passes |-> "idle"]
  /\ cur = [p \in Passes |-> 0] /\ hi = [p \in Passes |-> 0]
  /\ fails = [p \in Passes |-> 0] /\ since = [p \in Passes |-> "null"]
  /\ left \in Budgets

Spend(k) == left[k] > 0 /\ left' = [left EXCEPT ![k] = @ - 1]
--------------------------------------------------------------------------------
Emit(wanted) ==
  /\ Spend("entry")
  /\ feed' = Append(feed, wanted)
  /\ UNCHANGED <<installed, cursor, row, start, high, handled, pass>>

\* Mutant: there is no half-open state.
BreakerOpenForever(o) == o # "null"

\* A breaker reads as closed once its cooldown is over.
BreakerOpen(o) == o = "recent"

\* BreakerCooldown has gone by since the breaker opened.
CoolDown ==
  /\ LET age(o) == IF o = "recent" THEN "old" ELSE o IN
       /\ opened' = age(opened)
       /\ since' = [p \in Passes |-> age(since[p])]
  /\ opened' # opened \/ since' # since
  /\ UNCHANGED <<feed, installed, cursor, failures, start, high, handled, pc, cur, hi, fails, left>>

\* The pass returns; its variables are gone.
EndPass(p) ==
  /\ pc' = [pc EXCEPT ![p] = "idle"]
  /\ cur' = [cur EXCEPT ![p] = 0] /\ hi' = [hi EXCEPT ![p] = 0]
  /\ fails' = [fails EXCEPT ![p] = 0] /\ since' = [since EXCEPT ![p] = "null"]

Goto(p, step) == pc' = [pc EXCEPT ![p] = step]

\* Deliver: LoadAll.
Deliver(p) ==
  /\ pc[p] = "idle" /\ installed
  /\ fails' = [fails EXCEPT ![p] = failures] /\ since' = [since EXCEPT ![p] = opened]
  /\ Goto(p, "loaded")
  /\ UNCHANGED <<feed, installed, cursor, row, start, high, handled, cur, hi, left>>

\* readCursor: where there is no row, one at the high-water mark is inserted; there
\* is none only when the plugin has been removed since it was loaded.
readCursor(p) ==
  /\ pc[p] = "loaded"
  /\ cursor' = IF cursor = Null THEN Len(feed) ELSE cursor
  /\ cur' = [cur EXCEPT ![p] = cursor']
  /\ Goto(p, "read")
  /\ UNCHANGED <<feed, installed, row, start, high, handled, hi, fails, since, left>>

\* changefeed.Read: a page after the cursor.
readPage(p) ==
  /\ pc[p] = "read"
  /\ hi' = [hi EXCEPT ![p] = IF cur[p] + DeliveryBatch < Len(feed) THEN cur[p] + DeliveryBatch ELSE Len(feed)]
  /\ Goto(p, "deliver")
  /\ UNCHANGED <<feed, installed, cursor, row, start, high, handled, cur, fails, since, left>>

pageDone(p) ==
  /\ pc[p] = "deliver" /\ cur[p] = hi[p]
  /\ EndPass(p)
  /\ UNCHANGED <<feed, installed, cursor, row, start, high, handled, left>>

Entry(p) == cur[p] + 1
Offered(p) == pc[p] = "deliver" /\ cur[p] < hi[p] /\ feed[Entry(p)]

\* The plugin's own write, or an object it has no hook for.
skip(p) ==
  /\ pc[p] = "deliver" /\ cur[p] < hi[p] /\ ~feed[Entry(p)]
  /\ Goto(p, "advance")
  /\ UNCHANGED <<feed, installed, cursor, row, start, high, handled, cur, hi, fails, since, left>>

\* Mutant: an open breaker lets entries pass undelivered, as it does for sync hooks.
breakerSkips(p) ==
  /\ Offered(p) /\ BreakerOpen(since[p])
  /\ Goto(p, "advance")
  /\ UNCHANGED <<feed, installed, cursor, row, start, high, handled, cur, hi, fails, since, left>>

\* An open breaker ends the pass and leaves the entry for later.
breakerStops(p) ==
  /\ Offered(p) /\ BreakerOpen(since[p])
  /\ EndPass(p)
  /\ UNCHANGED <<feed, installed, cursor, row, start, high, handled, left>>

\* invoke: one of DeliveryAttempts calls succeeds, or all fail and the entry is filed.
invoke(p) ==
  /\ Offered(p) /\ ~BreakerOpen(since[p])
  /\ handled' = handled \cup {Entry(p)}
  /\ Goto(p, "called") \/ Goto(p, "dead")
  /\ UNCHANGED <<feed, installed, cursor, row, start, high, cur, hi, fails, since, left>>

\* bumpBreaker writes what the pass's copy comes to: reset after a success; after a
\* failure one more, and open from BreakerThreshold on. An uninstalled plugin has no row to write.
bumpBreaker(p) ==
  /\ pc[p] \in {"called", "dead"}
  /\ LET n == IF pc[p] = "dead" THEN fails[p] + 1 ELSE 0
         trips == n >= BreakerThreshold
         o == IF trips THEN "recent" ELSE "null"
     IN /\ fails' = [fails EXCEPT ![p] = n]
        /\ since' = [since EXCEPT ![p] = o]
        /\ IF installed THEN failures' = n /\ opened' = o ELSE UNCHANGED <<failures, opened>>
  /\ Goto(p, "advance")
  /\ UNCHANGED <<feed, installed, cursor, start, high, handled, cur, hi, left>>

\* Compare-and-set. The pass goes on to the next entry whether it won or not.
advanceCursor(p) ==
  /\ pc[p] = "advance"
  /\ cursor' = IF cursor = cur[p] THEN Entry(p) ELSE cursor
  /\ cur' = [cur EXCEPT ![p] = Entry(p)]
  /\ Goto(p, "deliver")
  /\ UNCHANGED <<feed, installed, row, start, high, handled, hi, fails, since, left>>

\* The process dies or shuts down, or a statement fails.
Crash(p) ==
  /\ pc[p] # "idle"
  /\ Spend("crash")
  /\ EndPass(p)
  /\ UNCHANGED <<feed, installed, cursor, row, start, high, handled>>

ResetBreaker ==
  /\ installed
  /\ Spend("reset")
  /\ failures' = 0 /\ opened' = "null"
  /\ UNCHANGED <<feed, installed, cursor, start, high, handled, pass>>

\* The plugin row and the delivery row go in one transaction.
Uninstall ==
  /\ installed
  /\ installed' = FALSE /\ cursor' = Null
  /\ failures' = 0 /\ opened' = "null"
  /\ UNCHANGED <<feed, start, high, handled, pass, left>>

\* Install reads the feed position first and inserts both rows later; a delivery
\* row that is already there makes the insert fail, and the install with it.
Install ==
  \/ /\ ~installed /\ high = Null
     /\ Spend("install")
     /\ high' = Len(feed)
     /\ UNCHANGED <<feed, installed, cursor, row, start, handled, pass>>
  \/ /\ high # Null
     /\ high' = Null
     /\ IF cursor = Null
          THEN installed' = TRUE /\ cursor' = high /\ start' = high
          ELSE UNCHANGED <<installed, cursor, start>>
     /\ UNCHANGED <<feed, row, handled, pass, left>>

Step(p) ==
  \/ Deliver(p) \/ readCursor(p) \/ readPage(p) \/ pageDone(p) \/ skip(p) \/ breakerStops(p)
  \/ invoke(p) \/ bumpBreaker(p) \/ advanceCursor(p)

Next ==
  \/ \E wanted \in BOOLEAN : Emit(wanted)
  \/ \E p \in Passes : Step(p) \/ Crash(p)
  \/ CoolDown \/ ResetBreaker \/ Uninstall \/ Install

Spec == Init /\ [][Next]_vars

\* The tickers go on and so does time.
FairSpec == Spec /\ (\A p \in Passes : WF_vars(Step(p))) /\ WF_vars(CoolDown)
--------------------------------------------------------------------------------
\* At-least-once: the cursor never passes an entry that was neither accepted by the
\* hook nor filed, however many passes, crashes and reinstalls there have been.
NothingSkipped ==
  installed => \A e \in 1..Len(feed) : start < e /\ e <= cursor /\ feed[e] => e \in handled

\* advanceCursor's compare-and-set: a pass that lags behind does not take the cursor
\* back over entries another pass has delivered.
CursorNeverRewinds == [][installed /\ installed' /\ cursor # Null /\ cursor' # Null => cursor' >= cursor]_vars

MaxFeed == Max({b.entry : b \in Budgets})

\* Delivery may be late, never lost: an entry that the plugin is to see is delivered
\* or filed in the end, across open breakers and crashes, while it stays installed.
EventuallyHandled ==
  \A e \in 1..MaxFeed :
    installed /\ start < e /\ e <= Len(feed) /\ (e <= Len(feed) => feed[e])
      ~> e \in handled \/ ~installed
================================================================================
