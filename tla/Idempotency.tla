------------------------------ MODULE Idempotency ------------------------------
(****************************************************************************)
(* kernel/api: the write path of the gateway (handleWrite) and the          *)
(* reserve-first idempotency store under it.                                *)
(*                                                                          *)
(* A request runs as a handler: begin (look the key up; INSERT a pending    *)
(* row; on a unique violation read the winner's row), exec (the mutation,   *)
(* one transaction), then finalize (2xx) or discard (anything else). Every  *)
(* one of those is a database transaction of its own under the request's    *)
(* context, so two handlers interleave between them, and a client that      *)
(* disconnects, a failing database or a crashed process may end a handler   *)
(* between any two.                                                         *)
(****************************************************************************)
EXTENDS Naturals

CONSTANTS
  Keys,          \* Idempotency-Key values of one tenant
  Routes,        \* method and path
  Bodies,        \* request bodies
  Credentialed,  \* routes whose body is a secret
  Handlers,      \* goroutines serving requests
  Faults,        \* subset of {"disconnect", "crash", "dberror", "acklost", "commitlost"}
  MaxFaults,     \* bound: faults in one behaviour
  MaxCuts,       \* bound: answers lost on the way in one behaviour
  MaxRuns,       \* bound: executions counted per key
  Absent         \* no row, no request, no body

ASSUME IdempotencyAssumption ==
  /\ Credentialed \subseteq Routes
  /\ MaxFaults \in Nat
  /\ MaxCuts \in Nat
  /\ MaxRuns \in Nat \ {0}

VARIABLES
  row,      \* row[k]: the idempotency_keys row, or Absent
  h,        \* h[i]: the request handler i serves
  runs,     \* runs[k]: mutations committed under key k
  ran,      \* ran[k]: the last request whose mutation committed under key k
  answers,  \* answers the clients received
  faults,   \* faults so far
  cuts      \* answers lost on the way so far

gatewayVars == <<row, h, runs, ran, answers, faults, cuts>>

Request == [key : Keys, route : Routes, body : Bodies]

\* fingerprint: a hash of method, path and body; a credentialed route leaves the
\* body out.
fingerprint(q) == [route |-> q.route,
                   body |-> IF q.route \in Credentialed THEN Absent ELSE q.body]
Fingerprint == [route : Routes, body : Bodies \cup {Absent}]

\* storedRow; statusPending is 0, so a pending row has no response yet.
Row == [fp : Fingerprint, st : {"pending", "done"}]

ASSUME AbsentAssumption == Absent \notin Bodies /\ Absent \notin Request /\ Absent \notin Row

Idle == [pc |-> "idle"]
Busy == [pc : {"absent", "lost", "reserved", "ok", "failed"}, q : Request,
         peer : {"there", "unreachable", "gone"}]

\* "ok" is a 2xx, executed now or replayed; "conflict" the typed 409 of
\* errKeyConflict; "refused" a problem the mutation itself answered; "error" a
\* problem of the gateway, with no claim about the mutation.
Answer == [q : Request, kind : {"ok", "conflict", "refused", "error"}]

GatewayTypeOK ==
  /\ row \in [Keys -> Row \cup {Absent}]
  /\ h \in [Handlers -> Busy \cup {Idle}]
  /\ runs \in [Keys -> 0..MaxRuns]
  /\ ran \in [Keys -> Request \cup {Absent}]
  /\ answers \subseteq Answer
  /\ faults \in 0..MaxFaults
  /\ cuts \in 0..MaxCuts

GatewayInit ==
  /\ row = [k \in Keys |-> Absent]
  /\ h = [i \in Handlers |-> Idle]
  /\ runs = [k \in Keys |-> 0]
  /\ ran = [k \in Keys |-> Absent]
  /\ answers = {}
  /\ faults = 0
  /\ cuts = 0
--------------------------------------------------------------------------------
At(i, pc) == h[i].pc = pc

Goto(i, pc) == h' = [h EXCEPT ![i].pc = pc]

Fault(f) == f \in Faults /\ faults < MaxFaults /\ faults' = faults + 1

\* The handler returns. Only a client that is still there reads the answer.
End(i, kind) ==
  /\ h' = [h EXCEPT ![i] = Idle]
  /\ answers' = IF h[i].peer = "there" THEN answers \cup {[q |-> h[i].q, kind |-> kind]}
                                        ELSE answers

\* A transaction under a cancelled context fails; a live one may fail as well.
TxFails(i) ==
  \/ h[i].peer = "gone" /\ UNCHANGED faults
  \/ h[i].peer # "gone" /\ Fault("dberror")
TxWorks(i) == h[i].peer # "gone" /\ UNCHANGED faults

\* A transaction of the store commits, and the handler is told that it failed: the
\* connection to the database is lost on the acknowledgement.
TxUnheard(i) == h[i].peer # "gone" /\ Fault("acklost")

\* Mutant: the fingerprint is not compared.
decideExistingBlind(r, q) == IF r.st = "pending" THEN "conflict" ELSE "ok"

decideExisting(r, q) == IF r.fp # fingerprint(q) \/ r.st = "pending" THEN "conflict" ELSE "ok"

\* begin, first transaction: lookup, answered at once when the key exists.
begin(i, q) ==
  /\ h[i] = Idle
  /\ IF row[q.key] = Absent
       THEN /\ h' = [h EXCEPT ![i] = [pc |-> "absent", q |-> q, peer |-> "there"]]
            /\ UNCHANGED answers
       ELSE /\ answers' = answers \cup {[q |-> q, kind |-> decideExisting(row[q.key], q)]}
            /\ UNCHANGED h
  /\ UNCHANGED <<row, runs, ran, faults, cuts>>

\* Mutant: the reservation is an upsert, so the loser of a race takes it over.
reserveUpsert(i) ==
  /\ At(i, "absent")
  /\ TxWorks(i)
  /\ row' = [row EXCEPT ![h[i].q.key] = [fp |-> fingerprint(h[i].q), st |-> "pending"]]
  /\ Goto(i, "reserved")
  /\ UNCHANGED <<runs, ran, answers>>

\* begin, second transaction: INSERT the pending row; the primary key lets one
\* handler win. Unheard, the row is in and its handler returns: it is nobody's.
reserve(i) ==
  /\ At(i, "absent")
  /\ \/ /\ row[h[i].q.key] = Absent
        /\ row' = [row EXCEPT ![h[i].q.key] = [fp |-> fingerprint(h[i].q), st |-> "pending"]]
        /\ \/ TxWorks(i) /\ Goto(i, "reserved") /\ UNCHANGED answers
           \/ TxUnheard(i) /\ End(i, "error")
     \/ /\ row[h[i].q.key] # Absent
        /\ TxWorks(i)
        /\ Goto(i, "lost")
        /\ UNCHANGED <<row, answers>>
  /\ UNCHANGED <<runs, ran>>

\* begin, third transaction: decide against the winner, whose row may be gone.
reread(i) ==
  /\ At(i, "lost")
  /\ TxWorks(i)
  /\ LET r == row[h[i].q.key] IN
       End(i, IF r = Absent THEN "conflict" ELSE decideExisting(r, h[i].q))
  /\ UNCHANGED <<row, runs, ran>>

beginFails(i) ==
  /\ At(i, "absent") \/ At(i, "lost")
  /\ TxFails(i)
  /\ End(i, "error")
  /\ UNCHANGED <<row, runs, ran>>

\* The mutation's transaction commits.
Commits(q) ==
  /\ runs[q.key] < MaxRuns
  /\ runs' = [runs EXCEPT ![q.key] = @ + 1]
  /\ ran' = [ran EXCEPT ![q.key] = q]

\* exec: doCreate, doUpdate, doDelete or an action's handler. It refuses the
\* request or its transaction fails and rolls back; or it commits and answers
\* 2xx; or the connection is lost on COMMIT, the write is in and the handler is
\* told it failed.
exec(i) ==
  /\ At(i, "reserved")
  /\ \/ Goto(i, "failed") /\ UNCHANGED <<runs, ran, faults>>
     \/ TxWorks(i) /\ Commits(h[i].q) /\ Goto(i, "ok")
     \/ Fault("commitlost") /\ Commits(h[i].q) /\ Goto(i, "failed")
  /\ UNCHANGED <<row, answers>>

\* Mutant: a failed finalize gives the key back.
finalizeFailsDiscarding(i) ==
  /\ At(i, "ok")
  /\ TxFails(i)
  /\ row' = [row EXCEPT ![h[i].q.key] = Absent]
  /\ End(i, "error")
  /\ UNCHANGED <<runs, ran>>

finalize(i) ==
  /\ At(i, "ok")
  /\ row' = [row EXCEPT ![h[i].q.key].st = "done"]
  /\ \/ TxWorks(i) /\ End(i, "ok")
     \/ TxUnheard(i) /\ End(i, "error")
  /\ UNCHANGED <<runs, ran>>

\* The write is committed, the client is told a problem, the row stays pending.
finalizeFails(i) ==
  /\ At(i, "ok")
  /\ TxFails(i)
  /\ End(i, "error")
  /\ UNCHANGED <<row, runs, ran>>

\* Mutant: the reservation of a refused write is kept.
discardKept(i) ==
  /\ At(i, "failed")
  /\ TxWorks(i)
  /\ End(i, "refused")
  /\ UNCHANGED <<row, runs, ran>>

discard(i) ==
  /\ At(i, "failed")
  /\ row' = [row EXCEPT ![h[i].q.key] = Absent]
  /\ \/ TxWorks(i) /\ End(i, "refused")
     \/ TxUnheard(i) /\ End(i, "error")
  /\ UNCHANGED <<runs, ran>>

discardFails(i) ==
  /\ At(i, "failed")
  /\ TxFails(i)
  /\ End(i, "error")
  /\ UNCHANGED <<row, runs, ran>>

\* The client is cut off. Either nobody notices and only the answer is lost, or
\* the connection is seen to close: net/http then cancels r.Context(), which
\* begin, exec, finalize and discard all run under.
Cut(i) ==
  /\ h[i] # Idle
  /\ h[i].peer = "there"
  /\ \/ /\ cuts < MaxCuts
        /\ cuts' = cuts + 1
        /\ h' = [h EXCEPT ![i].peer = "unreachable"]
        /\ UNCHANGED faults
     \/ /\ Fault("disconnect")
        /\ h' = [h EXCEPT ![i].peer = "gone"]
        /\ UNCHANGED cuts
  /\ UNCHANGED <<row, runs, ran, answers>>

\* The process dies: every handler is gone, what is committed stays.
Crash ==
  /\ Fault("crash")
  /\ h' = [i \in Handlers |-> Idle]
  /\ UNCHANGED <<row, runs, ran, answers, cuts>>

Step(i) ==
  /\ \/ reserve(i) \/ reread(i) \/ beginFails(i) \/ exec(i)
     \/ finalize(i) \/ finalizeFails(i) \/ discard(i) \/ discardFails(i)
  /\ UNCHANGED cuts

GatewayNext ==
  \/ \E i \in Handlers, q \in Request : begin(i, q)
  \/ \E i \in Handlers : Step(i) \/ Cut(i)
  \/ Crash

GatewaySpec == GatewayInit /\ [][GatewayNext]_gatewayVars

\* A started handler runs to its end; what clients do is not assumed.
Fairness == \A i \in Handlers : WF_gatewayVars(Step(i))

GatewayLiveSpec == GatewaySpec /\ Fairness
--------------------------------------------------------------------------------
\* handleWrite executes a keyed mutation at most once, however often and however
\* concurrently the request is sent, and wherever a handler dies: no second
\* handler may reach exec between the first one's commit and its finalize.
AtMostOnce == \A k \in Keys : runs[k] <= 1

\* A 2xx, first or replayed, is the truth: the mutation of this very request has
\* committed under its key. (A credentialed route does not compare bodies, so
\* there the request answered for may differ in its body.)
OkMeansDone ==
  \A a \in answers : a.kind = "ok" =>
    /\ ran[a.q.key] # Absent
    /\ fingerprint(ran[a.q.key]) = fingerprint(a.q)

\* Giving a key back is safe: a key with no row has no committed mutation behind
\* it, so whoever reserves it next may execute.
FreeKeyIsUnused == \A k \in Keys : row[k] = Absent => runs[k] = 0

\* What is recorded under a key is never taken back or changed: a replay returns
\* the identical result for good.
DoneIsForever ==
  [][\A k \in Keys : row[k] # Absent /\ row[k] \in Row /\ row[k].st = "done" => row'[k] = row[k]]_gatewayVars

\* A handler is between its reservation and its finalize or discard.
InFlight(k) == \E i \in Handlers : h[i].pc \in {"reserved", "ok", "failed"} /\ h[i].q.key = k
PendingRow(k) == row[k] # Absent /\ row[k].st = "pending"

\* A client re-sends its command until it hears about it.
Settled(q) == \E a \in answers : a.q = q /\ a.kind \in {"ok", "refused"}
Retry(q) == ~Settled(q) /\ \E i \in Handlers : begin(i, q)
KeepsRetrying(q) == SF_gatewayVars(Retry(q))

\* The key goes on being used for another request; another request under it is done.
Reused(q) == ~<>[](\A i \in Handlers : h[i] # Idle /\ h[i].q.key = q.key => h[i].q = q)
Taken(q) == row[q.key] # Absent /\ row[q.key].st = "done" /\ row[q.key].fp # fingerprint(q)

\* A client that keeps re-sending a command hears what became of it: the 409 of an
\* in-flight duplicate is temporary, concurrent duplicates do not turn each other
\* away for good and a lost answer is made up for. The exceptions are a key that
\* goes on being used for another request, or has been answered for one, and a
\* reservation that a failure has left without a handler.
RetryIsAnswered ==
  \A q \in Request :
    KeepsRetrying(q) =>
      \/ Reused(q)
      \/ <>(Settled(q) \/ Taken(q) \/ (faults > 0 /\ PendingRow(q.key) /\ ~InFlight(q.key)))

\* What begin's 409 tells the outbox (idempotency.go:50, gateway.go:621-628): a key
\* with a reservation and no response has its original request still in flight, so
\* that retrying is the right answer.
PendingIsInFlight == \A k \in Keys : PendingRow(k) => InFlight(k)
================================================================================
