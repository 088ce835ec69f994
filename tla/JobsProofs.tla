-------------------------------- MODULE JobsProofs --------------------------------
(****************************************************************************)
(* Proofs about Jobs, for any number of workers, jobs, schedules and any    *)
(* clock: the lease excludes, jobs are removed only as dead letters, and    *)
(* the firings of plugins are kept, but for passes that are cut short.      *)
(*                                                                          *)
(* The lease is the heart of it. While nobody has outlived a lease, a       *)
(* worker within its own still finds its row in the queue, marked running   *)
(* and leased to the very instant the worker reckons with; so no clock      *)
(* another worker has read can find the row claimable.                      *)
(****************************************************************************)
EXTENDS Jobs, WellFoundedInduction, TLAPS

(* A set that holds zero, and with a number the next one, holds every number: otherwise
   there was a least one that it does not hold. *)
LEMMA Induction ==
  ASSUME NEW G, 0 \in G, \A n \in Nat : n \in G => n + 1 \in G
  PROVE  \A n \in Nat : n \in G
<1> DEFINE T == {n \in Nat : n \notin G}
           R == OpToRel(<, Nat)
<1>1. SUFFICES ASSUME T # {} PROVE FALSE
  OBVIOUS
<1>2. PICK x \in T : \A y \in T : ~(<<y, x>> \in R)
  <2>1. IsWellFoundedOn(R, Nat)
    BY NatLessThanWellFounded
  <2>2. T \subseteq Nat
    OBVIOUS
  <2> HIDE DEF T, R
  <2> QED BY <1>1, <2>1, <2>2, WFMin
<1>3. x \in Nat /\ x # 0 /\ x - 1 \in Nat /\ x - 1 < x
  <2>1. x \in Nat /\ x \notin G
    BY <1>2
  <2> QED BY <2>1
<1>4. x - 1 \notin T
  <2>1. <<x - 1, x>> \in R
    BY <1>3 DEF OpToRel
  <2> QED BY <1>2, <2>1
<1>5. x - 1 \in G
  BY <1>3, <1>4
<1>6. x \notin G
  BY <1>2
<1> HIDE DEF T, R
<1> QED BY <1>3, <1>5, <1>6


\* No pass is ahead of the clock.
Clocks == \A w \in Workers : now[w] <= clock

\* What a worker between two steps has in its hands.
Carried ==
  /\ \A w \in Workers : pc[w] = "enqueue" => job[w] \in Firing
  /\ \A w \in Workers : pc[w] = "run" => job[w] \in JobIds /\ ran[w] < MaxPerPass

\* A worker within its lease has its row, as it left it when it claimed it.
Leased(w) ==
  pc[w] = "run" /\ ~Overrun(w) =>
    /\ Found(w)
    /\ jobs[job[w]].status = "running" /\ jobs[job[w]].until = now[w] + LeaseDuration

IInv ==
  /\ TypeOK /\ Clocks /\ Carried
  /\ overran \/ \A w \in Workers : Leased(w)
  /\ ExclusiveUnlessOverrun
--------------------------------------------------------------------------------
(* The backoff of a job is a number. The recursive definition of it has a solution: its
   first n values can be written down for every n, and they are the same for every n. *)
LEMMA BackoffType == \A n \in Nat : backoff[n] \in Nat
<1> DEFINE Twice(d) == IF 2 * d >= retryMax THEN retryMax ELSE 2 * d
           Good(n, f) == /\ f \in [0..n -> Nat]
                         /\ \A i \in 0..n : f[i] = IF i <= 1 THEN retryBase ELSE Twice(f[i - 1])
           Solves(b) == b = [n \in Nat |-> IF n <= 1 THEN retryBase ELSE Twice(b[n - 1])]
           G == {n \in Nat : \E f : Good(n, f)}
           Same(i) == \A m, n \in Nat : \A f, g :
                        Good(m, f) /\ Good(n, g) /\ i <= m /\ i <= n => f[i] = g[i]
           H == {i \in Nat : Same(i)}
<1>1. retryBase \in Nat /\ retryMax \in Nat /\ \A d \in Nat : Twice(d) \in Nat
  BY JobsAssumption
<1>2. 0 \in G
  <2> DEFINE f == [i \in 0..0 |-> retryBase]
  <2>1. Good(0, f)
    BY <1>1
  <2> QED BY <2>1
<1>3. ASSUME NEW n \in Nat, n \in G PROVE n + 1 \in G
  <2>1. PICK f : Good(n, f)
    BY <1>3
  <2> DEFINE more == [i \in 0..n + 1 |-> IF i <= n THEN f[i] ELSE IF i <= 1 THEN retryBase ELSE Twice(f[i - 1])]
  <2>2. f \in [0..n -> Nat] /\ \A i \in 0..n : f[i] = IF i <= 1 THEN retryBase ELSE Twice(f[i - 1])
    BY <2>1
  <2> HIDE DEF Twice
  <2>3. more \in [0..n + 1 -> Nat]
    <3>1. ASSUME NEW i \in 0..n + 1 PROVE more[i] \in Nat
      <4>1. CASE i <= n
        BY <4>1, <2>2
      <4>2. CASE i > n
        <5>1. i > 1 => i - 1 \in 0..n
          BY <4>2
        <5>2. i > 1 => f[i - 1] \in Nat
          BY <5>1, <2>2
        <5> QED BY <4>2, <5>2, <1>1
      <4> QED BY <4>1, <4>2
    <3>2. more = [i \in 0..n + 1 |-> more[i]]
      OBVIOUS
    <3> HIDE DEF more
    <3> QED BY <3>1, <3>2
  <2>4. ASSUME NEW i \in 0..n + 1
        PROVE  more[i] = IF i <= 1 THEN retryBase ELSE Twice(more[i - 1])
    BY <2>2
  <2>5. Good(n + 1, more)
    BY <2>3, <2>4
  <2> HIDE DEF Good, more
  <2> QED BY <2>5
<1>4. \A n \in Nat : \E f : Good(n, f)
  <2>1. \A n \in Nat : n \in G
    <3> HIDE DEF G
    <3> QED BY <1>2, <1>3, Induction
  <2> QED BY <2>1
<1>5. \A i \in Nat : Same(i)
  <2>1. 0 \in H
    OBVIOUS
  <2>2. ASSUME NEW i \in Nat, i \in H PROVE i + 1 \in H
    <3>0. Same(i)
      BY <2>2
    <3>1. ASSUME NEW m \in Nat, NEW n \in Nat, NEW f, NEW g, Good(m, f), Good(n, g),
                 i + 1 <= m, i + 1 <= n
          PROVE  f[i + 1] = g[i + 1]
      <4>1. f[i] = g[i]
        <5>1. i <= m /\ i <= n
          BY <3>1
        <5> HIDE DEF Good
        <5> QED BY <3>0, <3>1, <5>1
      <4>2. i + 1 \in 0..m /\ i + 1 \in 0..n /\ (i + 1) - 1 = i
        BY <3>1
      <4> HIDE DEF Twice
      <4> QED BY <3>1, <4>1, <4>2
    <3>2. Same(i + 1)
      <4> HIDE DEF Good
      <4> QED BY <3>1
    <3> HIDE DEF Same
    <3> QED BY <3>2
  <2>3. \A i \in Nat : i \in H
    <3> HIDE DEF H
    <3> QED BY <2>1, <2>2, Induction
  <2> QED BY <2>3
<1>6. \E b : Solves(b)
  <2> DEFINE F(n) == CHOOSE f : Good(n, f)
             b == [n \in Nat |-> F(n)[n]]
  <2>1. ASSUME NEW n \in Nat PROVE Good(n, F(n))
    <3> HIDE DEF Good
    <3> QED BY <1>4
  <2>2. ASSUME NEW n \in Nat
        PROVE  b[n] = IF n <= 1 THEN retryBase ELSE Twice(b[n - 1])
    <3>1. F(n)[n] = IF n <= 1 THEN retryBase ELSE Twice(F(n)[n - 1])
      <4>1. n \in 0..n
        OBVIOUS
      <4>2. Good(n, F(n))
        BY <2>1
      <4> HIDE DEF F, Twice
      <4> QED BY <4>1, <4>2
    <3>2. n > 1 => F(n)[n - 1] = F(n - 1)[n - 1]
      <4> HAVE n > 1
      <4>1. n - 1 \in Nat /\ n - 1 <= n /\ n - 1 <= n - 1
        OBVIOUS
      <4>2. Good(n, F(n)) /\ Good(n - 1, F(n - 1)) /\ Same(n - 1)
        BY <4>1, <2>1, <1>5
      <4> HIDE DEF F, Good
      <4> QED BY <4>1, <4>2
    <3> HIDE DEF F, Twice
    <3> QED BY <3>1, <3>2
  <2>3. b = [n \in Nat |-> IF n <= 1 THEN retryBase ELSE Twice(b[n - 1])]
    <3>1. b = [n \in Nat |-> b[n]]
      OBVIOUS
    <3> HIDE DEF b, Twice
    <3> QED BY <2>2, <3>1
  <2> HIDE DEF b, Twice
  <2> QED BY <2>3
<1>7. Solves(backoff)
  BY <1>6 DEF backoff
<1>8. \A n \in Nat : backoff[n] = IF n <= 1 THEN retryBase ELSE Twice(backoff[n - 1])
  <2> HIDE DEF Twice
  <2> QED BY <1>7
<1>9. \A n \in Nat : backoff[n] \in Nat
  <2> DEFINE T == {n \in Nat : backoff[n] \in Nat}
  <2>1. 0 \in T
    BY <1>1, <1>8
  <2>2. ASSUME NEW n \in Nat, n \in T PROVE n + 1 \in T
    <3>1. n + 1 \in Nat /\ (n + 1) - 1 = n
      OBVIOUS
    <3> HIDE DEF Twice
    <3> QED BY <1>1, <1>8, <2>2, <3>1
  <2>3. \A n \in Nat : n \in T
    <3> HIDE DEF T
    <3> QED BY <2>1, <2>2, Induction
  <2> QED BY <2>3
<1> QED BY <1>9
--------------------------------------------------------------------------------
(* Leases. *)

Leases == (overran \/ \A w \in Workers : Leased(w)) /\ ExclusiveUnlessOverrun

(* A step that claims nothing, finishes nothing and changes no row that is there leaves the
   leases as they are, however far the clock moves. *)
LEMMA LeasesRest ==
  ASSUME IInv, clock' \in Nat, clock' >= clock, overran' = overran, dead' = dead,
         \A j \in JobIds : jobs[j] # Absent => jobs'[j] = jobs[j],
         \A w \in Workers : pc'[w] = "run" => /\ pc[w] = "run" /\ job'[w] = job[w]
                                              /\ id'[w] = id[w] /\ now'[w] = now[w]
  PROVE  Leases'
<1>1. ASSUME NEW w \in Workers
      PROVE  now[w] \in Nat /\ LeaseDuration \in Nat /\ clock \in Nat
  BY JobsAssumption DEF IInv, TypeOK, Times
<1>2. ASSUME NEW w \in Workers, pc'[w] = "run", ~Overrun(w)' PROVE ~Overrun(w)
  BY <1>1, <1>2 DEF Overrun
<1>3. ASSUME NEW w \in Workers, Leased(w) PROVE Leased(w)'
  <2> SUFFICES ASSUME pc'[w] = "run", ~Overrun(w)'
               PROVE  (Found(w) /\ jobs[job[w]].status = "running"
                       /\ jobs[job[w]].until = now[w] + LeaseDuration)'
    BY DEF Leased
  <2>1. /\ Found(w) /\ jobs[job[w]].status = "running"
        /\ jobs[job[w]].until = now[w] + LeaseDuration /\ job[w] \in JobIds
    BY <1>2, <1>3 DEF Leased, IInv, Carried
  <2> QED BY <2>1 DEF Found
<1>4. ExclusiveUnlessOverrun'
  <2> SUFFICES ASSUME NEW v \in Workers, NEW w \in Workers, v # w,
                      pc'[v] = "run", pc'[w] = "run", job'[v] = job'[w], id'[v] = id'[w],
                      ~Overrun(v)', ~Overrun(w)'
               PROVE  overran'
    BY DEF ExclusiveUnlessOverrun
  <2> QED BY <1>2 DEF IInv, ExclusiveUnlessOverrun
<1> QED BY <1>3, <1>4 DEF Leases, IInv

(* A claim takes no row from a worker within its lease: the row is running, and its lease
   is past every clock that has been read. *)
LEMMA LeasesClaim ==
  ASSUME IInv, NEW w \in Workers, NEW j \in JobIds, Claim(w, j)
  PROVE  Leases'
<1>1. /\ pc[w] = "claim" /\ claimable(j, now[w]) /\ overran' = overran /\ dead' = dead
      /\ clock' = clock /\ now' = now /\ job'[w] = j /\ id'[w] = dead[j] /\ jobs[j] # Absent
      /\ now[w] \in Nat /\ clock \in Nat /\ now[w] <= clock /\ LeaseDuration \in Nat
  BY JobsAssumption DEF Claim, First, claimable, IInv, TypeOK, Times, Clocks
<1>2. /\ jobs'[j] \in Row /\ jobs'[j].status = "running" /\ jobs'[j].until = now[w] + LeaseDuration
      /\ \A i \in JobIds : i # j => jobs'[i] = jobs[i]
  <2>1. jobs[j] \in Row
    BY <1>1 DEF IInv, TypeOK
  <2>2. jobs'[j] = [status |-> "running", run |-> jobs[j].run, tries |-> jobs[j].tries + 1,
                    until |-> now[w] + LeaseDuration]
    BY DEF Claim, IInv, TypeOK
  <2>3. \A i \in JobIds : i # j => jobs'[i] = jobs[i]
    BY DEF Claim, IInv, TypeOK
  <2> QED BY <1>1, <2>1, <2>2, <2>3 DEF Row
<1>3. ASSUME NEW v \in Workers, v # w
      PROVE  pc'[v] = pc[v] /\ job'[v] = job[v] /\ id'[v] = id[v]
  BY <1>3 DEF Claim, IInv, TypeOK
<1>4. ASSUME NEW v \in Workers, v # w, pc[v] = "run", ~Overrun(v), ~overran, job[v] = j PROVE FALSE
  <2>1. jobs[j].status = "running" /\ jobs[j].until = now[v] + LeaseDuration
    BY <1>4 DEF IInv, Leased
  <2>2. now[v] \in Nat
    BY DEF IInv, TypeOK, Times
  <2>3. jobs[j].until <= now[w]
    BY <1>1, <2>1 DEF claimable
  <2> QED BY <1>1, <1>4, <2>1, <2>2, <2>3 DEF Overrun
<1>5. ASSUME NEW v \in Workers, ~overran PROVE Leased(v)'
  <2>1. CASE v = w
    <3>1. jobs'[j] # Absent
      BY <1>2, JobsAssumption
    <3> QED BY <1>1, <1>2, <2>1, <3>1 DEF Leased, Found
  <2>2. CASE v # w
    <3> SUFFICES ASSUME pc'[v] = "run", ~Overrun(v)'
                 PROVE  (Found(v) /\ jobs[job[v]].status = "running"
                         /\ jobs[job[v]].until = now[v] + LeaseDuration)'
      BY DEF Leased
    <3>1. pc[v] = "run" /\ ~Overrun(v) /\ job'[v] = job[v] /\ id'[v] = id[v]
      BY <1>1, <1>3, <2>2 DEF Overrun
    <3>2. job[v] # j /\ job[v] \in JobIds
      BY <1>4, <1>5, <2>2, <3>1 DEF IInv, Carried
    <3>3. Found(v) /\ jobs[job[v]].status = "running" /\ jobs[job[v]].until = now[v] + LeaseDuration
      BY <1>5, <3>1 DEF IInv, Leased
    <3> QED BY <1>1, <1>2, <3>1, <3>2, <3>3 DEF Found
  <2> QED BY <2>1, <2>2
<1>6. ExclusiveUnlessOverrun'
  <2> SUFFICES ASSUME NEW u \in Workers, NEW v \in Workers, u # v,
                      pc'[u] = "run", pc'[v] = "run", job'[u] = job'[v], id'[u] = id'[v],
                      ~Overrun(u)', ~Overrun(v)', ~overran'
               PROVE  FALSE
    BY DEF ExclusiveUnlessOverrun
  <2>1. ~Overrun(u) /\ ~Overrun(v) /\ ~overran
    BY <1>1 DEF Overrun
  <2>2. CASE u = w
    BY <1>1, <1>3, <1>4, <2>1, <2>2
  <2>3. CASE v = w
    BY <1>1, <1>3, <1>4, <2>1, <2>3
  <2>4. CASE u # w /\ v # w
    BY <1>3, <2>1, <2>4 DEF IInv, ExclusiveUnlessOverrun
  <2> QED BY <2>2, <2>3, <2>4
<1> QED BY <1>1, <1>5, <1>6 DEF Leases

(* A worker that finishes a job changes its own row only: the row of another worker within
   its lease is the same one only if one of the two has overrun. *)
LEMMA LeasesFinish ==
  ASSUME IInv, NEW x \in Workers, Finish(x), pc'[x] # "run", clock' = clock,
         ~Found(x) => jobs' = jobs /\ dead' = dead,
         \A j \in JobIds : j # job[x] => jobs'[j] = jobs[j] /\ dead'[j] = dead[j],
         \A w \in Workers : w # x => /\ pc'[w] = pc[w] /\ job'[w] = job[w]
                                     /\ id'[w] = id[w] /\ now'[w] = now[w]
  PROVE  Leases'
<1>1. pc[x] = "run" /\ overran' = (overran \/ Overrun(x)) /\ job[x] \in JobIds
  BY DEF Finish, IInv, Carried
<1>2. ASSUME NEW w \in Workers, ~overran' PROVE Leased(w)'
  <2> SUFFICES ASSUME pc'[w] = "run", ~Overrun(w)'
               PROVE  (Found(w) /\ jobs[job[w]].status = "running"
                       /\ jobs[job[w]].until = now[w] + LeaseDuration)'
    BY DEF Leased
  <2>1. /\ w # x /\ pc[w] = "run" /\ ~Overrun(w) /\ job'[w] = job[w] /\ id'[w] = id[w]
        /\ now'[w] = now[w] /\ job[w] \in JobIds
    BY DEF Overrun, IInv, Carried
  <2>2. Found(w) /\ jobs[job[w]].status = "running" /\ jobs[job[w]].until = now[w] + LeaseDuration
    BY <1>1, <1>2, <2>1 DEF IInv, Leased
  <2>3. jobs'[job[w]] = jobs[job[w]] /\ dead'[job[w]] = dead[job[w]]
    <3>1. CASE job[w] # job[x]
      BY <2>1, <3>1
    <3>2. CASE job[w] = job[x] /\ ~Found(x)
      BY <3>2
    <3>3. CASE job[w] = job[x] /\ Found(x)
      <4>1. id[w] = id[x]
        BY <2>2, <3>3 DEF Found
      <4>2. overran \/ Overrun(w) \/ Overrun(x)
        BY <1>1, <2>1, <3>3, <4>1 DEF IInv, ExclusiveUnlessOverrun
      <4> QED BY <1>1, <1>2, <2>1, <4>2
    <3> QED BY <3>1, <3>2, <3>3
  <2> QED BY <2>1, <2>2, <2>3 DEF Found
<1>3. ExclusiveUnlessOverrun'
  <2> SUFFICES ASSUME NEW u \in Workers, NEW v \in Workers, u # v,
                      pc'[u] = "run", pc'[v] = "run", job'[u] = job'[v], id'[u] = id'[v],
                      ~Overrun(u)', ~Overrun(v)'
               PROVE  overran'
    BY DEF ExclusiveUnlessOverrun
  <2>1. u # x /\ v # x /\ ~Overrun(u) /\ ~Overrun(v)
    BY DEF Overrun
  <2> QED BY <1>1, <2>1 DEF IInv, ExclusiveUnlessOverrun
<1> QED BY <1>2, <1>3 DEF Leases
--------------------------------------------------------------------------------
(* Types, step by step. *)

LEMMA EnqueueType ==
  ASSUME IInv, NEW j \in JobIds, NEW at \in Nat, Enqueue(j, at)
  PROVE  /\ jobs' \in [JobIds -> Row \cup {Absent}]
         /\ \A i \in JobIds : jobs[i] # Absent => jobs'[i] = jobs[i]
<1>1. [status |-> "pending", run |-> at, tries |-> 0, until |-> 0] \in Row
  BY DEF Row
<1> QED BY <1>1 DEF Enqueue, IInv, TypeOK

\* A pass that is over, or on to its next job, carries what it should.
LEMMA EndPassTypes ==
  ASSUME IInv, NEW w \in Workers, EndPass(w)
  PROVE  /\ pc' \in [Workers -> {"idle", "tick", "enqueue", "claim", "run"}]
         /\ now' \in [Workers -> Times] /\ due' \in [Workers -> SUBSET Firing]
         /\ job' \in [Workers -> JobIds \cup {Absent}] /\ id' \in [Workers -> Nat]
         /\ ran' \in [Workers -> 0..MaxPerPass]
         /\ pc'[w] = "idle" /\ now'[w] = 0
         /\ \A v \in Workers : v # w => /\ pc'[v] = pc[v] /\ now'[v] = now[v] /\ job'[v] = job[v]
                                        /\ id'[v] = id[v] /\ ran'[v] = ran[v]
<1>1. 0 \in Times /\ 0 \in 0..MaxPerPass
  BY JobsAssumption DEF Times
<1> QED BY <1>1 DEF EndPass, IInv, TypeOK

LEMMA NextJobTypes ==
  ASSUME IInv, NEW w \in Workers, pc[w] = "run", NextJob(w)
  PROVE  /\ pc' \in [Workers -> {"idle", "tick", "enqueue", "claim", "run"}]
         /\ job' \in [Workers -> JobIds \cup {Absent}] /\ id' \in [Workers -> Nat]
         /\ ran' \in [Workers -> 0..MaxPerPass]
         /\ pc'[w] = "claim"
         /\ \A v \in Workers : v # w => /\ pc'[v] = pc[v] /\ job'[v] = job[v]
                                        /\ id'[v] = id[v] /\ ran'[v] = ran[v]
<1>1. ran[w] + 1 \in 0..MaxPerPass
  BY JobsAssumption DEF IInv, TypeOK, Carried
<1> QED BY <1>1 DEF NextJob, IInv, TypeOK
--------------------------------------------------------------------------------
(* Every step keeps the invariant. *)

LEMMA Start ==
  ASSUME Init
  PROVE  IInv
<1>1. TypeOK
  <2>1. 0 \in Times /\ 0 \in 0..MaxPerPass /\ 0 \in 0..MaxAborts
    BY JobsAssumption DEF Times
  <2>2. next \in [Schedules -> Nat \cup {Absent}]
    BY <2>1, JobsAssumption DEF Init
  <2> QED BY <2>1, <2>2 DEF Init, TypeOK
<1>2. Clocks /\ Carried /\ ExclusiveUnlessOverrun /\ \A w \in Workers : Leased(w)
  BY DEF Init, Clocks, Carried, ExclusiveUnlessOverrun, Leased
<1> QED BY <1>1, <1>2 DEF IInv

LEMMA StepTick ==
  ASSUME IInv, Tick
  PROVE  IInv'
<1>1. clock' = clock + 1 /\ clock \in Nat /\ clock' \in Times
  BY JobsAssumption DEF Tick, IInv, TypeOK, Times
<1>2. UNCHANGED <<jobs, dead, next, pc, now, due, job, id, ran, syncing, overran, aborts>>
  BY DEF Tick, worker
<1>3. TypeOK' /\ Carried'
  BY <1>1, <1>2 DEF IInv, TypeOK, Carried
<1>4. Clocks'
  <2>1. ASSUME NEW w \in Workers PROVE now[w] \in Nat
    BY DEF IInv, TypeOK, Times
  <2> QED BY <1>1, <1>2, <2>1 DEF IInv, Clocks
<1>5. Leases'
  BY <1>1, <1>2, LeasesRest DEF Times
<1> QED BY <1>3, <1>4, <1>5 DEF IInv, Leases

LEMMA StepProduce ==
  ASSUME IInv, NEW k \in Keys, Produce(k)
  PROVE  IInv'
<1>1. PICK delay \in 0..MaxDelay : Enqueue(k, clock + delay)
  BY DEF Produce
<1>2. k \in JobIds /\ clock + delay \in Nat /\ clock \in Nat
  BY JobsAssumption DEF JobIds, IInv, TypeOK, Times
<1>3. UNCHANGED <<clock, dead, next, pc, now, due, job, id, ran, syncing, overran, aborts>>
  BY DEF Produce, worker
<1>4. /\ jobs' \in [JobIds -> Row \cup {Absent}]
      /\ \A i \in JobIds : jobs[i] # Absent => jobs'[i] = jobs[i]
  BY <1>1, <1>2, EnqueueType
<1>5. TypeOK' /\ Carried' /\ Clocks'
  BY <1>3, <1>4 DEF IInv, TypeOK, Carried, Clocks
<1>6. Leases'
  BY <1>2, <1>3, <1>4, LeasesRest
<1> QED BY <1>5, <1>6 DEF IInv, Leases

LEMMA StepClaim ==
  ASSUME IInv, NEW w \in Workers, NEW j \in JobIds, Claim(w, j)
  PROVE  IInv'
<1>1. /\ UNCHANGED <<clock, dead, next, now, due, ran, syncing, overran, aborts>>
      /\ pc' = [pc EXCEPT ![w] = "run"] /\ job' = [job EXCEPT ![w] = j]
      /\ id' = [id EXCEPT ![w] = dead[j]] /\ ran[w] < MaxPerPass
  BY DEF Claim
<1>2. jobs' \in [JobIds -> Row \cup {Absent}]
  <2>1. jobs[j] \in Row /\ now[w] + LeaseDuration \in Nat
    BY JobsAssumption DEF Claim, First, claimable, IInv, TypeOK, Times
  <2> DEFINE r == [status |-> "running", run |-> jobs[j].run, tries |-> jobs[j].tries + 1,
                   until |-> now[w] + LeaseDuration]
  <2>2. r \in Row
    BY <2>1 DEF Row
  <2>3. jobs' = [jobs EXCEPT ![j] = r]
    BY DEF Claim
  <2> HIDE DEF r
  <2> QED BY <2>2, <2>3 DEF IInv, TypeOK
<1>3. TypeOK'
  BY <1>1, <1>2 DEF IInv, TypeOK
<1>4. Carried' /\ Clocks'
  BY <1>1 DEF IInv, TypeOK, Carried, Clocks
<1> QED BY <1>3, <1>4, LeasesClaim DEF IInv, Leases

LEMMA StepComplete ==
  ASSUME IInv, NEW w \in Workers, Complete(w)
  PROVE  IInv'
<1>1. /\ UNCHANGED <<clock, dead, next, now, due, syncing, aborts>>
      /\ pc[w] = "run" /\ Finish(w) /\ NextJob(w) /\ overran' \in BOOLEAN
  BY DEF Complete, Finish, IInv, TypeOK, Overrun
<1>2. /\ jobs' \in [JobIds -> Row \cup {Absent}]
      /\ ~Found(w) => jobs' = jobs
      /\ \A j \in JobIds : j # job[w] => jobs'[j] = jobs[j]
  <2>1. CASE ~Found(w)
    BY <2>1 DEF Complete, IInv, TypeOK
  <2>2. CASE Found(w)
    <3>1. job[w] \in JobIds /\ jobs[job[w]] \in Row
      BY <1>1, <2>2 DEF IInv, TypeOK, Carried, Found
    <3> DEFINE r == [status |-> "done", run |-> jobs[job[w]].run, tries |-> jobs[job[w]].tries,
                     until |-> 0]
    <3>2. r \in Row
      BY <3>1 DEF Row
    <3>3. jobs' = [jobs EXCEPT ![job[w]] = r]
      BY <2>2 DEF Complete
    <3> HIDE DEF r
    <3> QED BY <2>2, <3>1, <3>2, <3>3 DEF IInv, TypeOK
  <2> QED BY <2>1, <2>2
<1>3. TypeOK'
  BY <1>1, <1>2, NextJobTypes DEF IInv, TypeOK
<1>4. Carried' /\ Clocks'
  BY <1>1, NextJobTypes DEF IInv, Carried, Clocks
<1>5. Leases'
  BY <1>1, <1>2, NextJobTypes, LeasesFinish
<1> QED BY <1>3, <1>4, <1>5 DEF IInv, Leases

LEMMA StepFail ==
  ASSUME IInv, NEW w \in Workers, Fail(w)
  PROVE  IInv'
<1>1. /\ UNCHANGED <<clock, next, now, due, syncing, aborts>>
      /\ pc[w] = "run" /\ Finish(w) /\ Found(w) /\ NextJob(w) /\ overran' \in BOOLEAN
  BY DEF Fail, Finish, IInv, TypeOK, Overrun
<1>2. job[w] \in JobIds /\ jobs[job[w]] \in Row /\ dead[job[w]] + 1 \in Nat
  BY <1>1 DEF IInv, TypeOK, Carried, Found
<1>3. /\ jobs' \in [JobIds -> Row \cup {Absent}] /\ dead' \in [JobIds -> Nat]
      /\ \A j \in JobIds : j # job[w] => jobs'[j] = jobs[j] /\ dead'[j] = dead[j]
  <2>1. CASE jobs[job[w]].tries < MaxAttempts
    <3> DEFINE r == [status |-> "pending", tries |-> jobs[job[w]].tries, until |-> 0,
                     run |-> now[w] + backoff[jobs[job[w]].tries]]
    <3>1. r \in Row
      <4>1. jobs[job[w]].tries \in Nat /\ now[w] \in Nat
        BY <1>2 DEF Row, IInv, TypeOK, Times
      <4>2. backoff[jobs[job[w]].tries] \in Nat
        BY <4>1, BackoffType
      <4> QED BY <4>1, <4>2 DEF Row
    <3>2. jobs' = [jobs EXCEPT ![job[w]] = r] /\ dead' = dead
      BY <2>1 DEF Fail
    <3> HIDE DEF r
    <3> QED BY <1>2, <3>1, <3>2 DEF IInv, TypeOK
  <2>2. CASE ~(jobs[job[w]].tries < MaxAttempts)
    <3>1. jobs' = [jobs EXCEPT ![job[w]] = Absent] /\ dead' = [dead EXCEPT ![job[w]] = dead[job[w]] + 1]
      BY <2>2 DEF Fail
    <3> QED BY <1>2, <3>1 DEF IInv, TypeOK
  <2> QED BY <2>1, <2>2
<1>4. TypeOK'
  BY <1>1, <1>3, NextJobTypes DEF IInv, TypeOK
<1>5. Carried' /\ Clocks'
  BY <1>1, NextJobTypes DEF IInv, Carried, Clocks
<1>6. Leases'
  BY <1>1, <1>3, NextJobTypes, LeasesFinish
<1> QED BY <1>4, <1>5, <1>6 DEF IInv, Leases

\* The ways a pass ends, but for the one after a failure that found no row.
LEMMA StepEnd ==
  ASSUME IInv, NEW w \in Workers, passDone(w) \/ Abort(w)
  PROVE  IInv'
<1>1. UNCHANGED <<clock, jobs, dead, next, syncing, overran>> /\ EndPass(w) /\ aborts' \in 0..MaxAborts
  BY JobsAssumption DEF passDone, Abort, IInv, TypeOK
<1>2. TypeOK'
  BY <1>1, EndPassTypes DEF IInv, TypeOK
<1>3. clock \in Nat
  BY DEF IInv, TypeOK, Times
<1>4. Carried' /\ Clocks'
  BY <1>1, <1>3, EndPassTypes DEF IInv, Carried, Clocks
<1>5. \A v \in Workers : pc'[v] = "run" => /\ pc[v] = "run" /\ job'[v] = job[v]
                                           /\ id'[v] = id[v] /\ now'[v] = now[v]
  BY <1>1, EndPassTypes
<1>6. Leases'
  BY <1>1, <1>3, <1>5, LeasesRest
<1> QED BY <1>2, <1>4, <1>6 DEF IInv, Leases

LEMMA StepFailNotFound ==
  ASSUME IInv, NEW w \in Workers, FailNotFound(w)
  PROVE  IInv'
<1>1. /\ UNCHANGED <<clock, jobs, dead, next, syncing, aborts>> /\ EndPass(w) /\ Finish(w)
      /\ overran' \in BOOLEAN
  BY DEF FailNotFound, Finish, IInv, TypeOK, Overrun
<1>2. TypeOK'
  BY <1>1, EndPassTypes DEF IInv, TypeOK
<1>3. clock \in Nat
  BY DEF IInv, TypeOK, Times
<1>4. Carried' /\ Clocks'
  BY <1>1, <1>3, EndPassTypes DEF IInv, Carried, Clocks
<1>5. Leases'
  BY <1>1, EndPassTypes, LeasesFinish
<1> QED BY <1>2, <1>4, <1>5 DEF IInv, Leases
--------------------------------------------------------------------------------
(* The steps of the schedules. *)

LEMMA StepRunOnce ==
  ASSUME IInv, NEW w \in Workers, RunOnce(w)
  PROVE  IInv'
<1> DEFINE found == {<<s, next[s]>> : s \in {s \in Schedules : next[s] # Absent /\ next[s] <= clock}}
<1>1. /\ UNCHANGED <<clock, jobs, dead, next, job, id, ran, syncing, overran, aborts>>
      /\ pc' = [pc EXCEPT ![w] = "tick"] /\ now' = [now EXCEPT ![w] = clock]
      /\ due' = [due EXCEPT ![w] = found] /\ pc[w] = "idle"
  BY DEF RunOnce, dueSchedules
<1>2. found \subseteq Firing
  <2>1. ASSUME NEW s \in Schedules, next[s] # Absent, next[s] <= clock PROVE next[s] \in Times
    <3>1. next[s] \in Nat /\ clock \in 0..MaxTime /\ MaxTime \in Nat
      BY <2>1, JobsAssumption DEF IInv, TypeOK, Times
    <3> QED BY <2>1, <3>1 DEF Times
  <2> QED BY <2>1 DEF Firing
<1> HIDE DEF found
<1>3. TypeOK'
  BY <1>1, <1>2 DEF IInv, TypeOK
<1>4. clock \in Nat
  BY DEF IInv, TypeOK, Times
<1>5. Carried' /\ Clocks'
  BY <1>1, <1>4 DEF IInv, TypeOK, Carried, Clocks
<1>6. \A v \in Workers : pc'[v] = "run" => /\ pc[v] = "run" /\ job'[v] = job[v]
                                           /\ id'[v] = id[v] /\ now'[v] = now[v]
  BY <1>1 DEF IInv, TypeOK
<1>7. Leases'
  BY <1>1, <1>4, <1>6, LeasesRest
<1> QED BY <1>3, <1>5, <1>7 DEF IInv, Leases

LEMMA StepAdvance ==
  ASSUME IInv, NEW w \in Workers, NEW f \in Firing, advanceSchedule(w, f)
  PROVE  IInv'
<1>1. /\ UNCHANGED <<clock, jobs, dead, now, id, ran, syncing, overran, aborts>>
      /\ pc[w] = "tick" /\ due' = [due EXCEPT ![w] = @ \ {f}]
      /\ \/ /\ next' = [next EXCEPT ![f[1]] = Cron[f[1]][now[w]]] /\ job' = [job EXCEPT ![w] = f]
            /\ pc' = [pc EXCEPT ![w] = "enqueue"]
         \/ UNCHANGED <<next, job, pc>>
  BY DEF advanceSchedule
<1>2. f \in JobIds /\ f[1] \in Schedules /\ Cron[f[1]][now[w]] \in Nat
  <2>1. f \in JobIds /\ f[1] \in Schedules
    BY DEF Firing, JobIds
  <2>2. now[w] \in Times
    BY DEF IInv, TypeOK
  <2> QED BY <2>1, <2>2, JobsAssumption
<1>3. TypeOK'
  BY <1>1, <1>2 DEF IInv, TypeOK
<1>4. Carried' /\ Clocks'
  BY <1>1 DEF IInv, TypeOK, Carried, Clocks
<1>5. \A v \in Workers : pc'[v] = "run" => /\ pc[v] = "run" /\ job'[v] = job[v]
                                           /\ id'[v] = id[v] /\ now'[v] = now[v]
  BY <1>1 DEF IInv, TypeOK
<1>6. clock \in Nat
  BY DEF IInv, TypeOK, Times
<1>7. Leases'
  BY <1>1, <1>5, <1>6, LeasesRest
<1> QED BY <1>3, <1>4, <1>7 DEF IInv, Leases

LEMMA StepTickSchedules ==
  ASSUME IInv, NEW w \in Workers, TickSchedules(w)
  PROVE  IInv'
<1>1. /\ UNCHANGED <<clock, dead, next, now, due, id, ran, syncing, overran, aborts>>
      /\ pc[w] = "enqueue" /\ Enqueue(job[w], job[w][2])
      /\ pc' = [pc EXCEPT ![w] = "tick"] /\ job' = [job EXCEPT ![w] = Absent]
  BY DEF TickSchedules
<1>2. job[w] \in JobIds /\ job[w][2] \in Nat /\ clock \in Nat
  <2>1. job[w] \in Firing
    BY <1>1 DEF IInv, Carried
  <2> QED BY <2>1 DEF Firing, JobIds, Times, IInv, TypeOK
<1>3. /\ jobs' \in [JobIds -> Row \cup {Absent}]
      /\ \A i \in JobIds : jobs[i] # Absent => jobs'[i] = jobs[i]
  BY <1>1, <1>2, EnqueueType
<1>4. TypeOK'
  BY <1>1, <1>3 DEF IInv, TypeOK
<1>5. Carried' /\ Clocks'
  BY <1>1 DEF IInv, TypeOK, Carried, Clocks
<1>6. \A v \in Workers : pc'[v] = "run" => /\ pc[v] = "run" /\ job'[v] = job[v]
                                           /\ id'[v] = id[v] /\ now'[v] = now[v]
  BY <1>1 DEF IInv, TypeOK
<1>7. Leases'
  BY <1>1, <1>2, <1>3, <1>6, LeasesRest
<1> QED BY <1>4, <1>5, <1>7 DEF IInv, Leases

LEMMA StepTicked ==
  ASSUME IInv, NEW w \in Workers, ticked(w)
  PROVE  IInv'
<1>1. /\ UNCHANGED <<clock, jobs, dead, next, now, due, job, id, ran, syncing, overran, aborts>>
      /\ pc' = [pc EXCEPT ![w] = "claim"]
  BY DEF ticked
<1>2. TypeOK' /\ Carried' /\ Clocks'
  BY <1>1 DEF IInv, TypeOK, Carried, Clocks
<1>3. \A v \in Workers : pc'[v] = "run" => pc[v] = "run"
  BY <1>1 DEF IInv, TypeOK
<1>4. clock \in Nat
  BY DEF IInv, TypeOK, Times
<1>5. Leases'
  BY <1>1, <1>3, <1>4, LeasesRest
<1> QED BY <1>2, <1>5 DEF IInv, Leases

\* What installs, removes and rewrites schedules leaves jobs and workers alone.
LEMMA StepSchedules ==
  ASSUME IInv,
         \/ \E s \in Schedules : Uninstall(s) \/ Install(s) \/ UpsertSchedule(s)
         \/ SyncSchedules
  PROVE  IInv'
<1>1. UNCHANGED <<clock, jobs, dead, pc, now, due, job, id, ran, overran, aborts>>
  BY DEF Uninstall, Install, UpsertSchedule, SyncSchedules, worker
<1>2. next' \in [Schedules -> Nat \cup {Absent}] /\ syncing' \in Times \cup {Absent}
  <2>1. ASSUME NEW s \in Schedules, NEW t \in Times PROVE Cron[s][t] \in Nat
    BY JobsAssumption
  <2>2. CASE \E s \in Schedules : Uninstall(s)
    BY <2>2 DEF Uninstall, IInv, TypeOK
  <2>3. CASE \E s \in Schedules : Install(s)
    BY <2>1, <2>3 DEF Install, IInv, TypeOK
  <2>4. CASE \E s \in Schedules : UpsertSchedule(s)
    BY <2>1, <2>4 DEF UpsertSchedule, IInv, TypeOK
  <2>5. CASE SyncSchedules
    BY <2>5 DEF SyncSchedules, IInv, TypeOK
  <2> QED BY <2>2, <2>3, <2>4, <2>5
<1>3. TypeOK' /\ Carried' /\ Clocks'
  BY <1>1, <1>2 DEF IInv, TypeOK, Carried, Clocks
<1>4. clock \in Nat
  BY DEF IInv, TypeOK, Times
<1>5. Leases'
  BY <1>1, <1>4, LeasesRest
<1> QED BY <1>3, <1>5 DEF IInv, Leases
--------------------------------------------------------------------------------
(* The queue keeps its invariant whatever the workers, the clock, the plugins and the
   automations do. *)
THEOREM Invariance == Spec => []IInv
<1>1. Init => IInv
  BY Start
<1>2. IInv /\ [Next]_vars => IInv'
  <2> SUFFICES ASSUME IInv, [Next]_vars PROVE IInv'
    OBVIOUS
  <2>1. CASE Tick
    BY <2>1, StepTick
  <2>2. CASE \E k \in Keys : Produce(k)
    BY <2>2, StepProduce
  <2>3. ASSUME NEW w \in Workers, Pass(w) PROVE IInv'
    BY <2>3, StepRunOnce, StepAdvance, StepTickSchedules, StepTicked, StepClaim, StepEnd,
       StepComplete, StepFail, StepFailNotFound DEF Pass
  <2>4. ASSUME NEW w \in Workers, Abort(w) PROVE IInv'
    BY <2>4, StepEnd
  <2>5. CASE \/ \E s \in Schedules : Uninstall(s) \/ Install(s) \/ UpsertSchedule(s)
             \/ SyncSchedules
    BY <2>5, StepSchedules
  <2>6. CASE UNCHANGED vars
    <3>1. UNCHANGED <<clock, jobs, dead, next, pc, now, due, job, id, ran, syncing, overran, aborts>>
      BY <2>6 DEF vars
    <3>2. TypeOK' /\ Carried' /\ Clocks'
      BY <3>1 DEF IInv, TypeOK, Carried, Clocks
    <3>3. Leases'
      BY <3>1, LeasesRest DEF IInv, TypeOK, Times
    <3> QED BY <3>2, <3>3 DEF IInv, Leases
  <2> QED BY <2>1, <2>2, <2>3, <2>4, <2>5, <2>6 DEF Next
<1> QED BY <1>1, <1>2, PTL DEF Spec

(* Rows, schedules, leases and the variables of the passes have their types: an attempt is
   always rescheduled at a number, however often the job has failed. *)
THEOREM TypeCorrect == Spec => []TypeOK
<1>1. IInv => TypeOK
  BY DEF IInv
<1> QED BY <1>1, Invariance, PTL

(* Claim's lease excludes: two workers run one row of the queue only if one of them, or
   somebody before them, has gone on past its lease. *)
THEOREM ClaimExcludes == Spec => []ExclusiveUnlessOverrun
<1>1. IInv => ExclusiveUnlessOverrun
  BY DEF IInv
<1> QED BY <1>1, Invariance, PTL

(* Only Fail removes a row, and files it. *)
LEMMA OneRemoval ==
  ASSUME IInv, [Next]_vars, NEW j \in JobIds, jobs[j] # Absent, jobs'[j] = Absent
  PROVE  dead'[j] = dead[j] + 1 /\ jobs[j].tries >= MaxAttempts
<1>1. jobs[j] \in Row /\ ~UNCHANGED jobs
  BY DEF IInv, TypeOK
<1>2. CASE \E k \in Keys : Produce(k)
  BY <1>2, <1>1 DEF Produce, Enqueue, IInv, TypeOK
<1>3. ASSUME NEW w \in Workers, TickSchedules(w) PROVE FALSE
  BY <1>3, <1>1 DEF TickSchedules, Enqueue, IInv, TypeOK
<1>4. ASSUME NEW w \in Workers, NEW i \in JobIds, Claim(w, i) PROVE FALSE
  <2>1. jobs'[j] \in Row
    <3>1. IInv'
      BY <1>4, StepClaim
    <3>2. CASE i = j
      <4>1. jobs'[j] = [status |-> "running", run |-> jobs[j].run, tries |-> jobs[j].tries + 1,
                        until |-> now[w] + LeaseDuration]
        BY <1>4, <3>2 DEF Claim, IInv, TypeOK
      <4>2. jobs[j].tries + 1 \in Nat /\ jobs[j].run \in Nat /\ now[w] + LeaseDuration \in Nat
        BY <1>1, JobsAssumption, SMTT(40) DEF Row, IInv, TypeOK, Times
      <4> QED BY <4>1, <4>2 DEF Row
    <3>3. CASE i # j
      BY <1>1, <1>4, <3>3 DEF Claim, IInv, TypeOK
    <3> QED BY <3>2, <3>3
  <2> QED BY <2>1, JobsAssumption
<1>5. ASSUME NEW w \in Workers, Complete(w) PROVE FALSE
  <2>1. Found(w) /\ job[w] = j
    BY <1>1, <1>5 DEF Complete, IInv, TypeOK
  <2>2. jobs'[j] = [status |-> "done", run |-> jobs[j].run, tries |-> jobs[j].tries, until |-> 0]
    BY <1>5, <2>1 DEF Complete, IInv, TypeOK
  <2>3. jobs'[j] \in Row
    BY <1>1, <2>2 DEF Row
  <2> QED BY <2>3, JobsAssumption
<1>6. ASSUME NEW w \in Workers, Fail(w)
      PROVE  dead'[j] = dead[j] + 1 /\ jobs[j].tries >= MaxAttempts
  <2>1. job[w] = j
    BY <1>1, <1>6 DEF Fail, IInv, TypeOK
  <2>2. jobs[j].tries \in Nat /\ now[w] \in Nat /\ MaxAttempts \in Nat
    BY <1>1, JobsAssumption DEF Row, IInv, TypeOK, Times
  <2>3. CASE jobs[j].tries < MaxAttempts
    <3>1. jobs'[j] = [status |-> "pending", tries |-> jobs[j].tries, until |-> 0,
                      run |-> now[w] + backoff[jobs[j].tries]]
      BY <1>6, <2>1, <2>3 DEF Fail, IInv, TypeOK
    <3>2. jobs'[j] \in Row
      BY <1>1, <2>2, <3>1, BackoffType DEF Row
    <3> QED BY <3>2, JobsAssumption
  <2>4. CASE ~(jobs[j].tries < MaxAttempts)
    BY <1>6, <2>1, <2>2, <2>4 DEF Fail, IInv, TypeOK
  <2> QED BY <2>3, <2>4
<1>7. \/ \E k \in Keys : Produce(k)
      \/ \E w \in Workers : TickSchedules(w) \/ Complete(w) \/ Fail(w)
      \/ \E w \in Workers, i \in JobIds : Claim(w, i)
  BY <1>1 DEF Next, vars, Tick, Pass, RunOnce, advanceSchedule, ticked, passDone, FailNotFound,
              Abort, Uninstall, Install, UpsertSchedule, SyncSchedules
<1> QED BY <1>2, <1>3, <1>4, <1>5, <1>6, <1>7

(* Only Fail removes a row, as a dead letter and after MaxAttempts attempts. *)
THEOREM RemovedOnlyAsDeadLetters == Spec => RemovedAfterMaxAttempts
<1> DEFINE Step == \A j \in JobIds : jobs[j] # Absent /\ jobs'[j] = Absent =>
                     dead'[j] = dead[j] + 1 /\ jobs[j].tries >= MaxAttempts
<1>1. IInv /\ [Next]_vars => [Step]_vars
  BY OneRemoval
<1> QED BY <1>1, Invariance, PTL DEF Spec, RemovedAfterMaxAttempts

(* Where the firings are: each schedule's next one is of an instant, and what fell due for a
   plugin and was not cut short is answered for. *)
FiringInv == owed \subseteq Firing /\ PluginFiringsKept

(* A plugin's firing is taken from its schedule only by the worker that goes on to enqueue it,
   and the job, or the dead letter it ends as, stays. *)
LEMMA FiringStep ==
  ASSUME IInv, IInv', FiringInv, [Next]_vars
  PROVE  FiringInv'
<1>0. TypeOK /\ TypeOK'
  BY DEF IInv
<1>1. CASE UNCHANGED vars
  BY <1>1 DEF vars, FiringInv, PluginFiringsKept, Answered
<1>2. CASE Next
  <2>1. owed' \subseteq owed \cup dueSchedules' /\ cut \subseteq cut'
    BY <1>2 DEF Next, Account
  <2>2. owed' \subseteq Firing /\ \A f \in dueSchedules' : next'[f[1]] = f[2]
    <3>1. dueSchedules' = {<<s, next'[s]>> : s \in {s \in Schedules : next'[s] # Absent /\ next'[s] <= clock'}}
      BY DEF dueSchedules
    <3>2. \A s \in Schedules : next'[s] # Absent /\ next'[s] <= clock' => <<s, next'[s]>> \in Firing
      <4> SUFFICES ASSUME NEW s \in Schedules, next'[s] # Absent, next'[s] <= clock' PROVE next'[s] \in Times
        BY DEF Firing
      <4>1. next'[s] \in Nat /\ clock' \in 0..MaxTime /\ MaxTime \in Nat
        BY <1>0, JobsAssumption DEF TypeOK, Times
      <4> QED BY <4>1 DEF Times
    <3> QED BY <2>1, <3>1, <3>2 DEF FiringInv
  <2>3. ASSUME NEW f \in owed', f[1] \notin Automations, f \notin dueSchedules' PROVE Answered(f)' \/ f \in cut'
    <3>0. f \in owed /\ f \in Firing /\ f[1] \in Schedules \ Automations /\ f \in JobIds /\ f = <<f[1], f[2]>> /\ f[2] # Absent
      BY <2>1, <2>2, <2>3, JobsAssumption DEF Firing, JobIds, Times
    <3>1. CASE f \in cut
      BY <2>1, <3>1
    <3>2. CASE next[f[1]] = f[2]
      <4>1. CASE next'[f[1]] = next[f[1]]
        BY <3>2, <4>1 DEF Answered
      <4>2. CASE next'[f[1]] = Absent
        BY <1>2, <2>3, <3>0, <3>2, <4>2 DEF Next, Account
      <4>3. CASE next'[f[1]] \notin {next[f[1]], Absent}
        <5>1. PICK w \in Workers, g \in Firing : advanceSchedule(w, g)
          <6>1. ~\E r \in Schedules : Uninstall(r) \/ Install(r) \/ UpsertSchedule(r)
            BY <1>0, <3>0, <3>2, <4>3 DEF Uninstall, Install, UpsertSchedule, TypeOK
          <6>2. ~SyncSchedules
            BY <3>0, <4>3 DEF SyncSchedules
          <6> QED BY <1>2, <4>3, <6>1, <6>2 DEF Next, Tick, Produce, Pass, RunOnce, TickSchedules, ticked, Claim,
                     passDone, Complete, Fail, FailNotFound, Abort
        <5>2. /\ next[g[1]] = g[2] /\ next' = [next EXCEPT ![g[1]] = Cron[g[1]][now[w]]]
              /\ job' = [job EXCEPT ![w] = g] /\ pc' = [pc EXCEPT ![w] = "enqueue"]
          BY <4>3, <5>1 DEF advanceSchedule
        <5>3. g = f
          BY <1>0, <3>0, <3>2, <4>3, <5>1, <5>2 DEF TypeOK, Firing
        <5>4. pc'[w] = "enqueue" /\ job'[w] = f
          BY <1>0, <5>2, <5>3 DEF TypeOK
        <5> QED BY <5>4 DEF Answered
      <4> QED BY <4>1, <4>2, <4>3
    <3>3. ASSUME NEW w \in Workers, pc[w] = "enqueue", job[w] = f PROVE Answered(f)' \/ f \in cut'
      <4>1. CASE TickSchedules(w)
        <5>1. jobs'[f] # Absent
          <6>1. [status |-> "pending", run |-> f[2], tries |-> 0, until |-> 0] \in Row
            BY <3>0 DEF Firing, Times, Row
          <6> QED BY <1>0, <3>0, <3>3, <4>1, <6>1, JobsAssumption DEF TickSchedules, Enqueue, TypeOK
        <5> QED BY <5>1 DEF Answered
      <4>2. CASE Abort(w)
        <5>1. pc'[w] = "idle"
          BY <1>0, <4>2 DEF Abort, EndPass, TypeOK
        <5> QED BY <1>2, <3>3, <5>1 DEF Next, Account
      <4>3. CASE ~TickSchedules(w) /\ ~Abort(w)
        <5>1. pc'[w] = pc[w] /\ job'[w] = job[w]
          <6>1. CASE \E v \in Workers : Pass(v) \/ Abort(v)
            <7>1. PICK v \in Workers : Pass(v) \/ Abort(v)
              BY <6>1
            <7>2. v # w
              BY <3>3, <4>3, <7>1 DEF Pass, RunOnce, advanceSchedule, ticked, Claim, passDone, Complete, Fail,
                 FailNotFound, Finish
            <7>3. (\E x : pc' = [pc EXCEPT ![v] = x]) \/ pc' = pc
              BY <7>1 DEF Pass, RunOnce, advanceSchedule, TickSchedules, ticked, Claim, passDone, Complete, Fail,
                 FailNotFound, Abort, EndPass, NextJob
            <7>4. (\E x : job' = [job EXCEPT ![v] = x]) \/ job' = job
              BY <7>1 DEF Pass, RunOnce, advanceSchedule, TickSchedules, ticked, Claim, passDone, Complete, Fail,
                 FailNotFound, Abort, EndPass, NextJob
            <7> QED BY <1>0, <7>2, <7>3, <7>4 DEF TypeOK
          <6>2. CASE ~\E v \in Workers : Pass(v) \/ Abort(v)
            BY <1>2, <6>2 DEF Next, Tick, Produce, Uninstall, Install, UpsertSchedule, SyncSchedules, worker
          <6> QED BY <6>1, <6>2
        <5> QED BY <3>3, <5>1 DEF Answered
      <4> QED BY <4>1, <4>2, <4>3
    <3>4. CASE jobs[f] # Absent
      <4>1. CASE jobs'[f] # Absent
        BY <4>1 DEF Answered
      <4>2. CASE jobs'[f] = Absent
        <5>1. dead'[f] = dead[f] + 1
          BY <1>2, <3>0, <3>4, <4>2, OneRemoval
        <5>2. dead[f] \in Nat
          BY <1>0, <3>0 DEF TypeOK
        <5> QED BY <5>1, <5>2 DEF Answered
      <4> QED BY <4>1, <4>2
    <3>5. CASE dead[f] > 0
      <4>1. dead'[f] >= dead[f] /\ dead[f] \in Nat /\ dead'[f] \in Nat
        <5>1. dead[f] \in Nat
          BY <1>0, <3>0 DEF TypeOK
        <5>2. dead' = dead \/ \E j \in JobIds : dead' = [dead EXCEPT ![j] = dead[j] + 1]
          <6>1. CASE \E v \in Workers : Fail(v)
            BY <1>0, <6>1 DEF Fail, Finish, Found, TypeOK
          <6>2. CASE ~\E v \in Workers : Fail(v)
            BY <1>2, <6>2 DEF Next, Tick, Produce, Pass, RunOnce, advanceSchedule, TickSchedules, ticked, Claim, passDone,
               Complete, FailNotFound, Abort, Uninstall, Install, UpsertSchedule, SyncSchedules
          <6> QED BY <6>1, <6>2
        <5>3. dead'[f] = dead[f] \/ dead'[f] = dead[f] + 1
          BY <1>0, <3>0, <5>2 DEF TypeOK
        <5> QED BY <5>1, <5>3
      <4> QED BY <3>5, <4>1 DEF Answered
    <3> QED BY <2>3, <3>0, <3>1, <3>2, <3>3, <3>4, <3>5 DEF FiringInv, PluginFiringsKept, Answered
  <2>4. ASSUME NEW f \in dueSchedules' PROVE Answered(f)'
    BY <2>2, <2>4 DEF Answered
  <2> QED BY <2>2, <2>3, <2>4 DEF FiringInv, PluginFiringsKept
<1> QED BY <1>1, <1>2

(* A plugin's firing that fell due stands on its schedule, is in the hand of the worker that is
   about to enqueue it, or is in the queue or among the dead letters, unless its plugin went or
   the pass was cut short right between the two transactions of TickSchedules. *)
THEOREM PluginFiringsAreKept == Spec => []PluginFiringsKept
<1>1. Init => FiringInv
  BY DEF Init, FiringInv, PluginFiringsKept
<1>2. IInv /\ IInv' /\ FiringInv /\ [Next]_vars => FiringInv'
  BY FiringStep
<1>3. FiringInv => PluginFiringsKept
  BY DEF FiringInv
<1> QED BY <1>1, <1>2, <1>3, Invariance, PTL DEF Spec
================================================================================
