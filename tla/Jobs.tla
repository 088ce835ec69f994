---------------------------------- MODULE Jobs ----------------------------------
(****************************************************************************)
(* kernel/jobs: the durable job queue, one tenant of it. Nodes run passes   *)
(* (RunOnce): tick the schedules, then claim and run due jobs. A claim is a *)
(* lease, so a worker that dies is replaced when its lease expires, and two *)
(* workers may run one job.                                                 *)
(*                                                                          *)
(* Time is a clock every node reads alike. A pass reads it once, at its     *)
(* start, and uses that value for every claim, retry and firing it handles. *)
(* Each action is one database transaction; the handler of a job runs       *)
(* between Claim and Complete or Fail.                                      *)
(****************************************************************************)
EXTENDS Integers

CONSTANTS
  Workers,       \* nodes running jobs.Start
  Keys,          \* dedupe keys of the jobs that hooks and automations enqueue; a job
                 \* without one counts as a key of its own
  Schedules,     \* rows of job_schedules
  Automations,   \* those owned by automations; the others belong to plugins
  Cron,          \* Cron[s][t]: the first firing of s after t
  LeaseDuration, MaxAttempts, retryBase, retryMax, MaxPerPass,
  MaxDelay,      \* bound: the delay a plugin asks for
  MaxTime,       \* bound: the clock
  MaxAborts,     \* bound: passes cut short
  Absent         \* no row

Times == 0..MaxTime

\* locked_until_us is 0 for NULL: both are in the past.
Row == [status : {"pending", "running", "done"}, run : Nat, tries : Nat, until : Nat]

ASSUME JobsAssumption ==
  /\ Automations \subseteq Schedules
  /\ LeaseDuration \in Nat \ {0} /\ MaxAttempts \in Nat \ {0} /\ MaxPerPass \in Nat
  /\ retryBase \in Nat /\ retryMax \in Nat /\ retryBase <= retryMax
  /\ MaxDelay \in Nat /\ MaxTime \in Nat /\ MaxAborts \in Nat
  /\ Cron \in [Schedules -> [Times -> Nat]]
  /\ \A s \in Schedules, t \in Times : Cron[s][t] > t
  /\ Absent \notin Nat /\ Absent \notin Row

VARIABLES
  clock,
  jobs,      \* jobs[j]: the row of job j, or Absent
  dead,      \* dead[j]: job_dead_letters filed for j
  next,      \* next[s]: next_run_at_us of schedule s, or Absent
  pc,        \* pc[w]: where worker w's pass is
  now,       \* now[w]: the clock when the pass began
  due,       \* due[w]: schedules the pass found due, with the firing it read
  job,       \* job[w]: the firing being enqueued, or the job being run
  id,        \* id[w]: which row of that job it is, as a job may be enqueued anew
  ran,       \* ran[w]: jobs this pass has run
  syncing,   \* the clock of a running automations.SyncSchedules, or Absent
  overran,   \* history: somebody ran a job past the lease it was given
  aborts,    \* passes cut short so far
  owed,      \* history: firings that fell due, but for those removed with their plugin
  cut        \* history: firings whose pass was cut short before it had enqueued them

vars == <<clock, jobs, dead, next, pc, now, due, job, id, ran, syncing, overran, aborts, owed, cut>>
worker == <<pc, now, due, job, id, ran>>

Firing == Schedules \X Times
JobIds == Keys \cup Firing         \* a firing's dedupe key is schedule@instant

TypeOK ==
  /\ clock \in Times
  /\ jobs \in [JobIds -> Row \cup {Absent}]
  /\ dead \in [JobIds -> Nat]
  /\ next \in [Schedules -> Nat \cup {Absent}]
  /\ pc \in [Workers -> {"idle", "tick", "enqueue", "claim", "run"}]
  /\ now \in [Workers -> Times]
  /\ due \in [Workers -> SUBSET Firing]
  /\ job \in [Workers -> JobIds \cup {Absent}]
  /\ id \in [Workers -> Nat]
  /\ ran \in [Workers -> 0..MaxPerPass]
  /\ syncing \in Times \cup {Absent}
  /\ overran \in BOOLEAN
  /\ aborts \in 0..MaxAborts

Init ==
  /\ clock = 0
  /\ jobs = [j \in JobIds |-> Absent]
  /\ dead = [j \in JobIds |-> 0]
  /\ next = [s \in Schedules |-> Cron[s][0]]
  /\ pc = [w \in Workers |-> "idle"]
  /\ now = [w \in Workers |-> 0]
  /\ due = [w \in Workers |-> {}]
  /\ job = [w \in Workers |-> Absent]
  /\ id = [w \in Workers |-> 0]
  /\ ran = [w \in Workers |-> 0]
  /\ syncing = Absent
  /\ overran = FALSE
  /\ aborts = 0
  /\ owed = {} /\ cut = {}
--------------------------------------------------------------------------------
(* The queue. *)

Tick ==
  /\ clock < MaxTime
  /\ clock' = clock + 1
  /\ UNCHANGED <<jobs, dead, next, worker, syncing, overran, aborts>>

\* SELECT by dedupe key, INSERT when there is none. Of two racing inserts the
\* unique index lets one in; the other leaves nothing behind but an error.
Enqueue(j, at) ==
  jobs' = IF jobs[j] = Absent
            THEN [jobs EXCEPT ![j] = [status |-> "pending", run |-> at, tries |-> 0, until |-> 0]]
            ELSE jobs

\* A plugin's enqueue_job, with a delay of its choice, or an automation's webhook or
\* call_plugin action. With a row of that key in the queue nothing changes.
Produce(k) ==
  /\ jobs[k] = Absent
  /\ \E delay \in 0..MaxDelay : Enqueue(k, clock + delay)
  /\ UNCHANGED <<clock, dead, next, worker, syncing, overran, aborts>>

\* Mutant: the lease is not looked at, every unfinished job may be taken.
claimableAnyone(j, t) ==
  /\ jobs[j] # Absent
  /\ jobs[j].run <= t
  /\ jobs[j].status # "done"

claimable(j, t) ==
  /\ jobs[j] # Absent
  /\ jobs[j].run <= t
  /\ jobs[j].status # "done"
  /\ jobs[j].status = "pending" \/ jobs[j].until <= t

First(j, t) == claimable(j, t) /\ \A i \in JobIds : claimable(i, t) => jobs[j].run <= jobs[i].run

\* Claim: one UPDATE takes the first claimable row and leases it.
Claim(w, j) ==
  /\ pc[w] = "claim" /\ ran[w] < MaxPerPass
  /\ First(j, now[w])
  /\ jobs' = [jobs EXCEPT ![j] = [status |-> "running", run |-> @.run, tries |-> @.tries + 1,
                                  until |-> now[w] + LeaseDuration]]
  /\ job' = [job EXCEPT ![w] = j] /\ id' = [id EXCEPT ![w] = dead[j]]
  /\ pc' = [pc EXCEPT ![w] = "run"]
  /\ UNCHANGED <<clock, dead, next, now, due, ran, syncing, overran, aborts>>

\* The pass returns; its variables are gone.
EndPass(w) ==
  /\ pc' = [pc EXCEPT ![w] = "idle"] /\ now' = [now EXCEPT ![w] = 0]
  /\ due' = [due EXCEPT ![w] = {}] /\ job' = [job EXCEPT ![w] = Absent]
  /\ id' = [id EXCEPT ![w] = 0] /\ ran' = [ran EXCEPT ![w] = 0]

\* Nothing to claim, or MaxPerPass jobs run.
passDone(w) ==
  /\ pc[w] = "claim"
  /\ ran[w] = MaxPerPass \/ \A j \in JobIds : ~claimable(j, now[w])
  /\ EndPass(w)
  /\ UNCHANGED <<clock, jobs, dead, next, syncing, overran, aborts>>

NextJob(w) ==
  /\ pc' = [pc EXCEPT ![w] = "claim"]
  /\ job' = [job EXCEPT ![w] = Absent] /\ id' = [id EXCEPT ![w] = 0]
  /\ ran' = [ran EXCEPT ![w] = @ + 1]

\* The row the worker claimed is still in the queue. Its key may have been filed and
\* enqueued again since, under a new id.
Found(w) == jobs[job[w]] # Absent /\ dead[job[w]] = id[w]

\* The worker is done with its job; was its lease still good?
Overrun(w) == clock >= now[w] + LeaseDuration
Finish(w) == pc[w] = "run" /\ overran' = (overran \/ Overrun(w))

\* The handler succeeded. The row is found by its id, whoever holds it by now.
Complete(w) ==
  /\ Finish(w)
  /\ jobs' = IF Found(w)
               THEN [jobs EXCEPT ![job[w]] = [status |-> "done", run |-> @.run, tries |-> @.tries,
                                              until |-> 0]]
               ELSE jobs
  /\ NextJob(w)
  /\ UNCHANGED <<clock, dead, next, now, due, syncing, aborts>>

\* retryBase, doubled for each attempt after the first, up to retryMax.
backoff[n \in Nat] ==
  IF n <= 1 THEN retryBase
            ELSE IF 2 * backoff[n - 1] >= retryMax THEN retryMax ELSE 2 * backoff[n - 1]

\* Mutant: the attempt that is being filed is counted twice.
FailEarly(w) ==
  /\ Finish(w)
  /\ Found(w)
  /\ IF jobs[job[w]].tries + 1 < MaxAttempts
       THEN /\ jobs' = [jobs EXCEPT ![job[w]] = [status |-> "pending", tries |-> @.tries, until |-> 0,
                                                 run |-> now[w] + backoff[@.tries]]]
            /\ UNCHANGED dead
       ELSE /\ jobs' = [jobs EXCEPT ![job[w]] = Absent]
            /\ dead' = [dead EXCEPT ![job[w]] = @ + 1]
  /\ NextJob(w)
  /\ UNCHANGED <<clock, next, now, due, syncing, aborts>>

\* The handler failed, panicked, or the kind is unknown: back into the queue, or
\* filed as a dead letter and removed.
Fail(w) ==
  /\ Finish(w)
  /\ Found(w)
  /\ IF jobs[job[w]].tries < MaxAttempts
       THEN /\ jobs' = [jobs EXCEPT ![job[w]] = [status |-> "pending", tries |-> @.tries, until |-> 0,
                                                 run |-> now[w] + backoff[@.tries]]]
            /\ UNCHANGED dead
       ELSE /\ jobs' = [jobs EXCEPT ![job[w]] = Absent]
            /\ dead' = [dead EXCEPT ![job[w]] = @ + 1]
  /\ NextJob(w)
  /\ UNCHANGED <<clock, next, now, due, syncing, aborts>>

\* The failed job's row is gone (ErrNotFound), which ends the pass.
FailNotFound(w) ==
  /\ Finish(w)
  /\ ~Found(w)
  /\ EndPass(w)
  /\ UNCHANGED <<clock, jobs, dead, next, syncing, aborts>>
--------------------------------------------------------------------------------
(* Schedules. *)

dueSchedules == {<<s, next[s]>> : s \in {s \in Schedules : next[s] # Absent /\ next[s] <= clock}}

\* A pass begins: the clock and the schedules due at it.
RunOnce(w) ==
  /\ pc[w] = "idle"
  /\ now' = [now EXCEPT ![w] = clock]
  /\ due' = [due EXCEPT ![w] = dueSchedules]
  /\ pc' = [pc EXCEPT ![w] = "tick"]
  /\ UNCHANGED <<clock, jobs, dead, next, job, id, ran, syncing, overran, aborts>>

\* Mutant: the advance does not compare.
advanceScheduleBlind(w, f) ==
  /\ pc[w] = "tick" /\ f \in due[w]
  /\ due' = [due EXCEPT ![w] = @ \ {f}]
  /\ next' = [next EXCEPT ![f[1]] = Cron[f[1]][now[w]]]
  /\ job' = [job EXCEPT ![w] = f]
  /\ pc' = [pc EXCEPT ![w] = "enqueue"]
  /\ UNCHANGED <<clock, jobs, dead, now, id, ran, syncing, overran, aborts>>

\* Compare-and-set on the firing that was read: the winner goes on to enqueue it.
advanceSchedule(w, f) ==
  /\ pc[w] = "tick" /\ f \in due[w]
  /\ due' = [due EXCEPT ![w] = @ \ {f}]
  /\ IF next[f[1]] = f[2]
       THEN /\ next' = [next EXCEPT ![f[1]] = Cron[f[1]][now[w]]]
            /\ job' = [job EXCEPT ![w] = f]
            /\ pc' = [pc EXCEPT ![w] = "enqueue"]
       ELSE UNCHANGED <<next, job, pc>>
  /\ UNCHANGED <<clock, jobs, dead, now, id, ran, syncing, overran, aborts>>

TickSchedules(w) ==
  /\ pc[w] = "enqueue"
  /\ Enqueue(job[w], job[w][2])
  /\ job' = [job EXCEPT ![w] = Absent]
  /\ pc' = [pc EXCEPT ![w] = "tick"]
  /\ UNCHANGED <<clock, dead, next, now, due, id, ran, syncing, overran, aborts>>

ticked(w) ==
  /\ pc[w] = "tick" /\ due[w] = {}
  /\ pc' = [pc EXCEPT ![w] = "claim"]
  /\ UNCHANGED <<clock, jobs, dead, next, now, due, job, id, ran, syncing, overran, aborts>>

\* The process dies or shuts down, or a statement fails: the pass is over.
Abort(w) ==
  /\ pc[w] # "idle"
  /\ aborts < MaxAborts /\ aborts' = aborts + 1
  /\ EndPass(w)
  /\ UNCHANGED <<clock, jobs, dead, next, syncing, overran>>

\* DeleteSchedulesByOwner and UpsertSchedule, as a plugin is removed or installed.
Uninstall(s) ==
  /\ s \notin Automations
  /\ next[s] # Absent
  /\ next' = [next EXCEPT ![s] = Absent]
  /\ UNCHANGED <<clock, jobs, dead, worker, syncing, overran, aborts>>

Install(s) ==
  /\ s \notin Automations
  /\ next[s] = Absent
  /\ next' = [next EXCEPT ![s] = Cron[s][clock]]
  /\ UNCHANGED <<clock, jobs, dead, worker, syncing, overran, aborts>>

\* automations.SyncSchedules, on every tick of the automation runner: read the
\* clock and the definitions, delete the schedules of all automations, and put
\* each back with its next firing after that clock.
SyncSchedules ==
  /\ Automations # {}
  /\ syncing = Absent /\ syncing' = clock
  /\ next' = [s \in Schedules |-> IF s \in Automations THEN Absent ELSE next[s]]
  /\ UNCHANGED <<clock, jobs, dead, worker, overran, aborts>>

UpsertSchedule(s) ==
  /\ s \in Automations
  /\ syncing # Absent /\ next[s] = Absent
  /\ next' = [next EXCEPT ![s] = Cron[s][syncing]]
  /\ syncing' = IF \A r \in Automations \ {s} : next[r] # Absent THEN Absent ELSE syncing
  /\ UNCHANGED <<clock, jobs, dead, worker, overran, aborts>>
--------------------------------------------------------------------------------
Pass(w) ==
  \/ RunOnce(w) \/ (\E f \in Firing : advanceSchedule(w, f)) \/ TickSchedules(w) \/ ticked(w)
  \/ (\E j \in JobIds : Claim(w, j)) \/ passDone(w)
  \/ Complete(w) \/ Fail(w) \/ FailNotFound(w)

\* What became due, what a plugin took with it, what a pass had in hand when it ended.
Account ==
  /\ owed' = (owed \ {<<s, next[s]>> : s \in {s \in Schedules \ Automations : next'[s] = Absent}})
             \cup dueSchedules'
  /\ cut' = cut \cup {job[w] : w \in {w \in Workers : pc[w] = "enqueue" /\ pc'[w] = "idle"}}

Next ==
  /\ \/ Tick
     \/ \E k \in Keys : Produce(k)
     \/ \E w \in Workers : Pass(w) \/ Abort(w)
     \/ \E s \in Schedules : Uninstall(s) \/ Install(s) \/ UpsertSchedule(s)
     \/ SyncSchedules
  /\ Account

Spec == Init /\ [][Next]_vars
--------------------------------------------------------------------------------
\* A claim excludes every other worker: two workers run one job only if one of
\* them, or an earlier one, went on past the lease it was given. Then and only
\* then may a late Complete or Fail, which name the row by id, free somebody
\* else's claim.
ExclusiveUnlessOverrun ==
  \A v, w \in Workers :
    v # w /\ pc[v] = "run" /\ pc[w] = "run" /\ job[v] = job[w] /\ id[v] = id[w]
      => overran \/ Overrun(v) \/ Overrun(w)

\* A job leaves the queue unfinished only as a dead letter and only when it has been
\* tried MaxAttempts times, counting the attempts that ended in a crash.
RemovedAfterMaxAttempts ==
  [][\A j \in JobIds : jobs[j] # Absent /\ jobs'[j] = Absent =>
       dead'[j] = dead[j] + 1 /\ jobs[j].tries >= MaxAttempts]_vars

\* A firing that fell due is not passed over: its schedule still stands at it, or the
\* worker that moved the schedule on is about to enqueue it, or it has become a job.
Answered(f) ==
  \/ next[f[1]] = f[2]
  \/ \E w \in Workers : pc[w] = "enqueue" /\ job[w] = f
  \/ jobs[f] # Absent \/ dead[f] > 0

\* A plugin's firing is passed over only by a pass that is cut short between the two
\* transactions, the schedule moved on and the job not enqueued.
PluginFiringsKept == \A f \in owed : f[1] \notin Automations => Answered(f) \/ f \in cut

\* "A missed window fires once", whoever owns the schedule.
MissedWindowFires == \A f \in owed : Answered(f)
================================================================================
