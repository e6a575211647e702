------------------------------ MODULE JobQueue ------------------------------
(***************************************************************************)
(* The durable job queue (storage/sqlite/jobs.go), the workers that drain  *)
(* it (worker/worker.go) and the maintenance loop that keeps a session     *)
(* sweep in it (worker/handlers.go).  Every statement on the jobs table is *)
(* atomic; everything between two statements of a worker may interleave    *)
(* with the other workers, with a crash or with an orderly shutdown.       *)
(*                                                                         *)
(* Times are kept relative to the clock: due is run_after - now and age is *)
(* now - locked_at, which is only ever compared with the lease and so is   *)
(* kept up to it.  A tick is at least a second: the order of stored texts  *)
(* errs within one second only (module Timestamps).  All the processes run *)
(* the same code on the same database; Workers is the set of their slots.  *)
(***************************************************************************)
EXTENDS Integers, Sequences, FiniteSets

CONSTANTS
  Workers,         \* process slots, each with its own worker id
  NoWorker,        \* the empty locked_by
  Kinds,           \* what a job is about: the sweep, or a section to promote
  Sweep,           \* the kind of the session sweep
  MaxAttempts,     \* MaxJobAttempts
  Lease,           \* worker lease, in ticks
  BackoffBase, BackoffMax,   \* retry schedule, in ticks
  SweepInterval,   \* delay of a maintenance sweep, in ticks
  MaxJobs,         \* bound: rows ever enqueued
  MaxEvents,       \* bound: rows ever enqueued plus faults
  MaxOverdue,      \* bound: time stands still while a job is this overdue
  MaxFaults,       \* bound: faults of any sort
  FaultSorts,      \* the sorts of faults that happen
  HandlersFail     \* whether a handler may return an error

ASSUME WorkersAssumption ==
  IsFiniteSet(Workers) /\ NoWorker \notin Workers /\ Sweep \in Kinds

ASSUME ScheduleAssumption ==
  /\ MaxAttempts \in Nat \ {0} /\ Lease \in Nat \ {0}
  /\ BackoffBase \in Nat \ {0} /\ BackoffMax \in Nat /\ BackoffBase <= BackoffMax
  /\ SweepInterval \in Nat

ASSUME BoundsAssumption ==
  /\ MaxJobs \in Nat /\ MaxEvents \in Nat /\ MaxOverdue \in Nat
  /\ MaxFaults \in Nat /\ FaultSorts \subseteq {"crashes", "shutdowns", "dbErrors", "overruns"}
  /\ HandlersFail \in BOOLEAN

VARIABLES
  jobs,      \* rows in id order: [kind, state, attempts, due, age, lockedBy]
  workers,   \* [Workers -> [phase, job, attempts, cancelled]]
  planner,   \* [Workers -> whether maintenance decided to enqueue a sweep]
  completed, \* history: the jobs some handler has carried out
  failures,  \* the job.failed audit entries, as a sequence of job ids
  faults     \* [crashes, shutdowns, dbErrors, overruns] so far

vars == <<jobs, workers, planner, completed, failures, faults>>

JobStates == {"queued", "running", "succeeded", "permanently_failed"}
Terminal(state) == state \in {"succeeded", "permanently_failed"}

\* A worker is down, idle between iterations, in a handler, about to record
\* what the handler returned, or about to audit a permanent failure.
Phases == {"down", "idle", "handling", "ok", "error", "interrupted", "auditing"}

JobIds == DOMAIN jobs

\* Mutant: off by one, the last attempt is never made.
BudgetExhaustedEarly(attempts) == attempts >= MaxAttempts - 1

\* Mutant: off by one, one attempt too many.
BudgetExhaustedLate(attempts) == attempts > MaxAttempts

\* The worker's copy of the row it claimed: job.Attempts >= limit.
BudgetExhausted(attempts) == attempts >= MaxAttempts

\* Exponential, capped.
Backoff(attempt) ==
  LET scaled == BackoffBase * 2^(IF attempt - 1 > 16 THEN 16 ELSE attempt - 1)
  IN IF scaled > BackoffMax THEN BackoffMax ELSE scaled

Down == [phase |-> "down", job |-> 0, attempts |-> 0, cancelled |-> FALSE]
Idle == [phase |-> "idle", job |-> 0, attempts |-> 0, cancelled |-> FALSE]

Init ==
  /\ jobs = <<>>
  /\ workers = [w \in Workers |-> Down]
  /\ planner = [w \in Workers |-> FALSE]
  /\ completed = {}
  /\ failures = <<>>
  /\ faults = [crashes |-> 0, shutdowns |-> 0, dbErrors |-> 0, overruns |-> 0]
-----------------------------------------------------------------------------
Interruptions == faults.crashes + faults.shutdowns + faults.dbErrors

\* Bound: n more enqueued rows or faults.
RoomFor(n) == Len(jobs) + Interruptions + faults.overruns + n <= MaxEvents

\* n faults of a sort happen.
Fault(sort, n) ==
  /\ sort \in FaultSorts /\ RoomFor(n)
  /\ Interruptions + faults.overruns + n <= MaxFaults
  /\ faults' = [faults EXCEPT ![sort] = @ + n]

(* The statements on the jobs table. *)

\* Mutant: the state of a new row is not defaulted.
EnqueueJobStateless(kind, due) ==
  /\ Len(jobs) < MaxJobs /\ RoomFor(1)
  /\ jobs' = Append(jobs, [kind |-> kind, state |-> "", attempts |-> 0,
                           due |-> due, age |-> 0, lockedBy |-> NoWorker])

EnqueueJob(kind, due) ==
  /\ Len(jobs) < MaxJobs /\ RoomFor(1)
  /\ jobs' = Append(jobs, [kind |-> kind, state |-> "queued", attempts |-> 0,
                           due |-> due, age |-> 0, lockedBy |-> NoWorker])

\* Mutant: every row that nobody has locked.
ReadyUnlocked == {j \in JobIds : jobs[j].lockedBy = NoWorker /\ jobs[j].due <= 0}

Ready == {j \in JobIds : jobs[j].state = "queued" /\ jobs[j].due <= 0}

\* ORDER BY run_after, id.
NextJob ==
  CHOOSE j \in Ready : \A k \in Ready :
    jobs[j].due < jobs[k].due \/ (jobs[j].due = jobs[k].due /\ j <= k)

\* Mutant: the state predicate is missing.
FinishJobBlindly(j, state, due) ==
  jobs' = [jobs EXCEPT ![j].state = state, ![j].due = due, ![j].age = 0,
                       ![j].lockedBy = NoWorker]

\* The release common to the Mark statements; it asks that the job is running,
\* not that this worker holds it.
FinishJob(j, state, due) ==
  /\ jobs[j].state = "running"
  /\ jobs' = [jobs EXCEPT ![j].state = state, ![j].due = due, ![j].age = 0,
                          ![j].lockedBy = NoWorker]

MarkJobSucceeded(j) == FinishJob(j, "succeeded", 0)

\* Mutant: a retried job waits in a state of its own.
MarkJobRetryParked(j, due) == FinishJob(j, "retrying", due)

\* Mutant: the retry gives up the lock but not the running state.
MarkJobRetryRunning(j, due) == FinishJob(j, "running", due)

MarkJobRetry(j, due) == FinishJob(j, "queued", due)
MarkJobPermanentlyFailed(j) == FinishJob(j, "permanently_failed", 0)

\* Mutant: off by one tick.
StaleEarly(j) == jobs[j].state = "running" /\ jobs[j].age >= Lease - 1

\* locked_at <= now - lease
Stale(j) == jobs[j].state = "running" /\ jobs[j].age >= Lease

RequeueStaleJobs ==
  jobs' = [j \in JobIds |->
             IF Stale(j)
             THEN [jobs[j] EXCEPT !.state = "queued", !.due = 0, !.age = 0, !.lockedBy = NoWorker]
             ELSE jobs[j]]
-----------------------------------------------------------------------------
(* The worker. *)

\* The process starts: RecoverStaleJobs, then the polling loop.
Start(w) ==
  /\ workers[w].phase = "down"
  /\ RequeueStaleJobs
  /\ workers' = [workers EXCEPT ![w] = Idle]
  /\ UNCHANGED <<planner, completed, failures, faults>>

\* RunOnce up to the handler: ClaimNextJob leases the oldest ready job (whose
\* run_after nobody reads again before it is overwritten).
Claim(w) ==
  /\ workers[w].phase = "idle" /\ ~workers[w].cancelled
  /\ Ready # {}
  /\ jobs' = [jobs EXCEPT ![NextJob].state = "running", ![NextJob].attempts = @ + 1,
                          ![NextJob].due = 0, ![NextJob].lockedBy = w]
  /\ workers' = [workers EXCEPT ![w].phase = "handling", ![w].job = NextJob,
                                ![w].attempts = jobs[NextJob].attempts + 1]
  /\ UNCHANGED <<planner, completed, failures, faults>>

\* The handler commits its effect and returns nil, fails, or notices that the
\* context is cancelled.
HandlerReturns(w, outcome) ==
  /\ workers[w].phase = "handling"
  /\ outcome = "error" => HandlersFail
  /\ outcome = "interrupted" => workers[w].cancelled
  /\ workers' = [workers EXCEPT ![w].phase = outcome]
  /\ completed' = IF outcome = "ok" THEN completed \cup {workers[w].job} ELSE completed
  /\ UNCHANGED <<jobs, planner, failures, faults>>

\* RunOnce after the handler, when the statement reaches the database: under a
\* live context, or after an interruption, whose release ignores cancellation.
\* A job that is no longer running is left alone and the iteration only logs.
\* An interrupted worker returns from Run.
RecordOutcome(w) ==
  LET j == workers[w].job
      exhausted == workers[w].phase = "error" /\ BudgetExhausted(workers[w].attempts)
  IN
  /\ \/ workers[w].phase = "ok" /\ ~workers[w].cancelled /\ MarkJobSucceeded(j)
     \/ workers[w].phase = "interrupted" /\ MarkJobRetry(j, 0)
     \/ /\ workers[w].phase = "error" /\ ~workers[w].cancelled
        /\ IF exhausted THEN MarkJobPermanentlyFailed(j)
                        ELSE MarkJobRetry(j, Backoff(workers[w].attempts))
  /\ workers' = [workers EXCEPT ![w] =
       CASE workers[w].phase = "interrupted" -> Down
         [] exhausted -> [@ EXCEPT !.phase = "auditing"]
         [] OTHER -> Idle]
  /\ UNCHANGED <<planner, completed, failures, faults>>

\* RunOnce after the handler, when the job is no longer running: finishJob
\* reports a conflict, which an interrupted worker returns and others log.
OutcomeRefused(w) ==
  /\ workers[w].phase \in {"ok", "error", "interrupted"}
  /\ workers[w].cancelled => workers[w].phase = "interrupted"
  /\ jobs[workers[w].job].state # "running"
  /\ workers' = [workers EXCEPT ![w] =
       IF @.cancelled THEN Down ELSE Idle]
  /\ UNCHANGED <<jobs, planner, completed, failures, faults>>

\* The outcome cannot be recorded because the context is already cancelled:
\* Run returns and the row is left as it is.
OutcomeCancelled(w) ==
  /\ workers[w].phase \in {"ok", "error", "auditing"} /\ workers[w].cancelled
  /\ workers' = [workers EXCEPT ![w] = Down]
  /\ UNCHANGED <<jobs, planner, completed, failures, faults>>

\* The outcome cannot be recorded because the database refuses the statement:
\* an interrupted worker returns, any other logs the error and loops on.
OutcomeLost(w) ==
  /\ Fault("dbErrors", 1)
  /\ \/ workers[w].phase \in {"ok", "error", "auditing"} /\ ~workers[w].cancelled
     \/ workers[w].phase = "interrupted"
  /\ workers' = [workers EXCEPT ![w] =
       IF @.cancelled THEN Down ELSE Idle]
  /\ UNCHANGED <<jobs, planner, completed, failures>>

\* recordPermanentFailure, in a transaction of its own.
AuditFailure(w) ==
  /\ workers[w].phase = "auditing" /\ ~workers[w].cancelled
  /\ failures' = Append(failures, workers[w].job)
  /\ workers' = [workers EXCEPT ![w] = Idle]
  /\ UNCHANGED <<jobs, planner, completed, faults>>

\* The process context is cancelled (SIGTERM); an idle worker then leaves Run.
Shutdown(w) ==
  /\ Fault("shutdowns", 1)
  /\ workers[w].phase # "down" /\ ~workers[w].cancelled
  /\ workers' = [workers EXCEPT ![w].cancelled = TRUE]
  /\ planner' = [planner EXCEPT ![w] = FALSE]
  /\ UNCHANGED <<jobs, completed, failures>>

Exit(w) ==
  /\ workers[w].phase = "idle" /\ workers[w].cancelled
  /\ workers' = [workers EXCEPT ![w] = Down]
  /\ UNCHANGED <<jobs, planner, completed, failures, faults>>

\* The process dies between any two statements.
Crash(w) ==
  /\ Fault("crashes", 1)
  /\ workers[w].phase # "down"
  /\ workers' = [workers EXCEPT ![w] = Down]
  /\ planner' = [planner EXCEPT ![w] = FALSE]
  /\ UNCHANGED <<jobs, completed, failures>>
-----------------------------------------------------------------------------
(* Maintenance: EnsureSessionSweep counts, and then enqueues. *)

Queued == {j \in JobIds : jobs[j].state = "queued"}

\* CountJobsByState(queued), of every kind.
CountQueued(w) ==
  /\ workers[w].phase # "down" /\ ~workers[w].cancelled /\ ~planner[w]
  /\ Queued = {}
  /\ planner' = [planner EXCEPT ![w] = TRUE]
  /\ UNCHANGED <<jobs, workers, completed, failures, faults>>

EnqueueSweep(w) ==
  /\ planner[w]
  /\ EnqueueJob(Sweep, SweepInterval)
  /\ planner' = [planner EXCEPT ![w] = FALSE]
  /\ UNCHANGED <<workers, completed, failures, faults>>

\* A request enqueues work that is due at once (EnrollmentService.Drop).
EnqueueWork(kind) ==
  /\ EnqueueJob(kind, 0)
  /\ UNCHANGED <<workers, planner, completed, failures, faults>>

\* Claim made, outcome not recorded yet.
InIteration(w) == workers[w].phase \in {"handling", "ok", "error", "interrupted"}

\* The next tick is the one with which worker w outlives its lease.
Overrunning ==
  {w \in Workers : /\ InIteration(w)
                   /\ jobs[workers[w].job].lockedBy = w /\ jobs[workers[w].job].age = Lease - 1}

\* Time passes.  A worker that has not recorded its outcome when the lease ends
\* is a fault too: any restart may now hand its job to another worker.
Tick ==
  /\ \A j \in Ready : -jobs[j].due < MaxOverdue
  /\ IF Overrunning = {} THEN UNCHANGED faults ELSE Fault("overruns", Cardinality(Overrunning))
  /\ jobs' = [j \in JobIds |->
       CASE jobs[j].state = "queued"  -> [jobs[j] EXCEPT !.due = @ - 1]
         [] jobs[j].state = "running" -> [jobs[j] EXCEPT !.age = IF @ < Lease THEN @ + 1 ELSE @]
         [] OTHER -> jobs[j]]
  /\ UNCHANGED <<workers, planner, completed, failures>>

WorkerStep(w) ==
  \/ Start(w)
  \/ Claim(w)
  \/ \E outcome \in {"ok", "error", "interrupted"} : HandlerReturns(w, outcome)
  \/ RecordOutcome(w)
  \/ OutcomeRefused(w)
  \/ OutcomeCancelled(w)
  \/ AuditFailure(w)
  \/ Exit(w)

Next ==
  \/ \E w \in Workers : \/ WorkerStep(w) \/ OutcomeLost(w)
                        \/ Shutdown(w) \/ Crash(w) \/ CountQueued(w) \/ EnqueueSweep(w)
  \/ \E kind \in Kinds \ {Sweep} : EnqueueWork(kind)
  \/ Tick

Spec == Init /\ [][Next]_vars

\* The processes are restarted when they stop, run their loops, and time
\* passes; no request, sweep or fault is owed.
FairSpec == Spec /\ WF_vars(Tick) /\ \A w \in Workers : WF_vars(WorkerStep(w))
-----------------------------------------------------------------------------
JobRow ==
  [kind : Kinds, state : JobStates, attempts : Nat, due : Int, age : 0..Lease,
   lockedBy : Workers \cup {NoWorker}]

TypeOK ==
  /\ jobs \in Seq(JobRow)
  /\ workers \in [Workers -> [phase : Phases, job : JobIds \cup {0}, attempts : Nat,
                              cancelled : BOOLEAN]]
  /\ planner \in [Workers -> BOOLEAN]
  /\ completed \subseteq JobIds
  /\ failures \in Seq(JobIds)
  /\ faults \in [crashes : Nat, shutdowns : Nat, dbErrors : Nat, overruns : Nat]

\* What a final state says is true: some handler carried out a job that is
\* marked succeeded, and a job given up has used its whole retry budget,
\* however often workers crashed, lost leases or overwrote each other's marks.
VerdictIsEarned ==
  \A j \in JobIds :
    /\ jobs[j].state = "succeeded" => j \in completed
    /\ jobs[j].state = "permanently_failed" => jobs[j].attempts >= MaxAttempts

\* The audit trail has at most one job.failed entry for a job, and only for a
\* job that was given up: the entry is written after the mark, in a second
\* transaction, by whichever worker made the mark.
FailureAuditedOnce ==
  /\ \A i \in DOMAIN failures : jobs[failures[i]].state = "permanently_failed"
  /\ \A i, k \in DOMAIN failures : failures[i] = failures[k] => i = k

\* As long as workers record outcomes within the lease, a worker that is busy
\* with a job is the one its row is locked by, so no two handlers of one job
\* ever overlap and no mark lands on another worker's attempt, across crashes,
\* restarts and lost marks.
HandlerHoldsJob ==
  \A w \in Workers : InIteration(w) /\ faults.overruns = 0 =>
    /\ jobs[workers[w].job].state = "running"
    /\ jobs[workers[w].job].lockedBy = w
    /\ jobs[workers[w].job].attempts = workers[w].attempts

\* A running row that no worker is busy with: what a crash or a lost mark
\* leaves behind until a restart finds its lease expired.
Orphans ==
  {j \in JobIds : /\ jobs[j].state = "running"
                  /\ \A w \in Workers : ~(InIteration(w) /\ workers[w].job = j)}

\* Rows are orphaned by interruptions only, one row by one interruption: no path
\* of RunOnce that reaches the database leaves a running row behind, not even
\* that of a worker that has lost its lease and marks another worker's attempt.
OrphansComeFromFaults == Cardinality(Orphans) <= Interruptions

\* Only attempts that a fault cut short or let overrun exceed the budget
\* (job.go:30 "MaxJobAttempts bounds the retry budget of every job"): recovery
\* requeues a job and ClaimNextJob counts the attempt whatever the budget, and
\* a worker that lost its lease still decides by the attempts it claimed with.
ExtraAttemptsComeFromFaults ==
  \A j \in JobIds : jobs[j].attempts <= MaxAttempts + Interruptions + faults.overruns

\* Every job is carried out or given up, or else ends up orphaned: retries,
\* backoff and competing workers alone never keep a job unfinished for ever.
FinishedOrOrphaned ==
  \A j \in 1..MaxJobs :
    j \in JobIds ~> j \in JobIds /\ (Terminal(jobs[j].state) \/ j \in Orphans)

\* Every enqueued job is eventually carried out or given up (worker.go:1-2 "a
\* restarted process resumes the work a crashed one abandoned").
EveryJobFinishes ==
  \A j \in 1..MaxJobs : j \in JobIds ~> j \in JobIds /\ Terminal(jobs[j].state)

-----------------------------------------------------------------------------
\* The table as the queue's users see it: a job is pending until it is done or
\* given up.
Work ==
  [j \in JobIds |-> [tries  |-> jobs[j].attempts,
                     status |-> CASE jobs[j].state = "succeeded" -> "done"
                                  [] jobs[j].state = "permanently_failed" -> "givenUp"
                                  [] OTHER -> "pending"]]

\* What the queue promises, module WorkQueue.
Promise == INSTANCE WorkQueue WITH work <- Work, carriedOut <- completed

\* The queue, its workers, their crashes, lost marks and expired leases implement
\* the promise: a verdict is final although a worker that lost its lease still
\* marks the job it ran and restarts requeue by age alone, success is never
\* recorded for a job nobody carried out, nothing is given up before its budget
\* is used, and no job disappears.
KeepsPromise == Promise!Spec
=============================================================================
