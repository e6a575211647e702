--------------------------- MODULE JobQueueProofs ---------------------------
(***************************************************************************)
(* Machine-checked proofs about module JobQueue, for any number of worker  *)
(* processes, jobs and faults, any retry budget, lease and schedule.       *)
(***************************************************************************)
EXTENDS JobQueue, FiniteSetTheorems, SequenceTheorems, TLAPS

-----------------------------------------------------------------------------
(* The inductive invariant, in named parts. *)

\* A worker that has claimed a job knows a row and counted at least one attempt
\* of it, and the row never counts fewer than the worker does.
ClaimsKnown ==
  \A w \in Workers : InIteration(w) \/ workers[w].phase = "auditing" =>
    /\ workers[w].job \in JobIds
    /\ workers[w].attempts >= 1
    /\ jobs[workers[w].job].attempts >= workers[w].attempts

\* A handler that returned nil has carried its job out; only a cancelled worker
\* is interrupted, and a process that is down or new is not cancelled.
OutcomesTrue ==
  \A w \in Workers :
    /\ workers[w].phase = "ok" => workers[w].job \in completed
    /\ workers[w].phase = "interrupted" => workers[w].cancelled
    /\ workers[w].phase = "down" => ~workers[w].cancelled

\* A row is locked by a worker exactly while it is running; only running rows
\* age, and no row is overdue by more than the bound.
RowsConsistent ==
  \A j \in JobIds :
    /\ jobs[j].state = "running" <=> jobs[j].lockedBy \in Workers
    /\ jobs[j].state # "running" => jobs[j].age = 0
    /\ jobs[j].due >= -MaxOverdue

\* The worker that is about to audit a failure is the only one to do so, and
\* nobody has done so before.
AuditorsDistinct ==
  /\ \A w \in Workers : workers[w].phase = "auditing" =>
       /\ jobs[workers[w].job].state = "permanently_failed"
       /\ \A i \in DOMAIN failures : failures[i] # workers[w].job
  /\ \A v, w \in Workers :
       workers[v].phase = "auditing" /\ workers[w].phase = "auditing"
       /\ workers[v].job = workers[w].job => v = w

\* Without an overrun, the lease of a busy worker has not expired.
LeasesValid ==
  \A w \in Workers : InIteration(w) /\ faults.overruns = 0 => jobs[workers[w].job].age < Lease

\* Worker w is in an attempt of job j.
Busy(w, j) == InIteration(w) /\ workers[w].job = j

\* Worker w is in the attempt that the row of job j is locked for.
Holds(w, j) == Busy(w, j) /\ jobs[j].state = "running" /\ jobs[j].lockedBy = w

\* The holder of a row claimed it with the attempts the row now counts.
HolderCounts ==
  \A w \in Workers : \A j \in JobIds : Holds(w, j) => jobs[j].attempts = workers[w].attempts

Cancelled == {w \in Workers : workers[w].cancelled}

\* The credit of an interruption is spent on one orphan, or kept by a worker that
\* was told to stop and has not stopped yet.
OrphansAccounted ==
  Cardinality(Orphans) + Cardinality(Cancelled) <= Interruptions

\* Workers busy with job j that have lost it and would still ask for a retry.
Strays(j) ==
  {w \in Workers : Busy(w, j) /\ ~Holds(w, j) /\ workers[w].attempts < MaxAttempts}

\* Workers busy with job j that were told to stop, and so may hand it back.
Doomed(j) == {w \in Workers : Busy(w, j) /\ workers[w].cancelled}

\* The next restart may requeue job j: its holder is gone or has overrun.
Exposed(j) ==
  /\ jobs[j].state = "running"
  /\ ~Holds(jobs[j].lockedBy, j) \/ jobs[j].age = Lease

One(condition) == IF condition THEN 1 ELSE 0

\* The faults that may still cost job j an attempt beyond its budget.
Debt(j) == Cardinality(Strays(j)) + Cardinality(Doomed(j)) + One(Exposed(j))

FaultTotal == Interruptions + faults.overruns

\* Each of them is backed by a fault of its own.
DebtBacked == \A j \in JobIds : Debt(j) <= FaultTotal

\* The attempts made, the one a queued job is owed and those the debt may still
\* cost are within the budget and the faults.
AttemptsAccounted ==
  \A j \in JobIds :
    jobs[j].attempts + One(jobs[j].state = "queued") + Debt(j) <= MaxAttempts + FaultTotal
-----------------------------------------------------------------------------
(* Rows and their types. *)

\* A non-empty set of naturals has a smallest element: used for the row that
\* ClaimNextJob picks.
LEMMA MinExists ==
  ASSUME NEW S, S \subseteq Nat, S # {}
  PROVE  \E m \in S : \A x \in S : m <= x
<1>1. IsWellFoundedOn(OpToRel(<, Nat), Nat)
  BY NatLessThanWellFounded
<1>2. PICK m \in S : \A y \in S : ~(<<y, m>> \in OpToRel(<, Nat))
  BY <1>1, WFMin
<1>3. \A y \in S : ~(y < m)
  BY <1>2 DEF OpToRel
<1>4. \A y \in S : m <= y
  BY <1>3
<1> QED
  BY <1>4

\* The columns of a row have the types of the row.
LEMMA RowTypes ==
  ASSUME TypeOK, NEW j \in JobIds
  PROVE  /\ JobIds = 1..Len(jobs) /\ Len(jobs) \in Nat
         /\ jobs[j] \in JobRow
         /\ jobs[j].kind \in Kinds /\ jobs[j].state \in JobStates
         /\ jobs[j].attempts \in Nat /\ jobs[j].due \in Int
         /\ jobs[j].age \in 0..Lease /\ jobs[j].age \in Nat
         /\ jobs[j].lockedBy \in Workers \cup {NoWorker}
<1>1. jobs \in Seq(JobRow) /\ JobIds = 1..Len(jobs) /\ Len(jobs) \in Nat
  BY DEF TypeOK, JobIds
<1>2. jobs[j] \in JobRow
  BY <1>1
<1> QED
  BY <1>1, <1>2, ScheduleAssumption DEF JobRow

\* The fields of a worker have their types.
LEMMA WorkerTypes ==
  ASSUME TypeOK, NEW w \in Workers
  PROVE  /\ workers[w].phase \in Phases /\ workers[w].job \in JobIds \cup {0}
         /\ workers[w].attempts \in Nat /\ workers[w].cancelled \in BOOLEAN
         /\ workers[w] \in [phase : Phases, job : JobIds \cup {0}, attempts : Nat,
                            cancelled : BOOLEAN]
<1>1. workers[w] \in [phase : Phases, job : JobIds \cup {0}, attempts : Nat,
                      cancelled : BOOLEAN]
  BY DEF TypeOK
<1> QED
  BY <1>1

\* A worker's record replaced by another of the type keeps the type.
LEMMA WorkerWrite ==
  ASSUME TypeOK, NEW w \in Workers, NEW r,
         r \in [phase : Phases, job : JobIds \cup {0}, attempts : Nat, cancelled : BOOLEAN],
         workers' = [workers EXCEPT ![w] = r]
  PROVE  /\ workers' \in [Workers -> [phase : Phases, job : JobIds \cup {0}, attempts : Nat,
                                      cancelled : BOOLEAN]]
         /\ workers'[w] = r
         /\ \A v \in Workers : v # w => workers'[v] = workers[v]
BY DEF TypeOK

\* A row replaced by another of the type keeps the type and the other rows.
LEMMA RowWrite ==
  ASSUME TypeOK, NEW j \in JobIds, NEW r \in JobRow, jobs' = [jobs EXCEPT ![j] = r]
  PROVE  /\ jobs' \in Seq(JobRow) /\ JobIds' = JobIds
         /\ jobs'[j] = r
         /\ \A k \in JobIds : k # j => jobs'[k] = jobs[k]
<1>1. jobs \in Seq(JobRow) /\ j \in 1..Len(jobs)
  BY DEF TypeOK, JobIds
<1>2. jobs' \in Seq(JobRow) /\ Len(jobs') = Len(jobs)
  BY <1>1, ExceptSeq
<1>3. JobIds = 1..Len(jobs) /\ JobIds' = 1..Len(jobs')
  BY <1>1, <1>2 DEF JobIds
<1> QED
  BY <1>1, <1>2, <1>3

\* The function of rows that a statement over the whole table computes.
LEMMA TableWrite ==
  ASSUME TypeOK, NEW f, jobs' = [j \in JobIds |-> f[j]], \A j \in JobIds : f[j] \in JobRow
  PROVE  /\ jobs' \in Seq(JobRow) /\ JobIds' = JobIds
         /\ \A j \in JobIds : jobs'[j] = f[j]
<1>1. JobIds = 1..Len(jobs) /\ Len(jobs) \in Nat
  BY DEF TypeOK, JobIds
<1>2. jobs' \in [1..Len(jobs) -> JobRow]
  BY <1>1
<1>3. jobs' \in Seq(JobRow)
  BY <1>1, <1>2, SeqDef
<1> QED
  BY <1>1, <1>2, <1>3 DEF JobIds
-----------------------------------------------------------------------------
(* What the statements do to the table. *)

\* EnqueueJob adds one queued row at the end and touches no other.
LEMMA EnqueueEffect ==
  ASSUME TypeOK, NEW kind \in Kinds, NEW due \in Int, EnqueueJob(kind, due)
  PROVE  /\ jobs' \in Seq(JobRow)
         /\ Len(jobs) \in Nat /\ JobIds' = JobIds \cup {Len(jobs) + 1} /\ Len(jobs) + 1 \notin JobIds
         /\ \A k \in JobIds : jobs'[k] = jobs[k]
         /\ jobs'[Len(jobs) + 1] = [kind |-> kind, state |-> "queued", attempts |-> 0,
                                    due |-> due, age |-> 0, lockedBy |-> NoWorker]
         /\ jobs' = Append(jobs, jobs'[Len(jobs) + 1])
<1> DEFINE row == [kind |-> kind, state |-> "queued", attempts |-> 0,
                   due |-> due, age |-> 0, lockedBy |-> NoWorker]
<1>1. row \in JobRow
  BY ScheduleAssumption DEF JobRow, JobStates
<1>2. jobs \in Seq(JobRow) /\ jobs' = Append(jobs, row)
  BY DEF TypeOK, EnqueueJob
<1> HIDE DEF row
<1>3. /\ jobs' \in Seq(JobRow) /\ Len(jobs') = Len(jobs) + 1
      /\ \A i \in 1..Len(jobs) : jobs'[i] = jobs[i]
      /\ jobs'[Len(jobs) + 1] = row
  BY <1>1, <1>2, AppendProperties
<1>4. JobIds = 1..Len(jobs) /\ JobIds' = 1..(Len(jobs) + 1) /\ Len(jobs) \in Nat
  BY <1>2, <1>3 DEF JobIds
<1> QED
  BY <1>2, <1>3, <1>4 DEF row

\* A Mark statement finds the row running, gives up its lock and sets its state.
LEMMA FinishEffect ==
  ASSUME TypeOK, NEW j \in JobIds, NEW state \in JobStates, NEW due \in Int,
         FinishJob(j, state, due)
  PROVE  /\ jobs' \in Seq(JobRow) /\ JobIds' = JobIds
         /\ jobs[j].state = "running"
         /\ \A k \in JobIds : k # j => jobs'[k] = jobs[k]
         /\ jobs'[j].kind = jobs[j].kind
         /\ jobs'[j].state = state /\ jobs'[j].attempts = jobs[j].attempts
         /\ jobs'[j].due = due /\ jobs'[j].age = 0 /\ jobs'[j].lockedBy = NoWorker
<1> DEFINE row == [jobs[j] EXCEPT !.state = state, !.due = due, !.age = 0, !.lockedBy = NoWorker]
<1>1. jobs[j] \in JobRow
  BY RowTypes
<1>2. row \in JobRow
  <2>1. 0 \in 0..Lease
    BY ScheduleAssumption
  <2> QED
    BY <1>1, <2>1, Zenon DEF JobRow
<1>3. jobs[j].state = "running" /\ jobs' = [jobs EXCEPT ![j] = row]
  BY DEF FinishJob
<1>4. /\ row.kind = jobs[j].kind
      /\ row.state = state /\ row.attempts = jobs[j].attempts
      /\ row.due = due /\ row.age = 0 /\ row.lockedBy = NoWorker
  BY <1>1 DEF JobRow
<1> HIDE DEF row
<1>5. /\ jobs' \in Seq(JobRow) /\ JobIds' = JobIds /\ jobs'[j] = row
      /\ \A k \in JobIds : k # j => jobs'[k] = jobs[k]
  BY <1>2, <1>3, RowWrite
<1> QED
  BY <1>3, <1>4, <1>5

\* Recovery requeues exactly the rows whose lease has run out.
LEMMA RequeueEffect ==
  ASSUME TypeOK, RequeueStaleJobs
  PROVE  /\ jobs' \in Seq(JobRow) /\ JobIds' = JobIds
         /\ \A j \in JobIds : ~Stale(j) => jobs'[j] = jobs[j]
         /\ \A j \in JobIds : Stale(j) =>
              /\ jobs'[j].kind = jobs[j].kind
              /\ jobs'[j].state = "queued" /\ jobs'[j].attempts = jobs[j].attempts
              /\ jobs'[j].due = 0 /\ jobs'[j].age = 0 /\ jobs'[j].lockedBy = NoWorker
<1> DEFINE f == [j \in JobIds |->
                   IF Stale(j)
                   THEN [jobs[j] EXCEPT !.state = "queued", !.due = 0, !.age = 0, !.lockedBy = NoWorker]
                   ELSE jobs[j]]
<1>1. \A j \in JobIds : jobs[j] \in JobRow
  BY RowTypes
<1>2. ASSUME NEW j \in JobIds PROVE f[j] \in JobRow
  <2>1. 0 \in 0..Lease /\ "queued" \in JobStates /\ 0 \in Int
    BY ScheduleAssumption DEF JobStates
  <2>2. [jobs[j] EXCEPT !.state = "queued", !.due = 0, !.age = 0, !.lockedBy = NoWorker] \in JobRow
    BY <1>1, <2>1, Zenon DEF JobRow
  <2> QED
    BY <1>1, <2>2, Zenon
<1>3. jobs' = [j \in JobIds |-> f[j]]
  BY DEF RequeueStaleJobs
<1>4. \A j \in JobIds : Stale(j) =>
        /\ f[j].kind = jobs[j].kind
        /\ f[j].state = "queued" /\ f[j].attempts = jobs[j].attempts
        /\ f[j].due = 0 /\ f[j].age = 0 /\ f[j].lockedBy = NoWorker
  BY <1>1 DEF JobRow
<1>5. \A j \in JobIds : ~Stale(j) => f[j] = jobs[j]
  OBVIOUS
<1> HIDE DEF f
<1>6. jobs' \in Seq(JobRow) /\ JobIds' = JobIds /\ \A j \in JobIds : jobs'[j] = f[j]
  BY <1>2, <1>3, TableWrite
<1> QED
  BY <1>4, <1>5, <1>6

\* Time passes: queued rows come closer to their due time, running rows age up
\* to the lease.
LEMMA TickEffect ==
  ASSUME TypeOK, Tick
  PROVE  /\ jobs' \in Seq(JobRow) /\ JobIds' = JobIds
         /\ \A j \in JobIds :
              /\ jobs'[j].state = jobs[j].state /\ jobs'[j].attempts = jobs[j].attempts
              /\ jobs'[j].lockedBy = jobs[j].lockedBy /\ jobs'[j].kind = jobs[j].kind
              /\ jobs[j].state = "queued" => jobs'[j].due = jobs[j].due - 1
              /\ jobs[j].state # "queued" => jobs'[j].due = jobs[j].due
              /\ jobs[j].state # "running" => jobs'[j].age = jobs[j].age
              /\ jobs[j].state = "running" =>
                   jobs'[j].age = IF jobs[j].age < Lease THEN jobs[j].age + 1 ELSE jobs[j].age
<1> DEFINE older(j) == IF jobs[j].age < Lease THEN jobs[j].age + 1 ELSE jobs[j].age
           f == [j \in JobIds |->
                   CASE jobs[j].state = "queued"  -> [jobs[j] EXCEPT !.due = jobs[j].due - 1]
                     [] jobs[j].state = "running" -> [jobs[j] EXCEPT !.age = older(j)]
                     [] OTHER -> jobs[j]]
<1>1. \A j \in JobIds : /\ jobs[j] \in JobRow /\ jobs[j].due - 1 \in Int
                        /\ older(j) \in 0..Lease
  BY RowTypes, ScheduleAssumption
<1>2. ASSUME NEW j \in JobIds
      PROVE  /\ [jobs[j] EXCEPT !.due = jobs[j].due - 1] \in JobRow
             /\ [jobs[j] EXCEPT !.age = older(j)] \in JobRow
  <2> HIDE DEF older
  <2> DEFINE d == jobs[j].due - 1
  <2>1. d \in Int
    BY <1>1
  <2> HIDE DEF d
  <2>2. [jobs[j] EXCEPT !.due = d] \in JobRow /\ [jobs[j] EXCEPT !.age = older(j)] \in JobRow
    BY <1>1, <2>1, Zenon DEF JobRow
  <2> QED
    BY <2>2, Zenon DEF d
<1>3. jobs' = [j \in JobIds |-> f[j]]
  BY DEF Tick
<1>4. ASSUME NEW j \in JobIds
      PROVE  f[j] = CASE jobs[j].state = "queued"  -> [jobs[j] EXCEPT !.due = jobs[j].due - 1]
                      [] jobs[j].state = "running" -> [jobs[j] EXCEPT !.age = older(j)]
                      [] OTHER -> jobs[j]
  BY Zenon
<1> HIDE DEF f, older
<1>5. ASSUME NEW j \in JobIds PROVE f[j] \in JobRow
  BY <1>1, <1>2, <1>4
<1>6. jobs' \in Seq(JobRow) /\ JobIds' = JobIds /\ \A j \in JobIds : jobs'[j] = f[j]
  BY <1>3, <1>5, TableWrite
<1>7. ASSUME NEW j \in JobIds
      PROVE  /\ f[j].state = jobs[j].state /\ f[j].attempts = jobs[j].attempts
             /\ f[j].lockedBy = jobs[j].lockedBy /\ f[j].kind = jobs[j].kind
             /\ jobs[j].state = "queued" => f[j].due = jobs[j].due - 1
             /\ jobs[j].state # "queued" => f[j].due = jobs[j].due
             /\ jobs[j].state # "running" => f[j].age = jobs[j].age
             /\ jobs[j].state = "running" => f[j].age = older(j)
  BY <1>1, <1>4 DEF JobRow
<1> QED
  BY <1>6, <1>7 DEF older

\* ClaimNextJob finds a row whenever one is ready.
LEMMA NextJobReady ==
  ASSUME TypeOK, RowsConsistent, Ready # {}
  PROVE  /\ NextJob \in Ready /\ NextJob \in JobIds
         /\ jobs[NextJob].state = "queued" /\ jobs[NextJob].due <= 0
<1> DEFINE lag(j) == jobs[j].due + MaxOverdue
           D == {lag(j) : j \in Ready}
<1>1. \A j \in Ready : j \in JobIds /\ j \in Nat /\ jobs[j].due \in Int /\ lag(j) \in Nat
  <2>1. \A j \in Ready : j \in JobIds
    BY DEF Ready
  <2>2. \A j \in JobIds : j \in Nat /\ jobs[j].due \in Int
    BY RowTypes
  <2>3. \A j \in JobIds : jobs[j].due >= -MaxOverdue
    BY DEF RowsConsistent
  <2> QED
    BY <2>1, <2>2, <2>3, BoundsAssumption
<1>2. PICK m \in D : \A x \in D : m <= x
  <2>1. D \subseteq Nat /\ D # {}
    BY <1>1
  <2> QED
    BY <2>1, MinExists
<1> DEFINE E == {j \in Ready : lag(j) = m}
<1>3. PICK k \in E : \A x \in E : k <= x
  <2>1. E \subseteq Nat /\ E # {}
    BY <1>1, <1>2
  <2> QED
    BY <2>1, MinExists
<1>4. \A i \in Ready : lag(k) <= lag(i) /\ (lag(k) = lag(i) => k <= i)
  BY <1>2, <1>3
<1>5. \A i \in Ready : jobs[k].due < jobs[i].due \/ (jobs[k].due = jobs[i].due /\ k <= i)
  BY <1>1, <1>3, <1>4, BoundsAssumption
<1>6. NextJob \in Ready
  <2>1. k \in Ready
    BY <1>3
  <2> QED
    BY <1>5, <2>1, Zenon DEF NextJob
<1> QED
  BY <1>6 DEF Ready

\* A claim turns the row it picks into a running one, locked by the worker, with
\* one more attempt.
LEMMA ClaimEffect ==
  ASSUME TypeOK, RowsConsistent, NEW w \in Workers, Claim(w)
  PROVE  /\ jobs' \in Seq(JobRow) /\ JobIds' = JobIds
         /\ workers[w].phase = "idle" /\ ~workers[w].cancelled
         /\ NextJob \in JobIds /\ jobs[NextJob].state = "queued"
         /\ \A k \in JobIds : k # NextJob => jobs'[k] = jobs[k]
         /\ jobs'[NextJob].state = "running" /\ jobs'[NextJob].due = 0
         /\ jobs'[NextJob].kind = jobs[NextJob].kind
         /\ jobs'[NextJob].attempts = jobs[NextJob].attempts + 1
         /\ jobs'[NextJob].age = jobs[NextJob].age /\ jobs'[NextJob].lockedBy = w
         /\ workers' = [workers EXCEPT ![w] =
              [phase |-> "handling", job |-> NextJob, attempts |-> jobs[NextJob].attempts + 1,
               cancelled |-> workers[w].cancelled]]
<1> DEFINE j == NextJob
           more == jobs[j].attempts + 1
           row == [jobs[j] EXCEPT !.state = "running", !.attempts = more, !.due = 0, !.lockedBy = w]
<1>1. j \in JobIds /\ jobs[j].state = "queued"
  BY NextJobReady DEF Claim
<1>2. jobs[j] \in JobRow /\ more \in Nat /\ 0 \in Int /\ "running" \in JobStates
  BY <1>1, RowTypes DEF JobStates
<1>3. jobs' = [jobs EXCEPT ![j] = row]
  BY <1>1, <1>2 DEF Claim
<1>4. workers' = [workers EXCEPT ![w] =
        [phase |-> "handling", job |-> j, attempts |-> more, cancelled |-> workers[w].cancelled]]
  <2>1. workers[w] \in [phase : Phases, job : JobIds \cup {0}, attempts : Nat, cancelled : BOOLEAN]
    BY WorkerTypes
  <2>2. [workers[w] EXCEPT !.phase = "handling", !.job = j, !.attempts = more]
        = [phase |-> "handling", job |-> j, attempts |-> more, cancelled |-> workers[w].cancelled]
    <3> DEFINE r == [workers[w] EXCEPT !.phase = "handling", !.job = j, !.attempts = more]
    <3>1. "handling" \in Phases
      BY DEF Phases
    <3> HIDE DEF j, more
    <3>2. /\ r \in [phase : Phases, job : JobIds \cup {0}, attempts : Nat, cancelled : BOOLEAN]
          /\ r.phase = "handling" /\ r.job = j /\ r.attempts = more
          /\ r.cancelled = workers[w].cancelled
      BY <1>1, <1>2, <2>1, <3>1, Zenon
    <3>3. r = [phase |-> r.phase, job |-> r.job, attempts |-> r.attempts, cancelled |-> r.cancelled]
      <4> HIDE DEF r
      <4> QED
        BY <3>2
    <3> QED
      BY <3>2, <3>3, Zenon
  <2>3. workers' = [workers EXCEPT ![w] =
          [workers[w] EXCEPT !.phase = "handling", !.job = j, !.attempts = more]]
    BY <2>1 DEF Claim, TypeOK
  <2> QED
    BY <2>2, <2>3
<1>5. workers[w].phase = "idle" /\ ~workers[w].cancelled
  BY DEF Claim
<1> HIDE DEF j, more
<1>6. row \in JobRow
  BY <1>2, Zenon DEF JobRow
<1>7. /\ row.state = "running" /\ row.attempts = more /\ row.due = 0
      /\ row.age = jobs[j].age /\ row.lockedBy = w /\ row.kind = jobs[j].kind
  BY <1>2 DEF JobRow
<1> HIDE DEF row
<1>8. /\ jobs' \in Seq(JobRow) /\ JobIds' = JobIds /\ jobs'[j] = row
      /\ \A k \in JobIds : k # j => jobs'[k] = jobs[k]
  BY <1>1, <1>3, <1>6, RowWrite
<1> QED
  BY <1>1, <1>4, <1>5, <1>7, <1>8 DEF j, more
-----------------------------------------------------------------------------
(* What the steps of a worker do to its record, and faults to their count. *)

WorkerRow == [phase : Phases, job : JobIds \cup {0}, attempts : Nat, cancelled : BOOLEAN]

\* A worker that changes its phase keeps its job, attempts and context.
LEMMA PhaseWrite ==
  ASSUME TypeOK, NEW w \in Workers, NEW p \in Phases, workers' = [workers EXCEPT ![w].phase = p]
  PROVE  /\ workers' \in [Workers -> WorkerRow]
         /\ workers'[w].phase = p /\ workers'[w].job = workers[w].job
         /\ workers'[w].attempts = workers[w].attempts
         /\ workers'[w].cancelled = workers[w].cancelled
         /\ \A v \in Workers : v # w => workers'[v] = workers[v]
<1> DEFINE r == [workers[w] EXCEPT !.phase = p]
<1>1. workers[w] \in WorkerRow
  BY WorkerTypes DEF WorkerRow
<1>2. /\ r \in WorkerRow /\ r.phase = p /\ r.job = workers[w].job
      /\ r.attempts = workers[w].attempts /\ r.cancelled = workers[w].cancelled
  BY <1>1, Zenon DEF WorkerRow
<1>3. workers' = [workers EXCEPT ![w] = r]
  OBVIOUS
<1> HIDE DEF r
<1> QED
  BY <1>2, <1>3, WorkerWrite DEF WorkerRow

\* A worker whose context is cancelled changes nothing else.
LEMMA CancelWrite ==
  ASSUME TypeOK, NEW w \in Workers, workers' = [workers EXCEPT ![w].cancelled = TRUE]
  PROVE  /\ workers' \in [Workers -> WorkerRow]
         /\ workers'[w].phase = workers[w].phase /\ workers'[w].job = workers[w].job
         /\ workers'[w].attempts = workers[w].attempts /\ workers'[w].cancelled
         /\ \A v \in Workers : v # w => workers'[v] = workers[v]
<1> DEFINE r == [workers[w] EXCEPT !.cancelled = TRUE]
<1>1. workers[w] \in WorkerRow
  BY WorkerTypes DEF WorkerRow
<1>2. /\ r \in WorkerRow /\ r.phase = workers[w].phase /\ r.job = workers[w].job
      /\ r.attempts = workers[w].attempts /\ r.cancelled
  BY <1>1, Zenon DEF WorkerRow
<1>3. workers' = [workers EXCEPT ![w] = r]
  OBVIOUS
<1> HIDE DEF r
<1> QED
  BY <1>2, <1>3, WorkerWrite DEF WorkerRow

\* A worker that ends its iteration or its process is idle or down.
LEMMA LeaveWrite ==
  ASSUME TypeOK, NEW w \in Workers, NEW r \in {Idle, Down}, workers' = [workers EXCEPT ![w] = r]
  PROVE  /\ workers' \in [Workers -> WorkerRow]
         /\ workers'[w].phase \in {"idle", "down"} /\ ~workers'[w].cancelled
         /\ workers'[w].phase = r.phase
         /\ \A v \in Workers : v # w => workers'[v] = workers[v]
<1>1. r \in WorkerRow /\ r.phase \in {"idle", "down"} /\ ~r.cancelled
  <2>1. CASE r = Idle
    BY <2>1 DEF Idle, WorkerRow, Phases
  <2>2. CASE r = Down
    BY <2>2 DEF Down, WorkerRow, Phases
  <2> QED
    BY <2>1, <2>2
<1> QED
  BY <1>1, WorkerWrite DEF WorkerRow

FaultsType == [crashes : Nat, shutdowns : Nat, dbErrors : Nat, overruns : Nat]

\* A crash, a shutdown or a refused statement is one more interruption.
LEMMA InterruptionEffect ==
  ASSUME TypeOK, NEW sort \in {"crashes", "shutdowns", "dbErrors"}, Fault(sort, 1)
  PROVE  /\ faults' \in FaultsType
         /\ Interruptions \in Nat /\ faults.overruns \in Nat
         /\ Interruptions' = Interruptions + 1 /\ faults'.overruns = faults.overruns
<1>1. faults \in FaultsType /\ faults' = [faults EXCEPT ![sort] = @ + 1]
  BY DEF TypeOK, Fault, FaultsType
<1>2. CASE sort = "crashes"
  BY <1>1, <1>2 DEF FaultsType, Interruptions
<1>3. CASE sort = "shutdowns"
  BY <1>1, <1>3 DEF FaultsType, Interruptions
<1>4. CASE sort = "dbErrors"
  BY <1>1, <1>4 DEF FaultsType, Interruptions
<1> QED
  BY <1>2, <1>3, <1>4

\* The faults counted so far are naturals.
LEMMA FaultTypes ==
  ASSUME TypeOK
  PROVE  /\ faults \in FaultsType /\ Interruptions \in Nat /\ faults.overruns \in Nat
         /\ FaultTotal \in Nat
<1>1. faults \in FaultsType
  BY DEF TypeOK, FaultsType
<1> QED
  BY <1>1 DEF FaultsType, Interruptions, FaultTotal

\* A tick with which a worker outlives its lease counts an overrun, any other
\* none, and neither counts an interruption.
LEMMA OverrunEffect ==
  ASSUME TypeOK, Tick
  PROVE  /\ faults' \in FaultsType /\ IsFiniteSet(Overrunning)
         /\ Interruptions' = Interruptions
         /\ faults'.overruns = faults.overruns + Cardinality(Overrunning)
         /\ Cardinality(Overrunning) \in Nat
         /\ Overrunning # {} => Cardinality(Overrunning) > 0
<1>1. IsFiniteSet(Overrunning)
  <2>1. Overrunning \subseteq Workers
    BY DEF Overrunning
  <2> QED
    BY <2>1, WorkersAssumption, FS_Subset
<1>2. /\ Cardinality(Overrunning) \in Nat
      /\ Overrunning # {} => Cardinality(Overrunning) > 0
      /\ Overrunning = {} => Cardinality(Overrunning) = 0
  BY <1>1, FS_CardinalityType, FS_EmptySet
<1>3. faults \in FaultsType
  BY FaultTypes
<1> DEFINE n == Cardinality(Overrunning)
<1>4. CASE Overrunning = {}
  <2>1. faults' = faults /\ n = 0
    BY <1>2, <1>4 DEF Tick
  <2> QED
    BY <1>1, <1>2, <1>3, <1>4, <2>1 DEF FaultsType, Interruptions
<1>5. CASE Overrunning # {}
  <2>1. faults' = [faults EXCEPT !["overruns"] = @ + n]
    BY <1>5 DEF Tick, Fault
  <2> HIDE DEF n
  <2>2. n \in Nat
    BY <1>2 DEF n
  <2>3. /\ faults' \in FaultsType /\ Interruptions' = Interruptions
        /\ faults'.overruns = faults.overruns + n
    BY <1>3, <2>1, <2>2 DEF FaultsType, Interruptions
  <2> QED
    BY <1>1, <1>2, <2>3 DEF n
<1> QED
  BY <1>4, <1>5

\* The backoff of an attempt is a delay.
LEMMA BackoffType ==
  ASSUME NEW n \in Nat, n >= 1
  PROVE  Backoff(n) \in Nat
<1> DEFINE e == IF n - 1 > 16 THEN 16 ELSE n - 1
<1>1. e \in 0..16
  OBVIOUS
<1> HIDE DEF e
<1>2. 2^e \in Nat
  <2>1. \/ e = 0 \/ e = 1 \/ e = 2 \/ e = 3 \/ e = 4 \/ e = 5 \/ e = 6 \/ e = 7 \/ e = 8
        \/ e = 9 \/ e = 10 \/ e = 11 \/ e = 12 \/ e = 13 \/ e = 14 \/ e = 15 \/ e = 16
    BY <1>1
  <2>2. /\ 2^0 \in Nat /\ 2^1 \in Nat /\ 2^2 \in Nat /\ 2^3 \in Nat /\ 2^4 \in Nat /\ 2^5 \in Nat
        /\ 2^6 \in Nat /\ 2^7 \in Nat /\ 2^8 \in Nat /\ 2^9 \in Nat /\ 2^10 \in Nat
        /\ 2^11 \in Nat /\ 2^12 \in Nat /\ 2^13 \in Nat /\ 2^14 \in Nat /\ 2^15 \in Nat
        /\ 2^16 \in Nat
    OBVIOUS
  <2> QED
    BY <2>1, <2>2, Zenon
<1>3. BackoffBase * 2^e \in Nat
  <2> DEFINE p == 2^e
  <2>1. p \in Nat
    BY <1>2
  <2> HIDE DEF p
  <2>2. BackoffBase * p \in Nat
    BY <2>1, ScheduleAssumption
  <2> QED
    BY <2>2 DEF p
<1> QED
  BY <1>3, ScheduleAssumption DEF Backoff, e

\* A worker in the last step of an iteration knows its row.
LEMMA ClaimKnown ==
  ASSUME TypeOK, ClaimsKnown, NEW w \in Workers, InIteration(w) \/ workers[w].phase = "auditing"
  PROVE  /\ workers[w].job \in JobIds /\ workers[w].attempts \in Nat
         /\ workers[w].attempts >= 1 /\ jobs[workers[w].job].attempts >= workers[w].attempts
BY WorkerTypes DEF ClaimsKnown

\* RunOnce records an outcome in a row that is running: a success, a retry after
\* an interruption, a permanent failure, or a retry after an error.
LEMMA RecordEffect ==
  ASSUME TypeOK, ClaimsKnown, NEW w \in Workers, RecordOutcome(w)
  PROVE  /\ InIteration(w) /\ workers[w].phase # "handling"
         /\ workers[w].job \in JobIds
         /\ jobs' \in Seq(JobRow) /\ JobIds' = JobIds
         /\ jobs[workers[w].job].state = "running"
         /\ \A k \in JobIds : k # workers[w].job => jobs'[k] = jobs[k]
         /\ jobs'[workers[w].job].kind = jobs[workers[w].job].kind
         /\ jobs'[workers[w].job].attempts = jobs[workers[w].job].attempts
         /\ jobs'[workers[w].job].due \in Nat
         /\ jobs'[workers[w].job].age = 0 /\ jobs'[workers[w].job].lockedBy = NoWorker
         /\ workers' \in [Workers -> WorkerRow]
         /\ \A v \in Workers : v # w => workers'[v] = workers[v]
         /\ \/ /\ workers[w].phase = "ok" /\ ~workers[w].cancelled
               /\ jobs'[workers[w].job].state = "succeeded"
               /\ workers'[w].phase = "idle" /\ ~workers'[w].cancelled
            \/ /\ workers[w].phase = "interrupted"
               /\ jobs'[workers[w].job].state = "queued"
               /\ workers'[w].phase = "down" /\ ~workers'[w].cancelled
            \/ /\ workers[w].phase = "error" /\ ~workers[w].cancelled
               /\ workers[w].attempts >= MaxAttempts
               /\ jobs'[workers[w].job].state = "permanently_failed"
               /\ workers'[w].phase = "auditing" /\ ~workers'[w].cancelled
               /\ workers'[w].job = workers[w].job /\ workers'[w].attempts = workers[w].attempts
            \/ /\ workers[w].phase = "error" /\ ~workers[w].cancelled
               /\ workers[w].attempts < MaxAttempts
               /\ jobs'[workers[w].job].state = "queued"
               /\ workers'[w].phase = "idle" /\ ~workers'[w].cancelled
<1> DEFINE j == workers[w].job
           r == workers[w]
<1>1. workers[w].phase \in {"ok", "error", "interrupted"}
  BY DEF RecordOutcome
<1>2. InIteration(w) /\ workers[w].phase # "handling"
  BY <1>1 DEF InIteration
<1>3. j \in JobIds /\ workers[w].attempts \in Nat /\ workers[w].attempts >= 1
  BY <1>2, ClaimKnown
<1>4. /\ 0 \in Int /\ 0 \in Nat /\ Backoff(workers[w].attempts) \in Nat
      /\ Backoff(workers[w].attempts) \in Int /\ MaxAttempts \in Nat
  BY <1>3, BackoffType, ScheduleAssumption
<1>5. "succeeded" \in JobStates /\ "queued" \in JobStates /\ "permanently_failed" \in JobStates
  BY DEF JobStates
<1>6. CASE workers[w].phase = "ok"
  <2>1. FinishJob(j, "succeeded", 0) /\ ~workers[w].cancelled
    BY <1>6 DEF RecordOutcome, MarkJobSucceeded
  <2>2. workers' = [workers EXCEPT ![w] = Idle]
    BY <1>6 DEF RecordOutcome
  <2>3. /\ workers' \in [Workers -> WorkerRow] /\ ~workers'[w].cancelled
        /\ workers'[w].phase = Idle.phase
        /\ \A v \in Workers : v # w => workers'[v] = workers[v]
    BY <2>2, LeaveWrite
  <2>4. workers'[w].phase = "idle"
    BY <2>3 DEF Idle
  <2>5. /\ jobs' \in Seq(JobRow) /\ JobIds' = JobIds /\ jobs[j].state = "running"
        /\ \A k \in JobIds : k # j => jobs'[k] = jobs[k]
        /\ jobs'[j].kind = jobs[j].kind
        /\ jobs'[j].state = "succeeded" /\ jobs'[j].attempts = jobs[j].attempts
        /\ jobs'[j].due = 0 /\ jobs'[j].age = 0 /\ jobs'[j].lockedBy = NoWorker
    BY <1>3, <1>4, <1>5, <2>1, FinishEffect
  <2> QED
    BY <1>2, <1>3, <1>4, <1>6, <2>1, <2>3, <2>4, <2>5, Zenon
<1>7. CASE workers[w].phase = "interrupted"
  <2>1. FinishJob(j, "queued", 0)
    BY <1>7 DEF RecordOutcome, MarkJobRetry
  <2>2. workers' = [workers EXCEPT ![w] = Down]
    BY <1>7 DEF RecordOutcome
  <2>3. /\ workers' \in [Workers -> WorkerRow] /\ ~workers'[w].cancelled
        /\ workers'[w].phase = Down.phase
        /\ \A v \in Workers : v # w => workers'[v] = workers[v]
    BY <2>2, LeaveWrite
  <2>4. workers'[w].phase = "down"
    BY <2>3 DEF Down
  <2>5. /\ jobs' \in Seq(JobRow) /\ JobIds' = JobIds /\ jobs[j].state = "running"
        /\ \A k \in JobIds : k # j => jobs'[k] = jobs[k]
        /\ jobs'[j].kind = jobs[j].kind
        /\ jobs'[j].state = "queued" /\ jobs'[j].attempts = jobs[j].attempts
        /\ jobs'[j].due = 0 /\ jobs'[j].age = 0 /\ jobs'[j].lockedBy = NoWorker
    BY <1>3, <1>4, <1>5, <2>1, FinishEffect
  <2> QED
    BY <1>2, <1>3, <1>4, <1>7, <2>3, <2>4, <2>5, Zenon
<1>8. CASE workers[w].phase = "error" /\ workers[w].attempts >= MaxAttempts
  <2>1. FinishJob(j, "permanently_failed", 0) /\ ~workers[w].cancelled
    BY <1>8 DEF RecordOutcome, MarkJobPermanentlyFailed, BudgetExhausted
  <2>2. workers' = [workers EXCEPT ![w].phase = "auditing"]
    BY <1>8 DEF RecordOutcome, BudgetExhausted
  <2>3. /\ workers' \in [Workers -> WorkerRow]
        /\ workers'[w].phase = "auditing" /\ workers'[w].job = workers[w].job
        /\ workers'[w].attempts = workers[w].attempts
        /\ workers'[w].cancelled = workers[w].cancelled
        /\ \A v \in Workers : v # w => workers'[v] = workers[v]
    <3>1. "auditing" \in Phases
      BY DEF Phases
    <3> QED
      BY <2>2, <3>1, PhaseWrite
  <2>4. /\ jobs' \in Seq(JobRow) /\ JobIds' = JobIds /\ jobs[j].state = "running"
        /\ \A k \in JobIds : k # j => jobs'[k] = jobs[k]
        /\ jobs'[j].kind = jobs[j].kind
        /\ jobs'[j].state = "permanently_failed" /\ jobs'[j].attempts = jobs[j].attempts
        /\ jobs'[j].due = 0 /\ jobs'[j].age = 0 /\ jobs'[j].lockedBy = NoWorker
    BY <1>3, <1>4, <1>5, <2>1, FinishEffect
  <2> QED
    BY <1>2, <1>3, <1>4, <1>8, <2>1, <2>3, <2>4, Zenon
<1>9. CASE workers[w].phase = "error" /\ workers[w].attempts < MaxAttempts
  <2>0. ~BudgetExhausted(workers[w].attempts)
    BY <1>3, <1>4, <1>9 DEF BudgetExhausted
  <2>1. FinishJob(j, "queued", Backoff(workers[w].attempts)) /\ ~workers[w].cancelled
    BY <1>9, <2>0 DEF RecordOutcome, MarkJobRetry
  <2>2. workers' = [workers EXCEPT ![w] = Idle]
    BY <1>9, <2>0 DEF RecordOutcome
  <2>3. /\ workers' \in [Workers -> WorkerRow] /\ ~workers'[w].cancelled
        /\ workers'[w].phase = Idle.phase
        /\ \A v \in Workers : v # w => workers'[v] = workers[v]
    BY <2>2, LeaveWrite
  <2>4. workers'[w].phase = "idle"
    BY <2>3 DEF Idle
  <2>5. /\ jobs' \in Seq(JobRow) /\ JobIds' = JobIds /\ jobs[j].state = "running"
        /\ \A k \in JobIds : k # j => jobs'[k] = jobs[k]
        /\ jobs'[j].kind = jobs[j].kind
        /\ jobs'[j].state = "queued" /\ jobs'[j].attempts = jobs[j].attempts
        /\ jobs'[j].due = Backoff(workers[w].attempts)
        /\ jobs'[j].age = 0 /\ jobs'[j].lockedBy = NoWorker
    BY <1>3, <1>4, <1>5, <2>1, FinishEffect
  <2> QED
    BY <1>2, <1>3, <1>4, <1>9, <2>1, <2>3, <2>4, <2>5, Zenon
<1>10. workers[w].attempts >= MaxAttempts \/ workers[w].attempts < MaxAttempts
  BY <1>3, <1>4
<1> QED
  BY <1>1, <1>6, <1>7, <1>8, <1>9, <1>10

\* The steps with which a worker ends its iteration without a mark, or its process.
Leaves(w) ==
  \/ OutcomeRefused(w) \/ OutcomeCancelled(w) \/ OutcomeLost(w)
  \/ AuditFailure(w) \/ Exit(w) \/ Crash(w)

\* They leave the table alone.  A worker that leaves a running row it was busy
\* with was cancelled before, or is interrupted now.
LEMMA LeaveEffect ==
  ASSUME TypeOK, NEW w \in Workers, Leaves(w)
  PROVE  /\ jobs' = jobs /\ completed' = completed
         /\ workers[w].phase # "down"
         /\ workers' \in [Workers -> WorkerRow]
         /\ workers'[w].phase \in {"idle", "down"} /\ ~workers'[w].cancelled
         /\ \A v \in Workers : v # w => workers'[v] = workers[v]
         /\ planner' \in [Workers -> BOOLEAN]
         /\ faults' \in FaultsType /\ faults'.overruns = faults.overruns
         /\ \/ Interruptions' = Interruptions + 1
            \/ /\ Interruptions' = Interruptions
               /\ InIteration(w) =>
                    workers[w].cancelled \/ jobs[workers[w].job].state # "running"
         /\ \/ failures' = failures
            \/ workers[w].phase = "auditing" /\ failures' = Append(failures, workers[w].job)
<1>1. /\ jobs' = jobs /\ completed' = completed
      /\ \/ failures' = failures
         \/ workers[w].phase = "auditing" /\ failures' = Append(failures, workers[w].job)
  BY DEF Leaves, OutcomeRefused, OutcomeCancelled, OutcomeLost, AuditFailure, Exit, Crash
<1>2. planner' \in [Workers -> BOOLEAN]
  <2>1. planner \in [Workers -> BOOLEAN]
    BY DEF TypeOK
  <2>2. planner' = planner \/ planner' = [planner EXCEPT ![w] = FALSE]
    BY DEF Leaves, OutcomeRefused, OutcomeCancelled, OutcomeLost, AuditFailure, Exit, Crash
  <2> QED
    BY <2>1, <2>2
<1>3. PICK r \in {Idle, Down} : workers' = [workers EXCEPT ![w] = r]
  BY DEF Leaves, OutcomeRefused, OutcomeCancelled, OutcomeLost, AuditFailure, Exit, Crash
<1>4. /\ workers' \in [Workers -> WorkerRow]
      /\ workers'[w].phase \in {"idle", "down"} /\ ~workers'[w].cancelled
      /\ \A v \in Workers : v # w => workers'[v] = workers[v]
  BY <1>3, LeaveWrite
<1>5. workers[w].phase # "down"
  BY DEF Leaves, OutcomeRefused, OutcomeCancelled, OutcomeLost, AuditFailure, Exit, Crash
<1>6. CASE OutcomeLost(w) \/ Crash(w)
  <2>1. Fault("dbErrors", 1) \/ Fault("crashes", 1)
    BY <1>6 DEF OutcomeLost, Crash
  <2>2. /\ faults' \in FaultsType /\ faults'.overruns = faults.overruns
        /\ Interruptions' = Interruptions + 1
    BY <2>1, InterruptionEffect
  <2> QED
    BY <1>1, <1>2, <1>4, <1>5, <2>2, Zenon
<1>7. CASE OutcomeRefused(w) \/ OutcomeCancelled(w) \/ AuditFailure(w) \/ Exit(w)
  <2>1. faults' = faults
    BY <1>7 DEF OutcomeRefused, OutcomeCancelled, AuditFailure, Exit
  <2>2. faults' \in FaultsType /\ Interruptions' = Interruptions
    BY <2>1, FaultTypes DEF Interruptions
  <2>3. InIteration(w) => workers[w].cancelled \/ jobs[workers[w].job].state # "running"
    BY <1>7 DEF OutcomeRefused, OutcomeCancelled, AuditFailure, Exit, InIteration
  <2> QED
    BY <1>1, <1>2, <1>4, <1>5, <2>1, <2>2, <2>3, Zenon
<1> QED
  BY <1>6, <1>7 DEF Leaves

\* A request or the maintenance loop enqueues a row, due now or later.
LEMMA EnqueueStep ==
  ASSUME TypeOK, (\E w \in Workers : EnqueueSweep(w)) \/ \E kind \in Kinds \ {Sweep} : EnqueueWork(kind)
  PROVE  /\ \E kind \in Kinds, due \in Nat : EnqueueJob(kind, due)
         /\ planner' \in [Workers -> BOOLEAN]
         /\ UNCHANGED <<workers, completed, failures, faults>>
<1>1. planner \in [Workers -> BOOLEAN] /\ SweepInterval \in Nat /\ Sweep \in Kinds
  BY ScheduleAssumption, WorkersAssumption DEF TypeOK
<1>2. CASE \E w \in Workers : EnqueueSweep(w)
  BY <1>1, <1>2 DEF EnqueueSweep
<1>3. CASE \E kind \in Kinds \ {Sweep} : EnqueueWork(kind)
  BY <1>1, <1>3 DEF EnqueueWork
<1> QED
  BY <1>2, <1>3

\* The steps of the queue, as the proofs below go through them.
LEMMA StepCases ==
  ASSUME Next
  PROVE  \/ \E w \in Workers : \/ Start(w) \/ Claim(w)
                               \/ \E outcome \in {"ok", "error", "interrupted"} : HandlerReturns(w, outcome)
                               \/ RecordOutcome(w) \/ Leaves(w) \/ Shutdown(w) \/ CountQueued(w)
         \/ (\E w \in Workers : EnqueueSweep(w)) \/ \E kind \in Kinds \ {Sweep} : EnqueueWork(kind)
         \/ Tick
BY DEF Next, WorkerStep, Leaves
-----------------------------------------------------------------------------
(* Type correctness. *)

\* The parts of TypeOK that depend on the rows there are, when none is lost.
LEMMA TypeFrame ==
  ASSUME TypeOK, jobs' \in Seq(JobRow), JobIds \subseteq JobIds',
         workers' \in [Workers -> [phase : Phases, job : JobIds' \cup {0}, attempts : Nat,
                                   cancelled : BOOLEAN]],
         planner' \in [Workers -> BOOLEAN], completed' \subseteq JobIds',
         failures' \in Seq(JobIds'), faults' \in FaultsType
  PROVE  TypeOK'
BY DEF TypeOK, FaultsType

\* Every step keeps the types.
LEMMA TypeStep ==
  ASSUME TypeOK, RowsConsistent, ClaimsKnown, Next
  PROVE  TypeOK'
<1>0. /\ jobs \in Seq(JobRow) /\ workers \in [Workers -> WorkerRow]
      /\ planner \in [Workers -> BOOLEAN] /\ completed \subseteq JobIds
      /\ failures \in Seq(JobIds) /\ faults \in FaultsType
  BY DEF TypeOK, WorkerRow, FaultsType
<1>1. ASSUME NEW w \in Workers, Start(w) PROVE TypeOK'
  <2>1. jobs' \in Seq(JobRow) /\ JobIds' = JobIds
    BY <1>1, RequeueEffect DEF Start
  <2>2. workers' \in [Workers -> WorkerRow]
    BY <1>1, LeaveWrite DEF Start
  <2> QED
    BY <1>0, <1>1, <2>1, <2>2, TypeFrame DEF Start, WorkerRow
<1>2. ASSUME NEW w \in Workers, Claim(w) PROVE TypeOK'
  <2>1. /\ jobs' \in Seq(JobRow) /\ JobIds' = JobIds
        /\ NextJob \in JobIds
        /\ workers' = [workers EXCEPT ![w] =
              [phase |-> "handling", job |-> NextJob, attempts |-> jobs[NextJob].attempts + 1,
               cancelled |-> workers[w].cancelled]]
    BY <1>2, ClaimEffect
  <2>2. jobs[NextJob].attempts + 1 \in Nat /\ workers[w].cancelled \in BOOLEAN
    BY <2>1, RowTypes, WorkerTypes
  <2>3. workers' \in [Workers -> WorkerRow]
    BY <2>1, <2>2, <1>0 DEF WorkerRow, Phases
  <2> QED
    BY <1>0, <1>2, <2>1, <2>3, TypeFrame DEF Claim, WorkerRow
<1>3. ASSUME NEW w \in Workers, NEW outcome \in {"ok", "error", "interrupted"},
             HandlerReturns(w, outcome)
      PROVE  TypeOK'
  <2>1. workers' \in [Workers -> WorkerRow]
    <3>1. outcome \in Phases /\ workers' = [workers EXCEPT ![w].phase = outcome]
      BY <1>3 DEF HandlerReturns, Phases
    <3> QED
      BY <3>1, PhaseWrite
  <2>2. workers[w].job \in JobIds
    BY <1>3, ClaimKnown DEF HandlerReturns, InIteration
  <2>3. completed' \subseteq JobIds /\ UNCHANGED <<jobs, planner, failures, faults>>
    BY <1>0, <1>3, <2>2 DEF HandlerReturns
  <2>4. JobIds' = JobIds
    BY <2>3 DEF JobIds
  <2> QED
    BY <1>0, <2>1, <2>3, <2>4, TypeFrame DEF WorkerRow
<1>4. ASSUME NEW w \in Workers, RecordOutcome(w) PROVE TypeOK'
  <2>1. /\ jobs' \in Seq(JobRow) /\ JobIds' = JobIds
        /\ workers' \in [Workers -> WorkerRow]
    BY <1>4, RecordEffect
  <2>2. UNCHANGED <<planner, completed, failures, faults>>
    BY <1>4 DEF RecordOutcome
  <2> QED
    BY <1>0, <2>1, <2>2, TypeFrame DEF WorkerRow
<1>5. ASSUME NEW w \in Workers, Leaves(w) PROVE TypeOK'
  <2>1. /\ jobs' = jobs /\ completed' = completed /\ workers' \in [Workers -> WorkerRow]
        /\ planner' \in [Workers -> BOOLEAN] /\ faults' \in FaultsType
        /\ \/ failures' = failures
           \/ workers[w].phase = "auditing" /\ failures' = Append(failures, workers[w].job)
    BY <1>5, LeaveEffect
  <2>2. failures' \in Seq(JobIds)
    <3>1. workers[w].phase = "auditing" => workers[w].job \in JobIds
      BY ClaimKnown
    <3> QED
      BY <1>0, <2>1, <3>1
  <2>3. JobIds' = JobIds
    BY <2>1 DEF JobIds
  <2> QED
    BY <1>0, <2>1, <2>2, <2>3, TypeFrame DEF WorkerRow
<1>6. ASSUME NEW w \in Workers, Shutdown(w) PROVE TypeOK'
  <2>1. workers' \in [Workers -> WorkerRow]
    BY <1>6, CancelWrite DEF Shutdown
  <2>2. faults' \in FaultsType
    BY <1>6, InterruptionEffect DEF Shutdown
  <2>3. JobIds' = JobIds
    BY <1>6 DEF JobIds, Shutdown
  <2>4. planner' \in [Workers -> BOOLEAN]
    BY <1>0, <1>6 DEF Shutdown
  <2> QED
    BY <1>0, <1>6, <2>1, <2>2, <2>3, <2>4, TypeFrame DEF Shutdown, WorkerRow
<1>7. ASSUME NEW w \in Workers, CountQueued(w) PROVE TypeOK'
  <2>1. JobIds' = JobIds
    BY <1>7 DEF JobIds, CountQueued
  <2>2. planner' \in [Workers -> BOOLEAN]
    BY <1>0, <1>7 DEF CountQueued
  <2> QED
    BY <1>0, <1>7, <2>1, <2>2, TypeFrame DEF CountQueued, WorkerRow
<1>8. ASSUME (\E w \in Workers : EnqueueSweep(w)) \/ \E kind \in Kinds \ {Sweep} : EnqueueWork(kind)
      PROVE  TypeOK'
  <2>1. PICK kind \in Kinds, due \in Nat : EnqueueJob(kind, due)
    BY <1>8, EnqueueStep
  <2>2. jobs' \in Seq(JobRow) /\ JobIds \subseteq JobIds'
    <3>1. due \in Int
      OBVIOUS
    <3>2. jobs' \in Seq(JobRow) /\ JobIds' = JobIds \cup {Len(jobs) + 1}
      BY <2>1, <3>1, EnqueueEffect
    <3> QED
      BY <3>2
  <2>3. planner' \in [Workers -> BOOLEAN] /\ UNCHANGED <<workers, completed, failures, faults>>
    BY <1>8, EnqueueStep
  <2>4. failures' \in Seq(JobIds') /\ completed' \subseteq JobIds'
    BY <1>0, <2>2, <2>3
  <2>5. workers' \in [Workers -> [phase : Phases, job : JobIds' \cup {0}, attempts : Nat,
                                  cancelled : BOOLEAN]]
    <3>1. WorkerRow \subseteq [phase : Phases, job : JobIds' \cup {0}, attempts : Nat,
                               cancelled : BOOLEAN]
      BY <2>2 DEF WorkerRow
    <3> QED
      BY <1>0, <2>3, <3>1
  <2> QED
    BY <1>0, <2>2, <2>3, <2>4, <2>5, TypeFrame
<1>9. CASE Tick
  <2>1. jobs' \in Seq(JobRow) /\ JobIds' = JobIds
    BY <1>9, TickEffect
  <2>2. faults' \in FaultsType
    BY <1>9, OverrunEffect
  <2> QED
    BY <1>0, <1>9, <2>1, <2>2, TypeFrame DEF Tick, WorkerRow
<1> QED
  BY <1>1, <1>2, <1>3, <1>4, <1>5, <1>6, <1>7, <1>8, <1>9, StepCases
-----------------------------------------------------------------------------
(* Claims, outcomes, rows and verdicts. *)

Core == ClaimsKnown /\ OutcomesTrue /\ RowsConsistent /\ VerdictIsEarned

\* Rows keep their state, lock, age and attempts, and times stay in bounds: the
\* part about rows holds on.
LEMMA RowsFrame ==
  ASSUME RowsConsistent, VerdictIsEarned, JobIds' = JobIds, completed \subseteq completed',
         \A j \in JobIds : jobs'[j] = jobs[j]
  PROVE  RowsConsistent' /\ VerdictIsEarned'
<1>1. RowsConsistent'
  BY DEF RowsConsistent
<1>2. VerdictIsEarned'
  BY DEF VerdictIsEarned
<1> QED
  BY <1>1, <1>2

\* Workers other than w stay as they are and rows count no fewer attempts: what
\* is known of those workers holds on.
LEMMA OthersFrame ==
  ASSUME TypeOK, TypeOK', ClaimsKnown, OutcomesTrue, NEW w \in Workers, JobIds \subseteq JobIds',
         completed \subseteq completed',
         \A j \in JobIds : jobs'[j].attempts >= jobs[j].attempts,
         \A v \in Workers : v # w => workers'[v] = workers[v],
         InIteration(w)' \/ workers'[w].phase = "auditing" =>
             /\ workers'[w].job \in JobIds' /\ workers'[w].attempts >= 1
             /\ jobs'[workers'[w].job].attempts >= workers'[w].attempts,
         /\ workers'[w].phase = "ok" => workers'[w].job \in completed'
         /\ workers'[w].phase = "interrupted" => workers'[w].cancelled
         /\ workers'[w].phase = "down" => ~workers'[w].cancelled
  PROVE  ClaimsKnown' /\ OutcomesTrue'
<1> SUFFICES ASSUME NEW v \in Workers
    PROVE  /\ InIteration(v)' \/ workers'[v].phase = "auditing" =>
               /\ workers'[v].job \in JobIds' /\ workers'[v].attempts >= 1
               /\ jobs'[workers'[v].job].attempts >= workers'[v].attempts
           /\ workers'[v].phase = "ok" => workers'[v].job \in completed'
           /\ workers'[v].phase = "interrupted" => workers'[v].cancelled
           /\ workers'[v].phase = "down" => ~workers'[v].cancelled
  BY DEF ClaimsKnown, OutcomesTrue
<1>1. CASE v = w
  BY <1>1
<1>2. CASE v # w
  <2>1. workers'[v] = workers[v]
    BY <1>2
  <2>2. /\ InIteration(v) \/ workers[v].phase = "auditing" =>
             /\ workers[v].job \in JobIds /\ workers[v].attempts >= 1
             /\ jobs[workers[v].job].attempts >= workers[v].attempts
        /\ workers[v].phase = "ok" => workers[v].job \in completed
        /\ workers[v].phase = "interrupted" => workers[v].cancelled
        /\ workers[v].phase = "down" => ~workers[v].cancelled
    BY DEF ClaimsKnown, OutcomesTrue
  <2>3. InIteration(v)' <=> InIteration(v)
    BY <2>1 DEF InIteration
  <2>4. ASSUME InIteration(v) \/ workers[v].phase = "auditing"
        PROVE  jobs'[workers[v].job].attempts >= workers[v].attempts
    <3>1. /\ workers[v].job \in JobIds /\ workers[v].attempts \in Nat
          /\ jobs[workers[v].job].attempts >= workers[v].attempts
      BY <2>2, <2>4, WorkerTypes
    <3>2. jobs[workers[v].job].attempts \in Nat
      BY <3>1, RowTypes
    <3>3. jobs'[workers[v].job].attempts \in Nat
      <4>1. workers[v].job \in JobIds'
        BY <3>1
      <4>2. jobs'[workers[v].job] \in JobRow
        BY <4>1 DEF TypeOK, JobIds
      <4> QED
        BY <4>2 DEF JobRow
    <3> QED
      BY <3>1, <3>2, <3>3
  <2>5. InIteration(v)' \/ workers'[v].phase = "auditing" =>
          /\ workers'[v].job \in JobIds' /\ workers'[v].attempts >= 1
          /\ jobs'[workers'[v].job].attempts >= workers'[v].attempts
    BY <2>1, <2>2, <2>3, <2>4
  <2> QED
    BY <2>1, <2>2, <2>5
<1> QED
  BY <1>1, <1>2

\* Every step keeps what is known of claims, outcomes, rows and verdicts.
LEMMA CoreStep ==
  ASSUME TypeOK, TypeOK', Core, Next
  PROVE  Core'
<1> USE DEF Core
<1>0. /\ \A j \in JobIds : jobs[j].attempts \in Nat /\ jobs[j].due \in Int /\ jobs[j].state \in JobStates
                           /\ jobs[j].lockedBy \in Workers \cup {NoWorker}
      /\ MaxOverdue \in Nat /\ NoWorker \notin Workers /\ MaxAttempts \in Nat
  BY RowTypes, BoundsAssumption, WorkersAssumption, ScheduleAssumption
<1>1. ASSUME NEW w \in Workers, Start(w) PROVE Core'
  <2>1. /\ JobIds' = JobIds /\ UNCHANGED completed
        /\ \A j \in JobIds : ~Stale(j) => jobs'[j] = jobs[j]
        /\ \A j \in JobIds : Stale(j) =>
              /\ jobs'[j].state = "queued" /\ jobs'[j].attempts = jobs[j].attempts
              /\ jobs'[j].due = 0 /\ jobs'[j].age = 0 /\ jobs'[j].lockedBy = NoWorker
    BY <1>1, RequeueEffect DEF Start
  <2>2. /\ workers'[w].phase = Idle.phase
        /\ \A v \in Workers : v # w => workers'[v] = workers[v]
    BY <1>1, LeaveWrite DEF Start
  <2>3. \A j \in JobIds : jobs'[j].attempts = jobs[j].attempts /\ jobs'[j].attempts >= jobs[j].attempts
    BY <1>0, <2>1
  <2>4. workers'[w].phase = "idle"
    BY <2>2 DEF Idle
  <2>5. ClaimsKnown' /\ OutcomesTrue'
    BY <2>1, <2>2, <2>3, <2>4, OthersFrame DEF InIteration
  <2>6. RowsConsistent'
    BY <1>0, <2>1 DEF RowsConsistent
  <2>7. VerdictIsEarned'
    BY <2>1 DEF VerdictIsEarned
  <2> QED
    BY <2>5, <2>6, <2>7
<1>2. ASSUME NEW w \in Workers, Claim(w) PROVE Core'
  <2> DEFINE n == NextJob
  <2>1. /\ JobIds' = JobIds
        /\ n \in JobIds /\ jobs[n].state = "queued" /\ ~workers[w].cancelled
        /\ \A k \in JobIds : k # n => jobs'[k] = jobs[k]
        /\ jobs'[n].state = "running" /\ jobs'[n].due = 0
        /\ jobs'[n].attempts = jobs[n].attempts + 1
        /\ jobs'[n].age = jobs[n].age /\ jobs'[n].lockedBy = w
        /\ workers' = [workers EXCEPT ![w] =
              [phase |-> "handling", job |-> n, attempts |-> jobs[n].attempts + 1,
               cancelled |-> workers[w].cancelled]]
    BY <1>2, ClaimEffect
  <2> HIDE DEF n
  <2>2. UNCHANGED completed
    BY <1>2 DEF Claim
  <2>3. /\ workers'[w].phase = "handling" /\ workers'[w].job = n
        /\ workers'[w].attempts = jobs[n].attempts + 1
        /\ \A v \in Workers : v # w => workers'[v] = workers[v]
    BY <2>1 DEF TypeOK
  <2>4. \A j \in JobIds : jobs'[j].attempts >= jobs[j].attempts
    BY <1>0, <2>1
  <2>5. workers'[w].attempts >= 1 /\ jobs'[workers'[w].job].attempts >= workers'[w].attempts
    BY <1>0, <2>1, <2>3
  <2>6. ClaimsKnown' /\ OutcomesTrue'
    BY <2>1, <2>2, <2>3, <2>4, <2>5, OthersFrame
  <2>7. RowsConsistent'
    BY <1>0, <2>1 DEF RowsConsistent
  <2>8. VerdictIsEarned'
    BY <2>1, <2>2 DEF VerdictIsEarned
  <2> QED
    BY <2>6, <2>7, <2>8
<1>3. ASSUME NEW w \in Workers, NEW outcome \in {"ok", "error", "interrupted"},
             HandlerReturns(w, outcome)
      PROVE  Core'
  <2>1. /\ workers[w].phase = "handling" /\ UNCHANGED jobs
        /\ outcome = "interrupted" => workers[w].cancelled
        /\ completed \subseteq completed'
        /\ outcome = "ok" => workers[w].job \in completed'
    BY <1>3 DEF HandlerReturns
  <2>2. /\ workers'[w].phase = outcome /\ workers'[w].job = workers[w].job
        /\ workers'[w].attempts = workers[w].attempts
        /\ workers'[w].cancelled = workers[w].cancelled
        /\ \A v \in Workers : v # w => workers'[v] = workers[v]
    <3>1. outcome \in Phases /\ workers' = [workers EXCEPT ![w].phase = outcome]
      BY <1>3 DEF HandlerReturns, Phases
    <3> QED
      BY <3>1, PhaseWrite
  <2>3. /\ workers[w].job \in JobIds /\ workers[w].attempts >= 1
        /\ jobs[workers[w].job].attempts >= workers[w].attempts
    BY <2>1, ClaimKnown DEF InIteration
  <2>4. JobIds' = JobIds /\ \A j \in JobIds : jobs'[j] = jobs[j] /\ jobs'[j].attempts >= jobs[j].attempts
    BY <1>0, <2>1 DEF JobIds
  <2>5. ClaimsKnown' /\ OutcomesTrue'
    BY <2>1, <2>2, <2>3, <2>4, OthersFrame
  <2>6. RowsConsistent' /\ VerdictIsEarned'
    BY <2>1, <2>4, RowsFrame
  <2> QED
    BY <2>5, <2>6
<1>4. ASSUME NEW w \in Workers, RecordOutcome(w) PROVE Core'
  <2> DEFINE j == workers[w].job
  <2>1. /\ InIteration(w) /\ j \in JobIds /\ JobIds' = JobIds
        /\ \A k \in JobIds : k # j => jobs'[k] = jobs[k]
        /\ jobs'[j].attempts = jobs[j].attempts /\ jobs'[j].due \in Nat
        /\ jobs'[j].age = 0 /\ jobs'[j].lockedBy = NoWorker
        /\ \A v \in Workers : v # w => workers'[v] = workers[v]
    BY <1>4, RecordEffect
  <2>2. /\ ~workers'[w].cancelled /\ jobs'[j].state # "running"
        /\ workers'[w].phase \in {"idle", "down", "auditing"}
        /\ workers'[w].phase = "auditing" =>
             workers'[w].job = j /\ workers'[w].attempts = workers[w].attempts
        /\ jobs'[j].state = "succeeded" => workers[w].phase = "ok"
        /\ jobs'[j].state = "permanently_failed" => workers[w].attempts >= MaxAttempts
    BY <1>4, RecordEffect
  <2>3. /\ workers[w].attempts \in Nat /\ workers[w].attempts >= 1
        /\ jobs[j].attempts >= workers[w].attempts
    BY <2>1, ClaimKnown
  <2>4. UNCHANGED completed
    BY <1>4 DEF RecordOutcome
  <2>5. workers[w].phase = "ok" => j \in completed
    BY DEF OutcomesTrue
  <2> HIDE DEF j
  <2>6. \A k \in JobIds : jobs'[k].attempts >= jobs[k].attempts
    BY <1>0, <2>1
  <2>7. ClaimsKnown' /\ OutcomesTrue'
    BY <2>1, <2>2, <2>3, <2>4, <2>6, OthersFrame DEF InIteration
  <2>8. RowsConsistent'
    BY <1>0, <2>1, <2>2 DEF RowsConsistent
  <2>9. VerdictIsEarned'
    BY <1>0, <2>1, <2>2, <2>3, <2>4, <2>5 DEF VerdictIsEarned
  <2> QED
    BY <2>7, <2>8, <2>9
<1>5. ASSUME NEW w \in Workers, Leaves(w) PROVE Core'
  <2>1. /\ jobs' = jobs /\ completed' = completed
        /\ workers'[w].phase \in {"idle", "down"} /\ ~workers'[w].cancelled
        /\ \A v \in Workers : v # w => workers'[v] = workers[v]
    BY <1>5, LeaveEffect
  <2>2. JobIds' = JobIds /\ \A j \in JobIds : jobs'[j] = jobs[j] /\ jobs'[j].attempts >= jobs[j].attempts
    BY <1>0, <2>1 DEF JobIds
  <2>3. ClaimsKnown' /\ OutcomesTrue'
    BY <2>1, <2>2, OthersFrame DEF InIteration
  <2>4. RowsConsistent' /\ VerdictIsEarned'
    BY <2>1, <2>2, RowsFrame
  <2> QED
    BY <2>3, <2>4
<1>6. ASSUME NEW w \in Workers, Shutdown(w) PROVE Core'
  <2>1. /\ workers[w].phase # "down" /\ UNCHANGED <<jobs, completed>>
        /\ workers'[w].phase = workers[w].phase /\ workers'[w].job = workers[w].job
        /\ workers'[w].attempts = workers[w].attempts /\ workers'[w].cancelled
        /\ \A v \in Workers : v # w => workers'[v] = workers[v]
    BY <1>6, CancelWrite DEF Shutdown
  <2>2. JobIds' = JobIds /\ \A j \in JobIds : jobs'[j] = jobs[j] /\ jobs'[j].attempts >= jobs[j].attempts
    BY <1>0, <2>1 DEF JobIds
  <2>3. InIteration(w)' \/ workers'[w].phase = "auditing" =>
          /\ workers[w].job \in JobIds /\ workers[w].attempts >= 1
          /\ jobs[workers[w].job].attempts >= workers[w].attempts
    BY <2>1, ClaimKnown DEF InIteration
  <2>4. workers[w].phase = "ok" => workers[w].job \in completed
    BY DEF OutcomesTrue
  <2>5. ClaimsKnown' /\ OutcomesTrue'
    BY <2>1, <2>2, <2>3, <2>4, OthersFrame
  <2>6. RowsConsistent' /\ VerdictIsEarned'
    BY <2>1, <2>2, RowsFrame
  <2> QED
    BY <2>5, <2>6
<1>7. ASSUME NEW w \in Workers, CountQueued(w) PROVE Core'
  <2>1. UNCHANGED <<jobs, workers, completed>>
    BY <1>7 DEF CountQueued
  <2> QED
    BY <2>1 DEF ClaimsKnown, OutcomesTrue, RowsConsistent, VerdictIsEarned, JobIds, InIteration
<1>8. ASSUME (\E w \in Workers : EnqueueSweep(w)) \/ \E kind \in Kinds \ {Sweep} : EnqueueWork(kind)
      PROVE  Core'
  <2>1. PICK kind \in Kinds, due \in Nat : EnqueueJob(kind, due)
    BY <1>8, EnqueueStep
  <2>2. UNCHANGED <<workers, completed>>
    BY <1>8, EnqueueStep
  <2> DEFINE n == Len(jobs) + 1
  <2>3. /\ JobIds' = JobIds \cup {n}
        /\ \A k \in JobIds : jobs'[k] = jobs[k]
        /\ jobs'[n] = [kind |-> kind, state |-> "queued", attempts |-> 0,
                       due |-> due, age |-> 0, lockedBy |-> NoWorker]
    <3>1. due \in Int
      OBVIOUS
    <3> QED
      BY <2>1, <3>1, EnqueueEffect
  <2> HIDE DEF n
  <2>4. /\ jobs'[n].state = "queued" /\ jobs'[n].due = due /\ jobs'[n].age = 0
        /\ jobs'[n].lockedBy = NoWorker
    BY <2>3
  <2>5. ClaimsKnown' /\ OutcomesTrue'
    BY <2>2, <2>3 DEF ClaimsKnown, OutcomesTrue, InIteration
  <2>6. RowsConsistent'
    BY <1>0, <2>3, <2>4 DEF RowsConsistent
  <2>7. VerdictIsEarned'
    BY <2>2, <2>3, <2>4 DEF VerdictIsEarned
  <2> QED
    BY <2>5, <2>6, <2>7
<1>9. CASE Tick
  <2>1. /\ JobIds' = JobIds
        /\ \A j \in JobIds :
              /\ jobs'[j].state = jobs[j].state /\ jobs'[j].attempts = jobs[j].attempts
              /\ jobs'[j].lockedBy = jobs[j].lockedBy
              /\ jobs[j].state = "queued" => jobs'[j].due = jobs[j].due - 1
              /\ jobs[j].state # "queued" => jobs'[j].due = jobs[j].due
              /\ jobs[j].state # "running" => jobs'[j].age = jobs[j].age
    BY <1>9, TickEffect
  <2>2. UNCHANGED <<workers, completed>> /\ \A j \in Ready : -jobs[j].due < MaxOverdue
    BY <1>9 DEF Tick
  <2>3. ClaimsKnown' /\ OutcomesTrue'
    BY <2>1, <2>2 DEF ClaimsKnown, OutcomesTrue, InIteration
  <2>4. \A j \in JobIds : jobs'[j].due >= -MaxOverdue
    BY <1>0, <2>1, <2>2 DEF RowsConsistent, Ready
  <2>5. RowsConsistent'
    BY <2>1, <2>4 DEF RowsConsistent
  <2>6. VerdictIsEarned'
    BY <2>1, <2>2 DEF VerdictIsEarned
  <2> QED
    BY <2>3, <2>5, <2>6
<1> QED
  BY <1>1, <1>2, <1>3, <1>4, <1>5, <1>6, <1>7, <1>8, <1>9, StepCases
-----------------------------------------------------------------------------
(* Verdicts are final, and failures are audited once. *)

\* No step takes a verdict back: Mark statements and recovery touch running rows,
\* claims touch queued ones.
LEMMA VerdictStays ==
  ASSUME TypeOK, Core, Next, NEW j \in JobIds, Terminal(jobs[j].state)
  PROVE  j \in JobIds' /\ jobs'[j].state = jobs[j].state
<1> USE DEF Core
<1>0. jobs[j].state # "running" /\ jobs[j].state # "queued"
  BY DEF Terminal
<1>1. ASSUME NEW w \in Workers, Start(w) PROVE j \in JobIds' /\ jobs'[j].state = jobs[j].state
  BY <1>0, <1>1, RequeueEffect DEF Start, Stale
<1>2. ASSUME NEW w \in Workers, Claim(w) PROVE j \in JobIds' /\ jobs'[j].state = jobs[j].state
  BY <1>0, <1>2, ClaimEffect
<1>3. ASSUME NEW w \in Workers, NEW outcome \in {"ok", "error", "interrupted"},
             HandlerReturns(w, outcome)
      PROVE  j \in JobIds' /\ jobs'[j].state = jobs[j].state
  BY <1>3 DEF HandlerReturns, JobIds
<1>4. ASSUME NEW w \in Workers, RecordOutcome(w)
      PROVE  j \in JobIds' /\ jobs'[j].state = jobs[j].state
  BY <1>0, <1>4, RecordEffect
<1>5. ASSUME NEW w \in Workers, Leaves(w) PROVE j \in JobIds' /\ jobs'[j].state = jobs[j].state
  BY <1>5, LeaveEffect DEF JobIds
<1>6. ASSUME NEW w \in Workers, Shutdown(w) \/ CountQueued(w)
      PROVE  j \in JobIds' /\ jobs'[j].state = jobs[j].state
  BY <1>6 DEF Shutdown, CountQueued, JobIds
<1>7. ASSUME (\E w \in Workers : EnqueueSweep(w)) \/ \E kind \in Kinds \ {Sweep} : EnqueueWork(kind)
      PROVE  j \in JobIds' /\ jobs'[j].state = jobs[j].state
  <2>1. PICK kind \in Kinds, due \in Nat : EnqueueJob(kind, due)
    BY <1>7, EnqueueStep
  <2>2. due \in Int
    OBVIOUS
  <2>3. JobIds' = JobIds \cup {Len(jobs) + 1} /\ \A k \in JobIds : jobs'[k] = jobs[k]
    BY <2>1, <2>2, EnqueueEffect
  <2> QED
    BY <2>3
<1>8. CASE Tick
  BY <1>8, TickEffect
<1> QED
  BY <1>1, <1>2, <1>3, <1>4, <1>5, <1>6, <1>7, <1>8, StepCases

\* Steps that audit nothing and make nobody an auditor.
LEMMA AuditFrame ==
  ASSUME TypeOK, Core, AuditorsDistinct, FailureAuditedOnce, Next, failures' = failures,
         \A v \in Workers : workers'[v].phase = "auditing" =>
           workers[v].phase = "auditing" /\ workers'[v].job = workers[v].job
  PROVE  AuditorsDistinct' /\ FailureAuditedOnce'
<1>1. \A j \in JobIds : jobs[j].state = "permanently_failed" => jobs'[j].state = "permanently_failed"
  BY VerdictStays DEF Terminal
<1>2. \A i \in DOMAIN failures : failures[i] \in JobIds
  BY DEF TypeOK
<1>3. \A v \in Workers : workers[v].phase = "auditing" => workers[v].job \in JobIds
  BY ClaimKnown DEF Core
<1>4. AuditorsDistinct'
  BY <1>1, <1>3 DEF AuditorsDistinct
<1>5. FailureAuditedOnce'
  BY <1>1, <1>2 DEF FailureAuditedOnce
<1> QED
  BY <1>4, <1>5

\* Every step keeps the audit trail of failures free of repetitions.
LEMMA AuditStep ==
  ASSUME TypeOK, Core, AuditorsDistinct, FailureAuditedOnce, Next
  PROVE  AuditorsDistinct' /\ FailureAuditedOnce'
<1> USE DEF Core
<1> DEFINE Goal == AuditorsDistinct' /\ FailureAuditedOnce'
<1>0. \A v \in Workers : workers[v].phase = "auditing" =>
        /\ workers[v].job \in JobIds /\ jobs[workers[v].job].state = "permanently_failed"
        /\ \A i \in DOMAIN failures : failures[i] # workers[v].job
  BY ClaimKnown DEF AuditorsDistinct
<1>1. ASSUME NEW w \in Workers, Start(w) PROVE Goal
  <2>1. /\ workers'[w].phase \in {"idle", "down"}
        /\ \A v \in Workers : v # w => workers'[v] = workers[v]
    BY <1>1, LeaveWrite DEF Start
  <2> QED
    BY <1>1, <2>1, AuditFrame DEF Start
<1>2. ASSUME NEW w \in Workers, Claim(w) PROVE Goal
  <2>1. workers' = [workers EXCEPT ![w] =
          [phase |-> "handling", job |-> NextJob, attempts |-> jobs[NextJob].attempts + 1,
           cancelled |-> workers[w].cancelled]]
    BY <1>2, ClaimEffect
  <2>2. workers'[w].phase = "handling" /\ \A v \in Workers : v # w => workers'[v] = workers[v]
    BY <2>1 DEF TypeOK
  <2> QED
    BY <1>2, <2>2, AuditFrame DEF Claim
<1>3. ASSUME NEW w \in Workers, NEW outcome \in {"ok", "error", "interrupted"},
             HandlerReturns(w, outcome)
      PROVE  Goal
  <2>1. outcome \in Phases /\ workers' = [workers EXCEPT ![w].phase = outcome]
    BY <1>3 DEF HandlerReturns, Phases
  <2>2. workers'[w].phase = outcome /\ \A v \in Workers : v # w => workers'[v] = workers[v]
    BY <2>1, PhaseWrite
  <2> QED
    BY <1>3, <2>2, AuditFrame DEF HandlerReturns
<1>4. ASSUME NEW w \in Workers, RecordOutcome(w) PROVE Goal
  <2> DEFINE j == workers[w].job
  <2>1. /\ j \in JobIds /\ JobIds' = JobIds /\ jobs[j].state = "running"
        /\ \A k \in JobIds : k # j => jobs'[k] = jobs[k]
        /\ \A v \in Workers : v # w => workers'[v] = workers[v]
        /\ workers'[w].phase = "auditing" =>
             jobs'[j].state = "permanently_failed" /\ workers'[w].job = j
    BY <1>4, RecordEffect
  <2>2. failures' = failures
    BY <1>4 DEF RecordOutcome
  <2> HIDE DEF j
  <2>3. \A i \in DOMAIN failures : failures[i] \in JobIds /\ failures[i] # j
    <3>1. \A i \in DOMAIN failures : failures[i] \in JobIds
      BY DEF TypeOK
    <3> QED
      BY <2>1, <3>1 DEF FailureAuditedOnce
  <2>4. FailureAuditedOnce'
    BY <2>1, <2>2, <2>3 DEF FailureAuditedOnce
  <2>5. \A v \in Workers : v # w /\ workers[v].phase = "auditing" => workers[v].job # j
    BY <1>0, <2>1
  <2>6. AuditorsDistinct'
    <3>1. ASSUME NEW v \in Workers, workers'[v].phase = "auditing"
          PROVE  /\ jobs'[workers'[v].job].state = "permanently_failed"
                 /\ \A i \in DOMAIN failures' : failures'[i] # workers'[v].job
      <4>1. CASE v = w
        BY <2>1, <2>2, <2>3, <3>1, <4>1
      <4>2. CASE v # w
        BY <1>0, <2>1, <2>2, <2>5, <3>1, <4>2
      <4> QED
        BY <4>1, <4>2
    <3>2. ASSUME NEW u \in Workers, NEW v \in Workers, workers'[u].phase = "auditing",
                 workers'[v].phase = "auditing", workers'[u].job = workers'[v].job
          PROVE  u = v
      BY <2>1, <2>5, <3>2 DEF AuditorsDistinct
    <3> QED
      BY <3>1, <3>2 DEF AuditorsDistinct
  <2> QED
    BY <2>4, <2>6
<1>5. ASSUME NEW w \in Workers, Leaves(w) PROVE Goal
  <2>1. /\ jobs' = jobs /\ workers'[w].phase \in {"idle", "down"}
        /\ \A v \in Workers : v # w => workers'[v] = workers[v]
        /\ \/ failures' = failures
           \/ workers[w].phase = "auditing" /\ failures' = Append(failures, workers[w].job)
    BY <1>5, LeaveEffect
  <2>2. CASE failures' = failures
    BY <2>1, <2>2, AuditFrame
  <2>3. CASE workers[w].phase = "auditing" /\ failures' = Append(failures, workers[w].job)
    <3> DEFINE j == workers[w].job
               n == Len(failures)
    <3>1. /\ j \in JobIds /\ jobs[j].state = "permanently_failed"
          /\ \A i \in DOMAIN failures : failures[i] # j
      BY <1>0, <2>3
    <3>2. /\ failures \in Seq(JobIds) /\ n \in Nat /\ DOMAIN failures = 1..n
      BY DEF TypeOK
    <3>3. /\ DOMAIN failures' = 1..(n + 1) /\ failures'[n + 1] = j
          /\ \A i \in 1..n : failures'[i] = failures[i]
      <4>1. failures' \in Seq(JobIds) /\ Len(failures') = n + 1
        BY <2>3, <3>1, <3>2, AppendProperties
      <4> QED
        BY <2>3, <3>1, <3>2, <4>1, AppendProperties
    <3> HIDE DEF n, j
    <3>4. \A i \in DOMAIN failures' : i = n + 1 \/ (i \in DOMAIN failures /\ failures'[i] = failures[i])
      BY <3>2, <3>3
    <3>5. FailureAuditedOnce'
      BY <2>1, <3>1, <3>3, <3>4 DEF FailureAuditedOnce
    <3>6. \A v \in Workers : workers'[v].phase = "auditing" =>
            v # w /\ workers'[v] = workers[v] /\ workers[v].job # j
      BY <2>1, <2>3 DEF AuditorsDistinct, j
    <3>7. AuditorsDistinct'
      BY <2>1, <3>3, <3>4, <3>6 DEF AuditorsDistinct
    <3> QED
      BY <3>5, <3>7
  <2> QED
    BY <2>1, <2>2, <2>3
<1>6. ASSUME NEW w \in Workers, Shutdown(w) PROVE Goal
  <2>1. /\ workers'[w].phase = workers[w].phase /\ workers'[w].job = workers[w].job
        /\ \A v \in Workers : v # w => workers'[v] = workers[v]
    BY <1>6, CancelWrite DEF Shutdown
  <2> QED
    BY <1>6, <2>1, AuditFrame DEF Shutdown
<1>7. ASSUME NEW w \in Workers, CountQueued(w) PROVE Goal
  BY <1>7, AuditFrame DEF CountQueued
<1>8. ASSUME (\E w \in Workers : EnqueueSweep(w)) \/ \E kind \in Kinds \ {Sweep} : EnqueueWork(kind)
      PROVE  Goal
  <2>1. UNCHANGED <<workers, failures>>
    BY <1>8, EnqueueStep
  <2> QED
    BY <2>1, AuditFrame
<1>9. CASE Tick
  BY <1>9, AuditFrame DEF Tick
<1> QED
  BY <1>1, <1>2, <1>3, <1>4, <1>5, <1>6, <1>7, <1>8, <1>9, StepCases
-----------------------------------------------------------------------------
(* Who is busy with a job, and who holds its row. *)

\* After a restart the same workers are busy, and hold what was not requeued.
LEMMA StartHolds ==
  ASSUME TypeOK, NEW w \in Workers, Start(w), NEW v \in Workers, NEW j \in JobIds
  PROVE  /\ Busy(v, j)' <=> Busy(v, j)
         /\ Busy(v, j) => workers'[v] = workers[v]
         /\ Holds(v, j)' <=> Holds(v, j) /\ ~Stale(j)
<1>1. /\ workers'[w].phase \in {"idle", "down"} /\ workers[w].phase = "down"
      /\ v # w => workers'[v] = workers[v]
  BY LeaveWrite DEF Start
<1>2. /\ ~Stale(j) => jobs'[j] = jobs[j]
      /\ Stale(j) => jobs'[j].state = "queued"
  BY RequeueEffect DEF Start
<1>3. /\ Busy(v, j)' <=> Busy(v, j)
      /\ Busy(v, j) => workers'[v] = workers[v]
  BY <1>1 DEF Busy, InIteration
<1> QED
  BY <1>2, <1>3 DEF Holds

\* A claim makes its worker, which was busy with nothing, the holder of the row.
LEMMA ClaimHolds ==
  ASSUME TypeOK, Core, NEW w \in Workers, Claim(w), NEW v \in Workers, NEW j \in JobIds
  PROVE  /\ ~Busy(w, j) /\ (Busy(w, j)' <=> j = NextJob) /\ (Holds(w, j)' <=> j = NextJob)
         /\ v # w => /\ workers'[v] = workers[v]
                     /\ Busy(v, j)' <=> Busy(v, j)
                     /\ Holds(v, j)' <=> Holds(v, j)
<1> DEFINE n == NextJob
<1>1. /\ n \in JobIds /\ jobs[n].state = "queued" /\ workers[w].phase = "idle"
      /\ \A k \in JobIds : k # n => jobs'[k] = jobs[k]
      /\ jobs'[n].state = "running" /\ jobs'[n].lockedBy = w
      /\ workers' = [workers EXCEPT ![w] =
            [phase |-> "handling", job |-> n, attempts |-> jobs[n].attempts + 1,
             cancelled |-> workers[w].cancelled]]
  BY ClaimEffect DEF Core
<1> HIDE DEF n
<1>2. /\ workers'[w].phase = "handling" /\ workers'[w].job = n
      /\ v # w => workers'[v] = workers[v]
  BY <1>1 DEF TypeOK
<1>3. ~Busy(w, j) /\ (Busy(w, j)' <=> j = n)
  BY <1>1, <1>2 DEF Busy, InIteration
<1>4. Holds(w, j)' <=> j = n
  BY <1>1, <1>3 DEF Holds
<1>5. v # w => Busy(v, j)' <=> Busy(v, j)
  BY <1>2 DEF Busy, InIteration
<1>6. v # w => Holds(v, j)' <=> Holds(v, j)
  BY <1>1, <1>5 DEF Holds
<1> QED
  BY <1>2, <1>3, <1>4, <1>5, <1>6 DEF n

\* A recorded outcome ends the attempt of its worker, and nobody holds the row.
LEMMA RecordHolds ==
  ASSUME TypeOK, Core, NEW w \in Workers, RecordOutcome(w), NEW v \in Workers, NEW j \in JobIds
  PROVE  /\ Busy(v, j)' <=> Busy(v, j) /\ v # w
         /\ Busy(w, j) <=> j = workers[w].job
         /\ v # w => workers'[v] = workers[v]
         /\ Holds(v, j)' <=> Holds(v, j) /\ j # workers[w].job
<1>1. /\ InIteration(w) /\ workers[w].job \in JobIds
      /\ \A k \in JobIds : k # workers[w].job => jobs'[k] = jobs[k]
      /\ jobs'[workers[w].job].state # "running"
      /\ v # w => workers'[v] = workers[v]
      /\ workers'[w].phase \in {"idle", "down", "auditing"}
  BY RecordEffect DEF Core
<1>2. /\ Busy(v, j)' <=> Busy(v, j) /\ v # w
      /\ Busy(w, j) <=> j = workers[w].job
  BY <1>1 DEF Busy, InIteration
<1> QED
  BY <1>1, <1>2 DEF Holds

\* A worker that leaves is no longer busy and holds nothing.
LEMMA LeaveHolds ==
  ASSUME TypeOK, NEW w \in Workers, Leaves(w), NEW v \in Workers, NEW j \in JobIds
  PROVE  /\ Busy(v, j)' <=> Busy(v, j) /\ v # w
         /\ v # w => workers'[v] = workers[v]
         /\ Holds(v, j)' <=> Holds(v, j) /\ v # w
<1>1. /\ jobs' = jobs /\ workers'[w].phase \in {"idle", "down"}
      /\ v # w => workers'[v] = workers[v]
  BY LeaveEffect
<1>2. Busy(v, j)' <=> Busy(v, j) /\ v # w
  BY <1>1 DEF Busy, InIteration
<1> QED
  BY <1>1, <1>2 DEF Holds

\* The steps that change nobody's attempt.
Idles ==
  \/ \E w \in Workers : \/ \E outcome \in {"ok", "error", "interrupted"} : HandlerReturns(w, outcome)
                        \/ Shutdown(w) \/ CountQueued(w)
  \/ (\E w \in Workers : EnqueueSweep(w)) \/ \E kind \in Kinds \ {Sweep} : EnqueueWork(kind)
  \/ Tick

\* They leave the attempts that workers are in as they are,
LEMMA IdleAttempts ==
  ASSUME TypeOK, Idles, NEW v \in Workers
  PROVE  /\ InIteration(v)' <=> InIteration(v)
         /\ InIteration(v) => workers'[v].job = workers[v].job
         /\ InIteration(v) => workers'[v].attempts = workers[v].attempts
<1> DEFINE Attempts == /\ InIteration(v)' <=> InIteration(v)
                       /\ InIteration(v) => workers'[v].job = workers[v].job
                       /\ InIteration(v) => workers'[v].attempts = workers[v].attempts
<1>1. ASSUME NEW w \in Workers, NEW outcome \in {"ok", "error", "interrupted"},
             HandlerReturns(w, outcome)
      PROVE  Attempts
  <2>1. outcome \in Phases /\ workers' = [workers EXCEPT ![w].phase = outcome]
        /\ workers[w].phase = "handling"
    BY <1>1 DEF HandlerReturns, Phases
  <2>2. /\ workers'[w].phase = outcome /\ workers'[w].job = workers[w].job
        /\ workers'[w].attempts = workers[w].attempts
        /\ v # w => workers'[v] = workers[v]
    BY <2>1, PhaseWrite
  <2> QED
    BY <2>1, <2>2 DEF InIteration
<1>2. ASSUME NEW w \in Workers, Shutdown(w) PROVE Attempts
  <2>1. /\ workers'[w].phase = workers[w].phase /\ workers'[w].job = workers[w].job
        /\ workers'[w].attempts = workers[w].attempts
        /\ v # w => workers'[v] = workers[v]
    BY <1>2, CancelWrite DEF Shutdown
  <2> QED
    BY <2>1 DEF InIteration
<1>3. ASSUME workers' = workers PROVE Attempts
  BY <1>3 DEF InIteration
<1>4. ASSUME (\E w \in Workers : EnqueueSweep(w)) \/ \E kind \in Kinds \ {Sweep} : EnqueueWork(kind)
      PROVE  workers' = workers
  BY <1>4, EnqueueStep
<1>5. ASSUME Tick \/ \E w \in Workers : CountQueued(w) PROVE workers' = workers
  BY <1>5 DEF Tick, CountQueued
<1> QED
  BY <1>1, <1>2, <1>3, <1>4, <1>5 DEF Idles

\* and the rows, but for what a tick does to their times.
LEMMA IdleRows ==
  ASSUME TypeOK, Idles, NEW j \in JobIds
  PROVE  /\ j \in JobIds'
         /\ jobs'[j].state = jobs[j].state /\ jobs'[j].attempts = jobs[j].attempts
         /\ jobs'[j].lockedBy = jobs[j].lockedBy
         /\ Tick \/ jobs'[j] = jobs[j]
<1>1. ASSUME jobs' = jobs PROVE j \in JobIds' /\ jobs'[j] = jobs[j]
  BY <1>1 DEF JobIds
<1>2. ASSUME NEW w \in Workers, \/ Shutdown(w) \/ CountQueued(w)
             \/ \E outcome \in {"ok", "error", "interrupted"} : HandlerReturns(w, outcome)
      PROVE  jobs' = jobs
  BY <1>2 DEF Shutdown, CountQueued, HandlerReturns
<1>3. ASSUME (\E w \in Workers : EnqueueSweep(w)) \/ \E kind \in Kinds \ {Sweep} : EnqueueWork(kind)
      PROVE  j \in JobIds' /\ jobs'[j] = jobs[j]
  <2>1. PICK kind \in Kinds, due \in Nat : EnqueueJob(kind, due)
    BY <1>3, EnqueueStep
  <2>2. due \in Int
    OBVIOUS
  <2>3. JobIds' = JobIds \cup {Len(jobs) + 1} /\ \A k \in JobIds : jobs'[k] = jobs[k]
    BY <2>1, <2>2, EnqueueEffect
  <2> QED
    BY <2>3
<1>4. CASE Tick
  BY <1>4, TickEffect
<1> QED
  BY <1>1, <1>2, <1>3, <1>4 DEF Idles

\* So the same workers are busy with a job and hold its row.
LEMMA IdleHolds ==
  ASSUME TypeOK, Idles, NEW v \in Workers, NEW j \in JobIds
  PROVE  (Busy(v, j)' <=> Busy(v, j)) /\ (Holds(v, j)' <=> Holds(v, j))
<1>1. Busy(v, j)' <=> Busy(v, j)
  BY IdleAttempts DEF Busy
<1> QED
  BY <1>1, IdleRows DEF Holds

\* The steps of the queue again, those that change nobody's attempt taken together.
LEMMA AttemptCases ==
  ASSUME Next
  PROVE  \/ \E w \in Workers : Start(w) \/ Claim(w) \/ RecordOutcome(w) \/ Leaves(w)
         \/ Idles
BY StepCases DEF Idles

\* The count of overruns is a natural and never falls.
LEMMA OverrunsGrow ==
  ASSUME TypeOK, TypeOK', Next
  PROVE  faults.overruns \in Nat /\ faults'.overruns \in Nat /\ faults.overruns <= faults'.overruns
<1>1. faults.overruns \in Nat /\ faults'.overruns \in Nat
  <2>1. faults \in FaultsType /\ faults' \in FaultsType
    BY DEF TypeOK, FaultsType
  <2> QED
    BY <2>1 DEF FaultsType
<1>2. CASE Tick
  BY <1>1, <1>2, OverrunEffect
<1>3. ASSUME NEW w \in Workers, Leaves(w) PROVE faults'.overruns = faults.overruns
  BY <1>3, LeaveEffect
<1>4. ASSUME NEW w \in Workers, Shutdown(w) PROVE faults'.overruns = faults.overruns
  BY <1>4, InterruptionEffect DEF Shutdown
<1>5. ASSUME (\E w \in Workers : EnqueueSweep(w)) \/ \E kind \in Kinds \ {Sweep} : EnqueueWork(kind)
      PROVE  faults'.overruns = faults.overruns
  BY <1>5, EnqueueStep
<1>6. ASSUME NEW w \in Workers,
             \/ Start(w) \/ Claim(w) \/ RecordOutcome(w) \/ CountQueued(w)
             \/ \E outcome \in {"ok", "error", "interrupted"} : HandlerReturns(w, outcome)
      PROVE  faults'.overruns = faults.overruns
  BY <1>6 DEF Start, Claim, RecordOutcome, CountQueued, HandlerReturns
<1> QED
  BY <1>1, <1>2, <1>3, <1>4, <1>5, <1>6, StepCases
-----------------------------------------------------------------------------
(* Without an overrun, handlers hold what they work on. *)

Held == HandlerHoldsJob /\ LeasesValid /\ HolderCounts

\* Every step keeps rows and the workers busy with them in agreement.
LEMMA HeldStep ==
  ASSUME TypeOK, TypeOK', Core, Held, Next
  PROVE  Held'
<1> USE DEF Held
<1>0. /\ \A v \in Workers : InIteration(v) => workers[v].job \in JobIds
      /\ \A j \in JobIds : jobs[j].age \in Nat /\ jobs[j].attempts \in Nat
      /\ Lease \in Nat /\ Lease > 0
      /\ faults.overruns \in Nat /\ faults'.overruns \in Nat /\ faults.overruns <= faults'.overruns
  BY ClaimKnown, RowTypes, ScheduleAssumption, OverrunsGrow DEF Core
<1>1. \A v \in Workers : InIteration(v) => Busy(v, workers[v].job)
  BY DEF Busy
<1>2. ASSUME faults'.overruns = 0, NEW v \in Workers, InIteration(v)
      PROVE  /\ workers[v].job \in JobIds /\ jobs[workers[v].job].state = "running"
             /\ jobs[workers[v].job].lockedBy = v
             /\ jobs[workers[v].job].attempts = workers[v].attempts
             /\ jobs[workers[v].job].age < Lease
             /\ Holds(v, workers[v].job)
  <2>1. faults.overruns = 0 /\ Busy(v, workers[v].job)
    BY <1>0, <1>1, <1>2
  <2>2. /\ jobs[workers[v].job].state = "running" /\ jobs[workers[v].job].lockedBy = v
        /\ jobs[workers[v].job].attempts = workers[v].attempts
        /\ jobs[workers[v].job].age < Lease
    BY <1>2, <2>1 DEF HandlerHoldsJob, LeasesValid
  <2> QED
    BY <1>0, <1>2, <2>1, <2>2 DEF Holds
<1>4. ASSUME NEW w \in Workers, Start(w) PROVE Held'
  <2>1. JobIds' = JobIds /\ \A j \in JobIds : jobs'[j].attempts = jobs[j].attempts
    BY <1>4, RequeueEffect DEF Start
  <2>2. \A v \in Workers, j \in JobIds : Holds(v, j)' => Holds(v, j) /\ workers'[v] = workers[v]
    BY <1>4, StartHolds DEF Holds
  <2>3. HolderCounts'
    BY <2>1, <2>2 DEF HolderCounts
  <2>4. ASSUME faults'.overruns = 0, NEW v \in Workers, InIteration(v)'
        PROVE  InIteration(v) /\ workers'[v] = workers[v] /\ jobs'[workers[v].job] = jobs[workers[v].job]
    <3>1. /\ workers'[w].phase \in {"idle", "down"} /\ \A u \in Workers : u # w => workers'[u] = workers[u]
      BY <1>4, LeaveWrite DEF Start
    <3>2. v # w /\ workers'[v] = workers[v] /\ InIteration(v)
      BY <2>4, <3>1 DEF InIteration
    <3>3. ~Stale(workers[v].job)
      BY <1>0, <1>2, <2>4, <3>2 DEF Stale
    <3> QED
      BY <1>0, <1>4, <3>2, <3>3, RequeueEffect DEF Start
  <2>5. HandlerHoldsJob' /\ LeasesValid'
    BY <1>2, <2>4 DEF HandlerHoldsJob, LeasesValid
  <2> QED
    BY <2>3, <2>5
<1>5. ASSUME NEW w \in Workers, Claim(w) PROVE Held'
  <2> DEFINE n == NextJob
  <2>1. /\ JobIds' = JobIds /\ n \in JobIds /\ jobs[n].state = "queued"
        /\ \A k \in JobIds : k # n => jobs'[k] = jobs[k]
        /\ jobs'[n].state = "running" /\ jobs'[n].lockedBy = w
        /\ jobs'[n].attempts = jobs[n].attempts + 1 /\ jobs'[n].age = jobs[n].age
        /\ workers' = [workers EXCEPT ![w] =
              [phase |-> "handling", job |-> n, attempts |-> jobs[n].attempts + 1,
               cancelled |-> workers[w].cancelled]]
    BY <1>5, ClaimEffect DEF Core
  <2>2. \A v \in Workers, j \in JobIds :
          /\ Holds(w, j)' <=> j = n
          /\ v # w => workers'[v] = workers[v] /\ (Holds(v, j)' <=> Holds(v, j))
    BY <1>5, ClaimHolds
  <2> HIDE DEF n
  <2>3. workers'[w].job = n /\ workers'[w].attempts = jobs[n].attempts + 1
    BY <2>1 DEF TypeOK
  <2>4. jobs[n].age = 0
    BY <2>1 DEF Core, RowsConsistent
  <2>5. HolderCounts'
    <3>1. ASSUME NEW v \in Workers, NEW j \in JobIds, Holds(v, j)'
          PROVE  jobs'[j].attempts = workers'[v].attempts
      <4>1. CASE v = w
        BY <2>1, <2>2, <2>3, <3>1, <4>1
      <4>2. CASE v # w
        <5>1. Holds(v, j) /\ workers'[v] = workers[v]
          BY <2>2, <3>1, <4>2
        <5>2. j # n
          BY <2>1, <5>1 DEF Holds
        <5> QED
          BY <2>1, <5>1, <5>2 DEF HolderCounts
      <4> QED
        BY <4>1, <4>2
    <3> QED
      BY <2>1, <3>1 DEF HolderCounts
  <2>6. ASSUME faults'.overruns = 0, NEW v \in Workers, InIteration(v)'
        PROVE  /\ jobs'[workers'[v].job].state = "running"
               /\ jobs'[workers'[v].job].lockedBy = v
               /\ jobs'[workers'[v].job].attempts = workers'[v].attempts
               /\ jobs'[workers'[v].job].age < Lease
    <3>1. CASE v = w
      BY <1>0, <2>1, <2>3, <2>4, <3>1
    <3>2. CASE v # w
      <4>1. workers'[v] = workers[v] /\ InIteration(v)
        BY <2>1, <2>2, <2>6, <3>2 DEF InIteration
      <4>2. workers[v].job # n
        BY <1>2, <2>1, <2>6, <4>1
      <4> QED
        BY <1>2, <2>1, <2>6, <4>1, <4>2
    <3> QED
      BY <3>1, <3>2
  <2> QED
    BY <2>5, <2>6 DEF HandlerHoldsJob, LeasesValid
<1>6. ASSUME NEW w \in Workers, RecordOutcome(w) PROVE Held'
  <2> DEFINE j == workers[w].job
  <2>1. /\ InIteration(w) /\ j \in JobIds /\ JobIds' = JobIds
        /\ \A k \in JobIds : k # j => jobs'[k] = jobs[k]
        /\ workers'[w].phase \in {"idle", "down", "auditing"}
        /\ \A v \in Workers : v # w => workers'[v] = workers[v]
    BY <1>6, RecordEffect DEF Core
  <2>2. \A v \in Workers, k \in JobIds : Holds(v, k)' => Holds(v, k) /\ k # j
    BY <1>6, RecordHolds
  <2> HIDE DEF j
  <2>3. HolderCounts'
    <3>1. \A v \in Workers, k \in JobIds : Holds(v, k)' => v # w
      BY <2>1 DEF Holds, Busy, InIteration
    <3> QED
      BY <2>1, <2>2, <3>1 DEF HolderCounts
  <2>4. ASSUME faults'.overruns = 0, NEW v \in Workers, InIteration(v)'
        PROVE  InIteration(v) /\ workers'[v] = workers[v] /\ jobs'[workers[v].job] = jobs[workers[v].job]
    <3>1. v # w /\ workers'[v] = workers[v] /\ InIteration(v)
      BY <2>1, <2>4 DEF InIteration
    <3>2. jobs[workers[v].job].lockedBy = v /\ jobs[j].lockedBy = w /\ workers[v].job \in JobIds
      BY <1>2, <2>1, <2>4, <3>1 DEF j
    <3> QED
      BY <2>1, <3>1, <3>2
  <2>5. HandlerHoldsJob' /\ LeasesValid'
    BY <1>2, <2>4 DEF HandlerHoldsJob, LeasesValid
  <2> QED
    BY <2>3, <2>5
<1>7. ASSUME NEW w \in Workers, Leaves(w) PROVE Held'
  <2>1. /\ jobs' = jobs /\ workers'[w].phase \in {"idle", "down"}
        /\ \A v \in Workers : v # w => workers'[v] = workers[v]
    BY <1>7, LeaveEffect
  <2>2. JobIds' = JobIds
    BY <2>1 DEF JobIds
  <2>3. HolderCounts'
    BY <2>1, <2>2 DEF HolderCounts, Holds, Busy, InIteration
  <2>4. ASSUME faults'.overruns = 0, NEW v \in Workers, InIteration(v)'
        PROVE  InIteration(v) /\ workers'[v] = workers[v]
    BY <2>1, <2>4 DEF InIteration
  <2>5. HandlerHoldsJob' /\ LeasesValid'
    BY <1>2, <2>1, <2>4 DEF HandlerHoldsJob, LeasesValid
  <2> QED
    BY <2>3, <2>5
<1>8. CASE Idles
  <2>1. ASSUME NEW v \in Workers, InIteration(v)'
        PROVE  /\ InIteration(v) /\ workers'[v].job = workers[v].job
               /\ workers'[v].attempts = workers[v].attempts
               /\ workers[v].job \in JobIds
    BY <1>0, <1>8, <2>1, IdleAttempts
  <2>2. HolderCounts'
    <3>1. ASSUME NEW v \in Workers, NEW j \in JobIds', Holds(v, j)'
          PROVE  jobs'[j].attempts = workers'[v].attempts
      <4>1. InIteration(v)' /\ workers'[v].job = j
        BY <3>1 DEF Holds, Busy
      <4>2. j \in JobIds /\ workers'[v].attempts = workers[v].attempts
        BY <2>1, <4>1
      <4>3. Holds(v, j) /\ jobs'[j].attempts = jobs[j].attempts
        BY <1>8, <3>1, <4>2, IdleHolds, IdleRows
      <4> QED
        BY <4>2, <4>3 DEF HolderCounts
    <3> QED
      BY <3>1 DEF HolderCounts
  <2>3. ASSUME faults'.overruns = 0, NEW v \in Workers, InIteration(v)'
        PROVE  /\ jobs'[workers'[v].job].state = "running"
               /\ jobs'[workers'[v].job].lockedBy = v
               /\ jobs'[workers'[v].job].attempts = workers'[v].attempts
               /\ jobs'[workers'[v].job].age < Lease
    <3> DEFINE j == workers[v].job
    <3>1. /\ InIteration(v) /\ workers'[v].job = j /\ workers'[v].attempts = workers[v].attempts
          /\ j \in JobIds
      BY <2>1, <2>3
    <3>2. /\ jobs[j].state = "running" /\ jobs[j].lockedBy = v
          /\ jobs[j].attempts = workers[v].attempts /\ jobs[j].age < Lease
      BY <1>2, <2>3, <3>1
    <3>3. /\ jobs'[j].state = jobs[j].state /\ jobs'[j].attempts = jobs[j].attempts
          /\ jobs'[j].lockedBy = jobs[j].lockedBy
          /\ Tick \/ jobs'[j] = jobs[j]
      BY <1>8, <3>1, IdleRows
    <3>4. jobs'[j].age < Lease
      <4>1. CASE Tick
        <5>1. Overrunning = {}
          BY <1>0, <2>3, <4>1, OverrunEffect
        <5>2. jobs[j].age # Lease - 1
          BY <3>1, <3>2, <5>1 DEF Overrunning
        <5>3. jobs'[j].age = jobs[j].age + 1
          BY <3>1, <3>2, <4>1, TickEffect
        <5>4. jobs[j].age \in Nat
          BY <1>0, <3>1
        <5> QED
          BY <1>0, <3>2, <5>2, <5>3, <5>4
      <4>2. CASE jobs'[j] = jobs[j]
        BY <3>2, <4>2
      <4> QED
        BY <3>3, <4>1, <4>2
    <3> QED
      BY <3>1, <3>2, <3>3, <3>4
  <2> QED
    BY <2>2, <2>3 DEF HandlerHoldsJob, LeasesValid
<1> QED
  BY <1>4, <1>5, <1>6, <1>7, <1>8, AttemptCases
-----------------------------------------------------------------------------
(* Counting. *)

\* A set that gains, loses or exchanges at most one element.
LEMMA SetCounts ==
  ASSUME NEW B, IsFiniteSet(B), NEW A
  PROVE  /\ Cardinality(B) \in Nat
         /\ A \subseteq B => Cardinality(A) \in Nat /\ Cardinality(A) <= Cardinality(B)
         /\ \A x : A \subseteq B \cup {x} => Cardinality(A) \in Nat /\ Cardinality(A) <= Cardinality(B) + 1
         /\ \A x \in B : A \subseteq B \ {x} => Cardinality(A) \in Nat /\ Cardinality(A) + 1 <= Cardinality(B)
         /\ \A x \in B : \A y : A \subseteq (B \ {x}) \cup {y} =>
              Cardinality(A) \in Nat /\ Cardinality(A) <= Cardinality(B)
<1>1. Cardinality(B) \in Nat
  BY FS_CardinalityType
<1>2. ASSUME NEW C, IsFiniteSet(C), NEW D, D \subseteq C
      PROVE  Cardinality(D) \in Nat /\ Cardinality(C) \in Nat /\ Cardinality(D) <= Cardinality(C)
  BY <1>2, FS_Subset, FS_CardinalityType
<1>3. ASSUME NEW C, IsFiniteSet(C), NEW x
      PROVE  /\ IsFiniteSet(C \cup {x}) /\ Cardinality(C) \in Nat
             /\ Cardinality(C \cup {x}) \in Nat /\ Cardinality(C \cup {x}) <= Cardinality(C) + 1
  <2>1. /\ IsFiniteSet(C \cup {x})
        /\ Cardinality(C \cup {x}) = IF x \in C THEN Cardinality(C) ELSE Cardinality(C) + 1
    BY <1>3, FS_AddElement
  <2>2. Cardinality(C) \in Nat
    BY <1>3, FS_CardinalityType
  <2> QED
    BY <2>1, <2>2
<1>4. ASSUME NEW x \in B
      PROVE  /\ IsFiniteSet(B \ {x}) /\ Cardinality(B \ {x}) \in Nat
             /\ Cardinality(B \ {x}) = Cardinality(B) - 1
  <2>1. /\ IsFiniteSet(B \ {x})
        /\ Cardinality(B \ {x}) = Cardinality(B) - 1
    BY FS_RemoveElement
  <2>2. Cardinality(B \ {x}) \in Nat
    BY <2>1, FS_CardinalityType
  <2> QED
    BY <2>1, <2>2
<1>5. ASSUME NEW x, A \subseteq B \cup {x}
      PROVE  Cardinality(A) \in Nat /\ Cardinality(A) <= Cardinality(B) + 1
  <2>1. /\ IsFiniteSet(B \cup {x}) /\ Cardinality(B \cup {x}) \in Nat
        /\ Cardinality(B \cup {x}) <= Cardinality(B) + 1
    BY <1>3
  <2>2. Cardinality(A) \in Nat /\ Cardinality(A) <= Cardinality(B \cup {x})
    BY <1>2, <1>5, <2>1
  <2> QED
    BY <1>1, <2>1, <2>2
<1>6. ASSUME NEW x \in B, A \subseteq B \ {x}
      PROVE  Cardinality(A) \in Nat /\ Cardinality(A) + 1 <= Cardinality(B)
  <2>1. IsFiniteSet(B \ {x}) /\ Cardinality(B \ {x}) \in Nat /\ Cardinality(B \ {x}) = Cardinality(B) - 1
    BY <1>4
  <2>2. Cardinality(A) \in Nat /\ Cardinality(A) <= Cardinality(B \ {x})
    BY <1>2, <1>6, <2>1
  <2> QED
    BY <1>1, <2>1, <2>2
<1>7. ASSUME NEW x \in B, NEW y, A \subseteq (B \ {x}) \cup {y}
      PROVE  Cardinality(A) \in Nat /\ Cardinality(A) <= Cardinality(B)
  <2> DEFINE C == B \ {x}
  <2>1. IsFiniteSet(C) /\ Cardinality(C) \in Nat /\ Cardinality(C) = Cardinality(B) - 1
    BY <1>4
  <2> HIDE DEF C
  <2>2. /\ IsFiniteSet(C \cup {y}) /\ Cardinality(C \cup {y}) \in Nat
        /\ Cardinality(C \cup {y}) <= Cardinality(C) + 1
    BY <1>3, <2>1
  <2>3. Cardinality(A) \in Nat /\ Cardinality(A) <= Cardinality(C \cup {y})
    <3>1. A \subseteq C \cup {y}
      BY <1>7 DEF C
    <3> QED
      BY <1>2, <2>2, <3>1
  <2> QED
    BY <1>1, <2>1, <2>2, <2>3
<1>8. A \subseteq B => Cardinality(A) \in Nat /\ Cardinality(A) <= Cardinality(B)
  BY <1>2
<1> QED
  BY <1>1, <1>5, <1>6, <1>7, <1>8, Zenon

\* The sets that are counted are finite.
LEMMA CountsFinite ==
  ASSUME TypeOK, NEW j
  PROVE  /\ IsFiniteSet(Strays(j)) /\ IsFiniteSet(Doomed(j))
         /\ IsFiniteSet(Cancelled) /\ IsFiniteSet(Orphans)
         /\ Cardinality(Strays(j)) \in Nat /\ Cardinality(Doomed(j)) \in Nat
         /\ Cardinality(Cancelled) \in Nat /\ Cardinality(Orphans) \in Nat
<1>1. IsFiniteSet(Workers) /\ IsFiniteSet(JobIds)
  <2>1. JobIds = 1..Len(jobs) /\ Len(jobs) \in Nat
    BY DEF TypeOK, JobIds
  <2> QED
    BY <2>1, FS_Interval, WorkersAssumption
<1>2. Strays(j) \subseteq Workers /\ Doomed(j) \subseteq Workers /\ Cancelled \subseteq Workers
      /\ Orphans \subseteq JobIds
  BY DEF Strays, Doomed, Cancelled, Orphans
<1>3. /\ IsFiniteSet(Strays(j)) /\ IsFiniteSet(Doomed(j))
      /\ IsFiniteSet(Cancelled) /\ IsFiniteSet(Orphans)
  BY <1>1, <1>2, FS_Subset
<1> QED
  BY <1>3, FS_CardinalityType
-----------------------------------------------------------------------------
(* Orphans come from faults. *)

\* No new orphan and no new cancellation keeps the account.
LEMMA OrphansFrame ==
  ASSUME TypeOK, OrphansAccounted, Orphans' \subseteq Orphans, Cancelled' \subseteq Cancelled,
         Interruptions' = Interruptions
  PROVE  OrphansAccounted'
<1>1. /\ IsFiniteSet(Cancelled) /\ IsFiniteSet(Orphans) /\ Interruptions \in Nat
  BY CountsFinite, FaultTypes
<1> DEFINE o == Cardinality(Orphans)
           oo == Cardinality(Orphans')
           c == Cardinality(Cancelled)
           cc == Cardinality(Cancelled')
<1>2. o \in Nat /\ oo \in Nat /\ oo <= o
  BY <1>1, SetCounts
<1>3. c \in Nat /\ cc \in Nat /\ cc <= c
  BY <1>1, SetCounts
<1>4. o + c <= Interruptions
  BY DEF OrphansAccounted
<1>5. oo + cc <= Interruptions
  <2> HIDE DEF o, oo, c, cc
  <2> QED
    BY <1>1, <1>2, <1>3, <1>4
<1> QED
  BY <1>5 DEF OrphansAccounted

\* Orphans are the running rows that nobody is busy with.
LEMMA OrphansAre ==
  Orphans = {j \in JobIds : jobs[j].state = "running" /\ \A w \in Workers : ~Busy(w, j)}
BY DEF Orphans, Busy

\* Every step keeps the account of orphans.
LEMMA OrphansStep ==
  ASSUME TypeOK, TypeOK', Core, OrphansAccounted, Next
  PROVE  OrphansAccounted'
<1>0. Orphans' = {j \in JobIds' : jobs'[j].state = "running" /\ \A w \in Workers : ~Busy(w, j)'}
  BY DEF Orphans, Busy
<1> DEFINE New == {j \in JobIds' : jobs'[j].state = "running" /\ \A w \in Workers : ~Busy(w, j)'}
           Old == {j \in JobIds : jobs[j].state = "running" /\ \A w \in Workers : ~Busy(w, j)}
<1>1. ASSUME NEW w \in Workers, Start(w) PROVE OrphansAccounted'
  <2>1. JobIds' = JobIds /\ \A j \in JobIds : jobs'[j].state = "running" => jobs[j].state = "running"
    BY <1>1, RequeueEffect DEF Start
  <2>2. \A v \in Workers, j \in JobIds : Busy(v, j)' <=> Busy(v, j)
    BY <1>1, StartHolds
  <2>3. New \subseteq Old
    BY <2>1, <2>2
  <2>4. Cancelled' \subseteq Cancelled
    <3>1. ~workers'[w].cancelled /\ \A v \in Workers : v # w => workers'[v] = workers[v]
      BY <1>1, LeaveWrite DEF Start
    <3> QED
      BY <3>1 DEF Cancelled
  <2>5. Interruptions' = Interruptions
    BY <1>1 DEF Start, Interruptions
  <2> QED
    BY <1>0, <2>3, <2>4, <2>5, OrphansFrame, OrphansAre
<1>2. ASSUME NEW w \in Workers, Claim(w) PROVE OrphansAccounted'
  <2> DEFINE n == NextJob
  <2>1. /\ JobIds' = JobIds /\ n \in JobIds
        /\ \A k \in JobIds : k # n => jobs'[k] = jobs[k]
        /\ workers' = [workers EXCEPT ![w] =
              [phase |-> "handling", job |-> n, attempts |-> jobs[n].attempts + 1,
               cancelled |-> workers[w].cancelled]]
    BY <1>2, ClaimEffect DEF Core
  <2>2. /\ \A j \in JobIds : ~Busy(w, j) /\ (Busy(w, j)' <=> j = n)
        /\ \A v \in Workers, j \in JobIds : v # w => Busy(v, j)' <=> Busy(v, j)
    BY <1>2, ClaimHolds
  <2> HIDE DEF n
  <2>3. New \subseteq Old
    BY <2>1, <2>2
  <2>4. Cancelled' \subseteq Cancelled
    BY <2>1 DEF Cancelled, TypeOK
  <2>5. Interruptions' = Interruptions
    BY <1>2 DEF Claim, Interruptions
  <2> QED
    BY <1>0, <2>3, <2>4, <2>5, OrphansFrame, OrphansAre
<1>3. ASSUME NEW w \in Workers, RecordOutcome(w) PROVE OrphansAccounted'
  <2> DEFINE j == workers[w].job
  <2>1. /\ JobIds' = JobIds /\ jobs'[j].state # "running"
        /\ \A k \in JobIds : k # j => jobs'[k] = jobs[k]
        /\ ~workers'[w].cancelled /\ \A v \in Workers : v # w => workers'[v] = workers[v]
    BY <1>3, RecordEffect DEF Core
  <2>2. \A v \in Workers, k \in JobIds :
          (Busy(v, k)' <=> Busy(v, k) /\ v # w) /\ (Busy(w, k) <=> k = j)
    BY <1>3, RecordHolds
  <2> HIDE DEF j
  <2>3. New \subseteq Old
    BY <2>1, <2>2
  <2>4. Cancelled' \subseteq Cancelled
    BY <2>1 DEF Cancelled
  <2>5. Interruptions' = Interruptions
    BY <1>3 DEF RecordOutcome, Interruptions
  <2> QED
    BY <1>0, <2>3, <2>4, <2>5, OrphansFrame, OrphansAre
<1>4. ASSUME NEW w \in Workers, Leaves(w) PROVE OrphansAccounted'
  <2> DEFINE j == workers[w].job
  <2>1. /\ jobs' = jobs /\ ~workers'[w].cancelled
        /\ \A v \in Workers : v # w => workers'[v] = workers[v]
        /\ \/ Interruptions' = Interruptions + 1
           \/ /\ Interruptions' = Interruptions
              /\ InIteration(w) => workers[w].cancelled \/ jobs[j].state # "running"
    BY <1>4, LeaveEffect
  <2>2. \A v \in Workers, k \in JobIds : Busy(v, k)' <=> Busy(v, k) /\ v # w
    BY <1>4, LeaveHolds
  <2>3. JobIds' = JobIds
    BY <2>1 DEF JobIds
  <2>4. New \subseteq Old \cup {j} /\ (~InIteration(w) \/ jobs[j].state # "running" => New \subseteq Old)
    BY <2>1, <2>2, <2>3 DEF Busy
  <2>5. Cancelled' \subseteq Cancelled \ {w}
    BY <2>1 DEF Cancelled
  <2>6. IsFiniteSet(Old) /\ IsFiniteSet(Cancelled) /\ Interruptions \in Nat
        /\ Cardinality(Old) + Cardinality(Cancelled) <= Interruptions
    BY CountsFinite, FaultTypes, OrphansAre DEF OrphansAccounted
  <2> HIDE DEF New, Old, j
  <2>7. CASE Interruptions' = Interruptions + 1
    <3>1. /\ Cardinality(Old) \in Nat /\ Cardinality(New) \in Nat
          /\ Cardinality(New) <= Cardinality(Old) + 1
      BY <2>4, <2>6, SetCounts
    <3>2. /\ Cardinality(Cancelled) \in Nat /\ Cardinality(Cancelled') \in Nat
          /\ Cardinality(Cancelled') <= Cardinality(Cancelled)
      <4>1. Cancelled' \subseteq Cancelled
        BY <2>5
      <4> QED
        BY <2>6, <4>1, SetCounts
    <3>3. Cardinality(New) + Cardinality(Cancelled') <= Interruptions'
      BY <2>6, <2>7, <3>1, <3>2
    <3> QED
      BY <1>0, <3>3 DEF OrphansAccounted, New
  <2>8. CASE Interruptions' = Interruptions /\ (~InIteration(w) \/ jobs[j].state # "running")
    <3>1. New \subseteq Old /\ Cancelled' \subseteq Cancelled
      BY <2>4, <2>5, <2>8
    <3> QED
      BY <1>0, <2>8, <3>1, OrphansFrame, OrphansAre DEF New, Old
  <2>9. CASE Interruptions' = Interruptions /\ InIteration(w) /\ workers[w].cancelled
    <3>1. /\ Cardinality(Old) \in Nat /\ Cardinality(New) \in Nat
          /\ Cardinality(New) <= Cardinality(Old) + 1
      BY <2>4, <2>6, SetCounts
    <3>2. /\ Cardinality(Cancelled) \in Nat /\ Cardinality(Cancelled') \in Nat
          /\ Cardinality(Cancelled') + 1 <= Cardinality(Cancelled)
      <4>1. w \in Cancelled
        BY <2>9 DEF Cancelled
      <4> QED
        BY <2>5, <2>6, <4>1, SetCounts
    <3>3. Cardinality(New) + Cardinality(Cancelled') <= Interruptions'
      BY <2>6, <2>9, <3>1, <3>2
    <3> QED
      BY <1>0, <3>3 DEF OrphansAccounted, New
  <2> QED
    BY <2>1, <2>7, <2>8, <2>9
<1>5. CASE Idles
  <2>1. New \subseteq Old
    <3>1. ASSUME NEW j \in JobIds', jobs'[j].state = "running" PROVE j \in JobIds
      <4>1. ASSUME \E kind \in Kinds, due \in Nat : EnqueueJob(kind, due) PROVE j \in JobIds
        <5>1. PICK kind \in Kinds, due \in Nat : EnqueueJob(kind, due)
          BY <4>1
        <5>2. due \in Int
          OBVIOUS
        <5>3. /\ JobIds' = JobIds \cup {Len(jobs) + 1}
              /\ jobs'[Len(jobs) + 1] = [kind |-> kind, state |-> "queued", attempts |-> 0,
                                         due |-> due, age |-> 0, lockedBy |-> NoWorker]
          BY <5>1, <5>2, EnqueueEffect
        <5>4. jobs'[Len(jobs) + 1].state = "queued"
          BY <5>3
        <5> QED
          BY <3>1, <5>3, <5>4
      <4>2. ASSUME jobs' = jobs PROVE j \in JobIds
        BY <4>2 DEF JobIds
      <4>3. CASE Tick
        BY <4>3, TickEffect
      <4>4. ASSUME NEW w \in Workers, \/ Shutdown(w) \/ CountQueued(w)
                   \/ \E outcome \in {"ok", "error", "interrupted"} : HandlerReturns(w, outcome)
            PROVE  jobs' = jobs
        BY <4>4 DEF Shutdown, CountQueued, HandlerReturns
      <4> QED
        BY <1>5, <4>1, <4>2, <4>3, <4>4, EnqueueStep DEF Idles
    <3> QED
      BY <1>5, <3>1, IdleRows, IdleHolds
  <2>2. CASE \E w \in Workers : Shutdown(w)
    <3>1. PICK w \in Workers : Shutdown(w)
      BY <2>2
    <3>2. /\ \A v \in Workers : v # w => workers'[v] = workers[v]
          /\ Interruptions' = Interruptions + 1
      BY <3>1, CancelWrite, InterruptionEffect DEF Shutdown
    <3>3. Cancelled' \subseteq Cancelled \cup {w}
      BY <3>2 DEF Cancelled
    <3>4. IsFiniteSet(Old) /\ IsFiniteSet(Cancelled) /\ Interruptions \in Nat
          /\ Cardinality(Old) + Cardinality(Cancelled) <= Interruptions
      BY CountsFinite, FaultTypes, OrphansAre DEF OrphansAccounted
    <3> HIDE DEF New, Old
    <3>5. /\ Cardinality(Old) \in Nat /\ Cardinality(New) \in Nat
          /\ Cardinality(New) <= Cardinality(Old)
      BY <2>1, <3>4, SetCounts
    <3>6. /\ Cardinality(Cancelled) \in Nat /\ Cardinality(Cancelled') \in Nat
          /\ Cardinality(Cancelled') <= Cardinality(Cancelled) + 1
      BY <3>3, <3>4, SetCounts
    <3>7. Cardinality(New) + Cardinality(Cancelled') <= Interruptions'
      BY <3>2, <3>4, <3>5, <3>6
    <3> QED
      BY <1>0, <3>7 DEF OrphansAccounted, New
  <2>3. CASE ~\E w \in Workers : Shutdown(w)
    <3>1. ASSUME NEW w \in Workers, NEW outcome \in {"ok", "error", "interrupted"},
                 HandlerReturns(w, outcome)
          PROVE  Cancelled' \subseteq Cancelled /\ Interruptions' = Interruptions
      <4>1. outcome \in Phases /\ workers' = [workers EXCEPT ![w].phase = outcome]
            /\ faults' = faults
        BY <3>1 DEF HandlerReturns, Phases
      <4>2. /\ workers'[w].cancelled = workers[w].cancelled
            /\ \A v \in Workers : v # w => workers'[v] = workers[v]
        BY <4>1, PhaseWrite
      <4>3. Cancelled' \subseteq Cancelled
        BY <4>2 DEF Cancelled
      <4> QED
        BY <4>1, <4>3 DEF Interruptions
    <3>2. ASSUME workers' = workers, Interruptions' = Interruptions
          PROVE  Cancelled' \subseteq Cancelled /\ Interruptions' = Interruptions
      BY <3>2 DEF Cancelled
    <3>3. ASSUME (\E w \in Workers : EnqueueSweep(w)) \/ \E kind \in Kinds \ {Sweep} : EnqueueWork(kind)
          PROVE  workers' = workers /\ Interruptions' = Interruptions
      BY <3>3, EnqueueStep DEF Interruptions
    <3>4. ASSUME NEW w \in Workers, CountQueued(w)
          PROVE  workers' = workers /\ Interruptions' = Interruptions
      BY <3>4 DEF CountQueued, Interruptions
    <3>5. ASSUME Tick PROVE workers' = workers /\ Interruptions' = Interruptions
      BY <3>5, OverrunEffect DEF Tick
    <3>6. Cancelled' \subseteq Cancelled /\ Interruptions' = Interruptions
      BY <1>5, <2>3, <3>1, <3>2, <3>3, <3>4, <3>5 DEF Idles
    <3> QED
      BY <1>0, <2>1, <3>6, OrphansFrame, OrphansAre
  <2> QED
    BY <2>2, <2>3
<1> QED
  BY <1>1, <1>2, <1>3, <1>4, <1>5, AttemptCases
-----------------------------------------------------------------------------
(* Attempts beyond the budget come from faults. *)

Accounts == DebtBacked /\ AttemptsAccounted

\* The attempts of job j that are made or owed.
Owed(j) == jobs[j].attempts + One(jobs[j].state = "queued")

\* Job j stays within its account in a step in which its debt grows by no more
\* than the faults do, and so do the attempts made or owed, unless those are
\* within the budget anyway.
LEMMA AccountFrame ==
  ASSUME TypeOK, TypeOK', Accounts, NEW j \in JobIds, j \in JobIds',
         Debt(j)' + FaultTotal <= Debt(j) + FaultTotal',
         \/ Owed(j)' <= MaxAttempts
         \/ Owed(j)' + Debt(j)' + FaultTotal <= Owed(j) + Debt(j) + FaultTotal',
         Debt(j)' \in Nat
  PROVE  Debt(j)' <= FaultTotal' /\ Owed(j)' + Debt(j)' <= MaxAttempts + FaultTotal'
<1>1. Debt(j) \in Nat
  BY CountsFinite DEF Debt, One
<1>2. FaultTotal \in Nat /\ FaultTotal' \in Nat
  <2>1. faults \in FaultsType /\ faults' \in FaultsType
    BY DEF TypeOK, FaultsType
  <2> QED
    BY <2>1 DEF FaultTotal, Interruptions, FaultsType
<1>3. Owed(j) \in Nat /\ MaxAttempts \in Nat
  BY RowTypes, ScheduleAssumption DEF Owed, One
<1>4. Owed(j)' \in Nat
  <2>1. jobs'[j] \in JobRow
    BY DEF TypeOK, JobIds
  <2>2. jobs'[j].attempts \in Nat
    BY <2>1 DEF JobRow
  <2> QED
    BY <2>2 DEF Owed, One
<1>5. Debt(j) <= FaultTotal /\ Owed(j) + Debt(j) <= MaxAttempts + FaultTotal
  BY DEF Accounts, DebtBacked, AttemptsAccounted, Owed
<1> DEFINE d == Debt(j)
           dd == Debt(j)'
           o == Owed(j)
           oo == Owed(j)'
           f == FaultTotal
           ff == FaultTotal'
<1>6. /\ d \in Nat /\ dd \in Nat /\ o \in Nat /\ oo \in Nat /\ f \in Nat /\ ff \in Nat
      /\ dd + f <= d + ff /\ (oo <= MaxAttempts \/ oo + dd + f <= o + d + ff)
      /\ d <= f /\ o + d <= MaxAttempts + f
  BY <1>1, <1>2, <1>3, <1>4, <1>5
<1> HIDE DEF d, dd, o, oo, f, ff
<1>7. dd <= ff /\ oo + dd <= MaxAttempts + ff
  BY <1>3, <1>6
<1> QED
  BY <1>7 DEF dd, oo, ff

\* The debt of a job changes with its strays, doomed workers and exposure.
LEMMA DebtChanges ==
  ASSUME TypeOK, NEW j, NEW s \in Int, NEW d \in Int, NEW e \in Int,
         Cardinality(Strays(j)') \in Nat, Cardinality(Strays(j)') <= Cardinality(Strays(j)) + s,
         Cardinality(Doomed(j)') \in Nat, Cardinality(Doomed(j)') <= Cardinality(Doomed(j)) + d,
         One(Exposed(j))' <= One(Exposed(j)) + e
  PROVE  Debt(j)' \in Nat /\ Debt(j) \in Nat /\ Debt(j)' <= Debt(j) + s + d + e
<1>1. Cardinality(Strays(j)) \in Nat /\ Cardinality(Doomed(j)) \in Nat
  BY CountsFinite
<1>2. One(Exposed(j))' \in Nat /\ One(Exposed(j)) \in Nat
  BY DEF One
<1> QED
  BY <1>1, <1>2 DEF Debt

\* What a step does to the debt of a job: neither strays nor doomed workers nor
\* exposure are new.
LEMMA DebtFalls ==
  ASSUME TypeOK, NEW j, Strays(j)' \subseteq Strays(j), Doomed(j)' \subseteq Doomed(j),
         Exposed(j)' => Exposed(j)
  PROVE  Debt(j)' \in Nat /\ Debt(j) \in Nat /\ Debt(j)' <= Debt(j)
<1>1. /\ IsFiniteSet(Strays(j)) /\ IsFiniteSet(Doomed(j))
      /\ Cardinality(Strays(j)) \in Nat /\ Cardinality(Doomed(j)) \in Nat
  BY CountsFinite
<1>2. Cardinality(Strays(j)') \in Nat /\ Cardinality(Strays(j)') <= Cardinality(Strays(j))
  BY <1>1, SetCounts
<1>3. Cardinality(Doomed(j)') \in Nat /\ Cardinality(Doomed(j)') <= Cardinality(Doomed(j))
  BY <1>1, SetCounts
<1>4. One(Exposed(j))' <= One(Exposed(j)) + 0
  BY DEF One
<1>5. Debt(j)' \in Nat /\ Debt(j) \in Nat /\ Debt(j)' <= Debt(j) + 0 + 0 + 0
  <2>1. /\ Cardinality(Strays(j)') <= Cardinality(Strays(j)) + 0
        /\ Cardinality(Doomed(j)') <= Cardinality(Doomed(j)) + 0
    BY <1>1, <1>2, <1>3
  <2> QED
    BY <1>2, <1>3, <1>4, <2>1, DebtChanges
<1> QED
  BY <1>5

\* A restart turns the exposure of a stale row into an attempt that is owed.
LEMMA StartAccounts ==
  ASSUME TypeOK, TypeOK', Core, Held, Accounts, NEW w \in Workers, Start(w), NEW j \in JobIds
  PROVE  Debt(j)' <= FaultTotal' /\ Owed(j)' + Debt(j)' <= MaxAttempts + FaultTotal'
<1>0. /\ jobs[j].attempts \in Nat /\ jobs[j].age \in 0..Lease /\ Lease \in Nat /\ MaxAttempts \in Nat
      /\ jobs[j].state = "running" => jobs[j].lockedBy \in Workers
      /\ FaultTotal \in Nat
  BY RowTypes, ScheduleAssumption, FaultTypes DEF Core, RowsConsistent
<1>1. /\ JobIds' = JobIds
      /\ ~Stale(j) => jobs'[j] = jobs[j]
      /\ Stale(j) => jobs'[j].state = "queued" /\ jobs'[j].attempts = jobs[j].attempts
  BY RequeueEffect DEF Start
<1>2. \A v \in Workers :
        /\ Busy(v, j)' <=> Busy(v, j)
        /\ Busy(v, j) => workers'[v] = workers[v]
        /\ Holds(v, j)' <=> Holds(v, j) /\ ~Stale(j)
  BY StartHolds
<1>3. FaultTotal' = FaultTotal
  BY DEF Start, FaultTotal, Interruptions
<1>4. Doomed(j)' \subseteq Doomed(j)
  BY <1>2 DEF Doomed
<1>5. CASE ~Stale(j)
  <2>1. Strays(j)' \subseteq Strays(j)
    BY <1>2, <1>5 DEF Strays
  <2>2. Exposed(j)' => Exposed(j)
    BY <1>0, <1>1, <1>2, <1>5 DEF Exposed
  <2>3. Debt(j)' \in Nat /\ Debt(j) \in Nat /\ Debt(j)' <= Debt(j)
    BY <1>4, <2>1, <2>2, DebtFalls
  <2>4. Owed(j)' = Owed(j) /\ Owed(j) \in Nat
    BY <1>0, <1>1, <1>5 DEF Owed, One
  <2> QED
    BY <1>0, <1>1, <1>3, <2>3, <2>4, AccountFrame
<1>6. CASE Stale(j)
  <2>1. jobs[j].state = "running" /\ jobs[j].age = Lease
    BY <1>0, <1>6 DEF Stale
  <2>2. Exposed(j) /\ ~Exposed(j)'
    BY <1>1, <1>6, <2>1 DEF Exposed
  <2>3. One(Exposed(j))' <= One(Exposed(j)) + (-1)
    BY <2>2 DEF One
  <2>4. Owed(j)' = jobs[j].attempts + 1 /\ Owed(j) = jobs[j].attempts
    BY <1>0, <1>1, <1>6, <2>1 DEF Owed, One
  <2>5. /\ IsFiniteSet(Strays(j)) /\ IsFiniteSet(Doomed(j))
        /\ Cardinality(Strays(j)) \in Nat /\ Cardinality(Doomed(j)) \in Nat
    BY CountsFinite
  <2>6. Cardinality(Doomed(j)') \in Nat /\ Cardinality(Doomed(j)') <= Cardinality(Doomed(j)) + 0
    <3>1. Cardinality(Doomed(j)') \in Nat /\ Cardinality(Doomed(j)') <= Cardinality(Doomed(j))
      BY <1>4, <2>5, SetCounts
    <3> QED
      BY <2>5, <3>1
  <2>7. CASE jobs[j].attempts < MaxAttempts
    <3>1. Strays(j)' \subseteq Strays(j) \cup {jobs[j].lockedBy}
      BY <1>2 DEF Strays, Holds
    <3>2. Cardinality(Strays(j)') \in Nat /\ Cardinality(Strays(j)') <= Cardinality(Strays(j)) + 1
      BY <2>5, <3>1, SetCounts
    <3>3. Debt(j)' \in Nat /\ Debt(j) \in Nat /\ Debt(j)' <= Debt(j) + 1 + 0 + (-1)
      BY <2>3, <2>6, <3>2, DebtChanges
    <3>4. Owed(j)' <= MaxAttempts
      BY <1>0, <2>4, <2>7
    <3>5. Debt(j)' + FaultTotal <= Debt(j) + FaultTotal'
      BY <1>0, <1>3, <3>3
    <3> QED
      BY <1>1, <3>3, <3>4, <3>5, AccountFrame
  <2>8. CASE jobs[j].attempts >= MaxAttempts
    <3>1. Strays(j)' \subseteq Strays(j)
      <4>1. ASSUME NEW v \in Strays(j)' PROVE v \in Strays(j)
        <5>1. v \in Workers /\ Busy(v, j) /\ workers[v].attempts < MaxAttempts
          BY <1>2 DEF Strays
        <5>2. ~Holds(v, j)
          BY <1>0, <2>8, <5>1 DEF Held, HolderCounts
        <5> QED
          BY <5>1, <5>2 DEF Strays
      <4> QED
        BY <4>1
    <3>2. Cardinality(Strays(j)') \in Nat /\ Cardinality(Strays(j)') <= Cardinality(Strays(j)) + 0
      <4>1. Cardinality(Strays(j)') \in Nat /\ Cardinality(Strays(j)') <= Cardinality(Strays(j))
        BY <2>5, <3>1, SetCounts
      <4> QED
        BY <2>5, <4>1
    <3>3. Debt(j)' \in Nat /\ Debt(j) \in Nat /\ Debt(j)' <= Debt(j) + 0 + 0 + (-1)
      BY <2>3, <2>6, <3>2, DebtChanges
    <3>4. /\ Debt(j)' + FaultTotal <= Debt(j) + FaultTotal'
          /\ Owed(j)' + Debt(j)' + FaultTotal <= Owed(j) + Debt(j) + FaultTotal'
      BY <1>0, <1>3, <2>4, <3>3
    <3> QED
      BY <1>1, <3>3, <3>4, AccountFrame
  <2> QED
    BY <1>0, <2>7, <2>8
<1> QED
  BY <1>5, <1>6

\* A claim makes the attempt that was owed, and no debt.
LEMMA ClaimAccounts ==
  ASSUME TypeOK, TypeOK', Core, Held, Accounts, NEW w \in Workers, Claim(w), NEW j \in JobIds
  PROVE  Debt(j)' <= FaultTotal' /\ Owed(j)' + Debt(j)' <= MaxAttempts + FaultTotal'
<1> DEFINE n == NextJob
<1>1. /\ JobIds' = JobIds /\ n \in JobIds /\ jobs[n].state = "queued" /\ ~workers[w].cancelled
      /\ \A k \in JobIds : k # n => jobs'[k] = jobs[k]
      /\ jobs'[n].state = "running" /\ jobs'[n].attempts = jobs[n].attempts + 1
      /\ jobs'[n].age = jobs[n].age /\ jobs'[n].lockedBy = w
      /\ workers' = [workers EXCEPT ![w] =
            [phase |-> "handling", job |-> n, attempts |-> jobs[n].attempts + 1,
             cancelled |-> workers[w].cancelled]]
  BY ClaimEffect DEF Core
<1>2. \A v \in Workers :
        /\ ~Busy(w, j) /\ (Busy(w, j)' <=> j = n) /\ (Holds(w, j)' <=> j = n)
        /\ v # w => /\ workers'[v] = workers[v]
                    /\ Busy(v, j)' <=> Busy(v, j)
                    /\ Holds(v, j)' <=> Holds(v, j)
  BY ClaimHolds
<1> HIDE DEF n
<1>3. ~workers'[w].cancelled
  BY <1>1 DEF TypeOK
<1>4. /\ jobs[j].attempts \in Nat /\ MaxAttempts \in Nat /\ FaultTotal \in Nat
      /\ jobs[j].state = "running" => jobs[j].lockedBy \in Workers
      /\ jobs[n].age = 0 /\ Lease > 0 /\ Lease \in Nat
  BY <1>1, RowTypes, ScheduleAssumption, FaultTypes DEF Core, RowsConsistent
<1>5. FaultTotal' = FaultTotal
  BY DEF Claim, FaultTotal, Interruptions
<1>6. Doomed(j)' \subseteq Doomed(j)
  BY <1>2, <1>3 DEF Doomed
<1>7. Strays(j)' \subseteq Strays(j)
  BY <1>2 DEF Strays
<1>8. Exposed(j)' => Exposed(j)
  <2>1. CASE j = n
    BY <1>1, <1>2, <1>4, <2>1 DEF Exposed
  <2>2. CASE j # n
    <3>1. jobs'[j] = jobs[j]
      BY <1>1, <2>2
    <3>2. \A h \in Workers : Holds(h, j)' <=> Holds(h, j)
      BY <1>2, <2>2 DEF Holds
    <3> QED
      BY <1>4, <3>1, <3>2 DEF Exposed
  <2> QED
    BY <2>1, <2>2
<1>9. Debt(j)' \in Nat /\ Debt(j) \in Nat /\ Debt(j)' <= Debt(j)
  BY <1>6, <1>7, <1>8, DebtFalls
<1>10. Owed(j)' = Owed(j) /\ Owed(j) \in Nat
  BY <1>1, <1>4 DEF Owed, One
<1> QED
  BY <1>1, <1>4, <1>5, <1>9, <1>10, AccountFrame

\* A recorded outcome ends one attempt.  A retry it asks for is within the budget,
\* or paid by the debt of the worker that asks: it lost the row, or was cancelled.
LEMMA RecordAccounts ==
  ASSUME TypeOK, TypeOK', Core, Held, Accounts, NEW w \in Workers, RecordOutcome(w), NEW j \in JobIds
  PROVE  Debt(j)' <= FaultTotal' /\ Owed(j)' + Debt(j)' <= MaxAttempts + FaultTotal'
<1> DEFINE m == workers[w].job
<1>1. /\ m \in JobIds /\ JobIds' = JobIds /\ jobs[m].state = "running"
      /\ \A k \in JobIds : k # m => jobs'[k] = jobs[k]
      /\ jobs'[m].attempts = jobs[m].attempts
      /\ jobs'[m].state # "running"
      /\ \/ jobs'[m].state # "queued"
         \/ workers[w].phase = "interrupted"
         \/ workers[w].attempts < MaxAttempts
  BY RecordEffect DEF Core
<1>2. \A v \in Workers :
        /\ Busy(v, j)' <=> Busy(v, j) /\ v # w
        /\ Busy(w, j) <=> j = m
        /\ v # w => workers'[v] = workers[v]
        /\ Holds(v, j)' <=> Holds(v, j) /\ j # m
  BY RecordHolds
<1>3. workers[w].attempts \in Nat /\ jobs[m].attempts >= workers[w].attempts
  <2>1. InIteration(w)
    BY RecordEffect DEF Core
  <2> QED
    BY <2>1, ClaimKnown DEF Core
<1>4. workers[w].phase = "interrupted" => workers[w].cancelled
  BY DEF Core, OutcomesTrue
<1> HIDE DEF m
<1>5. /\ jobs[j].attempts \in Nat /\ MaxAttempts \in Nat /\ FaultTotal \in Nat
      /\ jobs[j].state = "running" => jobs[j].lockedBy \in Workers
  BY RowTypes, ScheduleAssumption, FaultTypes DEF Core, RowsConsistent
<1>6. FaultTotal' = FaultTotal
  BY DEF RecordOutcome, FaultTotal, Interruptions
<1>7. Doomed(j)' \subseteq Doomed(j) \ {w}
  BY <1>2 DEF Doomed
<1>8. CASE j # m
  <2>1. Strays(j)' \subseteq Strays(j)
    BY <1>2, <1>8 DEF Strays
  <2>2. Exposed(j)' => Exposed(j)
    BY <1>1, <1>2, <1>5, <1>8 DEF Exposed
  <2>3. Debt(j)' \in Nat /\ Debt(j) \in Nat /\ Debt(j)' <= Debt(j)
    BY <1>7, <2>1, <2>2, DebtFalls
  <2>4. Owed(j)' = Owed(j) /\ Owed(j) \in Nat
    BY <1>1, <1>5, <1>8 DEF Owed, One
  <2> QED
    BY <1>1, <1>5, <1>6, <2>3, <2>4, AccountFrame
<1>9. CASE j = m
  <2>1. /\ IsFiniteSet(Strays(j)) /\ IsFiniteSet(Doomed(j))
        /\ Cardinality(Strays(j)) \in Nat /\ Cardinality(Doomed(j)) \in Nat
    BY CountsFinite
  <2>2. /\ Cardinality(Doomed(j)') \in Nat /\ Cardinality(Doomed(j)') <= Cardinality(Doomed(j)) + 0
        /\ workers[w].cancelled => Cardinality(Doomed(j)') <= Cardinality(Doomed(j)) + (-1)
    <3>1. Doomed(j)' \subseteq Doomed(j) /\ (workers[w].cancelled => w \in Doomed(j))
      BY <1>2, <1>7, <1>9 DEF Doomed
    <3>2. Cardinality(Doomed(j)') \in Nat /\ Cardinality(Doomed(j)') <= Cardinality(Doomed(j))
      BY <2>1, <3>1, SetCounts
    <3>3. w \in Doomed(j) => Cardinality(Doomed(j)') + 1 <= Cardinality(Doomed(j))
      BY <1>7, <2>1, SetCounts
    <3> QED
      BY <2>1, <3>1, <3>2, <3>3
  <2>3. ~Exposed(j)' /\ One(Exposed(j))' <= One(Exposed(j)) + 0
    BY <1>1, <1>9 DEF Exposed, One
  <2>4. /\ Owed(j) = jobs[j].attempts
        /\ Owed(j)' = jobs[j].attempts + One(jobs'[j].state = "queued")
    BY <1>1, <1>5, <1>9 DEF Owed, One
  <2>5. Strays(j)' \subseteq Workers \ {w} /\ Strays(j)' \subseteq (Strays(j) \ {w}) \cup {jobs[j].lockedBy}
    BY <1>2 DEF Strays, Holds
  <2>6. CASE jobs[j].attempts < MaxAttempts
    <3>1. Cardinality(Strays(j)') \in Nat /\ Cardinality(Strays(j)') <= Cardinality(Strays(j)) + 0
      <4>1. CASE w \in Strays(j)
        <5>1. Cardinality(Strays(j)') \in Nat /\ Cardinality(Strays(j)') <= Cardinality(Strays(j))
          BY <2>1, <2>5, <4>1, SetCounts
        <5> QED
          BY <2>1, <5>1
      <4>2. CASE w \notin Strays(j)
        <5>1. workers[w].attempts < MaxAttempts
          BY <1>3, <1>5, <1>9, <2>6
        <5>2. Holds(w, j)
          BY <1>2, <1>9, <4>2, <5>1 DEF Strays
        <5>3. jobs[j].lockedBy = w
          BY <5>2 DEF Holds
        <5>4. Strays(j)' \subseteq Strays(j)
          BY <2>5, <5>3
        <5>5. Cardinality(Strays(j)') \in Nat /\ Cardinality(Strays(j)') <= Cardinality(Strays(j))
          BY <2>1, <5>4, SetCounts
        <5> QED
          BY <2>1, <5>5
      <4> QED
        BY <4>1, <4>2
    <3>2. Debt(j)' \in Nat /\ Debt(j) \in Nat /\ Debt(j)' <= Debt(j) + 0 + 0 + 0
      BY <2>2, <2>3, <3>1, DebtChanges
    <3>3. Owed(j)' <= MaxAttempts
      BY <1>5, <2>4, <2>6 DEF One
    <3>4. Debt(j)' + FaultTotal <= Debt(j) + FaultTotal'
      BY <1>5, <1>6, <3>2
    <3> QED
      BY <1>1, <3>2, <3>3, <3>4, AccountFrame
  <2>7. CASE jobs[j].attempts >= MaxAttempts
    <3>1. Strays(j)' \subseteq Strays(j) \ {w}
      <4>1. ASSUME NEW v \in Strays(j)' PROVE v \in Strays(j) \ {w}
        <5>1. v \in Workers /\ v # w /\ Busy(v, j) /\ workers[v].attempts < MaxAttempts
          BY <1>2 DEF Strays
        <5>2. ~Holds(v, j)
          <6>1. workers[v].attempts \in Nat
            BY <5>1, WorkerTypes
          <6>2. jobs[j].attempts # workers[v].attempts
            BY <1>5, <2>7, <5>1, <6>1
          <6> QED
            BY <5>1, <6>2 DEF Held, HolderCounts
        <5> QED
          BY <5>1, <5>2 DEF Strays
      <4> QED
        BY <4>1
    <3>2. /\ Cardinality(Strays(j)') \in Nat /\ Cardinality(Strays(j)') <= Cardinality(Strays(j)) + 0
          /\ w \in Strays(j) => Cardinality(Strays(j)') <= Cardinality(Strays(j)) + (-1)
      <4>1. Strays(j)' \subseteq Strays(j)
        BY <3>1
      <4>2. Cardinality(Strays(j)') \in Nat /\ Cardinality(Strays(j)') <= Cardinality(Strays(j))
        BY <2>1, <4>1, SetCounts
      <4>3. w \in Strays(j) => Cardinality(Strays(j)') + 1 <= Cardinality(Strays(j))
        BY <2>1, <3>1, SetCounts
      <4> QED
        BY <2>1, <4>2, <4>3
    <3>3. CASE jobs'[j].state # "queued"
      <4>1. Debt(j)' \in Nat /\ Debt(j) \in Nat /\ Debt(j)' <= Debt(j) + 0 + 0 + 0
        BY <2>2, <2>3, <3>2, DebtChanges
      <4>2. Owed(j)' = jobs[j].attempts
        BY <1>5, <2>4, <3>3 DEF One
      <4>3. /\ Debt(j)' + FaultTotal <= Debt(j) + FaultTotal'
            /\ Owed(j)' + Debt(j)' + FaultTotal <= Owed(j) + Debt(j) + FaultTotal'
        BY <1>5, <1>6, <2>4, <4>1, <4>2
      <4> QED
        BY <1>1, <4>1, <4>3, AccountFrame
    <3>4. CASE jobs'[j].state = "queued"
      <4>1. Owed(j)' = jobs[j].attempts + 1
        BY <2>4, <3>4 DEF One
      <4>2. Debt(j)' \in Nat /\ Debt(j) \in Nat /\ Debt(j)' <= Debt(j) - 1
        <5>1. CASE workers[w].phase = "interrupted"
          <6>1. Cardinality(Doomed(j)') <= Cardinality(Doomed(j)) + (-1)
            BY <1>4, <2>2, <5>1
          <6>2. Debt(j)' \in Nat /\ Debt(j) \in Nat /\ Debt(j)' <= Debt(j) + 0 + (-1) + 0
            BY <2>2, <2>3, <3>2, <6>1, DebtChanges
          <6> QED
            BY <6>2
        <5>2. CASE workers[w].attempts < MaxAttempts
          <6>1. ~Holds(w, j)
            <7>1. jobs[j].attempts # workers[w].attempts
              BY <1>3, <1>5, <2>7, <5>2
            <7> QED
              BY <7>1 DEF Held, HolderCounts
          <6>2. w \in Strays(j)
            BY <1>2, <1>9, <5>2, <6>1 DEF Strays
          <6>3. Cardinality(Strays(j)') <= Cardinality(Strays(j)) + (-1)
            BY <3>2, <6>2
          <6>4. Debt(j)' \in Nat /\ Debt(j) \in Nat /\ Debt(j)' <= Debt(j) + (-1) + 0 + 0
            BY <2>2, <2>3, <3>2, <6>3, DebtChanges
          <6> QED
            BY <6>4
        <5> QED
          BY <1>1, <1>9, <3>4, <5>1, <5>2
      <4>3. /\ Debt(j)' + FaultTotal <= Debt(j) + FaultTotal'
            /\ Owed(j)' + Debt(j)' + FaultTotal <= Owed(j) + Debt(j) + FaultTotal'
        BY <1>5, <1>6, <2>4, <4>1, <4>2
      <4> QED
        BY <1>1, <4>2, <4>3, AccountFrame
    <3> QED
      BY <3>3, <3>4
  <2> QED
    BY <1>5, <2>6, <2>7
<1> QED
  BY <1>8, <1>9

\* A worker that leaves exposes its row at the price of an interruption: one that
\* is counted now, or one that cancelled the worker before.
LEMMA LeaveAccounts ==
  ASSUME TypeOK, TypeOK', Core, Held, Accounts, NEW w \in Workers, Leaves(w), NEW j \in JobIds
  PROVE  Debt(j)' <= FaultTotal' /\ Owed(j)' + Debt(j)' <= MaxAttempts + FaultTotal'
<1>1. /\ jobs' = jobs /\ faults'.overruns = faults.overruns
      /\ \/ Interruptions' = Interruptions + 1
         \/ /\ Interruptions' = Interruptions
            /\ InIteration(w) => workers[w].cancelled \/ jobs[workers[w].job].state # "running"
  BY LeaveEffect
<1>2. \A v \in Workers :
        /\ Busy(v, j)' <=> Busy(v, j) /\ v # w
        /\ v # w => workers'[v] = workers[v]
        /\ Holds(v, j)' <=> Holds(v, j) /\ v # w
  BY LeaveHolds
<1>3. /\ jobs[j].attempts \in Nat /\ MaxAttempts \in Nat /\ FaultTotal \in Nat
      /\ jobs[j].state = "running" => jobs[j].lockedBy \in Workers
      /\ Interruptions \in Nat /\ faults.overruns \in Nat
  BY RowTypes, ScheduleAssumption, FaultTypes DEF Core, RowsConsistent
<1>4. JobIds' = JobIds /\ Owed(j)' = Owed(j) /\ Owed(j) \in Nat
  BY <1>1, <1>3 DEF JobIds, Owed, One
<1>5. Strays(j)' \subseteq Strays(j) /\ Doomed(j)' \subseteq Doomed(j) \ {w}
  BY <1>2 DEF Strays, Doomed
<1>6. /\ IsFiniteSet(Strays(j)) /\ IsFiniteSet(Doomed(j))
      /\ Cardinality(Strays(j)) \in Nat /\ Cardinality(Doomed(j)) \in Nat
  BY CountsFinite
<1>7. Cardinality(Strays(j)') \in Nat /\ Cardinality(Strays(j)') <= Cardinality(Strays(j)) + 0
  <2>1. Cardinality(Strays(j)') \in Nat /\ Cardinality(Strays(j)') <= Cardinality(Strays(j))
    BY <1>5, <1>6, SetCounts
  <2> QED
    BY <1>6, <2>1
<1>8. /\ Cardinality(Doomed(j)') \in Nat /\ Cardinality(Doomed(j)') <= Cardinality(Doomed(j)) + 0
      /\ w \in Doomed(j) => Cardinality(Doomed(j)') <= Cardinality(Doomed(j)) + (-1)
  <2>1. Doomed(j)' \subseteq Doomed(j)
    BY <1>5
  <2>2. Cardinality(Doomed(j)') \in Nat /\ Cardinality(Doomed(j)') <= Cardinality(Doomed(j))
    BY <1>6, <2>1, SetCounts
  <2>3. w \in Doomed(j) => Cardinality(Doomed(j)') + 1 <= Cardinality(Doomed(j))
    BY <1>5, <1>6, SetCounts
  <2> QED
    BY <1>6, <2>2, <2>3
<1>9. One(Exposed(j))' <= One(Exposed(j)) + 1
  BY DEF One
<1>10. Debt(j)' \in Nat /\ Debt(j) \in Nat /\ Debt(j)' <= Debt(j) + (FaultTotal' - FaultTotal)
  <2>1. CASE Interruptions' = Interruptions + 1
    <3>1. Debt(j)' \in Nat /\ Debt(j) \in Nat /\ Debt(j)' <= Debt(j) + 0 + 0 + 1
      BY <1>7, <1>8, <1>9, DebtChanges
    <3>2. FaultTotal' = FaultTotal + 1
      BY <1>1, <1>3, <2>1 DEF FaultTotal
    <3> QED
      BY <1>3, <3>1, <3>2
  <2>2. CASE Interruptions' = Interruptions /\ Busy(w, j) /\ workers[w].cancelled
    <3>1. w \in Doomed(j)
      BY <2>2 DEF Doomed
    <3>2. Debt(j)' \in Nat /\ Debt(j) \in Nat /\ Debt(j)' <= Debt(j) + 0 + (-1) + 1
      <4>1. Cardinality(Doomed(j)') <= Cardinality(Doomed(j)) + (-1)
        BY <1>8, <3>1
      <4> QED
        BY <1>7, <1>8, <1>9, <4>1, DebtChanges
    <3>3. FaultTotal' = FaultTotal
      BY <1>1, <2>2 DEF FaultTotal
    <3> QED
      BY <1>3, <3>2, <3>3
  <2>3. CASE Interruptions' = Interruptions /\ (~Busy(w, j) \/ jobs[j].state # "running")
    <3>1. Exposed(j)' => Exposed(j)
      BY <1>1, <1>2, <1>3, <2>3 DEF Exposed, Holds
    <3>2. Debt(j)' \in Nat /\ Debt(j) \in Nat /\ Debt(j)' <= Debt(j)
      <4>1. Doomed(j)' \subseteq Doomed(j)
        BY <1>5
      <4> QED
        BY <1>5, <3>1, <4>1, DebtFalls
    <3>3. FaultTotal' = FaultTotal
      BY <1>1, <2>3 DEF FaultTotal
    <3> QED
      BY <1>3, <3>2, <3>3
  <2> QED
    BY <1>1, <2>1, <2>2, <2>3 DEF Busy
<1>11. FaultTotal' \in Nat
  BY <1>1, <1>3 DEF FaultTotal
<1>12. /\ Debt(j)' + FaultTotal <= Debt(j) + FaultTotal'
       /\ Owed(j)' + Debt(j)' + FaultTotal <= Owed(j) + Debt(j) + FaultTotal'
  BY <1>3, <1>4, <1>10, <1>11
<1> QED
  BY <1>4, <1>10, <1>12, AccountFrame

\* Of the other steps a shutdown dooms a worker, at the price of an interruption,
\* and a tick exposes rows whose holders overrun, each an overrun of its own.
LEMMA IdleAccounts ==
  ASSUME TypeOK, TypeOK', Core, Held, Accounts, Idles, NEW j \in JobIds
  PROVE  Debt(j)' <= FaultTotal' /\ Owed(j)' + Debt(j)' <= MaxAttempts + FaultTotal'
<1>1. /\ jobs[j].attempts \in Nat /\ MaxAttempts \in Nat /\ FaultTotal \in Nat
      /\ jobs[j].state = "running" => jobs[j].lockedBy \in Workers
      /\ Interruptions \in Nat /\ faults.overruns \in Nat
      /\ jobs[j].age \in Nat /\ Lease \in Nat
  BY RowTypes, ScheduleAssumption, FaultTypes DEF Core, RowsConsistent
<1>2. /\ j \in JobIds'
      /\ jobs'[j].state = jobs[j].state /\ jobs'[j].attempts = jobs[j].attempts
      /\ jobs'[j].lockedBy = jobs[j].lockedBy
      /\ Tick \/ jobs'[j] = jobs[j]
  BY IdleRows
<1>3. \A v \in Workers :
        /\ InIteration(v) => workers'[v].attempts = workers[v].attempts
        /\ Busy(v, j)' <=> Busy(v, j)
        /\ Holds(v, j)' <=> Holds(v, j)
  BY IdleAttempts, IdleHolds
<1>4. Owed(j)' = Owed(j) /\ Owed(j) \in Nat
  BY <1>1, <1>2 DEF Owed, One
<1>5. Strays(j)' \subseteq Strays(j)
  BY <1>3 DEF Strays, Busy
<1>6. /\ IsFiniteSet(Strays(j)) /\ IsFiniteSet(Doomed(j))
      /\ Cardinality(Strays(j)) \in Nat /\ Cardinality(Doomed(j)) \in Nat
  BY CountsFinite
<1>7. Cardinality(Strays(j)') \in Nat /\ Cardinality(Strays(j)') <= Cardinality(Strays(j)) + 0
  <2>1. Cardinality(Strays(j)') \in Nat /\ Cardinality(Strays(j)') <= Cardinality(Strays(j))
    BY <1>5, <1>6, SetCounts
  <2> QED
    BY <1>6, <2>1
<1>8. ~Tick => (Exposed(j)' => Exposed(j))
  BY <1>1, <1>2, <1>3 DEF Exposed
<1>9. SUFFICES /\ FaultTotal' \in Nat /\ Debt(j)' \in Nat /\ Debt(j) \in Nat
               /\ Debt(j)' + FaultTotal <= Debt(j) + FaultTotal'
  <2>1. ASSUME /\ FaultTotal' \in Nat /\ Debt(j)' \in Nat /\ Debt(j) \in Nat
               /\ Debt(j)' + FaultTotal <= Debt(j) + FaultTotal'
        PROVE  Owed(j)' + Debt(j)' + FaultTotal <= Owed(j) + Debt(j) + FaultTotal'
    BY <1>1, <1>4, <2>1
  <2> QED
    BY <1>2, <2>1, AccountFrame
<1>10. CASE \E w \in Workers : Shutdown(w)
  <2>1. PICK w \in Workers : Shutdown(w)
    BY <1>10
  <2>2. /\ \A v \in Workers : v # w => workers'[v] = workers[v]
        /\ Interruptions' = Interruptions + 1 /\ faults'.overruns = faults.overruns
        /\ jobs' = jobs
    BY <2>1, CancelWrite, InterruptionEffect DEF Shutdown
  <2>3. Doomed(j)' \subseteq Doomed(j) \cup {w}
    BY <1>3, <2>2 DEF Doomed
  <2>4. Cardinality(Doomed(j)') \in Nat /\ Cardinality(Doomed(j)') <= Cardinality(Doomed(j)) + 1
    BY <1>6, <2>3, SetCounts
  <2>5. Exposed(j)' => Exposed(j)
    BY <1>1, <1>3, <2>2 DEF Exposed
  <2>6. One(Exposed(j))' <= One(Exposed(j)) + 0
    BY <2>5 DEF One
  <2>7. Debt(j)' \in Nat /\ Debt(j) \in Nat /\ Debt(j)' <= Debt(j) + 0 + 1 + 0
    BY <1>7, <2>4, <2>6, DebtChanges
  <2>8. FaultTotal' = FaultTotal + 1
    BY <1>1, <2>2 DEF FaultTotal
  <2> QED
    BY <1>1, <2>7, <2>8
<1>11. CASE Tick
  <2>1. workers' = workers /\ Interruptions' = Interruptions
        /\ faults'.overruns = faults.overruns + Cardinality(Overrunning)
        /\ Cardinality(Overrunning) \in Nat /\ (Overrunning # {} => Cardinality(Overrunning) > 0)
    BY <1>11, OverrunEffect DEF Tick
  <2>2. FaultTotal' = FaultTotal + Cardinality(Overrunning)
    BY <1>1, <2>1 DEF FaultTotal
  <2>3. Doomed(j)' \subseteq Doomed(j)
    BY <1>3, <2>1 DEF Doomed
  <2>4. CASE Exposed(j)' => Exposed(j)
    <3>1. Debt(j)' \in Nat /\ Debt(j) \in Nat /\ Debt(j)' <= Debt(j)
      BY <1>5, <2>3, <2>4, DebtFalls
    <3> QED
      BY <1>1, <2>1, <2>2, <3>1
  <2>5. CASE Exposed(j)' /\ ~Exposed(j)
    <3> DEFINE h == jobs[j].lockedBy
    <3>1. /\ jobs[j].state = "running" /\ h \in Workers /\ Holds(h, j) /\ jobs[j].age # Lease
      BY <1>1, <1>2, <2>5 DEF Exposed
    <3>2. jobs'[j].age = Lease
      BY <1>2, <1>3, <2>5, <3>1 DEF Exposed
    <3>3. jobs'[j].age = IF jobs[j].age < Lease THEN jobs[j].age + 1 ELSE jobs[j].age
      BY <1>11, <3>1, TickEffect
    <3>4. jobs[j].age = Lease - 1
      BY <1>1, <3>1, <3>2, <3>3
    <3>5. h \in Overrunning
      BY <3>1, <3>4 DEF Overrunning, Holds, Busy
    <3>6. Cardinality(Overrunning) > 0
      BY <2>1, <3>5
    <3>7. Cardinality(Doomed(j)') \in Nat /\ Cardinality(Doomed(j)') <= Cardinality(Doomed(j)) + 0
      <4>1. Cardinality(Doomed(j)') \in Nat /\ Cardinality(Doomed(j)') <= Cardinality(Doomed(j))
        BY <1>6, <2>3, SetCounts
      <4> QED
        BY <1>6, <4>1
    <3>8. One(Exposed(j))' <= One(Exposed(j)) + 1
      BY DEF One
    <3>9. Debt(j)' \in Nat /\ Debt(j) \in Nat /\ Debt(j)' <= Debt(j) + 0 + 0 + 1
      BY <1>7, <3>7, <3>8, DebtChanges
    <3> QED
      BY <1>1, <2>1, <2>2, <3>6, <3>9
  <2> QED
    BY <2>4, <2>5
<1>12. CASE ~Tick /\ ~\E w \in Workers : Shutdown(w)
  <2>1. Doomed(j)' \subseteq Doomed(j) /\ FaultTotal' = FaultTotal
    <3>1. ASSUME NEW w \in Workers, NEW outcome \in {"ok", "error", "interrupted"},
                 HandlerReturns(w, outcome)
          PROVE  Doomed(j)' \subseteq Doomed(j) /\ FaultTotal' = FaultTotal
      <4>1. outcome \in Phases /\ workers' = [workers EXCEPT ![w].phase = outcome]
            /\ faults' = faults
        BY <3>1 DEF HandlerReturns, Phases
      <4>2. /\ workers'[w].cancelled = workers[w].cancelled
            /\ \A v \in Workers : v # w => workers'[v] = workers[v]
        BY <4>1, PhaseWrite
      <4>3. Doomed(j)' \subseteq Doomed(j)
        BY <1>3, <4>2 DEF Doomed
      <4> QED
        BY <4>1, <4>3 DEF FaultTotal, Interruptions
    <3>2. ASSUME workers' = workers, faults' = faults
          PROVE  Doomed(j)' \subseteq Doomed(j) /\ FaultTotal' = FaultTotal
      BY <1>3, <3>2 DEF Doomed, FaultTotal, Interruptions
    <3>3. ASSUME (\E w \in Workers : EnqueueSweep(w)) \/ \E kind \in Kinds \ {Sweep} : EnqueueWork(kind)
          PROVE  workers' = workers /\ faults' = faults
      BY <3>3, EnqueueStep
    <3>4. ASSUME NEW w \in Workers, CountQueued(w) PROVE workers' = workers /\ faults' = faults
      BY <3>4 DEF CountQueued
    <3> QED
      BY <1>12, <3>1, <3>2, <3>3, <3>4 DEF Idles
  <2>2. Debt(j)' \in Nat /\ Debt(j) \in Nat /\ Debt(j)' <= Debt(j)
    BY <1>5, <1>8, <1>12, <2>1, DebtFalls
  <2> QED
    BY <1>1, <2>1, <2>2
<1> QED
  BY <1>10, <1>11, <1>12

\* Every step keeps the accounts.
LEMMA AccountsStep ==
  ASSUME TypeOK, TypeOK', Core, Held, Accounts, Next
  PROVE  Accounts'
<1>1. ASSUME NEW j \in JobIds
      PROVE  Debt(j)' <= FaultTotal' /\ Owed(j)' + Debt(j)' <= MaxAttempts + FaultTotal'
  BY AttemptCases, StartAccounts, ClaimAccounts, RecordAccounts, LeaveAccounts, IdleAccounts
<1>2. ASSUME NEW j \in JobIds', j \notin JobIds
      PROVE  Debt(j)' <= FaultTotal' /\ Owed(j)' + Debt(j)' <= MaxAttempts + FaultTotal'
  <2>1. (\E w \in Workers : EnqueueSweep(w)) \/ \E kind \in Kinds \ {Sweep} : EnqueueWork(kind)
    <3>1. ASSUME NEW w \in Workers,
                 \/ Leaves(w) \/ Shutdown(w) \/ CountQueued(w)
                 \/ \E outcome \in {"ok", "error", "interrupted"} : HandlerReturns(w, outcome)
          PROVE  jobs' = jobs
      BY <3>1, LeaveEffect DEF Shutdown, CountQueued, HandlerReturns
    <3>2. ASSUME jobs' = jobs PROVE JobIds' = JobIds
      BY <3>2 DEF JobIds
    <3>3. ASSUME NEW w \in Workers, Start(w) \/ Claim(w) \/ RecordOutcome(w) PROVE JobIds' = JobIds
      BY <3>3, RequeueEffect, ClaimEffect, RecordEffect DEF Start, Core
    <3>4. CASE Tick
      BY <1>2, <3>4, TickEffect
    <3> QED
      BY <1>2, <3>1, <3>2, <3>3, <3>4, StepCases
  <2>2. PICK kind \in Kinds, due \in Nat : EnqueueJob(kind, due)
    BY <2>1, EnqueueStep
  <2>3. workers' = workers /\ faults' = faults
    BY <2>1, EnqueueStep
  <2>4. /\ JobIds' = JobIds \cup {Len(jobs) + 1}
        /\ jobs'[Len(jobs) + 1] = [kind |-> kind, state |-> "queued", attempts |-> 0,
                                   due |-> due, age |-> 0, lockedBy |-> NoWorker]
    <3>1. due \in Int
      OBVIOUS
    <3> QED
      BY <2>2, <3>1, EnqueueEffect
  <2>5. jobs'[j].state = "queued" /\ jobs'[j].attempts = 0
    <3>1. j = Len(jobs) + 1
      BY <1>2, <2>4
    <3> QED
      BY <2>4, <3>1
  <2>6. \A v \in Workers : ~Busy(v, j)'
    <3>1. \A v \in Workers : InIteration(v) => workers[v].job \in JobIds
      BY ClaimKnown DEF Core
    <3> QED
      BY <1>2, <2>3, <3>1 DEF Busy, InIteration
  <2>7. Strays(j)' = {} /\ Doomed(j)' = {} /\ ~Exposed(j)'
    BY <2>5, <2>6 DEF Strays, Doomed, Exposed
  <2>8. Debt(j)' = 0
    <3>1. Cardinality(Strays(j)') = 0 /\ Cardinality(Doomed(j)') = 0
      BY <2>7, FS_EmptySet
    <3> QED
      BY <2>7, <3>1 DEF Debt, One
  <2>9. Owed(j)' = 1
    BY <2>5 DEF Owed, One
  <2>10. FaultTotal \in Nat /\ FaultTotal' = FaultTotal /\ MaxAttempts \in Nat /\ MaxAttempts >= 1
    BY <2>3, FaultTypes, ScheduleAssumption DEF FaultTotal, Interruptions
  <2> QED
    BY <2>8, <2>9, <2>10
<1>3. \A j \in JobIds' :
        Debt(j)' <= FaultTotal' /\ Owed(j)' + Debt(j)' <= MaxAttempts + FaultTotal'
  BY <1>1, <1>2
<1> QED
  BY <1>3 DEF Accounts, DebtBacked, AttemptsAccounted, Owed
-----------------------------------------------------------------------------
(* The invariant, and what follows from it. *)

IInv ==
  /\ TypeOK /\ Core /\ AuditorsDistinct /\ FailureAuditedOnce
  /\ Held /\ OrphansAccounted /\ Accounts

\* An empty table and stopped processes satisfy the invariant.
LEMMA InitInv == Init => IInv
<1> SUFFICES ASSUME Init PROVE IInv
  OBVIOUS
<1>1. /\ jobs = <<>> /\ completed = {} /\ failures = <<>>
      /\ faults = [crashes |-> 0, shutdowns |-> 0, dbErrors |-> 0, overruns |-> 0]
      /\ JobIds = {} /\ DOMAIN failures = {}
  BY DEF Init, JobIds
<1>2. \A w \in Workers : /\ workers[w].phase = "down" /\ ~workers[w].cancelled
                         /\ workers[w].job = 0 /\ workers[w].attempts = 0
  BY DEF Init, Down
<1>3. TypeOK
  <2>1. workers \in [Workers -> [phase : Phases, job : JobIds \cup {0}, attempts : Nat,
                                 cancelled : BOOLEAN]]
    BY DEF Init, Down, Phases
  <2>2. planner \in [Workers -> BOOLEAN]
    BY DEF Init
  <2>3. jobs \in Seq(JobRow) /\ failures \in Seq(JobIds)
    BY <1>1
  <2>4. faults \in [crashes : Nat, shutdowns : Nat, dbErrors : Nat, overruns : Nat]
    BY <1>1
  <2> QED
    BY <1>1, <2>1, <2>2, <2>3, <2>4 DEF TypeOK
<1>4. \A w \in Workers : ~InIteration(w)
  BY <1>2 DEF InIteration
<1>5. Core
  BY <1>1, <1>2, <1>4 DEF Core, ClaimsKnown, OutcomesTrue, RowsConsistent, VerdictIsEarned
<1>6. AuditorsDistinct /\ FailureAuditedOnce
  BY <1>1, <1>2 DEF AuditorsDistinct, FailureAuditedOnce
<1>7. Held
  BY <1>1, <1>4 DEF Held, HandlerHoldsJob, LeasesValid, HolderCounts
<1>8. OrphansAccounted
  <2>1. Orphans = {} /\ Cancelled = {}
    BY <1>1, <1>2 DEF Orphans, Cancelled
  <2>2. Cardinality(Orphans) = 0 /\ Cardinality(Cancelled) = 0
    BY <2>1, FS_EmptySet
  <2>3. Interruptions = 0
    BY <1>1 DEF Interruptions
  <2> QED
    BY <2>2, <2>3 DEF OrphansAccounted
<1>9. Accounts
  BY <1>1 DEF Accounts, DebtBacked, AttemptsAccounted
<1> QED
  BY <1>3, <1>5, <1>6, <1>7, <1>8, <1>9 DEF IInv

\* Every step keeps the invariant.
LEMMA StepInv == IInv /\ [Next]_vars => IInv'
<1> SUFFICES ASSUME IInv, [Next]_vars PROVE IInv'
  OBVIOUS
<1>1. CASE Next
  <2>1. TypeOK /\ Core /\ AuditorsDistinct /\ FailureAuditedOnce /\ Held /\ OrphansAccounted /\ Accounts
    BY DEF IInv
  <2>2. TypeOK'
    BY <1>1, <2>1, TypeStep DEF Core
  <2>3. Core'
    BY <1>1, <2>1, <2>2, CoreStep
  <2>4. AuditorsDistinct' /\ FailureAuditedOnce'
    BY <1>1, <2>1, AuditStep
  <2>5. Held'
    BY <1>1, <2>1, <2>2, HeldStep
  <2>6. OrphansAccounted'
    BY <1>1, <2>1, <2>2, OrphansStep
  <2>7. Accounts'
    BY <1>1, <2>1, <2>2, AccountsStep
  <2> QED
    BY <2>2, <2>3, <2>4, <2>5, <2>6, <2>7 DEF IInv
<1>2. CASE UNCHANGED vars
  <2>1. /\ jobs' = jobs /\ workers' = workers /\ planner' = planner
        /\ completed' = completed /\ failures' = failures /\ faults' = faults
    BY <1>2 DEF vars
  <2>2. TypeOK'
    BY <2>1 DEF IInv, TypeOK, JobIds
  <2>3. Core'
    BY <2>1 DEF IInv, Core, ClaimsKnown, OutcomesTrue, RowsConsistent, VerdictIsEarned,
                JobIds, InIteration
  <2>4. AuditorsDistinct' /\ FailureAuditedOnce'
    BY <2>1 DEF IInv, AuditorsDistinct, FailureAuditedOnce
  <2>5. Held'
    BY <2>1 DEF IInv, Held, HandlerHoldsJob, LeasesValid, HolderCounts, Holds, Busy,
                JobIds, InIteration
  <2>6. OrphansAccounted'
    BY <2>1 DEF IInv, OrphansAccounted, Orphans, Cancelled, Interruptions, JobIds, InIteration
  <2>7. Accounts'
    <3>1. \A j : Strays(j)' = Strays(j) /\ Doomed(j)' = Doomed(j) /\ (Exposed(j)' <=> Exposed(j))
      BY <2>1 DEF Strays, Doomed, Exposed, Holds, Busy, InIteration
    <3>2. \A j : Debt(j)' = Debt(j)
      BY <3>1 DEF Debt, One
    <3> QED
      BY <2>1, <3>2 DEF IInv, Accounts, DebtBacked, AttemptsAccounted, FaultTotal, Interruptions,
                        JobIds
  <2> QED
    BY <2>2, <2>3, <2>4, <2>5, <2>6, <2>7 DEF IInv
<1> QED
  BY <1>1, <1>2

\* The invariant holds of every reachable state.
LEMMA Invariance == Spec => []IInv
  BY InitInv, StepInv, PTL DEF Spec

\* Type correctness of the queue: every claim, mark, audit and tick keeps rows,
\* workers and counts in their types.
THEOREM TypeCorrect == Spec => []TypeOK
<1>1. IInv => TypeOK
  BY DEF IInv
<1> QED
  BY <1>1, Invariance, PTL

\* A job marked succeeded was carried out and a job given up has used its budget,
\* for any number of workers that crash, lose leases and mark each other's jobs.
THEOREM VerdictsEarned == Spec => []VerdictIsEarned
<1>1. IInv => VerdictIsEarned
  BY DEF IInv, Core
<1> QED
  BY <1>1, Invariance, PTL

\* recordPermanentFailure, in a transaction after that of the mark, writes at most
\* one entry for a job, and only for one that was given up.
THEOREM FailuresAuditedOnce == Spec => []FailureAuditedOnce
<1>1. IInv => FailureAuditedOnce
  BY DEF IInv
<1> QED
  BY <1>1, Invariance, PTL

\* While no worker outlives its lease, a busy worker holds the lock of its row, so
\* no two handlers of one job overlap.
THEOREM HandlersHoldJobs == Spec => []HandlerHoldsJob
<1>1. IInv => HandlerHoldsJob
  BY DEF IInv, Held
<1> QED
  BY <1>1, Invariance, PTL

\* There are never more orphaned rows than crashes, shutdowns and refused
\* statements: every other path of RunOnce settles its row.
THEOREM OrphansFromFaults == Spec => []OrphansComeFromFaults
<1>1. IInv => OrphansComeFromFaults
  <2>1. SUFFICES ASSUME IInv PROVE OrphansComeFromFaults
    OBVIOUS
  <2>2. TypeOK /\ Cardinality(Orphans) + Cardinality(Cancelled) <= Interruptions
    BY <2>1 DEF IInv, OrphansAccounted
  <2>3. Cardinality(Orphans) \in Nat /\ Cardinality(Cancelled) \in Nat /\ Interruptions \in Nat
    BY <2>2, CountsFinite, FaultTypes
  <2> QED
    BY <2>2, <2>3 DEF OrphansComeFromFaults
<1> QED
  BY <1>1, Invariance, PTL

\* No job is ever attempted more often than its budget and the faults allow: each
\* attempt beyond MaxJobAttempts is backed by a fault of its own.
THEOREM ExtraAttemptsFromFaults == Spec => []ExtraAttemptsComeFromFaults
<1>1. IInv => ExtraAttemptsComeFromFaults
  <2>1. SUFFICES ASSUME IInv, NEW j \in JobIds
                 PROVE  jobs[j].attempts <= MaxAttempts + Interruptions + faults.overruns
    BY DEF ExtraAttemptsComeFromFaults
  <2>2. /\ TypeOK
        /\ jobs[j].attempts + One(jobs[j].state = "queued") + Debt(j) <= MaxAttempts + FaultTotal
    BY <2>1 DEF IInv, Accounts, AttemptsAccounted
  <2>3. /\ Debt(j) \in Nat /\ One(jobs[j].state = "queued") \in Nat
    BY <2>2, CountsFinite DEF Debt, One
  <2>4. /\ jobs[j].attempts \in Nat /\ MaxAttempts \in Nat
        /\ Interruptions \in Nat /\ faults.overruns \in Nat
        /\ FaultTotal = Interruptions + faults.overruns
    BY <2>2, RowTypes, FaultTypes, ScheduleAssumption DEF FaultTotal
  <2> QED
    BY <2>2, <2>3, <2>4
<1> QED
  BY <1>1, Invariance, PTL
-----------------------------------------------------------------------------
(* The queue implements WorkQueue. *)

StatusOf(state) == CASE state = "succeeded" -> "done"
                     [] state = "permanently_failed" -> "givenUp"
                     [] OTHER -> "pending"

\* What users see of a row.
LEMMA WorkIs ==
  ASSUME NEW j \in JobIds
  PROVE  /\ Work[j] = [tries |-> jobs[j].attempts, status |-> StatusOf(jobs[j].state)]
         /\ Work[j].tries = jobs[j].attempts /\ Work[j].status = StatusOf(jobs[j].state)
BY DEF Work, StatusOf

\* What they see of it after a step.
LEMMA WorkWillBe ==
  ASSUME NEW j \in JobIds'
  PROVE  Work'[j] = [tries |-> jobs'[j].attempts, status |-> StatusOf(jobs'[j].state)]
BY DEF Work, StatusOf

\* A step that keeps the attempts of every row, and whether it is pending, done or
\* given up, is not seen.
LEMMA WorkFrame ==
  ASSUME JobIds' = JobIds,
         \A j \in JobIds : /\ jobs'[j].attempts = jobs[j].attempts
                           /\ StatusOf(jobs'[j].state) = StatusOf(jobs[j].state)
  PROVE  Work' = Work
BY DEF Work, StatusOf

\* A step that changes one row is seen as a change of that job alone.
LEMMA WorkUpdate ==
  ASSUME NEW j \in JobIds, JobIds' = JobIds,
         \A k \in JobIds : k # j => jobs'[k] = jobs[k]
  PROVE  Work' = [Work EXCEPT ![j] = [tries |-> jobs'[j].attempts, status |-> StatusOf(jobs'[j].state)]]
<1>1. DOMAIN Work = JobIds
  BY DEF Work
<1> QED
  BY <1>1 DEF Work, StatusOf

\* Every step of the queue is a step of its promise, or invisible.
LEMMA PromiseStep ==
  ASSUME IInv, [Next]_vars
  PROVE  [Promise!Next]_<<Work, completed>>
<1>0. TypeOK /\ Core
  BY DEF IInv
<1>1. DOMAIN Work = JobIds
  BY DEF Work
<1>2. ASSUME NEW w \in Workers, Start(w) PROVE UNCHANGED <<Work, completed>>
  <2>1. /\ JobIds' = JobIds
        /\ \A j \in JobIds : ~Stale(j) => jobs'[j] = jobs[j]
        /\ \A j \in JobIds : Stale(j) =>
              jobs'[j].state = "queued" /\ jobs'[j].attempts = jobs[j].attempts
    BY <1>0, <1>2, RequeueEffect DEF Start
  <2>2. \A j \in JobIds : /\ jobs'[j].attempts = jobs[j].attempts
                          /\ StatusOf(jobs'[j].state) = StatusOf(jobs[j].state)
    BY <2>1 DEF Stale, StatusOf
  <2>3. Work' = Work
    BY <2>1, <2>2, WorkFrame
  <2> QED
    BY <1>2, <2>3 DEF Start
<1>3. ASSUME NEW w \in Workers, Claim(w) PROVE \E j \in JobIds : Promise!Try(j)
  <2> DEFINE n == NextJob
  <2>1. /\ JobIds' = JobIds /\ n \in JobIds /\ jobs[n].state = "queued"
        /\ \A k \in JobIds : k # n => jobs'[k] = jobs[k]
        /\ jobs'[n].state = "running" /\ jobs'[n].attempts = jobs[n].attempts + 1
    BY <1>0, <1>3, ClaimEffect DEF Core
  <2>2. completed' = completed
    BY <1>3 DEF Claim
  <2> HIDE DEF n
  <2>3. StatusOf(jobs'[n].state) = "pending" /\ StatusOf(jobs[n].state) = "pending"
    BY <2>1 DEF StatusOf
  <2>4. Work' = [Work EXCEPT ![n] = [tries |-> jobs'[n].attempts, status |-> StatusOf(jobs'[n].state)]]
    BY <2>1, WorkUpdate
  <2>5. Work[n] = [tries |-> jobs[n].attempts, status |-> "pending"] /\ Work[n].status = "pending"
    BY <2>1, <2>3, WorkIs
  <2>6. [Work[n] EXCEPT !.tries = @ + 1] = [tries |-> jobs[n].attempts + 1, status |-> "pending"]
    BY <2>5
  <2>7. Work' = [Work EXCEPT ![n].tries = @ + 1]
    BY <2>1, <2>3, <2>4, <2>6
  <2> QED
    BY <2>1, <2>2, <2>5, <2>7 DEF Promise!Try
<1>4. ASSUME NEW w \in Workers, NEW outcome \in {"ok", "error", "interrupted"},
             HandlerReturns(w, outcome)
      PROVE  (\E j \in JobIds : Promise!CarryOut(j)) \/ UNCHANGED <<Work, completed>>
  <2> DEFINE j == workers[w].job
  <2>1. jobs' = jobs /\ InIteration(w)
    BY <1>4 DEF HandlerReturns, InIteration
  <2>2. Work' = Work
    BY <2>1 DEF Work, JobIds
  <2>3. /\ j \in JobIds /\ workers[w].attempts \in Nat /\ workers[w].attempts >= 1
        /\ jobs[j].attempts >= workers[w].attempts
    BY <1>0, <2>1, ClaimKnown DEF Core
  <2>4. Work[j].tries > 0
    <3>1. jobs[j].attempts \in Nat
      BY <1>0, <2>3, RowTypes
    <3>2. jobs[j].attempts > 0
      BY <2>3, <3>1
    <3>3. Work[j].tries = jobs[j].attempts
      BY <2>3, WorkIs
    <3> QED
      BY <3>2, <3>3
  <2>5. CASE outcome = "ok"
    <3>1. completed' = completed \cup {j}
      BY <1>4, <2>5 DEF HandlerReturns
    <3> QED
      BY <2>2, <2>3, <2>4, <3>1 DEF Promise!CarryOut
  <2>6. CASE outcome # "ok"
    BY <1>4, <2>2, <2>6 DEF HandlerReturns
  <2> QED
    BY <2>5, <2>6
<1>5. ASSUME NEW w \in Workers, RecordOutcome(w)
      PROVE  (\E j \in JobIds : Promise!Finish(j) \/ Promise!GiveUp(j)) \/ UNCHANGED <<Work, completed>>
  <2> DEFINE j == workers[w].job
  <2>1. /\ InIteration(w) /\ j \in JobIds /\ JobIds' = JobIds /\ jobs[j].state = "running"
        /\ \A k \in JobIds : k # j => jobs'[k] = jobs[k]
        /\ jobs'[j].attempts = jobs[j].attempts
        /\ \/ workers[w].phase = "ok" /\ jobs'[j].state = "succeeded"
           \/ jobs'[j].state = "queued"
           \/ workers[w].attempts >= MaxAttempts /\ jobs'[j].state = "permanently_failed"
    BY <1>0, <1>5, RecordEffect DEF Core
  <2>2. completed' = completed
    BY <1>5 DEF RecordOutcome
  <2>3. Work' = [Work EXCEPT ![j] = [tries |-> jobs[j].attempts, status |-> StatusOf(jobs'[j].state)]]
    BY <2>1, WorkUpdate
  <2>4. /\ Work[j] = [tries |-> jobs[j].attempts, status |-> "pending"]
        /\ Work[j].status = "pending" /\ Work[j].tries = jobs[j].attempts
    <3>1. StatusOf(jobs[j].state) = "pending"
      BY <2>1 DEF StatusOf
    <3> QED
      BY <2>1, <3>1, WorkIs
  <2>5. /\ workers[w].phase = "ok" => j \in completed
        /\ workers[w].attempts >= MaxAttempts => jobs[j].attempts >= MaxAttempts
    <3>1. /\ workers[w].attempts \in Nat /\ jobs[j].attempts \in Nat /\ MaxAttempts \in Nat
          /\ jobs[j].attempts >= workers[w].attempts
      BY <1>0, <2>1, ClaimKnown, RowTypes, ScheduleAssumption DEF Core
    <3>2. workers[w].phase = "ok" => j \in completed
      BY <1>0 DEF Core, OutcomesTrue
    <3> QED
      BY <3>1, <3>2
  <2> HIDE DEF j
  <2>6. CASE jobs'[j].state = "queued"
    <3>1. StatusOf(jobs'[j].state) = "pending"
      BY <2>6 DEF StatusOf
    <3>2. Work' = [Work EXCEPT ![j] = Work[j]]
      BY <2>3, <2>4, <3>1
    <3>3. Work' = Work
      BY <1>1, <3>2 DEF Work
    <3> QED
      BY <2>2, <3>3
  <2>7. CASE workers[w].phase = "ok" /\ jobs'[j].state = "succeeded"
    <3>1. StatusOf(jobs'[j].state) = "done"
      BY <2>7 DEF StatusOf
    <3>2. [Work[j] EXCEPT !.status = "done"] = [tries |-> jobs[j].attempts, status |-> "done"]
      BY <2>4
    <3>3. Work' = [Work EXCEPT ![j].status = "done"]
      BY <2>3, <3>1, <3>2
    <3> QED
      BY <2>1, <2>2, <2>4, <2>5, <2>7, <3>3 DEF Promise!Finish
  <2>8. CASE workers[w].attempts >= MaxAttempts /\ jobs'[j].state = "permanently_failed"
    <3>1. StatusOf(jobs'[j].state) = "givenUp"
      BY <2>8 DEF StatusOf
    <3>2. [Work[j] EXCEPT !.status = "givenUp"] = [tries |-> jobs[j].attempts, status |-> "givenUp"]
      BY <2>4
    <3>3. Work' = [Work EXCEPT ![j].status = "givenUp"]
      BY <2>3, <3>1, <3>2
    <3> QED
      BY <2>1, <2>2, <2>4, <2>5, <2>8, <3>3 DEF Promise!GiveUp
  <2> QED
    BY <2>1, <2>6, <2>7, <2>8
<1>6. ASSUME (\E w \in Workers : EnqueueSweep(w)) \/ \E kind \in Kinds \ {Sweep} : EnqueueWork(kind)
      PROVE  Promise!Submit
  <2>1. PICK kind \in Kinds, due \in Nat : EnqueueJob(kind, due)
    BY <1>0, <1>6, EnqueueStep
  <2>2. completed' = completed
    BY <1>0, <1>6, EnqueueStep
  <2> DEFINE n == Len(jobs)
             new == [status |-> "pending", tries |-> 0]
  <2>3. /\ JobIds' = JobIds \cup {n + 1} /\ n \in Nat
        /\ \A k \in JobIds : jobs'[k] = jobs[k]
        /\ jobs'[n + 1] = [kind |-> kind, state |-> "queued", attempts |-> 0,
                           due |-> due, age |-> 0, lockedBy |-> NoWorker]
    <3>1. due \in Int
      OBVIOUS
    <3> QED
      BY <1>0, <2>1, <3>1, EnqueueEffect
  <2>4. JobIds = 1..n /\ JobIds' = 1..(n + 1)
    BY <1>0, <2>3 DEF TypeOK, JobIds
  <2>5. \A k \in 1..n : Work'[k] = Work[k]
    BY <2>3, <2>4, WorkIs, WorkWillBe
  <2>6. Work'[n + 1] = new
    <3>1. jobs'[n + 1].attempts = 0 /\ jobs'[n + 1].state = "queued"
      BY <2>3
    <3>2. StatusOf(jobs'[n + 1].state) = "pending"
      BY <3>1 DEF StatusOf
    <3>3. n + 1 \in JobIds'
      BY <2>3
    <3>4. Work'[n + 1] = [tries |-> 0, status |-> "pending"]
      BY <3>1, <3>2, <3>3, WorkWillBe
    <3> QED
      BY <3>4
  <2>7. Work' = Append(Work, new)
    <3> DEFINE T == [tries : Nat, status : {"pending", "done", "givenUp"}]
    <3>1. \A k \in 1..n : Work[k] \in T
      <4>1. ASSUME NEW k \in 1..n PROVE Work[k] \in T
        <5>1. jobs[k].attempts \in Nat
          BY <1>0, <2>4, RowTypes
        <5>2. StatusOf(jobs[k].state) \in {"pending", "done", "givenUp"}
          BY DEF StatusOf
        <5>3. Work[k] = [tries |-> jobs[k].attempts, status |-> StatusOf(jobs[k].state)]
          BY <2>4, WorkIs
        <5> QED
          BY <5>1, <5>2, <5>3
      <4> QED
        BY <4>1
    <3>2. new \in T
      OBVIOUS
    <3> HIDE DEF T, new, n
    <3>3. Work \in Seq(T) /\ Len(Work) = n
      <4>1. Work = [k \in 1..n |-> Work[k]]
        BY <2>4 DEF Work
      <4>2. Work \in [1..n -> T]
        BY <3>1, <4>1
      <4>3. Work \in Seq(T)
        BY <2>3, <4>2, SeqDef
      <4> QED
        BY <2>3, <4>2, <4>3, LenProperties
    <3>4. Work' \in Seq(T) /\ Len(Work') = n + 1
      <4>1. \A k \in 1..(n + 1) : Work'[k] \in T
        BY <2>3, <2>5, <2>6, <3>1, <3>2
      <4>2. Work' = [k \in 1..(n + 1) |-> Work'[k]]
        BY <2>4 DEF Work
      <4>3. Work' \in [1..(n + 1) -> T]
        BY <4>1, <4>2
      <4>4. n + 1 \in Nat
        BY <2>3
      <4>5. Work' \in Seq(T)
        BY <4>3, <4>4, SeqDef
      <4> QED
        BY <4>3, <4>4, <4>5, LenProperties
    <3>5. /\ Append(Work, new) \in Seq(T) /\ Len(Append(Work, new)) = n + 1
          /\ \A k \in 1..n : Append(Work, new)[k] = Work[k]
          /\ Append(Work, new)[n + 1] = new
      BY <3>2, <3>3, AppendProperties
    <3>6. \A k \in 1..(n + 1) : Work'[k] = Append(Work, new)[k]
      BY <2>3, <2>5, <2>6, <3>5
    <3> QED
      BY <3>4, <3>5, <3>6, SeqEqual
  <2> QED
    BY <2>2, <2>7 DEF Promise!Submit
<1>7. ASSUME NEW w \in Workers, Leaves(w) \/ Shutdown(w) \/ CountQueued(w)
      PROVE  UNCHANGED <<Work, completed>>
  <2>1. jobs' = jobs /\ completed' = completed
    BY <1>0, <1>7, LeaveEffect DEF Shutdown, CountQueued
  <2> QED
    BY <2>1 DEF Work, JobIds
<1>8. ASSUME Tick PROVE UNCHANGED <<Work, completed>>
  <2>1. /\ JobIds' = JobIds
        /\ \A j \in JobIds : jobs'[j].state = jobs[j].state /\ jobs'[j].attempts = jobs[j].attempts
    BY <1>0, <1>8, TickEffect
  <2>2. Work' = Work
    BY <2>1, WorkFrame
  <2> QED
    BY <1>8, <2>2 DEF Tick
<1>9. ASSUME UNCHANGED vars PROVE UNCHANGED <<Work, completed>>
  BY <1>9 DEF vars, Work, JobIds
<1> QED
  BY <1>1, <1>2, <1>3, <1>4, <1>5, <1>6, <1>7, <1>8, <1>9, StepCases DEF Promise!Next

\* Refinement: the queue with its workers, crashes, lost marks and expired leases
\* implements the promise of WorkQueue.
THEOREM PromiseKept == Spec => KeepsPromise
<1>1. Init => Promise!Init
  BY DEF Init, Promise!Init, Work, JobIds
<1>2. IInv /\ [Next]_vars => [Promise!Next]_<<Work, completed>>
  BY PromiseStep
<1> QED
  BY <1>1, <1>2, Invariance, PTL DEF Spec, KeepsPromise, Promise!Spec
=============================================================================
