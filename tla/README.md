# Orientation enrollment platform: specifications and proofs

TLA+ specifications of the Go backend in `src/`, the TLC configurations that
check them on small instances and TLAPS proofs of their main invariants. Paths
below are relative to `src/internal/` unless they start with `src/`.

## 1. Inventory of the system

| Part | State it keeps | Operations that change it | Interacts with |
| --- | --- | --- | --- |
| Domain rules (`domain/`) | none | – | called by every service inside its transaction |
| Registration (`service/registration.go`) | `student_registrations` | `Submit`, `Decide` | its verdict is a precondition of a claim |
| Enrollment (`service/enrollment.go`) | `enrollments`, the counters of `course_sections` | `Claim`, `Drop`, `PromoteWaitlist`, `BatchClaim`, `SetSectionStatus` | reads registrations, enqueues jobs, writes audit entries |
| Job queue (`storage/sqlite/jobs.go`) | `jobs` | enqueue, claim, three marks, requeue | filled by `Drop` and by maintenance, drained by the worker |
| Worker (`worker/`) | its current iteration | `RecoverStaleJobs`, `RunOnce`, `Run`, `EnsureSessionSweep` | calls `PromoteWaitlist` and `SweepExpiredSessions` |
| Sessions (`service/auth.go`) | `sessions` | `Login`, `Authenticate` (touch), `Logout`, `SweepExpiredSessions` | every request authenticates first |
| Idempotency (`service/idempotency.go`) | `idempotency_keys` | `Execute` around a claim | wraps `Claim` in the HTTP handler |
| Start-up (`storage/sqlite/migrate.go`, `seed.go`, `app.Build`) | `schema_migrations`, seed rows | `Migrate`, `Seed` | runs before everything else, in every process |
| Process life cycle (`app/app.go` `Run`, `src/cmd/server/main.go`) | goroutines, error channel, the open pool | serve, fail, select, drain, wait, close | starts and stops the HTTP server, the worker and maintenance |
| Database handle (`storage/sqlite/db.go`) | the pool | `InTx`, `Close`; `formatTime`/`parseTime` | every statement; every stored instant |
| Audit (`audit/recorder.go`) | `audit_events` | `Record` inside the caller's transaction | all services and the worker |
| HTTP, middleware, presenters, config, logging, ids, clock, credentials, paged reads | none of their own | – | stateless shells around the above |

The system is one or more identical server processes on one SQLite database.
A request authenticates (Sessions), runs a service operation in one immediate
transaction (Registration, Enrollment) and may be wrapped in an idempotency
record. A drop leaves a job in the queue; the worker inside every process claims
it and calls back into the enrollment service. Processes share nothing but the
database.

**What is hard.** The counters on a section row are kept by other statements
than the rows they count, in four operations. Ranks on a waitlist are reused.
A freed seat is only offered again through a job, and between the drop and the
job anything may happen, a crash of the worker included. `Authenticate` and
`Execute` are sequences of statements, not transactions. A lease may expire under
a live worker, recovery only runs when a process starts, and every mark of a job
happens under a context that may be cancelled. Processes of different releases
may migrate and seed one database together. A batch of claims is a series of
transactions, each with a second one for the rejection, under a context that
may expire between any two. Instants are compared as text whose order is not
theirs. And the three goroutines of a process fail and stop independently. Every one of these is an entry of
`hazards` in `PROJECT.json`, at its line.

**What makes each part correct.** Registration: decisions are attributed, a
verification is final. Enrollment: never oversold, first come first promoted, no
free seat forgotten, plans within the rules, a trail that explains the roster.
Queue and worker: a final state is earned, final, audited once; every job ends;
what they do to the roster is what the enrollment service counts on. Claims: the
client knows what it owns and rejections are on record.
Sessions: revocation is immediate, final and accounted for. Idempotency: one
response for a key. Start-up: one release's schema, one seed, and losers of a
race get in. Life cycle: the process stops when told, reports every failure and
closes the database last.

## 2. Modules

| Module | Models | Extended by |
| --- | --- | --- |
| `Catalog` | `domain/`: catalogue constants, rules, status machines | `Registration` |
| `Registration` | `service/registration.go` and its upsert | `Enrollment` |
| `Enrollment` | `service/enrollment.go` with `storage/sqlite/enrollments.go` and the section counters of `catalog.go`, over `Registration` | `Claims`, `MCSeats`, `MCPlan` |
| `Claims` | `BatchClaim`, `Claim` and `recordRejection` as requests of several transactions, over `Enrollment` | `EnrollmentProofs`, `MCClaims` |
| `WorkQueue` | abstract: what the queue promises (`JobRepository`) | implemented by `JobQueue` |
| `JobQueue` | `storage/sqlite/jobs.go`, `worker/` | `Promotion`, `JobQueueProofs`, `MCJobQueue` |
| `Promotion` | composition: `JobQueue` and the roster of an instance of `Enrollment`, whose number of jobs is read off the queue | `PromotionProofs`, `MCPromotion` |
| `Timestamps` | `formatTime`, `parseTime` and the order of stored texts | `Sessions` |
| `Sessions` | `service/auth.go`, `storage/sqlite/sessions.go` | `SessionsProofs`, `MCSessions` |
| `Idempotency` | `service/idempotency.go` around a claim | `IdempotencyProofs`, `MCIdempotency` |
| `Startup` | `storage/sqlite/migrate.go`, `seed.go`, `app.Build` | `StartupProofs`, `MCStartup` |
| `Lifecycle` | `app/app.go` `Run`, `src/cmd/server/main.go` | `LifecycleProofs`, `MCLifecycle` |
| `Recursion` | lemmas: induction and recursive functions over `0..n` | `EnrollmentProofs`, `SessionsProofs` |

Two refinements tie them together. `JobQueue` implements `WorkQueue`
(`KeepsPromise`): a row is pending until its state is terminal, its tries are the
attempts, and carried out is the history `completed`. `Promotion` implements
`Enrollment` (`ImplementsEnrollment`): the roster is the same, and `promotionJobs[s]`
is the number of jobs of section `s` that are live and that no handler has
carried out. `Enrollment` can therefore be read, checked and proved about alone,
with a number in the place of a queue, and what it says holds of the code's two
transactions per job, with its crashes, leases and retries in between.

`PROJECT.json` maps each definition to its lines. The correspondences that need
a word:

* **Transactions.** `InTx` (`storage/sqlite/db.go`) opens immediate transactions,
  so the reads, checks and writes of a service operation are serialised and are
  one step. The `version` columns guard against conflicts that this
  serialisation already rules out, and are left out. What runs outside a
  transaction (`Authenticate`, `Execute`, `RunOnce`, `EnsureSessionSweep`,
  `Migrate`, the lookup of `Seed`) is one step per statement.
* **Clocks.** An operation that reads the clock and then waits for the write lock
  uses an instant up to `LockWait` old (`Drop`, `Login`, `Logout`, the sweep).
  `Claim` reads it inside its transaction. `JobQueue` keeps times relative
  (`due`, `age`), so its state space is finite without a clock.
* **Errors.** An operation that is refused changes nothing that is modelled; it
  is a disabled action, except where the refusal itself matters (`Lookup`,
  `RunClaim`, `TouchSession`, `LoadMigrations`, `InsertSeed`, `OutcomeRefused`).
* **`Enrollment`.** `claimOnce` is two actions, one for each branch
  (`ClaimSeat`, `ClaimWaitlistPlace`). `promotionJobs` counts the promotion jobs
  of a section that are neither carried out nor given up; `RerunPromotionJob` is a
  job carried out again, after a crash between the promotion's commit and the
  mark or by a worker that lost its lease; `AbandonPromotionJob` one that used up
  its retries. `settled` (some job ended) and `forfeited` (jobs that ended without
  an offer) are history variables. `SetSectionStatus` has no HTTP route; it is the
  store operation that tooling and tests use.
* **`Claims`.** A request goes through its items; each is refused by `Validate`
  (`ClaimInvalid`), is granted, is rejected by its transaction and then audited (or
  not), or fails. Neither the handler nor `BatchClaim` looks at the ids, so a batch
  may name sections, positive ids of no section (`Unknown`: `claimOnce` finds
  nothing, which is audited) and ids that are not positive (`Invalid`: `Claim`
  returns before it opens a transaction and before `recordRejection`). A single
  claim is a batch of one. The retry of
  `Claim` on a version conflict is not taken, as immediate transactions exclude
  the conflict. `author` is history: whose request made a row.
* **`Promotion`.** `Drop` writes the roster and inserts the job in one step;
  `HandlerCommits` is the promotion's transaction, `OutcomeRecorded` the mark.
  Everything else is a step of the queue that leaves the roster alone, or the
  other way round.
* **`JobQueue`.** `Start` is `RecoverStaleJobs`; `Claim` is `RunOnce` up to the
  handler; `HandlerReturns` the handler; `RecordOutcome`, `OutcomeRefused`,
  `OutcomeCancelled` and `OutcomeLost` are the four fates of the mark;
  `AuditFailure` is the second transaction of a permanent failure. The handler's
  effect is reduced to membership in `completed`.
  An iteration that is not over when its lease ends is counted as a fault
  (`overruns`), like crashes, shutdowns and refused statements, so that one run
  covers both the orderly and the disorderly case.
* **`Timestamps`, `Sessions`.** A stored instant is its second and the digits of
  its fraction without trailing zeros, in any base and precision. `FindSession`,
  `Validate` and `TouchSession` are the three parts of `Authenticate`; `Validate`
  parses the expiry, the sweep compares it as text. In `JobQueue` and `Enrollment`
  a tick is longer than the second within which texts are out of order.
* **`Lifecycle`.** A goroutine starts, runs, reports a failure (blocking when
  `errCh` is full) and returns; the main goroutine selects, drains, waits, returns,
  closes the database and exits. Requests do not descend from the process context,
  as in `net/http`.
* **`Idempotency`.** One scope. Payloads are bytes, so two payloads may ask for
  the same section. The response is the id of the row it shows.
* **`Startup`.** A migration is its checksum; the seed is the accounts (the same
  for everybody) and one term with a configured code, stored as configured and
  looked up in lower case.

## 3. Runs

Passing runs:

| Run | States | Instance | Shows |
| --- | --- | --- | --- |
| `seats` | 190,608 | 1 section of 1 seat and 2 waitlist places, 2 students, a registrar who may also claim, 4 rows, closings, failing jobs, `LockWait` 1 | counters, ranks, coverage of free seats, trail, decisions; waiting students are served (`FairSpec`) |
| `plan` | 91,292 | 5 sections over 4 courses and 2 terms, 2 claimants, 4 rows | every rule of a claim bites, and the plan obeys all of them also after promotions |
| `claims` | 1,639,632 | 2 batches of a section with an unknown or an invalid id, 2 sections of one course, 2 claimants, 3 rows, drops, promotions, expiry, failing statements | an answered client knows its rows; rejections are on the trail, but for the entries the database refused and the one at hand when a request ran out of time |
| `promotion` | 110,624 | 1 section of 1 seat and 1 waitlist place, 2 claimants, 3 rows; 2 workers, 2 jobs, 2 attempts, 1 fault of any sort | the composition implements `Enrollment`; a freed seat reaches the waitlist (`PromotionFairSpec`) |
| `queue` | 348,928 | 2 workers, 2 jobs, 2 attempts, a lease of 2 ticks, faults of every sort | verdicts are earned, final, audited at most once; within the lease a busy worker holds its job; only faults orphan rows or exceed the budget; every job finishes or is orphaned; `WorkQueue` is implemented (`FairSpec`) |
| `sessions` | 2,120,774 | 2 sessions of 1 second, a clock of half seconds, 2 requests, sweeps of 1 row, `LockWait` 1 | revocation is immediate, final, audited once; requests see the exact expiry, the sweep errs by less than a second |
| `idempotency` | 591,834 | 3 requests, 3 payloads (2 for one section), 3 rows, a lifetime of 1 tick | all answers are the one stored response, and belong to their payload |
| `startup` | 35,953 | 4 processes of 3 releases, 2 term codes, 2 crashes | one release's schema, one seed, losers of a race get in (`FairSpec`) |
| `lifecycle` | 3,273 | worker enabled, 2 requests, any component may fail at any time, one signal | the database is closed last, failures are reported once, a signal ends the process (`FairSpec`) |

Runs that refute a line of the documentation (section 5): `queue_crash`, `once`,
`hang`.

**Bounds and why they are enough.** `MaxEnrollments` = 4 lets a seat be taken, two
students wait, one of them leave and come back, which is the shortest history in
which a rank is reused while another row waits. Capacity 1 makes every claim
after the first a waitlist claim. `MaxTime` crosses each window: before, inside
and at the closing instant; `LockWait` = 1 lets a drop be decided by an instant
before it. `plan` has no clock race, as a claim's instant is read inside its
transaction. In the queue a lease of 2 ticks is the smallest in which a worker
can be slow without being stale; a budget of 2 attempts has a retry and a last
attempt; `MaxOverdue` stops the clock while a job that is due waits longer than
that, which loses only idle waiting. `MaxFaults` and `FaultSorts` bound the
faults, so that liveness is asked of the time after the last one; `MaxEvents`
bounds jobs and faults together: two jobs and a fault, or one job and two. `promotion` has one fault, because each sort of
fault cuts a job's two transactions once, and two jobs, the second of which may
be enqueued while the first is being repeated; its section stays open and its
term windows too, which `seats` varies. In `claims` each batch has an
item that the other's may exclude and one that is never granted, so that a batch
is granted in part, rejected as a whole (two entries may then be lost), or
answered with an item that is refused before its transaction. In `sessions` one second of lifetime stands
for the minute that `config.Validate` asks for: the order of texts is wrong
within a second only, so all longer lifetimes look alike. Two sessions and sweeps of one row let a sweep leave a session behind.
Three requests are needed for a winner, a loser and a later retry. In `startup`
three releases share a first migration and then differ, and one of them ships
two more. Symmetry is used only in runs without a liveness property, over
process, request and student slots (and two payloads for the same section) that
nothing distinguishes.

**Fairness.** `Enrollment`: weak fairness of `RunPromotionJob` for each section,
because the worker polls for ever (`worker.go` `Run`) and a queued job is
claimable until it is claimed; nothing is assumed of users, tooling or faults,
and `AbandonPromotionJob` may always win. `JobQueue`: weak fairness of `Tick` and
of each worker's own steps, a restart included: the process is kept running by
whatever started it (outside the repository; `src/Dockerfile` only
names the command). Maintenance and requests are not fair. `Promotion`: the same,
on the composed steps. `Lifecycle`: weak fairness of the main goroutine, the
expiry of the grace period included, and of each component's start, stop and
report; neither signals and failures nor answers to requests are owed. `Startup`: weak fairness
of each process's steps, again with an external restart after a failure. The
safety runs assume nothing.

Every property has a mutant in `PROJECT.json`: a plausible bug in one mapped
definition (a dropped predicate, an off-by-one, a missing reset) under which TLC
finds the property violated with the same configuration.

## 4. Proofs

The theorems hold for every value of the constants: any catalogue, any users,
workers, clients, requests and processes, any bound, lease, budget, schedule and
lifetime. Every invariant, action property and refinement that a passing run
checks is also the subject of a theorem; the liveness properties are not.

| Module | Theorem | Statement |
| --- | --- | --- |
| `EnrollmentProofs` | `DecisionsAttributed`, `VerificationFinal` | `RegistrationSpec => []DecisionAttributed`, `=> VerificationIsFinal` |
| | `TypeCorrect`, `NeverOversold`, `RanksInOrder`, `NoSeatForgotten` | `Spec => []TypeOK`, `[]CountersMatchRoster`, `[]RanksFollowArrival`, `[]FreeSeatsCovered` |
| | `EarliestFirst` | `Spec => PromotionTakesEarliest` |
| | `TrailComplete`, `PlansObeyRules` | `Spec => []TrailExplainsRoster`, `[]PlanWithinRules` |
| | `RowsReported`, `RejectionsAudited` | `ClaimsSpec => []ClientsKnowTheirRows`, `[]RejectionsOnRecord` |
| `JobQueueProofs` | `TypeCorrect`, `VerdictsEarned`, `FailuresAuditedOnce`, `HandlersHoldJobs` | `Spec => []TypeOK`, `[]VerdictIsEarned`, `[]FailureAuditedOnce`, `[]HandlerHoldsJob` |
| | `OrphansFromFaults`, `ExtraAttemptsFromFaults` | `Spec => []OrphansComeFromFaults`, `[]ExtraAttemptsComeFromFaults` |
| | `PromiseKept` | `Spec => KeepsPromise` (implements `WorkQueue`) |
| `PromotionProofs` | `RosterImplemented` | `PromotionSpec => ImplementsEnrollment` (implements `Enrollment`) |
| `SessionsProofs` | `RoundTrip` | `parseTime` gives back what `formatTime` wrote, for every instant |
| | `TypeCorrect`, `ActivityWithinLife`, `EndsAccountedFor`, `NoEarlySweep` | `Spec => []TypeOK`, `[]SeenWithinLife`, `[]RevocationsAudited`, `[]OnlyLogoutEndsEarly` |
| | `RevokedAtOnce` | `Spec => RevocationIsImmediate` |
| `IdempotencyProofs` | `TypeCorrect`, `OneResponse`, `ResponseOfOwnPayload` | `Spec => []TypeOK`, `[]AnswersAgree`, `[]AnswerMatchesPayload` |
| `StartupProofs` | `TypeCorrect`, `SchemaNeverMixed`, `ServingFindsSchema`, `OneSeed` | `Spec => []TypeOK`, `[]SchemaOfOneRelease`, `[]ServesOwnSchema`, `[]SeededOnce` |
| `LifecycleProofs` | `TypeCorrect`, `StoreClosedLast`, `EveryFailureReported`, `SendsNeverBlock` | `Spec => []TypeOK`, `[]StoreOutlivesUsers`, `[]FailuresReported`, `[]SendReady` |

**Assumptions.** What `Catalog` states of its constants is what `Validate`
enforces before a row is stored. The empty values (`NoOne`, `NoWorker`, `Never`,
`None`) are no users, workers, instants or records. Bounds are naturals; the lease,
the retry budget, the backoff base, TTLs and sweep limits are positive, as
`config.Validate` and the constants of the code have them. The processes are
finitely many (`WorkersAssumption`), as orphans and strays are counted. Every
release ships at least one migration, numbered from 1 (`StartupAssumption`). An
order of claims is a non-empty sequence of ids (`OrdersAssumption`: `BatchClaim`
refuses an empty batch and looks at nothing else of it but its length, whose limit
of 20 the proofs do not use); an id is that of a section, is positive and unknown,
or is not positive, and no two of these. In `Promotion` a job is about a section or is
the sweep, never both (`KindsAssumption`). `PowersAssumption` is no assumption about
the program: it spells out exponentiation, which the provers do not know.

**The arguments.** In each module the theorem is read off an inductive invariant
whose parts the property alone does not give:

* *Roster.* `IInv` adds to the four properties `RanksBounded` (no rank exceeds the
  number of rows, and waiting rows have one), without which the maximum that
  `NextWaitlistRank` takes is not known to exist. `CountersMatchRoster` is needed by
  `FreeSeatsCovered`, because `Drop` decides on the counter and the invariant speaks
  of the rows. A row that moves from one status to another is reduced to two lemmas
  about `RowsIn`, whose cardinalities change by one. `EarliestFirst` follows from
  the order of ranks.
* *Trail.* A replay is a recursive function of a log, so a longer log has to be
  shown to replay its prefix alike. `StatusesUsed` rules out the two statuses no
  operation gives (`pending`, `completed`), from which the replay would be stuck.
* *Plans.* `OneRowEach`, the unique index read over active rows, makes the sections
  held as many as the active rows, so that a drop takes exactly one section out of
  the plan. The credit load is a fold over that set; that it grows by the credits
  of the section claimed, and shrinks with a subset, is proved from the fold's
  definition.
* *Requests.* `CInv` says that what a request has left to do, its results and its
  pending rejection are about the same items (`Consistent`), that every row one of
  its transactions made is in the results or lost to an expiry (`RowsKnown`), and
  keeps an account of the entries that are missing (`Accounted`): each is excused by
  a refused statement, or by the expiry, which excuses one entry and only once the
  rejection at hand has been given up (`Excused`). A request whose time is over has
  no further rejection, because the loop asks for the context first.
* *Queue.* `ClaimsKnown` and `OutcomesTrue` say that what a worker remembers of its
  row is still true of it, whoever has marked it since. The two properties about
  faults are accounts. Orphans: an interruption pays for one orphaned row, or is
  held by a worker that was told to stop and has not stopped
  (`OrphansAccounted`). Attempts: a job's attempts, one more if it is queued, and
  its `Debt` (workers that lost it and may hand it back, workers told to stop, a
  row the next restart may requeue) stay within the budget and the faults, and
  the debt alone within the faults (`DebtBacked`): each step that adds an attempt
  pays with debt or budget, each that adds debt with a fault.
* *Refinements.* `PromiseKept` maps each statement to a step of `WorkQueue` or to
  none; a late mark is harmless because it needs a running row.
  `RosterImplemented` adds to the queue's invariant that every job is about a
  section, that a section with a finished job is `settled`, and that errors are
  reported only where handlers fail. A commit is then `RunPromotionJob` if its job
  was outstanding and `RerunPromotionJob` if not; a recorded failure of a job that
  nobody carried out is `AbandonPromotionJob`; a drop is a drop; the rest is
  invisible. So the theorems about `Enrollment` hold of the composition.
* *Sessions.* `Lives` and `RequestsTimely` carry the instant at which a request
  found its session valid to the statement that writes it later. The sweep's error
  of less than a second is a property of digits: `RoundTrip` and the order of
  fractions without trailing zeros, proved for any base and precision.
* *Idempotency.* `RecordTrue` and `RequestsTrue` say that the record, and what a
  request in flight holds, belong to a row that was created under the key for
  that payload. *Start-up.* `LoadedTrue`: what a process read of the applied
  migrations before it took the lock stays applied, as the schema only grows.
  *Life cycle.* `FailuresOnTheWay`: a failure is being sent, in the channel or
  received, one of the three and once; `Sequencing` says what the position of the
  main goroutine implies of the others.

Where a property is about a recursive function or a fold (the replay of a trail,
credit loads, the digits of a fraction, counts along a log) the library's
induction theorems are of no use, as they take an operator as a parameter. Module
`Recursion` proves induction over `0..n` for a *set* by least elements, and from
it that recursive functions over `0..n` exist, are unique and are typed; the
proofs instantiate those.

**Only model-checked.** Liveness: `WaitlistServed`, `FreedSeatReachesWaitlist`,
`FinishedOrOrphaned`, `StartsUnlessRefused` and `StopsWhenTold` need fairness and
`ENABLED`, which are out of this prover's reach.

## 5. Where the code and its documentation differ

Each of these is a violation run; the trace TLC prints is the example.

* `queue_crash`: stale jobs are recovered only when a process starts. A process
  that restarts within the lease of its own abandoned job never looks again, and
  the job stays `running` (`worker/worker.go:1-2`).
* `once`: `Execute` can run its function twice for one key
  (`service/idempotency.go:54`). The duplicate rule of claims usually stops the
  second one; after a drop it does not.
* `hang`: when a component fails without a signal, `Run` closes the listener and
  then waits at `app/app.go:245` for the worker and the maintenance loop, which
  nobody tells to stop. One failing statement of maintenance is enough
  (`worker/handlers.go:121-125`). The comment at `app/app.go:195-196` has the
  shutdown end within the grace period.

Seen while modelling, without a run of its own:

* `claimOnce` gives a free seat to whoever claims next, without looking at the
  waitlist: between a drop and its job a newcomer overtakes it, and the job then
  finds nothing to offer (`src/README.md:8-10`).
* A cancellation after the handler returned and before the mark leaves the job
  `running` and locked, unlike one that the handler notices
  (`worker/worker.go:158-159`); it is an interruption in `OrphansComeFromFaults`.
* The sweep turns an expired session into a revoked one, and `Validate` looks at
  the revocation first, so its client is told of a revocation nobody asked for
  (`service/auth.go:108-110`).
* Stored timestamps do not sort as their comment says (`storage/sqlite/db.go:189-190`
  "lexical ordering equals chronological ordering"): `...:05.5Z` sorts before
  `...:05Z`. The sweep can so revoke a session up to a second early, or miss one
  that has just expired; `OnlyLogoutEndsEarly` is stated accordingly.
* A batch that is interrupted answers with an error and throws the outcomes of
  its committed items away, and a batch whose items all fail answers 200
  (`httpapi/enrollment_handlers.go:105-106` "always answers 207 style content");
  `ClientsKnowTheirRows` excepts the former.
* The audit entry of a rejection is written under the request's own context and
  is lost when that has expired (`service/service.go:77` "must survive" the
  rollback, which it does); `RejectionsOnRecord` shows that a request loses no more
  than one entry in this way.
* An item of a batch whose id is zero or negative is told to the client as
  `validation_failed` and never audited, unlike one whose id names no section:
  `Claim` returns before `recordRejection` (`service/enrollment.go:62-64`).
  `RejectionsOnRecord` is about the items a transaction rejected.
* A promotion job that finds its section closed retires as succeeded, and nothing
  replaces it when the section reopens (the `forfeited` of `FreeSeatsCovered`).
* `finishJob` does not ask who holds the job, so with iterations longer than the
  lease a mark can land on another worker's attempt, and recovery requeues the
  jobs of live workers. `KeepsPromise` holds nonetheless.
* Attempts can exceed `MaxJobAttempts` by the number of faults.
* `last_seen_at` may go back when touches are applied out of order.
* A term code configured in mixed case, or changed after the first start, makes
  every later start fail in the seed (`storage/sqlite/seed.go:98`).

## 6. Not modelled

HTTP parsing, presentation and error codes, configuration, logging, identifiers,
password hashing and token digests are stateless conversions. Paged reads change
nothing; their count and page are two statements, and nothing promises that they
agree. The rejections of drops and of paperwork decisions are audited the way
those of claims are (`Claims`) and are left out. `IdempotencyService.PurgeExpired`
has no caller. The provisioning helpers of `seed.go` other than `SetSectionStatus`
insert rows for tests and tooling. The worker's branch for a kind without a
handler cannot be taken: it asks only for kinds it has handlers for. Formatting,
wording and form fields are data no property tells apart.

## 7. Plan

Done, in this order: `Catalog`, `Registration`, `Enrollment` and its proofs,
`JobQueue`, `Sessions`, `Idempotency`, `Startup`; then `WorkQueue`, `Promotion`,
`Lifecycle`, `Claims` and `Timestamps`; then the proofs of every safety property
and of both refinements.

Next: the safety part of what liveness rests on, as theorems. That a free seat
somebody waits for has a job in the queue that is live or was forfeited, stated
over `Promotion` itself; that a row that is neither finished nor orphaned always
has a worker or a due time; that a process told to stop is at most waiting for
the grace period or for a component that has been told. And the order of stored
texts against that of instants, as a theorem about `Timestamps` alone.
