------------------------------ MODULE Promotion ------------------------------
(***************************************************************************)
(* Waitlist promotion end to end: the roster of module Enrollment, whose   *)
(* drops enqueue promotion jobs, composed with the queue and the workers   *)
(* of module JobQueue, whose promotion handler writes the roster.  A drop  *)
(* inserts its job in the transaction that frees the seat; the handler     *)
(* commits its promotion in one transaction and the worker marks the job   *)
(* in another, so crashes, expired leases, retries and requests all fall   *)
(* between the two.                                                        *)
(*                                                                         *)
(* A promotion does not consult the term windows, so they stay open here   *)
(* and the only time that passes is the queue's.  The session sweeps that  *)
(* maintenance plans touch no roster and are left to module JobQueue.      *)
(***************************************************************************)
EXTENDS JobQueue, Catalog

CONSTANTS
  NoOne, MaxEnrollments, ToolingStatuses   \* of Enrollment

\* What a job is about: a section to promote, or the session sweep.
ASSUME KindsAssumption == Kinds = Sections \cup {Sweep} /\ Sweep \notin Sections

\* As in Registration and Enrollment.
ASSUME RosterAssumption ==
  NoOne \notin Users /\ MaxEnrollments \in Nat /\ ToolingStatuses \subseteq SectionStatuses

VARIABLES
  registration, sections, enrollments, trail,   \* the roster
  settled, forfeited                            \* history, as in Enrollment

roster == <<registration, sections, enrollments, trail>>
history == <<settled, forfeited>>

\* The promotion jobs of a section that are live and that nobody has carried out.
Outstanding(s) ==
  {j \in DOMAIN jobs :
     jobs[j].kind = s /\ ~Terminal(jobs[j].state) /\ j \notin completed}

Roster ==
  INSTANCE Enrollment WITH
    promotionJobs  <- [s \in Sections |-> Cardinality(Outstanding(s))],
    now            <- 0,
    MaxTime        <- 0,
    LockWait       <- 0,
    HandlerMayFail <- HandlersFail

promotionVars == <<roster, vars, history>>

PromotionInit ==
  /\ Init
  /\ settled = [s \in Sections |-> FALSE]
  /\ forfeited = [s \in Sections |-> 0]
  /\ Roster!Init
-----------------------------------------------------------------------------
\* Requests and tooling that do not touch the queue.
Request ==
  /\ UNCHANGED <<vars, history>>
  /\ \/ Roster!Paperwork
     \/ Roster!Tooling
     \/ \E actor, student \in Users, s \in Sections :
          \/ Roster!ClaimSeat(actor, student, s)
          \/ Roster!ClaimWaitlistPlace(actor, student, s)

\* Mutant: a job is enqueued for every seat released, wanted or not.
JobOfDropAlways(i) == EnqueueJob(enrollments[i].section, 0)

\* The job a drop inserts, due at once.
JobOfDrop(i) ==
  IF Roster!FreesSeat(i) THEN EnqueueJob(enrollments[i].section, 0) ELSE UNCHANGED jobs

\* EnrollmentService.Drop: the roster and the job, in one transaction.
Drop(actor, i) ==
  /\ JobOfDrop(i)
  /\ Roster!DropRow(actor, i, 0)
  /\ UNCHANGED <<registration, workers, planner, completed, failures, faults, history>>

\* History of a queue step: the outstanding jobs it carries out or gives up, and
\* those among them that ended without an offer.
Settle ==
  LET over(s) == Outstanding(s) \ Outstanding(s)' IN
  /\ settled' = [s \in Sections |-> settled[s] \/ over(s) # {}]
  /\ forfeited' = [s \in Sections |-> forfeited[s] +
       Cardinality({j \in over(s) : j \notin completed' \/ ~AcceptsEnrollment(sections[s])})]

\* Mutant: the handler answers without having committed its promotion.
PromotionHandlerEmpty(s) == UNCHANGED roster

\* What the promotion handler commits for a job of section s.
PromotionHandler(s) == Roster!PromoteWaitlist(s) /\ UNCHANGED registration

\* The handler commits and returns nil.
HandlerCommits(w) ==
  /\ HandlerReturns(w, "ok")
  /\ PromotionHandler(jobs[workers[w].job].kind)
  /\ Settle

\* Recording the outcome may give a job up.
OutcomeRecorded(w) ==
  /\ RecordOutcome(w)
  /\ Settle
  /\ UNCHANGED roster

PromotionWorkerStep(w) ==
  \/ HandlerCommits(w)
  \/ OutcomeRecorded(w)
  \/ /\ \/ Start(w)
        \/ Claim(w)
        \/ \E outcome \in {"error", "interrupted"} : HandlerReturns(w, outcome)
        \/ OutcomeRefused(w)
        \/ OutcomeCancelled(w)
        \/ AuditFailure(w)
        \/ Exit(w)
     /\ UNCHANGED <<roster, history>>

\* Faults and time.
Surroundings ==
  /\ \/ \E w \in Workers : OutcomeLost(w) \/ Shutdown(w) \/ Crash(w)
     \/ Tick
  /\ UNCHANGED <<roster, history>>

PromotionNext ==
  \/ Request
  \/ \E actor \in Users, i \in DOMAIN enrollments : Drop(actor, i)
  \/ \E w \in Workers : PromotionWorkerStep(w)
  \/ Surroundings

PromotionSpec == PromotionInit /\ [][PromotionNext]_promotionVars

\* As in JobQueue: the processes run and time passes.
PromotionFairSpec ==
  /\ PromotionSpec
  /\ WF_promotionVars(Tick /\ UNCHANGED <<roster, history>>)
  /\ \A w \in Workers : WF_promotionVars(PromotionWorkerStep(w))
-----------------------------------------------------------------------------
\* The composition implements module Enrollment, which knows only a number of
\* jobs to be carried out: whatever the queue goes through, each job that leaves
\* that number was carried out once on the roster or was given up and is counted
\* as a forfeit, jobs appear by drops only, and everything else a worker does is
\* invisible or a promotion that was due anyway.  FreeSeatsCovered and the other
\* theorems about Enrollment hold of the composition by this.
ImplementsEnrollment == Roster!Spec

\* A free seat of an open section that somebody waits for is eventually filled or
\* no longer wanted, through the real queue with its retries and backoff and two
\* workers competing for the job: unless a fault interrupted a worker, or a job
\* for the section ended without an offer.
FreedSeatReachesWaitlist ==
  \A s \in Sections :
    Roster!CanPromote(s) ~> \/ ~Roster!CanPromote(s)
                            \/ forfeited[s] > 0
                            \/ Interruptions > 0
=============================================================================
