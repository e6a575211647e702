----------------------------- MODULE Enrollment -----------------------------
(***************************************************************************)
(* Seat allocation: claims, drops, waitlist promotion and the section      *)
(* tooling, over the paperwork of module Registration.                     *)
(*                                                                         *)
(* Every operation runs its reads, its checks and its writes inside one    *)
(* immediate transaction (storage/sqlite/db.go InTx), so each is one       *)
(* step; the version columns never conflict under that serialisation and   *)
(* are left out.  A rejected request changes none of this state.           *)
(*                                                                         *)
(* The queue of promotion jobs is abstracted to the number of jobs of each *)
(* section that nobody has carried out or given up yet; module JobQueue    *)
(* models the queue itself and module Promotion composes the two.          *)
(***************************************************************************)
EXTENDS Registration, Sequences

CONSTANTS
  MaxEnrollments,  \* bound on the enrollment rows ever created
  MaxTime,         \* bound on the clock
  LockWait,        \* longest time a request waits for the write lock
  HandlerMayFail,  \* whether a promotion job may exhaust its retries
  ToolingStatuses  \* the statuses provisioning and tooling give a section

ASSUME BoundsAssumption ==
  /\ MaxEnrollments \in Nat /\ MaxTime \in Nat /\ LockWait \in Nat
  /\ HandlerMayFail \in BOOLEAN
  /\ ToolingStatuses \subseteq SectionStatuses

VARIABLES
  sections,       \* [Sections -> [status, seatsTaken, waitlistLength]]
  enrollments,    \* rows in id order: Seq([student, section, status, rank])
  trail,          \* the success audit actions of each row, in order
  promotionJobs,  \* [Sections -> promotion jobs neither carried out nor given up]
  settled,        \* history: [Sections -> whether such a job ever was]
  forfeited,      \* history: [Sections -> jobs that ended without an offer]
  now             \* the wall clock

vars == <<registration, sections, enrollments, trail, promotionJobs, settled, forfeited, now>>

AuditActions == {"claim", "waitlist", "promote", "drop"}

Rows == DOMAIN enrollments

\* ActiveEnrollmentsForStudent and ActiveMeetingsForStudent.
Held(student, t) ==
  {enrollments[i].section : i \in {j \in Rows :
     /\ enrollments[j].student = student
     /\ TermOf[enrollments[j].section] = t
     /\ Active(enrollments[j].status)}}

\* The rows of section s with a status.
RowsIn(s, status) ==
  {i \in Rows : enrollments[i].section = s /\ enrollments[i].status = status}

Waiting(s) == RowsIn(s, "waitlisted")

\* Mutant: the rank is the new length of the waitlist.
NextWaitlistRankByCount(s) == Cardinality(Waiting(s)) + 1

NextWaitlistRank(s) ==
  IF Waiting(s) = {} THEN 1 ELSE Max({enrollments[i].rank : i \in Waiting(s)}) + 1

\* Mutant: the newest waiting row.
HeadOfWaitlistNewest(s) == Max(Waiting(s))

\* ORDER BY waitlist_rank, then by age.
HeadOfWaitlist(s) ==
  CHOOSE i \in Waiting(s) : \A j \in Waiting(s) :
    \/ enrollments[i].rank < enrollments[j].rank
    \/ enrollments[i].rank = enrollments[j].rank /\ i <= j
-----------------------------------------------------------------------------
Init ==
  /\ RegistrationInit
  /\ sections \in [Sections -> [status : ToolingStatuses, seatsTaken : {0}, waitlistLength : {0}]]
  /\ enrollments = <<>>
  /\ trail = <<>>
  /\ promotionJobs = [s \in Sections |-> 0]
  /\ settled = [s \in Sections |-> FALSE]
  /\ forfeited = [s \in Sections |-> 0]
  /\ now = 0

\* Mutant: the audit entry of a new row is left out.
CreateEnrollmentUnaudited(student, s, status, rank, action) ==
  /\ enrollments' = Append(enrollments,
       [student |-> student, section |-> s, status |-> status, rank |-> RankAfter(status, rank)])
  /\ trail' = trail

\* CreateEnrollment of a pending row moved to status, and its audit entry.
\* The partial unique index refuses a second live row of a student.
CreateEnrollment(student, s, status, rank, action) ==
  /\ \A i \in Rows : ~ /\ enrollments[i].student = student
                       /\ enrollments[i].section = s
                       /\ Active(enrollments[i].status) \/ HoldsSeat(enrollments[i].status)
  /\ <<"pending", status>> \in EnrollmentTransitions
  /\ enrollments' = Append(enrollments,
       [student |-> student, section |-> s, status |-> status, rank |-> RankAfter(status, rank)])
  /\ trail' = Append(trail, <<action>>)

\* Mutant: the audit entry of a status change is left out.
MoveEnrollmentUnaudited(i, target, action) ==
  /\ <<enrollments[i].status, target>> \in EnrollmentTransitions
  /\ enrollments' = [enrollments EXCEPT ![i].status = target,
                                        ![i].rank = RankAfter(target, enrollments[i].rank)]
  /\ trail' = trail

\* Transition and UpdateEnrollment of row i, and its audit entry.
MoveEnrollment(i, target, action) ==
  /\ <<enrollments[i].status, target>> \in EnrollmentTransitions
  /\ enrollments' = [enrollments EXCEPT ![i].status = target,
                                        ![i].rank = RankAfter(target, enrollments[i].rank)]
  /\ trail' = [trail EXCEPT ![i] = Append(@, action)]

\* Claim and the seat branch of claimOnce.
ClaimSeat(actor, student, s) ==
  /\ Len(enrollments) < MaxEnrollments
  /\ CanActOnStudent(actor, student)
  /\ Eligible(now, student, s, sections[s], Verified(student, TermOf[s]), Held(student, TermOf[s]))
  /\ ~MustWaitlist(s, sections[s])
  /\ SeatClaimable(s, sections[s])
  /\ sections' = [sections EXCEPT ![s].seatsTaken = @ + 1]
  /\ CreateEnrollment(student, s, "enrolled", 0, "claim")
  /\ UNCHANGED <<registration, promotionJobs, settled, forfeited, now>>

\* Claim and the waitlist branch of claimOnce.
ClaimWaitlistPlace(actor, student, s) ==
  /\ Len(enrollments) < MaxEnrollments
  /\ CanActOnStudent(actor, student)
  /\ Eligible(now, student, s, sections[s], Verified(student, TermOf[s]), Held(student, TermOf[s]))
  /\ MustWaitlist(s, sections[s])
  /\ WaitlistRoom(s, sections[s])
  /\ CreateEnrollment(student, s, "waitlisted", NextWaitlistRank(s), "waitlist")
  /\ WaitlistMayMove(s, sections[s], 1)
  /\ sections' = [sections EXCEPT ![s].waitlistLength = @ + 1]
  /\ UNCHANGED <<registration, promotionJobs, settled, forfeited, now>>

\* Mutant: off by one, the last waiting student gets no job.
EnqueuesPromotionOffByOne(s) == sections[s].waitlistLength > 1

\* A drop that releases a seat enqueues a promotion job when somebody waits.
EnqueuesPromotion(s) == sections[s].waitlistLength > 0

\* What dropping row i does to the roster.  The instant at is read before the
\* transaction waits for the write lock, so it may be LockWait old when the row
\* is checked against it.
DropRow(actor, i, at) ==
  LET s        == enrollments[i].section
      previous == enrollments[i].status
      target   == IF HoldsSeat(previous) THEN "dropped" ELSE "withdrawn"
      releases == SeatDelta(previous, target) < 0
  IN
  /\ CanActOnStudent(actor, enrollments[i].student)
  /\ actor \in Registrars \/ DropAllowed(TermOf[s], at)
  /\ MoveEnrollment(i, target, "drop")
  /\ releases => SeatReleasable(sections[s])
  /\ previous = "waitlisted" => WaitlistMayMove(s, sections[s], -1)
  /\ sections' = [sections EXCEPT
       ![s].seatsTaken     = IF releases THEN @ - 1 ELSE @,
       ![s].waitlistLength = IF previous = "waitlisted" THEN @ - 1 ELSE @]

\* The drop of row i frees a seat for which somebody waits.
FreesSeat(i) ==
  HoldsSeat(enrollments[i].status) /\ EnqueuesPromotion(enrollments[i].section)

\* Drop of row i, and the promotion job it enqueues.
Drop(actor, i, at) ==
  /\ DropRow(actor, i, at)
  /\ promotionJobs' = [promotionJobs EXCEPT ![enrollments[i].section] =
       IF FreesSeat(i) THEN @ + 1 ELSE @]
  /\ UNCHANGED <<registration, settled, forfeited, now>>

\* Mutant: the waitlist counter is not moved.
PromotedSectionKeepsLength(section) == [section EXCEPT !.seatsTaken = @ + 1]

\* ClaimSeat and AdjustWaitlistLength(-1) of a promotion.
PromotedSection(section) ==
  [section EXCEPT !.seatsTaken = @ + 1, !.waitlistLength = @ - 1]

\* PromoteWaitlist: one free seat of an open section goes to the head of its
\* waitlist.  The term's windows are not consulted.
CanPromote(s) ==
  AcceptsEnrollment(sections[s]) /\ SeatsAvailable(s, sections[s]) > 0 /\ Waiting(s) # {}

PromoteWaitlist(s) ==
  \/ /\ CanPromote(s)
     /\ MoveEnrollment(HeadOfWaitlist(s), "enrolled", "promote")
     /\ SeatClaimable(s, sections[s])
     /\ WaitlistMayMove(s, sections[s], -1)
     /\ sections' = [sections EXCEPT ![s] = PromotedSection(@)]
  \/ /\ ~CanPromote(s)
     /\ UNCHANGED <<enrollments, trail, sections>>

\* A promotion job is carried out for the first time.  forfeited counts the
\* jobs that found their section closed and so retire without an offer.
RunPromotionJob(s) ==
  /\ promotionJobs[s] > 0
  /\ PromoteWaitlist(s)
  /\ promotionJobs' = [promotionJobs EXCEPT ![s] = @ - 1]
  /\ settled' = [settled EXCEPT ![s] = TRUE]
  /\ forfeited' = [forfeited EXCEPT ![s] = IF AcceptsEnrollment(sections[s]) THEN @ ELSE @ + 1]
  /\ UNCHANGED <<registration, now>>

\* A promotion job is carried out again: the process stopped between the commit
\* and the mark, or a worker that lost its lease is late.
RerunPromotionJob(s) ==
  /\ settled[s]
  /\ PromoteWaitlist(s)
  /\ UNCHANGED <<registration, promotionJobs, settled, forfeited, now>>

\* The handler keeps failing and the job is marked permanently failed.
AbandonPromotionJob(s) ==
  /\ HandlerMayFail
  /\ promotionJobs[s] > 0
  /\ promotionJobs' = [promotionJobs EXCEPT ![s] = @ - 1]
  /\ settled' = [settled EXCEPT ![s] = TRUE]
  /\ forfeited' = [forfeited EXCEPT ![s] = @ + 1]
  /\ UNCHANGED <<registration, sections, enrollments, trail, now>>

\* The store operation behind the registrar tooling: any status to any status.
SetSectionStatus(s, status) ==
  /\ sections' = [sections EXCEPT ![s].status = status]
  /\ UNCHANGED <<registration, enrollments, trail, promotionJobs, settled, forfeited, now>>

Tick ==
  /\ now < MaxTime
  /\ now' = now + 1
  /\ UNCHANGED <<registration, sections, enrollments, trail, promotionJobs, settled, forfeited>>

Paperwork ==
  /\ RegistrationNext
  /\ UNCHANGED <<sections, enrollments, trail, promotionJobs, settled, forfeited, now>>

StudentAction ==
  \E actor \in Users :
    \/ \E student \in Users, s \in Sections :
         ClaimSeat(actor, student, s) \/ ClaimWaitlistPlace(actor, student, s)
    \/ \E i \in Rows, at \in (now - LockWait)..now : Drop(actor, i, at)

JobAction ==
  \E s \in Sections : RunPromotionJob(s) \/ RerunPromotionJob(s) \/ AbandonPromotionJob(s)

Tooling == \E s \in Sections, status \in ToolingStatuses : SetSectionStatus(s, status)

Next == Paperwork \/ StudentAction \/ JobAction \/ Tooling \/ Tick

Spec == Init /\ [][Next]_vars

\* The worker keeps polling and the database answers, so a live job of a section
\* runs eventually (module JobQueue).  Users and tooling owe nothing.
FairSpec == Spec /\ \A s \in Sections : WF_vars(RunPromotionJob(s))
-----------------------------------------------------------------------------
EnrollmentRow ==
  [student : Users, section : Sections, status : EnrollmentStatuses, rank : Nat]

TypeOK ==
  /\ registration \in RegistrationType
  /\ sections \in [Sections -> [status : SectionStatuses, seatsTaken : Nat, waitlistLength : Nat]]
  /\ enrollments \in Seq(EnrollmentRow)
  /\ trail \in Seq(Seq(AuditActions)) /\ Len(trail) = Len(enrollments)
  /\ promotionJobs \in [Sections -> Nat] /\ settled \in [Sections -> BOOLEAN]
  /\ forfeited \in [Sections -> Nat]
  /\ now \in Nat

\* The counters on the section row, kept by separate statements in four
\* operations (ClaimSeat, ReleaseSeat, AdjustWaitlistLength, and the row
\* writes), always agree with the rows they count, and so a section is never
\* oversold and its waitlist never longer than its limit.
CountersMatchRoster ==
  \A s \in Sections :
    /\ sections[s].seatsTaken = Cardinality(RowsIn(s, "enrolled"))
    /\ sections[s].waitlistLength = Cardinality(Waiting(s))
    /\ sections[s].seatsTaken <= Capacity[s]
    /\ sections[s].waitlistLength <= WaitlistLimit[s]

\* Ranks are reused once the tail of a waitlist leaves (NextWaitlistRank looks
\* at the rows still waiting only), yet among the rows waiting for one section
\* no two ever share a rank and a later claim always ranks behind.
RanksFollowArrival ==
  \A s \in Sections : \A i, j \in Waiting(s) :
    i < j => 0 < enrollments[i].rank /\ enrollments[i].rank < enrollments[j].rank

\* While somebody waits, every free seat of the section is accounted for: a
\* promotion job for it is still to be carried out, or one ended without an
\* offer (section closed at the time, or retries exhausted).  Drop alone enqueues
\* jobs, and only when its own read of the waitlist is not empty.
FreeSeatsCovered ==
  \A s \in Sections :
    Waiting(s) # {} => Capacity[s] - sections[s].seatsTaken <= promotionJobs[s] + forfeited[s]

\* What a student holds in a term, waitlist places included, always forms a
\* plan that obeys the rules checked at claim time: paperwork verified, courses
\* distinct and their prerequisites passed, credits within the limit, no two
\* weekly blocks in collision.  A promotion makes none of these checks.
PlanWithinRules ==
  \A u \in Users, t \in Terms :
    LET held == Held(u, t) IN
    /\ held # {} => Verified(u, t)
    /\ CreditLoad(held) <= CreditLimit[t]
    /\ \A h \in held : MissingPrerequisites(CourseOf[h], u) = {}
    /\ \A g, h \in held : g # h => /\ CourseOf[g] # CourseOf[h]
                                   /\ ~FindScheduleConflict(Meetings[g], Meetings[h])
    /\ Cardinality(held) =
         Cardinality({i \in Rows : /\ enrollments[i].student = u
                                   /\ TermOf[enrollments[i].section] = t
                                   /\ Active(enrollments[i].status)})

StatusAfter ==
  [claim    |-> [none |-> "enrolled"],
   waitlist |-> [none |-> "waitlisted"],
   promote  |-> [waitlisted |-> "enrolled"],
   drop     |-> [enrolled |-> "dropped", waitlisted |-> "withdrawn"]]

\* The status a row should have by its audit entries.
Replayed(log) ==
  LET replay[n \in 0..Len(log)] ==
        IF n = 0 THEN "none" ELSE StatusAfter[log[n]][replay[n - 1]]
  IN  replay[Len(log)]

\* The audit trail is complete and in order: replaying the success entries of a
\* row, from no row at all, always gives exactly the status the row has.  The
\* entries are written by four operations in the transactions of their effects.
TrailExplainsRoster == \A i \in Rows : enrollments[i].status = Replayed(trail[i])

\* A step that gives a waiting row its seat picks the earliest claim still
\* waiting for the section, whatever drops and promotions came before
\* (enrollment_test.go:200 "promote the head of the waitlist, not the newest").
PromotionTakesEarliest ==
  [][\A i \in Rows :
       enrollments[i].status = "waitlisted" /\ enrollments'[i].status = "enrolled"
         => \A j \in Waiting(enrollments[i].section) : i <= j]_vars

\* An open section never keeps a free seat and a waiting student for ever,
\* unless a job for the section ended without an offer.
WaitlistServed ==
  \A s \in Sections :
    CanPromote(s) /\ forfeited[s] = 0 ~> ~CanPromote(s) \/ forfeited[s] > 0
=============================================================================
