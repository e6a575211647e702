------------------------------ MODULE Catalog ------------------------------
(***************************************************************************)
(* The catalogue and the pure rules of internal/domain: who may act on     *)
(* whom, the term windows, the weekly blocks, the two status machines and  *)
(* the eligibility rules of a seat claim.                                  *)
(*                                                                         *)
(* Terms, courses, sections' static columns and academic records are       *)
(* written by the provisioning code before students arrive and never       *)
(* updated afterwards, so they are constants.  Instants are naturals on    *)
(* one clock; a course code, a section and a user are opaque values.       *)
(***************************************************************************)
EXTENDS Integers, FiniteSets, FiniteSetsExt

CONSTANTS
  Users,            \* every account, students and registrars
  Registrars,       \* the accounts whose role is "registrar"
  Terms,            \* academic terms
  Archived,         \* the terms whose archived flag is set
  OpensAt,          \* [Terms -> instant] EnrollmentOpensAt
  ClosesAt,         \* [Terms -> instant] EnrollmentClosesAt
  AddDropClosesAt,  \* [Terms -> instant] AddDropClosesAt
  CreditLimit,      \* [Terms -> credits]
  Courses,          \* course codes
  Credits,          \* [Courses -> credits]
  Prereqs,          \* [Courses -> set of course codes]
  Passed,           \* [Users -> courses the student has a passing record of]
  Sections,         \* teaching sections
  TermOf,           \* [Sections -> Terms]
  CourseOf,         \* [Sections -> Courses]
  Meetings,         \* [Sections -> set of weekly blocks]
  Capacity,         \* [Sections -> seats]
  WaitlistLimit     \* [Sections -> waitlist places]

WeeklyBlock == [weekday : 0..6, start : 0..1439, end : 1..1440]

ASSUME PeopleAssumption ==
  Registrars \subseteq Users

\* Term.Validate: the enrollment window is not empty and the add/drop window
\* does not close before it; the credit limit is positive.
ValidTerm(t) ==
  OpensAt[t] < ClosesAt[t] /\ ClosesAt[t] <= AddDropClosesAt[t] /\ CreditLimit[t] > 0

ASSUME TermAssumption ==
  /\ Archived \subseteq Terms
  /\ OpensAt \in [Terms -> Nat] /\ ClosesAt \in [Terms -> Nat]
  /\ AddDropClosesAt \in [Terms -> Nat] /\ CreditLimit \in [Terms -> Nat]
  /\ \A t \in Terms : ValidTerm(t)

\* Course.Validate.
ValidCredits == 1..12

\* A prerequisite or an academic record may name a course the catalogue does
\* not hold.
ASSUME CourseAssumption ==
  Credits \in [Courses -> ValidCredits]

\* Meeting.Validate.
ValidMeeting(m) == m \in WeeklyBlock /\ m.start < m.end

ASSUME SectionAssumption ==
  /\ TermOf \in [Sections -> Terms] /\ CourseOf \in [Sections -> Courses]
  /\ Capacity \in [Sections -> Nat] /\ WaitlistLimit \in [Sections -> Nat]
  /\ \A s \in Sections : \A m \in Meetings[s] : ValidMeeting(m)
-----------------------------------------------------------------------------
\* Registrars act on everyone, students only on themselves.
CanActOnStudent(actor, student) == actor \in Registrars \/ actor = student

EnrollmentOpen(t, at) ==
  t \notin Archived /\ OpensAt[t] <= at /\ at < ClosesAt[t]

DropAllowed(t, at) ==
  t \notin Archived /\ OpensAt[t] <= at /\ at < AddDropClosesAt[t]

\* Two weekly blocks collide; touching at a boundary minute is no collision.
Overlaps(m, other) ==
  m.weekday = other.weekday /\ m.start < other.end /\ other.start < m.end

FindScheduleConflict(candidate, held) ==
  \E c \in candidate, h \in held : Overlaps(c, h)

\* The weekly blocks a student is already committed to.
HeldMeetings(held) == UNION {Meetings[h] : h \in held}

MissingPrerequisites(course, student) == Prereqs[course] \ Passed[student]
-----------------------------------------------------------------------------
SectionStatuses == {"draft", "open", "closed", "cancelled"}

\* A section is a record [status, seatsTaken, waitlistLength].
SeatsAvailable(s, section) ==
  IF section.seatsTaken <= Capacity[s] THEN Capacity[s] - section.seatsTaken ELSE 0

AcceptsEnrollment(section) == section.status = "open"

RegistrationStatuses == {"draft", "submitted", "verified", "rejected"}

\* Mutant: verified paperwork may be resubmitted.
RegistrationTransitionsReopened ==
  {<<"draft", "submitted">>, <<"submitted", "verified">>, <<"submitted", "rejected">>,
   <<"rejected", "submitted">>, <<"verified", "submitted">>}

RegistrationTransitions ==
  {<<"draft", "submitted">>, <<"submitted", "verified">>,
   <<"submitted", "rejected">>, <<"rejected", "submitted">>}

EnrollmentStatuses ==
  {"pending", "enrolled", "waitlisted", "dropped", "withdrawn", "completed"}

EnrollmentTransitions ==
  {<<"pending", "enrolled">>, <<"pending", "waitlisted">>, <<"pending", "withdrawn">>,
   <<"enrolled", "dropped">>, <<"enrolled", "completed">>,
   <<"waitlisted", "enrolled">>, <<"waitlisted", "withdrawn">>}

HoldsSeat(status) == status \in {"enrolled", "completed"}

Active(status) == status \in {"pending", "enrolled", "waitlisted"}

SeatDelta(from, to) ==
  (IF HoldsSeat(to) THEN 1 ELSE 0) - (IF HoldsSeat(from) THEN 1 ELSE 0)

\* The waitlist rank Transition leaves behind.
RankAfter(target, rank) ==
  IF target \in {"enrolled", "dropped", "withdrawn"} THEN 0 ELSE rank
-----------------------------------------------------------------------------
\* The credits of the sections a student actively holds in a term.
CreditLoad(held) == MapThenSumSet(LAMBDA s : Credits[CourseOf[s]], held)

\* Mutant: the credits of the section being claimed are not counted.
WithinCreditLimitBefore(s, held) == CreditLoad(held) <= CreditLimit[TermOf[s]]

\* The credits after the claim stay within the limit of the term.
WithinCreditLimit(s, held) ==
  CreditLoad(held) + Credits[CourseOf[s]] <= CreditLimit[TermOf[s]]

\* CheckEnrollmentEligibility: the rules of a claim of section s by student at
\* an instant, in the order of the code.  section is s's current row, verified
\* the state of the student's paperwork and held the sections the student
\* actively holds in the term.
Eligible(at, student, s, section, verified, held) ==
  /\ EnrollmentOpen(TermOf[s], at)
  /\ verified
  /\ AcceptsEnrollment(section)
  /\ \A h \in held : h # s /\ CourseOf[h] # CourseOf[s]
  /\ MissingPrerequisites(CourseOf[s], student) = {}
  /\ WithinCreditLimit(s, held)
  /\ ~FindScheduleConflict(Meetings[s], HeldMeetings(held))

\* The last rule decides between a seat, a waitlist place and ErrWaitlistFull.
MustWaitlist(s, section) == SeatsAvailable(s, section) = 0

WaitlistRoom(s, section) ==
  WaitlistLimit[s] > 0 /\ section.waitlistLength < WaitlistLimit[s]

\* The predicates of ClaimSeat, ReleaseSeat and AdjustWaitlistLength.
SeatClaimable(s, section) ==
  AcceptsEnrollment(section) /\ section.seatsTaken < Capacity[s]

SeatReleasable(section) == section.seatsTaken > 0

WaitlistMayMove(s, section, delta) ==
  section.waitlistLength + delta \in 0..WaitlistLimit[s]
=============================================================================
