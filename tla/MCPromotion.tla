---------------------------- MODULE MCPromotion ----------------------------
(***************************************************************************)
(* One section with one seat and one waitlist place, a student and a       *)
(* registrar who also studies, two process slots and two jobs.             *)
(***************************************************************************)
EXTENDS Promotion

CONSTANTS ana, reg, term, math, mathA, w1, w2

OneTerm(v) == [t \in {term} |-> v]
OneSection(v) == [s \in {mathA} |-> v]

MCUsers == {ana, reg}
MCKinds == {mathA, Sweep}
MCOpensAt == OneTerm(0)
MCClosesAt == OneTerm(1)
MCAddDropClosesAt == OneTerm(1)
MCCreditLimit == OneTerm(4)
MCCredits == [c \in {math} |-> 4]
MCPrereqs == [c \in {math} |-> {}]
MCPassed == [u \in MCUsers |-> {}]
MCTermOf == OneSection(term)
MCCourseOf == OneSection(math)
MCMeetings == OneSection({})
MCCapacity == OneSection(1)
MCWaitlistLimit == OneSection(1)
=============================================================================
