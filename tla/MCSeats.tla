------------------------------- MODULE MCSeats -------------------------------
(***************************************************************************)
(* One contended section: capacity 1, a waitlist of 2, two students and a  *)
(* registrar who may also claim, and room for a row to be re-created after *)
(* a drop.                                                                 *)
(***************************************************************************)
EXTENDS Enrollment, TLC

CONSTANTS ana, ben, reg, term, math, mathA

OneTerm(v) == [t \in {term} |-> v]
OneSection(v) == [s \in {mathA} |-> v]

MCUsers == {ana, ben, reg}
MCOpensAt == OneTerm(0)
MCClosesAt == OneTerm(1)
MCAddDropClosesAt == OneTerm(1)
MCCreditLimit == OneTerm(4)
MCCredits == [c \in {math} |-> 4]
MCPrereqs == [c \in {math} |-> {}]
MCPassed == [u \in MCUsers |-> {}]
MCTermOf == OneSection(term)
MCCourseOf == OneSection(math)
MCMeetings == OneSection({[weekday |-> 2, start |-> 600, end |-> 700]})
MCCapacity == OneSection(1)
MCWaitlistLimit == OneSection(2)

Students == Permutations({ana, ben})
=============================================================================
