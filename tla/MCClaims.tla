------------------------------ MODULE MCClaims ------------------------------
(***************************************************************************)
(* Two batches, by a student and a registrar who also studies: one of a    *)
(* section and an id nobody knows, so that it is rejected in part or as a  *)
(* whole, and one of an id that is not positive and another section of the *)
(* same course, which excludes the first.  The first section has a seat    *)
(* and a waitlist place, the second a seat.                                *)
(***************************************************************************)
EXTENDS Claims, TLC

CONSTANTS ana, reg, term, math, mathA, mathB, zero, ghost, first, second

MCUsers == {ana, reg}
MCSections == {mathA, mathB}

OneTerm(v) == [t \in {term} |-> v]

MCOpensAt == OneTerm(0)
MCClosesAt == OneTerm(1)
MCAddDropClosesAt == OneTerm(1)
MCCreditLimit == OneTerm(4)
MCCredits == [c \in {math} |-> 4]
MCPrereqs == [c \in {math} |-> {}]
MCPassed == [u \in MCUsers |-> {}]
MCTermOf == [s \in MCSections |-> term]
MCCourseOf == [s \in MCSections |-> math]
MCMeetings == [s \in MCSections |-> {}]
MCCapacity == [s \in MCSections |-> 1]
MCWaitlistLimit == [s \in MCSections |-> IF s = mathB THEN 0 ELSE 1]
MCOrders == {<<mathA, ghost>>, <<zero, mathB>>}

Requests == Permutations({first, second})
=============================================================================
