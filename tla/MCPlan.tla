------------------------------- MODULE MCPlan -------------------------------
(***************************************************************************)
(* Two claimants against a small catalogue in which each eligibility rule  *)
(* bites: two sections of one course, a prerequisite only ana has, blocks  *)
(* that overlap and blocks that only touch, a credit limit that two        *)
(* courses reach exactly, and a section of an archived term.  All sections *)
(* have one seat and one waitlist place.                                   *)
(***************************************************************************)
EXTENDS Enrollment

CONSTANTS ana, reg, fall, past, intro, math, phys, art,
          mathA, mathB, physA, artA, artPast

MCUsers == {ana, reg}
MCTerms == {fall, past}
MCSections == {mathA, mathB, physA, artA, artPast}
MCCourses == {intro, math, phys, art}

MCOpensAt == [t \in MCTerms |-> 0]
MCClosesAt == [t \in MCTerms |-> 1]
MCAddDropClosesAt == [t \in MCTerms |-> 2]
MCCreditLimit == [t \in MCTerms |-> 7]
MCCredits == [c \in MCCourses |-> IF c = art THEN 3 ELSE 4]
MCPrereqs == [c \in MCCourses |-> IF c = phys THEN {intro} ELSE {}]
MCPassed == [u \in MCUsers |-> IF u = ana THEN {intro} ELSE {}]

MCTermOf == [s \in MCSections |-> IF s = artPast THEN past ELSE fall]
MCCourseOf ==
  [s \in MCSections |-> CASE s \in {mathA, mathB} -> math
                          [] s = physA -> phys
                          [] s \in {artA, artPast} -> art]
MCMeetings ==
  [s \in MCSections |->
     CASE s = mathA              -> {[weekday |-> 1, start |-> 480, end |-> 580]}
       [] s = mathB              -> {[weekday |-> 2, start |-> 480, end |-> 580]}
       [] s = physA              -> {[weekday |-> 1, start |-> 560, end |-> 660]}
       [] s \in {artA, artPast}  -> {[weekday |-> 1, start |-> 580, end |-> 680]}]
MCCapacity == [s \in MCSections |-> 1]
MCWaitlistLimit == [s \in MCSections |-> 1]
=============================================================================
