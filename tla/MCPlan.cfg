SPECIFICATION Spec
CONSTANTS
  ana = ana
  reg = reg
  fall = fall
  past = past
  intro = intro
  math = math
  phys = phys
  art = art
  mathA = mathA
  mathB = mathB
  physA = physA
  artA = artA
  artPast = artPast
  NoOne = NoOne
  Users <- MCUsers
  Registrars = {reg}
  Terms <- MCTerms
  Archived = {past}
  OpensAt <- MCOpensAt
  ClosesAt <- MCClosesAt
  AddDropClosesAt <- MCAddDropClosesAt
  CreditLimit <- MCCreditLimit
  Courses <- MCCourses
  Credits <- MCCredits
  Prereqs <- MCPrereqs
  Passed <- MCPassed
  Sections <- MCSections
  TermOf <- MCTermOf
  CourseOf <- MCCourseOf
  Meetings <- MCMeetings
  Capacity <- MCCapacity
  WaitlistLimit <- MCWaitlistLimit
  MaxEnrollments = 4
  MaxTime = 1
  LockWait = 0
  HandlerMayFail = FALSE
  ToolingStatuses = {"open"}
INVARIANTS
  PlanWithinRules
