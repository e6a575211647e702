SPECIFICATION PromotionFairSpec
CONSTANTS
  ana = ana
  reg = reg
  term = term
  math = math
  mathA = mathA
  w1 = w1
  w2 = w2
  NoOne = NoOne
  Users <- MCUsers
  Registrars = {reg}
  Terms = {term}
  Archived = {}
  OpensAt <- MCOpensAt
  ClosesAt <- MCClosesAt
  AddDropClosesAt <- MCAddDropClosesAt
  CreditLimit <- MCCreditLimit
  Courses = {math}
  Credits <- MCCredits
  Prereqs <- MCPrereqs
  Passed <- MCPassed
  Sections = {mathA}
  TermOf <- MCTermOf
  CourseOf <- MCCourseOf
  Meetings <- MCMeetings
  Capacity <- MCCapacity
  WaitlistLimit <- MCWaitlistLimit
  MaxEnrollments = 3
  ToolingStatuses = {"open"}
  Sweep = Sweep
  Kinds <- MCKinds
  NoWorker = NoWorker
  Workers = {w1, w2}
  MaxAttempts = 2
  Lease = 1
  BackoffBase = 1
  BackoffMax = 1
  SweepInterval = 0
  MaxJobs = 2
  MaxEvents = 3
  MaxOverdue = 0
  MaxFaults = 1
  FaultSorts = {"crashes", "shutdowns", "dbErrors", "overruns"}
  HandlersFail = TRUE
PROPERTIES
  ImplementsEnrollment
  FreedSeatReachesWaitlist
