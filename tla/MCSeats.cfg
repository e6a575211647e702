SPECIFICATION FairSpec
CONSTANTS
  ana = ana
  ben = ben
  reg = reg
  term = term
  math = math
  mathA = mathA
  NoOne = NoOne
  Users <- MCUsers
  Registrars = {reg}
  Terms = {term}
  Archived = {}
  OpensAt <- MCOpensAt
  ClosesAt <- MCClosesAt
  AddDropClosesAt <- MCAddDropClosesAt
  CreditLimit <- MCCreditLimit
  Courses = {math}
  Credits <- MCCredits
  Prereqs <- MCPrereqs
  Passed <- MCPassed
  Sections = {mathA}
  TermOf <- MCTermOf
  CourseOf <- MCCourseOf
  Meetings <- MCMeetings
  Capacity <- MCCapacity
  WaitlistLimit <- MCWaitlistLimit
  MaxEnrollments = 4
  MaxTime = 2
  LockWait = 1
  HandlerMayFail = TRUE
  ToolingStatuses = {"open", "closed"}
INVARIANTS
  TypeOK
  CountersMatchRoster
  RanksFollowArrival
  FreeSeatsCovered
  TrailExplainsRoster
  DecisionAttributed
PROPERTIES
  PromotionTakesEarliest
  WaitlistServed
  VerificationIsFinal
