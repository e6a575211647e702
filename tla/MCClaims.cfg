SPECIFICATION ClaimsSpec
CONSTANTS
  ana = ana
  reg = reg
  term = term
  math = math
  mathA = mathA
  mathB = mathB
  zero = zero
  ghost = ghost
  first = first
  second = second
  NoOne = NoOne
  Users <- MCUsers
  Registrars = {reg}
  Terms = {term}
  Archived = {}
  OpensAt <- MCOpensAt
  ClosesAt <- MCClosesAt
  AddDropClosesAt <- MCAddDropClosesAt
  CreditLimit <- MCCreditLimit
  Courses = {math}
  Credits <- MCCredits
  Prereqs <- MCPrereqs
  Passed <- MCPassed
  Sections <- MCSections
  TermOf <- MCTermOf
  CourseOf <- MCCourseOf
  Meetings <- MCMeetings
  Capacity <- MCCapacity
  WaitlistLimit <- MCWaitlistLimit
  MaxEnrollments = 3
  MaxTime = 1
  LockWait = 0
  HandlerMayFail = FALSE
  ToolingStatuses = {"open"}
  Clients = {first, second}
  Orders <- MCOrders
  Unknown = {ghost}
  Invalid = {zero}
SYMMETRY Requests
INVARIANTS
  ClientsKnowTheirRows
  RejectionsOnRecord
