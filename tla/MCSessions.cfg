SPECIFICATION Spec
CONSTANTS
  r1 = r1
  r2 = r2
  Requests = {r1, r2}
  Never = Never
  Base = 2
  Places = 1
  TTL = 2
  SweepLimit = 1
  LockWait = 1
  MaxSessions = 2
  MaxTime = 5
SYMMETRY Slots
INVARIANTS
  TypeOK
  SeenWithinLife
  RevocationsAudited
  OnlyLogoutEndsEarly
PROPERTIES
  RevocationIsImmediate
