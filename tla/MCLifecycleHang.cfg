SPECIFICATION FairSpec
CONSTANTS
  r1 = r1
  r2 = r2
  Requests = {r1, r2}
  WorkerEnabled = TRUE
PROPERTIES
  ShutdownCompletes
CHECK_DEADLOCK FALSE
