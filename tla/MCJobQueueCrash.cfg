SPECIFICATION FairSpec
CONSTANTS
  w1 = w1
  w2 = w2
  mathA = mathA
  Sweep = Sweep
  NoWorker = NoWorker
  Workers = {w1}
  Kinds = {mathA, Sweep}
  MaxAttempts = 2
  Lease = 2
  BackoffBase = 1
  BackoffMax = 2
  SweepInterval = 1
  MaxJobs = 1
  MaxEvents = 2
  MaxOverdue = 1
  HandlersFail = FALSE
  MaxFaults = 1
  FaultSorts = {"crashes"}
PROPERTIES
  EveryJobFinishes
