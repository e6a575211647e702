SPECIFICATION FairSpec
CONSTANTS
  w1 = w1
  w2 = w2
  mathA = mathA
  Sweep = Sweep
  NoWorker = NoWorker
  Workers = {w1, w2}
  Kinds = {mathA, Sweep}
  MaxAttempts = 2
  Lease = 2
  BackoffBase = 1
  BackoffMax = 2
  SweepInterval = 1
  MaxJobs = 2
  MaxEvents = 3
  MaxOverdue = 1
  MaxFaults = 2
  FaultSorts = {"crashes", "shutdowns", "dbErrors", "overruns"}
  HandlersFail = TRUE
INVARIANTS
  TypeOK
  VerdictIsEarned
  FailureAuditedOnce
  HandlerHoldsJob
  OrphansComeFromFaults
  ExtraAttemptsComeFromFaults
PROPERTIES
  FinishedOrOrphaned
  KeepsPromise
