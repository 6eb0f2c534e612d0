\* Two workers, batches of two, lost leases, deadlines, one job in flight.
SPECIFICATION WorkerSpec
CONSTANTS
  w1 = w1  w2 = w2  c1 = c1  k1 = k1
  None = None
  JobIds <- TwoJobs
  MaxAttemptId = 3
  Workers = {w1, w2}
  Clients = {}
  Keys = {k1}
  NewJobs <- MixedJobs
  Policy <- OneInFlight
  LeaseSeconds = 1
  Hour = 9
  Minute = 1
  Horizon = 1
  Outcomes = {"ok", "retryable"}
  RetryDelays = {0}
  BatchSize = 2
  MaxCrashes = 0
SYMMETRY WorkerSymmetry
INVARIANTS WorkerTypeOK AckedHasAttempt AttemptNosIncrease
CHECK_DEADLOCK FALSE
