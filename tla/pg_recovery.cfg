\* One job, two fair workers, a policy that throttles, a deadline, a key, a kill and a cancellation.
SPECIFICATION FairWorkerSpec
CONSTANTS
  w1 = w1  w2 = w2  c1 = c1  k1 = k1
  None = None
  JobIds <- OneJob
  MaxAttemptId = 2
  Workers = {w1, w2}
  Clients = {c1}
  Keys = {k1}
  NewJobs <- MixedJobs
  Policy <- TwoAMinute
  LeaseSeconds = 1
  Hour = 9
  Minute = 1
  Horizon = 1
  Outcomes = {"ok", "retryable"}
  RetryDelays = {0}
  BatchSize = 2
  MaxCrashes = 1
INVARIANTS HolderHasLatestAttempt
PROPERTIES NoRevival LeaseIsRecovered
CHECK_DEADLOCK FALSE
