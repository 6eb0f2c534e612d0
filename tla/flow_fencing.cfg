\* Two flows with their own worker ids, two jobs, late heartbeats, timeouts, lost leases.
SPECIFICATION FlowSpec
CONSTANTS
  q1 = q1  w1 = w1  w2 = w2  f1 = f1  f2 = f2
  None = None
  JobIds <- TwoJobs
  MaxAttemptId = 3
  Queues = {q1}
  Workers = {w1, w2}
  Keys = {}
  NewJobs <- PlainJob
  RetryDelays = {0}
  BatchSizes = {2}
  ReplayTimes = {}
  Cutoffs = {}
  DlqReasons = {"MAX_ATTEMPTS_EXCEEDED", "PERMANENT_ERROR", "CANCELLED", "PANIC"}
  LeaseSeconds = 1
  Horizon = 1
  Flows = {f1, f2}
  worker_id <- OwnIdentity
  queue <- OneQueue
  Outcomes = {"ok", "retryable", "timeout"}
  BatchSize = 2
  MaxCrashes = 0
INVARIANTS OpenAttemptFenced FailuresWithinBudget
CHECK_DEADLOCK FALSE
