\* One job, two flows, crashes, every outcome of a handler: recovery and progress.
SPECIFICATION FairFlowSpec
CONSTANTS
  q1 = q1  w1 = w1  w2 = w2  f1 = f1  f2 = f2
  None = None
  JobIds <- OneJob
  MaxAttemptId = 3
  Queues = {q1}
  Workers = {w1, w2}
  Keys = {}
  NewJobs <- PlainJob
  RetryDelays = {1}
  BatchSizes = {1}
  ReplayTimes = {}
  Cutoffs = {}
  DlqReasons = {"MAX_ATTEMPTS_EXCEEDED", "PERMANENT_ERROR", "CANCELLED", "PANIC"}
  LeaseSeconds = 1
  Horizon = 2
  Flows = {f1, f2}
  worker_id <- OwnIdentity
  queue <- OneQueue
  Outcomes = {"ok", "retryable", "permanent", "cancelled", "panic", "timeout"}
  BatchSize = 1
  MaxCrashes = 1
PROPERTIES AbandonedIsRecovered DueIsTaken
CHECK_DEADLOCK FALSE
