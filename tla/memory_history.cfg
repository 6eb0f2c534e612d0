\* One key, recurring work, replay, archiving and deletion of history.
SPECIFICATION Spec
CONSTANTS
  q1 = q1  k1 = k1  w1 = w1  w2 = w2
  None = None
  JobIds <- ThreeJobs
  MaxAttemptId = 2
  Queues = {q1}
  Workers = {w1}
  Keys = {k1}
  NewJobs <- HistoryInputs
  RetryDelays = {}
  BatchSizes = {1}
  ReplayTimes = {None}
  Cutoffs = {1}
  DlqReasons = {}
  LeaseSeconds = 1
  Horizon = 1
INVARIANTS UniqueLiveKey AttemptsNumbered IndexMatchesStatus
CHECK_DEADLOCK FALSE
