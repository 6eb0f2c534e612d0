\* Two jobs, two workers, a clock that lags by one: the contract, recurrence, cascades.
SPECIFICATION SqliteSpec
CONSTANTS
  q1 = q1  k1 = k1  w1 = w1  w2 = w2
  None = None
  JobIds <- TwoJobs
  MaxAttemptId = 2
  Queues = {q1}
  Workers = {w1, w2}
  Keys = {k1}
  NewJobs <- Inputs
  RetryDelays = {1}
  BatchSizes <- Limits
  Orderings = {"fifo", "fastest"}
  Cutoffs = {1}
  DlqReasons = {"MAX_ATTEMPTS_EXCEEDED"}
  LeaseSeconds = 1
  MaxLag = 1
  Horizon = 1
INVARIANTS SqliteTypeOK AttemptRowsComplete RecurrenceUnbroken
PROPERTIES SqliteKeepsContract
SYMMETRY WorkerSymmetry
CHECK_DEADLOCK FALSE
