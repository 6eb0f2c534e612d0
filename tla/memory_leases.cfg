\* Two jobs, two workers, three attempts: leases, attempts, retries, reaping, priorities, deadlines.
SPECIFICATION Spec
CONSTANTS
  q1 = q1  k1 = k1  w1 = w1  w2 = w2
  None = None
  JobIds <- TwoJobs
  MaxAttemptId = 3
  Queues = {q1}
  Workers = {w1, w2}
  Keys = {}
  NewJobs <- LeaseInputs
  RetryDelays = {1}
  BatchSizes = {0, 1, 2}
  ReplayTimes = {}
  Cutoffs = {}
  DlqReasons = {"MAX_ATTEMPTS_EXCEEDED"}
  LeaseSeconds = 1
  Horizon = 1
INVARIANTS TypeOK StatusEvidence CompletedOnce
PROPERTIES LeaseInOrder TerminalIsFinal MemoryKeepsContract
SYMMETRY WorkerSymmetry
CHECK_DEADLOCK FALSE
