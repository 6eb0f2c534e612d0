\* Two workers, a client, two jobs, two attempts: reports, reaps, recurrence and archiving at once.
SPECIFICATION BackendSpec
CONSTANTS
  w1 = w1  w2 = w2  c1 = c1  k1 = k1
  None = None
  JobIds <- TwoJobs
  MaxAttemptId = 2
  Workers = {w1, w2}
  Clients = {c1}
  Keys = {k1}
  NewJobs <- KeyedJob
  Policy <- NoPolicy
  LeaseSeconds = 1
  Hour = 1
  Minute = 1
  Horizon = 2
  Intervals = {1}
  RetryDelays = {0}
  DlqReasons = {"MAX_ATTEMPTS_EXCEEDED"}
  Cutoffs = {1}
  BatchSizes = {1, 2}
INVARIANTS BackendTypeOK   WaitsAreVisible
PROPERTIES KeptOrArchived
SYMMETRY WorkerSymmetry
CHECK_DEADLOCK FALSE
