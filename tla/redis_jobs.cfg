\* Two jobs, two workers, one of which may die once, every command of Redis a step.
SPECIFICATION RedisSpec
CONSTANTS
  q1 = q1  k1 = k1  w1 = w1  w2 = w2  app = app  j1 = j1  j2 = j2
  None = None
  JobIds = {j1, j2}
  Queues = {q1}
  Workers = {w1, w2}
  App = app
  Keys = {k1}
  NewJobs <- Inputs
  BatchSizes = {1}
  RetryDelays = {0}
  ReplayTimes = {1}
  LeaseSeconds = 1
  Horizon = 1
  MaxAttempts = 1
  MaxExtends = 1
  MaxAborts = 1
INVARIANTS RedisTypeOK  
 
SYMMETRY WorkerSymmetry
CHECK_DEADLOCK FALSE
