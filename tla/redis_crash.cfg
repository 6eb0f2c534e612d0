\* One job, two workers, one of which dies once: is the job taken again?
SPECIFICATION FairRedisSpec
CONSTANTS
  q1 = q1  k1 = k1  w1 = w1  w2 = w2  app = app  j1 = j1  j2 = j2
  None = None
  JobIds = {j1}
  Queues = {q1}
  Workers = {w1, w2}
  App = app
  Keys = {k1}
  NewJobs <- Inputs
  BatchSizes = {1}
  RetryDelays = {0}
  ReplayTimes = {}
  LeaseSeconds = 1
  Horizon = 1
  MaxAttempts = 1
  MaxExtends = 0
  MaxAborts = 1
PROPERTIES QueuedIsTaken
CHECK_DEADLOCK FALSE
