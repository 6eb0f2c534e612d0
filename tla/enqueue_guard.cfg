\* Three requests, two connections, one enqueue a minute.
SPECIFICATION GuardSpec
CONSTANTS
  r1 = r1  r2 = r2  r3 = r3
  Requests = {r1, r2, r3}
  Connections = 2
  MaxPerMinute = 1
  LastMinute = 1
INVARIANTS GuardTypeOK AdmittedWithinLimit DeniedIsRecorded
PROPERTIES EveryRequestAnswered
CHECK_DEADLOCK FALSE
