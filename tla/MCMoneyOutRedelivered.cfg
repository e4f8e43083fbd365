CONSTANTS
  Requests = {r1}
  People = {ann, bob}
  Creator = ann
  Nobody = nobody
  Apis = {"keeps"}
  OperatorCount = 2
  MaxAttempts = 3
  MaxPolls = 1
  MaxQueries = 0
  MaxCrashes = 0
  Around = {"redeliver"}
SPECIFICATION Spec
INVARIANT PaysOnce
CHECK_DEADLOCK FALSE
