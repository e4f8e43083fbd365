CONSTANTS
  Requests = {r1}
  People = {ann, bob}
  Creator = ann
  Nobody = nobody
  Apis = {"keeps"}
  OperatorCount = 2
  MaxAttempts = 2
  MaxPolls = 1
  MaxQueries = 0
  MaxCrashes = 0
  Around = {"disable"}
SPECIFICATION Spec
INVARIANT PendingHasSender
CHECK_DEADLOCK FALSE
