CONSTANTS
  Requests = {r1}
  People = {ann, bob}
  Creator = ann
  Nobody = nobody
  Apis = {"keeps"}
  OperatorCount = 2
  MaxAttempts = 2
  MaxPolls = 1
  MaxQueries = 0
  MaxCrashes = 0
  Around = {"dbError"}
SPECIFICATION Spec
INVARIANT FailedNotPaid
CHECK_DEADLOCK FALSE
