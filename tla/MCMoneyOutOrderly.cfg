CONSTANTS
  Requests = {r1}
  People = {ann, bob}
  Creator = ann
  Nobody = nobody
  Apis = {"keeps"}
  OperatorCount = 2
  MaxAttempts = 2
  MaxPolls = 1
  MaxQueries = 1
  MaxCrashes = 1
  Around = {"reinstate"}
SPECIFICATION FairSpec
INVARIANTS InFlightIsCurrent PaysOnce FailedNotPaid
PROPERTIES KeepsPromise EveryPaymentEnds
CHECK_DEADLOCK FALSE
