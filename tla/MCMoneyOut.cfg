CONSTANTS
  Requests = {r1}
  People = {ann, bob}
  Creator = ann
  Nobody = nobody
  Apis = {"assigns"}
  OperatorCount = 2
  MaxAttempts = 2
  MaxPolls = 1
  MaxQueries = 1
  MaxCrashes = 1
  Around = {"overtake", "redeliver", "slowAnswer", "disable", "dbError"}
SPECIFICATION Spec
INVARIANTS SecondPerson RejectedNeverSent
PROPERTIES SettledStays
CHECK_DEADLOCK FALSE
