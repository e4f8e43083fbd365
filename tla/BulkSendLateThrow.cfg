CONSTANTS
  Lease = 1
  MaxAttempts = 3
  Workers = {w1}
  Presses = {p1}
  RowCount = 1
  Window = 1
  MaxTime = 1
  MaxJobs = 1
  MaxSends = 1
  MaxByHand = 0
  MaxFaults = 0
  Around = {"lateThrow"}
SPECIFICATION BatchSpec
INVARIANTS FailedRowNotSent
CHECK_DEADLOCK FALSE
