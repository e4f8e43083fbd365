CONSTANTS
  Lease = 1
  MaxAttempts = 3
  Workers = {w1}
  Presses = {p1, p2}
  RowCount = 1
  Window = 1
  MaxTime = 2
  MaxJobs = 2
  MaxSends = 2
  MaxByHand = 0
  MaxFaults = 0
  Around = {}
SPECIFICATION BatchSpec
INVARIANTS RowSentOnce
CHECK_DEADLOCK FALSE
