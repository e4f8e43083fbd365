CONSTANTS
  Lease = 1
  MaxAttempts = 2
  Workers = {w1, w2}
  Presses = {p1}
  RowCount = 1
  Window = 1
  MaxTime = 1
  MaxJobs = 2
  MaxSends = 1
  MaxByHand = 0
  MaxFaults = 2
  Around = {"noting", "ended", "queueing", "slow", "lateThrow"}
  Tests = {t1, t2}
  MaxGenerations = 2
  Accepted = {1}
  MaxProbes = 2
  RotateWhileDisabling = FALSE
SPECIFICATION OfficeSpec
INVARIANTS VerifiedIsCurrent SendingHasJob
PROPERTIES BatchEnds OffStaysOff PendingEnds
CHECK_DEADLOCK FALSE
