CONSTANTS
  Senders = {s1, s2, s3}
  LeaseTime = 2
  WaitTime = 1
  LastMoment = 1
  MaxStops = 0
SPECIFICATION GateSpec
INVARIANTS StoppedBeforeThird
CHECK_DEADLOCK FALSE
