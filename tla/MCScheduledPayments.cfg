CONSTANTS
  Schedules = {s1}
  Payees = {a}
  Dates = {1, 3}
  Clock = {0, 1, 2}
  Timetables = {{1}, {1, 3}}
  Lists = {{a}}
  Savers = {v}
  w1 = w1
  w2 = w2
  Workers = {w1, w2}
  MissedAfter = 0
  MaxCrashes = 1
  Around = {}
SPECIFICATION Spec
INVARIANTS PaidOnce UnsentPaidNobody FailedLineNotPaid NobodyForgets
SYMMETRY MCWorkers
