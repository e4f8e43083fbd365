CONSTANTS
  Calls = {c1, c2}
  Patience = 1
  DuplicateWindow = 2
  KeyLife = 2
  LastMinute = 4
  MaxPayments = 2
  MaxDisturbances = 1
  Dispatches = {d1, d2}
  MaxTries = 2
  MaxDeliveries = 2
  MaxDisruptions = 1
SPECIFICATION AppsSpec
INVARIANTS KeyPaysOnce PaymentsApart EndIsTold
PROPERTIES KeyIsFreed NoticeEnds
CHECK_DEADLOCK FALSE
