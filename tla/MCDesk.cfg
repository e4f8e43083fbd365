CONSTANTS
  Lease = 1
  MaxAttempts = 3
  Workers = {w1, w2}
  Presses = {p1}
  RowCount = 2
  Window = 1
  MaxTime = 1
  MaxJobs = 2
  MaxSends = 2
  MaxByHand = 1
  MaxFaults = 1
  Around = {}
  Senders = {s1, s2, s3}
  LeaseTime = 2
  WaitTime = 1
  LastMoment = 4
  MaxStops = 1
  InvoiceTasks = {w1, w2}
  Receipts = {"r1", "r2"}
  Cents <- ReceiptCents
  InvoiceCents = 3
  MaxInvoices = 2
  MonthLengths <- ShortMonths
  FirstWeekday = 3
  Starts = {2, 6}
  Ends = {17}
  LastSetUp = 4
  LastDay = 22
  Businesses = {b1, b2}
  Codes <- TwoCodes
  CodeLength = 1
  Blocks <- TwoBlocks
  FirstWidth = 1
  MaxDigits = 4
  MaxAccounts = 3
  Words <- OneWord
  Leads <- OneLead
  Clerks = {w1, w2}
  Beside = {}
  Reversals = {s1, s2, s3}
  LastTry = 2
  LastRestart = 1
  Mishaps = {}
SPECIFICATION DeskSpec
INVARIANTS RowSentOnce OneInFlight BooksAgree ReceiptOnce PaysItsDates AddressReaches HolderRemembered TakenBackOnce
PROPERTIES NameHeldBack
SYMMETRY DeskSymmetry
CHECK_DEADLOCK FALSE
