CONSTANTS
  Businesses = {b1}
  Nobody = nobody
  Amounts <- MCAmounts
  Windows = {1, 2}
  a = a
  b = b
  Passes = {a, b}
  Floats = {2}
  Unknown = unknown
  Fee = 0
  MinSend = 2
  Charge = 0
  Banded = {1, 2}
  MaxCrashes = 1
  Around = {}
SPECIFICATION Spec
INVARIANTS SweptOnce NeverOverpaid UnsentMovedNothing
SYMMETRY MCPasses
