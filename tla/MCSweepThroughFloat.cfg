CONSTANTS
  Businesses = {b1, b2}
  Nobody = nobody
  Amounts <- MCTwoEqual
  Windows = {1}
  a = a
  b = b
  Passes = {a}
  Floats = {5}
  Unknown = unknown
  Fee = 1
  MinSend = 1
  Charge = 1
  Banded = {1, 2}
  MaxCrashes = 1
  Around = {}
SPECIFICATION FairSpec
INVARIANT WithinFloat
PROPERTY SweepsEnd
