CONSTANTS
  Prompts = {p1, p2}
  Receipts = {m1, m2}
  NoPrompt = noPrompt
  NoReceipt = noReceipt
  Direct = direct
  MaxCrashes = 0
  Around = {"direct"}
SPECIFICATION Spec
INVARIANT CountedOnce
CHECK_DEADLOCK FALSE
