CONSTANTS
  Prompts = {p1, p2}
  Receipts = {m1, m2}
  NoPrompt = noPrompt
  NoReceipt = noReceipt
  Direct = direct
  MaxCrashes = 1
  Around = {"direct", "early", "late", "together"}
SPECIFICATION Spec
INVARIANTS MutualLinks
PROPERTIES ReceiptLinkStays
CHECK_DEADLOCK FALSE
