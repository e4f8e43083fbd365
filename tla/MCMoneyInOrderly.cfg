CONSTANTS
  Prompts = {p1, p2}
  Receipts = {m1, m2}
  NoPrompt = noPrompt
  NoReceipt = noReceipt
  Direct = direct
  MaxCrashes = 0
  Around = {"together"}
SPECIFICATION FairSpec
INVARIANT CountedOnce
PROPERTY PairsMeet
CHECK_DEADLOCK FALSE
