SPECIFICATION Spec
CONSTANTS
  Unlimited = Unlimited
  Counts <- MCCounts
  MaxItems = 2
  MaxInterrupts = 1
CHECK_DEADLOCK FALSE
INVARIANTS OnlyTwoWindows
