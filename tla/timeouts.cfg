SPECIFICATION Spec
CONSTANTS
  NumMsgs = 3
  Prompts <- AllPrompts
  LegacyCounts = {0}
  MaxQueue = 2
  MaxCrashes = 1
  MaxTimeouts = 2
  MaxLost = 1
  MaxOthers = 1
  Operator = {}
INVARIANTS
  NotResentWhileLate
CHECK_DEADLOCK FALSE
