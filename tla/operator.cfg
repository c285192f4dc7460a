SPECIFICATION Spec
CONSTANTS
  NumMsgs = 2
  Prompts <- NoPrompts
  LegacyCounts = {0, 2}
  MaxQueue = 2
  MaxCrashes = 2
  MaxTimeouts = 0
  MaxLost = 0
  MaxOthers = 1
  Operator = {"pause", "drop", "force"}
INVARIANTS
  LockDiscipline ClaimedWhileSending AtMostOncePerProcess
CHECK_DEADLOCK FALSE
