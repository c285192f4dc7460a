SPECIFICATION LiveSpec
CONSTANTS
  NumMsgs = 3
  Prompts <- SecondIsPrompt
  LegacyCounts = {0}
  MaxQueue = 2
  MaxCrashes = 2
  MaxTimeouts = 0
  MaxLost = 1
  MaxOthers = 1
  Operator = {}
INVARIANTS
  TypeOK NoLoss ConfirmedIsFinal QueueOnDisk
PROPERTIES
  ImplementsOutbox EveryPromptSettles
CHECK_DEADLOCK FALSE
