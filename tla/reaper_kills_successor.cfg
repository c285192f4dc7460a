SPECIFICATION Spec
CONSTANTS
    MaxGen = 2
    MaxRequests = 3
    MaxFaults = 2
    MaxTimeouts = 1
PROPERTIES KillsItsOwn
CHECK_DEADLOCK FALSE
