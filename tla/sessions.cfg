SPECIFICATION LiveSpec
CONSTANTS
    MaxGen = 2
    MaxRequests = 3
    MaxFaults = 2
    MaxTimeouts = 1
INVARIANTS TypeOK LinkIsOwned TeardownKeptAlone
PROPERTIES RetiredIsGone ExactIsFenced Served AbsenceEnds
CHECK_DEADLOCK FALSE
