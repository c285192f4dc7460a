CONSTANTS
    Profiles = {"ambient", "work"}
    First = "ambient"
    NArtifacts = 1
    Edits = {"edit", "other"}
    MaxEdits = 2
    MaxStarts = 2
    MaxWrites = 1
    MaxFaults = 2
SPECIFICATION Spec
INVARIANTS Kept LiveIsCurrent NeverCorrupt HomeIsTarget
CHECK_DEADLOCK FALSE
