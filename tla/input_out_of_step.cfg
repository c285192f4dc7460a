CONSTANTS
    Surfaces = {s1}
    ControlPlane = cp
    MaxInputs = 3
    MaxQueue = 2
    MaxLinks = 2
    MaxFaults = 2
SPECIFICATION Spec
INVARIANTS InStep
CHECK_DEADLOCK FALSE
