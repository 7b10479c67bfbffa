CHECK_DEADLOCK FALSE
CONSTANTS
    j1 = j1
    Jobs = {j1}
    Operators = {}
    MaxAttempts = 2
    MaxCrashes = 0
    MaxStops = 0
    MaxRetries = 0
    Faults = {"panic"}
SPECIFICATION Spec
INVARIANTS
    RunningIsOwned
