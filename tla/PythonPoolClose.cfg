CHECK_DEADLOCK FALSE
CONSTANTS
    r1 = r1
    r2 = r2
    Runs = {r1, r2}
    Size = 2
    MaxAttempts = 2
SPECIFICATION Spec
SYMMETRY Identities
INVARIANTS
    CloseStopsWorkers
