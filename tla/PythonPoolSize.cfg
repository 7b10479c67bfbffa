CHECK_DEADLOCK FALSE
CONSTANTS
    r1 = r1
    Runs = {r1}
    Size = 2
    MaxAttempts = 5
SPECIFICATION Spec
INVARIANTS
    PoolKeepsItsSize
