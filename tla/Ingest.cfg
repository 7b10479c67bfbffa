CHECK_DEADLOCK FALSE
CONSTANTS
    j1 = j1
    j2 = j2
    o1 = o1
    o2 = o2
    Jobs = {j1, j2}
    Operators = {o1, o2}
    MaxAttempts = 2
    MaxCrashes = 1
    MaxStops = 0
    MaxRetries = 2
    Faults = {"save", "panic"}
SPECIFICATION EitherSpec
INVARIANTS
    ClaimIsExclusive
    DocumentsAddUp
    ParkedAfterBudget
PROPERTIES
    CalmJobsSettle
