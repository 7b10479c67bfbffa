CHECK_DEADLOCK FALSE
CONSTANTS
    c1 = c1
    c2 = c2
    c3 = c3
    root = root
    child = child
    Calls = {c1, c2, c3}
    Wanted = {3}
    Usages = {1, 4}
    Limit = 5
    Buckets = {root, child}
    BucketsOf <- Nested
    BucketLimit = 4
    ExecLimit = 6
    MaxCalls = 3
    Slots = 2
    Threshold = 1
    MaxLapses = 1
    Earlier = earlier
    Orphaned = 2
    Tasks = {1, 2}
    DependsOn <- Waits
    TaskBudget <- Worth
    GoalBudget = 2
    Presses = {r1, r2}
    Cancellers = {k1}
    Freezers = {f1}
    MaxRestarts = 1
SPECIFICATION EitherSpec
INVARIANTS
    NothingLeaks
    RunBudgetKept
    OvershootBounded
    WorkOnce
    SuccessIsProved
    ReservedForRuns
PROPERTIES
    CallsSettle
    StoppedStaysStopped
    GoalsSettle
