CONSTANTS
    a1 = a1
    o1 = o1
    t1 = t1
    t2 = t2
    h1 = h1
    h2 = h2
    r1 = r1
    None = None
    Agents = {a1, o1}
    Kind <- Kinds
    Threads = {t1, t2}
    Handlers = {h1, h2}
    Reloaders = {r1}
    Jobs = {1, 2, 3}
    FailLimit = 2
    Surfaces = {TRUE}
    EditedFiles = {}
    Failures = {"write", "connections", "unlink", "validation"}
SPECIFICATION EachSpec
INVARIANTS
    DisabledNeverRuns
    QuarantineInProgress
    TableIsTrue
    TableFollows
PROPERTIES
    ImplementsRunLock
    LockReleased
