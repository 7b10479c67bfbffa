CONSTANTS
    a1 = a1
    t1 = t1
    h1 = h1
    j1 = j1
    j2 = j2
    None = None
    Agents = {a1}
    Kind <- AllCron
    Threads = {t1}
    Handlers = {h1}
    Reloaders = {}
    Jobs = {j1, j2}
    FailLimit = 2
    Surfaces = {TRUE}
    EditedFiles = {}
    Failures = {}
SPECIFICATION Spec
SYMMETRY Identities
INVARIANTS
    EnabledIsScheduled
