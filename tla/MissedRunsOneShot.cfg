CHECK_DEADLOCK FALSE
CONSTANTS
    o1 = o1
    t1 = t1
    Crons = {}
    OneShots = {o1}
    Threads = {t1}
    DueAt = 1
    Period = 2
    Window = 4
    Horizon = 4
    MaxBoots = 2
    Faults = {"crash"}
SPECIFICATION MissedSpec
SYMMETRY Identities
PROPERTIES
    OneShotRunsOnce
