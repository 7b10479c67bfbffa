CHECK_DEADLOCK FALSE
CONSTANTS
    r1 = r1
    r2 = r2
    Runs = {r1, r2}
    Size = 1
    MaxAttempts = 2
    MaxRotations = 2
    a1 = a1
    o1 = o1
    t1 = t1
    t2 = t2
    Crons = {a1}
    OneShots = {o1}
    Threads = {t1, t2}
    DueAt = 2
    Period = 1
    Window = 2
    Horizon = 2
    MaxBoots = 2
    Faults = {"crash", "save", "load"}
SPECIFICATION EitherSpec
INVARIANTS
    NoStrays
    NeverReapedWhileRead
    OneSidecar
    RecordIsEarned
PROPERTIES
    RunsFinish
    KeepsTrying
    NothingStartsAfterStop
    MissedIsMadeUp
    RecordNeverGoesBack
