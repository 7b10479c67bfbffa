CHECK_DEADLOCK FALSE
CONSTANTS
    c1 = c1
    d1 = d1
    u1 = u1
    u2 = u2
    u3 = u3
    k = k
    l1 = l1
    l2 = l2
    Calls = {c1}
    Commands = {c1, d1}
    Deciders = {u1, u2, u3}
    MayDecide <- Owners
    Kinds = {k}
    KindOf <- OneKind
    Lives = {l1, l2}
    MaxQueued = 1
SPECIFICATION Spec
SYMMETRY Identities
CONSTRAINT OneInHand
INVARIANTS
    AnswerObeyed
    SenderNeverBlocks
    DoneOnlyIfCleared
    ToldTheTruth
PROPERTIES
    ImplementsErrand
