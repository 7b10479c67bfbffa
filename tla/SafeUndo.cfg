CONSTANTS
    j1 = j1
    j2 = j2
    r1 = r1
    r2 = r2
    f1 = f1
    None = None
    Original = Original
    Jobs = {j1, j2}
    Resources = {r1, r2}
    Texts = {r2}
    Fields = {f1}
    Changes <- Mixed
    MaxAttempts = 3
    MaxTokens = 3
    MaxEdits = 1
SPECIFICATION FairSpec
INVARIANTS
    ReceiptTruth
PROPERTIES
    NothingOverwritten
    ImplementsReceipt
    DispatchOncePerToken
    UndoInOrder
    GateReleased
