SPECIFICATION Spec
CONSTANTS
    i1 = i1
    i2 = i2
    b1 = b1
    b2 = b2
    w1 = w1
    w2 = w2
    NoWindow = NoWindow
    NoEntry = NoEntry
    Instance = {i1}
    Batch = {b1}
    Window = {w1, w2}
    Assigned <- AllAssigned
    Schedule <- TwoWindows
    MaxConcurrent <- NoLimit
    MinBootTime <- NoLimit
    BackgroundImport = {i1}
    PowerOverride <- NoOverride
    Retries = 1
    CleanupInstances = TRUE
    Faults = {"owner", "source", "reply", "update", "worker", "block", "limit", "change"}
    Requests = {"cancel", "retry", "resolve", "stop"}
    MaxTime = 7
INVARIANTS
    NoLostWrites
    NeverBothRunning
    CompleteMeansCopied
PROPERTIES
    ImplementsCutover
