SPECIFICATION Spec
CONSTANTS
    i1 = i1
    i2 = i2
    b1 = b1
    b2 = b2
    w1 = w1
    w2 = w2
    NoWindow = NoWindow
    NoEntry = NoEntry
    Instance = {i1}
    Batch = {b1}
    Window = {w1, w2}
    Assigned <- AllAssigned
    Schedule <- LongWindow
    MaxConcurrent <- NoLimit
    MinBootTime <- NoLimit
    BackgroundImport = {}
    PowerOverride <- NoOverride
    Retries = 1
    CleanupInstances = TRUE
    Faults = {"source"}
    Requests = {"reset", "delete"}
    MaxTime = 1
INVARIANTS
    WindowHeldByCommitted
