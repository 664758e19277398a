SPECIFICATION FairSpec
CONSTANTS
    i1 = i1
    i2 = i2
    b1 = b1
    b2 = b2
    w1 = w1
    w2 = w2
    NoWindow = NoWindow
    NoEntry = NoEntry
    Instance = {i1, i2}
    Batch = {b1}
    Window = {w1, w2}
    Assigned <- AllAssigned
    Schedule <- ScarceWindows
    MaxConcurrent <- OneAtATime
    MinBootTime <- NoLimit
    BackgroundImport = {i1}
    PowerOverride <- NoOverride
    Retries = 1
    CleanupInstances = TRUE
    Faults = {"worker", "reply", "update"}
    Requests = {}
    MaxTime = 4
PROPERTIES
    EveryInstanceMigrates
    EndedWindowGivenUp
    OnlyCommittedPoweredOff
