SPECIFICATION FairSpec
CONSTANTS
    i1 = i1
    i2 = i2
    i3 = i3
    b1 = b1
    b2 = b2
    s1 = s1
    t1 = t1
    NoWindow = NoWindow
    NoEntry = NoEntry
    Instance = {i1, i2, i3}
    Batch = {b1, b2}
    Window = {}
    Source = {s1}
    Target = {t1}
    BatchOf <- TwoBatches
    SourceOf <- OneSource
    TargetOf <- OneTarget
    BackgroundImport = {i1, i2}
    SourceLimit <- NoSourceLimit
    TargetLimit <- TwoAtOnce
    SyncLimit <- OneSync
    CreateLimit <- OneByOne
    Events = {"rollback", "create", "topup", "fail", "worker", "deadline", "cancel", "retry", "reset", "stop", "restart"}
    MaxEvents = 2
INVARIANTS
    LimitsRespected
PROPERTIES
    HeldBackInTurn
CHECK_DEADLOCK FALSE
