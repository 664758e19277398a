SPECIFICATION FairSpec
CONSTANTS
    NoId = NoId
    Disk = {d1, d2}
    Block = {k1}
    Attempts = 2
    MaxSnapshots = 2
    MaxWrites = 1
    MaxTrackers = 2
    MaxNumber = 3
    Faults = {"tracking", "cancel", "power", "prepare", "start", "copy", "stop", "tasks", "restart", "reboot", "enable"}
INVARIANTS
    ChangeIdSound
    CycleCopiesSnapshot
    FinalImportComplete
PROPERTIES
    EnableKeepsPower
    EveryCommandAnswered
CHECK_DEADLOCK FALSE
