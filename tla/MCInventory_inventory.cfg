SPECIFICATION FairSpec
CONSTANTS
    s1 = s1
    s2 = s2
    n1 = n1
    n2 = n2
    n3 = n3
    Nowhere = Nowhere
    NoRecord = NoRecord
    Source = {s1, s2}
    VM = {1, 2}
    Network = {n1, n2, n3}
    NetworksOf <- OwnNetworks
    Homes <- SameSource
    AllowNoIPv4 = FALSE
    MaxChanges = 1
    MaxRequests = 2
INVARIANTS
    EntriesBacked
PROPERTIES
    MigrationUndisturbed
    SilentSourceKept
    SyncCatchesUp
CHECK_DEADLOCK FALSE
