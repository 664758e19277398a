SPECIFICATION Spec
CONSTANTS
    Null = Null
    Releases = {17, 20}
    StoredVersions = {0, 1, 9, 17}
    Stored <- MCStored
    MaxPatches = 1
    MaxRequests = 2
    MaxCount = 2
    SourceInputs <- MCSources
    TargetInputs <- MCTargets
    BatchInputs <- MCBatches
    InstanceInputs <- MCInstances
    NetworkInputs <- MCNetworks
    WindowInputs <- MCWindows
    EntryInputs <- MCEntries
    WarningInputs <- MCWarnings
    ArtifactInputs <- MCArtifacts
    Connectivity = {"OK", "Unknown"}
PROPERTIES
    StartIsSafe
    ImplementsCatalog
