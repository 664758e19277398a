\* Both instances fail and are tried again; two volumes may be left behind.
SPECIFICATION Spec
CONSTANTS
    Instance = {i1, i2}
    Disk = {1, 2}
    NoVM = NoVM
    Events = {"create", "setup", "cleanup", "agent", "configure", "deadline",
              "cancel", "restart", "user"}
    MaxEvents = 3
INVARIANTS CreatedVMComplete NothingLeftBehind
PROPERTIES ForeignVMKept CreatedInTheEnd
CHECK_DEADLOCK FALSE
