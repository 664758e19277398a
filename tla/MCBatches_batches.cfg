\* Two batches that share their instances and the name of their window.
SPECIFICATION Spec
CONSTANTS
    i1 = i1
    i2 = i2
    w1 = w1
    Batch = {b1, b2}
    Instance = {i1, i2}
    WindowName = {w1}
    Schedules <- MCSchedules
    ConstraintLists <- OneOrAny
    Expressions <- MCExpressions
    NoBatch = NoBatch
    NoEntry = NoEntry
    NoWindow = NoWindow
    MaxTime = 3
SYMMETRY Symmetry
INVARIANTS HeldWindowExists CapacityKept EntryOfStartedBatch
PROPERTIES ExclusiveControl ConstraintsNotAdded
CHECK_DEADLOCK FALSE
