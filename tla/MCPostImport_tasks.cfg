\* Every layout, any step may fail, two kills.
SPECIFICATION Spec
CONSTANTS
    Guest <- Layouts
    MaxKills = 2
INVARIANTS ScriptsHitTheirDisks LeftoversHarmless DryRunTells
CHECK_DEADLOCK FALSE
