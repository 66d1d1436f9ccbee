SPECIFICATION Spec
CONSTANTS
    a1 = a1
    a2 = a2
    Agents <- MCAgents
    MaxKills = 2
SYMMETRY MCSymmetry
INVARIANTS
    RecordedIsApplied
    ServesMigrated
    RefusedOnlyForTwins
CHECK_DEADLOCK FALSE
