SPECIFICATION Spec
CONSTANTS
    Baselines <- MCBaselines
    Measurements <- MCMeasurements
    MaxVariants = 3
    MinimumQualityDelta = 50
    SafetyTolerance = 0
    LatencyPercent = 120
    CostPercent = 110
INVARIANTS
    SelectedIsUndominated
    EveryQualifiedIsCovered
    FirstIsBest
CHECK_DEADLOCK FALSE
