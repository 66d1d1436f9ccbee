SPECIFICATION Spec
CONSTANTS
    Baselines <- MCGateBaselines
    Measurements <- MCGateMeasurements
    MaxVariants = 1
    MinimumQualityDelta = 50
    SafetyTolerance = 0
    LatencyPercent = 120
    CostPercent = 110
INVARIANTS
    MinimumGainQualifies
CHECK_DEADLOCK FALSE
