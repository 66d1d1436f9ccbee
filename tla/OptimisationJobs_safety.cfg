SPECIFICATION Spec
CONSTANTS
    j1 = j1
    j2 = j2
    j3 = j3
    k1 = k1
    k2 = k2
    w1 = w1
    w2 = w2
    s1 = s1
    NoKey = NoKey
    NoJob = NoJob
    Jobs <- MCJobs3
    Keys <- MCKeys2
    Workers <- MCWorkers2
    Submitters <- MCSubmitters1
    Variants = 1
    MaxRestarts = 1
    MaxStranded = 1
SYMMETRY MCSymmetry
INVARIANTS
    UnfinishedIffHeld
    OneWorkerPerKey
    CompletedHasOwnResult
    AtMostOneResult
    ShutdownDrains
PROPERTIES
    ProgressNeverGoesBack
    ImplementsLifecycle
CHECK_DEADLOCK FALSE
