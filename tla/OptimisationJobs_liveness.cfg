SPECIFICATION FairSpec
CONSTANTS
    j1 = j1
    j2 = j2
    j3 = j3
    k1 = k1
    k2 = k2
    w1 = w1
    w2 = w2
    s1 = s1
    NoKey = NoKey
    NoJob = NoJob
    Jobs <- MCJobs2
    Keys <- MCKeys2
    Workers <- MCWorkers1
    Submitters <- MCSubmitters1
    Variants = 1
    MaxRestarts = 1
    MaxStranded = 1
PROPERTIES
    EveryJobEnds
    FuturesAreForgotten
    ShutdownReturns
CHECK_DEADLOCK FALSE
