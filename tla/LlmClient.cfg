SPECIFICATION Spec
CONSTANTS
    r1 = r1
    w1 = w1
    c1 = c1
    c2 = c2
    NoClient = NoClient
    RequestThreads <- MCRequestThreads
    Workers <- MCWorkers
    ClientIds <- MCClientIds
    Settings <- MCSettings
    MaxRetries = 1
    MaxCalls = 2
SYMMETRY MCSymmetry
INVARIANTS
    CallsUseOpenClients
    CachedClientIsClosed
    AnswersMatchTheProvider
CHECK_DEADLOCK FALSE
