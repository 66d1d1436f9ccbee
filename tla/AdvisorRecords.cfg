SPECIFICATION Spec
CONSTANTS
    q1 = q1
    q2 = q2
    q3 = q3
    r1 = r1
    r2 = r2
    p1 = p1
    Default = Default
    Nobody = Nobody
    Retention = Retention
    Requests <- MCRequests3
    Runs <- MCRuns2
    Preferences <- MCPreferences
    MaxRestarts = 1
SYMMETRY MCSymmetry
INVARIANTS
    DeletedStaysDeleted
    AnswersAreTrue
    OneDeletionPerRun
    AnsweredIsAudited
PROPERTIES
    CreatedAtKept
    ImplementsService
CHECK_DEADLOCK FALSE
