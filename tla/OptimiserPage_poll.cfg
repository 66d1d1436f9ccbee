SPECIFICATION FairSpec
CONSTANTS
    a1 = a1
    a2 = a2
    j1 = j1
    NoAgent = NoAgent
    NoJob = NoJob
    Agents <- MCAgents
    Jobs <- MCJobs
    MaxLoads = 2
PROPERTIES
    PollsUntilEnd
