SPECIFICATION FairSpec
CONSTANTS
    Requests = {r1}
    Keys <- MCKeys
    Ranges <- WholeRange
    Targets <- OnlyGreen
    FirstChunk <- MCFirstChunk
    PyLeaders <- Pink
    PyWorkers <- Pink
    MaxRetries = 1
    MaxPerTeam = 1
    QUANTUM = 5
    Cancelling = {}
    MaxCrashes = 1
CHECK_DEADLOCK FALSE
INVARIANTS
    TypeOK
    Truthful
PROPERTIES
    Answered
