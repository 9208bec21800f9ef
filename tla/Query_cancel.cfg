SPECIFICATION FairSpec
CONSTANTS
    Requests = {r1}
    Keys <- MCKeys
    Ranges <- WholeRange
    Targets <- OnlyPink
    FirstChunk <- MCFirstChunk
    PyLeaders <- Pink
    PyWorkers <- Pink
    MaxRetries = 1
    MaxPerTeam = 1
    QUANTUM = 5
    Cancelling = {r1}
    MaxCrashes = 0
CHECK_DEADLOCK FALSE
INVARIANTS
    NoSpuriousCancellation
PROPERTIES
    CancelAnswered
