SPECIFICATION Spec
CONSTANTS
    Requests = {r1, r2}
    Keys <- MCKeys
    Ranges <- WholeRange
    Targets <- OneTeam
    FirstChunk <- MCFirstChunk
    PyLeaders <- Pink
    PyWorkers <- Pink
    MaxRetries = 1
    MaxPerTeam = 1
    QUANTUM = 5
    Cancelling = {}
    MaxCrashes = 0
CHECK_DEADLOCK FALSE
INVARIANTS
    AnswerMatchesTarget
