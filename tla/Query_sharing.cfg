SPECIFICATION Spec
CONSTANTS
    Requests = {r1, r2}
    Keys <- MCKeys
    Ranges <- TwoRanges
    Targets <- AtMostOne
    FirstChunk <- MCFirstChunk
    PyLeaders <- Pink
    PyWorkers <- Pink
    MaxRetries = 0
    MaxPerTeam = 1
    QUANTUM = 5
    Cancelling = {}
    MaxCrashes = 0
SYMMETRY Symmetry
CHECK_DEADLOCK FALSE
INVARIANTS
    Truthful
PROPERTIES
    AdmissionImplemented
