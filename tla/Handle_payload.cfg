SPECIFICATION Spec
CONSTANTS
    Requests = {r1}
    Asks <- AskPink
    PyTeams <- Pink
    MaxRetries <- OnceA
    MaxInflight = 1
    PoolSize = 1
CHECK_DEADLOCK FALSE
INVARIANTS
    LeaderWorks
