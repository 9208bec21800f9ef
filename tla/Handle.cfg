SPECIFICATION FairSpec
CONSTANTS
    Requests = {r1}
    Asks <- AnyAsk
    PyTeams <- Pink
    MaxRetries <- OnceA
    MaxInflight = 1
    PoolSize = 1
CHECK_DEADLOCK FALSE
INVARIANTS
    TypeOK
    InflightCounts
    ServedWithinLimit
    PoolShieldsGuard
    AnsweredNotRepeated
    AnswerMadeOfTeams
PROPERTIES
    Answered
    SlotsReturned
