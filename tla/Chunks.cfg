SPECIFICATION FairSpec
CONSTANTS
    Reqs = {q1, q2}
    Readers = {t1, t2}
    Last = 1
    InOrder = {q1}
CHECK_DEADLOCK FALSE
INVARIANTS
    TypeOK
    NoLostWakeup
    ChunksInPlace
    DownloadFaithful
    CancelReachesWaiters
PROPERTIES
    CallsReturn
