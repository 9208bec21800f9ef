\* Every range of five-bit ints through both teams.
SPECIFICATION FairSpec
CONSTANTS
    Neighbors <- MCNeighbors
    ByName <- MCByName
    TeamOf <- MCTeamOf
    TeamLeader <- MCLeader
    PyNodes = {"E", "F"}
    Partition <- MCPartition
    CHUNK_SIZE = 2
    MaxInt = 15
    Prime1 = 7
    Prime2 = 5
    Modulus = 10
    Queries <- AllRanges
CHECK_DEADLOCK FALSE
INVARIANTS TypeOK ChunksTile SumsAgree AnswerIsFirstChunks
PROPERTY Answered
