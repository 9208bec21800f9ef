SPECIFICATION FairSpec
CONSTANTS
    Threads = {h1, h2, h3, h4}
    Teams = {GREEN, PINK}
    NoTeam = NoTeam
    MaxPerTeam = 3
    QUANTUM = 2
INVARIANTS
    TypeOK
    InflightMatchesGuards
    CapacityRespected
    IdleTeamAdmitted
PROPERTIES
    ReleaseReadmits
    AlwaysReadmitted
