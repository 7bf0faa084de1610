SPECIFICATION FairSpec
CONSTANTS
    p1 = p1
    MaxSectors = 1
    Sectors <- AllThree
    ContentDB <- Content
    Players = {p1}
    FreshPlayers = {p1}
    StartSector = 10151
    Moves = {}
    BindOutcomes = {TRUE}
    IdleTeardown = 0
    AckTimeout = 0
PROPERTIES
    EnsureReturns
    IdleParks
