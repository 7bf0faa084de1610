SPECIFICATION FairSpec
CONSTANTS
    p1 = p1
    MaxSectors = 2
    Sectors <- LunaAndMars
    ContentDB <- Content
    Players = {p1}
    FreshPlayers = {}
    StartSector = 1015
    Moves = {"transfer"}
    BindOutcomes = {TRUE}
    IdleTeardown = 0
    AckTimeout = 0
PROPERTIES
    EnsureReturns
