SPECIFICATION Spec
CONSTANTS
    p1 = p1
    MaxSectors = 2
    Sectors <- LunaFamily
    ContentDB <- Content
    Players = {p1}
    FreshPlayers = {}
    StartSector = 10151
    Moves = {"gate", "transfer", "launch", "deco"}
    BindOutcomes = {TRUE}
    IdleTeardown = 0
    AckTimeout = 0
INVARIANTS
    TypeOK
    OnlineServes
    PurgeQuiesced
    LoadedOnce
    TransportPreserved
    NoOrphanManager
    OneEventThread
    Tally
