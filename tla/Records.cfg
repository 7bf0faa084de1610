SPECIFICATION RecordsSpec
CONSTANTS
    a = a
    ada = ada
    Parts = {"avatar", "outbox"}
    Avatars = {a}
    MaxCredits = 1
    Horizon = 3
    Queued = 2
    Changes = 2
    WebMax = 1
    Crashes = 1
    Faults = 1
    Players = {ada}
    Switchable = {"login"}
    MaxEvents = 3
    MaxFaults = 1
INVARIANTS
    MemoryIsDurable
    RowsTrue
    ChannelFaithful
PROPERTIES
    OfflineSeen
    Resolved
CHECK_DEADLOCK FALSE
