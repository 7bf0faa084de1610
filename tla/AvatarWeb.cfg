SPECIFICATION RecordsSpec
CONSTANTS
    a = a
    ada = ada
    Parts = {"avatar"}
    Avatars = {a}
    MaxCredits = 2
    Horizon = 3
    Queued = 3
    Changes = 1
    WebMax = 1
    Crashes = 0
    Faults = 0
    Players = {ada}
    Switchable = {"login"}
    MaxEvents = 3
    MaxFaults = 1
INVARIANTS
    NoLostUpdate
CHECK_DEADLOCK FALSE
