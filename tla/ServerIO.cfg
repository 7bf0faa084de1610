SPECIFICATION IOSpec
CONSTANTS
    a = a
    b = b
    t1 = t1
    t2 = t2
    Parts = {"queue", "reset", "send", "park", "comms"}
    MaxConns = 4
    MaxRestarts = 2
    MaxLosses = 2
    Queues = {a, b}
    Threads = {t1, t2}
    Slots = 4
    Choke = 1
    Entries = 5
    Size = 15
    Room = 7
    Resettable = {b}
    Word = 16
    Total = 4
    Length <- MCLength
    Sender = t1
    Callers = {t1, t2}
    Cache = 3
CONSTRAINT Followed
INVARIANTS
    StreamIntact
    ListenerSound
PROPERTIES
    IsFifo
    AllSent
    Parks
CHECK_DEADLOCK FALSE
