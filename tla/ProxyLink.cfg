SPECIFICATION LinkSpec
CONSTANTS
    Parts = {"whole", "split", "long", "lossy", "multibox", "flood"}
    Lossy = {"first"}
    Plan <- Small
    Start = 0
    Ring = 4
    Window = 2
    Patience = 2
    Faulty = {1, 2, 3}
    Losses = 2
    NetCap = 4
    Garbled = {}
INVARIANTS
    StreamFaithful
    LoginsSound
PROPERTIES
    NoStallOfWhole
CHECK_DEADLOCK FALSE
