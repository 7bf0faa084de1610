SPECIFICATION LinkSpec
CONSTANTS
    Parts = {"lossy"}
    Lossy = {"first", "second"}
    Plan <- Small
    Start = 0
    Ring = 4
    Window = 2
    Patience = 2
    Faulty = {1, 2, 3}
    Losses = 2
    NetCap = 4
    Garbled = {}
INVARIANTS
    FreshToken
CHECK_DEADLOCK FALSE
