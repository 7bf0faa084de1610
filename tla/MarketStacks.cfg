SPECIFICATION Spec
CONSTANTS
    Avatars = {6, 7, 11}
    Owner <- MCOwner
    Gamers = {6}
    Deletable = {}
    Bot = 9
    Units = {"ore1", "ore2"}
    NoTrade = {}
    Vendor <- MCVendor
    BotMult = 1
    BotTarget = 1
    VaultSlots = 1
    HoldSlots = 0
    MaxMailItems = 6
    Prices = {0}
    Stock <- MCStock
    Purse <- MCPurse
    XpSpent = TRUE
    MaxListings = 1
    MaxMail = 3
INVARIANTS
    NothingLost
CHECK_DEADLOCK FALSE
