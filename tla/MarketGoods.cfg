SPECIFICATION FairSpec
CONSTANTS
    Avatars = {6, 7, 11}
    Owner <- MCOwner
    Gamers = {7}
    Deletable = {7}
    Bot = 9
    Units = {"ore1", "ore2", "bound"}
    NoTrade = {"bound"}
    Vendor <- MCVendor
    BotMult = 1
    BotTarget = 1
    VaultSlots = 1
    HoldSlots = 1
    MaxMailItems = 6
    Prices = {0}
    Stock <- MCStock
    Purse <- MCPurse
    XpSpent = FALSE
    MaxListings = 1
    MaxMail = 2
INVARIANTS
    TypeOK
    NoDupe
    NothingLost
    NoTradeStays
PROPERTIES
    EscrowEnds
CHECK_DEADLOCK FALSE
