SPECIFICATION Spec
CONSTANTS
    Avatars = {6, 11}
    Owner <- MCOwner
    Gamers = {6}
    Deletable = {}
    Bot = 9
    Units = {"ore1", "part"}
    NoTrade = {}
    Vendor <- MCVendor
    BotMult = 1
    BotTarget = 1
    VaultSlots = 1
    HoldSlots = 0
    MaxMailItems = 6
    Prices = {0, 2}
    Stock <- MCStock
    Purse <- MCPurse
    XpSpent = TRUE
    MaxListings = 1
    MaxMail = 3
INVARIANTS
    Ledger
PROPERTIES
    OnlineUntouched
    BidderSettled
    SellerSettled
    BidsRise
CHECK_DEADLOCK FALSE
