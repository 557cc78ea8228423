SPECIFICATION Spec
CONSTANTS
    ann = ann
    bob = bob
    cid = cid
    sword = sword
    cloak = cloak
    city = city
    neutral = neutral
    NoOne = NoOne
    NoItem = NoItem
    Player <- Three
    Account <- Accounts
    Item <- TwoItems
    House <- BothHouses
    CutPercent <- Half
    HomeHouse <- Homes
    AuctionLimit = 1
    Prices = {1, 2}
    Deposits = {1}
    Durations = {1}
    StartMoney = 2
    Capacity = 1
    MaxPrice = 3
    MaxMoney = 3
    UInt = 10
    Hundred = 2
    MaxAuctions = 2
    MaxTime = 3
CHECK_DEADLOCK FALSE
SYMMETRY CharacterSymmetry
INVARIANTS
    TypeOK
    ItemsOnce
PROPERTIES
    Settled
