SPECIFICATION FairSpec
CONSTANTS
    ann = ann
    bob = bob
    cid = cid
    sword = sword
    cloak = cloak
    city = city
    neutral = neutral
    NoOne = NoOne
    NoItem = NoItem
    Player <- Three
    Account <- Accounts
    Item <- OneItem
    House <- BothHouses
    CutPercent <- Half
    HomeHouse <- Homes
    AuctionLimit = 0
    Prices = {1, 2, 3}
    Deposits = {1}
    Durations = {1}
    StartMoney = 3
    Capacity = 1
    MaxPrice = 3
    MaxMoney = 5
    UInt = 14
    Hundred = 2
    MaxAuctions = 1
    MaxTime = 3
CHECK_DEADLOCK FALSE
INVARIANTS
    BidsInRange
PROPERTIES
    NoGoldMade
    BiddersKeepTheirGold
    AuctionsEnd
