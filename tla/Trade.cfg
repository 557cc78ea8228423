SPECIFICATION Spec
CONSTANTS
    ann = ann
    bob = bob
    cid = cid
    sword = sword
    cloak = cloak
    NoItem = NoItem
    Player <- Three
    Item <- TwoItems
    Entry <- OneEntry
    MaxCount <- TwoAtMost
    Stored <- SomeStored
    Spells = {1}
    TradedCount = 2
    Capacity = 2
    MaxMoney = 1
    MaxTime = 2
SYMMETRY ItemSymmetry
INVARIANTS
    TypeOK
    Mutual
    AcceptedIsShown
    AcceptedAfterLook
    ItemsOnce
PROPERTIES
    GoldKept
    DeliversTheOffers
