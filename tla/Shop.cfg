SPECIFICATION FairSpec
CONSTANTS
    buyer = buyer
    hero = hero
    alt = alt
    Account <- OneAccount
    Character <- TwoCharacters
    Owner <- BothOwned
    Hardcore <- OneHero
    Coins = 2
    MaxPurchases = 3
INVARIANTS
    TypeOK
    NoFreeItem
PROPERTIES
    PurchasesSettled
\* The server stops when the assertion in RefundPurchase fails.
CHECK_DEADLOCK FALSE
