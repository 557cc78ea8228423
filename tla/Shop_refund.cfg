SPECIFICATION Spec
CONSTANTS
    buyer = buyer
    hero = hero
    alt = alt
    Account <- OneAccount
    Character <- TwoCharacters
    Owner <- BothOwned
    Hardcore <- OneHero
    Coins = 2
    MaxPurchases = 2
INVARIANTS
    RefundedOnce
CHECK_DEADLOCK FALSE
