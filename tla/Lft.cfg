SPECIFICATION FairSpec
CONSTANTS
    Player <- FourPlayers
    Bots <- OneBot
    Roamers <- OneRoamer
    Invites <- OneInvite
    Instance <- OneDungeon
    Requests <- OneRequest
    Allowed <- Classes
    AiRoles <- BotSkills
    Side <- Sides
    Hardcore <- HardcoreOnes
    Level <- Levels
    LevelBelow <- Windows
    LevelAbove = 6
    DamageSlots = 1
    RolecheckTimeout = 1
    OfferTimeout = 2
    FillPeriod = 2
    FillDelay = 0
    BotFill = TRUE
    Teleport = TRUE
    MaxOffers = 2
INVARIANTS
    TypeOK
    OffersAgree
PROPERTIES
    KeepsPlace
    OffersEnd
    FillBotsReleased
