SPECIFICATION Spec
CONSTANTS
    a1 = a1
    a2 = a2
    h1 = h1
    Player <- Two
    TeamOf <- Sides
    Parties <- Solo
    Roamers <- OnlyA1
    MinPlayers = 1
    MaxPlayers = 2
    PremadeMinSize = 2
    InvitationType = 1
    InviteTime = 1
    CounterSpace = 8
    MaxTime = 2
    MaxBgs = 2
    MaxJoins = 3
INVARIANTS InvitedCounted
