CONSTANTS
    c1 = c1
    c2 = c2
    g1 = g1
    g2 = g2
    Nil = Nil
    NumServers = 2
    NumLayers = 3
    Clients <- TwoClients
    Route <- Routes3
    Exit <- OneExit
    Members <- OneGroup
    SendOrder <- Orders
    GroupSends <- GroupSends1
    BoomerangLimit = 1
    BroadcastRounds = 1
    BinSize = 2
    LinkCapacity = 1
SPECIFICATION FairSpec
INVARIANTS
    NoPanic
    ReceiptsReturn
    LockStep
PROPERTIES
    AllRoundsPass
