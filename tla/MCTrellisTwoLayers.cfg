CONSTANTS
    c1 = c1
    c2 = c2
    g1 = g1
    g2 = g2
    Nil = Nil
    NumServers = 2
    NumLayers = 2
    Clients <- TwoClients
    Route <- Routes2
    Exit <- TwoExits
    Members <- TwoGroups
    SendOrder <- Orders
    GroupSends <- GroupSends2
    BoomerangLimit = 1
    BroadcastRounds = 2
    BinSize = 2
    LinkCapacity = 1
SPECIFICATION FairSpec
INVARIANTS
    TypeOK
    NoPanic
    PathsEstablished
    DeliveredToAll
    RoundQuiescent
PROPERTIES
    MixesWholeLayer
    AllRoundsPass
