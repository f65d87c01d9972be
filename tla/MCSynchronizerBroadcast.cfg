CONSTANTS
    NumServers = 3
    Rounds = 1
    First <- BroadcastFirst
    Last <- BroadcastLast
    Direction = 1
    ResetOpens = FALSE
SPECIFICATION FairSpec
PROPERTIES AllRoundsComplete
