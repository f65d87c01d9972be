CONSTANTS
    NumServers = 3
    Rounds = 3
    First <- GroupFirst
    Last <- GroupLast
    Direction = 1
    ResetOpens = TRUE
SPECIFICATION FairSpec
INVARIANTS NoOverrun
PROPERTIES AllRoundsComplete
