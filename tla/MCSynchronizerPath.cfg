CONSTANTS
    NumServers = 3
    Rounds = 3
    First <- PathFirst
    Last <- PathLast
    Direction <- Backwards
    ResetOpens = TRUE
SPECIFICATION FairSpec
INVARIANTS BarrierOrder NoOverrun BarrierInv
PROPERTIES ImplementsBarrier AllRoundsComplete
