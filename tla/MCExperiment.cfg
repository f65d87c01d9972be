CONSTANTS
    Masters = {"m1", "m2"}
    Others = {"o1", "o2"}
    P = 2
    None = "none"
    MaxLost = 1
SPECIFICATION MCSpec
INVARIANTS ExperimentInv SharesInv SelectionInv
PROPERTIES RunEnds ExchangeCompletes
CHECK_DEADLOCK FALSE
