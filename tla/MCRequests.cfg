CONSTANTS
    Clients = {c1}
    Rpcs = {r1, r2}
    NumLayers = 1
    Nil = Nil
SPECIFICATION MCSpec
INVARIANTS  RunnerInv KeysInv
PROPERTIES Answered CallsEnd
CHECK_DEADLOCK FALSE
