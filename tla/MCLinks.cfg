CONSTANTS
    Conns = {1, 2}
    Batches <- MCBatches
    BaseBatchSize = 2
    WireCap = 2
    BuffCap = 1
    JobsCap = 1
    Threads = {1, 2}
    Breaks = TRUE
SPECIFICATION MCSpec
INVARIANTS  StreamInv BufferInv
PROPERTIES FirstMessagesArrive 
CHECK_DEADLOCK FALSE
