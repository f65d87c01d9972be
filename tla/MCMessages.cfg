CONSTANTS
    Servers = {1, 2}
    Groups = {1, 2, 3}
    Members <- MCMembers
    LinkCapacity = 1
    ReplyCapacity = 1
    MaxCrashes = 1
    None = 0
SPECIFICATION MCSpec
INVARIANTS OnionInv NoncesOnce   ExchangeInv
PROPERTIES ExchangeEnds
CHECK_DEADLOCK FALSE
