CONSTANTS
    Servers = {s1}
    ClientProcs = {c1}
    Self = self
    RunType = 1
    NumLayers = 2
    NumLightning = 1
    BoomerangLimit = 1
    NumMessages = 3
    Load = FALSE
    SkipPathGen = FALSE
    Retries = 3
    MaxFaults = 3
SPECIFICATION Spec
INVARIANTS
    ReceiptsConfirmed
CHECK_DEADLOCK FALSE
