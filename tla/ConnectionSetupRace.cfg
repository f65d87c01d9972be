CONSTANTS
    N = 2
    Mock = FALSE
    HeaderUnits = 2
    Prompt = FALSE
SPECIFICATION Spec
INVARIANTS
    RightServerConnected
CHECK_DEADLOCK FALSE
