SPECIFICATION Spec
CONSTANTS
    MaxRequests = 1
    MaxPages = 1
    Kinds <- OnlyBuildings
    Env <- QueryErrors
INVARIANT FinalListIsExact
CHECK_DEADLOCK FALSE
