SPECIFICATION Spec
CONSTANTS
    MaxRequests = 2
    MaxPages = 1
    Kinds <- OnlyBuildings
    Env <- EmptyAreas
INVARIANT CountIsOfTheArea
CHECK_DEADLOCK FALSE
