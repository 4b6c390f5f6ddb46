SPECIFICATION Spec
CONSTANTS
    Circles = {near, far}
    Wedges = {north, south}
    None = None
    MaxTasks = 2
    Env <- OnlyOverlap
INVARIANT SavedSectorIsCovered
CHECK_DEADLOCK FALSE
