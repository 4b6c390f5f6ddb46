SPECIFICATION Spec
CONSTANTS
    Circles = {near, far}
    Wedges = {north, south}
    None = None
    MaxTasks = 2
    Env <- Failing
INVARIANT CachedMeansComputed
CHECK_DEADLOCK FALSE
