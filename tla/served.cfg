SPECIFICATION FairSpec
CONSTANTS
    Circles = {near, far}
    Wedges = {north, south}
    None = None
    MaxTasks = 3
    Env <- SpacedCalm
PROPERTY EverySaveIsServed
CHECK_DEADLOCK FALSE
