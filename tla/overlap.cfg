SPECIFICATION FirstSpec
CONSTANTS
    Circles = {near, far}
    Wedges = {north}
    None = None
    MaxTasks = 2
    Env <- Overlapping
INVARIANT TypeOK
INVARIANT RevocationFollowsRegistration
INVARIANT CachedHashIsAccountable
CHECK_DEADLOCK FALSE
