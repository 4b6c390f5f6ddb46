SPECIFICATION Spec
CONSTANTS
    Buildings = {b1, b2}
    MaxCoverages = 3
INVARIANT ServiceableIsDrawn
CHECK_DEADLOCK FALSE
