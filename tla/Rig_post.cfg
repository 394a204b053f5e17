SPECIFICATION Spec
CONSTANTS
    MaxPosts = 2
    MaxCycles = 0
    MaxStops = 0
    Empty = Empty
    Mixed = Mixed
CHECK_DEADLOCK FALSE
PROPERTIES
    EveryPostInForce
