SPECIFICATION Spec
CONSTANTS
    MaxPosts = 2
    MaxCycles = 2
    MaxStops = 1
    Empty = Empty
    Mixed = Mixed
CHECK_DEADLOCK FALSE
INVARIANTS
    DoneMeansRenamed
PROPERTIES
    FirstbootCompletes
    RunsTheFile
    PostInForce
