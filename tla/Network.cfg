SPECIFICATION Spec
CONSTANTS
    MaxSessions = 4
    MaxJobs = 3
    MaxShares = 2
CHECK_DEADLOCK FALSE
INVARIANTS
    TypeOK
    EachItsTurn
    NoDeadWork
    SharesReachThem
    TimerFits
PROPERTIES
    UserMines
