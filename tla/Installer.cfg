SPECIFICATION Spec
CONSTANTS
    Preserve = TRUE
    BackupOld = TRUE
    MaxRuns = 2
    MaxFailures = 2
    MaxPosts = 2
CHECK_DEADLOCK FALSE
INVARIANTS
    ChoiceRecoverable
    Preserved
    DoneIsComplete
PROPERTIES
    RepeatedEnds
