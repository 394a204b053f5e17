SPECIFICATION Spec
CONSTANTS
    Preserve = TRUE
    BackupOld = TRUE
    MaxRuns = 1
    MaxFailures = 1
    MaxPosts = 0
CHECK_DEADLOCK FALSE
INVARIANTS
    IdentityPreserved
