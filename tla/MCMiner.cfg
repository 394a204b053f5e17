SPECIFICATION Spec
CONSTANTS
    NoJob <- MCNoJob
    NoSeed = "none"
    UserJobs <- ManyAlgorithms
    DonateJobs <- Donations
    Age <- MCAge
    CpuAlgos <- RandomXAlgos
    MaxEvents = 6
    StopCommand = TRUE
    ConfigChanges <- CpuToggles
    InitialConfig <- BothPauses
    MaxNonce = 2
CHECK_DEADLOCK FALSE
INVARIANTS
    TypeOK
    BatteryHeld
PROPERTIES
    NoUnwantedResume
    DonationKeepsNonce
    WantedIsMining
    ResumesAfterConditions
