SPECIFICATION Spec
CONSTANTS
    w1 = w1
    Workers <- OneWorker
    Seeds = {"A", "B", "C"}
    NoSeed = "none"
    SeedOf <- FourSeeds
    AlgoOf <- ThenOthers
    MaxCalls = 4
    MayStop = TRUE
    MayReload = TRUE
    MayExhaust = TRUE
    AllocMayFail = TRUE
CHECK_DEADLOCK FALSE
INVARIANTS
    AlgorithmMatches
PROPERTIES
    ThreadsMine
    JoinReturns
