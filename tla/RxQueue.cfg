\* Three seeds, four calls of Rx::init, and an allocation that may fail.
SPECIFICATION Spec
CONSTANTS
    Seeds = {s1, s2, s3}
    NoSeed = NoSeed
    MaxRequests = 4
    AllocMayFail = TRUE
INVARIANTS
    DatasetIsBuilt
    ReadyMeansUsable
    NewestKept
PROPERTIES
    JobIsServed
    ShutdownEnds
    ServiceSpec
