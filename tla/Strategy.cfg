SPECIFICATION Spec
CONSTANTS
    MaxPools = 3
    Retries = 2
    MaxChanges = 3
CHECK_DEADLOCK FALSE
INVARIANTS
    TypeOK
    OneSession
    NeverStranded
PROPERTIES
    EndsServed
    ServiceSpec
