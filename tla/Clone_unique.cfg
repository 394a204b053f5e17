SPECIFICATION CloneSpec
CONSTANTS
    Disks = {1, 2}
    Octets = {1, 2}
CHECK_DEADLOCK FALSE
INVARIANTS
    UniqueName
