SPECIFICATION CloneSpec
CONSTANTS
    Disks = {1, 2}
    Octets = {1}
CHECK_DEADLOCK FALSE
INVARIANTS
    MarkedIsNamed
PROPERTIES
    FirstbootEnds
