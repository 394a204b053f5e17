\* Both counters: a mask of two words (a KawPow nonce of 8 bytes) and one
\* inside the word (nicehash jobs).
SPECIFICATION Spec
CONSTANTS
    cpu = cpu
    gpu = gpu
    Workers <- MCWorkers
    Indices = {0, 1}
    Word = 4
    Mask <- MCMask
    Reserve <- MCReserve
    MaxEpoch = 1
INVARIANTS
    NoNonceTwice
    WalkStaysInside
    EndPauses
