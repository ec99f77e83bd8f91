SPECIFICATION Spec
CONSTANTS
    Batches = {b1, b2}
    Keys <- MCKeys
    Values <- MCValues
    NotFound = NotFound
    MaxOps = 2
    MaxSequence = 4
SYMMETRY BatchSymmetry
INVARIANTS
    BatchHoldsCalls
    GetsLastWrite
    NumbersExact
    ManifestReadsBack
CHECK_DEADLOCK FALSE
