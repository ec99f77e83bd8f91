SPECIFICATION Spec
CONSTANTS
    Clients = {c1, c2}
    Background = Background
    Destructor = Destructor
    NULL = NULL
    NotFound = NotFound
    Keys = {1, 2, 3}
    Lookups = {1, 2, 3}
    SeqModulus = 16
    Batches <- MixedBatches
    kMaxMemtableSize = 2
    kGroupGrowth = 1
    kGroupLimit = 4
    UninitSizes = {0}
    UninitFlags = {FALSE}
    BuildOutcomes = {"ok"}
    MaxSequence = 6
INVARIANT ReadsFindWrites
CHECK_DEADLOCK FALSE
