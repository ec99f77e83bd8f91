SPECIFICATION FairSpec
CONSTANTS
    Clients = {c1, c2}
    Background = Background
    Destructor = Destructor
    NULL = NULL
    NotFound = NotFound
    Keys = {1, 2, 3}
    Lookups = {1, 2}
    SeqModulus = 16
    Batches <- MixedBatches
    kMaxMemtableSize = 2
    kGroupGrowth = 1
    kGroupLimit = 4
    UninitSizes = {0, 2}
    UninitFlags = {TRUE, FALSE}
    BuildOutcomes = {"ok", "open", "write", "assert"}
    MaxSequence = 7
INVARIANTS
    QueueHoldsOnlyOwner
    ReadsSeeWholeBatches
    NoEntryLost
    LayersOrdered
    ReadsNewest
    TablesIntact
    ImmutableHasCompactor
    AbortsExplained
PROPERTIES
    WritesReturnUnlessStalled
    CompactionRunsUnlessStalled
CHECK_DEADLOCK FALSE
