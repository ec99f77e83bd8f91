SPECIFICATION Spec
CONSTANTS
    Keys <- MCKeys
    EntrySize <- MCEntrySize
    BloomHash <- MCBloomHash
    HashBits = 16
    kFilterBaseLg = 1
    kBlockSize = 4
    MaxEntries = 6
    MaxFaults = 1
INVARIANTS
    RoundTrip
    SeekIsRight
    GetIsRight
    FilterKeepsKeys
CHECK_DEADLOCK FALSE
