SPECIFICATION FairSpec
CONSTANTS
    kWritableFileBuffer = 3
    MaxBytes = 8
INVARIANTS
    NothingLostSilently
PROPERTIES
    ImplementsStream
    CallsReturn
CHECK_DEADLOCK FALSE
