SPECIFICATION FairSpec
CONSTANTS
    Workers = {w1, w2, w3}
    Jobs = {j1, j2, j3, j4}
    None = None
INVARIANTS
    EachJobOnce
    NoLostWakeup
    DrainedAtExit
PROPERTIES
    AcceptedJobsRun
    DestructorReturns
CHECK_DEADLOCK FALSE
