SPECIFICATION FairSpec
CONSTANTS
    c1 = c1
    c2 = c2
    w1 = w1
    Clients = {c1, c2}
    Fds = {1, 2}
    Workers = {w1}
    Parts = 2
    None = None
    Null = Null
    Listen = Listen
INVARIANTS
    TasksAreDefined
    OwnAnswers
    StorageMatches
PROPERTIES
    ServesEveryClient
CHECK_DEADLOCK FALSE
CONSTRAINT Followed
