SPECIFICATION FairSpec
CONSTANTS
    Keys = {1, 2, 3, 4}
    kMaxLevel = 3
    Nil = Nil
INVARIANTS
    LevelsExact
    FindsFirst
    WalkSeesAll
PROPERTIES
    LoopsEnd
CHECK_DEADLOCK FALSE
