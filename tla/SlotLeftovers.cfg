SPECIFICATION FairSpec
CONSTANTS
    r1 = r1
    r2 = r2
    r3 = r3
    Runs <- TwoRuns
    Spared <- OnlyR2
    NoRun = NoRun
    MaxAge = 3
    JobLimit = 1
    MaxSkew = 1
INVARIANTS TypeOK
PROPERTIES LeftoversGo
CHECK_DEADLOCK FALSE
