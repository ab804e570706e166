SPECIFICATION Spec
CONSTANTS
    r1 = r1
    r2 = r2
    r3 = r3
    Runs <- ThreeRuns
    Spared <- Nobody
    NoRun = NoRun
    MaxAge = 3
    JobLimit = 1
    MaxSkew = 1
INVARIANTS NeverRetiresLive CompletedIsClean
PROPERTIES LiveRunsKeepDatabases
CHECK_DEADLOCK FALSE
SYMMETRY Symmetry
