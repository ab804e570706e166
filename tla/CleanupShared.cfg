SPECIFICATION FairSpec
CONSTANTS
    catalog = catalog
    auth = auth
    none = none
    Names <- PluginDatabases
    None <- none
    Timeout = 3
INVARIANTS TypeOK NothingForgotten
PROPERTIES OthersLeftAlone CleanupEnds KeepsPromise
CHECK_DEADLOCK FALSE
