SPECIFICATION FairSpec
CONSTANTS
    g1 = g1
    g2 = g2
    user = user
    other = other
    Refs <- TwoRefs
    Groups <- TwoGroups
    User <- user
    none = none
    NoRef <- none
    MaxEdits = 2
INVARIANTS TypeOK NothingMissed NothingInvented
PROPERTIES SignInEnds
CHECK_DEADLOCK FALSE
