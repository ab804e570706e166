SPECIFICATION FairSpec
CONSTANTS
    p1 = p1
    p2 = p2
    Slots <- TwoSlots
    MaxRevision = 3
INVARIANTS TypeOK NoWriterWhileStopped RolloutIsCurrent Restored
PROPERTIES JobsEnd
