SPECIFICATION FairRestartSpec
CONSTANTS
    p1 = p1
    p2 = p2
    Slots <- TwoSlots
    MaxRevision = 1
    MaxRetries = 3
INVARIANTS RestartTypeOK OldPodReplaced
PROPERTIES RestartEnds
