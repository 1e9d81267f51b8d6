CONSTANTS
    Recipients = {1, 2}
    SnapshotBatch = 1
    ExpandBatch = 2
    StampBatch = 2
    HoldDepth = 2
    Keepers = {1}
    MaxEpoch = 1
SPECIFICATION FairSpec
INVARIANT CompletedIsDone
PROPERTIES CancelSettles  
CHECK_DEADLOCK FALSE
