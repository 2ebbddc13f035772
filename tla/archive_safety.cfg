CONSTANTS
    Ids = {c1, c2, c3, c4}
    Limit = 3
    DeleteBatch = 2
    FaultKinds = {"sql", "crash", "skip", "early", "signal", "late", "config", "limit"}
SPECIFICATION FairSpec
INVARIANTS
    NoRowLost
    DetailsFollowCall
    FinishedRunLeavesNoDuplicate
    DoneRunMovedTarget
    TaskSettled
PROPERTIES
    ImplementsCallArchive
    MovedUnlessDamaged
