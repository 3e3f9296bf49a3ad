SPECIFICATION FairSpec
CONSTANTS
    Chunk = 2
    Slices = {1, 4}
    Bufs = {1, 3}
    MaxData = 6
INVARIANTS
    InStepUnlessCut
    NothingDropped
    WaitsOnlyForUnsent
PROPERTIES
    AllRead
CHECK_DEADLOCK FALSE
