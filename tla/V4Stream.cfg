SPECIFICATION FairSpec
CONSTANTS
    MaxFrames = 4
INVARIANTS
    ReadsWhatWasWritten
    OpensUnlessLost
PROPERTIES
    ZeroChunkRead
    ImplementsChannel
CHECK_DEADLOCK FALSE
