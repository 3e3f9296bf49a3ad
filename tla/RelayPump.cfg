SPECIFICATION FairSpec
CONSTANTS
    Cap = 1
    MaxSend = 2
INVARIANTS
    ResetSticks
    FirstEndIsComplete
    OnlyPeerBlocks
PROPERTIES
    FirstEndStopsRelay
    RelayRunsOut
CHECK_DEADLOCK FALSE
