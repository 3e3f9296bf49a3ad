SPECIFICATION FairSpec
CONSTANTS
    MaxUses = 2
    MaxUp = 1
    MaxDown = 2
INVARIANTS
    AppSeesOwnSession
    PooledClean
    RequestBoundaryUnlessRefused
    SessionNotStuck
PROPERTIES
    StepsRunOut
    ResponseComplete
    DestinationEndsSession
    AppEndsSession
    ServerReleased
    ImplementsTunnel
CHECK_DEADLOCK FALSE
