SPECIFICATION FairSpec
CONSTANTS
    Srcs = {a1, a2}
    Targets = {t1, t2}
    NoSrc = NoSrc
    CacheMax = 1
    Cap = 1
    MaxSend = 2
    MaxReply = 2
INVARIANTS
    IngressWithinLoop
    NobodyStuck
PROPERTIES
    AssociationRunsOut
    ControlEndsAll
    ServerEndsClient
CHECK_DEADLOCK FALSE
