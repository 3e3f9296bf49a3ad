SPECIFICATION FairSpec
CONSTANTS
    Addrs = {a1, a2}
    Flows = {f1, f2}
    NoAddr = NoAddr
    NoFlow = NoFlow
    Idle = 1
    MaxTime = 3
INVARIANTS
    OpenIffInTable
PROPERTIES
    ImplementsSockets
    RelayEnds
    SilentFlowReaped
