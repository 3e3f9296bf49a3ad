SPECIFICATION Spec
CONSTANTS
    Addrs = {a1}
    Flows = {f1, f2}
    NoAddr = NoAddr
    NoFlow = NoFlow
    Idle = 1
    MaxTime = 3
PROPERTIES
    RelayRemovesOwnFlow
