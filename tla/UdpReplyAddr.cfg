SPECIFICATION Spec
CONSTANTS
    Pumps = {p1, p2}
    Bufs = {b1, b2, b3}
    Addrs = {a1, a2}
    None = None
INVARIANTS
    AddressIsFrames
CHECK_DEADLOCK FALSE
