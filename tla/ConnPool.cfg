SPECIFICATION Spec
CONSTANTS
    Callers = {p1, p2, p3}
    Conns = {c1, c2, c3, c4}
    NoConn = NoConn
    MaxSize = 2
    MaxAge = 1
    MaxUses = 2
    MaxTime = 2
SYMMETRY Symmetry
INVARIANTS
    YoungestOnTop
PROPERTIES
    DialEnds
    ImplementsLease
