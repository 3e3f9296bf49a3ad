SPECIFICATION Spec
CONSTANTS
    MaxUses = 2
    MaxUp = 1
    MaxDown = 1
INVARIANTS
    ReuseOnCleanBoundary
CHECK_DEADLOCK FALSE
