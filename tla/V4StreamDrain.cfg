SPECIFICATION Spec
CONSTANTS
    MaxFrames = 3
INVARIANTS
    ReadableAfterDeadline
CHECK_DEADLOCK FALSE
