SPECIFICATION Spec
CONSTANTS
    MaxPending = 2
    MaxBytes = 2
    MaxFragments = 3
    Turns = 1
    Size <- MCSize
CHECK_DEADLOCK FALSE
PROPERTIES
    ConvergenceStops
    ThinkEnds
