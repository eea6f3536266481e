SPECIFICATION Spec
CONSTANTS
    MaxPending = 2
    MaxBytes = 4
    MaxFragments = 3
    Turns = 2
    Size <- MCSize
CHECK_DEADLOCK FALSE
INVARIANTS
    SpokenAsAdmitted
    ControlIsOwned
PROPERTIES
    ClosedIsSilent
