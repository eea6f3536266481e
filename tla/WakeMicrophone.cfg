SPECIFICATION Spec
CONSTANTS
    MaxMessages = 1
    MaxItems = 2
    Policy = "drop_oldest"
    Sessions = {1, 2}
    NoSession = 0
    MaxTurn = 2
    MaxGeneration = 2
    Scenarios <- OneMessage
CHECK_DEADLOCK FALSE
INVARIANTS
    OneMicOwner
