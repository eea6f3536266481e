SPECIFICATION FairSpec
CONSTANTS
    MaxMessages = 0
    MaxItems = 2
    Policy = "drop_oldest"
    Sessions = {1, 2}
    NoSession = 0
    MaxTurn = 2
    MaxGeneration = 2
    Scenarios <- Talk
CHECK_DEADLOCK FALSE
INVARIANTS
    TurnIsSound
PROPERTIES
    ConvergenceEnds
    WakeMovesOn
