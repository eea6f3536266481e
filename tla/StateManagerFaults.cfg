SPECIFICATION Spec
CONSTANTS
    MaxMessages = 2
    MaxItems = 2
    Policy = "drop_oldest"
    Sessions = {1, 2}
    NoSession = 0
    MaxTurn = 2
    MaxGeneration = 2
    Scenarios <- FaultsOrMessages
CHECK_DEADLOCK FALSE
INVARIANTS
    TurnIsSound
    EveryTaskReports
    RecoveryIsAwaited
    NoForgottenMessage
PROPERTIES
    ImplementsLifecycle
