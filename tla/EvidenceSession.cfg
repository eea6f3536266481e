SPECIFICATION Spec
CONSTANTS
    Kinds = {"semantic", "fixed", "lifecycle", "memory", "ready", "resource", "forced", "shutdown", "normal", "recovery", "native", "W01", "W02", "W03", "W04"}
    MaxFaults = 2
    MaxInterrupts = 1
    MaxTurns = 5
INVARIANTS
    ReturnedIsClean
    NothingSurvives
    SoundIsAccepted
    EarlyIsCaught
CHECK_DEADLOCK FALSE
