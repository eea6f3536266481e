SPECIFICATION LedgerSpec
CONSTANTS
    Singles = {"MEM"}
    Heard = {"S1"}
    WakeCases = {"W1", "W2"}
    MaxReruns = 1
    MaxDesignations = 1
    MaxMishaps = 1
    MaxFinals = 1
INVARIANTS JudgedIsFinal
PROPERTIES FinalPassIsEarned
CHECK_DEADLOCK FALSE
