SPECIFICATION FairSpec
CONSTANTS
    MaxGeneration = 2
    MaxRequests = 4
    MaxFragments = 2
    QueueSize = 1
    MaxEpoch = 2
    MaxFaults = 1
CHECK_DEADLOCK FALSE
INVARIANTS
    LedgersAgree
    EachAnswersItsOwn
    CleanChild
PROPERTIES
    RequestEnds
