SPECIFICATION FairSpec
CONSTANTS
    Plans <- MCPlans
    MaxFaults = 2
INVARIANTS StandsOnGround ArmedIsServed BarrierHonest OrderlyExit
PROPERTIES MainEnds
CHECK_DEADLOCK FALSE
