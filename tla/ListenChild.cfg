SPECIFICATION FairSpec
CONSTANTS
  MaxCalls = 3
  MaxFrames = 3
  TerminalSilence = 2
  MaxGeneration = 3
  MaxCrashes = 2
INVARIANTS OneEngine QuietBetweenCalls NoForgottenDestruction
PROPERTY PerceiveEnds
CHECK_DEADLOCK FALSE
