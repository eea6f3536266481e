SPECIFICATION FairSpec
CONSTANTS
    MaxMessages = 3
    MaxItems = 2
    Policy = "drop_oldest"
    Sessions = {s1, s2}
    NoSession = NoSession
    MaxTurn = 2
INVARIANTS
    NothingStranded
    StoppedIsQuiet
PROPERTIES
    ExpiredReadReleases
    ImplementsMailbox
    ReadIsServed
