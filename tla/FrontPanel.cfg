SPECIFICATION FrontSpec
CONSTANTS
    MaxTime = 4
    ShortPress = 1
    LongPress = 2
    MaxPresses = 2
    MaxErrors = 2
    EventBuffer = 2
INVARIANTS EventsAreHolds PanelIsTrue
PROPERTIES AbortedEnds
CHECK_DEADLOCK FALSE
