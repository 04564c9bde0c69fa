CONSTANTS
    Interval = 5
    Graces <- CheckedGraces
    CloseAfter = 5
    MaxTimersBlock = 1
    MaxBlock = 8
    MaxBacklog = 2
    MaxErrors = 2
SPECIFICATION FairSpec
INVARIANTS
    Watching
PROPERTIES
    AccurateTimeout
    SilentPeerEnds
CHECK_DEADLOCK FALSE
