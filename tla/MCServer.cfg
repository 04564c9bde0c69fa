\* A tick is half of the interval; the timeout is as little as a model may have.
CONSTANTS
    Interval = 2
    KickTimeout = 3
    MaxAnswer = 1
    MaxPlays = 2
    Socket = {s1, s2}
    Watched = s1
    MaxListens = 2
SPECIFICATION MCSpec
INVARIANTS
    PromptClientStays
    KickedInTime
    LoopsEnd
    RegistryExact
PROPERTIES
    LatencyExact
    CloseFinishes
CHECK_DEADLOCK FALSE
