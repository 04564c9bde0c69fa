\* Every combination of the options; nothing to bound.
SPECIFICATION FairSpec
INVARIANTS
    GateOpens
    AuthFirst
    PingEnds
PROPERTIES
    PingSettles
    EndedCloses
CHECK_DEADLOCK FALSE
