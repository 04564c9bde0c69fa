SPECIFICATION MCSpec
CONSTANTS
    Nodes = 3
    Tree <- MCTree
    Packets <- MCPackets
    Junk = {0, 7}
    Half = 16
    MaxGroups = 3
    MaxSafe = 8
    MaxNbt = 4
INVARIANTS
    VerdictExact
    VisitBounded
    ReadsBack
CHECK_DEADLOCK FALSE
