SPECIFICATION Spec
CONSTANTS
    Senders = {a, b, c, d}
    Capacity = 3
    ReportAbove = 1
    PendingLimit = 4
    MaxMessages = 5
    MaxOwn = 2
    MaxUnderWay = 1
SYMMETRY Symmetry
INVARIANTS
    SeenNewest
    IntegrityExact
    HonestStays
CHECK_DEADLOCK FALSE
