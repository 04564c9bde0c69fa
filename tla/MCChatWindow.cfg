\* Both ends of signed chat; a ring of three, reports behind two messages.
CONSTANTS
    Capacity = 3
    AckAfter = 2
    MaxPending = 7
    MaxSent = 5
    MaxChats = 3
    MaxHides = 1
    MaxLogins = 1
SPECIFICATION WindowSpec
INVARIANTS
    FaultlessClient
    WindowsAgree
CHECK_DEADLOCK FALSE
