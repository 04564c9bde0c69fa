SPECIFICATION FairSpec
CONSTANTS
    a = a
    delim = delim
    Packet <- MCPacket
    Delimiter = delim
    ProtoState <- MCOneState
    InitialState = "login"
    Threshold <- MCThreshold
    MaxFrames = 2
    MaxCiphers = 2
    MaxTimers = 2
PROPERTIES EndTerminates BacklogDrains
CHECK_DEADLOCK FALSE
