SPECIFICATION Spec
CONSTANTS
    a = a
    delim = delim
    Packet <- MCPacket
    Delimiter = delim
    ProtoState <- MCProtoState
    InitialState = "login"
    Threshold <- MCThreshold
    MaxFrames = 1
    MaxCiphers = 1
    MaxTimers = 1
INVARIANTS EndReachesSocket
CHECK_DEADLOCK FALSE
