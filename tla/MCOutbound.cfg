SPECIFICATION Spec
CONSTANTS
    a = a
    delim = delim
    Packet <- MCPacket
    Delimiter = delim
    ProtoState <- MCProtoState
    InitialState = "login"
    Threshold <- MCThreshold
    MaxFrames = 3
    MaxCiphers = 1
    MaxTimers = 1
INVARIANTS NoLoss NoLostWakeup
PROPERTY FifoSpec
CHECK_DEADLOCK FALSE
