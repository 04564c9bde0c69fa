\* All modes, safety and the settling of a login.
CONSTANT Modes <- AllModes
SPECIFICATION FairSpec
INVARIANTS
    CodecAgreement
    InGameTogether
PROPERTY LoginSettles
CHECK_DEADLOCK FALSE
