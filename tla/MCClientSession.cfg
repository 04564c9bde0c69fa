SPECIFICATION Spec
CONSTANTS
    Options <- MCOptions
    Keys = {"k"}
    Names = {"x"}
    MaxEntries = 2
    MaxExtras <- MCMaxExtras
INVARIANTS
    CodecTogether
    AnsweredOnce
    SessionAnnounced
    ListensOnce
    HandoffSurvives
PROPERTIES
    SwitchCompletes
CHECK_DEADLOCK FALSE
