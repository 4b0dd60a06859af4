SPECIFICATION Spec
CONSTANTS
    Idle = 1
    AnswerTime = 1
    KeypadTimeout = 2
    RFIDRepeatDebounce = 1
    ColorTime <- Colors
    OpenTime = 2
    OpenRateLimit = 2
    Slack = 1
    RFIDs = {"card"}
INVARIANTS
    DoorInv
PROPERTIES
    OpeningsLast
