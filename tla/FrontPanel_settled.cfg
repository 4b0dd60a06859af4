SPECIFICATION Spec
CONSTANTS
    Keys <- OneKey
    LowSize = 2
    HighSize = 5
    Settle = 3
    ClickMs = 3
    AskedMs = {10}
    TickRate = 1000
    Period = 2
    PollGap = 3
PROPERTIES
    KeysAlwaysSettle
