SPECIFICATION Spec
CONSTANTS
    Bytes <- SomeBytes
    BUFFER_BITS = 2
    LowSize = 2
    HighSize = 3
INVARIANTS
    StatsInv
PROPERTIES
    ImplementsFifo
    ReadReturns
