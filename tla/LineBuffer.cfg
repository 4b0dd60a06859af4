SPECIFICATION Spec
CONSTANTS
    Bytes <- SomeBytes
    Newlines = {"CR", "LF"}
    LineMax = 3
    Capacity = 3
    CountSize = 2
PROPERTIES
    ImplementsProtocol
    CommandsAreExecuted
    ServesInSilence
