SPECIFICATION Spec
CONSTANTS
    LcdWidth = 1
    RowSize = 2
    Lines <- SomeLines
    Rates = {9600, 38400}
    SERIAL_BAUDRATE = 9600
    CountSize = 3
    NeverCounted = 1
    NameSize = 2
    Eeproms <- SomeEeproms
INVARIANTS
    StoredInv
    DisplayShows
PROPERTIES
    NameCameTwice
