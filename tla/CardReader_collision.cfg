SPECIFICATION Spec
CONSTANTS
    Cards = {"a", "b"}
    UidOf <- InSecondByte
    Garbage = {136}
    GarbledPos = {13}
PROPERTIES
    PicksBitSet
