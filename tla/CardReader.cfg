SPECIFICATION Spec
CONSTANTS
    Cards = {"a", "b"}
    UidOf <- TwoCards
    Garbage = {136}
    GarbledPos = {13}
INVARIANTS
    CardInv
PROPERTIES
    SentIsSelected
    CollisionsLeaveACard
    PollEnds
    IsSent
