SPECIFICATION Spec
CONSTANTS
    c1 = c1
    c2 = c2
    Ctx = {c1, c2}
    Idle = Idle
    Pins <- MCPins
    PinsOf <- MCPinsOf
    Groups <- MCGroups
    Values <- MCValues
INVARIANTS
    TypeOK
    LevelsKept
PROPERTY
    SetReadsBack
