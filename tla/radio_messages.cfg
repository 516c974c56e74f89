CONSTANTS
    N = 4
    Bits <- SmallBits
    SHORT = 1
    LONG = 3
    CounterMin <- SmallCounterMin
    Garbage <- SmallGarbage
SPECIFICATION FairSpec
INVARIANTS
    TypeOK
    InBounds
PROPERTIES
    SendsMessages
