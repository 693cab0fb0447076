SPECIFICATION Spec
CONSTANTS
    Id = {r1, r2, r3}
    NoId = none
    End = 5
    Candle = 2
    Chunk = 2
    TailDefer = 1
    Bridge = 1
    Epsilon = 1
    PageSize = 2
        MaxTroubles = 1
    Markets <- OffBoundary
CHECK_DEADLOCK FALSE
PROPERTY BackfillCompletesOffBoundary
