SPECIFICATION Spec
CONSTANTS
    Id = {r1, r2, r3}
    NoId = none
    End = 4
    Candle = 2
    Chunk = 2
    TailDefer = 1
    Bridge = 1
    Epsilon = 1
    PageSize = 2
        MaxTroubles = 2
    Markets <- Dense
INVARIANT TypeOK
INVARIANT OneRequestPerRange
INVARIANT PendingIsCurrent
INVARIANT CoverageIsHeld
PROPERTY SettledStaysSettled
CHECK_DEADLOCK FALSE
