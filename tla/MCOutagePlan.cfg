SPECIFICATION OutageSpec
CONSTANTS
    Streams = {t, k}
    TradeStreams = {t}
    LastPoint = 5
    Grace = 2
    MinGap = 1
    ChunkSpan = 2
    MaxChanges = 0
INVARIANT CompleteIntervalRecovered
CHECK_DEADLOCK FALSE
