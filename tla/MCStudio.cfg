SPECIFICATION Spec
CONSTANTS
    ChannelCap = 2
    RawCap = 1
    DrainMax = 1
    IdleLimit = 2
    MaxDelay = 1
    MaxFrames = 2
    MaxTrades = 2
    Streams = {t, k}
    TradeStreams = {t}
    LastPoint = 4
    Grace = 2
    MinGap = 1
    ChunkSpan = 2
    MaxChanges = 1
    Workers = {w1, w2}
    Span = 3
    BucketSpan = 2
    TradeSets <- Market
    PageTrades = 2
    MaxMishaps = 1
    LastMoment = 4
    Options <- Known
    Listing <- From
    Expiry <- Until
    Overlap = 2
    FirstSpan = 1
    Retention = 3
    ListLife = 2
    BackoffBase = 1
    BackoffMax = 1
    Tapes <- Makers
    MaxBreaks = 1
    LastSecond = 4
    ListTTL = 4
    ChainTTL = 1
    ChainBackoff = 1
    MaxCrashes = 1
    Callers = {c1, c2}
    Period = 3
    Budget = 2
    Weights = {1}
    QueueCap = 1
    MaxUntold = 2
    LastTick = 4
    Steps = {1, 2}
    HeldCap = 2
    LiveCap = 1
    MaxTurns = 1
    Executions <- Prints
    CandleSpan = 4
    AskSpan = 2
    LastCandle = 8
    MaxJobs = 2
    MaxUpsets = 2
INVARIANT TypeOK
INVARIANT TradesAreAccounted
INVARIANT DataOnlyWhileUp
INVARIANT NoOutageIsForgotten
INVARIANT CoverageIsBacked
INVARIANT MakerTradesAreHeld
INVARIANT HistoryIsOneLine
INVARIANT RequestsStayWithinBudget
INVARIANT NothingCountsTwice
INVARIANT HeldTradesAreShown
INVARIANT CoveredBubblesAreShown
INVARIANT SummariesAreHeld
PROPERTY SilentPeerIsNoticed
PROPERTY CommandsAreServed
PROPERTY AnswerIsWhole
PROPERTY ChainNeverRewinds
CHECK_DEADLOCK FALSE
