SPECIFICATION Spec
CONSTANTS
    Side = {"Bid"}
    Price = {2}
    ReorderWindow = 1
    MaxReorderEvents = 3
    DedupWindow = 3
    Warmup = 1
    RollingWindow = 9
    MaxEpisodes = 1
    MaxDistance = 1
    MaxAdverse = 0
    IdleTimeout = 2
    MaxDuration = 4
    Retention = 9
    MinLots = 1
    MinRefills = 1
    MinExecuted = 50
    MinRefilled = 50
    ShowWeak = FALSE
    MaxTime = 5
    MaxOps = 5
    InitialBook <- MCBook
    Changes = {2}
    TradeSizes = {1}
    Minimum = {1}
    Scored <- MCAllScored
    MaxDelay = 1
    TradeLag = 1
    Skew = 0
    MaxFaults = 1
    Panes = {0, 1}
    ReleaseGrace = 2
INVARIANTS
    TypeOK
    LevelsTrue
    RefillIsExplained
    HiddenIsExplained
    ExecutionsCountedOnce
PROPERTIES
    EventsAreStable
CHECK_DEADLOCK FALSE
