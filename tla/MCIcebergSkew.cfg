SPECIFICATION Spec
CONSTANTS
    Side = {"Bid"}
    Price = {2}
    ReorderWindow = 2
    MaxReorderEvents = 3
    DedupWindow = 3
    Warmup = 1
    RollingWindow = 9
    MaxEpisodes = 2
    MaxDistance = 1
    MaxAdverse = 0
    IdleTimeout = 2
    MaxDuration = 4
    Retention = 2
    MinLots = 1
    MinRefills = 1
    MinExecuted = 50
    MinRefilled = 50
    ShowWeak = FALSE
    MaxTime = 7
    MaxOps = 4
    InitialBook <- MCBook
    Changes = {0, 2}
    TradeSizes = {1}
    Minimum = {1}
    Scored <- MCScored
    MaxDelay = 1
    TradeLag = 0
    Skew = 2
    MaxFaults = 0
    Panes = {1}
    ReleaseGrace = 2
INVARIANT RefillIsReal
CHECK_DEADLOCK FALSE
