SPECIFICATION Spec
CONSTANTS
    Side = {"Bid"}
    Price = {1, 2}
    ReorderWindow = 1
    MaxReorderEvents = 3
    DedupWindow = 3
    Warmup = 1
    RollingWindow = 9
    MaxEpisodes = 1
    MaxDistance = 1
    MaxAdverse = 0
    IdleTimeout = 2
    MaxDuration = 4
    Retention = 9
    MinLots = 1
    MinRefills = 1
    MinExecuted = 50
    MinRefilled = 50
    ShowWeak = FALSE
    MaxTime = 6
    MaxOps = 4
    InitialBook <- MCBook
    Changes = {2}
    TradeSizes = {1}
    Minimum = {1}
    Scored <- MCAllScored
    MaxDelay = 0
    TradeLag = 0
    Skew = 0
    MaxFaults = 1
    Panes = {1}
    ReleaseGrace = 2
INVARIANT DetectsOnWholeBook
CHECK_DEADLOCK FALSE
