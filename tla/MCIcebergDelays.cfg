SPECIFICATION Spec
CONSTANTS
    Side = {"Bid", "Ask"}
    Price = {1, 2, 3}
    ReorderWindow = 2
    MaxReorderEvents = 3
    DedupWindow = 3
    Warmup = 1
    RollingWindow = 9
    MaxEpisodes = 2
    MaxDistance = 1
    MaxAdverse = 0
    IdleTimeout = 2
    MaxDuration = 4
    Retention = 2
    MinLots = 1
    MinRefills = 1
    MinExecuted = 50
    MinRefilled = 50
    ShowWeak = FALSE
    MaxTime = 5
    MaxOps = 3
    InitialBook <- MCTwoSides
    Changes = {0, 2}
    TradeSizes = {1}
    Minimum = {1}
    Scored <- MCScored
    MaxDelay = 1
    TradeLag = 0
    Skew = 0
    MaxFaults = 0
    Panes = {1}
    ReleaseGrace = 2
INVARIANTS
    ExpectedAgrees
    RefillIsReal
    HiddenIsReal
CHECK_DEADLOCK FALSE
