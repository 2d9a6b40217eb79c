SPECIFICATION EngineSpec
CONSTANTS
    e1 = e1
    e2 = e2
    e3 = e3
    Slots <- TwoSlots
    Buys = 2
    Sells = 2
    MaxExecutors = 2
    MaxLevels = 2
    MaxSide = 1
    MaxTotal = 2
    Collateral = 2
    MinLifetime = 1
    MaxLifetime = 2
    ReplaceInterval = 1
    Tolerance = 1
    Preserve = FALSE
    Suppress = TRUE
    FillModels = {"conservative_trade_through", "touch_optimistic"}
    Quotes <- MCQuotes
    Tapes <- MCTapes
    Shapes <- MCShapes
    Prices = {1, 2, 3, 4, 5, 6}
    MaxFills = 3
    Sizes = {1}
    Window = 3
    Overlap = 1
    CheckInterval = 3
    Warmup = 1
    Latency = 1
    Poll = 2
    MaxTime = 4
    FaultSets <- SomeFaults
    MaxBreaks = 2
    LastSecond = 2
    MaxPoints = 4
    Exposures = {0, 2}
    Equities = {1, 2}
    Threshold = 1
    Profiles = {0, 1}
    MaxCycles = 2
    MaxEvents = 3
    MaxFaults = 2
    MaxEdits = 1
SYMMETRY Interchangeable
PROPERTY ShortBlocksSells
CHECK_DEADLOCK FALSE
