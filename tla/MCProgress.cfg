SPECIFICATION PartsSpec
CONSTANTS
    MaxRecords = 4
    MaxFileUnits = 4
    MaxCrashes = 1
    ReplayExisting = TRUE
    MaxSnapshots = 3
    MaxLines = 2
    MaxFaults = 1
    ReplayInputs = TRUE
    e1 = e1
    e2 = e2
    e3 = e3
    Slots <- ThreeSlots
    Buys = 2
    Sells = 1
    MaxExecutors = 2
    MaxLevels = 2
    MaxSide = 2
    MaxTotal = 3
    Collateral = 3
    MinLifetime = 0
    MaxLifetime = 1
    ReplaceInterval = 0
    Tolerance = 1
    StaleTimeout = 1
    MaxErrors = 2
    PauseSeconds = 1
    CancelOnPause = TRUE
    KillSwitch = FALSE
    Preserve = FALSE
    Suppress = TRUE
    Quotes <- OneQuote
    Shapes <- TwoBuysOneSell
    PositionLag = FALSE
    MaxPosition = 6
INVARIANT CapsRespected
PROPERTIES PlanInputsOnlyAdvance ReadersCatchUp
PROPERTIES EntriesWithinLimits PausedQuotesWithdrawn ErrorPauseEnds
CHECK_DEADLOCK FALSE
