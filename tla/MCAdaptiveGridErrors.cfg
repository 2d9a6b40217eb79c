SPECIFICATION Spec
CONSTANTS
    e1 = e1
    e2 = e2
    Slots <- TwoSlots
    Buys = 1
    Sells = 1
    MaxExecutors = 2
    MaxLevels = 2
    MaxSide = 2
    MaxTotal = 2
    Collateral = 2
    MinLifetime = 1
    MaxLifetime = 2
    ReplaceInterval = 1
    Tolerance = 1
    StaleTimeout = 1
    MaxErrors = 2
    PauseSeconds = 1
    CancelOnPause = TRUE
    KillSwitch = FALSE
    Preserve = FALSE
    Suppress = TRUE
    Quotes <- OneQuote
    Shapes <- OnOff
    PositionLag = FALSE
    MaxPosition = 6
PROPERTY ErrorPauseHolds
CHECK_DEADLOCK FALSE
