SPECIFICATION PartsSpec
CONSTANTS
    Missing = 1000000
    CriticalConfidence = 50
    MinimumModeConfidence = 75
    MinimumBiasConfidence = 85
    BiasDirectionThreshold = 25
    BiasInventoryLimit = 40
    InventorySoftLimit = 60
    InventoryHardLimit = 90
    DefensiveVolatility = 150
    ExtremeVolatility = 300
    DefensiveIvRatio = 125
    ObservedStates <- MCObservedStates
    ModeConfirmationSamples = 2
    MinimumModeDuration = 3
    PauseRecoverySamples = 3
    PauseRecoverySeconds = 1
    PauseEntryConfirm = 2
    PauseExitConfirm = 3
    DefensiveExitSamples = 2
    MaxTime = 8
    Pairs = {"BTC-USDC", "ETH-USDC"}
    Gaps <- MCGaps
    Retention = 3
    RvWindow = 2
    RvBaseline = 3
    IvWindow = 3
    ReturnWindow = 2
    MinSamples = 3
    IvMinSamples = 2
    VolScores = {1, 2, 3}
    HighEnter = 3
    HighExit = 2
    Scores <- MCScores
    BullEnter = 3
    BullExit = 2
    BearEnter <- MCBearEnter
    BearExit <- MCBearExit
    Confirm = 3
    Timeout = 1
    Interval = 1
    MaxAge = 1
    MaxOptionAge = 1
    Refresh = 2
    Oldest = 7
    MaxTrades = 2
INVARIANTS WorkingModeJustified MirrorSymmetric
INVARIANTS DirectionHeard HistorySound
INVARIANT WrittenFreshAndOnce
PROPERTIES RecoveryEarned WorkingModeResides RiskOverridesDirection DirectionEarned
CHECK_DEADLOCK FALSE
