SPECIFICATION PartsSpec
CONSTANTS
    MaxRecords = 4
    MaxFileUnits = 4
    MaxCrashes = 1
    Missing <- NoNumber
    BaseWidth = 100
    MinWidth = 40
    MaxWidth = 300
    MinVolatility = 75
    MaxVolatility = 200
    WidthMultiplier <- Widths
    SizeMultiplier <- Shares
    LevelsPerSide <- TwoLevels
    MinInner = 5
    MakerBuffer = 2
    DefensiveInner = 150
    MaxDirectionShift = 20
    MaxInventoryShift = 30
    MaxTotalShift = 40
    DirectionalBias = 20
    InventoryStrength = 50
    MaxBias = 50
    MinSide = 10
    MaxSide = 90
    CenterThreshold = 2
    WidthThreshold = 10
    AllocationThreshold = 5
    Inputs <- SomeInputs
    MaxVersion = 4
    MinLifetime = 2
    MaxLifetime = 4
    Tolerance = 5
    s1 = s1
    s2 = s2
    Sessions = {s1, s2}
    Risks = {0}
    Strategies = {0, 1}
    MaxVersions = 2
    MaxFailures = 1
    Prices = {6, 12, 18}
    MaxFills = 4
    Markets <- TwoMarkets
    Notionals = {1, 2}
    Sizes = {1, 2}
    MaxGross = 4
    MaxAsset = 3
    SoftBeta = 3
    MaxLongBeta = 4
    MaxShortBeta = 4
    AssetExecutors = 2
    PortfolioExecutors = 3
    Betas <- UnitBetas
    Incremental = FALSE
    Preserve = TRUE
    LevelNotionals = {1}
    GrossLimit = 2
    PairLimit = 2
    SoftLimit = 2
    LongLimit = 3
    ShortLimit = 3
    PairExecutors = 2
    AllowedExecutors = 3
    Collateral = 2
    Beta <- UnitBeta
    CancelOnPause = TRUE
    MaxPosition = 2
INVARIANTS LeansAgainstInventory LedgersReconcile EquityIsWorth
INVARIANTS StoreMendsAndRecords CondorPassesNoLineOver
PROPERTIES GrowthWithinLimits SharedLimitsWhenSeen
CHECK_DEADLOCK FALSE
