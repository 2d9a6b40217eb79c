SPECIFICATION PartsSpec
CONSTANTS
    e1 = e1
    e2 = e2
    Slots <- TwoSlots
    Buys = 1
    Sells = 1
    MaxExecutors = 2
    MaxLevels = 2
    MaxSide = 2
    MaxTotal = 3
    Collateral = 2
    MinLifetime = 1
    MaxLifetime = 2
    ReplaceInterval = 1
    Tolerance = 1
    StaleTimeout = 1
    MaxErrors = 2
    PauseSeconds = 1
    CancelOnPause = TRUE
    KillSwitch = FALSE
    Preserve = FALSE
    Suppress = TRUE
    Quotes <- TwoQuotes
    Shapes <- OneEachSide
    PositionLag = TRUE
    MaxPosition = 1
    BuyRungs = 2
    SellRungs = 1
    FillModels = {"conservative_cross_through", "touch_optimistic"}
    Snapshots <- ThreeBooks
    Targets <- ThreePlans
    Gaps = {0, 1}
    Nudge = 1
    MinRest = 1
    MaxRest = 2
    PriceTolerance = 0
    SizeTolerance = 20
    MaxActive = 2
    MaxPositions = 40
    MaxSidePositions = 30
    MaxReplayTime = 4
    Markets <- TwoMarkets
    SignalOnly = {"BTC"}
    Prices = {1, 2}
    Betas <- UnitBetas
    StartEquity = 8
    Leverage = 2
    Reserve = 1
    SoftGross = 5
    MaxGross = 6
    SoftBeta = 6
    HardBeta = 6
    MaxAsset = 3
    HardInventory = 3
    MaxOrder = 2
    AssetExecutors = 2
    PortfolioExecutors = 3
    MaxCreates = 2
    DrawdownLadder <- OneStage
    HardLoss = 2
    MaxTimeline = 6
    Ticks <- SixTicks
    TickSteps = {1, 3}
    IvStale = 5
    IvWindow = 5
    IvSamples = 1
    Elevated = 125
    Extreme = 150
    MissingBehavior = "defensive"
    DefensiveScore = 120
    RelationWindow = 6
    RelationObservations = 2
    RelationStale = 2
    RelationGap = 1
    LocalWeight = 1
    IvWeight = 1
    VolatilityEnter = 140
    VolatilityExit = 100
    MaxTicks = 4
    BuyLevels = 1
    SellLevels = 1
    Statuses = {"EXECUTION_ENABLED", "SIGNAL_ONLY"}
    StopReasons = {"cannot be quantized", "crossing, young"}
    Blocks = {"MIN_SIZE"}
    MaxCycles = 3
    Observations <- SixCycles
    Steps = {1, 3}
    GapSeconds = 2
    MaxCyclesTold = 4
    Sides = {"buy"}
    LimitPrice = 2
    TradePrices = {1, 2}
    Books <- TwoBooks
    Tellings <- FiveTellings
    Skews <- BeforeOrAfter
    FrameSteps = {2}
    MaxFrames = 2
    MinimumDuration = 5
    Duration = 6
    CheckpointInterval = 3
    FillTarget = 2
    MinMarkouts = 1
    MinCycles = 1
    Horizon30 = 1
    Horizon60 = 2
    CycleSteps = {2}
    Mids = {1, 3}
    FillPrice = 2
    Circumstances <- ThreeCircumstances
    Files <- CanaryFiles
    Connections <- SixConnections
    Holdings <- ShortFlatLong
    PlanQuotes = {0, 1, 2}
    MinNotional = 1
    MaxHolding = 4
    MaxCreated = 2
    NoInstant = 99
    Stages <- FewRecords
    Loaded <- TwoLoads
    MaxCarriedAge = 1
    MaxWritten = 4
    Listings <- ThreeListings
    Tickers <- FourTickers
    References = {0, 10, 11, 14}
    MinDte = 1
    TargetDte = 2
    MaxDte = 3
    MaxDistance = 10
    MaxDataAge = 1
    MaxSkew = 1
    MaxIv = 10
    RefreshInterval = 2
    MaxNow = 4
SYMMETRY Interchangeable
INVARIANT OneEntryPerLevel
INVARIANT ReplayBalances
INVARIANT HoldingsBounded
INVARIANT MeasuredBeforeTold
INVARIANT LifecycleReconciles
INVARIANT EpisodesReconcile
INVARIANT TradeAuditExplains
INVARIANT ReadyIsEarned
INVARIANT FramesAreCausal
INVARIANT IvIsAtTheMoney
PROPERTY MakerSafety
PROPERTY CanaryWithinBudget
CHECK_DEADLOCK FALSE
