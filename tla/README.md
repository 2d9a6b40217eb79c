# Formal models of the Derive adaptive state grid

TLA+ models of the options-aware adaptive market maker in this repository, the
TLC configurations that check them on small instances, and TLAPS proofs of what
holds for every value of the parameters.

1. [The system and its parts](#1-the-system-and-its-parts)
2. [The modules](#2-the-modules)
3. [The runs](#3-the-runs), with what they found, their bounds and fairness
4. [The proofs](#4-the-proofs)
5. [What is left out, and why](#5-what-is-left-out-and-why)
6. [What was met besides](#6-what-was-met-besides)

## 1. The system and its parts

```
 exchange ─> MarketSnapshot ─> MarketState ─> GridModeDecision ─> GridPlan ─> (copy) ─> Stage 5 controller ─> executors, orders
             (stage 1)         (stage 2)      (stage 3)           (stage 4)   mirror     (Hummingbot V2)       (Hummingbot, exchange)
                └──── one JSON-lines file between every two stages ────┘
                                                                  └─> shadow session (paper orders) ─> ledgers, baseline, stage reports
                                     multi-asset coordinator, competition profile: plans ─> risk governor ─> portfolio controller
 dashboard: profile, strategy ─> controller artifact, history            evaluation: all streams ─> join ─> replays, audit
```

Each stage is a process (a Condor routine) of its own that tails the file the
stage before appends to, and appends to one itself.  No stage answers another:
what is lost or read twice on the way is not asked for again.

| Component | State it keeps | Operations | What makes it correct | Module |
|---|---|---|---|---|
| Market snapshot collector (`derive_market_snapshot.py`, `derive_public.py`) | trade counts, ages of what was read | a tick of requests; the reader of the trade stream | what is told is as fresh as the requests allow, each trade is told once | `MarketCollector` |
| Options IV provider (`options_iv.py`) | list of contracts and its age | refresh, select, read two tickers | the IV told was quoted at the money, of a list that is young enough | `OptionsChain` |
| Market state engine (`state_engine.py`) | pair, history, labels, pending direction and its count | `update` | labels change exactly when scores call for it; valid rests on a warm history of one pair | `StateEngine` |
| Mode selector (`mode_selector.py`) | mode, candidates, counts and times | `update` on a state, on a malformed record | PAUSE entered when it must be and left when that is earned; modes do not flap; risk never relaxes as inputs get worse | `ModeHierarchy`, `ModeSelector` |
| Grid parameter engine (`grid_engine.py`) | last plan and its version | `build` | inventory leans the grid against itself; a change that counts reprices | `GridEngine`, `GridRefresh` |
| Stage streams (`derive_*.py` routines, controller tailer, `mirror_grid_plan.py`) | file, inode, offset, half a line | append, rotate, crash, restart; bootstrap, poll; copy | no line passed over, nothing older than the last one used, the newest arrives | `JsonlFile`, `CondorTailer`, `PlanTailer`, `PlanMirror`, `StageChain` |
| Single-market controller (`derive_adaptive_grid.py`, `execution_logic.py`) | latest plan, pending stops, errors in a row, pause | the tick; executors fill, exit, fail and stop in between | one entry per level, limits and caps, maker side only, quotes come down in a pause | `AdaptiveGrid` |
| Mainnet canary guards (`mainnet_canary.py`) | the validated configuration and what later files changed | accept a file, update, the gates of a tick | no entry without every approval, losses within the budget | `MainnetCanary` |
| Portfolio controller (`derive_adaptive_grid_portfolio.py`, `portfolio_execution.py`) | executors and positions of all markets | the tick with one gate | limits of all markets together | `PortfolioController` |
| Ledgers (`shadow.PositionLedger`, `audit.PositionLedger`) | amount, average price, PnL, high water mark | `apply_fill`/`apply`, `mark` | PnL equals the cash that moved and what the position would fetch | `PositionLedger` |
| Shadow engine and session (`shadow.py`) | paper entries, take profits, ledger | frame, fills, reconcile, shutdown | position = sum of filled entries, a level is held once, no cycle at a loss | `ShadowExecution` |
| Trade feed of the session (`shadow.py`) | received trades, counts of reconnections, times of checks | connect, subscribe, receive, break; a fetch, its backfill and cross-check | a counted break costs no trade but those of moments no fetch makes up for; a checked frame is exact | `TradeFeed` |
| Multi-asset engine and governor (`multi_asset.py`) | global risk, relationship of returns; routed plans | update of a tick; route | what a market is told is fresh and measured; growth within limits | `MultiAssetState`, `PortfolioRisk` |
| Competition governor (`competition_risk.py`), replayed by `multi_asset_replay.py` | high water mark, latch, positions | evaluate | holdings bounded through whatever fills | `CompetitionReplay` |
| Configuration store (`config_store.py`, staging of `app.py`) | profile, strategy, artifact, history, log; sessions | stage, apply, restore | an apply that runs alone mends what faults left; the log tells of recorded versions | `ConfigStore` |
| Baseline session (`shadow_baseline.py`, `condor/shadow_baseline.py`) | two engines, log, table, checkpoint; series of exposure and equity | cycle, persist, stop | stopped is complete; sums say what the points say | `ShadowBaseline`, `RunMetrics` |
| Stage reports (`stage12c/e/f/g.py`, `stage13.py`, `stage14.py`) | tables made of what a session told | report, checkpoint, verdict | every order, pause and trade counted once and explained; ready is earned | `OrderLifecycle`, `PauseEpisodes`, `TradeAudit`, `EconomicValidation` |
| Evaluation (`data_loader.py`, `replay.py`, `audit.py`, `fill_models.py`) | streams as loaded, frames, positions | load, join, replay | frames do not look ahead; inventory and PnL balance | `EvaluationJoin`, `ReplayEngine`, `CompetitionReplay` |
| Connector patches (`orderbook_snapshot_compat.py`, `derive_perpetual_signing_compat.py`) | – | the first snapshot; the signature | the initializer is served whoever wins the race | `SnapshotRace` (the first) |
| Dashboard pages and readers, previews, tools, environment, report texts | none, or a form | display | – | not modelled, but for the staging of forms in `ConfigStore` |

Hard behaviours: the reader of a stream looks at a path three times (exists,
stat, open) while the writer appends half a line, rotates or dies; a tick of the
controller decides on executors that fill, fail or exit between its reads and
its actions, from an account report that lags; confirmation windows, recoveries
and residence times overlap with late, repeated and malformed observations; the
history of a stage is emptied by a gap while its labels stay; limits that are
shared are evaluated market by market; five files are written one after another
by sessions that do not know of each other; trades come late, twice or never;
reports are written of sessions that failed, or that are still running.
`PROJECT.json` lists each such hazard at its line with the properties about it.

## 2. The modules

### From market data to a plan

**`MarketCollector`**: one tick of the collector as a program counter (`at`) over its requests, each of
any length up to its timeout, during which books, tickers and the trade stream move on (`Pass`).  Time is kept as ages.
`TickFails` may end a tick anywhere; `Persist` may fail.  `untold` and `disturbed` are history variables.

**`OptionsChain`**: the kept list (`ListChain`, which fails or answers), expiry and strike by lexicographic minimum as
in the code, two tickers with quotes and ages.  The exchange lists and delists in between.

**`StateEngine`**: `update` by its three ways to return, `Skip` (invalid, of another pair, or not newer),
`WarmUp` and `Judge`.  Snapshots are reduced to their age, their pair and whether they carry an ATM IV; whether a score
can be computed follows from the history as in the code, its value is arbitrary.  `scored` (history) holds
the last scores, against which the confirmation counter is judged.

**`ModeHierarchy`** (operators): `determine_candidate_mode`, an ordered choice of the first rule that
holds.  Numbers are hundredths; a missing or non-finite value is `Missing`.  **`ModeSelector`** (extends it):
one action for each way `update` goes (`UpdateMalformed`, `UpdateStale`, `UpdatePause`, `UpdatePendingPause`,
`UpdateRecovery`, `UpdateDefensive`, `UpdateWorking`).  `observed` (history) records runs of equal observations
independently of the selector's counters.

**`GridEngine`**: `build_grid_plan` in whole basis points and hundredths, with every check that disables a plan, the
comparison with the plan before and the version.  **`GridRefresh`** adds an order of the controller that
rests at the innermost buy, and a tick that sees plans at another pace than they are made.

**`JsonlFile`**: the file and its writer.  A line of record r is `<<r,1>>, <<r,2>>, newline`; what follows a half line
decodes to nothing, as a JSON parser would have it.  **`CondorTailer`** composes it with the tailer of the Condor routines,
**`PlanTailer`** with that of the controller.  The two are different code: the first keeps what is unfinished and an offset
after it, the second keeps it and an offset before it.  Each `poll` is split where the code looks at the
file system.  **`PlanMirror`** puts `mirror_grid_plan.py` between the two: the reader is `PlanTailer`,
instantiated on the copy (`INSTANCE PlanTailer WITH file <- target, ...`), whose inode changes with each replacement.
**`StageChain`** is the composition of the stages above a poll and an append: collector, Stage 2, Stage 3 and Stage
4, joined by streams that rotate, each of which may start again or lose an append.  A record there is the number of
the snapshot it comes from, so that a plan says which snapshot, state and mode it joins.

### What acts on a plan

**`AdaptiveGrid`**: the controller's tick and what it runs on.  `Tick` is one whole `determine_executor_actions`: forget the
errors when their pause is over, decide on `Stops` and on `Missing` levels, admit entries one by one (`Admitted`, against
slots, levels, sides, total, collateral), record the ends of executors (`RecordEnds`) and send.  `TickRaises` is the tick
whose market rules or quantizing raise.  `Fill`, `Exit`, `Fail`, `Stopped`, `PositionReport`, `WritePlan`, `MarketMoves`,
`HealthChanges` and `Advance` (a second passes) happen between ticks in any order.

**`MainnetCanary`**: which configuration files are accepted, which fields a later file changes while the controller runs,
and the gates and budgets of a tick.  **`MarketPlaces`** (operators): the markets in their order, the places of their entries and
sums over them, for the two that follow.  **`PortfolioController`**: the tick over all markets, whose own reconciliation is an
arbitrary choice within what `AdaptiveGrid` may do, and the gate of shared limits (`Evaluated`, a function along the order of
the markets as the loop goes through them).  `last_health` says of each market whether the tick has read it, could not read its
book or position, or failed in its reconciliation; but for the first it counts as flat (`ReadPositions`) and gets no entries.  **`SnapshotRace`**: listener and initializer over one queue of the connector, and the patch.

**`PortfolioRisk`**: the governor of `multi_asset.py` in the cycle of a shadow session: route once, then reconcile market by
market.  What fills, exits and is refreshed is arbitrary.  **`CompetitionReplay`**: the drawdown ladder with its latch and the elif chain of limits, driven by the
ticks of the multi-asset replay; `Evaluated` takes the proposals one by one in the order of `sort_key` (`Foremost`).  **`MultiAssetState`**: IV regime, relationship and volatility of a
market beside BTC's over the common clock; prices are logarithms.

**`ConfigStore`**: what sessions stage and apply, and an apply as its reads and five writes, any of which may fail or be the
last before a crash.  `overlapped` and `whole` (history) tell whether an apply ran alone and to its end.

### What is traded on paper, and what is told of it

**`PositionLedger`**: both ledgers fed with the same fills.  The state has costs in place of average prices;
`cash` (history) is what the fills brought.  **`ShadowExecution`** extends it to the cycle of a pair: `Receive`, `FillDue`
(each a `PositionLedger!Fill`; `FillEntry` creates the take profit, which may be refused, `FillExit` frees the level), `Decide`
(marks, and reconciles by `AdaptiveGrid`'s operators, instantiated as `reconcile_pair` calls them: always ready, no
errors, the position without its sign) and `Shutdown`.

**`TradeFeed`**: the socket task, which tells a connection (`Connect`) before it subscribes (`Subscribe`), and the thread that fetches a
frame, with steps of the task between its own: it takes its time (`FetchBegin`), looks whether the socket is connected (`FetchLook`, or the
REST window, `FetchByRest`), reads what was received up to its time and the count of reconnections (`FetchRead`), backfills and cross-checks
(`FetchEnd`); breaks that are counted, clean ends that are not.  `unheard` (history) has the trades no fetch makes up for: those
that happen, or are under way, while nothing is subscribed and a fetch has its time already or has noted the reconnection.
**`RunMetrics`**: points at any times, and the sums over a stretch of them.  **`ShadowBaseline`**: two engines run one after
the other, their events copied one by one to a log and a table, the profile's hash checked before a
cycle, and the stop, with failures, edits and kills between any two steps.

**`OrderLifecycle`** (stages 12e, 13), **`PauseEpisodes`** (12c, 12e, 12f, 12g, 13), **`TradeAudit`** (12e, 12f) and
**`EconomicValidation`** (14) let a session tell, step by step, what a report then reads: two clocks, one of which may stand
still; pauses of several causes; trades that are late, ahead, lost or doubled.  The history variables are what happened,
the operators what is told; the properties reconcile the two.

**`ReplayEngine`**: the offline replay: fills, take profits, a plan made with the position that results,
cancellations or else creations.  **`EvaluationJoin`**: streams as they are loaded one after another while their
stages write, and the join of each plan with the records before it.

**`*Proofs`** hold the theorems.  **`MC*`** give the constants their values for TLC; `MCSignals`, `MCProgress`, `MCPlans`,
`MCShadow` and `MCEvaluation` check several components in one run: the variable `part` is chosen at the
start and never changes, the part it names takes all the steps, and the others wait where they begin.  The state
space is the sum of those of the parts, not their product.  `MCAdaptiveGrid` holds the values of the controller for those that
EXTEND it; `SelectorSpec`, `EngineSpec`, `PlanSpec` and `CanaryPartSpec` are one part alone.  The runs of
section 3 that expect a violation run one component.  Some parts are EXTENDed, the others
INSTANCEd, with the constants of the same names or those the `WITH` gives.

## 3. The runs

Five runs check what holds; each asks its questions of several components.

| Run | Part | What it shows |
|---|---|---|
| `signals` | collector | `WrittenFreshAndOnce`: a valid snapshot is as fresh as the requests allow; no trade is told twice, none lost without a failure |
| | engine | `DirectionEarned`, `DirectionHeard`: the direction changes when, and only when, enough scores in a row call for it; `HistorySound`: valid means a warm history of one pair, no two stretches of it overlapping |
| | selector | `RiskOverridesDirection`, `WorkingModeJustified`, `WorkingModeResides`, `RecoveryEarned`, `MirrorSymmetric`: PAUSE entered in time and left when earned; working modes reside; a worse risk input never relaxes the candidate; long and short are treated alike |
| `progress` | condor, plan, mirror | `ReadersCatchUp`: no plan older than the last is used, each reader catches up; the plan tailer if no poll finds half a line, or if it reads the mirror's copies, whatever half lines they end in |
| | stages | `PlanInputsOnlyAdvance`, `ReadersCatchUp` of Stages 1 to 4: a plan's inputs never go back; the newest snapshot after the last fault ends in a plan with its own state and mode |
| | book | `ReadersCatchUp`: the initializer gets a snapshot once one has come |
| | controller | `CapsRespected`, `EntriesWithinLimits` with three levels for two places; `PausedQuotesWithdrawn`, `ErrorPauseEnds` (liveness) |
| `plans` | store | `StoreMendsAndRecords`: a lone apply mends whatever crashes, failures and races left; every logged version is in the history |
| | tailer | `CondorPassesNoLineOver`: the tailer of the Condor routines passes no line over, whatever falls between its looks at the path |
| | plan | `LeansAgainstInventory`: more inventory never buys more, wherever the clamps cut in |
| | gate, controller | `GrowthWithinLimits`, `SharedLimitsWhenSeen`: what the gates of shared limits guarantee of a cycle and of a tick, that one for the positions it has read |
| | ledger | `LedgersReconcile`, `EquityIsWorth` |
| `shadow` | engine | `EntriesBackThePosition`, `CyclesProfit`, `EntriesWithinTotal` |
| | feed | `FramesHoldTheTrades`: counted breaks cost no trade but the `unheard`; a checked frame is the exchange's |
| | metrics, baseline | `SeriesAreExact`, `StoppedIsComplete` |
| `evaluation` | controller | `OneEntryPerLevel`, `MakerSafety`, with a lagging account report and plans that move, cross and drop levels |
| | canary | `CanaryWithinBudget`: no mixture of configuration files creates an entry that was not approved or that the loss budget does not cover |
| | options, markets | `IvIsAtTheMoney`, `MeasuredBeforeTold` |
| | replay, join | `ReplayBalances`, `FramesAreCausal` |
| | competition | `HoldingsBounded`: whatever fills, no holding passes its market's limit by more than the one unit a hedge may add |
| | orders, pauses, trades, validation | `LifecycleReconciles`, `EpisodesReconcile`, `TradeAuditExplains`, `ReadyIsEarned`: each report counts everything once and as what happened |

Seven runs check one sentence of the repository each, which the code does not keep.

| Run | The sentence | Finding |
|---|---|---|
| `pause_window_restarts`: `PauseEntryBounded` | "bounded confirmation windows" (`stage13.py:1036`) | 1. The entry window of a `STRATEGY_REGIME` pause is keyed by the first reason's text, which contains the volatility score with two decimals: an extreme volatility that moves restarts it for ever. |
| `plan_tailer_partial`: `EventuallyDrained` | "while tolerating partial writes" (`derive_adaptive_grid.py:88`) | 2. The controller's tailer leaves its offset before the half line it keeps, so it reads that text twice; the line does not parse and the plan is lost. |
| `adaptive_grid_error_pause`: `ErrorPauseHolds` | "new entry creation is paused for ..." (`stage5_execution.md:160`) | 3. A take profit resets the count of errors and with it the pause; and the tick that records the last failure still sends the entries it has decided on. |
| `shadow_ledger_partial_close`: `PaperPnlReconciled` | "reconciled paper PnL" (`shadow.py:759`) | 4. A fill that closes a part of a paper position re-prices the rest at the fill, so realized and unrealized PnL no longer add up to the cash; the audit's ledger keeps the average. |
| `shadow_short_side`: `ShortBlocksSells` | `test_short_position_blocks_sell_...` | 5. The paper engine gives the reconciliation the position without its sign, so a short counts as a long. |
| `grid_refresh_reprice`: `SignificantChangeReprices` | "significant plan changes still reprice" (`execution_logic.py:752`) | 6. Only the flag of the newest plan is looked at, and a plan is significant against the one right before it: a second plan before the next tick takes the flag away. |
| `canary_existing_account`: `ExistingAccountStops` | "a hard stop until explicitly resolved and acknowledged" (`mainnet_canary.md:44`) | 7. The blocker found by the first look at the account goes into a text and into no gate; the tick that tells it creates entries. |

### Bounds, and why they are enough

- selector: values of every input at, just below and just above each threshold, and every step moves one input, so the run
  covers every pair of neighbours.  One market state per outcome of the hierarchy; `MaxTime` = 8 is longer than
  two of the longest windows (3), so that one recovery is broken off and another completed.
- engine: gaps of 0 (not newer), 1 and 4 (longer than every window), windows of 2 and 3; three scores confirm a direction, so
  runs are broken at their second.  No bound on the number of snapshots: the history is bounded by its windows.
- collector: requests of 0 or 1 (`Timeout`), a book and an option no older than 1, a chain that is fetched anew after 2, `MaxTrades` = 2 trades
  under way: enough for a request that outlives what the one before it read, for a drain between two trades and for a chain that
  ages out.  Ages stop at `Oldest`.
- tailers: four records (`MaxRecords`), a file that is rotated after `MaxFileUnits` units, so lines end at, before and after the
  limit; one crash of the writer, at any unit.
- mirror: two records, a rotation after the first, one failure or restart (`MaxMirrorFaults`), two inodes: a copy ends at every unit and
  takes the place of one that was read, half read or never seen.  A copy that gets the very inode the reader
  knows ends the model: a reader may then take it for the file it knows.
- stages: three snapshots, streams that rotate after two lines, one fault (two faults were checked too): a stage restarts with unread lines, between
  the polls of Stage 4, and after a rotation.
- controller: two or three places for two or three levels; prices in ticks at, inside and across the touch; `MaxPosition` only
  bounds the model.  Clocks are ages that stop where nothing more is told apart.
- canary: seven files, of which a canary's, a larger, a smaller, one that is off, one of testnet and two that are refused; six
  states of the connector; a book that is short, flat or long before.  `MaxCreated` = 2 entries.
- store: two sessions, two versions, one fault, so an apply crosses another's and a failure follows either; two strategies and both networks.
- plan engine: price steps below and above the significance threshold, inventory on either side with either bias, wild and calm
  markets, inputs that disable the plan; four plans (`MaxVersion`).
- gates: two markets, sizes 1 and 2, limits of 2 to 4 that one or two entries reach.
- ledgers: four fills of 1 or 2 at three prices add, reduce, close, and turn a position both ways.  Prices are multiples of 6, so
  that no share of a cost is rounded in the model.
- shadow engine: three places for four levels; two books that do not overlap at their mids, so that exits are refused, rest, and
  fill at a plan that has moved either way.  Two of the four fill models: `trade_print` fills at the
  price of the order what `conservative_trade_through` fills past it, and `estimated_queue` never fills.
- feed: windows of 3, overlap 1, `MaxTime` = 4 and three breaks, so a break falls before, between and after the steps of a fetch and a check.  Two
  sets of faults, none and both; with both there is one break, which keeps the run short.
- metrics: four points in three seconds, in any order (a clock that is set back gives such).  baseline: two cycles, three events, two failures, one edit.
- competition: two markets, one of which only gives signals, prices 1 and 2, limits of 2 to 6; six ticks (`MaxTimeline`): a fill, a fall, a
  latch and what is still let through after it.
- replay of a strategy: three levels, three books, three plans, 5 instants.  join: two sets of streams, out of order or with equal times, and four records written while they are loaded.
- markets: four ticks of one or three time units, IV and prices there or not.  options: three listings, four tickers, four reference prices, a refresh interval of 2 in four instants.
- orders: one level a side, three cycles; a frame has a time of its own or that of the last.  pauses: four cycles, six kinds, a gap that splits an
  episode and one that does not.  trades: two frames, each trade on time, late, ahead or lost.  validation: a
  duration of two checkpoints.

Deadlock is not checked: every part stops at its bounds (records, fills, ticks), and a Condor routine may die.

Symmetry (`Interchangeable`) is that of the places of executors, which no action names; it is
used in `shadow` and `evaluation`, which have no liveness property.

### Fairness

Safety needs none.  `progress` assumes, of its parts:

- WF of `ReaderStep` for the tailers: `run()` and `update_processed_data` poll for ever;
- WF of `MirrorPolls`: `run()` of the mirror polls for ever;
- WF of each stage's polls and appends (`StageRuns`, `PlanRuns`): the `while True` of the routines;
- WF of `ListenerTakes` and of `Starts \/ Looks`: the event loop runs the listener and the initializer; nothing is assumed of the
  request;
- WF of `Tick` (the strategy's clock; so quantizing does not raise for ever), of `Advance` (time passes) and of `Stopped(e)` (an executor that
  was told to stop closes, unless it fills first).

As only one part runs, `FirstRuns`, `SecondRuns`, ... join one such action of every part into one fairness condition.  Nothing is assumed of
fills, failures, the plan, the market, or the writers.  The liveness properties have their premises in themselves: a plan that
stays paused or stale, executors that no longer fail, a snapshot newer than the last fault.

## 4. The proofs

A module of proofs EXTENDS the components it is about.  Below, the theorem, the run's property it states for all values of
the constants (if it has one), and the invariant it rests on.

| Module | Theorem | Property | Inductive invariant |
|---|---|---|---|
| `SignalProofs` | `WorkingModeIsJustified`, `RecoveryIsEarned`, `WorkingModesReside` | `WorkingModeJustified`, `RecoveryEarned`, `WorkingModeResides` | `TypeOK /\ SelectorRemembers /\ WorkingModeJustified` |
| | `RiskNeverRelaxesAnyState`, `LadderIsMirrored` | (of operators: what `RiskOverridesDirection` and `MirrorSymmetric` say of the grid) | – |
| | `DirectionIsEarned`, `DirectionIsHeard` | `DirectionEarned`, `DirectionHeard` | `LabelsOK /\ PendingIsRun` |
| | `HistoryIsSound` | `HistorySound` | `HistoryInv` |
| `PlanProofs` | `PlansAdvance` | `PlanInputsOnlyAdvance` | `ChainInv` |
| | `InventoryLeans` | `LeansAgainstInventory` | `PlanOfInput` |
| | `StoreMends` | `StoreMendsAndRecords` | `StoreInv` |
| | `PassesNoLineOver` | `CondorPassesNoLineOver` | `TailerInv` |
| `AdaptiveGridProofs` | `NoDuplicateEntries`, `CapsAlwaysRespected` | `OneEntryPerLevel`, `CapsRespected` | `TypeOK /\ OneEntryPerLevel /\ CapsRespected` |
| | `EntriesKeepLimits`, if `~PositionLag` | `EntriesWithinLimits` | the first two, and `reported = position` |
| | `OrdersStayMakers`, if `CancelOnPause` | `MakerSafety` | the first two |
| | `CanaryStaysWithinBudget` | `CanaryWithinBudget` | `CanaryInv` |
| `ShadowExecutionProofs` | `LedgersAlwaysReconcile`, `EquityReconciles` | `LedgersReconcile`, `EquityIsWorth` | `LedgerTypeOK /\ LedgersReconcile /\ EquityIsWorth` |
| | `EntriesAlwaysBack`, `CyclesAlwaysProfit`, `EntriesKeepTotal` | `EntriesBackThePosition`, `CyclesProfit`, `EntriesWithinTotal` | `ShadowInv` |
| `FeedProofs` | `NoTradeIsMissed`, `FramesHoldAllTrades`, at the pace below; `FramesAreExact` | `FramesHoldTheTrades` | `FeedInv /\ LossInv` |
| | `StoppedSessionsAreComplete` | `StoppedIsComplete` | `BaselineInv` |
| | `SnapshotsAreFresh` | `WrittenFreshAndOnce` | `CollectorInv` |
| | `QuotesAreAtTheMoney` | `IvIsAtTheMoney` | `ChainInv` |
| `PortfolioProofs` | `GrowthIsLimited`, if `~Incremental` | `GrowthWithinLimits` | `RiskTypeOK`; within a cycle, `Judged` |
| | `SharedLimitsAreKept` | `SharedLimitsWhenSeen` | `ControllerTypeOK`; within a tick, `Weighed` |
| `EvaluationProofs` | `HoldingsStayBounded` | `HoldingsBounded` | `HoldingsInv` |
| | `ReplayAlwaysBalances` | `ReplayBalances` | `BalanceInv` |
| | `AlwaysMeasuredBeforeTold` | `MeasuredBeforeTold` | `MeasuredInv` |
| | `NoFrameLooksAhead` | `FramesAreCausal` | `JoinTypeOK` |
| `ReportProofs` | `TheTradeAuditExplains`, if `RestTellsTakers` | `TradeAuditExplains` | `AuditInv` |
| | `ReadinessIsEarned` | `ReadyIsEarned` | `ValidationInv` |
| | `TheLifecycleReconciles` | `LifecycleReconciles` | `LifeInv` |

`TypeCorrect`, `ChainTypeCorrect`, `LedgerTypeCorrect` and `ShadowTypeCorrect` state the types of their components.

### From which assumptions

The named assumptions of the modules (`ThresholdsAssumption`, `LimitsAssumption`, `CanaryAssumption`, `ChainAssumption`, ...) are the
checks of the configuration classes or the domains of the inputs; TLC evaluates them in every run.  Six theorems assume more:

- `EntriesKeepLimits`: the account report does not lag.  With a lag it is false, see the hazard of `execution_logic.py:616`;
- `OrdersStayMakers`: `cancel_entries_on_pause`.  Without it a paused controller leaves its orders where they are;
- `NoTradeIsMissed` and `FramesHoldAllTrades`: `Latency <= Overlap` and `Poll + Latency <= Window`, that a trade is told no later than the overlap of a
  backfill (2 s) reaches back, and that a fetch ends, and the next one takes its time, within the window (60 s) that the exchange is asked
  for, with that delay to spare.  At a slower pace trades are lost, and nothing tells;
- `SnapshotsAreFresh`: `CollectorConfigured`, that the limits on ages and times are not negative and the refresh interval is positive, which
  the configuration's fields demand;
- `GrowthIsLimited`: `use_incremental_pending_exposure_for_reconciliation` is off, the default (`multi_asset.py:176`).  With it, what a smaller proposal
  frees counts as free at once, while the larger order still rests;
- `TheTradeAuditExplains`: `RestTellsTakers`, that REST tells the taker's row of a trade whenever it tells of one.  Rows of the maker alone bear the
  other side, and an attribute mismatch would be counted that is none.

### Along which argument

- Selector: its windows count samples and times that it resets at different places; `SelectorRemembers` says that in each mode they agree
  with what was really observed, and that before the first observation there is nothing.  With it, a
  recovery cannot use a run from before the last pause (`RecoveryIsEarned`), which is not inductive by itself.
- State engine: a counter says how many scores called for the pending direction; `PendingIsRun` says that it is those
  remembered last, whatever snapshots were invalid or gave no score in between.  `HistoryInv` says that the points are of one pair, in the order of
  their ages and within the retention; what is cut off is a prefix, since the first point that is young enough is the least index of such.
- Tailer: while the path names the file it knows, the reader is at a place of it, keeps what follows the last newline before that place,
  and has returned all records before it (`KeepsItsPlace`).  `MoreText` cuts a text at its last newline and says that, whatever follows, the records
  of all of it are those of the whole lines before the cut and those of the rest with what follows.
- Streams: `ChainInv` says that what a stage has appended, the batch under way and what is unread of its feed ascend in this order, and that
  a stream has told of all that its reader holds, or of something later.  So a file, whichever it is and from wherever it is read, ends
  no earlier than what Stage 4 last planned with.
- Plan engine: the center and the share of the buys are sums and clamps that are monotone in the inventory.
- Store: an apply that has run alone since it began is the only one (`AloneIsAlone`), and the files hold what its step says it has written
  (`AloneHasWritten`); while they are those of a whole apply no other has begun to write (`WholeIsUntouched`); a job that is to log has
  its version in the history (`EventHasVersion`).
- Controller: an entry is only created for a level no active executor has, and those of one tick are of
  different levels; the admitted levels go to places that are free, so the counts add up as cardinalities.  Each check of `Admitted` is one on
  the last level it admits, and the exposure of the others is less.  Orders that would take are among the `Stops`.
- Canary: nothing is known of the configuration between ticks but its types.  A tick reads it, so a created entry was
  held against the very budgets the property speaks of.
- Ledgers: case by case over opening, adding, reducing, closing and turning; the shadow
  ledger's part uses only that no fill has closed a part (`reduced`).
- Shadow engine: `ExitsAtProfit` says that the exit of an entry is at a profit of a tick at least, from the time the entry is created, wherever
  plans move later; `Ticks` writes sums of prices as cardinalities, so that no induction over sets is needed.
- Feed: what no frame had yet is waiting for something (`Awaited`): the socket, the next window, or the backfill of a break
  that is counted and not yet noted; or it is `unheard`.  Each step either delivers it or leaves it a reason to wait.  Without the exception the
  statement is false at the first fetch, whose time is before the connection it waits for.
- Baseline: `BaselineInv` says that every model's events are copied up to the number that counts as persisted, those of the model that is being
  written up to where it is, and that the stop passes a model only when that number is all it told.
- Collector: `SnapshotIsYoung` bounds, at each request, the age of what the requests before it have read.
- Options: the nearest expiry and strike exist, as any set of naturals has a least element (`WFMin` of the library, with
  the least distance, then the lower of the two at it).
- Shared limits: the loop goes through markets; `Judged` and `Weighed` say of its working exposure that it is at least what there was plus what was
  let through and is no hedge, and within each limit as soon as there is such an entry.  A limit is checked when an entry passes, and hedges
  that pass after it only add to both sides (`GrownWithin`).  Induction along the markets is done by the least index at which
  the statement would fail (`UpTo`), and sums over markets are compared in the same way (`SumsBound`).
- Competition replay: a fill comes a tick after the entry was let through, at another mark, and other fills with it.  `HoldingsInv` therefore
  bounds not only what is held but what each resting entry would make of it; filling both sides of a market is filling neither.  An entry
  is let through because its market's limit has room for it at the lowest price (`RoomIsBounded`), or because it is against what is
  held and what rests together (`ReducingIsBounded`): that position may be short of a price, which is where the one unit comes from.
- Replay: `BalanceInv` says that no entry rests beside a position of its level, so a fill overwrites none, and that both are at a profit since
  `_adjacent_tp` gives no neighbour at a loss.  `SumFollows` carries an equation of the levels over to their sums.
- Markets: `MeasuredInv` says that what is remembered is in the order of its time and none of it of the future.  What the median, the window
  and the relation need of it is that a least and a greatest index exist (`LowestIsPositive`, `RecentIsFresh`, `GreatestIs`).
- Join: what is sorted, or kept of a sequence, is told by ranks, and a rank determines its place (`RanksTell`), so that a sorted stream is a
  permutation of what was read (`SortedIs`) and the last plan of an instant is one place of it (`LastsAre`).  The property follows from
  the types alone, whatever was loaded; conflicts and duplicates are counted by bijections between places and instants (`PlansAddUp`).
- Trade audit: the frames follow one another without a gap (`FramesFollow`), and of each that was checked the counts are the cardinalities of
  what both sides told of it (`CheckIsTrue`), so an order that missed a trade was told of it in a frame of another time.
- Validation: what is told of a running session is of frames that are past (`FramesArePast`), every hour in which a cycle ended has its checkpoint
  (`HoursAreTold`), the verdict that stops a session early is that of the session as it was (`EarlyIsSupported`), and a summary is
  final (`SummaryIsFinal`).  Sums of streaks are functions of partial sums that exist and are unique (`TotalIs`).
- Orders as reported: an order goes one of five courses, which the times on both clocks and its reason go with (`Standing`), and an exit is the
  only one of an entry that was filled (`ParentsStand`), without which a fill could complete an entry twice or one that rests.
  Each step moves the numbers of what rests by what it fills, stops and creates (`FilledBook`, `ReconciledBook`, `StoppedBook`), so
  the counts keep step.  What is pending turns round at a fall or at the first rise after one, and each fall needs a cancel or a fill,
  which bounds the oscillations (`OscillationsFollowFalls`).

### What is only model-checked

Liveness (it needs fairness and ENABLED), and so `ReadersCatchUp`, `PausedQuotesWithdrawn` and `ErrorPauseEnds`; `MirrorSymmetric`, of which the
lemma `LadderIsMirrored` is proved; and what folds over data compute: the series of `RunMetrics` (`SeriesAreExact`) and
the episodes of pauses (`EpisodesReconcile`), for which induction over data would be needed.

## 5. What is left out, and why

Of the modelled parts: texts, logging and journals; the value of confidences and scores, which are arithmetic over the history; the inventory
label, which has no memory; fees; prices that are not on the tick; the rounding of `Decimal`; how the paper equity moves the collateral of
`ShadowExecution` (a constant), its other pairs, and `replace_order`, which nothing in the session calls; markouts
of paper orders; pages and unparsed rows of the feed; position corrections of the competition governor; the coordinator's loop
over the markets, which gives each the same global risk.  Tables, percentiles, buckets and texts of the reports are computed
from what is modelled and change nothing.  The executors and the connector are Hummingbot's: they are modelled from
how the code here reads them.

Not modelled: the signature and post-only patches (they change what one request holds); dashboard readers and previews (they show what
others have written); environment tables and the phase-1 check (static); command-line tools (one-shot emitters
and demonstrations around the components above); statistics and renderings of the evaluation.

The map of `PROJECT.json` covers about a third of the implementation's lines.  The rest is for the most part what the two
paragraphs above name: schemas, rendering, statistics, forms.

## 6. What was met besides

Disagreements and hazards seen while modelling, which no run states.

Configuration and limits
- RESTORE VERSION applies a riskier version without the acknowledgement an apply asks for (`app.py:2137`, `docs/dashboard.md:119`), and racing applies
  overwrite one version of the history (`config_store.py:102`, `:129`; `docs/dashboard.md:127`).
- The shared limits of the portfolio controller leave out what a market holds whose book or position cannot be read or whose reconciliation fails
  (`docs/STAGE8_MULTI_ASSET.md:22-24`, `derive_adaptive_grid_portfolio.py:313-324`, `:521-531`);
  `portfolio_risk` counts pending exposure only by an option (`multi_asset.py:1185`, `reports/stage8_multi_asset.md:54-57`).
- The hard stop of the competition profile lets entries grow a position that count as reducing risk (`reports/competition_800_profile.md:107-109`), and a missing
  snapshot values a position at 0, which may latch it falsely (`multi_asset_replay.py:262-268`).
- On mainnet an unverified position mode blocks nothing; turning `execution_enabled` off at run time leaves the orders that rest.
- The limits of the controller rest on an account report that is up to date (`PositionLag`).

Signals and plans
- The labels of the state engine outlive a gap that empties its history (`state_engine.py:633`).
- A centre that creeps below the threshold never makes a significant change (`grid_engine.py:692`); the rounding of
  `Decimal` may disable plans of 20 levels or more (`grid_engine.py:642`).
- A routine dies of a rotation between `exists()` and `stat()` (`derive_grid_plan.py:118-120`); `bootstrap` drops the first half of a line that is
  being written.
- A plan may join a snapshot with the state and mode of a later one, as the three streams are polled in turn (`derive_grid_plan.py:247`); the next
  poll mends it.  A state or mode whose append fails is not told again.
- A return that spans a missed tick of the asset counts as synchronized (`reports/stage8_multi_asset.md:37`); the gap from the
  previous price has no limit; repeated snapshots add returns of zero.

Execution
- A stop is sent once per executor (`derive_adaptive_grid.py:1003`).
- A clean end of the trade socket is not counted, so no backfill covers it (`shadow.py:3849`, `stage12f.py:1190`).
- A fetch takes its time before it waits for the connection, and a connection counts before it is subscribed (`shadow.py:4567`, `:3837-3848`):
  trades from that time to the subscription are in no frame, at the first fetch and after a reconnection inside a fetch.

Reports
- A completed entry bears the terminal time of its exit (`shadow.py:2312-2325`); a take profit bears its entry's cycle; all
  cancellations of a pause are categorised as a level removed (`stage12c.py:107-109`); blocked rows of a held level are counted as
  instantiated (`stage13.py:262`).
- In 12g the durations of two episodes with a gap between them overlap; 12f counts the causes of an absence twice; in the summary of a running stage 14 the
  regressions of stage 13 are unknown, so evidence may be called sufficient that the final summary calls insufficient.
- The evaluation's common window ignores a stream without any time; loading running streams one after
  another joins late plans with inputs that were loaded before, unflagged.
