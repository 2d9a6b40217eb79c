------------------------------ MODULE MCEvaluation ------------------------------
(***************************************************************************)
(* What acts and what judges it afterwards: the controller with one level  *)
(* on each side, three prices, and plans that keep, move, cross or drop a  *)
(* level, or pause; the offline replay of a strategy, and that of several  *)
(* markets under the risk governor; what one market tells the others; the  *)
(* reports on a shadow session: of the life of its orders, of the episodes *)
(* it paused in, of the trades that should have filled an order, and of    *)
(* what it is economically worth; the controller's gates on mainnet; the   *)
(* join the evaluation reads; and the options IV. One of the eleven at a   *)
(* time runs, the others wait where they begin.                            *)
(***************************************************************************)
EXTENDS MCAdaptiveGrid, ReplayEngine, CompetitionReplay, MultiAssetState, OrderLifecycle,
        PauseEpisodes, TradeAudit, EconomicValidation, MainnetCanary, EvaluationJoin, OptionsChain

VARIABLE part                    \* which of the eleven it is

\* Of the replay: three books, two ladders of two buys and a sell, the one above
\* the other, and a plan that pauses.
ThreeBooks == {[bid |-> 2, ask |-> 4], [bid |-> 4, ask |-> 6], [bid |-> 6, ask |-> 8]}
Ladder(ok, mode, center, prices, size) ==
    [ok |-> ok, mode |-> mode, center |-> center,
     levels |-> [l \in 1..3 |-> [price |-> prices[l], size |-> size]]]
ThreePlans == {Ladder(TRUE, "normal", 10, <<7, 5, 12>>, 1),
               Ladder(TRUE, "long_bias", 7, <<9, 0, 11>>, 2),
               Ladder(FALSE, "pause", 0, <<0, 0, 0>>, 0)}

\* Of the competition: two markets, of which one only gives signals.
TwoMarkets == <<"BTC", "ETH">>
UnitBetas == {[p \in {"BTC", "ETH"} |-> 1]}
OneStage == {<<1, 60>>}

\* Of the markets: all there, calm or not; IV stale; none; no asset.
Snapshot(btc, iv, age, asset, rv, valid) ==
    [btc |-> btc, iv |-> iv, iv_age |-> age, asset |-> asset, rv |-> rv, valid |-> valid]
SixTicks == {Snapshot(0, 10, 0, 0, 80, TRUE), Snapshot(1, 16, 0, 1, 150, TRUE),
             Snapshot(1, 13, 9, 0, 110, TRUE), Snapshot(0, 12, 0, 1, 80, TRUE),
             Snapshot(NoNumber, 0, 0, 1, NoNumber, FALSE),
             Snapshot(0, 10, 0, NoNumber, NoNumber, FALSE)}

\* Of the cycles: quiet, without a snapshot, with a pause pending and confirmed,
\* and with one or both levels blocked.
Quiet == [snapshot |-> TRUE, state |-> TRUE, relation |-> TRUE, iv |-> TRUE, enabled |-> TRUE,
          gate |-> FALSE, confirmed |-> FALSE, plan |-> "valid", mode |-> "normal",
          candidate |-> "", levels |-> {1, 2}, blocked |-> {}]
SixCycles ==
    {Quiet, [Quiet EXCEPT !.snapshot = FALSE, !.plan = "invalid", !.levels = {}],
     [Quiet EXCEPT !.levels = {1}, !.candidate = "STRATEGY_REGIME"],
     [Quiet EXCEPT !.mode = "pause", !.confirmed = TRUE, !.levels = {},
                   !.candidate = "STRATEGY_REGIME"],
     [Quiet EXCEPT !.blocked = {2}],
     [Quiet EXCEPT !.blocked = {1, 2}, !.candidate = "HARD_RISK"]}

\* Of the trades: told, lost and found by the check or not, told twice over by
\* REST, and not told because the stream was down.
Telling(ok, kept, roles, check) == [ok |-> ok, kept |-> kept, roles |-> roles, check |-> check]
FiveTellings ==
    {Telling(TRUE, TRUE, {"taker"}, ""), Telling(TRUE, FALSE, {"taker"}, "PASS"),
     Telling(TRUE, TRUE, {"maker", "taker"}, "PASS"), Telling(TRUE, FALSE, {"taker"}, "ERROR"),
     Telling(FALSE, FALSE, {}, "")}
BeforeOrAfter == {-2, 1}
TwoBooks == {[bid |-> 1, ask |-> 3, depth |-> 1], [bid |-> 1, ask |-> 2, depth |-> 1]}

\* Of the sessions: nothing in the way, and two things or another two.
Clear == [sensitivity |-> "LOW", fees_verified |-> TRUE, long_open |-> FALSE,
          controlled |-> TRUE, unratioed |-> FALSE]
ThreeCircumstances ==
    {Clear, [Clear EXCEPT !.fees_verified = FALSE, !.long_open = TRUE],
     [Clear EXCEPT !.sensitivity = "HIGH", !.controlled = FALSE]}

\* Of the join: what the stages write, of two pairs and some of it without a time,
\* and two states of the streams when they are opened, one out of order.
Stamped(at) == [at |-> at, pair |-> "BTC", iv |-> at = 2, rv |-> TRUE]
Shot(at, iv) == [at |-> at, pair |-> "BTC", iv |-> iv]
GridPlanAt(at, controlled, version) ==
    [at |-> at, pair |-> "BTC", controlled |-> controlled, version |-> version]
FewRecords ==
    [snapshots |-> {Shot(1, TRUE), Shot(2, FALSE), Shot(NoInstant, TRUE)},
     states |-> {Stamped(2), [Stamped(1) EXCEPT !.pair = "ETH", !.rv = FALSE]},
     modes |-> {Stamped(1), Stamped(3)},
     plans |-> {GridPlanAt(1, FALSE, 1), GridPlanAt(2, FALSE, 1), GridPlanAt(2, FALSE, 2),
                GridPlanAt(3, TRUE, 2), GridPlanAt(NoInstant, FALSE, 2)}]
TwoLoads ==
    {[snapshots |-> <<Shot(1, TRUE)>>, states |-> <<Stamped(1)>>, modes |-> <<Stamped(1)>>,
      plans |-> <<GridPlanAt(1, FALSE, 1)>>],
     [snapshots |-> <<Shot(3, FALSE), Shot(2, TRUE)>>, states |-> <<Stamped(2), Stamped(2)>>,
      modes |-> <<>>, plans |-> <<GridPlanAt(2, TRUE, 1), GridPlanAt(3, FALSE, 1)>>]}

\* Of mainnet: a canary's file, one that is off, larger, or of testnet, and two that are
\* not accepted, and six connections.
File(stop, most, total, loss, scale) ==
    [environment |-> "mainnet", connector |-> "mainnet", market |-> "mainnet",
     options |-> "mainnet", account |-> "mainnet", execution |-> "mainnet",
     leverage |-> 1, emergency_close |-> FALSE, environment_verified |-> TRUE,
     allow_mainnet_trading |-> TRUE, acknowledged |-> TRUE, account_verified |-> TRUE,
     stop_loss |-> stop, execution_enabled |-> TRUE, levels_per_side |-> 1, max_active |-> 2,
     testnet_scale |-> Unset, order_scale |-> scale, max_order |-> most,
     max_total |-> total, max_loss |-> loss]
Canary == File(50, 2, 4, 2, 1)

ShortFlatLong == {-1, 0, 1}

CanaryFiles ==
    {Canary, File(25, 3, 8, 2, 2), File(100, 1, 2, 2, 1),
     [Canary EXCEPT !.execution_enabled = FALSE, !.allow_mainnet_trading = FALSE,
                    !.max_order = Unset],
     [Canary EXCEPT !.environment = "testnet", !.connector = "testnet", !.testnet_scale = 1,
                    !.allow_mainnet_trading = FALSE, !.max_total = Unset],
     [Canary EXCEPT !.max_loss = 1], [Canary EXCEPT !.options = "testnet"]}

Connection(environment, book, known, in_flight) ==
    [environment |-> environment, ready |-> TRUE, book |-> book, positions |-> known,
     in_flight |-> in_flight]
SixConnections ==
    {Connection("mainnet", TRUE, TRUE, "none"), Connection("mainnet", FALSE, TRUE, "none"),
     Connection("mainnet", TRUE, FALSE, "none"), Connection("mainnet", TRUE, TRUE, "some"),
     Connection("unknown", TRUE, TRUE, "unavailable"),
     [Connection("mainnet", TRUE, TRUE, "none") EXCEPT !.ready = FALSE]}

\* Of the options: chains with an expiry of one type, two as near as each other,
\* one out of range, none; tickers that are good, that lack a mark, or are old.
Contract(expiry, strike, type) == [expiry |-> expiry, strike |-> strike, type |-> type]
ThreeListings ==
    {{Contract(1, 10, "C"), Contract(2, 10, "C"), Contract(3, 10, "C"), Contract(3, 12, "P"),
      Contract(4, 10, "P"), Contract(4, 10, "C")},
     {Contract(2, 12, "C"), Contract(2, 10, "P"), Contract(4, 11, "C"), Contract(4, 11, "P")}, {}}
Ticker(mark, bid, ask, age) ==
    [mark |-> mark, bid |-> bid, ask |-> ask, age |-> age, told |-> TRUE]
FourTickers == {Ticker(5, 0, 0, 0), Ticker(20, 4, 8, 1), Ticker(0, 0, 3, -1), Ticker(5, 0, 0, 3)}

\* A part that waits does so at one of its beginnings.
PartsInit ==
    /\ part \in {"controller", "replay", "competition", "markets", "orders", "pauses", "trades",
                "validation", "canary", "join", "options"}
    /\ Init /\ ReplayInit /\ CompetitionInit /\ MultiAssetInit /\ LifecycleInit /\ EpisodesInit /\ AuditInit
    /\ ValidationInit /\ CanaryInit /\ JoinInit /\ ChainInit
    /\ part # "controller" => market = CHOOSE q \in Quotes : TRUE
    /\ part # "validation" => session = Nothing(Clear)
    /\ part # "replay" => fill_model = "touch_optimistic"
    /\ part # "orders" => status = "EXECUTION_ENABLED"
    /\ part # "canary" => /\ config = Canary /\ holding = 0
                          /\ connector = CHOOSE c \in Connections : TRUE
    /\ part # "join" => streams = CHOOSE l \in Loaded : TRUE
    /\ part # "options" => listed = {}

ControllerPart ==
    /\ part = "controller" /\ Next
    /\ UNCHANGED <<part, replayVars, competitionVars, multiVars, lifecycleVars, episodeVars,
                   auditVars, validationVars, canaryVars, joinVars, chainVars>>

ReplayPart ==
    /\ part = "replay" /\ ReplayNext
    /\ UNCHANGED <<part, vars, competitionVars, multiVars, lifecycleVars, episodeVars, auditVars,
                   validationVars, canaryVars, joinVars, chainVars>>

CompetitionPart ==
    /\ part = "competition" /\ CompetitionTick
    /\ UNCHANGED <<part, vars, replayVars, multiVars, lifecycleVars, episodeVars, auditVars,
                   validationVars, canaryVars, joinVars, chainVars>>

MarketsPart ==
    /\ part = "markets" /\ MultiAssetTick
    /\ UNCHANGED <<part, vars, replayVars, competitionVars, lifecycleVars, episodeVars, auditVars,
                   validationVars, canaryVars, joinVars, chainVars>>

OrdersPart ==
    /\ part = "orders" /\ LifecycleNext
    /\ UNCHANGED <<part, vars, replayVars, competitionVars, multiVars, episodeVars, auditVars,
                   validationVars, canaryVars, joinVars, chainVars>>

PausesPart ==
    /\ part = "pauses" /\ CycleTold
    /\ UNCHANGED <<part, vars, replayVars, competitionVars, multiVars, lifecycleVars, auditVars,
                   validationVars, canaryVars, joinVars, chainVars>>

TradesPart ==
    /\ part = "trades" /\ FrameTold
    /\ UNCHANGED <<part, vars, replayVars, competitionVars, multiVars, lifecycleVars, episodeVars,
                   validationVars, canaryVars, joinVars, chainVars>>

ValidationPart ==
    /\ part = "validation" /\ ValidationNext
    /\ UNCHANGED <<part, vars, replayVars, competitionVars, multiVars, lifecycleVars, episodeVars,
                   auditVars, canaryVars, joinVars, chainVars>>

CanaryPart ==
    /\ part = "canary" /\ CanaryNext
    /\ UNCHANGED <<part, vars, replayVars, competitionVars, multiVars, lifecycleVars, episodeVars,
                   auditVars, validationVars, joinVars, chainVars>>

JoinPart ==
    /\ part = "join" /\ JoinNext
    /\ UNCHANGED <<part, vars, replayVars, competitionVars, multiVars, lifecycleVars, episodeVars,
                   auditVars, validationVars, canaryVars, chainVars>>

OptionsPart ==
    /\ part = "options" /\ ChainNext
    /\ UNCHANGED <<part, vars, replayVars, competitionVars, multiVars, lifecycleVars, episodeVars,
                   auditVars, validationVars, canaryVars, joinVars>>

PartsNext ==
    \/ ControllerPart \/ ReplayPart \/ CompetitionPart \/ MarketsPart \/ OrdersPart \/ PausesPart \/ TradesPart
    \/ ValidationPart \/ CanaryPart \/ JoinPart \/ OptionsPart

PartsSpec ==
    PartsInit /\ [][PartsNext]_<<part, vars, replayVars, competitionVars, multiVars,
                                 lifecycleVars, episodeVars, auditVars, validationVars,
                                 canaryVars, joinVars, chainVars>>

\* The controller's gates on mainnet alone.
CanaryPartSpec ==
    /\ PartsInit /\ part = "canary"
    /\ [][CanaryPart]_<<part, vars, replayVars, competitionVars, multiVars, lifecycleVars,
                        episodeVars, auditVars, validationVars, canaryVars, joinVars, chainVars>>
================================================================================
