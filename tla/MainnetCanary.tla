----------------------------- MODULE MainnetCanary -----------------------------
(***************************************************************************)
(* The controller on mainnet: the configuration files it accepts           *)
(* (validate_environment_contract), what is taken over from a later file   *)
(* while it runs (the fields marked is_updatable), and the gates and       *)
(* budgets it goes through on every tick before an entry is created        *)
(* (mainnet_canary.py, _read_health, _pause_reason, the limits of          *)
(* reconcile_grid_plan).                                                   *)
(*                                                                         *)
(* There is one level on each side, as the validator wants it.  Prices are *)
(* 1, so that an amount is a notional; a stop loss is in per cent.  Which  *)
(* orders are stopped, and account positions that lag behind fills, are    *)
(* AdaptiveGrid's.                                                         *)
(***************************************************************************)
EXTENDS Integers, FiniteSets

CONSTANTS
    Files,                       \* the configuration files
    Connections,                 \* the reports of the connector
    Holdings,                    \* the positions the account may begin with
    PlanQuotes,                  \* quote_amount of a plan's level; 0: there is none
    MinNotional,                 \* min_notional_size
    MaxHolding, MaxCreated       \* bounds: the position, the entries created

\* The fields marked is_updatable that are modelled.
Updatable == {"execution_enabled", "levels_per_side", "max_active", "testnet_scale",
              "order_scale", "max_order", "max_total", "max_loss"}

\* What the validator leaves of a file, and what a plan and an account may hold.
ASSUME CanaryAssumption ==
    /\ \A c \in Files : /\ Updatable \subseteq DOMAIN c
                        /\ c.max_order \in Int /\ c.max_total \in Int
                        /\ c.max_loss \in Int /\ c.stop_loss \in Int
                        /\ c.order_scale \in Int
    /\ PlanQuotes \subseteq Nat /\ Holdings \subseteq Int

Unset == -1                      \* None
EntrySides == {"buy", "sell"}

VARIABLES
    config,                      \* the configuration, as it has been updated
    connector,                   \* what the connector reports
    holding,                     \* the position of the account
    entries,                     \* the entry of each side: its phase and notional
    checked,                     \* _mainnet_initial_account_checked
    blocker,                     \* _mainnet_initial_account_blocker
    orders_created               \* _orders_created

canaryVars == <<config, connector, holding, entries, checked, blocker, orders_created>>

Configured(value) == value # Unset /\ value > 0

-----------------------------------------------------------------------------
(* The gates *)

\* check_environment_consistency: all four boundaries are of one network.
Consistent(c, market) ==
    \A environment \in {market, c.options, c.account, c.execution} :
      environment = c.environment

\* CanaryRiskLimits.blockers.
BudgetsSet(c) ==
    /\ Configured(c.max_order) /\ Configured(c.max_total) /\ Configured(c.max_loss)
    /\ c.max_order <= c.max_total

LossCovered(c) ==
    Configured(c.stop_loss) /\ c.max_total * c.stop_loss <= 100 * c.max_loss

\* mainnet_canary_blockers is empty.
Unblocked(c, verified, market) ==
    /\ verified /\ Consistent(c, market)
    /\ c.allow_mainnet_trading /\ c.execution_enabled /\ c.acknowledged
    /\ c.account_verified
    /\ BudgetsSet(c) /\ LossCovered(c)
    /\ Configured(c.order_scale)

\* validate_environment_contract, of a file for mainnet and of one for testnet.
Accepted(c) ==
    /\ c.connector = c.environment
    /\ IF c.environment = "testnet"
       THEN ~c.allow_mainnet_trading /\ c.testnet_scale # Unset
       ELSE /\ c.environment = "mainnet"
            /\ c.leverage = 1 /\ c.levels_per_side = 1 /\ c.max_active <= 2
            /\ ~c.emergency_close /\ c.testnet_scale = Unset
            /\ \A environment \in {c.market, c.options, c.account, c.execution} :
                 environment = "mainnet"
            /\ (c.execution_enabled \/ c.allow_mainnet_trading)
               => Unblocked(c, c.environment_verified, c.connector)

\* Those a later file changes; the others stay.
Updated(c, file) ==
    [c EXCEPT !.execution_enabled = file.execution_enabled,
              !.levels_per_side = file.levels_per_side, !.max_active = file.max_active,
              !.testnet_scale = file.testnet_scale, !.order_scale = file.order_scale,
              !.max_order = file.max_order, !.max_total = file.max_total,
              !.max_loss = file.max_loss]

-----------------------------------------------------------------------------
(* A tick *)

\* ready_for_new_entries.  The blocker of the account is in the reason that
\* _read_health tells, and in nothing that is looked at here.
ReadyForNewEntries ==
    /\ connector.environment = config.environment
    /\ Consistent(config, connector.environment)
    /\ Unblocked(config, TRUE, connector.environment)
    /\ connector.ready /\ connector.book /\ connector.positions

\* _pause_reason: the budgets again, now from the policy.
CanaryPaused ==
    \/ ~Configured(config.max_loss) \/ ~Configured(config.stop_loss)
    \/ ~Configured(config.max_total)
    \/ config.max_total * config.stop_loss > 100 * config.max_loss
    \/ ~ReadyForNewEntries

\* Without a book the mid is 0, and so is the notional of any position.
PositionNotional == IF connector.book THEN holding ELSE 0

\* _read_health: the account is looked at once, when the connector first tells
\* its positions, whatever else it does not tell then.
InitialAccountCheck ==
    IF connector.positions /\ ~checked
    THEN /\ checked' = TRUE
         /\ blocker' = CASE connector.in_flight = "unavailable" -> "orders_unknown"
                         [] connector.in_flight = "some" -> "existing_orders"
                         [] connector.in_flight = "none" /\ PositionNotional # 0
                              -> "existing_position"
                         [] OTHER -> ""
    ELSE UNCHANGED <<checked, blocker>>

RestingSides(es) == {s \in EntrySides : es[s].phase = "resting"}
Occupied(es) == {s \in EntrySides : es[s].phase # "none"}
RestingNotional(es, sides) ==
    LET Part(s) == IF s \in RestingSides(es) \intersect sides THEN es[s].notional ELSE 0
    IN  Part("buy") + Part("sell")

PositionOn(side) ==
    IF side = "buy" THEN (IF holding > 0 THEN holding ELSE 0)
    ELSE IF holding < 0 THEN -holding ELSE 0
Total == PositionOn("buy") + PositionOn("sell")

\* A plausible mistake: what rests on the other side is not counted.
CreatablePerSide(es, side, notional) ==
    /\ es[side].phase = "none" /\ notional >= MinNotional /\ notional > 0
    /\ Cardinality(Occupied(es)) < config.max_active
    /\ PositionOn(side) + RestingNotional(es, {side}) + notional <= config.max_total
    /\ Configured(config.max_order) /\ notional <= config.max_order

\* The limits of reconcile_grid_plan, the total being that of the side as well.
Creatable(es, side, notional) ==
    /\ es[side].phase = "none" /\ notional >= MinNotional /\ notional > 0
    /\ Cardinality(Occupied(es)) < config.max_active
    /\ PositionOn(side) + RestingNotional(es, {side}) + notional <= config.max_total
    /\ Total + RestingNotional(es, EntrySides) + notional <= config.max_total
    /\ Configured(config.max_order) /\ notional <= config.max_order

CreateEntry(es, side, notional) ==
    IF Creatable(es, side, notional)
    THEN [es EXCEPT ![side] = [phase |-> "resting", notional |-> notional]]
    ELSE es

\* update_processed_data and determine_executor_actions: buys before sells.
CanaryTick ==
    \E buy \in PlanQuotes, sell \in PlanQuotes :
      /\ InitialAccountCheck
      /\ entries' = IF CanaryPaused THEN entries
                    ELSE CreateEntry(CreateEntry(entries, "buy", buy * config.order_scale),
                                     "sell", sell * config.order_scale)
      /\ orders_created' = orders_created + Cardinality(Occupied(entries') \ Occupied(entries))
      /\ orders_created' <= MaxCreated
      /\ UNCHANGED <<config, connector, holding>>

-----------------------------------------------------------------------------
(* What happens meanwhile *)

ConfigUpdated ==
    /\ \E file \in Files : Accepted(file) /\ config' = Updated(config, file)
    /\ UNCHANGED <<connector, holding, entries, checked, blocker, orders_created>>

Reported ==
    /\ connector' \in Connections
    /\ UNCHANGED <<config, holding, entries, checked, blocker, orders_created>>

EntryFilled(side) ==
    /\ entries[side].phase = "resting"
    /\ entries' = [entries EXCEPT ![side].phase = "filled"]
    /\ holding' = IF side = "buy" THEN holding + entries[side].notional
                  ELSE holding - entries[side].notional
    /\ holding' \in -MaxHolding..MaxHolding
    /\ UNCHANGED <<config, connector, checked, blocker, orders_created>>

EntryEnded(side) ==
    /\ entries[side].phase # "none"
    /\ entries' = [entries EXCEPT ![side] = [phase |-> "none", notional |-> 0]]
    /\ holding' = CASE entries[side].phase = "resting" -> holding
                    [] entries[side].phase = "filled" /\ side = "buy"
                         -> holding - entries[side].notional
                    [] OTHER -> holding + entries[side].notional
    /\ holding' \in -MaxHolding..MaxHolding
    /\ UNCHANGED <<config, connector, checked, blocker, orders_created>>

CanaryInit ==
    /\ config \in {file \in Files : file.environment = "mainnet" /\ Accepted(file)}
    /\ connector \in Connections
    /\ holding \in Holdings
    /\ entries = [s \in EntrySides |-> [phase |-> "none", notional |-> 0]]
    /\ checked = FALSE /\ blocker = "" /\ orders_created = 0

CanaryNext ==
    \/ CanaryTick \/ ConfigUpdated \/ Reported
    \/ \E side \in EntrySides : EntryFilled(side) \/ EntryEnded(side)

CanarySpec == CanaryInit /\ [][CanaryNext]_canaryVars

-----------------------------------------------------------------------------
Created == {s \in EntrySides : entries[s].phase = "none" /\ entries'[s].phase = "resting"}

\* Whatever files have changed the configuration that was validated, and with
\* whatever rests or is held by then: an entry is created on mainnet only with
\* every approval given, within the budget of an order, and so that all that
\* rests and is held, stopped out together, loses no more than the loss budget.
CanaryWithinBudget ==
    [][\A s \in Created :
         /\ connector.environment = "mainnet" /\ Consistent(config, "mainnet")
         /\ config.allow_mainnet_trading /\ config.execution_enabled /\ config.acknowledged
         /\ config.account_verified
         /\ entries'[s].notional <= config.max_order
         /\ (Total + RestingNotional(entries', EntrySides)) * config.stop_loss <= 100 * config.max_loss
      ]_canaryVars

\* "Any existing BTC position, open order, or other active bot is a hard stop
\* until explicitly resolved and acknowledged." (reports/mainnet_canary.md):
\* an account found occupied at the start creates no entry.
ExistingAccountStops == blocker # "" => orders_created = 0
================================================================================
