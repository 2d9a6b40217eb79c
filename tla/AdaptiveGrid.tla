----------------------------- MODULE AdaptiveGrid -----------------------------
(***************************************************************************)
(* The single-market Hummingbot controller (DeriveAdaptiveGrid), which on  *)
(* every tick of its clock reconciles the executors that are running with  *)
(* the latest GridPlan (reconcile_grid_plan), together with what it runs   *)
(* on: the plan it tails, the market, the executors, which fill, exit,     *)
(* fail and stop by themselves, and the connector's report of the account  *)
(* position.                                                               *)
(*                                                                         *)
(* Levels are numbered: 1..Buys are buy_0, buy_1, ... and the rest are     *)
(* sell_0, sell_1, ...; this is also the order the controller goes through *)
(* them.  Prices are in ticks, and every order has the same notional, the  *)
(* unit of the exposure limits.  Clocks are kept as ages, which stop at    *)
(* the last value that is told from a larger one.                          *)
(***************************************************************************)
EXTENDS Integers, FiniteSets

CONSTANTS
    Slots,                       \* the places for executors
    Buys, Sells,                 \* execution_max_levels_per_side, each side
    MaxExecutors, MaxLevels,     \* max_active_executors, max_active_grid_levels
    MaxSide, MaxTotal,           \* max_side_ and max_total_position_notional
    Collateral,                  \* what the balance less its buffer carries
    MinLifetime, MaxLifetime,    \* minimum_ and maximum_order_lifetime_seconds
    ReplaceInterval,             \* minimum_replace_interval_seconds
    Tolerance,                   \* refresh_price_tolerance_bps, in ticks
    StaleTimeout,                \* stale_plan_timeout_seconds
    MaxErrors, PauseSeconds,     \* max_consecutive_order_errors, order_error_pause_seconds
    CancelOnPause,               \* cancel_orders_on_pause
    KillSwitch,                  \* manual_kill_switch
    Preserve, Suppress,          \* preserve_existing_quotes_ and suppress_new_entries_
                                 \* during_soft_pause_confirmation
    Quotes,                      \* the best bids and asks of the model
    Shapes,                      \* the plans of the model, but for their age
    PositionLag,                 \* whether account_positions may lag behind fills
    MaxPosition                  \* bound: how far the position goes

Levels == 1..(Buys + Sells)

ASSUME LimitsAssumption ==
    /\ {Buys, Sells, MaxExecutors, MaxLevels, MaxSide, MaxTotal, Collateral} \subseteq Nat
    /\ MaxPosition \in Nat
    /\ {MinLifetime, MaxLifetime, ReplaceInterval, Tolerance, StaleTimeout} \subseteq Nat
    /\ MaxErrors \in Nat \ {0} /\ PauseSeconds \in Nat
    /\ {CancelOnPause, KillSwitch, Preserve, Suppress, PositionLag} \subseteq BOOLEAN

ASSUME InputsAssumption ==
    /\ IsFiniteSet(Slots) /\ Cardinality(Slots) >= MaxExecutors
    /\ Quotes \subseteq {q \in [bid : Nat, ask : Nat] : 0 < q.bid /\ q.bid < q.ask}
    /\ \A s \in Shapes : /\ {s.ok, s.significant, s.soft} \subseteq BOOLEAN
                         /\ s.prices \in [Levels -> Nat]

VARIABLES
    executors,                   \* the executors by slot
    plan,                        \* _latest_plan
    market,                      \* best bid and ask
    ready,                       \* health.ready_for_new_entries
    position,                    \* the account's net position
    reported,                    \* the net position account_positions reports
    consecutive_order_errors,    \* _consecutive_order_errors
    pause_left                   \* the seconds to _order_error_pause_until

vars == <<executors, plan, market, ready, position, reported,
          consecutive_order_errors, pause_left>>

NoPause == -1                    \* _order_error_pause_until = 0.0

Closed == {"failed", "profit", "stopped"}
Phases == {"none", "resting", "filled"} \union Closed

Executor(phase, level, price, age, stopping) ==
    [phase |-> phase, level |-> level, price |-> price, age |-> age, stopping |-> stopping]

Executors == [phase : Phases, level : Levels \union {0}, price : Nat,
              age : 0..MaxLifetime, stopping : BOOLEAN]

\* What is left of an executor that has closed is how it did; and once that
\* is recorded (_seen_terminal_ids) nothing.
Terminal(phase) == Executor(phase, 0, 0, 0, FALSE)

\* ok: enabled, valid and not in PAUSE; significant: plan_change_significant;
\* soft: a pause candidate of category STRATEGY_REGIME that is not confirmed;
\* prices: the theoretical price of each level, 0 for a level the plan lacks or
\* whose amount is below the minimum of the exchange.
Plans == [ok : BOOLEAN, significant : BOOLEAN, soft : BOOLEAN,
          age : 0..(StaleTimeout + 1), prices : [Levels -> Nat]]

\* A missing plan pauses like a disabled one.
NoPlan == [ok |-> FALSE, significant |-> FALSE, soft |-> FALSE, age |-> 0,
           prices |-> [l \in Levels |-> 0]]

Buy(level) == level <= Buys

Resting == {e \in Slots : executors[e].phase = "resting"}
Active == {e \in Slots : executors[e].phase \in {"resting", "filled"}}
LevelsOf(S) == {executors[e].level : e \in S}
RestingBuys == {e \in Resting : Buy(executors[e].level)}
RestingSells == {e \in Resting : ~Buy(executors[e].level)}

Positive(n) == IF n > 0 THEN n ELSE 0
Least(m, n) == IF m < n THEN m ELSE n
Distance(m, n) == IF m < n THEN n - m ELSE m - n

Init ==
    /\ executors = [e \in Slots |-> Terminal("none")]
    /\ plan = NoPlan
    /\ market \in Quotes
    /\ ready = FALSE
    /\ position = 0 /\ reported = 0
    /\ consecutive_order_errors = 0
    /\ pause_left = NoPause

-----------------------------------------------------------------------------
(* Reconciliation *)

\* quantize_level moves a price that would take to one tick off the touch.
MakerPrice(level, price) ==
    IF Buy(level)
    THEN IF price < market.ask THEN price
         ELSE IF market.ask > 1 THEN market.ask - 1 ELSE market.bid
    ELSE IF price > market.bid THEN price ELSE market.bid + 1

\* The quantized price of a level, 0 when the plan has none for it.
DesiredPrice(level) ==
    IF plan.prices[level] = 0 THEN 0 ELSE MakerPrice(level, plan.prices[level])

Crossing(level, price) ==
    IF Buy(level) THEN price >= market.ask ELSE price <= market.bid

\* A plausible mistake: the errors are never forgotten.
NeverForgiven == FALSE

\* Once the pause after too many errors has run out and the health is good the
\* errors are forgotten, before anything else is looked at.
Forgiven == pause_left = 0 /\ ready

ErrorsNow == IF Forgiven THEN 0 ELSE consecutive_order_errors
PauseNow == IF Forgiven THEN NoPause ELSE pause_left

\* _pause_reason gives a reason.
Paused ==
    \/ KillSwitch
    \/ plan.age > StaleTimeout
    \/ ~plan.ok
    \/ ErrorsNow >= MaxErrors /\ PauseNow > 0
    \/ ~ready

\* Of several unfilled executors of a level all but the first are stopped.
Duplicate(e) == e # CHOOSE f \in Resting : executors[f].level = executors[e].level

\* A plausible mistake: the order has to be old enough to be stopped at all.
StopDueWhenOld(e) ==
    LET x == executors[e]
        desired == DesiredPrice(x.level)
    IN  /\ x.age >= MinLifetime
        /\ \/ desired = 0
           \/ Crossing(x.level, x.price)
           \/ x.age >= MaxLifetime
           \/ plan.significant /\ Distance(x.price, desired) >= Tolerance

\* An order is taken back when its level is no longer desired or its price
\* would take; when it is old or materially off a changed plan, only after its
\* minimum lifetime and the replacement interval.  While a pause is being
\* confirmed only an order that would take is taken back, if so configured.
StopDue(e) ==
    LET x == executors[e]
        desired == DesiredPrice(x.level)
        refresh == \/ x.age >= MaxLifetime
                   \/ plan.significant /\ Distance(x.price, desired) >= Tolerance
    IN  \/ Crossing(x.level, x.price)
        \/ /\ ~(plan.soft /\ Preserve)
           /\ \/ desired = 0
              \/ refresh /\ x.age >= MinLifetime /\ x.age >= ReplaceInterval

\* A plausible mistake: a pause leaves the orders that would be kept.
StopsUnpaused == {e \in Resting : Duplicate(e) \/ (~Paused /\ StopDue(e))}

\* The executors the reconciliation asks to stop.
Stops ==
    {e \in Resting : \/ Duplicate(e)
                     \/ IF Paused THEN CancelOnPause \/ KillSwitch ELSE StopDue(e)}

\* A plausible mistake: a filled executor leaves its level to a new entry.
MissingUnfilled == {l \in Levels : DesiredPrice(l) # 0} \ LevelsOf(Resting)

\* The levels without an executor: a filled one is not a missing entry.
Missing == {l \in Levels : DesiredPrice(l) # 0} \ LevelsOf(Active)

OnSide(level, S) == {m \in S : Buy(m) = Buy(level)}

\* What rests on the side of a level, and the position on that side.
PendingOn(level) == Cardinality(IF Buy(level) THEN RestingBuys ELSE RestingSells)
HeldOn(level) == Positive(IF Buy(level) THEN reported ELSE -reported)

\* A plausible mistake: the orders that rest are left out of the exposure.
AdmittedUnpended(level, earlier) ==
    /\ Cardinality(earlier) < Least(MaxExecutors - Cardinality(Active),
                                    MaxLevels - Cardinality(LevelsOf(Active)))
    /\ HeldOn(level) + Cardinality(OnSide(level, earlier)) + 1 <= MaxSide
    /\ Distance(0, reported) + Cardinality(earlier) + 1 <= MaxTotal
    /\ Cardinality(Resting) + Cardinality(earlier) + 1 <= Collateral
    /\ ~(plan.soft /\ Suppress)

\* A plausible mistake: the slots are counted once, for all creates of a tick.
AdmittedWhileSlots(level, earlier) ==
    /\ Cardinality(Active) < MaxExecutors
    /\ Cardinality(LevelsOf(Active)) < MaxLevels
    /\ HeldOn(level) + PendingOn(level) + Cardinality(OnSide(level, earlier)) + 1 <= MaxSide
    /\ Distance(0, reported) + Cardinality(Resting) + Cardinality(earlier) + 1 <= MaxTotal
    /\ Cardinality(Resting) + Cardinality(earlier) + 1 <= Collateral
    /\ ~(plan.soft /\ Suppress)

\* Whether a level is created after the earlier ones of the same tick: slots,
\* side and total exposure, collateral, no pause being confirmed.
Admitted(level, earlier) ==
    /\ Cardinality(earlier) < Least(MaxExecutors - Cardinality(Active),
                                    MaxLevels - Cardinality(LevelsOf(Active)))
    /\ HeldOn(level) + PendingOn(level) + Cardinality(OnSide(level, earlier)) + 1 <= MaxSide
    /\ Distance(0, reported) + Cardinality(Resting) + Cardinality(earlier) + 1 <= MaxTotal
    /\ Cardinality(Resting) + Cardinality(earlier) + 1 <= Collateral
    /\ ~(plan.soft /\ Suppress)

\* The levels to create: nothing is created in a tick that pauses or stops.
IsCreates(C) ==
    /\ C \subseteq Missing
    /\ IF Paused \/ Stops # {}
       THEN C = {}
       ELSE \A l \in Missing : l \in C <=> Admitted(l, {m \in C : m < l})

-----------------------------------------------------------------------------
(* The controller's tick *)

Ended(phase) == {e \in Slots : executors[e].phase = phase}

TooMany(errors) == errors >= MaxErrors

PausedAgain(pause) == IF PauseSeconds > pause THEN PauseSeconds ELSE pause

\* The executors that have closed are recorded in some order.  A take profit
\* forgets the errors; each failure counts, and arms the pause when there are
\* too many: `last` counts the failures after the last profit.
RecordEnds(errors, pause) ==
    LET failures == Cardinality(Ended("failed"))
        profits == Cardinality(Ended("profit"))
    IN  \E last \in 0..failures, armed \in BOOLEAN :
          LET first == failures - last
              late == last > 0 /\ TooMany(last)
              early == first > 0 /\ TooMany(errors + first)
          IN  /\ profits = 0 => first = 0 /\ armed = (last > 0 /\ TooMany(errors + last))
              /\ profits > 0 => (late => armed) /\ (armed => late \/ early)
              /\ profits = 1 /\ early => armed
              /\ consecutive_order_errors' = IF profits = 0 THEN errors + last ELSE last
              /\ pause_left' = IF armed THEN PausedAgain(pause) ELSE pause

\* determine_executor_actions, as it is carried out: the stops are requested
\* once each (_pending_stop_ids), the creates take free places.
Carried(e, stops, creates, at) ==
    LET x == executors[e]
    IN  IF e \in stops
        THEN Executor(x.phase, x.level, x.price, x.age, TRUE)
        ELSE IF e \in {at[l] : l \in creates}
        THEN LET l == CHOOSE m \in creates : at[m] = e
             IN  Executor("resting", l, DesiredPrice(l), 0, FALSE)
        ELSE IF x.phase \in Closed THEN Terminal("none") ELSE x

\* One tick: the errors are forgiven, the plan reconciled, the closed
\* executors recorded, and then the actions of that reconciliation sent.
Tick ==
    /\ \E creates \in SUBSET Levels :
          /\ IsCreates(creates)
          /\ \E at \in [creates -> Slots \ Active] :
                /\ \A l, m \in creates : at[l] = at[m] => l = m
                /\ executors' = [e \in Slots |-> Carried(e, Stops, creates, at)]
    /\ RecordEnds(ErrorsNow, PauseNow)
    /\ UNCHANGED <<plan, market, ready, position, reported>>

\* Quantizing raises: the reconciliation fails closed, with no stops either.
TickRaises ==
    /\ ~Paused
    /\ executors' = [e \in Slots |-> IF executors[e].phase \in Closed
                                     THEN Terminal("none") ELSE executors[e]]
    /\ RecordEnds(ErrorsNow, PauseNow)
    /\ UNCHANGED <<plan, market, ready, position, reported>>

-----------------------------------------------------------------------------
(* What the controller runs on *)

\* A second passes.
Advance ==
    /\ executors' = [e \in Slots |->
          LET x == executors[e]
          IN  IF x.phase = "resting"
              THEN Executor(x.phase, x.level, x.price, Least(x.age + 1, MaxLifetime), x.stopping)
              ELSE x]
    /\ plan' = [ok |-> plan.ok, significant |-> plan.significant, soft |-> plan.soft,
                age |-> Least(plan.age + 1, StaleTimeout + 1), prices |-> plan.prices]
    /\ pause_left' = IF pause_left > 0 THEN pause_left - 1 ELSE pause_left
    /\ UNCHANGED <<market, ready, position, reported, consecutive_order_errors>>

WritePlan ==
    /\ \E s \in Shapes :
          plan' = [ok |-> s.ok, significant |-> s.significant, soft |-> s.soft, age |-> 0,
                   prices |-> s.prices]
    /\ UNCHANGED <<executors, market, ready, position, reported,
                   consecutive_order_errors, pause_left>>

MarketMoves ==
    /\ market' \in Quotes
    /\ UNCHANGED <<executors, plan, ready, position, reported,
                   consecutive_order_errors, pause_left>>

HealthChanges ==
    /\ ready' = ~ready
    /\ UNCHANGED <<executors, plan, market, position, reported,
                   consecutive_order_errors, pause_left>>

\* The position changes, and its report at once or later.
Moved(change) ==
    /\ Distance(0, position + change) <= MaxPosition
    /\ position' = position + change
    /\ reported' = IF PositionLag THEN reported ELSE reported + change

Signed(level) == IF Buy(level) THEN 1 ELSE -1

\* An order fills, even one that is being stopped.
Fill(e) ==
    LET x == executors[e]
    IN  /\ x.phase = "resting"
        /\ executors' = [executors EXCEPT ![e] = Executor("filled", x.level, 0, 0, x.stopping)]
        /\ Moved(Signed(x.level))
        /\ UNCHANGED <<plan, market, ready, consecutive_order_errors, pause_left>>

\* A filled executor exits: at its take profit, or otherwise.
Exit(e, phase) ==
    LET x == executors[e]
    IN  /\ x.phase = "filled"
        /\ executors' = [executors EXCEPT ![e] = Terminal(phase)]
        /\ Moved(-Signed(x.level))
        /\ UNCHANGED <<plan, market, ready, consecutive_order_errors, pause_left>>

\* An executor fails: its order was refused, or its exit, and the position stays.
Fail(e) ==
    /\ e \in Active
    /\ executors' = [executors EXCEPT ![e] = Terminal("failed")]
    /\ UNCHANGED <<plan, market, ready, position, reported,
                   consecutive_order_errors, pause_left>>

\* A stop is carried out before the order fills.
Stopped(e) ==
    /\ executors[e].phase = "resting" /\ executors[e].stopping
    /\ executors' = [executors EXCEPT ![e] = Terminal("stopped")]
    /\ UNCHANGED <<plan, market, ready, position, reported,
                   consecutive_order_errors, pause_left>>

PositionReport ==
    /\ reported # position
    /\ reported' = position
    /\ UNCHANGED <<executors, plan, market, ready, position,
                   consecutive_order_errors, pause_left>>

ExecutorStep(e) ==
    Fill(e) \/ Exit(e, "profit") \/ Exit(e, "stopped") \/ Fail(e) \/ Stopped(e)

Next ==
    \/ Tick \/ TickRaises
    \/ Advance \/ WritePlan \/ MarketMoves \/ HealthChanges \/ PositionReport
    \/ \E e \in Slots : ExecutorStep(e)

Spec == Init /\ [][Next]_vars
-----------------------------------------------------------------------------
(* Properties *)

\* The variables stay in their domains; a place without an executor, or whose
\* executor has closed, keeps nothing of it.
TypeOK ==
    /\ executors \in [Slots -> Executors]
    /\ \A e \in Slots : executors[e].level = 0 <=> e \notin Active
    /\ plan \in Plans
    /\ market \in Quotes
    /\ ready \in BOOLEAN
    /\ position \in Int /\ reported \in Int
    /\ consecutive_order_errors \in Nat
    /\ pause_left \in {NoPause} \union (0..PauseSeconds)

\* No level ever has two executors, whatever fills, exits, fails and stops
\* between two ticks: an entry on its way out, or a filled one, keeps its
\* level until it has closed ("A filled executor is not treated as a missing
\* entry").
OneEntryPerLevel ==
    \A e, f \in Active : executors[e].level = executors[f].level => e = f

\* The caps on executors and levels, and the collateral, hold at all times.
CapsRespected ==
    /\ Cardinality(Active) <= MaxExecutors
    /\ Cardinality(LevelsOf(Active)) <= MaxLevels
    /\ Cardinality(Resting) <= Collateral

\* What the account would hold if everything that rests on a side filled.
LongExposure == Positive(position) + Cardinality(RestingBuys)
ShortExposure == Positive(-position) + Cardinality(RestingSells)
TotalExposure == Distance(0, position) + Cardinality(Resting)

Exits == \E e \in Slots : executors[e].phase = "filled" /\ executors'[e].phase \in Closed

\* With an account report that does not lag, an exposure passes its limit only
\* when an executor exits, and with it a position goes that had netted another:
\* never by an entry or a fill.
EntriesStep ==
    \/ Exits
    \/ /\ LongExposure' <= LongExposure \/ LongExposure' <= MaxSide
       /\ ShortExposure' <= ShortExposure \/ ShortExposure' <= MaxSide
       /\ TotalExposure' <= TotalExposure \/ TotalExposure' <= MaxTotal
EntriesWithinLimits == [][EntriesStep]_vars

\* After a tick no order rests that would take, unless it is being stopped:
\* neither age nor the replacement interval nor, where it takes the orders back
\* (cancel_orders_on_pause), a pause delays that.
MakerStep ==
    Tick => \A e \in Slots : \/ executors'[e].phase # "resting"
                            \/ ~Crossing(executors'[e].level, executors'[e].price)
                            \/ executors'[e].stopping
MakerSafety == [][MakerStep]_vars

NewEntry(e) == executors'[e].phase = "resting" /\ executors[e].phase # "resting"

\* "After max_consecutive_order_errors terminal failures, new entry creation is
\* paused for order_error_pause_seconds": no entry while the pause runs.  An
\* exit at a profit forgets the errors, and with them the pause.
ErrorPauseStep == pause_left > 0 => \A e \in Slots : ~NewEntry(e)
ErrorPauseHolds == [][ErrorPauseStep]_vars

\* The strategy ticks, time passes, and an executor that is to stop does.
Fairness ==
    /\ WF_vars(Tick) /\ WF_vars(Advance)
    /\ \A e \in Slots : WF_vars(Stopped(e))
FairSpec == Spec /\ Fairness

\* When the plan stays paused, or its writer stops, every order is taken back
\* or has filled.
PausedQuotesWithdrawn ==
    <>[](~plan.ok \/ plan.age > StaleTimeout) => <>[](Resting = {})

\* When no executor fails any more and the health stays good, the errors are
\* forgotten for good, and entries with them no longer held back.
ErrorPauseEnds ==
    <>[](ready /\ Ended("failed") = {}) => <>[](consecutive_order_errors < MaxErrors)
=============================================================================
