------------------------------ MODULE ReplayEngine ------------------------------
(***************************************************************************)
(* The offline replay of one strategy under one fill model                 *)
(* (evaluation.replay.ReplayEngine): every snapshot first fills what has   *)
(* rested before it, then closes positions at their take profits, then has *)
(* a plan made with the position that results, and cancels or, when        *)
(* nothing was cancelled, creates entries.                                 *)
(*                                                                         *)
(* Plans are arbitrary (the stages that make them have modules of their    *)
(* own).  Theoretical prices are in halves of the price increment, quoted  *)
(* and order prices in increments; fees, and the adverse fill buffer, 0 as *)
(* configured, are left out.                                               *)
(***************************************************************************)
EXTENDS Integers, FiniteSetsExt, SequencesExt

CONSTANTS
    BuyRungs, SellRungs,         \* levels of each side; the buys come first
    FillModels,                  \* fill models to run under
    Snapshots,                   \* best_bid and best_ask of snapshots
    Targets,                     \* ok, mode, center, and price and size by level
    Gaps,                        \* seconds between snapshots; some have the same timestamp
    Nudge,                       \* a tenth of a percent of a price
    MinRest, MaxRest,            \* minimum_ and maximum_order_lifetime_seconds
    PriceTolerance,              \* refresh_price_tolerance_bps, in increments
    SizeTolerance,               \* refresh_amount_tolerance_pct
    MaxActive,                   \* max_active_levels
    MaxPositions, MaxSidePositions,\* max_total_ and max_side_position_notional
    MaxReplayTime                \* bound: seconds

ReplayLevels == 1..(BuyRungs + SellRungs)

ASSUME ReplayAssumption ==
    /\ BuyRungs \in Nat /\ SellRungs \in Nat
    /\ \A plan \in Targets :
          /\ plan.center \in Nat
          /\ \A l \in ReplayLevels : plan.levels[l].price \in Nat /\ plan.levels[l].size \in Nat
    /\ FillModels \subseteq {"conservative_cross_through", "touch_optimistic", "trade_based"}
    /\ Snapshots \subseteq {q \in [bid : Nat, ask : Nat] : 0 < q.bid /\ q.bid < q.ask}
    /\ Gaps \subseteq Nat /\ Nudge \in Nat \ {0}
    /\ {MinRest, MaxRest, PriceTolerance, SizeTolerance, MaxActive, MaxPositions,
        MaxSidePositions, MaxReplayTime} \subseteq Nat

VARIABLES
    fill_model,
    seconds,                     \* timestamp_seconds of the last snapshot
    resting,                     \* orders by level
    positions,                   \* positions by level
    position_base,
    realized_gross,
    high_water,
    completed,                   \* levels whose take profits filled at this timestamp
    spent                        \* history: what the buys cost less what the sells brought

replayVars == <<fill_model, seconds, resting, positions, position_base, realized_gross,
                high_water, completed, spent>>

NoOrder == [price |-> 0, size |-> 0, created |-> 0, mode |-> "none", tp |-> 0]
NoPosition == [price |-> 0, size |-> 0, since |-> 0, tp |-> 0]

SideOf(level) == IF level <= BuyRungs THEN "buy" ELSE "sell"
ExitOf(level) == IF level <= BuyRungs THEN "sell" ELSE "buy"
Sign(level) == IF level <= BuyRungs THEN 1 ELSE -1

Held(book) == {l \in ReplayLevels : book[l].size # 0}

\* What the levels of S have of a number in all.
SumOver(S, number) ==
    LET sum[n \in 0..(BuyRungs + SellRungs)] ==
            IF n = 0 THEN 0 ELSE sum[n - 1] + (IF n \in S THEN number[n] ELSE 0)
    IN  sum[BuyRungs + SellRungs]

ReplayInit ==
    /\ fill_model \in FillModels
    /\ seconds = 0
    /\ resting = [l \in ReplayLevels |-> NoOrder]
    /\ positions = [l \in ReplayLevels |-> NoPosition]
    /\ position_base = 0 /\ realized_gross = 0 /\ high_water = 0
    /\ completed = {}
    /\ spent = 0

\* Of the orders or positions by level: what they add to the position, what they cost,
\* what they bring at their take profits, and what is gained by that.
Bought(book) == [l \in ReplayLevels |-> Sign(l) * book[l].size]
Cost(book) == [l \in ReplayLevels |-> Sign(l) * book[l].price * book[l].size]
Proceeds(book) == [l \in ReplayLevels |-> Sign(l) * book[l].tp * book[l].size]
Gain(book) == [l \in ReplayLevels |-> Sign(l) * (book[l].tp - book[l].price) * book[l].size]

\* bbo_fill_condition
BboFills(side, price, quote) ==
    CASE fill_model = "conservative_cross_through" ->
            IF side = "buy" THEN quote.ask < price ELSE quote.bid > price
      [] fill_model = "touch_optimistic" ->
            IF side = "buy" THEN quote.ask <= price ELSE quote.bid >= price
      [] fill_model = "trade_based" -> FALSE

\* _quantize_price, half up.
Quantized(theoretical) == (theoretical + 1) \div 2

\* A plausible mistake: the inner level is taken at any price.
AdjacentTpAnywhere(plan, level, entry) ==
    Quantized(IF level \notin {1, BuyRungs + 1} THEN plan.levels[level - 1].price ELSE plan.center)

\* _adjacent_tp: the next level inwards or the center, if that is at a profit.
ReplayTp(plan, level, entry) ==
    LET inner == IF level \notin {1, BuyRungs + 1} THEN plan.levels[level - 1].price ELSE 0
        target == IF inner # 0 THEN inner ELSE plan.center
    IN  IF target = 0 \/ Sign(level) * (target - 2 * entry) <= 0
        THEN entry + Sign(level) * Nudge
        ELSE Quantized(target)

\* The price of a level, which must not take.
NudgedPrice(level, theoretical, quote) ==
    LET price == Quantized(theoretical)
    IN  IF SideOf(level) = "buy"
        THEN IF price >= quote.ask THEN quote.ask - 1 ELSE price
        ELSE IF price <= quote.bid THEN quote.bid + 1 ELSE price

\* _desired_order: NoOrder for a level without a price, or of too little.
Desired(plan, level, quote, time) ==
    LET at == NudgedPrice(level, plan.levels[level].price, quote)
    IN  IF plan.levels[level].price = 0 \/ plan.levels[level].size = 0 \/ at <= 0
        THEN NoOrder
        ELSE [price |-> at, size |-> plan.levels[level].size, created |-> time,
              mode |-> plan.mode, tp |-> ReplayTp(plan, level, at)]

Difference(a, b) == IF a < b THEN b - a ELSE a - b

\* An entry that is no longer wanted, or wanted otherwise and old enough.
Cancelled(plan, quote, desired, order, level, time) ==
    LET age == time - order.created
        crossing == IF SideOf(level) = "buy" THEN order.price >= quote.ask
                                             ELSE order.price <= quote.bid
    IN  \/ ~plan.ok
        \/ desired = NoOrder
        \/ /\ age >= MinRest
           /\ \/ order.mode # plan.mode
              \/ age >= MaxRest
              \/ Difference(order.price, desired.price) > PriceTolerance
              \/ 100 * Difference(order.price * order.size, desired.price * desired.size)
                   > SizeTolerance * order.price * order.size
              \/ crossing

\* What is created of what is desired, level by level, within the limits; the
\* position counts with its size, whichever side it is of.
AdmittedLevels(desired, occupied, still, open, base, mid) ==
    LET Notional == [l \in ReplayLevels |-> 2 * resting[l].price * resting[l].size]
        NewNotional == [l \in ReplayLevels |-> 2 * desired[l].price * desired[l].size]
        Pending(new) == SumOver(still, Notional) + SumOver(new, NewNotional)
        Exposure(new, l) == Difference(base, 0) * mid + Pending(new) + NewNotional[l]
        Add(new, l) ==
            IF \/ desired[l] = NoOrder \/ l \in occupied
               \/ Cardinality(still) + Cardinality(new) + Cardinality(open) >= MaxActive
               \/ Exposure(new, l) > MaxPositions \/ Exposure(new, l) > MaxSidePositions
            THEN new ELSE new \union {l}
        admitted[n \in 0..(BuyRungs + SellRungs)] ==
            IF n = 0 THEN {} ELSE Add(admitted[n - 1], n)
    IN  admitted[BuyRungs + SellRungs]

\* What the open positions gain or lose at the middle of the book, in halves.
Unrealized(book, mid) ==
    SumOver(Held(book),
            [l \in ReplayLevels |-> Sign(l) * (mid - 2 * book[l].price) * book[l].size])

\* Entries, and take profits, that are older than the snapshot and that it fills.
FilledEntries(quote, time) ==
    {l \in Held(resting) : /\ time > resting[l].created
                          /\ BboFills(SideOf(l), resting[l].price, quote)}

ClosedPositions(quote, time) ==
    {l \in Held(positions) : /\ time > positions[l].since
                             /\ BboFills(ExitOf(l), positions[l].tp, quote)}

\* The positions once those are filled and closed.
Book(filled, closed, time) ==
    [l \in ReplayLevels |->
        IF l \in filled
        THEN [price |-> resting[l].price, size |-> resting[l].size, since |-> time,
              tp |-> resting[l].tp]
        ELSE IF l \in closed THEN NoPosition ELSE positions[l]]

\* The profit the high water mark is of, in halves.
Peak(gross, book, mid) ==
    LET net == 2 * gross + Unrealized(book, mid)
    IN  IF net > high_water THEN net ELSE high_water

\* One snapshot of the evaluation window.
SnapshotStep(quote, plan, gap) ==
    LET time == seconds + gap
        mid == quote.bid + quote.ask
        filled == FilledEntries(quote, time)
        closed == ClosedPositions(quote, time)
        book == Book(filled, closed, time)
        base == position_base + SumOver(filled, Bought(resting))
                - SumOver(closed, Bought(positions))
        gross == realized_gross + SumOver(closed, Gain(positions))
        desired == [l \in ReplayLevels |-> Desired(plan, l, quote, time)]
        still == Held(resting) \ filled
        cancelled == {l \in still : Cancelled(plan, quote, desired[l], resting[l], l, time)}
        done == closed \union (IF gap = 0 THEN completed ELSE {})
        created == IF cancelled # {} THEN {}
                   ELSE AdmittedLevels(desired, still \union Held(book) \union done,
                                         still, Held(book), base, mid)
    IN  /\ seconds' = time
        /\ resting' = [l \in ReplayLevels |->
                        IF l \in created THEN desired[l]
                        ELSE IF l \in still \ cancelled THEN resting[l] ELSE NoOrder]
        /\ positions' = book
        /\ position_base' = base
        /\ realized_gross' = gross
        /\ high_water' = Peak(gross, book, mid)
        /\ completed' = done
        /\ spent' = spent + SumOver(filled, Cost(resting))
                   - SumOver(closed, Proceeds(positions))
        /\ UNCHANGED fill_model

ReplayNext ==
    \E quote \in Snapshots, plan \in Targets, gap \in Gaps :
        seconds + gap <= MaxReplayTime /\ SnapshotStep(quote, plan, gap)

ReplaySpec == ReplayInit /\ [][ReplayNext]_replayVars

-----------------------------------------------------------------------------
(* Properties *)

\* The inventory that is fed to the next plan is that of the positions still
\* open, every tick of what the fills moved is in the realized profit or in
\* their entry prices, and no cycle closes at a loss, wherever the plan moves
\* its levels and however prices round (run, _adjacent_tp): what a report says
\* of the realized PnL of a strategy.
ReplayBalances ==
    /\ position_base = SumOver(Held(positions), Bought(positions))
    /\ realized_gross = SumOver(Held(positions), Cost(positions)) - spent
    /\ realized_gross >= 0
    /\ \A l \in Held(positions) : Sign(l) * (positions[l].tp - positions[l].price) >= 0
================================================================================
