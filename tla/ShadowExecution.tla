---------------------------- MODULE ShadowExecution ----------------------------
(***************************************************************************)
(* The paper trading of one trading pair (shadow.ShadowExecutionEngine, as *)
(* ShadowSession.run_cycle drives it).  A cycle receives a market frame,   *)
(* fills the orders its trades or its book are evidence for, one after     *)
(* another (here in any order; the code goes by their creation), each into *)
(* the ledger (PositionLedger), gives every filled entry a take profit,    *)
(* marks the position, and then reconciles the entries with the plan of    *)
(* the same cycle by the rules of the live controller (AdaptiveGrid).  The *)
(* plan and the levels the portfolio governor allows are arbitrary.        *)
(*                                                                         *)
(* A place holds an entry and, once it has filled, its exit.  Every order  *)
(* has one unit, which is also the unit of the limits; prices are in       *)
(* ticks; a frame comes every second and a trade has an age in seconds.    *)
(***************************************************************************)
EXTENDS PositionLedger, FiniteSets

CONSTANTS
    Slots,                       \* the places for entries
    Buys, Sells,                 \* execution_max_levels_per_side, each side
    MaxExecutors, MaxLevels,     \* max_active_executors, max_active_grid_levels
    MaxSide, MaxTotal,           \* max_side_ and max_total_position_notional
    Collateral,                  \* what the paper equity less its buffer carries
    MinLifetime, MaxLifetime,    \* minimum_ and maximum_order_lifetime_seconds
    ReplaceInterval,             \* minimum_replace_interval_seconds
    Tolerance,                   \* refresh_price_tolerance_bps, in ticks
    Preserve, Suppress,          \* stage13: the same for a pause being confirmed
    FillModels,                  \* the fill models of sessions
    Quotes,                      \* the best bids and asks of frames
    Tapes,                       \* the sets of trades of frames
    Shapes                       \* the plans, with their centers

Levels == 1..(Buys + Sells)

ShadowFillModel == {"conservative_trade_through", "trade_print", "estimated_queue",
                    "touch_optimistic"}

ASSUME SessionAssumption ==
    /\ {Buys, Sells, MaxExecutors, MaxLevels, MaxSide, MaxTotal, Collateral} \subseteq Nat
    /\ {MinLifetime, ReplaceInterval, Tolerance} \subseteq Nat
    /\ {Preserve, Suppress} \subseteq BOOLEAN
    /\ IsFiniteSet(Slots)
    /\ FillModels \subseteq ShadowFillModel
    /\ Quotes \subseteq {q \in [bid : Nat, ask : Nat] : 0 < q.bid /\ q.bid < q.ask}
    /\ \A tape \in Tapes : tape \subseteq [price : Nat, aggressor : {"buy", "sell"}, age : Nat]
    /\ \A s \in Shapes : /\ {s.ok, s.significant, s.soft} \subseteq BOOLEAN
                         /\ s.prices \in [Levels -> Nat] /\ s.center \in Nat
    /\ MaxLifetime \in Nat \ {0}

VARIABLES
    fill_model,                  \* config.fill_model
    entries,                     \* the entries by place, as the reconciliation sees them
    exits,                       \* take_profit_price, and how its order does
    market,                      \* the best bid and ask of the last frame
    due,                         \* the orders the frame still has to fill
    completed_cycles,            \* completed_cycles
    pc                           \* where the cycle is

vars == <<fill_model, entries, exits, market, due, completed_cycles, pc, ledgerVars>>

\* The reconciliation with a plan: the session's health is always good, and it
\* gives the notional of the position without its sign (abs).
Stage5(plan) == INSTANCE AdaptiveGrid
    WITH executors <- entries, ready <- TRUE, position <- amount,
         reported <- Size(amount), consecutive_order_errors <- 0, pause_left <- -1,
         StaleTimeout <- 0, MaxErrors <- 1, PauseSeconds <- 0, CancelOnPause <- TRUE,
         KillSwitch <- FALSE, PositionLag <- FALSE, MaxPosition <- MaxFills

Buy(level) == level <= Buys

Entry(phase, level, price, age) ==
    [phase |-> phase, level |-> level, price |-> price, age |-> age, stopping |-> FALSE]
NoEntry == Entry("none", 0, 0, 0)

Exit(status, price) == [status |-> status, price |-> price]
NoExit == Exit("none", 0)

Free == {e \in Slots : entries[e].phase = "none"}
Resting == {e \in Slots : entries[e].phase = "resting"}
Filled == {e \in Slots : entries[e].phase = "filled"}
ExitsResting == {e \in Slots : exits[e].status = "resting"}

Init ==
    /\ fill_model \in FillModels
    /\ entries = [e \in Slots |-> NoEntry]
    /\ exits = [e \in Slots |-> NoExit]
    /\ market \in Quotes
    /\ due = {}
    /\ completed_cycles = 0
    /\ pc = "idle"
    /\ LedgerInit

-----------------------------------------------------------------------------
(* process_frame *)

Opposite(side) == IF side = "buy" THEN "sell" ELSE "buy"
EntrySide(e) == IF Buy(entries[e].level) THEN "buy" ELSE "sell"

\* The order that rests in a place: the entry, or the exit of a filled one.
OrderSide(e) == IF e \in Filled THEN Opposite(EntrySide(e)) ELSE EntrySide(e)
OrderPrice(e) == IF e \in Filled THEN exits[e].price ELSE entries[e].price

\* _crosses
Crosses(side, price, quote) ==
    IF side = "buy" THEN price >= quote.ask ELSE price <= quote.bid

\* A trade of the other side's takers, later than the order, at its price or,
\* by the conservative model, past it.
Printed(e, trade, past) ==
    /\ trade.aggressor = Opposite(OrderSide(e))
    /\ trade.age <= entries[e].age
    /\ IF OrderSide(e) = "buy" THEN trade.price + past <= OrderPrice(e)
                               ELSE trade.price >= OrderPrice(e) + past

\* _trade_evidence.  No queue is ever estimated.
Evidence(e, quote, tape) ==
    CASE fill_model = "conservative_trade_through" -> \E t \in tape : Printed(e, t, 1)
      [] fill_model = "trade_print" -> \E t \in tape : Printed(e, t, 0)
      [] fill_model = "touch_optimistic" -> Crosses(OrderSide(e), OrderPrice(e), quote)
      [] fill_model = "estimated_queue" -> FALSE

\* A frame arrives.  Which orders it fills is settled by what rests now: an
\* exit created on the way has to wait for the next one.
Receive ==
    /\ pc = "idle"
    /\ \E quote \in Quotes, tape \in Tapes :
          /\ market' = quote
          /\ due' = {e \in Resting \union ExitsResting : Evidence(e, quote, tape)}
    /\ fills + Cardinality(due') <= MaxFills
    /\ entries' = [e \in Slots |->
          IF e \in Resting \union ExitsResting /\ entries[e].age < MaxLifetime
          THEN [entries[e] EXCEPT !.age = @ + 1] ELSE entries[e]]
    /\ pc' = "filling"
    /\ UNCHANGED <<fill_model, exits, completed_cycles, ledgerVars>>

\* create_order: a maker order that would take is refused, post_only.
CreatedAs(side, price) == IF Crosses(side, price, market) THEN "refused" ELSE "resting"

\* cancel_order: an entry leaves its place; an exit leaves the entry as it is.
EntriesWithout(S) == [e \in Slots |-> IF e \in S THEN NoEntry ELSE entries[e]]
ExitsWithout(S) ==
    [e \in Slots |-> IF e \notin S THEN exits[e]
                     ELSE IF e \in Filled THEN [exits[e] EXCEPT !.status = "cancelled"]
                     ELSE NoExit]

\* A plausible mistake: a refused take profit gives the place up.
FillEntryLetGo(e) ==
    LET refused == CreatedAs(Opposite(EntrySide(e)), exits[e].price) = "refused"
    IN  /\ Fill(EntrySide(e), entries[e].price, 1)
        /\ entries' = [entries EXCEPT ![e] =
              IF refused THEN NoEntry ELSE Entry("filled", @.level, @.price, 0)]
        /\ exits' = [exits EXCEPT ![e] = IF refused THEN NoExit ELSE Exit("resting", @.price)]
        /\ UNCHANGED completed_cycles

\* _fill of an entry: its take profit is created, or refused as it would take.
FillEntry(e) ==
    /\ Fill(EntrySide(e), entries[e].price, 1)
    /\ entries' = [entries EXCEPT ![e] = Entry("filled", @.level, @.price, 0)]
    /\ exits' = [exits EXCEPT ![e].status = CreatedAs(Opposite(EntrySide(e)), exits[e].price)]
    /\ UNCHANGED completed_cycles

\* _fill of an exit completes its entry, whose level is free again.
FillExit(e) ==
    /\ Fill(OrderSide(e), exits[e].price, 1)
    /\ entries' = [entries EXCEPT ![e] = NoEntry]
    /\ exits' = [exits EXCEPT ![e] = NoExit]
    /\ completed_cycles' = completed_cycles + 1

FillDue ==
    /\ pc = "filling"
    /\ \E e \in due :
          /\ due' = due \ {e}
          /\ IF e \in Filled THEN FillExit(e) ELSE FillEntry(e)
    /\ UNCHANGED <<fill_model, market, pc>>

-----------------------------------------------------------------------------
(* reconcile_pair *)

\* The price of the next level inwards, or the center of the plan.
InnerPrice(plan, level) ==
    IF level \notin {1, Buys + 1} /\ plan.prices[level - 1] # 0
    THEN plan.prices[level - 1] ELSE plan.center

\* A plausible mistake: that price is taken as it is.
AdjacentAnywhere(plan, level, entry) == InnerPrice(plan, level)

\* _adjacent_tp: it has to be at a profit, or else a little beyond the entry.
AdjacentTp(plan, level, entry) ==
    LET target == InnerPrice(plan, level)
    IN  IF target = 0 \/ IF Buy(level) THEN target <= entry ELSE target >= entry
        THEN IF Buy(level) THEN entry + 1 ELSE entry - 1
        ELSE target

\* What is created, of the levels the portfolio allows (final_create_gate).
Created(plan, allowed, creates) ==
    LET missing == Stage5(plan)!Missing
    IN  /\ creates \subseteq missing
        /\ IF Stage5(plan)!Paused \/ Stage5(plan)!Stops # {}
           THEN creates = {}
           ELSE \A l \in missing :
                   l \in creates <=> /\ l \in allowed
                                     /\ Stage5(plan)!Admitted(l, {m \in creates : m < l})

Decide ==
    /\ pc = "filling" /\ due = {}
    /\ Mark((market.bid + market.ask) \div 2)
    /\ \E shape \in Shapes, allowed, creates \in SUBSET Levels :
          LET plan == [ok |-> shape.ok, significant |-> shape.significant, soft |-> shape.soft,
                       age |-> 0, prices |-> shape.prices, center |-> shape.center]
              stops == Stage5(plan)!Stops
          IN  /\ Created(plan, allowed, creates)
              /\ \E at \in [creates -> Free] :
                    LET levelOf(e) == CHOOSE l \in creates : at[l] = e
                        price(e) == Stage5(plan)!DesiredPrice(levelOf(e))
                        new == {at[l] : l \in creates}
                    IN  /\ \A l, m \in creates : at[l] = at[m] => l = m
                        /\ entries' = [e \in Slots |->
                              IF e \in new THEN Entry("resting", levelOf(e), price(e), 0)
                              ELSE EntriesWithout(stops)[e]]
                        /\ exits' = [e \in Slots |->
                              IF e \in new
                              THEN Exit("none", AdjacentTp(plan, levelOf(e), price(e)))
                              ELSE ExitsWithout(stops)[e]]
    /\ pc' = "idle"
    /\ UNCHANGED <<fill_model, market, due, completed_cycles>>

\* shutdown cancels entries and exits; the position stays.
Shutdown ==
    /\ pc = "idle"
    /\ entries' = EntriesWithout(Resting)
    /\ exits' = ExitsWithout(Resting \union ExitsResting)
    /\ pc' = "stopped"
    /\ UNCHANGED <<fill_model, market, due, completed_cycles, ledgerVars>>

Next == Receive \/ FillDue \/ Decide \/ Shutdown

Spec == Init /\ [][Next]_vars

-----------------------------------------------------------------------------
(* Properties *)

\* The variables stay in their domains, and what is due rests.
TypeOK ==
    /\ fill_model \in FillModels
    /\ \A e \in Slots : /\ entries[e].phase \in {"none", "resting", "filled"}
                        /\ entries[e].level \in Levels \union {0}
                        /\ entries[e].price \in Nat
                        /\ entries[e].age \in 0..MaxLifetime
                        /\ exits[e].status \in {"none", "resting", "refused", "cancelled"}
                        /\ exits[e].price \in Nat
                        /\ exits[e].status = "none" <=> e \notin Filled
    /\ due \subseteq Resting \union ExitsResting
    /\ completed_cycles \in Nat
    /\ pc \in {"idle", "filling", "stopped"}

\* The ledger's position is that of the entries that have filled and whose
\* exits have not, and a level has one entry from the time it rests until its
\* exit has filled: refused and cancelled exits leave both as they are.
EntriesBackThePosition ==
    /\ amount = Cardinality({e \in Filled : Buy(entries[e].level)})
                - Cardinality({e \in Filled : ~Buy(entries[e].level)})
    /\ \A e, f \in Resting \union Filled : entries[e].level = entries[f].level => e = f

\* What some entries were filled for, as the number of their ticks.
Ticks(S) == Cardinality(UNION {{e} \X (1..entries[e].price) : e \in S})

\* No cycle is completed at a loss: what the fills moved, with the open entries
\* at their prices, is at least a tick for every one completed ("adjacent"
\* take profits, wherever the plan has moved its levels and its center).
CyclesProfit ==
    cash + Ticks({e \in Filled : Buy(entries[e].level)})
         - Ticks({e \in Filled : ~Buy(entries[e].level)}) >= completed_cycles

\* What the position would come to if every entry that rests filled.
TotalExposure == Size(amount) + Cardinality(Resting)

\* Entries and their fills keep to the total limit; only an exit, which may
\* have netted another entry, can take the position past it.
ExitFills == \E e \in Filled : entries'[e].phase = "none"
EntriesStep ==
    ExitFills \/ TotalExposure' <= TotalExposure \/ TotalExposure' <= MaxTotal
EntriesWithinTotal == [][EntriesStep]_vars

\* test_short_position_blocks_sell_but_keeps_safe_buy_side: what is short and
\* would be, if the sells that rest filled, is never made more than the limit
\* of a side by new entries.
ShortExposure ==
    (IF amount < 0 THEN -amount ELSE 0)
    + Cardinality({e \in Resting : ~Buy(entries[e].level)})
ShortStep == pc' = "idle" => ShortExposure' <= ShortExposure \/ ShortExposure' <= MaxSide
ShortBlocksSells == [][ShortStep]_vars
=============================================================================
