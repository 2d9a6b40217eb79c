-------------------------- MODULE PortfolioController --------------------------
(***************************************************************************)
(* The portfolio controller (DeriveAdaptiveGridPortfolio): a tick of its   *)
(* clock reconciles every market with its own plan, as the single-market   *)
(* controller does (AdaptiveGrid), and then puts all the entries the       *)
(* markets propose through one gate of shared limits                       *)
(* (evaluate_portfolio_risk), before stops or else creates are sent.       *)
(*                                                                         *)
(* What a market wants, finds stale or admits by its own limits is         *)
(* arbitrary here; marks do not move; order errors are left to             *)
(* AdaptiveGrid, whose counting this controller repeats.                   *)
(***************************************************************************)
EXTENDS MarketPlaces

CONSTANTS
    LevelNotionals,              \* the notionals of levels
    GrossLimit,                  \* portfolio_max_gross_notional
    PairLimit,                   \* portfolio_per_asset_max_position_notional
    SoftLimit,                   \* portfolio_soft_beta_exposure
    LongLimit, ShortLimit,       \* portfolio_max_long_ and _short_beta_exposure
    PairExecutors,               \* pair_max_active_executors
    AllowedExecutors,            \* portfolio_max_active_executors
    Collateral,                  \* what the balance less the buffer carries
    Beta,                        \* portfolio_betas
    CancelOnPause,               \* cancel_orders_on_pause
    MaxPosition                  \* bound: how far a position goes

ASSUME ControllerAssumption ==
    /\ LevelNotionals \subseteq Nat \ {0}
    /\ {GrossLimit, PairLimit, SoftLimit, LongLimit, ShortLimit, PairExecutors,
        AllowedExecutors, Collateral, MaxPosition} \subseteq Nat
    /\ Beta \in [Pairs -> Int]
    /\ CancelOnPause \in BOOLEAN

VARIABLES
    executors,                   \* the executor of each level of each market
    position,                    \* the signed notional of each market's position
    last_health                  \* _last_health: what the last tick could read

controllerVars == <<executors, position, last_health>>

\* A market is read; or has no book, or a position that cannot be read; or its
\* reconciliation fails.
Healths == {"read", "blind", "failed"}

Executor(phase, notional, stopping) ==
    [phase |-> phase, notional |-> notional, stopping |-> stopping]
NoExecutor == Executor("none", 0, FALSE)

ControllerInit ==
    /\ executors = [x \in Places |-> NoExecutor]
    /\ position = [p \in Pairs |-> 0]
    /\ last_health = [p \in Pairs |-> "read"]

\* What has an executor, what waits to be filled, and how much that is.
Active == {x \in Places : executors[x].phase # "none"}
Waiting == {x \in Places : executors[x].phase = "resting"}
QuoteOf == [x \in Places |-> executors[x].notional]
Pending == ByMarket(Waiting, QuoteOf)

\* health.position_notional: without a book there is no mid price, and with it
\* no notional; without a position, or of a market that failed, it is nothing.
ReadPositions == [p \in Pairs |-> IF last_health[p] = "read" THEN position[p] ELSE 0]

Exposed == [p \in Pairs |-> Absolute(ReadPositions[p]) + Pending[p]]

-----------------------------------------------------------------------------
(* evaluate_portfolio_risk, for the positions that this tick reads *)

\* The position as it would be if what waits filled.
Effective(positions, p) ==
    positions[p] + AmountAt(Waiting, QuoteOf, Buy(p)) - AmountAt(Waiting, QuoteOf, Sell(p))

\* The exposure that the proposals of this tick are judged from.
BaseRisk(positions) ==
    LET asset == [p \in Pairs |-> Absolute(positions[p]) + Pending[p]]
    IN  [asset |-> asset,
         gross |-> Total(asset),
         beta |-> Total([p \in Pairs |-> Effective(positions, p) * Beta[p]]),
         pending |-> Total(Pending),
         executors |-> Count(Active),
         allowed |-> {}]

\* An entry against the effective position.
Reducing(positions, x) == Effective(positions, x[1]) * Sign(x[2]) < 0

\* The working exposure with one more entry.
With(work, x, quote) ==
    [work EXCEPT !.asset[x[1]] = @ + quote, !.gross = @ + quote, !.pending = @ + quote,
                 !.beta = @ + quote * Beta[x[1]] * Sign(x[2]),
                 !.executors[x[1]] = @ + 1,
                 !.allowed = @ \union {x}]

\* A limit is in the way of a candidate, given what was allowed before it.  The
\* balance, which the markets share, has been read: by the one that proposes.
OverLimit(work, candidate, x) ==
    \/ candidate.asset[x[1]] > PairLimit
    \/ candidate.gross > GrossLimit
    \/ candidate.beta > LongLimit \/ -candidate.beta > ShortLimit
    \/ Absolute(candidate.beta) > SoftLimit
    \/ candidate.pending > Collateral
    \/ work.executors[x[1]] >= PairExecutors
    \/ Total(work.executors) >= AllowedExecutors

\* A plausible mistake: every market is judged by what there was at first.
EvaluateFromBase(positions, work, x, proposed) ==
    LET base == BaseRisk(positions)
    IN  IF proposed[x] = 0 \/ (~Reducing(positions, x)
                               /\ OverLimit(base, With(base, x, proposed[x]), x))
        THEN work ELSE With(work, x, proposed[x])

Evaluate(positions, work, x, proposed) ==
    IF proposed[x] = 0 \/ (~Reducing(positions, x)
                           /\ OverLimit(work, With(work, x, proposed[x]), x))
    THEN work ELSE With(work, x, proposed[x])

\* The working exposure after each market of what the loop goes through, and
\* the places whose entries pass in the end.
Evaluated(positions, proposed) ==
    LET work[i \in 0..Len(Markets)] ==
            IF i = 0 THEN BaseRisk(positions)
            ELSE Evaluate(positions,
                          Evaluate(positions, work[i - 1], Buy(Markets[i]), proposed),
                          Sell(Markets[i]), proposed)
    IN  work
Passed(positions, proposed) == Evaluated(positions, proposed)[Len(Markets)].allowed

-----------------------------------------------------------------------------
(* The tick *)

\* A market pauses for its plan, its health or an error; while it pauses its
\* orders are taken back, unless the reconciliation itself has failed.
IsWithdrawn(stops, paused, health) ==
    /\ {p \in Pairs : health[p] # "read"} \subseteq paused
    /\ \A p \in paused : stops \intersect OfPair(p) =
          IF CancelOnPause /\ health[p] # "failed" THEN OfPair(p) \intersect Waiting ELSE {}

\* The levels without an executor: a market that pauses or takes something
\* back proposes none.
MissingLevels(stops, paused) ==
    {x \in Places \ Active : x[1] \notin paused /\ stops \intersect OfPair(x[1]) = {}}

\* What the markets may propose.
Proposals(stops, paused) ==
    {proposed \in [Places -> LevelNotionals \union {0}] :
        \A x \in Places \ MissingLevels(stops, paused) : proposed[x] = 0}

\* determine_executor_actions: when any market stops an executor, no market
\* creates one.
Carried(stops, proposed) ==
    LET passed == IF stops = {} THEN Passed(ReadPositions', proposed) ELSE {}
    IN  executors' = [x \in Places |->
            IF x \in stops THEN [executors[x] EXCEPT !.stopping = TRUE]
            ELSE IF x \in passed THEN Executor("resting", proposed[x], FALSE)
            ELSE executors[x]]

\* A tick reads the health of every market anew, and judges by what it read.
ControllerTick ==
    /\ UNCHANGED position
    /\ last_health' \in [Pairs -> Healths]
    /\ \E stops \in SUBSET Waiting, paused \in SUBSET Pairs :
          /\ IsWithdrawn(stops, paused, last_health')
          /\ \E proposed \in Proposals(stops, paused) : Carried(stops, proposed)

-----------------------------------------------------------------------------
(* What the controller runs on *)

Moved(p, change) ==
    /\ Absolute(position[p] + change) <= MaxPosition
    /\ position' = [position EXCEPT ![p] = @ + change]

\* An order fills, also one that is being stopped.
OrderFills(x) ==
    /\ executors[x].phase = "resting"
    /\ executors' = [executors EXCEPT ![x].phase = "filled"]
    /\ Moved(x[1], Sign(x[2]) * executors[x].notional)
    /\ UNCHANGED last_health

\* A filled executor exits.
ExecutorExits(x) ==
    /\ executors[x].phase = "filled"
    /\ executors' = [executors EXCEPT ![x] = NoExecutor]
    /\ Moved(x[1], -Sign(x[2]) * executors[x].notional)
    /\ UNCHANGED last_health

\* A stop is carried out before the order fills; or an executor fails, and
\* what it holds stays.
ExecutorCloses(x) ==
    /\ x \in Active
    /\ executors' = [executors EXCEPT ![x] = NoExecutor]
    /\ UNCHANGED <<position, last_health>>

ControllerNext ==
    \/ ControllerTick
    \/ \E x \in Places : OrderFills(x) \/ ExecutorExits(x) \/ ExecutorCloses(x)

ControllerSpec == ControllerInit /\ [][ControllerNext]_controllerVars

-----------------------------------------------------------------------------
(* Properties *)

\* The entries a step creates; of them those that are no hedge of what the
\* market is read to hold or has waiting, and those that are, with what they are
\* for.
NewOrders == {x \in Places : x \notin Active /\ executors'[x].phase = "resting"}
Enlarging == {x \in NewOrders : ~Reducing(ReadPositions', x)}
Offsetting == NewOrders \ Enlarging
OffsettingQuotes == ByMarket(Offsetting, QuoteOf')

\* "Its portfolio gate applies shared gross, beta, collateral, executor, and
\* per-asset limits before any create action": whatever fills, exits and fails
\* between the ticks, a tick that creates an entry which is no hedge leaves the
\* gross exposure, as far as the tick could read it, and the orders that rest
\* and the executors of all markets together within their limits, but for the
\* hedges created with it; and the exposure and the executors of the entry's
\* market, whose position is read then (evaluate_portfolio_risk).  What the other
\* markets hold counts as nothing where it is not read.
SharedStep ==
    Enlarging # {} =>
        /\ Total(Exposed') - Total(OffsettingQuotes) <= GrossLimit
        /\ Total(Pending') - Total(OffsettingQuotes) <= Collateral
        /\ Total(Count(Active')) - Total(Count(Offsetting)) <= AllowedExecutors
        /\ \A p \in {x[1] : x \in Enlarging} :
              /\ Absolute(position[p]) + Pending'[p] - OffsettingQuotes[p] <= PairLimit
              /\ Count(Active')[p] - Count(Offsetting)[p] <= PairExecutors
SharedLimitsWhenSeen == [][SharedStep]_controllerVars
================================================================================
