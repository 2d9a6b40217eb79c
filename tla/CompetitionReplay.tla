--------------------------- MODULE CompetitionReplay ---------------------------
(***************************************************************************)
(* The competition risk governor (competition_risk.CompetitionRiskGovernor)*)
(* as the multi-asset replay drives it: every tick fills what was created  *)
(* on an earlier tick, values the positions at the marks of the tick, has  *)
(* the governor route the new plans, and replaces all the entries that     *)
(* rest by those it let through.                                           *)
(*                                                                         *)
(* An entry is for one unit of its market at a whole price and so worth    *)
(* that price; bid, ask and mark are one price; a plan has a level a side  *)
(* (the profile's max_levels_per_side_per_asset).  Capacities are kept in  *)
(* hundredths, for their multipliers are percentages.  An asset's limit    *)
(* and its hard inventory ratio are one number of quote each.              *)
(***************************************************************************)
EXTENDS Integers, Sequences, FiniteSets, FiniteSetsExt, SequencesExt

CONSTANTS
    Markets,                     \* enabled_markets, in their order
    SignalOnly,                  \* the markets that only give signals (BTC by default)
    Prices,                      \* the prices of levels and marks
    Betas,                       \* the betas the state engine may measure
    StartEquity,                 \* starting_equity_reference
    Leverage,                    \* leverage
    Reserve,                     \* collateral_reserve_quote
    SoftGross, MaxGross,         \* portfolio_soft_ and _max_gross_notional
    SoftBeta, HardBeta,          \* portfolio_soft_ and _hard_beta_exposure
    MaxAsset, HardInventory,     \* max_position_notional, and inventory_hard_ratio of it
    MaxOrder,                    \* max_single_order_notional
    AssetExecutors,              \* max_active_executors_per_asset
    PortfolioExecutors,          \* max_active_executors_portfolio
    MaxCreates,                  \* max_new_risk_creates_per_controller_cycle
    DrawdownLadder,              \* the drawdown stages: <<loss, percent of the capacity>>
    HardLoss,                    \* competition_hard_drawdown_quote
    MaxTimeline                  \* bound: the length of the timeline

Pairs == ToSet(Markets)
Places == Pairs \X {"buy", "sell"}
Rank(x) == 2 * (CHOOSE i \in DOMAIN Markets : Markets[i] = x[1]) + (IF x[2] = "buy" THEN 0 ELSE 1)

ASSUME CompetitionAssumption ==
    /\ Markets \in Seq(Pairs)
    /\ \A i, j \in DOMAIN Markets : i # j => Markets[i] # Markets[j]
    /\ Prices \subseteq Nat \ {0} /\ Prices # {}
    /\ {StartEquity, Leverage, Reserve, SoftGross, MaxGross, SoftBeta, HardBeta, MaxAsset,
        HardInventory, MaxOrder, AssetExecutors, PortfolioExecutors, MaxCreates, HardLoss,
        MaxTimeline} \subseteq Nat
    /\ Betas \subseteq [Pairs -> Int] /\ DrawdownLadder \subseteq Nat \X (0..100)

VARIABLES
    units,                       \* positions: the units held of each market
    cost,                        \* cost_basis: what was paid for them
    pending,                     \* the price of the entry that rests in a place, or 0
    latched,                     \* _hard_stop_latched
    elapsed                      \* the ticks there have been

competitionVars == <<units, cost, pending, latched, elapsed>>

CompetitionInit ==
    /\ units = [p \in Pairs |-> 0]
    /\ cost = [p \in Pairs |-> 0]
    /\ pending = [x \in Places |-> 0]
    /\ latched = FALSE
    /\ elapsed = 0

SideSign(side) == IF side = "buy" THEN 1 ELSE -1
Magnitude(n) == IF n < 0 THEN -n ELSE n
OfPair(p) == {x \in Places : x[1] = p}

-----------------------------------------------------------------------------
(* The fills of a tick, and what the account is worth after them *)

\* "Fill only orders created on an earlier tick", and only of markets the tick
\* has a snapshot of; mark is 0 for the others.
IsFilled(x, mark) ==
    /\ pending[x] > 0 /\ mark[x[1]] > 0
    /\ IF x[2] = "buy" THEN pending[x] >= mark[x[1]] ELSE pending[x] <= mark[x[1]]

AccountAfter(mark) ==
    LET Units(x) == IF IsFilled(x, mark) THEN 1 ELSE 0
        Bought(p) == Units(<<p, "buy">>) - Units(<<p, "sell">>)
        Paid(p) == Units(<<p, "buy">>) * pending[<<p, "buy">>]
                   - Units(<<p, "sell">>) * pending[<<p, "sell">>]
    IN  [position |-> [p \in Pairs |-> units[p] + Bought(p)],
         cost |-> [p \in Pairs |-> cost[p] + Paid(p)],
         pending |-> [x \in Places |-> IF IsFilled(x, mark) THEN 0 ELSE pending[x]],
         mark |-> mark]

\* What a position is worth: nothing when the tick has no snapshot of its market.
Worth(account, p) == account.position[p] * account.mark[p]

\* StartEquity less the current equity.
Loss(account) ==
    LET Gain(p) == Worth(account, p) - account.cost[p] IN Max({0, -MapThenSumSet(Gain, Pairs)})

-----------------------------------------------------------------------------
(* evaluate *)

\* The latch, which only an operator's reset_session undoes; the replay has none.
Latched(account) == latched \/ Loss(account) >= HardLoss

\* risk_capacity_multiplier, in percent.
Multiplier(account) ==
    IF Latched(account) THEN 0
    ELSE Min({100} \union {stage[2] : stage \in {s \in DrawdownLadder : Loss(account) >= s[1]}})

PendingOf(account, p) == account.pending[<<p, "buy">>] + account.pending[<<p, "sell">>]
Effective(account, p) ==
    Worth(account, p) + account.pending[<<p, "buy">>] - account.pending[<<p, "sell">>]
\* A plausible mistake: what rests is netted with what is held.
NetExposure(account, p) == Magnitude(Effective(account, p))

AssetExposure(account, p) == Magnitude(Worth(account, p)) + PendingOf(account, p)

GrossOf(account) == MapThenSumSet(LAMBDA p : AssetExposure(account, p), Pairs)

\* available_new_risk.
Capacity(account) ==
    LET gross == GrossOf(account)
        carried == (Max({0, StartEquity - Reserve})) * Leverage
    IN  Max({0, Min({carried - gross, MaxGross - gross})}) * Multiplier(account)

\* The exposure that the proposals of this tick are judged from.
BaseExposure(account, beta) ==
    [asset |-> [p \in Pairs |-> AssetExposure(account, p)],
     gross |-> GrossOf(account),
     beta |-> MapThenSumSet(LAMBDA p : Effective(account, p) * beta[p], Pairs),
     executors |-> [p \in Pairs |-> Cardinality({x \in OfPair(p) : account.pending[x] > 0})],
     capacity |-> Capacity(account),
     stopped |-> Latched(account),
     creates |-> 0,
     allowed |-> {}]

\* An entry against the position as it would be if what rests filled.
IsRiskReducing(account, x) == Effective(account, x[1]) * SideSign(x[2]) < 0

WorsensInventory(account, x) == Effective(account, x[1]) * SideSign(x[2]) >= HardInventory

\* The working exposure with one more entry.
With(work, x, quote, beta) ==
    [work EXCEPT !.asset[x[1]] = @ + quote, !.gross = @ + quote,
                 !.beta = @ + quote * beta[x[1]] * SideSign(x[2]),
                 !.executors[x[1]] = @ + 1,
                 !.capacity = Max({0, @ - 100 * quote}),
                 !.creates = @ + 1,
                 !.allowed = @ \union {x}]

\* The first limit that is in the way of a risk-increasing candidate decides.
\* Past the soft gross limit the reserve is no longer looked at.
Blocked(account, work, candidate, x, quote) ==
    LET Count(p) == work.executors[p]
        into == SideSign(x[2]) * candidate.beta
    IN  \/ x[1] \in SignalOnly
        \/ work.stopped
        \/ work.creates >= MaxCreates
        \/ quote > MaxOrder
        \/ WorsensInventory(account, x)
        \/ candidate.asset[x[1]] > MaxAsset
        \/ Count(x[1]) >= AssetExecutors
        \/ MapThenSumSet(Count, Pairs) >= PortfolioExecutors
        \/ candidate.gross > MaxGross
        \/ Magnitude(candidate.beta) > HardBeta \/ into >= SoftBeta
        \/ candidate.gross <= SoftGross /\ 100 * quote > work.capacity

\* One proposed entry; one that reduces risk is let through and counts nowhere.
Consider(account, work, x, plans, beta) ==
    LET candidate == With(work, x, plans[x], beta)
    IN  CASE IsRiskReducing(account, x) -> [work EXCEPT !.allowed = @ \union {x}]
          [] OTHER -> IF Blocked(account, work, candidate, x, plans[x]) THEN work ELSE candidate

Proposed(plans) == {x \in Places : plans[x] > 0}

\* sort_key, of those that are left: what reduces risk first, then the smaller
\* contribution to beta, then the order of the markets.
Foremost(account, plans, beta, left) ==
    LET Weight(x) == Magnitude(plans[x] * beta[x[1]])
        reducing == {x \in left : IsRiskReducing(account, x)}
        first == IF reducing = {} THEN left ELSE reducing
        lightest == {x \in first : \A y \in first : Weight(x) <= Weight(y)}
    IN  {x \in lightest : \A y \in lightest : Rank(x) <= Rank(y)}

\* The working exposure, and the proposals left, after each of them in their order.
Evaluated(account, plans, beta) ==
    LET step[k \in 0..2 * Len(Markets)] ==
            IF k = 0 THEN [work |-> BaseExposure(account, beta), left |-> Proposed(plans)]
            ELSE LET prior == step[k - 1]
                     next == Foremost(account, plans, beta, prior.left)
                     x == CHOOSE y \in next : TRUE
                 IN  IF next = {} THEN prior
                     ELSE [work |-> Consider(account, prior.work, x, plans, beta),
                           left |-> prior.left \ {x}]
    IN  step

\* The places whose entries the governor lets through.
Allowed(account, plans, beta) ==
    Evaluated(account, plans, beta)[2 * Len(Markets)].work.allowed

-----------------------------------------------------------------------------
(* MultiAssetReplay.run *)

\* The tick has a snapshot of some market; one it has none of gets no plan.
Marks == {mark \in [Pairs -> Prices \union {0}] : \E p \in Pairs : mark[p] > 0}
PlansOf(mark) == {plans \in [Places -> Prices \union {0}] :
                    \A x \in Places : mark[x[1]] = 0 => plans[x] = 0}

CompetitionTick ==
    /\ elapsed < MaxTimeline
    /\ \E mark \in Marks, beta \in Betas :
          LET account == AccountAfter(mark)
          IN  \E plans \in PlansOf(mark) :
                 LET allowed == Allowed(account, plans, beta)
                 IN  /\ units' = account.position
                     /\ cost' = account.cost
                     /\ latched' = Latched(account)
                     /\ pending' = [x \in Places |-> IF x \in allowed THEN plans[x] ELSE 0]
    /\ elapsed' = elapsed + 1

CompetitionSpec == CompetitionInit /\ [][CompetitionTick]_competitionVars

-----------------------------------------------------------------------------
(* Properties *)

\* Through whatever fills, falls of the mark, lost snapshots and replacements of
\* what rests: the units held of a market stay within what its limit buys at
\* the lowest price, or are one more than what is worth less than a single
\* order, which passes as a hedge of it (evaluate's max_position_notional).
HoldingsBounded ==
    \A p \in Pairs :
        \/ Magnitude(units[p]) * Min(Prices) <= MaxAsset
        \/ \E price \in Prices : (Magnitude(units[p]) - 1) * Min(Prices) < price
=============================================================================
