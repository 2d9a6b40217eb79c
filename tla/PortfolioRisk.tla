----------------------------- MODULE PortfolioRisk -----------------------------
(***************************************************************************)
(* The portfolio risk governor (multi_asset.PortfolioRiskGovernor) in the  *)
(* cycle of a shadow session that runs several markets: the plans of all   *)
(* markets are routed once, against the positions and the resting entries  *)
(* of that moment, and every market then reconciles its own orders with    *)
(* its plan and creates only what was routed.                              *)
(*                                                                         *)
(* A notional is a small number and marks do not move; what a market's own *)
(* limits admit, what it refreshes and what fills is arbitrary             *)
(* (ShadowExecution has the rules).                                        *)
(***************************************************************************)
EXTENDS MarketPlaces

CONSTANTS
    Notionals,                   \* of the levels of plans
    MaxGross,                    \* portfolio_max_gross_notional
    MaxAsset,                    \* per_asset_max_position_notional
    SoftBeta,                    \* portfolio_soft_beta_exposure
    MaxLongBeta, MaxShortBeta,   \* portfolio_max_long_ and _short_beta_exposure
    AssetExecutors,              \* max_active_executors_per_asset
    PortfolioExecutors,          \* max_active_executors_portfolio
    Betas,                       \* the betas the relationship engine may measure
    Incremental,                 \* use_incremental_pending_exposure_for_reconciliation
    Preserve                     \* preserve_existing_quotes_during_soft_pause_confirmation

ASSUME RiskAssumption ==
    /\ Notionals \subseteq Nat \ {0}
    /\ {MaxGross, MaxAsset, SoftBeta, MaxLongBeta, MaxShortBeta, AssetExecutors,
        PortfolioExecutors} \subseteq Nat
    /\ Betas \subseteq [Pairs -> Int]
    /\ {Incremental, Preserve} \subseteq BOOLEAN

VARIABLES
    resting,                     \* the notional of the entry that rests in a place, or 0
    open                         \* that of the entry that has filled and not exited, or 0

riskVars == <<resting, open>>

RiskInit ==
    /\ resting = [x \in Places |-> 0]
    /\ open = [x \in Places |-> 0]

\* ledger.signed_notional
Position(p) == open[Buy(p)] - open[Sell(p)]

AssetExposure(p) == Absolute(Position(p)) + resting[Buy(p)] + resting[Sell(p)]
Exposures == [p \in Pairs |-> AssetExposure(p)]
Gross == Total(Exposures)

Occupied == {x \in Places : resting[x] > 0 \/ open[x] > 0}
Executors == Count(Occupied)
AllExecutors == Total(Executors)

-----------------------------------------------------------------------------
(* evaluate *)

\* _base_exposure, and the executors that count.
BaseExposure(beta) ==
    LET BetaValue(p) == beta[p] * (Position(p) + resting[Buy(p)] - resting[Sell(p)])
    IN  [asset |-> Exposures,
         gross |-> Gross,
         beta |-> Total([p \in Pairs |-> BetaValue(p)]),
         executors |-> Executors,
         allowed |-> {}]

\* The working exposure after a change of the notional that rests in a place.
Changed(work, x, delta, more, beta) ==
    [work EXCEPT !.asset[x[1]] = @ + delta, !.gross = @ + delta,
                 !.beta = @ + delta * beta[x[1]] * Sign(x[2]),
                 !.executors[x[1]] = @ + more]

\* CANCEL_RELEASE: an entry that is no longer proposed is counted as gone.
Release(work, x, plans, beta) ==
    IF resting[x] > 0 /\ plans[x] = 0
    THEN Changed(work, x, -resting[x], -1, beta) ELSE work

NotionalDelta(x, plans) == IF Incremental THEN plans[x] - resting[x] ELSE plans[x]

\* An entry against the position that has filled, or one that is not made larger.
RiskReducing(x, plans) ==
    Position(x[1]) * Sign(x[2]) < 0 \/ NotionalDelta(x, plans) <= 0

\* A limit is in the way of a candidate, given what was allowed before it.
Blocked(work, candidate, x) ==
    \/ candidate.asset[x[1]] > MaxAsset
    \/ candidate.gross > MaxGross
    \/ candidate.beta > MaxLongBeta \/ -candidate.beta > MaxShortBeta
    \/ Absolute(candidate.beta) > SoftBeta
    \/ work.executors[x[1]] >= AssetExecutors
    \/ Total(work.executors) >= PortfolioExecutors

\* A plausible mistake: what is allowed is not added to what is judged next.
ConsiderEachAlone(work, x, plans, beta) ==
    LET candidate == Changed(work, x, NotionalDelta(x, plans), IF resting[x] = 0 THEN 1 ELSE 0, beta)
    IN  IF plans[x] = 0 \/ (~RiskReducing(x, plans) /\ Blocked(work, candidate, x)) THEN work
        ELSE [work EXCEPT !.allowed = @ \union {x}]

\* One proposed entry.
Consider(work, x, plans, beta) ==
    LET candidate == Changed(work, x, NotionalDelta(x, plans), IF resting[x] = 0 THEN 1 ELSE 0, beta)
    IN  IF plans[x] = 0 \/ (~RiskReducing(x, plans) /\ Blocked(work, candidate, x)) THEN work
        ELSE [candidate EXCEPT !.allowed = @ \union {x}]

\* The working exposure after each market of what the loops go through, by
\* market, buys before sells: the releases, then the proposals.
Released(plans, beta) ==
    LET work[i \in 0..Len(Markets)] ==
            IF i = 0 THEN BaseExposure(beta)
            ELSE Release(Release(work[i - 1], Buy(Markets[i]), plans, beta),
                         Sell(Markets[i]), plans, beta)
    IN  work
BeforeProposals(plans, beta) ==
    IF Incremental THEN Released(plans, beta)[Len(Markets)] ELSE BaseExposure(beta)
Considered(plans, beta) ==
    LET work[i \in 0..Len(Markets)] ==
            IF i = 0 THEN BeforeProposals(plans, beta)
            ELSE Consider(Consider(work[i - 1], Buy(Markets[i]), plans, beta),
                          Sell(Markets[i]), plans, beta)
    IN  work

\* The places whose entries the governor lets through.
Allowed(plans, beta) == Considered(plans, beta)[Len(Markets)].allowed

-----------------------------------------------------------------------------
(* run_cycle *)

Resting == {x \in Places : resting[x] > 0}
Vacant == {x \in Places : resting[x] = 0 /\ open[x] = 0}

\* What the markets take back: entries that are no longer desired at once,
\* others when they are refreshed; where a pause is being confirmed what rests
\* is kept, but for what would take.
IsStops(stops, plans, confirming) ==
    \A x \in Resting \ stops : plans[x] > 0 \/ (x[1] \in confirming /\ Preserve)

\* What they create of what was routed: nothing in a market that takes something
\* back or whose pause is being confirmed, and nothing for a level that has an
\* order, resting or filled.
IsCreates(creates, stops, confirming) ==
    \A x \in creates : x[1] \notin confirming /\ stops \intersect OfPair(x[1]) = {}

Plans == [Places -> Notionals \union {0}]

\* One cycle of the session.
Cycle ==
    /\ \E plans \in Plans, beta \in Betas :
          LET routed == Allowed(plans, beta)
          IN  \E confirming \in SUBSET Pairs, stops \in SUBSET Resting,
                 creates \in SUBSET (routed \intersect Vacant) :
                 /\ IsStops(stops, plans, confirming)
                 /\ IsCreates(creates, stops, confirming)
                 /\ resting' = [x \in Places |-> IF x \in stops THEN 0
                                                 ELSE IF x \in creates THEN plans[x]
                                                 ELSE resting[x]]
    /\ UNCHANGED open

EntryFills(x) ==
    /\ resting[x] > 0
    /\ open' = [open EXCEPT ![x] = resting[x]]
    /\ resting' = [resting EXCEPT ![x] = 0]

\* The exit of a filled entry fills.
ExitFills(x) ==
    /\ open[x] > 0
    /\ open' = [open EXCEPT ![x] = 0]
    /\ UNCHANGED resting

RiskNext == Cycle \/ \E x \in Places : EntryFills(x) \/ ExitFills(x)

RiskSpec == RiskInit /\ [][RiskNext]_riskVars

-----------------------------------------------------------------------------
(* Properties *)

\* The entries a step creates; of them those that are no hedge of a position,
\* and those that are.
Created == {x \in Places : resting[x] = 0 /\ resting'[x] > 0}
Increasing == {x \in Created : Position(x[1]) * Sign(x[2]) >= 0}
Hedges == Created \ Increasing

\* Whatever fills, exits and is taken back in between, and however many
\* markets create at once: a cycle that creates an entry which is no hedge
\* leaves the gross exposure, that of its market and the numbers of executors
\* within their limits, but for the hedges created with it.
GrowthStep ==
    Increasing # {} =>
        /\ Gross' - Total(ByMarket(Hedges, resting')) <= MaxGross
        /\ AllExecutors' - Total(Count(Hedges)) <= PortfolioExecutors
        /\ \A p \in {x[1] : x \in Increasing} :
              /\ Exposures'[p] - ByMarket(Hedges, resting')[p] <= MaxAsset
              /\ Executors'[p] - Count(Hedges)[p] <= AssetExecutors
GrowthWithinLimits == [][GrowthStep]_riskVars
=============================================================================
