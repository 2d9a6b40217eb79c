------------------------------- MODULE MCSignals -------------------------------
(***************************************************************************)
(* What the plans are built on: the collector of snapshots, the state      *)
(* engine and the mode selector, one of the three at a time, the others    *)
(* waiting where they begin.  The engine is shown snapshots of two pairs,  *)
(* a second apart, after a gap longer than every window, or no newer than  *)
(* the last; scores below, in and above the band between the exit and the  *)
(* enter thresholds of each direction.  The selector sees one market state *)
(* for every outcome of the hierarchy, and two for the extreme-volatility  *)
(* pause, whose reasons differ by their scores; and, before it has seen    *)
(* any, the hierarchy alone is taken over a grid of market states that     *)
(* straddles every threshold.                                              *)
(***************************************************************************)
EXTENDS ModeSelector, StateEngine, MarketCollector

VARIABLES
    part,                        \* which of the three it is
    market                       \* where on the grid the selector is

Calm == [state_valid |-> TRUE, confidence |-> 90,
         inventory_state |-> "KNOWN", inventory_ratio |-> 0,
         volatility_score |-> 90, volatility_state |-> "NORMAL",
         iv_ratio |-> Missing, direction_state |-> "NEUTRAL", direction_score |-> 0]

MCObservedStates ==
    {Calm,
     [Calm EXCEPT !.volatility_state = "HIGH"],
     [Calm EXCEPT !.direction_state = "BULLISH", !.direction_score = 38],
     [Calm EXCEPT !.direction_state = "BEARISH", !.direction_score = -38],
     [Calm EXCEPT !.state_valid = FALSE],
     [Calm EXCEPT !.inventory_ratio = 95],
     [Calm EXCEPT !.volatility_score = 310],
     [Calm EXCEPT !.volatility_score = 311]}

-----------------------------------------------------------------------------
(* The grid: each step changes one input of the market. *)

Confidences  == {Missing, 49, 50, 75, 85}
Inventories  == {Missing, -90, -60, -40, -39, 0, 39, 40, 60, 90}
Volatilities == {Missing, -1, 0, 150, 300}
IvRatios     == {Missing, 124, 125}
Directions   == {<<"BULLISH", 25>>, <<"BULLISH", 24>>, <<"BEARISH", -25>>,
                 <<"BEARISH", Missing>>, <<"NEUTRAL", 0>>}

Invalidate == market' = [market EXCEPT !.state_valid = ~@]

MoveConfidence == \E c \in Confidences : market' = [market EXCEPT !.confidence = c]

MoveInventory ==
    \E r \in Inventories :
        market' = [market EXCEPT !.inventory_ratio = r,
                                 !.inventory_state = IF r = Missing THEN "UNKNOWN" ELSE "KNOWN"]

MoveVolatility ==
    \E v \in Volatilities, state \in {"INITIALIZING", "NORMAL", "HIGH"} :
        /\ v = Missing <=> state = "INITIALIZING"
        /\ market' = [market EXCEPT !.volatility_score = v, !.volatility_state = state]

MoveIvRatio == \E ratio \in IvRatios : market' = [market EXCEPT !.iv_ratio = ratio]

MoveDirection ==
    \E d \in Directions :
        market' = [market EXCEPT !.direction_state = d[1], !.direction_score = d[2]]

MarketMoves ==
    \/ Invalidate
    \/ MoveConfidence
    \/ MoveInventory
    \/ MoveVolatility
    \/ MoveIvRatio
    \/ MoveDirection

GridInit == Init /\ market = Calm

\* The selector sets off at one place of the grid only.
GridNext ==
    \/ Init /\ MarketMoves /\ UNCHANGED vars
    \/ market = Calm /\ Next /\ UNCHANGED market

-----------------------------------------------------------------------------
(* The three of them. *)

MCGaps == {0, 1, 4}
MCScores == {-3, -2, 0, 2, 3}
MCBearEnter == -3
MCBearExit == -2

PartsInit ==
    /\ part \in {"collector", "engine", "selector"}
    /\ GridInit /\ EngineInit /\ CollectorInit
    /\ part # "collector" => tracker = 0 /\ ticker = 0

CollectorPart ==
    /\ part = "collector" /\ CollectorNext
    /\ UNCHANGED <<part, vars, market, engineVars>>

EnginePart ==
    /\ part = "engine" /\ EngineNext
    /\ UNCHANGED <<part, vars, market, collectorVars>>

SelectorPart ==
    /\ part = "selector" /\ GridNext
    /\ UNCHANGED <<part, engineVars, collectorVars>>

PartsSpec ==
    PartsInit /\ [][CollectorPart \/ EnginePart \/ SelectorPart]_<<
                       part, vars, market, engineVars, collectorVars>>

\* The selector alone.
SelectorSpec ==
    /\ PartsInit /\ part = "selector"
    /\ [][SelectorPart]_<<part, vars, market, engineVars, collectorVars>>

\* However one input moves, and whatever the direction becomes with it, the
\* candidate mode is at least as cautious after a move to the worse
\* (determine_candidate_mode's "ordered risk hierarchy").
RiskOverridesDirection ==
    [][market' # market => /\ RiskNeverRelaxes(market', market)
                           /\ RiskNeverRelaxes(market, market')]_market

\* The long and the short branches of determine_candidate_mode are each
\* other's mirror image on every observed market.
MirrorSymmetric == part = "selector" => NoPreferredSide(market)
================================================================================
