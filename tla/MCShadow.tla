-------------------------------- MODULE MCShadow --------------------------------
(***************************************************************************)
(* The parts of a shadow session: its trade feed, its paper engine, the    *)
(* series a baseline measures itself by, and the baseline session that     *)
(* keeps two engines.  One of the four at a time runs, the others wait     *)
(* where they begin.                                                       *)
(***************************************************************************)
EXTENDS ShadowExecution, TradeFeed, ShadowBaseline, TLC

CONSTANTS
    e1, e2, e3,                  \* executors of the paper engine
    LastSecond, MaxPoints, Exposures, Equities, Threshold

VARIABLES
    part,                        \* which of the four it is
    \* of the metrics
    points, highest, stopped

metricsVars == <<points, highest, stopped>>

\* Of the paper engine: two levels a side, two books, and tapes that trade at,
\* past and short of the orders; plans around a center that moves below and
\* above the entries.
TwoSlots == {e1, e2}
ThreeSlots == {e1, e2, e3}
Interchangeable == Permutations(Slots)

MCQuotes == {[bid |-> 1, ask |-> 3], [bid |-> 3, ask |-> 5]}

Trade(price, aggressor, age) == [price |-> price, aggressor |-> aggressor, age |-> age]

\* No trade, one past the lower buys, one past the higher sells, both, and
\* one that is older than an order of the last frame.
MCTapes == {{}, {Trade(1, "sell", 0)}, {Trade(6, "buy", 0)},
            {Trade(1, "sell", 0), Trade(6, "buy", 0)}, {Trade(1, "sell", 1)}}

Shape(ok, prices, center) ==
    [ok |-> ok, significant |-> TRUE, soft |-> FALSE, prices |-> prices, center |-> center]

\* buy_0, buy_1 and sell_0, sell_1
MCShapes == {Shape(TRUE, <<2, 1, 5, 6>>, 3), Shape(TRUE, <<3, 2, 0, 0>>, 2),
             Shape(TRUE, <<0, 0, 4, 5>>, 5), Shape(FALSE, <<2, 1, 5, 6>>, 3)}

\* Of the feed.
SomeFaults == {{}, {"clean_end", "rest_error"}}

Metrics == INSTANCE RunMetrics WITH high_water_mark <- highest

\* A part that waits does so at one of its beginnings.
PartsInit ==
    /\ part \in {"engine", "feed", "metrics", "baseline"}
    /\ Init /\ FeedInit /\ Metrics!Init /\ BaselineInit
    /\ part # "engine" => /\ fill_model = CHOOSE name \in FillModels : TRUE
                          /\ market = CHOOSE quote \in Quotes : TRUE
    /\ part # "feed" => disturbances = {}
    /\ part # "metrics" => highest = CHOOSE equity \in Equities : TRUE
    /\ part # "metrics" => points[1].at = 0
    /\ part # "baseline" => profile = CHOOSE content \in Profiles : TRUE

EnginePart ==
    /\ part = "engine" /\ Next
    /\ UNCHANGED <<part, feedVars, metricsVars, baselineVars>>

FeedPart ==
    /\ part = "feed" /\ FeedNext
    /\ UNCHANGED <<part, vars, metricsVars, baselineVars>>

MetricsPart ==
    /\ part = "metrics" /\ Metrics!Next
    /\ UNCHANGED <<part, vars, feedVars, baselineVars>>

BaselinePart ==
    /\ part = "baseline" /\ BaselineNext
    /\ UNCHANGED <<part, vars, feedVars, metricsVars>>

PartsNext == EnginePart \/ FeedPart \/ MetricsPart \/ BaselinePart

PartsSpec ==
    PartsInit /\ [][PartsNext]_<<part, vars, feedVars, metricsVars, baselineVars>>

\* The paper engine alone.
EngineSpec ==
    /\ PartsInit /\ part = "engine"
    /\ [][EnginePart]_<<part, vars, feedVars, metricsVars, baselineVars>>

\* RunMetrics' SeriesAreExact.
SeriesAreExact == part = "metrics" => Metrics!SeriesAreExact
================================================================================
