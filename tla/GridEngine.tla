------------------------------ MODULE GridEngine ------------------------------
(***************************************************************************)
(* Stage 4: the grid parameter engine, which turns a snapshot, a market    *)
(* state and a mode decision into a theoretical grid, and tells whether    *)
(* the grid differs from the plan before it enough to count as a change.   *)
(*                                                                         *)
(* Prices, shifts, widths and distances are whole basis points of one      *)
(* price, ratios, scores, multipliers and allocations hundredths; Missing  *)
(* stands for a number that is not there.  The levels of a side lie evenly *)
(* between the inner and the outer distance, where the code spaces them by *)
(* a constant ratio: only their order and their ends matter here.          *)
(***************************************************************************)
EXTENDS Integers, Sequences

CONSTANTS
    Missing,                     \* in place of a number that is not there
    BaseWidth, MinWidth, MaxWidth,             \* base_, min_, max_grid_width_pct
    MinVolatility, MaxVolatility,              \* the volatility width multipliers
    WidthMultiplier, SizeMultiplier, LevelsPerSide,  \* of each working mode
    MinInner, MakerBuffer, DefensiveInner,     \* of the inner distance
    MaxDirectionShift, MaxInventoryShift, MaxTotalShift,
    DirectionalBias, InventoryStrength, MaxBias, MinSide, MaxSide,
    CenterThreshold, WidthThreshold, AllocationThreshold,
    Inputs,                      \* what a plan may be built from
    MaxVersion                   \* bound: on plan versions

BiasMode == {"LONG_BIAS", "SHORT_BIAS"}
WorkingMode == {"NORMAL", "DEFENSIVE"} \cup BiasMode

\* What the plan reads of its three inputs: that each may be used and they are
\* of one pair (usable), and the numbers.
Input == [usable : BOOLEAN, mode : WorkingMode \cup {"PAUSE"}, direction : Int, ratio : Int,
          volatility : Int, spread : Int, reference : Int]

\* GridParameterConfig.validate_ordered_ranges and the Field bounds.
ASSUME GridAssumption ==
    /\ Inputs \subseteq Input /\ Missing \in Int /\ MaxVersion \in Nat
    /\ {BaseWidth, MinWidth, MaxWidth, MinVolatility, MaxVolatility} \subseteq Nat \ {0}
    /\ MinWidth <= BaseWidth /\ BaseWidth <= MaxWidth
    /\ MinVolatility <= 100 /\ 100 <= MaxVolatility
    /\ WidthMultiplier \in [WorkingMode -> Nat \ {0}]
    /\ SizeMultiplier \in [WorkingMode -> Nat]
    /\ LevelsPerSide \in [WorkingMode -> 1..100]
    /\ {MinInner, MakerBuffer, DefensiveInner} \subseteq Nat
    /\ {MaxDirectionShift, MaxInventoryShift, MaxTotalShift} \subseteq Nat
    /\ MaxDirectionShift <= MaxTotalShift /\ MaxInventoryShift <= MaxTotalShift
    /\ {DirectionalBias, InventoryStrength, MaxBias, MinSide, MaxSide} \subseteq 0..100
    /\ MinSide <= 50 /\ 50 <= MaxSide /\ DirectionalBias <= MaxBias
    /\ {CenterThreshold, WidthThreshold, AllocationThreshold} \subseteq Nat

VARIABLES
    previous_plan,               \* _previous_plan, which is the last record of the stream
    plan_version,                \* _plan_version
    input                        \* what it was built from

engine == <<previous_plan, plan_version, input>>

Clamp(x, low, high) == IF x < low THEN low ELSE IF high < x THEN high ELSE x

Difference(a, b) == IF a < b THEN b - a ELSE a - b
-----------------------------------------------------------------------------
(* The center *)

\* calculate_direction_center_shift and calculate_inventory_center_shift
DirectionShift(in) ==
    IF in.mode \in BiasMode
    THEN (Clamp(in.direction, -100, 100) * MaxDirectionShift) \div 100 ELSE 0

\* A plausible mistake: the center follows the inventory.
ShiftTowards(in) == (Clamp(in.ratio, -100, 100) * MaxInventoryShift) \div 100

InventoryShift(in) == - ((Clamp(in.ratio, -100, 100) * MaxInventoryShift) \div 100)

\* calculate_final_center
Center(in) ==
    in.reference + Clamp(DirectionShift(in) + InventoryShift(in), -MaxTotalShift, MaxTotalShift)

(* The width and the levels *)

\* calculate_grid_width
Width(in) ==
    Clamp((BaseWidth * Clamp(in.volatility, MinVolatility, MaxVolatility)
               * WidthMultiplier[in.mode]) \div 10000,
          MinWidth, MaxWidth)

\* calculate_inner_distance
InnerDistance(in) ==
    LET half == in.spread \div 2 + MakerBuffer
        distance == IF MinInner < half THEN half ELSE MinInner
    IN  IF in.mode = "DEFENSIVE" THEN (distance * DefensiveInner) \div 100 ELSE distance

\* generate_geometric_distances: from the inner distance to the outer, a single
\* level at the outer.
Distances(inner, outer, count) ==
    [i \in 1..count |-> IF count = 1 THEN outer
                        ELSE inner + ((i - 1) * (outer - inner)) \div (count - 1)]

(* The allocation *)

\* calculate_mode_profile
AllocationBias(mode) ==
    CASE mode = "LONG_BIAS" -> DirectionalBias
      [] mode = "SHORT_BIAS" -> -DirectionalBias
      [] OTHER -> 0

\* calculate_allocation_bias
NetBias(in) ==
    Clamp(AllocationBias(in.mode) - (Clamp(in.ratio, -100, 100) * InventoryStrength) \div 100,
          -MaxBias, MaxBias)

BuyAllocation(in) ==
    LET buy == Clamp(50 + NetBias(in) \div 2, MinSide, MaxSide)
    IN  100 - Clamp(100 - buy, MinSide, MaxSide)
-----------------------------------------------------------------------------
\* _invalid_plan
DisabledPlan(in) ==
    [mode |-> in.mode, enabled |-> FALSE, center |-> Missing, width |-> 0,
     distances |-> <<>>, buy |-> 0, effective |-> 0, significant |-> FALSE]

\* validate_grid_plan, of what may still be wrong: the distances ascend, and none
\* is nothing or beyond the outer boundary.
LevelsAscend(distances, outer) ==
    \A i \in DOMAIN distances :
        /\ 0 < distances[i] /\ distances[i] <= outer
        /\ i > 1 => distances[i - 1] < distances[i]

NumbersThere(in) ==
    /\ Missing \notin {in.ratio, in.volatility, in.spread, in.reference}
    /\ in.mode \in BiasMode => in.direction # Missing
    /\ 0 <= in.volatility /\ 0 <= in.spread /\ 0 < in.reference

\* build_grid_plan, without what _with_plan_metadata adds.  Whatever is missing
\* or wrong disables the plan.
Built(in) ==
    LET outer == Width(in) \div 2
        distances == Distances(InnerDistance(in), outer, LevelsPerSide[in.mode])
    IN  IF /\ in.usable /\ in.mode # "PAUSE" /\ NumbersThere(in)
           /\ 0 < Center(in) /\ 0 < InnerDistance(in) /\ InnerDistance(in) < outer
           /\ LevelsAscend(distances, outer)
        THEN [mode |-> in.mode, enabled |-> TRUE, center |-> Center(in), width |-> Width(in),
              distances |-> distances, buy |-> BuyAllocation(in),
              effective |-> SizeMultiplier[in.mode], significant |-> FALSE]
        ELSE DisabledPlan(in)

\* plan_change_significant, of two plans
PlanChangeSignificant(plan, previous) ==
    \/ plan.mode # previous.mode
    \/ plan.enabled # previous.enabled
    \/ Len(plan.distances) # Len(previous.distances)
    \/ Difference(plan.center, previous.center) > CenterThreshold
    \/ Difference(plan.width, previous.width) > WidthThreshold
    \/ Difference(plan.buy, previous.buy) > AllocationThreshold

\* GridParameterEngine.__init__, and its first build, which is significant.
EngineInit ==
    /\ input \in Inputs /\ plan_version = 1
    /\ previous_plan = [Built(input) EXCEPT !.significant = TRUE]

\* GridParameterEngine.build and _with_plan_metadata
Build ==
    /\ input' \in Inputs
    /\ LET plan == Built(input')
           significant == PlanChangeSignificant(plan, previous_plan)
       IN  /\ previous_plan' = [plan EXCEPT !.significant = significant]
           /\ plan_version' = plan_version + (IF significant THEN 1 ELSE 0)
           /\ plan_version' <= MaxVersion
-----------------------------------------------------------------------------
\* Inventory leans the grid against itself: with more of it, and all else the
\* same, the center is not higher and no more of the capital buys, whatever the
\* direction asks for and wherever the clamps cut in (calculate_final_center,
\* calculate_allocation_bias).
LeansAgainstInventory ==
    \A more \in Inputs :
        LET plan == Built(more)
        IN  (/\ previous_plan.enabled /\ plan.enabled /\ input.ratio <= more.ratio
             /\ more = [input EXCEPT !.ratio = more.ratio])
            => plan.center <= previous_plan.center /\ plan.buy <= previous_plan.buy
=============================================================================
