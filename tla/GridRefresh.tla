------------------------------ MODULE GridRefresh ------------------------------
(***************************************************************************)
(* The grid engine and one resting order of its innermost buy level, as    *)
(* the controller keeps it (execution_logic.reconcile_grid_plan): plans    *)
(* are built at one pace and a tick sees the newest at another.  The       *)
(* market is taken to stay away from the order, and there is one level.    *)
(***************************************************************************)
EXTENDS GridEngine

CONSTANTS
    MinLifetime, MaxLifetime,    \* minimum_ and maximum_order_lifetime_seconds
    Tolerance                    \* refresh_price_tolerance_bps

ASSUME LifetimeAssumption == MinLifetime \in Nat /\ MaxLifetime \in Nat \ {0} /\ Tolerance \in Nat

VARIABLES
    order,                       \* the price the order rests at and its age, if it rests
    owed                         \* a significant plan has moved its level off its price

vars == <<engine, order, owed>>

NoOrder == [price |-> Missing, age |-> 0]

Rests == order.price # Missing

\* The price of the innermost buy level.
Desired(plan) == plan.center - plan.distances[1]

Off(plan) == plan.enabled /\ Difference(order.price, Desired(plan)) >= Tolerance

Init == EngineInit /\ order = NoOrder /\ owed = FALSE

BuildPlan ==
    /\ Build /\ UNCHANGED order
    /\ owed' = (owed \/ (Rests /\ previous_plan'.significant /\ Off(previous_plan')))

\* What the reconciliation finds a reason to replace the order for, once it is
\* old enough.
NeedsRefresh ==
    \/ order.age >= MaxLifetime
    \/ previous_plan.significant /\ Off(previous_plan)

\* A tick of the controller, a second after the last: it withdraws the order or
\* keeps it, and places one where there is none.
Tick ==
    /\ UNCHANGED engine
    /\ LET due == \/ ~previous_plan.enabled
                  \/ NeedsRefresh /\ order.age >= MinLifetime
       IN  CASE Rests /\ due -> order' = NoOrder /\ owed' = FALSE
             [] Rests /\ ~due -> order' = [order EXCEPT !.age = @ + 1] /\ UNCHANGED owed
             [] OTHER -> /\ owed' = FALSE
                         /\ order' = IF previous_plan.enabled
                                     THEN [price |-> Desired(previous_plan), age |-> 0] ELSE NoOrder

Next == BuildPlan \/ Tick

Spec == Init /\ [][Next]_vars

\* "significant plan changes still reprice when the actual order is materially
\* off": an order that a significant plan has left off its level, and that still
\* is, goes at the first tick that finds it old enough.
SignificantChangeReprices ==
    [][Tick /\ owed /\ Off(previous_plan) /\ order.age >= MinLifetime => order' = NoOrder]_vars
=============================================================================
