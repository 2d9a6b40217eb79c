--------------------------- MODULE MCAdaptiveGrid ---------------------------
(* The controller with one level on each side, three prices, and     *)
(* plans that keep, move, cross or drop a level, or pause.                   *)
EXTENDS AdaptiveGrid, TLC

CONSTANTS e1, e2

TwoSlots == {e1, e2}
Interchangeable == Permutations(Slots)

TwoQuotes == {[bid |-> 1, ask |-> 2], [bid |-> 2, ask |-> 3]}
OneQuote == {[bid |-> 1, ask |-> 2]}

Shape(ok, significant, soft, prices) ==
    [ok |-> ok, significant |-> significant, soft |-> soft, prices |-> prices]

\* buy_0 and sell_0: at the touch, moved up, the buy dropped, a pause that is
\* being confirmed and one that is.
OneEachSide == {Shape(TRUE, FALSE, FALSE, <<1, 3>>), Shape(TRUE, TRUE, FALSE, <<2, 3>>),
                Shape(TRUE, FALSE, FALSE, <<0, 3>>), Shape(TRUE, FALSE, TRUE, <<1, 3>>),
                Shape(FALSE, FALSE, FALSE, <<1, 3>>)}

\* The same plan all the time, but for a pause.
OnOff == {Shape(TRUE, FALSE, FALSE, <<1, 3>>), Shape(FALSE, FALSE, FALSE, <<1, 3>>)}
=============================================================================
