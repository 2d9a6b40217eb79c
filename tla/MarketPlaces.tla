----------------------------- MODULE MarketPlaces -----------------------------
(***************************************************************************)
(* The markets of a portfolio in their order, the places of their entries, *)
(* and sums over the markets.  Every market has a level a side, the default *)
(* of per_asset_max_levels_per_side and of execution_max_levels_per_side.  *)
(***************************************************************************)
EXTENDS Integers, Sequences, SequencesExt

CONSTANT
    Markets                      \* enabled_markets, or trading_pairs, in their order

Pairs == ToSet(Markets)
Places == Pairs \X {"buy", "sell"}
Buy(p) == <<p, "buy">>
Sell(p) == <<p, "sell">>
OfPair(p) == {Buy(p), Sell(p)}

ASSUME MarketsAssumption ==
    /\ Markets \in Seq(Pairs)
    /\ \A i, j \in DOMAIN Markets : i # j => Markets[i] # Markets[j]

Sign(side) == IF side = "buy" THEN 1 ELSE -1
Absolute(n) == IF n < 0 THEN -n ELSE n

\* The sum of a number of each market, up to each in their order and of all.
Sums(number) ==
    LET sum[i \in 0..Len(Markets)] == IF i = 0 THEN 0 ELSE sum[i - 1] + number[Markets[i]]
    IN  sum
Total(number) == Sums(number)[Len(Markets)]

\* The sum of a number of each of some places, and how many they are, by market.
AmountAt(places, number, x) == IF x \in places THEN number[x] ELSE 0
ByMarket(places, number) ==
    [p \in Pairs |-> AmountAt(places, number, Buy(p)) + AmountAt(places, number, Sell(p))]
Ones == [x \in Places |-> 1]
Count(places) == ByMarket(places, Ones)
================================================================================
