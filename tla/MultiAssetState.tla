---------------------------- MODULE MultiAssetState ----------------------------
(***************************************************************************)
(* What BTC tells the other markets (multi_asset.MultiAssetStateEngine):   *)
(* one global risk state made of the implied volatility of its options, a  *)
(* rolling relationship made of returns over the common clock, and, by     *)
(* both, the volatility score and label of a market beside its own         *)
(* realized volatility.                                                    *)
(*                                                                         *)
(* BTC and one other market; prices are logarithms, so that a return is a  *)
(* difference.  Ratios are percentages; a transmission coefficient is      *)
(* there or 0.  What the market's own engine says (StateEngine) is         *)
(* arbitrary.  Confidence, beta clipping and reasons are left out.         *)
(***************************************************************************)
EXTENDS Integers, FiniteSetsExt, SequencesExt

CONSTANTS
    Ticks,                       \* what the snapshots of a tick may be
    TickSteps,                   \* seconds between ticks; 0 when all snapshots are repeated
    IvStale, IvWindow, IvSamples,
    Elevated, Extreme,           \* percent of the recent median
    MissingBehavior,             \* "rv_only", "defensive" or "pause"
    DefensiveScore,
    RelationWindow, RelationObservations, RelationStale, RelationGap,
    LocalWeight, IvWeight,
    VolatilityEnter, VolatilityExit,
    MaxTicks                     \* bound: how many ticks there are

NoNumber == -1

ASSUME MultiAssetAssumption ==
    /\ {IvStale, IvWindow, RelationWindow, RelationStale, RelationGap, LocalWeight, IvWeight,
        MaxTicks} \subseteq Nat
    /\ TickSteps \subseteq Nat /\ IvSamples \in Nat \ {0} /\ RelationObservations \in Nat \ {0}
    /\ LocalWeight + IvWeight > 0
    /\ Elevated \in Nat /\ Extreme \in Nat /\ Elevated < Extreme
    /\ VolatilityEnter \in Nat /\ VolatilityExit \in Nat /\ VolatilityExit < VolatilityEnter
    /\ MissingBehavior \in {"rv_only", "defensive", "pause"} /\ DefensiveScore \in Nat
    /\ \A t \in Ticks : /\ {t.btc, t.iv, t.iv_age, t.asset, t.rv} \subseteq Int
                        /\ t.valid \in BOOLEAN

VARIABLES
    timestamp,                   \* the common timestamp
    ticks,                       \* how many there were
    iv_history,                  \* GlobalRiskEngine._history
    last_prices,                 \* _last_prices: time and price, by market
    returns,                     \* _returns of the other market
    label,                       \* its entry in _volatility_states
    global_risk,                 \* the GlobalRiskState of the tick
    relation,                    \* the BTCTransmissionState of the tick
    state                        \* the AssetMarketState of the tick

multiVars == <<timestamp, ticks, iv_history, last_prices, returns, label, global_risk,
               relation, state>>

NoPrice == [at |-> 0, price |-> NoNumber]

MultiAssetInit ==
    /\ timestamp = 0 /\ ticks = 0 /\ iv_history = <<>> /\ returns = <<>>
    /\ last_prices = [m \in {"BTC", "asset"} |-> NoPrice]
    /\ label = "INITIALIZING"
    /\ global_risk = [available |-> FALSE, ratio |-> NoNumber, regime |-> "initializing"]
    /\ relation = [valid |-> FALSE, transmission |-> FALSE, observations |-> 0]
    /\ state = [present |-> FALSE, valid |-> FALSE, score |-> NoNumber, rv |-> NoNumber,
                volatility |-> "INITIALIZING", fallback |-> FALSE]

-----------------------------------------------------------------------------
(* Global risk *)

\* The k-th lowest of the values.
Lowest(values, k) ==
    Min({values[i] : i \in {j \in DOMAIN values :
            Cardinality({h \in DOMAIN values : values[h] <= values[j]}) >= k}})

\* The median of the values; of an even number, that of the middle two.
Median(values) ==
    LET n == Len(values)
    IN  (Lowest(values, (n + 1) \div 2) + Lowest(values, (n + 2) \div 2)) \div 2

\* _global_snapshot_values: no IV without BTC's snapshot, or one that is 0.
IvAvailable(t) == t.btc # NoNumber /\ t.iv > 0 /\ t.iv_age <= IvStale

\* What is left once what is too old has been taken from its front.
RecentIv(now) ==
    LET n == Len(iv_history)
        first == Min({i \in 1..(n + 1) : i <= n => iv_history[i].at >= now - IvWindow})
    IN  SubSeq(iv_history, first, n)

\* GlobalRiskEngine.update: the ratio is to what was there before.
GlobalRisk(t, now) ==
    LET before == [i \in DOMAIN RecentIv(now) |-> RecentIv(now)[i].iv]
        ratio == IF IvAvailable(t) /\ Len(before) >= IvSamples
                 THEN (100 * t.iv) \div Median(before) ELSE NoNumber
    IN  [available |-> IvAvailable(t), ratio |-> ratio,
         regime |-> CASE ratio = NoNumber -> "initializing"
                      [] ratio >= Extreme -> "extreme"
                      [] ratio >= Elevated /\ ratio < Extreme -> "elevated"
                      [] ratio # NoNumber /\ ratio < Elevated -> "normal"]

-----------------------------------------------------------------------------
(* The relationship *)

\* A plausible mistake: whenever both markets had a price.
TogetherAtAnyTime(asset, btc) == asset.price # NoNumber /\ btc.price # NoNumber

\* The returns of both begin about when the other does.
Together(asset, btc) ==
    /\ asset.price # NoNumber /\ btc.price # NoNumber
    /\ asset.at - btc.at <= RelationGap /\ btc.at - asset.at <= RelationGap

\* RollingBTCRelationshipEngine.update: without BTC's price, before or now, there
\* is no return, and the market's own price is remembered all the same.
NewReturns(t, now) ==
    LET btc == last_prices["BTC"]
        asset == last_prices["asset"]
    IN  IF t.btc # NoNumber /\ t.asset # NoNumber /\ Together(asset, btc)
        THEN Append(returns, [at |-> now, asset |-> t.asset - asset.price,
                              btc |-> t.btc - btc.price,
                              asset_since |-> asset.at, btc_since |-> btc.at])
        ELSE returns

NewPrices(t, now) ==
    [m \in DOMAIN last_prices |->
        LET price == IF m = "BTC" THEN t.btc ELSE t.asset
        IN  IF price = NoNumber THEN last_prices[m] ELSE [at |-> now, price |-> price]]

\* n squared times the covariance, over the rows of some indices.
Covariance(rows, a, b) ==
    Cardinality(rows) * MapThenSumSet(LAMBDA i : a[i] * b[i], rows)
    - MapThenSumSet(LAMBDA i : a[i], rows) * MapThenSumSet(LAMBDA i : b[i], rows)

\* _state: neither may stand still, and the newest return may not be old.
Relation(all, now) ==
    LET rows == {i \in DOMAIN all : now - RelationWindow < all[i].at /\ all[i].at <= now}
        asset == [i \in rows |-> all[i].asset]
        btc == [i \in rows |-> all[i].btc]
        moves == /\ rows # {}
                 /\ Covariance(rows, asset, asset) > 0 /\ Covariance(rows, btc, btc) > 0
        valid == /\ moves /\ Cardinality(rows) >= RelationObservations
                 /\ now - all[Max(rows)].at <= RelationStale
    IN  [valid |-> valid, observations |-> Cardinality(rows),
         transmission |-> valid /\ Covariance(rows, asset, btc) # 0]

-----------------------------------------------------------------------------
(* The market's state *)

\* calculate_combined_volatility_score: of the parts that are there.
Combined(rv, transmitted) ==
    LET rvWeight == IF rv = NoNumber THEN 0 ELSE LocalWeight
        ivWeight == IF transmitted = NoNumber THEN 0 ELSE IvWeight
    IN  IF rvWeight + ivWeight = 0 THEN NoNumber
        ELSE ((IF rvWeight = 0 THEN 0 ELSE rv * rvWeight)
              + (IF ivWeight = 0 THEN 0 ELSE transmitted * ivWeight)) \div (rvWeight + ivWeight)

\* update, of the market that is not BTC: its own implied volatility is not used.
AssetState(t, risk, related) ==
    LET fallback == ~risk.available \/ risk.ratio = NoNumber
        transmitted == CASE fallback \/ IvWeight = 0 -> NoNumber
                         [] OTHER -> IF related.transmission THEN risk.ratio ELSE 0
        combined == Combined(t.rv, transmitted)
        score == IF fallback /\ MissingBehavior = "defensive"
                 THEN Max({combined, 0, DefensiveScore}) ELSE combined
    IN  [present |-> TRUE, fallback |-> fallback, score |-> score, rv |-> t.rv,
         valid |-> t.valid /\ ~(fallback /\ MissingBehavior = "pause"),
         volatility |->
            CASE score = NoNumber -> "INITIALIZING"
              [] OTHER -> IF score >= (IF label = "HIGH" THEN VolatilityExit
                                       ELSE VolatilityEnter)
                          THEN "HIGH" ELSE "NORMAL"]

\* _invalid_state: the market is disabled for the tick.
MissingState ==
    [present |-> FALSE, valid |-> FALSE, score |-> NoNumber, rv |-> NoNumber,
     volatility |-> "INITIALIZING", fallback |-> FALSE]

\* One tick of the state engine.
MultiAssetTick ==
    /\ ticks < MaxTicks /\ ticks' = ticks + 1
    /\ \E t \in Ticks, step \in TickSteps :
       LET now == timestamp + step
           risk == GlobalRisk(t, now)
           related == Relation(NewReturns(t, now), now)
           told == IF t.asset = NoNumber THEN MissingState ELSE AssetState(t, risk, related)
       IN  /\ timestamp' = now
           /\ global_risk' = risk
           /\ iv_history' = IF risk.available
                            THEN Append(RecentIv(now), [at |-> now, iv |-> t.iv])
                            ELSE RecentIv(now)
           /\ returns' = NewReturns(t, now) /\ last_prices' = NewPrices(t, now)
           /\ relation' = related /\ state' = told
           /\ label' = IF told.score = NoNumber THEN label ELSE told.volatility

MultiAssetSpec == MultiAssetInit /\ [][MultiAssetTick]_multiVars

-----------------------------------------------------------------------------
(* Properties *)

\* What reaches a market from BTC is fresh and measured: a regime rests on an IV
\* that is not stale and on enough before it, within the window; a relationship
\* that is valid rests on enough returns within the window, both of whose
\* stretches began within the gap of one another; and without IV the market is
\* judged by its own volatility alone, or as the configuration says of it.
MeasuredBeforeTold ==
    /\ global_risk.regime # "initializing" =>
          /\ global_risk.available /\ Len(iv_history) > IvSamples
          /\ \A i \in DOMAIN iv_history : iv_history[i].at >= timestamp - IvWindow
    /\ relation.valid =>
          LET recent == {i \in DOMAIN returns : returns[i].at > timestamp - RelationWindow}
          IN  /\ Cardinality(recent) >= RelationObservations
              /\ \E i \in recent : returns[i].at >= timestamp - RelationStale
              /\ \A i \in recent :
                    LET apart == returns[i].asset_since - returns[i].btc_since
                    IN  apart <= RelationGap /\ -apart <= RelationGap
    /\ state.present /\ state.fallback =>
          CASE MissingBehavior = "pause" -> ~state.valid
            [] MissingBehavior = "defensive" -> state.score >= DefensiveScore
            [] MissingBehavior = "rv_only" ->
                  state.score = IF LocalWeight = 0 THEN NoNumber ELSE state.rv
    /\ state.volatility = "HIGH" => state.score >= VolatilityExit
    /\ state.volatility = "NORMAL" => state.score < VolatilityEnter
================================================================================
