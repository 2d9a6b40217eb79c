---------------------------- MODULE ModeHierarchy ----------------------------
(***************************************************************************)
(* The stateless half of Stage 3: determine_candidate_mode, the ordered    *)
(* risk hierarchy that turns one MarketState into a candidate grid mode.   *)
(*                                                                         *)
(* Ratios, scores and confidences are integers in hundredths; Missing is   *)
(* the integer that stands for one that is absent or not finite.  The      *)
(* explanatory texts are left out, but for the one the selector compares:  *)
(* the reason of an extreme-volatility pause, which carries the score      *)
(* (rounded to hundredths, as the `.2f` of the source does) and is         *)
(* modelled by it.                                                         *)
(***************************************************************************)
EXTENDS Integers

CONSTANTS
    Missing,                     \* in place of a number that is not there
    CriticalConfidence,          \* critical_confidence
    MinimumModeConfidence,       \* minimum_mode_confidence
    MinimumBiasConfidence,       \* minimum_bias_confidence
    BiasDirectionThreshold,      \* bias_direction_score_threshold
    BiasInventoryLimit,          \* bias_inventory_limit
    InventorySoftLimit,          \* inventory_soft_limit
    InventoryHardLimit,          \* inventory_hard_limit
    DefensiveVolatility,         \* defensive_volatility_score
    ExtremeVolatility,           \* extreme_volatility_score
    DefensiveIvRatio             \* defensive_iv_ratio_threshold

\* ModeSelectorConfig.validate_threshold_order and the Field bounds.
ASSUME ThresholdAssumption ==
    /\ {CriticalConfidence, MinimumModeConfidence, MinimumBiasConfidence} \subseteq Nat
    /\ CriticalConfidence <= MinimumModeConfidence
    /\ MinimumModeConfidence <= MinimumBiasConfidence
    /\ {BiasInventoryLimit, InventorySoftLimit, InventoryHardLimit} \subseteq Nat
    /\ BiasInventoryLimit <= InventorySoftLimit
    /\ InventorySoftLimit <= InventoryHardLimit
    /\ 0 < InventoryHardLimit
    /\ BiasDirectionThreshold \in Nat
    /\ {DefensiveVolatility, ExtremeVolatility, DefensiveIvRatio} \subseteq Nat \ {0}
    /\ DefensiveVolatility < ExtremeVolatility

GridMode == {"NORMAL", "DEFENSIVE", "LONG_BIAS", "SHORT_BIAS", "PAUSE"}

PauseCategory == {"DATA_CRITICAL", "HARD_RISK", "STRATEGY_REGIME"}

ASSUME MissingAssumption == Missing \in Int

\* The fields of a MarketState the hierarchy reads.
MarketState ==
    [state_valid      : BOOLEAN,
     confidence       : Int,
     inventory_state  : {"KNOWN", "UNKNOWN"},
     inventory_ratio  : Int,
     volatility_score : Int,
     volatility_state : {"INITIALIZING", "LOW", "NORMAL", "HIGH"},
     iv_ratio         : Int,
     direction_state  : {"INITIALIZING", "NEUTRAL", "BULLISH", "BEARISH"},
     direction_score  : Int]

\* A ModeEvaluation: the mode, what is kept of its first reason, and the
\* category of the pause (STRATEGY_REGIME is the dataclass default).
ModeEvaluation ==
    [mode : GridMode, reason : Int, pause_category : PauseCategory]

Evaluation(mode, reason, category) ==
    [mode |-> mode, reason |-> reason, pause_category |-> category]

Magnitude(x) == IF x < 0 THEN -x ELSE x

(***************************************************************************)
(* The rungs of the ladder, in the order of the source.                    *)
(***************************************************************************)
DataCritical(s) ==
    \/ ~s.state_valid
    \/ s.confidence = Missing
    \/ s.confidence < CriticalConfidence

HardRisk(s) ==
    \/ s.inventory_state = "UNKNOWN"
    \/ s.inventory_ratio = Missing
    \/ Magnitude(s.inventory_ratio) >= InventoryHardLimit

VolatilityUnavailable(s) == s.volatility_score = Missing \/ s.volatility_score < 0

VolatilityExtreme(s) == s.volatility_score >= ExtremeVolatility

\* Slip: the soft limit compared with the signed ratio, blind to shorts.
SignedMustDefend(s) ==
    \/ s.volatility_state = "HIGH"
    \/ s.volatility_score >= DefensiveVolatility
    \/ s.iv_ratio # Missing /\ s.iv_ratio >= DefensiveIvRatio
    \/ s.inventory_ratio >= InventorySoftLimit
    \/ s.confidence < MinimumModeConfidence

MustDefend(s) ==
    \/ s.volatility_state = "HIGH"
    \/ s.volatility_score >= DefensiveVolatility
    \/ s.iv_ratio # Missing /\ s.iv_ratio >= DefensiveIvRatio
    \/ Magnitude(s.inventory_ratio) >= InventorySoftLimit
    \/ s.confidence < MinimumModeConfidence

LongBiasPermitted(s) ==
    /\ s.direction_state = "BULLISH"
    /\ s.direction_score # Missing
    /\ s.direction_score >= BiasDirectionThreshold
    /\ s.confidence >= MinimumBiasConfidence
    /\ s.inventory_ratio < BiasInventoryLimit

\* Slip: the sign of the inventory limit lost in the second copy.
UnsignedShortBiasPermitted(s) ==
    /\ s.direction_state = "BEARISH"
    /\ s.direction_score # Missing
    /\ s.direction_score <= -BiasDirectionThreshold
    /\ s.confidence >= MinimumBiasConfidence
    /\ s.inventory_ratio > BiasInventoryLimit

ShortBiasPermitted(s) ==
    /\ s.direction_state = "BEARISH"
    /\ s.direction_score # Missing
    /\ s.direction_score <= -BiasDirectionThreshold
    /\ s.confidence >= MinimumBiasConfidence
    /\ s.inventory_ratio > -BiasInventoryLimit

DetermineCandidateMode(s) ==
    IF DataCritical(s) THEN Evaluation("PAUSE", Missing, "DATA_CRITICAL")
    ELSE IF HardRisk(s) THEN Evaluation("PAUSE", Missing, "HARD_RISK")
    ELSE IF VolatilityUnavailable(s) THEN Evaluation("PAUSE", Missing, "DATA_CRITICAL")
    ELSE IF VolatilityExtreme(s)
         THEN Evaluation("PAUSE", s.volatility_score, "STRATEGY_REGIME")
    ELSE IF s.volatility_state = "INITIALIZING"
         THEN Evaluation("PAUSE", Missing, "DATA_CRITICAL")
    ELSE Evaluation(CASE MustDefend(s) -> "DEFENSIVE"
                      [] ~MustDefend(s) /\ LongBiasPermitted(s)  -> "LONG_BIAS"
                      [] ~MustDefend(s) /\ ShortBiasPermitted(s) -> "SHORT_BIAS"
                      [] OTHER -> "NORMAL",
                    Missing, "STRATEGY_REGIME")

(***************************************************************************)
(* What the hierarchy owes its callers.                                    *)
(***************************************************************************)
Severity(s) ==
    LET mode == DetermineCandidateMode(s).mode
    IN  CASE mode = "PAUSE" -> 2 [] mode = "DEFENSIVE" -> 1 [] OTHER -> 0

\* The absent value is the worst one for every input but the option IV, whose
\* absence leaves the realized-volatility fallback in charge.
NoSafer(x, y) == x = Missing \/ (y # Missing /\ x <= y)

VolatilityRank(state) ==
    CASE state = "INITIALIZING" -> 2 [] state = "HIGH" -> 1 [] OTHER -> 0

\* Every risk input of a is at least as bad as that of b.
Riskier(a, b) ==
    /\ a.state_valid => b.state_valid
    /\ NoSafer(a.confidence, b.confidence)
    /\ \/ a.inventory_state = "UNKNOWN"
       \/ a.inventory_ratio = Missing
       \/ /\ b.inventory_state # "UNKNOWN"
          /\ b.inventory_ratio # Missing
          /\ Magnitude(a.inventory_ratio) >= Magnitude(b.inventory_ratio)
    /\ \/ VolatilityUnavailable(a)
       \/ ~VolatilityUnavailable(b) /\ a.volatility_score >= b.volatility_score
    /\ VolatilityRank(a.volatility_state) >= VolatilityRank(b.volatility_state)
    /\ b.iv_ratio = Missing \/ (a.iv_ratio # Missing /\ a.iv_ratio >= b.iv_ratio)

\* Risk always overrides direction: no worsening of a risk input, whatever the
\* direction does, ever selects a less cautious candidate (the ladder of
\* determine_candidate_mode has no rung that shadows a stricter one).
RiskNeverRelaxes(a, b) == Riskier(a, b) => Severity(a) >= Severity(b)

Mirrored(s) ==
    [s EXCEPT !.inventory_ratio = IF @ = Missing THEN Missing ELSE -@,
              !.direction_score = IF @ = Missing THEN Missing ELSE -@,
              !.direction_state = CASE @ = "BULLISH" -> "BEARISH"
                                    [] @ = "BEARISH" -> "BULLISH"
                                    [] OTHER -> @]

MirroredMode(mode) ==
    CASE mode = "LONG_BIAS" -> "SHORT_BIAS"
      [] mode = "SHORT_BIAS" -> "LONG_BIAS"
      [] OTHER -> mode

\* The ladder has no preferred side: the mirror image of a market gets the
\* mirror image of its mode (the long and the short branches are written out
\* twice in determine_candidate_mode).
NoPreferredSide(s) ==
    DetermineCandidateMode(Mirrored(s)).mode = MirroredMode(DetermineCandidateMode(s).mode)
=============================================================================
