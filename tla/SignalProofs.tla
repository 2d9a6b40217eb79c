---------------------------- MODULE SignalProofs ----------------------------
(***************************************************************************)
(* Proofs about the two components the plans take their signals from: the  *)
(* mode selector, for every configuration, every set of observed market    *)
(* states and every horizon, and after it the state engine, for any        *)
(* thresholds, windows and number of samples.                              *)
(*                                                                         *)
(* The engine keeps a label and a count, while the theorems about its      *)
(* direction speak of the last scores.  What links them is PendingIsRun:   *)
(* the pending label is what the newest scores, as many as are counted,    *)
(* call for, and the score before them does not.  That its history can be  *)
(* judged by, however long, rests on HistoryInv: the points of each pair   *)
(* are within the retention and in the order of their ages.                *)
(***************************************************************************)
EXTENDS ModeSelector, StateEngine, SequenceTheorems, WellFoundedInduction, TLAPS

\* Every evaluation is well formed, and a strategy-regime pause, the only one
\* that may be put off, names the score it was called for.
LEMMA EvaluationShape ==
    ASSUME NEW e \in Evaluations
    PROVE  /\ e \in ModeEvaluation
           /\ Extreme(e) <=> e.reason # Missing
<1>1. PICK s \in MarketState : e = DetermineCandidateMode(s)
  BY SelectorAssumption DEF Evaluations
<1>. DEFINE working == CASE MustDefend(s) -> "DEFENSIVE"
                         [] ~MustDefend(s) /\ LongBiasPermitted(s)  -> "LONG_BIAS"
                         [] ~MustDefend(s) /\ ShortBiasPermitted(s) -> "SHORT_BIAS"
                         [] OTHER -> "NORMAL"
<1>2. working \in WorkingMode
  <2>. HIDE DEF MustDefend, LongBiasPermitted, ShortBiasPermitted
  <2>. QED BY DEF WorkingMode, GridMode
<1>. HIDE DEF working
<1>3. \/ e = Evaluation("PAUSE", Missing, "DATA_CRITICAL")
      \/ e = Evaluation("PAUSE", Missing, "HARD_RISK")
      \/ VolatilityExtreme(s) /\ ~VolatilityUnavailable(s)
            /\ e = Evaluation("PAUSE", s.volatility_score, "STRATEGY_REGIME")
      \/ e = Evaluation(working, Missing, "STRATEGY_REGIME")
  BY <1>1 DEF DetermineCandidateMode, working
<1>. QED
  BY <1>2, <1>3, MissingAssumption
  DEF Evaluation, ModeEvaluation, Extreme, GridMode, WorkingMode, PauseCategory,
      VolatilityUnavailable, MarketState

-----------------------------------------------------------------------------
\* The value in place of a mode or of a category is none.
LEMMA NoneDiffers ==
    /\ NoMode \notin GridMode /\ NoCategory \notin PauseCategory
    /\ NoMode # "PAUSE" /\ NoCategory # "STRATEGY_REGIME"
    /\ WorkingMode \subseteq GridMode /\ "PAUSE" \notin WorkingMode
    /\ Missing \in Int
  BY MissingAssumption DEF NoMode, NoCategory, GridMode, PauseCategory, WorkingMode

\* The parameters of a step, as the step lemmas use them.
LEMMA Parameters ==
    /\ Timestamp \subseteq Nat /\ 0 \in Timestamp
    /\ NoTime \in Int /\ NoTime \notin Timestamp
    /\ OptionalTimestamp = Timestamp \union {NoTime}
    /\ PauseRecoverySamples \in Nat \ {0} /\ ModeConfirmationSamples \in Nat \ {0}
    /\ DefensiveExitSamples \in Nat \ {0}
    /\ PauseEntryConfirm \in Nat /\ PauseExitConfirm \in Nat
    /\ PauseRecoverySeconds \in Nat /\ MinimumModeDuration \in Nat
  BY SelectorAssumption DEF Timestamp, NoTime, OptionalTimestamp

LEMMA InitInvariant == Init => IInv
<1>. SUFFICES ASSUME Init PROVE IInv
  OBVIOUS
<1>1. TypeOK
  BY NoneDiffers, Parameters
  DEF Init, TypeOK, NoHistory, NoPauseCandidate, NoRecoveryCandidate
<1>2. SelectorRemembers /\ WorkingModeJustified
  BY NoneDiffers, Parameters DEF Init, SelectorRemembers, WorkingModeJustified, Untouched
<1>. QED
  BY <1>1, <1>2 DEF IInv

-----------------------------------------------------------------------------
LEMMA RejectStep ==
    ASSUME IInv, NEW t \in OptionalTimestamp, RejectObservation(t)
    PROVE  IInv'
<1>. USE DEF RejectObservation, ForcePause, Activate, RecordUnusable
<1>1. TypeOK'
  BY NoneDiffers, Parameters
  DEF IInv, TypeOK, NoHistory, NoPauseCandidate, NoRecoveryCandidate, PauseCategory, GridMode
<1>2. SelectorRemembers' /\ WorkingModeJustified'
  BY NoneDiffers, Parameters DEF SelectorRemembers, PauseRemembers, WorkingModeJustified, NoHistory
<1>. QED
  BY <1>1, <1>2 DEF IInv

LEMMA AcceptTypes ==
    ASSUME TypeOK, NEW e \in Evaluations, NEW t \in Timestamp, Accept(e, t)
    PROVE  /\ last_timestamp_seconds' = t
           /\ observed' \in [mode : GridMode \union {NoMode}, count : Nat,
                    since : OptionalTimestamp,
                    safe_since : OptionalTimestamp,
                    extreme_since : OptionalTimestamp,
                    reason : Int, reason_since : OptionalTimestamp,
                    pause_category : PauseCategory \union {NoCategory},
                    changed_at : OptionalTimestamp]
           /\ observed'.mode = e.mode
  BY EvaluationShape, NoneDiffers, Parameters DEF TypeOK, Accept, Record, RunSince, ModeEvaluation

LEMMA PauseStep ==
    ASSUME IInv, NEW e \in Evaluations, NEW t \in Timestamp, UpdatePause(e, t)
    PROVE  IInv'
<1>. USE DEF UpdatePause, ForcePause, Activate
<1>1. TypeOK'
  BY NoneDiffers, Parameters, EvaluationShape, AcceptTypes
  DEF IInv, TypeOK, NoPauseCandidate, NoRecoveryCandidate, GridMode, ModeEvaluation
<1>2. SelectorRemembers' /\ WorkingModeJustified'
  BY NoneDiffers, Parameters
  DEF SelectorRemembers, PauseRemembers, WorkingModeJustified, Accept, Record
<1>. QED
  BY <1>1, <1>2 DEF IInv

LEMMA PendingStep ==
    ASSUME IInv, NEW e \in Evaluations, NEW t \in Timestamp, Newer(t),
           UpdatePendingPause(e, t)
    PROVE  IInv'
<1>. DEFINE same == pause_candidate.reason = e.reason
            tracked == [reason |-> e.reason,
                        since  |-> IF same THEN pause_candidate.since ELSE t,
                        count  |-> IF same THEN pause_candidate.count + 1 ELSE 1]
<1>0. /\ Extreme(e) /\ e.mode = "PAUSE" /\ e.reason \in Int \ {Missing}
      /\ current_mode \in WorkingMode /\ WorkRemembers /\ Accept(e, t)
  BY EvaluationShape, NoneDiffers, Parameters
  DEF UpdatePendingPause, Deferrable, Extreme, IInv, TypeOK, SelectorRemembers, WorkingMode,
      ModeEvaluation
<1>1. /\ tracked \in [reason : Int, since : OptionalTimestamp, count : Nat]
      /\ tracked.since \in Timestamp
      /\ tracked.reason = e.reason
      /\ observed'.reason = e.reason
      /\ observed'.reason_since = tracked.since
  BY <1>0, NoneDiffers, Parameters DEF IInv, TypeOK, WorkRemembers, Accept, Record, RunSince
<1>2. CASE t - tracked.since >= PauseEntryConfirm
  <2>1. Activate("PAUSE", t, e.pause_category)
    BY <1>2 DEF UpdatePendingPause
  <2>2. TypeOK'
    BY <1>0, <2>1, NoneDiffers, Parameters, EvaluationShape, AcceptTypes
    DEF IInv, TypeOK, Activate, NoPauseCandidate, NoRecoveryCandidate, GridMode, ModeEvaluation
  <2>3. SelectorRemembers' /\ WorkingModeJustified'
    BY <1>0, <2>1, NoneDiffers, Parameters
    DEF SelectorRemembers, PauseRemembers, WorkingModeJustified, Activate, Accept, Record, Extreme
  <2>. QED
    BY <2>2, <2>3 DEF IInv
<1>3. CASE ~(t - tracked.since >= PauseEntryConfirm)
  <2>1. /\ pause_candidate' = tracked
        /\ KeepMode
        /\ UNCHANGED <<candidate_mode, candidate_count, pause_safe_since, recovery_candidate>>
    BY <1>3 DEF UpdatePendingPause
  <2>. HIDE DEF tracked
  <2>2. TypeOK'
    BY <1>0, <1>1, <2>1, AcceptTypes, Parameters DEF IInv, TypeOK, KeepMode
  <2>3. WorkRemembers'
    BY <1>0, <1>1, <2>1, NoneDiffers, Parameters, AcceptTypes
    DEF IInv, WorkRemembers, KeepMode, Accept, Record
  <2>4. SelectorRemembers'
    BY <1>0, <2>1, <2>3, NoneDiffers, Parameters DEF SelectorRemembers, KeepMode
  <2>5. WorkingModeJustified'
    <3>. DEFINE since == tracked.since
    <3>0. since \in Timestamp
      BY <1>1
    <3>. HIDE DEF since
    <3>1. since \in Int /\ since # NoTime /\ t \in Int
      BY <3>0, Parameters
    <3>2. t - since < PauseEntryConfirm
      BY <1>3, <3>1, Parameters DEF since
    <3>. QED
      BY <1>0, <1>1, <3>1, <3>2, AcceptTypes DEF IInv, WorkingModeJustified, since
  <2>. QED
    BY <2>2, <2>4, <2>5 DEF IInv
<1>. QED
  BY <1>2, <1>3

\* Activating a working mode dates it to the observation, and history agrees:
\* the mode has changed just now.
LEMMA ActivateWorkingMode ==
    ASSUME IInv, NEW e \in Evaluations, NEW t \in Timestamp, NEW mode \in WorkingMode,
           e.mode # "PAUSE", current_mode # mode,
           Activate(mode, t, NoCategory), Accept(e, t)
    PROVE  IInv'
<1>1. TypeOK'
  BY NoneDiffers, Parameters, AcceptTypes
  DEF IInv, TypeOK, Activate, NoPauseCandidate, NoRecoveryCandidate
<1>2. e.reason = Missing /\ e.mode \in WorkingMode /\ ~Extreme(e) /\ e.mode # NoMode
  BY EvaluationShape, NoneDiffers, Parameters DEF Extreme, ModeEvaluation, WorkingMode
<1>3. WorkRemembers'
  BY <1>2, NoneDiffers, Parameters
  DEF WorkRemembers, Activate, Accept, Record, NoPauseCandidate
<1>4. SelectorRemembers'
  BY <1>3, NoneDiffers, Parameters DEF SelectorRemembers, Activate
<1>5. WorkingModeJustified'
  BY <1>2 DEF WorkingModeJustified, Accept, Record
<1>. QED
  BY <1>1, <1>4, <1>5 DEF IInv

LEMMA RecoveryStep ==
    ASSUME IInv, NEW e \in Evaluations, NEW t \in Timestamp, Newer(t),
           UpdateRecovery(e, t)
    PROVE  IInv'
<1>. DEFINE safe_since == IF pause_safe_since = NoTime THEN t ELSE pause_safe_since
<1>1. /\ e.mode \in WorkingMode /\ e.mode # "PAUSE" /\ Accept(e, t)
      /\ current_mode \in {NoMode, "PAUSE"} /\ TypeOK
      /\ ~Extreme(e)
  BY EvaluationShape DEF UpdateRecovery, WorkingMode, ModeEvaluation, IInv, Extreme
<1>2. CASE Activate(e.mode, t, NoCategory)
  BY <1>1, <1>2, ActivateWorkingMode, NoneDiffers, Parameters
<1>3. CASE ~Activate(e.mode, t, NoCategory)
  <2>1. /\ Track(e.mode)
        /\ current_mode' = "PAUSE"
        /\ mode_entered_at' = IF current_mode = NoMode THEN t ELSE mode_entered_at
        /\ pause_safe_since' = safe_since
        /\ pause_candidate' = NoPauseCandidate
        /\ recovery_candidate' =
              [mode  |-> e.mode,
               since |-> IF recovery_candidate.mode = e.mode
                         THEN recovery_candidate.since ELSE t,
               count |-> IF recovery_candidate.mode = e.mode
                         THEN recovery_candidate.count + 1 ELSE 1]
        /\ pause_active_category' = pause_active_category
    BY <1>3 DEF UpdateRecovery
  <2>2. TypeOK'
    BY <1>1, <2>1, NoneDiffers, Parameters, AcceptTypes
    DEF TypeOK, Track, NextCount, NoPauseCandidate, GridMode
  <2>3. PauseRemembers'
    <3>1. candidate_mode' = observed'.mode /\ candidate_count' <= observed'.count
      BY <1>1, <2>1, NoneDiffers, Parameters
      DEF IInv, TypeOK, SelectorRemembers, Untouched, PauseRemembers, Track, NextCount,
          Accept, Record
    <3>2. pause_safe_since' = observed'.safe_since
      BY <1>1, <2>1, NoneDiffers, Parameters
      DEF IInv, TypeOK, SelectorRemembers, Untouched, NoHistory, PauseRemembers, Accept,
          Record, RunSince
    <3>3. observed'.pause_category = "STRATEGY_REGIME" =>
             pause_active_category' = "STRATEGY_REGIME"
      BY <1>1, <2>1, NoneDiffers, Parameters
      DEF IInv, SelectorRemembers, Untouched, NoHistory, PauseRemembers, Accept, Record
    <3>. QED
      BY <3>1, <3>2, <3>3 DEF PauseRemembers
  <2>4. SelectorRemembers' /\ WorkingModeJustified'
    BY <2>1, <2>3, NoneDiffers, Parameters DEF SelectorRemembers, WorkingModeJustified
  <2>. QED
    BY <2>2, <2>4 DEF IInv
<1>. QED
  BY <1>2, <1>3

\* A working mode that stays under a working candidate.
LEMMA StayStep ==
    ASSUME IInv, NEW e \in Evaluations, NEW t \in Timestamp, Accept(e, t),
           e.mode # "PAUSE", current_mode \in WorkingMode,
           Stay, ResetCandidate \/ \E mode \in WorkingMode : Track(mode)
    PROVE  IInv'
<1>1. /\ e.reason = Missing /\ e.mode \in WorkingMode /\ ~Extreme(e) /\ e.mode # NoMode
      /\ WorkRemembers
  BY EvaluationShape, NoneDiffers, Parameters
  DEF Extreme, ModeEvaluation, WorkingMode, IInv, SelectorRemembers
<1>2. TypeOK'
  BY NoneDiffers, Parameters, AcceptTypes
  DEF IInv, TypeOK, Stay, KeepMode, ResetCandidate, Track, NextCount, NoPauseCandidate
<1>3. WorkRemembers'
  BY <1>1, NoneDiffers, Parameters
  DEF WorkRemembers, Stay, KeepMode, Accept, Record, NoPauseCandidate
<1>4. SelectorRemembers'
  BY <1>3, NoneDiffers, Parameters DEF SelectorRemembers, Stay, KeepMode
<1>5. WorkingModeJustified'
  BY <1>1 DEF WorkingModeJustified, Accept, Record
<1>. QED
  BY <1>2, <1>4, <1>5 DEF IInv

LEMMA DefensiveStep ==
    ASSUME IInv, NEW e \in Evaluations, NEW t \in Timestamp, Newer(t),
           UpdateDefensive(e, t)
    PROVE  IInv'
<1>1. Accept(e, t) /\ e.mode # "PAUSE" /\ current_mode = "DEFENSIVE"
  BY DEF UpdateDefensive
<1>2. "DEFENSIVE" \in WorkingMode /\ "NORMAL" \in WorkingMode
  BY DEF WorkingMode, GridMode
<1>3. CASE Activate("NORMAL", t, NoCategory)
  BY <1>1, <1>2, <1>3, ActivateWorkingMode
<1>4. CASE Stay /\ (ResetCandidate \/ Track("NORMAL"))
  BY <1>1, <1>2, <1>4, StayStep
<1>. QED
  BY <1>3, <1>4 DEF UpdateDefensive

LEMMA WorkingStep ==
    ASSUME IInv, NEW e \in Evaluations, NEW t \in Timestamp, Newer(t),
           UpdateWorking(e, t)
    PROVE  IInv'
<1>1. Accept(e, t) /\ e.mode # "PAUSE" /\ current_mode \in WorkingMode /\ e.mode \in WorkingMode
  BY EvaluationShape DEF UpdateWorking, WorkingMode, GridMode, ModeEvaluation
<1>2. CASE e.mode # current_mode /\ Activate(e.mode, t, NoCategory)
  BY <1>1, <1>2, ActivateWorkingMode
<1>3. CASE Stay /\ (ResetCandidate \/ Track(e.mode))
  BY <1>1, <1>3, StayStep
<1>. QED
  BY <1>2, <1>3 DEF UpdateWorking

LEMMA StutterStep == IInv /\ UNCHANGED vars => IInv'
  BY DEF IInv, TypeOK, SelectorRemembers, Untouched, PauseRemembers, WorkRemembers,
         WorkingModeJustified, vars, selector

LEMMA NextInvariant == IInv /\ [Next]_vars => IInv'
<1>. SUFFICES ASSUME IInv, [Next]_vars PROVE IInv'
  OBVIOUS
<1>1. CASE UpdateMalformed
  BY <1>1, RejectStep DEF UpdateMalformed
<1>2. CASE UpdateStale
  BY <1>2, RejectStep, Parameters DEF UpdateStale
<1>3. ASSUME NEW e \in Evaluations, NEW t \in {u \in Timestamp : Newer(u)},
             \/ UpdatePause(e, t) \/ UpdatePendingPause(e, t) \/ UpdateRecovery(e, t)
             \/ UpdateDefensive(e, t) \/ UpdateWorking(e, t)
      PROVE  IInv'
  <2>1. t \in Timestamp /\ Newer(t)
    OBVIOUS
  <2>. QED
    BY <1>3, <2>1, PauseStep, PendingStep, RecoveryStep, DefensiveStep, WorkingStep
<1>4. CASE UNCHANGED vars
  BY <1>4, StutterStep
<1>. QED
  BY <1>1, <1>2, <1>3, <1>4 DEF Next

LEMMA SpecInvariant == Spec => []IInv
  BY InitInvariant, NextInvariant, PTL DEF Spec

\* Every variable of the selector keeps to its type (class ModeSelector).
THEOREM TypeCorrect == Spec => []TypeOK
<1>1. IInv => TypeOK
  BY DEF IInv
<1>. QED
  BY <1>1, SpecInvariant, PTL

\* Whatever the configuration and however the observations are ordered, a
\* working mode is only kept while the last observation allows it: critical
\* data, hard risk and unusable observations pause at once, a strategy-regime
\* pause within the confirmation window of its reason (_apply_evaluation).
THEOREM WorkingModeIsJustified == Spec => []WorkingModeJustified
<1>1. IInv => WorkingModeJustified
  BY DEF IInv
<1>. QED
  BY <1>1, SpecInvariant, PTL

-----------------------------------------------------------------------------
LEMMA RejectedPauses ==
    ASSUME NEW t, RejectObservation(t)
    PROVE  current_mode' \notin WorkingMode
  BY NoneDiffers, Parameters DEF RejectObservation, ForcePause, Activate

LEMMA LeavePauseStep == IInv /\ Next => (LeavePause => RecoveryIsDue)
<1>. SUFFICES ASSUME IInv, Next, LeavePause PROVE RecoveryIsDue
  OBVIOUS
<1>1. PICK e \in Evaluations, t \in Timestamp : Newer(t) /\ UpdateRecovery(e, t)
  <2>1. ~UpdateMalformed /\ ~UpdateStale
    BY RejectedPauses DEF UpdateMalformed, UpdateStale, LeavePause
  <2>2. ASSUME NEW e \in Evaluations, NEW t \in Timestamp
        PROVE  ~UpdatePause(e, t) /\ ~UpdatePendingPause(e, t)
               /\ ~UpdateDefensive(e, t) /\ ~UpdateWorking(e, t)
    BY NoneDiffers, Parameters
    DEF LeavePause, UpdatePause, ForcePause, Activate, UpdatePendingPause, Deferrable,
        UpdateDefensive, UpdateWorking, GridMode
  <2>. QED
    BY <2>1, <2>2 DEF Next
<1>. DEFINE safe_since == IF pause_safe_since = NoTime THEN t ELSE pause_safe_since
<1>2. /\ e.mode \in WorkingMode /\ e.mode # "PAUSE" /\ e.mode # NoMode /\ ~Extreme(e)
      /\ Accept(e, t) /\ TypeOK /\ current_mode \in {NoMode, "PAUSE"}
  BY <1>1, EvaluationShape, NoneDiffers, Parameters
  DEF UpdateRecovery, WorkingMode, ModeEvaluation, IInv, Extreme
<1>3. /\ current_mode' = e.mode
      /\ NextCount(e.mode) >= PauseRecoverySamples
      /\ t - safe_since >= PauseRecoverySeconds
      /\ pause_active_category = "STRATEGY_REGIME" => t - safe_since >= PauseExitConfirm
  BY <1>1, NoneDiffers, Parameters DEF UpdateRecovery, LeavePause, Activate
<1>4. observed'.mode = e.mode /\ observed'.count >= NextCount(e.mode)
  BY <1>2, NoneDiffers, Parameters
  DEF IInv, TypeOK, SelectorRemembers, Untouched, NoHistory, PauseRemembers, NextCount,
      Accept, Record
<1>5. observed'.safe_since = safe_since
  BY <1>2, NoneDiffers, Parameters
  DEF IInv, TypeOK, SelectorRemembers, Untouched, NoHistory, PauseRemembers, Accept, Record,
      RunSince
<1>6. observed.pause_category = "STRATEGY_REGIME" => pause_active_category = "STRATEGY_REGIME"
  BY <1>2, NoneDiffers, Parameters DEF IInv, SelectorRemembers, Untouched, NoHistory, PauseRemembers
<1>7. last_timestamp_seconds' = t /\ t \in Int /\ NextCount(e.mode) \in Int /\ observed'.count \in Int
  BY <1>2, AcceptTypes, Parameters DEF TypeOK, NextCount
<1>. HIDE DEF safe_since
<1>. QED
  BY <1>3, <1>4, <1>5, <1>6, <1>7, Parameters DEF RecoveryIsDue

\* PAUSE is never left early: not by candidates that disagree, not by a run an
\* unusable observation broke, not before the exit window of a strategy-regime
\* pause is over (_pause_recovery).
THEOREM RecoveryIsEarned == Spec => RecoveryEarned
<1>1. IInv /\ [Next]_vars => [LeavePause => RecoveryIsDue]_vars
  BY LeavePauseStep
<1>. QED
  BY <1>1, SpecInvariant, PTL DEF Spec, RecoveryEarned

LEMMA ChangeModeStep == IInv /\ Next => (ChangeMode => ChangeIsDue)
<1>. SUFFICES ASSUME IInv, Next, ChangeMode PROVE ChangeIsDue
  OBVIOUS
<1>1. PICK e \in Evaluations, t \in Timestamp :
         /\ Newer(t)
         /\ UpdateDefensive(e, t) \/ UpdateWorking(e, t)
  <2>1. ~UpdateMalformed /\ ~UpdateStale
    BY RejectedPauses DEF UpdateMalformed, UpdateStale, ChangeMode
  <2>2. ASSUME NEW e \in Evaluations, NEW t \in Timestamp
        PROVE  ~UpdatePause(e, t) /\ ~UpdatePendingPause(e, t) /\ ~UpdateRecovery(e, t)
    BY NoneDiffers, Parameters
    DEF ChangeMode, UpdatePause, ForcePause, Activate, UpdatePendingPause, UpdateRecovery, KeepMode
  <2>. QED
    BY <2>1, <2>2 DEF Next
<1>2. /\ DurationSatisfied(t) /\ Accept(e, t)
      /\ current_mode # "DEFENSIVE" \/ current_mode' = "NORMAL"
  BY <1>1 DEF UpdateDefensive, UpdateWorking, ChangeMode, Activate, Stay, KeepMode
<1>3. mode_entered_at # NoTime /\ mode_entered_at = observed.changed_at
  BY NoneDiffers, Parameters DEF IInv, SelectorRemembers, WorkRemembers, ChangeMode
<1>. QED
  BY <1>2, <1>3 DEF ChangeIsDue, DurationSatisfied, Accept

\* A working mode is never flapped out of: it stays for the minimum duration,
\* and a defensive one returns to NORMAL first (_duration_satisfied,
\* _defensive_exit).
THEOREM WorkingModesReside == Spec => WorkingModeResides
<1>1. IInv /\ [Next]_vars => [ChangeMode => ChangeIsDue]_vars
  BY ChangeModeStep
<1>. QED
  BY <1>1, SpecInvariant, PTL DEF Spec, WorkingModeResides

-----------------------------------------------------------------------------
\* The severity of a candidate, rung by rung.
LEMMA SeverityByRung ==
    ASSUME NEW s \in MarketState
    PROVE  LET pause == \/ DataCritical(s) \/ HardRisk(s) \/ VolatilityUnavailable(s)
                        \/ VolatilityExtreme(s) \/ s.volatility_state = "INITIALIZING"
           IN  Severity(s) = IF pause THEN 2 ELSE IF MustDefend(s) THEN 1 ELSE 0
<1>. HIDE DEF DataCritical, HardRisk, VolatilityUnavailable, VolatilityExtreme, MustDefend,
              LongBiasPermitted, ShortBiasPermitted
<1>. QED
  BY DEF Severity, DetermineCandidateMode, Evaluation

\* Risk overrides direction for all thresholds and all market states: making
\* any input worse never makes determine_candidate_mode less cautious.
THEOREM RiskNeverRelaxesAnyState ==
    ASSUME NEW a \in MarketState, NEW b \in MarketState
    PROVE  RiskNeverRelaxes(a, b)
<1>. SUFFICES ASSUME Riskier(a, b) PROVE Severity(a) >= Severity(b)
  BY DEF RiskNeverRelaxes
<1>1. DataCritical(b) => DataCritical(a)
  BY ThresholdAssumption DEF Riskier, NoSafer, DataCritical, MarketState
<1>2. HardRisk(b) => HardRisk(a)
  BY ThresholdAssumption DEF Riskier, HardRisk, MarketState, Magnitude
<1>3. VolatilityUnavailable(b) => VolatilityUnavailable(a)
  BY DEF Riskier
<1>4. VolatilityExtreme(b) => VolatilityUnavailable(a) \/ VolatilityExtreme(a)
  BY ThresholdAssumption DEF Riskier, VolatilityExtreme, VolatilityUnavailable, MarketState
<1>5. b.volatility_state = "INITIALIZING" => a.volatility_state = "INITIALIZING"
  BY DEF Riskier, VolatilityRank, MarketState
<1>6. MustDefend(b) => \/ MustDefend(a)
                       \/ DataCritical(a) \/ HardRisk(a) \/ VolatilityUnavailable(a)
                       \/ a.volatility_state = "INITIALIZING"
  BY ThresholdAssumption
  DEF Riskier, NoSafer, MustDefend, DataCritical, HardRisk, VolatilityUnavailable,
      VolatilityRank, MarketState, Magnitude
<1>. QED
  BY <1>1, <1>2, <1>3, <1>4, <1>5, <1>6, SeverityByRung

\* The value in place of a number that is not there is none that a number has
\* once its sign is turned.
MirrorKnows(x) == x = Missing \/ -x # Missing

\* The ladder has no preferred side, whatever the thresholds: the long and the
\* short branches of determine_candidate_mode are each other's mirror image.
THEOREM LadderIsMirrored ==
    ASSUME NEW s \in MarketState,
           MirrorKnows(s.inventory_ratio), MirrorKnows(s.direction_score)
    PROVE  NoPreferredSide(s)
<1>. DEFINE m == Mirrored(s)
<1>1. /\ m.state_valid = s.state_valid /\ m.confidence = s.confidence
      /\ m.inventory_state = s.inventory_state
      /\ m.volatility_score = s.volatility_score /\ m.volatility_state = s.volatility_state
      /\ m.iv_ratio = s.iv_ratio
  BY DEF Mirrored, MarketState
<1>2. /\ m.inventory_ratio = IF s.inventory_ratio = Missing THEN Missing ELSE -s.inventory_ratio
      /\ m.direction_score = IF s.direction_score = Missing THEN Missing ELSE -s.direction_score
  BY DEF Mirrored, MarketState
<1>3. /\ m.direction_state = "BULLISH" <=> s.direction_state = "BEARISH"
      /\ m.direction_state = "BEARISH" <=> s.direction_state = "BULLISH"
  BY DEF Mirrored, MarketState
<1>4. /\ s.inventory_ratio \in Int /\ s.direction_score \in Int /\ Missing \in Int
      /\ s.confidence \in Int
  BY MissingAssumption DEF MarketState
<1>. HIDE DEF m
<1>5. /\ DataCritical(m) <=> DataCritical(s)
      /\ VolatilityUnavailable(m) <=> VolatilityUnavailable(s)
      /\ VolatilityExtreme(m) <=> VolatilityExtreme(s)
  BY <1>1 DEF DataCritical, VolatilityUnavailable, VolatilityExtreme
<1>6. HardRisk(m) <=> HardRisk(s)
  BY <1>1, <1>2, <1>4 DEF HardRisk, Magnitude, MirrorKnows
<1>7. ~HardRisk(s) => (MustDefend(m) <=> MustDefend(s))
  BY <1>1, <1>2, <1>4 DEF HardRisk, MustDefend, Magnitude
<1>8. ~HardRisk(s) => /\ LongBiasPermitted(m) <=> ShortBiasPermitted(s)
                      /\ ShortBiasPermitted(m) <=> LongBiasPermitted(s)
  <2>1. BiasDirectionThreshold \in Int /\ BiasInventoryLimit \in Int
    BY ThresholdAssumption
  <2>2. (m.direction_score # Missing /\ m.direction_score >= BiasDirectionThreshold)
          <=> (s.direction_score # Missing /\ s.direction_score <= -BiasDirectionThreshold)
    BY <1>2, <1>4, <2>1 DEF MirrorKnows
  <2>3. (m.direction_score # Missing /\ m.direction_score <= -BiasDirectionThreshold)
          <=> (s.direction_score # Missing /\ s.direction_score >= BiasDirectionThreshold)
    BY <1>2, <1>4, <2>1 DEF MirrorKnows
  <2>4. ~HardRisk(s) =>
          /\ m.inventory_ratio < BiasInventoryLimit <=> s.inventory_ratio > -BiasInventoryLimit
          /\ m.inventory_ratio > -BiasInventoryLimit <=> s.inventory_ratio < BiasInventoryLimit
    BY <1>2, <1>4, <2>1 DEF HardRisk
  <2>. QED
    BY <1>1, <1>3, <2>2, <2>3, <2>4 DEF LongBiasPermitted, ShortBiasPermitted
<1>9. ~(LongBiasPermitted(s) /\ ShortBiasPermitted(s))
  BY DEF LongBiasPermitted, ShortBiasPermitted
<1>. HIDE DEF DataCritical, HardRisk, VolatilityUnavailable, VolatilityExtreme, MustDefend,
              LongBiasPermitted, ShortBiasPermitted
<1>10. CASE \/ DataCritical(s) \/ HardRisk(s) \/ VolatilityUnavailable(s)
            \/ VolatilityExtreme(s) \/ s.volatility_state = "INITIALIZING"
  BY <1>1, <1>5, <1>6, <1>10
  DEF NoPreferredSide, DetermineCandidateMode, Evaluation, MirroredMode, m
<1>11. CASE ~(\/ DataCritical(s) \/ HardRisk(s) \/ VolatilityUnavailable(s)
              \/ VolatilityExtreme(s) \/ s.volatility_state = "INITIALIZING")
  <2>1. DetermineCandidateMode(s).mode =
          IF MustDefend(s) THEN "DEFENSIVE"
          ELSE IF LongBiasPermitted(s) THEN "LONG_BIAS"
          ELSE IF ShortBiasPermitted(s) THEN "SHORT_BIAS" ELSE "NORMAL"
    BY <1>9, <1>11 DEF DetermineCandidateMode, Evaluation
  <2>2. DetermineCandidateMode(m).mode =
          IF MustDefend(s) THEN "DEFENSIVE"
          ELSE IF ShortBiasPermitted(s) THEN "LONG_BIAS"
          ELSE IF LongBiasPermitted(s) THEN "SHORT_BIAS" ELSE "NORMAL"
    BY <1>1, <1>5, <1>6, <1>7, <1>8, <1>9, <1>11 DEF DetermineCandidateMode, Evaluation
  <2>. QED
    BY <1>9, <2>1, <2>2 DEF NoPreferredSide, MirroredMode, m
<1>. QED
  BY <1>10, <1>11

-----------------------------------------------------------------------------
(* The direction of the state engine *)

\* A pending direction is called for by the newest pending_count scores and no
\* more; when none is pending, the newest score calls for no other than the
\* direction told.
PendingIsRun ==
    /\ pending # "INITIALIZING" =>
          /\ pending_count <= Len(scored)
          /\ \A i \in 1..pending_count : Calls(direction, pending, scored[i])
          /\ pending_count < Len(scored) =>
                ~Calls(direction, pending, scored[pending_count + 1])
    /\ pending = "INITIALIZING" /\ Len(scored) > 0 =>
          \A d \in DirectionState \ {direction} : ~Calls(direction, d, scored[1])

DirectionInv == LabelsOK /\ PendingIsRun

-----------------------------------------------------------------------------
(* What a score calls for *)

\* The target of a score is a direction.
LEMMA TargetIsDirection ==
  ASSUME NEW score \in Scores
  PROVE  DirectionTarget(score) \in DirectionState \ {"INITIALIZING"}
  BY DEF DirectionTarget, ClassifyDirection, DirectionState

\* A target other than the direction told is what the score calls for.
LEMMA TargetIsCalledFor ==
  ASSUME NEW score \in Scores, direction \in DirectionState,
         DirectionTarget(score) # direction
  PROVE  Calls(direction, DirectionTarget(score), score)
  BY ThresholdsAssumption
     DEF DirectionTarget, ClassifyDirection, DirectionState, Calls

\* A score whose target is the direction told calls for no other.
LEMMA TargetKept ==
  ASSUME NEW score \in Scores, DirectionTarget(score) = direction,
         NEW d \in DirectionState \ {direction}
  PROVE  ~Calls(direction, d, score)
  BY ThresholdsAssumption
     DEF DirectionTarget, ClassifyDirection, DirectionState, Calls

\* A score calls for one direction only.
LEMMA CallsForOne ==
  ASSUME NEW score \in Scores, NEW from \in DirectionState,
         NEW d \in DirectionState \ {from}, NEW e \in DirectionState \ {from},
         Calls(from, d, score), Calls(from, e, score)
  PROVE  d = e
  BY ThresholdsAssumption DEF DirectionState, Calls

\* Once the direction is what a score calls for, the score calls for no other.
LEMMA CallsSettled ==
  ASSUME NEW score \in Scores, NEW from \in DirectionState,
         NEW to \in DirectionState \ {from}, Calls(from, to, score),
         NEW d \in DirectionState \ {to}
  PROVE  ~Calls(to, d, score)
  BY ThresholdsAssumption DEF DirectionState, Calls

\* What is remembered: the new score, and the ones before it a place further.
LEMMA Remembered ==
  ASSUME LabelsOK, NEW score \in Scores, Remember(score)
  PROVE  /\ scored' \in Seq(Scores)
         /\ Len(scored') = IF Len(scored) < Confirm THEN Len(scored) + 1 ELSE Confirm
         /\ Len(scored') \in 1..Confirm
         /\ scored'[1] = score
         /\ \A i \in 2..Len(scored') : scored'[i] = scored[i - 1]
         /\ \A i \in 2..Len(scored') : i - 1 \in 1..Len(scored)
  <1> DEFINE n == IF Len(scored) < Confirm THEN Len(scored) + 1 ELSE Confirm
  <1>1. Confirm \in Nat \ {0} /\ Len(scored) \in Nat /\ Len(scored) <= Confirm
    BY ThresholdsAssumption DEF LabelsOK
  <1>2. n \in 1..Confirm /\ n - 1 <= Len(scored)
    BY <1>1
  <1>3. scored' = [i \in 1..n |-> IF i = 1 THEN score ELSE scored[i - 1]]
    BY DEF Remember
  <1>4. \A i \in 1..n : (IF i = 1 THEN score ELSE scored[i - 1]) \in Scores
    <2> SUFFICES ASSUME NEW i \in 1..n, i # 1 PROVE scored[i - 1] \in Scores
      OBVIOUS
    <2>1. i - 1 \in 1..Len(scored)
      BY <1>1, <1>2
    <2> QED
      BY <2>1 DEF LabelsOK
  <1> HIDE DEF n
  <1>5. scored' \in Seq(Scores) /\ Len(scored') = n
    BY <1>2, <1>3, <1>4, <1>1
  <1> QED
    BY <1>1, <1>2, <1>3, <1>5 DEF n

-----------------------------------------------------------------------------
(* The steps *)

LEMMA InitDirection == EngineInit => DirectionInv
  BY ThresholdsAssumption
     DEF EngineInit, DirectionInv, LabelsOK, PendingIsRun, VolatilityState, DirectionState

\* The volatility label is judged apart.
LEMMA VolatilityStep ==
  ASSUME LabelsOK, NEW known, NEW score, JudgeVolatility(known, score)
  PROVE  volatility' \in VolatilityState
  BY DEF LabelsOK, JudgeVolatility, ClassifyVolatility, VolatilityState

\* A score for the direction told: nothing is pending any more.
LEMMA KeptStep ==
  ASSUME DirectionInv, NEW score \in Scores, DirectionTarget(score) = direction,
         ConfirmedDirection(DirectionTarget(score)), Remember(score),
         volatility' \in VolatilityState
  PROVE  DirectionInv' /\ direction' = direction
  <1>1. direction' = direction /\ pending' = "INITIALIZING" /\ pending_count' = 0
    BY DEF ConfirmedDirection
  <1>2. LabelsOK
    BY DEF DirectionInv
  <1>3. scored' \in Seq(Scores) /\ Len(scored') \in 1..Confirm /\ scored'[1] = score
    BY <1>2, Remembered
  <1>4. LabelsOK'
    BY <1>1, <1>2, <1>3, ThresholdsAssumption DEF LabelsOK, DirectionState
  <1>5. \A d \in DirectionState \ {direction} : ~Calls(direction, d, score)
    BY TargetKept
  <1>6. PendingIsRun'
    BY <1>1, <1>3, <1>5 DEF PendingIsRun, Calls
  <1> QED
    BY <1>1, <1>4, <1>6 DEF DirectionInv

\* A score for another direction lengthens the run of scores that call for it
\* to exactly its count.
LEMMA RunLengthens ==
  ASSUME DirectionInv, NEW score \in Scores, DirectionTarget(score) # direction, Remember(score)
  PROVE  LET t == DirectionTarget(score)
         IN  /\ Count(t) \in 1..Len(scored')
             /\ Count(t) <= Confirm
             /\ \A i \in 1..Count(t) : Calls(direction, t, scored'[i])
             /\ Count(t) < Len(scored') => ~Calls(direction, t, scored'[Count(t) + 1])
  <1> DEFINE t == DirectionTarget(score)
  <1>1. LabelsOK /\ PendingIsRun
    BY DEF DirectionInv
  <1>2. t \in DirectionState \ {direction} /\ t # "INITIALIZING"
    BY TargetIsDirection
  <1>3. Calls(direction, t, score)
    BY <1>1, TargetIsCalledFor DEF LabelsOK
  <1>4. /\ Len(scored') = IF Len(scored) < Confirm THEN Len(scored) + 1 ELSE Confirm
        /\ Len(scored') \in 1..Confirm
        /\ scored'[1] = score
        /\ \A i \in 2..Len(scored') : scored'[i] = scored[i - 1]
        /\ \A i \in 2..Len(scored') : i - 1 \in 1..Len(scored)
    BY <1>1, Remembered
  <1>5. Confirm \in Nat \ {0} /\ pending_count \in 0..(Confirm - 1)
    BY <1>1, ThresholdsAssumption DEF LabelsOK
  <1>6. scored \in Seq(Scores) /\ Len(scored) \in Nat /\ direction \in DirectionState
    BY <1>1 DEF LabelsOK
  <1> HIDE DEF t
  <1>7. CASE t = pending
    <2>1. Count(t) = pending_count + 1
      BY <1>7 DEF Count
    <2>2. /\ pending_count <= Len(scored)
          /\ \A i \in 1..pending_count : Calls(direction, t, scored[i])
          /\ pending_count < Len(scored) => ~Calls(direction, t, scored[pending_count + 1])
      BY <1>1, <1>2, <1>7 DEF PendingIsRun
    <2>3. Count(t) \in 1..Len(scored') /\ Count(t) <= Confirm
      BY <2>1, <2>2, <1>4, <1>5, <1>6
    <2>4. ASSUME NEW i \in 1..Count(t) PROVE Calls(direction, t, scored'[i])
      <3>1. CASE i = 1
        BY <3>1, <1>3, <1>4
      <3>2. CASE i # 1
        <4>1. i \in 2..Len(scored') /\ i - 1 \in 1..pending_count
          BY <3>2, <2>1, <2>3, <1>4, <1>5
        <4>2. scored'[i] = scored[i - 1] /\ Calls(direction, t, scored[i - 1])
          BY <4>1, <1>4, <2>2
        <4> QED
          BY <4>2
      <3> QED
        BY <3>1, <3>2
    <2>5. ASSUME Count(t) < Len(scored') PROVE ~Calls(direction, t, scored'[Count(t) + 1])
      <3>1. Count(t) + 1 \in 2..Len(scored') /\ (Count(t) + 1) - 1 = pending_count + 1
        BY <2>1, <2>5, <1>4, <1>5
      <3>2. pending_count + 1 \in 1..Len(scored) /\ scored'[Count(t) + 1] = scored[pending_count + 1]
        BY <3>1, <1>4
      <3>3. pending_count < Len(scored)
        BY <3>2, <1>5, <1>6
      <3> QED
        BY <3>2, <3>3, <2>2
    <2> QED
      BY <2>3, <2>4, <2>5 DEF t
  <1>8. CASE t # pending
    <2>1. Count(t) = 1
      BY <1>8 DEF Count
    <2>2. ASSUME 1 < Len(scored') PROVE ~Calls(direction, t, scored'[2])
      <3>1. 2 \in 2..Len(scored')
        BY <2>2, <1>4
      <3>2. scored'[2] = scored[1] /\ 1 \in 1..Len(scored)
        BY <3>1, <1>4
      <3>3. Len(scored) > 0 /\ scored[1] \in Scores
        BY <3>2, <1>6
      <3>4. CASE pending = "INITIALIZING"
        BY <3>2, <3>3, <3>4, <1>1, <1>2 DEF PendingIsRun
      <3>5. CASE pending # "INITIALIZING"
        <4>1. pending \in DirectionState \ {direction} /\ 1 \in 1..pending_count
          BY <3>5, <1>1, <1>5 DEF LabelsOK
        <4>2. Calls(direction, pending, scored[1])
          BY <4>1, <3>5, <1>1 DEF PendingIsRun
        <4> QED
          BY <4>1, <4>2, <3>2, <3>3, <1>2, <1>6, <1>8, CallsForOne
      <3> QED
        BY <3>4, <3>5
    <2>3. \A i \in 1..1 : Calls(direction, t, scored'[i])
      BY <1>3, <1>4
    <2>4. 1 \in 1..Len(scored') /\ 1 <= Confirm /\ 1 + 1 = 2
      BY <1>4, <1>5
    <2> QED
      BY <2>1, <2>2, <2>3, <2>4 DEF t
  <1> QED
    BY <1>7, <1>8

\* A score for another direction: it waits on, or it is confirmed.
LEMMA CalledStep ==
  ASSUME DirectionInv, NEW score \in Scores, DirectionTarget(score) # direction,
         ConfirmedDirection(DirectionTarget(score)), Remember(score),
         volatility' \in VolatilityState
  PROVE  /\ DirectionInv'
         /\ direction' # direction => AllCall(direction, direction', scored')
  <1> DEFINE t == DirectionTarget(score)
  <1>1. LabelsOK
    BY DEF DirectionInv
  <1>2. t \in DirectionState \ {direction} /\ t # "INITIALIZING"
    BY TargetIsDirection
  <1>3. /\ Count(t) \in 1..Len(scored')
        /\ Count(t) <= Confirm
        /\ \A i \in 1..Count(t) : Calls(direction, t, scored'[i])
        /\ Count(t) < Len(scored') => ~Calls(direction, t, scored'[Count(t) + 1])
    BY RunLengthens
  <1>4. scored' \in Seq(Scores) /\ Len(scored') \in 1..Confirm
    BY <1>1, Remembered
  <1>5. Confirm \in Nat \ {0} /\ direction \in DirectionState
    BY <1>1, ThresholdsAssumption DEF LabelsOK
  <1>6. CASE Count(t) >= Confirm
    <2>1. direction' = t /\ pending' = "INITIALIZING" /\ pending_count' = 0
      BY <1>6, <1>2 DEF ConfirmedDirection
    <2>2. LabelsOK'
      BY <2>1, <1>2, <1>4, <1>5 DEF LabelsOK, DirectionState
    <2>3. Count(t) = Confirm /\ Len(scored') = Confirm
      BY <1>3, <1>4, <1>5, <1>6
    <2>4. AllCall(direction, t, scored')
      <3>1. DOMAIN scored' = 1..Count(t)
        BY <2>3, <1>4
      <3> QED
        BY <3>1, <2>3, <1>3 DEF AllCall
    <2>5. scored'[1] \in Scores /\ Calls(direction, t, scored'[1])
      BY <2>3, <1>3, <1>4, <1>5
    <2>6. \A d \in DirectionState \ {t} : ~Calls(t, d, scored'[1])
      BY <2>5, <1>2, <1>5, CallsSettled
    <2>7. PendingIsRun'
      BY <2>1, <2>6 DEF PendingIsRun, Calls
    <2> QED
      BY <2>1, <2>2, <2>4, <2>7 DEF DirectionInv
  <1>7. CASE ~(Count(t) >= Confirm)
    <2>1. direction' = direction /\ pending' = t /\ pending_count' = Count(t)
      BY <1>7, <1>2 DEF ConfirmedDirection
    <2>2. LabelsOK'
      BY <2>1, <1>1, <1>2, <1>3, <1>4, <1>5, <1>7 DEF LabelsOK
    <2>3. PendingIsRun'
      BY <2>1, <1>2, <1>3, <1>4 DEF PendingIsRun, Calls
    <2> QED
      BY <2>1, <2>2, <2>3 DEF DirectionInv
  <1> QED
    BY <1>6, <1>7

\* Every step keeps the invariant, and changes the direction for a reason.
LEMMA StepDirection ==
  ASSUME DirectionInv, [EngineNext]_engineVars
  PROVE  /\ DirectionInv'
         /\ direction' # direction => AllCall(direction, direction', scored')
  <1>1. CASE UNCHANGED labels
    BY <1>1 DEF labels, DirectionInv, LabelsOK, PendingIsRun, Calls
  <1>2. ASSUME NEW pair \in Pairs, NEW gap \in Gaps, NEW iv \in BOOLEAN, NEW book \in BOOLEAN,
               NEW vol_score \in VolScores, NEW score \in Scores,
               Judge(pair, gap, iv, book, vol_score, score)
        PROVE  /\ DirectionInv'
               /\ direction' # direction => AllCall(direction, direction', scored')
    <2> DEFINE points == Extended(pair, gap, iv)
               vol_known == BaselineKnown(points) \/ IvRatioKnown(points)
               direction_known == book \/ ReturnKnown(points)
    <2>1. JudgeVolatility(vol_known, vol_score) /\ JudgeDirection(direction_known, score)
      BY <1>2 DEF Judge
    <2> HIDE DEF vol_known, direction_known
    <2>2. volatility' \in VolatilityState
      BY <2>1, VolatilityStep DEF DirectionInv
    <2>3. CASE direction_known
      <3>1. ConfirmedDirection(DirectionTarget(score)) /\ Remember(score)
        BY <2>1, <2>3 DEF JudgeDirection
      <3> QED
        BY <3>1, <2>2, KeptStep, CalledStep
    <2>4. CASE ~direction_known
      <3>1. UNCHANGED <<direction, pending, pending_count, scored>>
        BY <2>1, <2>4 DEF JudgeDirection
      <3> QED
        BY <3>1, <2>2 DEF DirectionInv, LabelsOK, PendingIsRun, Calls
    <2> QED
      BY <2>3, <2>4
  <1> QED
    BY <1>1, <1>2 DEF EngineNext, Skip, WarmUp, engineVars, labels

-----------------------------------------------------------------------------
(* The theorems *)

\* The labels stay in their domains and the pending count below the number of
\* samples that confirm.
THEOREM DirectionInvariant == EngineSpec => []DirectionInv
  <1>1. DirectionInv /\ [EngineNext]_engineVars => DirectionInv'
    BY StepDirection
  <1> QED
    BY InitDirection, <1>1, PTL DEF EngineSpec

\* A direction is told only after the last direction_confirmation_samples scores
\* have all called for it (_confirmed_direction).
THEOREM DirectionIsEarned == EngineSpec => DirectionEarned
  <1>1. DirectionInv /\ [EngineNext]_engineVars =>
            [direction' # direction => AllCall(direction, direction', scored')]_engineVars
    BY StepDirection
  <1> QED
    BY DirectionInvariant, <1>1, PTL DEF EngineSpec, DirectionEarned

\* No direction that the last scores all call for is left untold.
THEOREM DirectionIsHeard == EngineSpec => []DirectionHeard
  <1>1. DirectionInv => DirectionHeard
    <2> SUFFICES ASSUME DirectionInv, NEW d \in DirectionState \ {direction},
                        AllCall(direction, d, scored)
                 PROVE  FALSE
      BY DEF DirectionHeard
    <2>1. LabelsOK /\ PendingIsRun
      BY DEF DirectionInv
    <2>2. /\ Confirm \in Nat \ {0} /\ scored \in Seq(Scores) /\ Len(scored) = Confirm
          /\ pending_count \in 0..(Confirm - 1) /\ direction \in DirectionState
      BY <2>1, ThresholdsAssumption DEF LabelsOK, AllCall
    <2>3. \A i \in 1..Confirm : scored[i] \in Scores /\ Calls(direction, d, scored[i])
      BY <2>2 DEF AllCall
    <2>4. scored[1] \in Scores /\ Calls(direction, d, scored[1])
      BY <2>2, <2>3
    <2>5. pending # "INITIALIZING"
      BY <2>1, <2>2, <2>4 DEF PendingIsRun
    <2>6. pending \in DirectionState \ {direction} /\ 1 \in 1..pending_count
      BY <2>1, <2>2, <2>5 DEF LabelsOK
    <2>7. pending = d
      BY <2>1, <2>2, <2>4, <2>5, <2>6, CallsForOne DEF PendingIsRun
    <2>8. pending_count + 1 \in 1..Confirm /\ pending_count < Len(scored)
      BY <2>2
    <2> QED
      BY <2>1, <2>3, <2>5, <2>7, <2>8 DEF PendingIsRun
  <1> QED
    BY DirectionInvariant, <1>1, PTL

-----------------------------------------------------------------------------
(* The history *)

\* A set of naturals that is not empty has a least element.
LEMMA LeastNatural ==
  ASSUME NEW T \in SUBSET Nat, T # {}
  PROVE  \E x \in T : \A y \in T : x <= y
  <1> DEFINE R == {ss \in Nat \X Nat : ss[1] < ss[2]}
  <1>1. IsWellFoundedOn(R, Nat)
    BY NatLessThanWellFounded DEF OpToRel
  <1>2. PICK x \in T : \A y \in T : ~(<<y, x>> \in R)
    <2> HIDE DEF R
    <2> QED
      BY <1>1, WFMin
  <1>3. ASSUME NEW y \in T PROVE x <= y
    <2>1. <<y, x>> \notin R
      BY <1>2
    <2>2. x \in Nat /\ y \in Nat
      OBVIOUS
    <2> QED
      BY <2>1, <2>2
  <1> QED
    BY <1>3

Point == [age : 0..Retention, iv : BOOLEAN, pair : Pairs]

\* Points of one pair, the last of them of now, in the order of their time.
Ordered(points, pair) ==
    /\ points \in Seq(Point)
    /\ points # <<>> => points[Len(points)].age = 0
    /\ \A i \in 1..Len(points) : points[i].pair = pair
    /\ \A i, j \in 1..Len(points) : i < j => points[i].age > points[j].age

\* What the history is, and what a valid state says of it.
HistoryInv ==
    /\ trading_pair \in Pairs \union {NoPair}
    /\ trading_pair = NoPair => history = <<>>
    /\ Ordered(history, trading_pair)
    /\ market_state.state_valid =>
          history # <<>> /\ Len(history) >= MinSamples /\ history[1].age > RvWindow

\* A usable snapshot leaves a history of its pair that ends with it.
LEMMA ExtendedIsOrdered ==
  ASSUME HistoryInv, NEW pair \in Pairs, NEW gap \in Gaps, NEW iv \in BOOLEAN,
         Usable(pair, TRUE, gap)
  PROVE  Ordered(Extended(pair, gap, iv), pair) /\ Extended(pair, gap, iv) # <<>>
  <1> DEFINE n == Len(history)
             new == [age |-> 0, iv |-> iv, pair |-> pair]
             aged == [i \in DOMAIN history |-> [history[i] EXCEPT !.age = @ + gap]]
             all == Append(aged, new)
             young == {i \in DOMAIN all : all[i].age <= Retention}
             oldest == CHOOSE i \in young : \A j \in young : i <= j
             Aged == [age : Nat, iv : BOOLEAN, pair : Pairs]
  <1>1. /\ history \in Seq(Point) /\ n \in Nat /\ DOMAIN history = 1..n
        /\ gap \in Int /\ Retention \in Nat
        /\ n # 0 => gap > 0 /\ history[n].age = 0 /\ trading_pair = pair
    BY WindowsAssumption DEF HistoryInv, Ordered, Usable
  <1>2. /\ \A i \in 1..n : history[i] \in Point
        /\ \A i \in 1..n : history[i].pair = trading_pair
        /\ \A i, j \in 1..n : i < j => history[i].age > history[j].age
    BY <1>1 DEF HistoryInv, Ordered
  <1>3. \A i \in 1..n :
          /\ aged[i].age = history[i].age + gap /\ aged[i].age \in Nat \ {0}
          /\ aged[i].pair = pair /\ aged[i] \in Aged
    <2> SUFFICES ASSUME NEW i \in 1..n
                 PROVE  /\ aged[i].age = history[i].age + gap /\ aged[i].age \in Nat \ {0}
                        /\ aged[i].pair = pair /\ aged[i] \in Aged
      OBVIOUS
    <2>1. history[i] \in Point /\ history[i].pair = pair /\ gap > 0
      BY <1>1, <1>2
    <2>2. aged[i] = [history[i] EXCEPT !.age = history[i].age + gap]
      BY <1>1
    <2> QED
      BY <2>1, <2>2, <1>1 DEF Point
  <1>4. aged \in Seq(Aged) /\ Len(aged) = n /\ new \in Aged
    <2>1. DOMAIN aged = 1..n /\ aged = [i \in 1..n |-> aged[i]]
      BY <1>1
    <2>2. new \in Aged
      OBVIOUS
    <2> HIDE DEF aged
    <2> QED
      BY <1>1, <1>3, <2>1, <2>2
  <1> HIDE DEF aged, new
  <1>5. /\ all \in Seq(Aged) /\ Len(all) = n + 1 /\ all[n + 1] = new
        /\ \A i \in 1..n : all[i] = aged[i]
    BY <1>4, <1>1, AppendProperties
  <1>6. /\ \A i \in 1..(n + 1) : all[i].pair = pair /\ all[i] \in Aged
        /\ \A i, j \in 1..(n + 1) : i < j => all[i].age > all[j].age
    <2>1. new.age = 0 /\ new.pair = pair
      BY DEF new
    <2>2. \A i \in 1..(n + 1) : i # n + 1 => i \in 1..n
      BY <1>1
    <2>3. ASSUME NEW i \in 1..(n + 1), NEW j \in 1..(n + 1), i < j
          PROVE  all[i].age > all[j].age
      <3>1. i \in 1..n
        BY <2>3, <1>1
      <3>2. CASE j = n + 1
        BY <3>1, <3>2, <2>1, <1>3, <1>5
      <3>3. CASE j # n + 1
        <4>1. j \in 1..n /\ history[i] \in Point /\ history[j] \in Point
          BY <3>1, <3>3, <2>2, <1>2
        <4>2. history[i].age > history[j].age /\ history[i].age \in Nat /\ history[j].age \in Nat
          BY <4>1, <3>1, <2>3, <1>2, <1>1 DEF Point
        <4> QED
          BY <4>1, <4>2, <3>1, <1>3, <1>5, <1>1
      <3> QED
        BY <3>2, <3>3
    <2> QED
      BY <2>1, <2>2, <2>3, <1>3, <1>4, <1>5
  <1> HIDE DEF all
  <1>7. DOMAIN all = 1..(n + 1) /\ young \subseteq Nat /\ n + 1 \in young
    BY <1>1, <1>4, <1>5 DEF new
  <1>8. oldest \in young /\ \A j \in young : oldest <= j
    <2>1. \E i \in young : \A j \in young : i <= j
      BY <1>7, LeastNatural
    <2> HIDE DEF young
    <2> QED
      BY <2>1
  <1>9. oldest \in 1..(n + 1) /\ all[oldest].age <= Retention
    BY <1>7, <1>8
  <1> HIDE DEF oldest, young
  <1>10. \A i \in oldest..(n + 1) : all[i] \in Point
    <2> SUFFICES ASSUME NEW i \in oldest..(n + 1) PROVE all[i] \in Point
      OBVIOUS
    <2>1. i \in 1..(n + 1) /\ oldest \in 1..(n + 1) /\ oldest <= i
      BY <1>9, <1>1
    <2>2. all[i] \in Aged /\ all[oldest] \in Aged /\ all[i].age <= all[oldest].age
      BY <2>1, <1>6
    <2> QED
      BY <2>2, <1>9, <1>1 DEF Point
  <1> DEFINE points == SubSeq(all, oldest, n + 1)
  <1>11. Extended(pair, gap, iv) = points
    BY <1>5 DEF Extended, all, aged, new, oldest, young
  <1>12. /\ points \in Seq(Point) /\ Len(points) = n + 2 - oldest
         /\ \A i \in 1..(n + 2 - oldest) : points[i] = all[oldest + i - 1]
    <2>1. oldest \in Int /\ n + 1 \in Int /\ oldest <= n + 1
      BY <1>9, <1>1
    <2> QED
      BY <2>1, <1>10, SubSeqProperties
  <1> HIDE DEF points
  <1>13. points # <<>> /\ points[Len(points)] = new
    BY <1>12, <1>9, <1>1, <1>5
  <1>14. ASSUME NEW i \in 1..Len(points)
         PROVE  oldest + i - 1 \in 1..(n + 1) /\ points[i] = all[oldest + i - 1]
    BY <1>12, <1>9, <1>1
  <1>15. /\ \A i \in 1..Len(points) : points[i].pair = pair
         /\ \A i, j \in 1..Len(points) : i < j => points[i].age > points[j].age
    <2>1. ASSUME NEW i \in 1..Len(points), NEW j \in 1..Len(points), i < j
          PROVE  points[i].age > points[j].age
      <3>1. oldest + i - 1 < oldest + j - 1
        BY <2>1, <1>9, <1>12
      <3> QED
        BY <3>1, <1>14, <1>6
    <2> QED
      BY <2>1, <1>14, <1>6
  <1> QED
    BY <1>11, <1>12, <1>13, <1>15 DEF Ordered, new

LEMMA InitHistory == EngineInit => HistoryInv
  BY DEF EngineInit, HistoryInv, Ordered, Report

\* A judged snapshot is told as valid when the returns of the baseline are
\* known, whose oldest point is then beyond the current window.
LEMMA JudgeHistory ==
  ASSUME HistoryInv, NEW pair \in Pairs, NEW gap \in Gaps, NEW iv \in BOOLEAN, NEW book,
         NEW vol_score, NEW score, Judge(pair, gap, iv, book, vol_score, score)
  PROVE  HistoryInv'
  <1> DEFINE points == Extended(pair, gap, iv)
  <1>1. /\ Usable(pair, TRUE, gap) /\ Len(points) >= MinSamples /\ SetPair(pair)
        /\ history' = points
        /\ market_state'.state_valid => BaselineKnown(points)
    BY DEF Judge, Report
  <1>2. Ordered(points, pair) /\ points # <<>>
    BY <1>1, ExtendedIsOrdered
  <1>3. trading_pair' = pair /\ pair \in Pairs /\ pair # NoPair
    BY <1>1, WindowsAssumption DEF Usable, SetPair
  <1> HIDE DEF points
  <1>4. ASSUME BaselineKnown(points) PROVE points[1].age > RvWindow
    <2>1. PICK i \in 2..Len(points) : RvWindow <= points[i].age
      BY <1>4 DEF BaselineKnown
    <2>2. points \in Seq(Point) /\ Len(points) \in Nat /\ 1 \in 1..Len(points)
          /\ i \in 1..Len(points) /\ 1 < i
      BY <1>2, <2>1 DEF Ordered
    <2>3. points[1].age > points[i].age
      BY <1>2, <2>2 DEF Ordered
    <2>4. points[1] \in Point /\ points[i] \in Point
      BY <2>2
    <2> QED
      BY <2>1, <2>3, <2>4, WindowsAssumption DEF Point
  <1> QED
    BY <1>1, <1>2, <1>3, <1>4 DEF HistoryInv

LEMMA WarmUpHistory ==
  ASSUME HistoryInv, NEW pair \in Pairs, NEW gap \in Gaps, NEW iv \in BOOLEAN,
         WarmUp(pair, gap, iv)
  PROVE  HistoryInv'
  <1>1. Ordered(Extended(pair, gap, iv), pair)
    BY ExtendedIsOrdered DEF WarmUp
  <1>2. /\ history' = Extended(pair, gap, iv) /\ trading_pair' = pair /\ pair # NoPair
        /\ ~market_state'.state_valid
    BY WindowsAssumption DEF WarmUp, Usable, SetPair, Report
  <1> QED
    BY <1>1, <1>2 DEF HistoryInv

\* A snapshot that is not of use may still name the pair, before there is a
\* history.
LEMMA SkipHistory ==
  ASSUME HistoryInv, NEW pair \in Pairs, NEW gap \in Gaps, NEW valid \in BOOLEAN,
         Skip(pair, valid, gap)
  PROVE  HistoryInv'
  <1>1. /\ UNCHANGED history /\ ~market_state'.state_valid /\ pair # NoPair
        /\ trading_pair' = IF trading_pair = NoPair THEN pair ELSE trading_pair
    BY WindowsAssumption DEF Skip, SetPair, Report
  <1>2. CASE trading_pair = NoPair
    <2>1. history = <<>> /\ history' = <<>>
      BY <1>1, <1>2 DEF HistoryInv
    <2> QED
      BY <1>1, <1>2, <2>1 DEF HistoryInv, Ordered
  <1>3. CASE trading_pair # NoPair
    BY <1>1, <1>3 DEF HistoryInv, Ordered
  <1> QED
    BY <1>2, <1>3

LEMMA HistoryStep == HistoryInv /\ [EngineNext]_engineVars => HistoryInv'
  <1> SUFFICES ASSUME HistoryInv, [EngineNext]_engineVars PROVE HistoryInv'
    OBVIOUS
  <1>1. CASE UNCHANGED engineVars
    BY <1>1 DEF engineVars, HistoryInv, Ordered
  <1> QED
    BY <1>1, JudgeHistory, WarmUpHistory, SkipHistory DEF EngineNext

\* What the labels are computed from is of one pair, in order and within the
\* windows, and a state told as valid rests on enough of it (update).
THEOREM HistoryIsSound == EngineSpec => []HistorySound
  <1>1. HistoryInv => HistorySound
    BY DEF HistoryInv, Ordered, HistorySound, ValidMeansWarm, HistoryOfOnePair
  <1> QED
    BY InitHistory, HistoryStep, <1>1, PTL DEF EngineSpec
=============================================================================
