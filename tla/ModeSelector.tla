----------------------------- MODULE ModeSelector -----------------------------
(***************************************************************************)
(* The stateful half of Stage 3: class ModeSelector, which turns the       *)
(* stream of candidate modes into the active grid mode by confirmation     *)
(* counts, minimum durations and gated recovery from PAUSE.                *)
(*                                                                         *)
(* One step is one call of update().  Timestamps are the parsed            *)
(* `timestamp` of the observation, in seconds; they come from outside, so  *)
(* they may be late, repeated or missing.  Between two useful observations *)
(* the selector does nothing: there is no timer.                           *)
(***************************************************************************)
EXTENDS ModeHierarchy

CONSTANTS
    ObservedStates,              \* the MarketStates the environment shows
    ModeConfirmationSamples,     \* mode_confirmation_samples
    MinimumModeDuration,         \* minimum_mode_duration_seconds
    PauseRecoverySamples,        \* pause_recovery_samples
    PauseRecoverySeconds,        \* pause_recovery_seconds
    PauseEntryConfirm,           \* strategy_pause_entry_confirm_seconds
    PauseExitConfirm,            \* strategy_pause_exit_confirm_seconds
    DefensiveExitSamples,        \* defensive_exit_confirmation_samples
    MaxTime                      \* bound: the last timestamp observed

ASSUME SelectorAssumption ==
    /\ ObservedStates \subseteq MarketState
    /\ {ModeConfirmationSamples, PauseRecoverySamples, DefensiveExitSamples} \subseteq Nat \ {0}
    /\ {MinimumModeDuration, PauseRecoverySeconds, PauseEntryConfirm, PauseExitConfirm,
        MaxTime} \subseteq Nat

VARIABLES
    current_mode,                \* _current_mode
    candidate_mode,              \* _candidate_mode
    candidate_count,             \* _candidate_count
    mode_entered_at,             \* _mode_entered_at
    last_timestamp_seconds,      \* _last_timestamp_seconds
    pause_safe_since,            \* _pause_safe_since
    pause_candidate,             \* _pause_candidate_{reason, since, count}
    pause_active_category,       \* _pause_active_category
    recovery_candidate,          \* _recovery_candidate{, _since, _count}
    observed                     \* history (below)

selector == <<current_mode, candidate_mode, candidate_count, mode_entered_at,
              last_timestamp_seconds, pause_safe_since, pause_candidate,
              pause_active_category, recovery_candidate>>

vars == <<selector, observed>>

Timestamp == 0..MaxTime

\* In place of the absent values of the source (its None).
NoTime == -1
NoMode == "NONE"
NoCategory == "NONE"

OptionalTimestamp == Timestamp \union {NoTime}

\* _pause_candidate_category is not kept: only STRATEGY_REGIME is ever pending.
NoPauseCandidate == [reason |-> Missing, since |-> NoTime, count |-> 0]

NoRecoveryCandidate == [mode |-> NoMode, since |-> NoTime, count |-> 0]

(***************************************************************************)
(* History.  The selector never reads `observed`; the properties do.  Of   *)
(* the observations so far it records                                      *)
(*   mode, count, since  the mode the last ones have all evaluated to, how *)
(*                       many they are and when the first one came;        *)
(*   safe_since          since when none has called for PAUSE;             *)
(*   extreme_since       since when all have been strategy-regime pauses;  *)
(*   reason(_since)      their reason, and since when it is the same;      *)
(*   pause_category      the category of the last one that called for      *)
(*                       PAUSE;                                            *)
(*   changed_at          the time of the last change of the active mode.   *)
(* An observation that cannot be used ends every run.                      *)
(***************************************************************************)
NoHistory == [mode |-> NoMode, count |-> 0, since |-> NoTime, safe_since |-> NoTime,
              extreme_since |-> NoTime, reason |-> Missing, reason_since |-> NoTime,
              pause_category |-> NoCategory, changed_at |-> NoTime]

Extreme(e) == e.mode = "PAUSE" /\ e.pause_category = "STRATEGY_REGIME"

\* The start of a run that goes on at t if `unbroken`, and starts at t if not.
RunSince(since, unbroken, t) == IF unbroken /\ since # NoTime THEN since ELSE t

Record(e, t) ==
    LET same == observed.mode = e.mode
    IN  observed' =
          [mode          |-> e.mode,
           count         |-> IF same THEN observed.count + 1 ELSE 1,
           since         |-> RunSince(observed.since, same, t),
           safe_since    |-> IF e.mode = "PAUSE" THEN NoTime
                             ELSE RunSince(observed.safe_since, TRUE, t),
           extreme_since |-> IF Extreme(e) THEN RunSince(observed.extreme_since, TRUE, t)
                             ELSE NoTime,
           reason        |-> IF Extreme(e) THEN e.reason ELSE Missing,
           reason_since  |-> IF Extreme(e)
                             THEN RunSince(observed.reason_since, observed.reason = e.reason, t)
                             ELSE NoTime,
           pause_category |-> IF e.mode = "PAUSE" THEN e.pause_category
                              ELSE observed.pause_category,
           changed_at    |-> IF current_mode' # current_mode THEN t ELSE observed.changed_at]

RecordUnusable ==
    observed' = [NoHistory EXCEPT
                    !.pause_category = "DATA_CRITICAL",
                    !.changed_at = IF current_mode = "PAUSE" THEN observed.changed_at
                                   ELSE last_timestamp_seconds]

-----------------------------------------------------------------------------
Init ==
    /\ current_mode = NoMode
    /\ candidate_mode = NoMode
    /\ candidate_count = 0
    /\ mode_entered_at = NoTime
    /\ last_timestamp_seconds = NoTime
    /\ pause_safe_since = NoTime
    /\ pause_candidate = NoPauseCandidate
    /\ pause_active_category = NoCategory
    /\ recovery_candidate = NoRecoveryCandidate
    /\ observed = NoHistory

\* _activate
Activate(mode, t, category) ==
    /\ current_mode' = mode
    /\ mode_entered_at' = t
    /\ candidate_mode' = NoMode
    /\ candidate_count' = 0
    /\ pause_safe_since' = NoTime
    /\ pause_candidate' = NoPauseCandidate
    /\ recovery_candidate' = NoRecoveryCandidate
    /\ pause_active_category' = IF mode = "PAUSE" THEN category ELSE NoCategory

\* _force_pause: without a timestamp the mode is dated to its predecessor.
ForcePause(t, category) ==
    Activate("PAUSE",
             IF t # NoTime THEN t ELSE IF mode_entered_at # NoTime THEN mode_entered_at ELSE 0,
             category)

\* A plausible mistake: whatever the candidate is, it counts on.
CountAnyMode(mode) == candidate_count + 1

\* _track_candidate
NextCount(mode) == IF candidate_mode = mode THEN candidate_count + 1 ELSE 1

Track(mode) ==
    /\ candidate_mode' = mode
    /\ candidate_count' = NextCount(mode)

ResetCandidate ==
    /\ candidate_mode' = NoMode
    /\ candidate_count' = 0

\* Slip: the comparison the wrong way round.
DurationInverted(t) ==
    mode_entered_at = NoTime \/ t - mode_entered_at <= MinimumModeDuration

\* _duration_satisfied
DurationSatisfied(t) ==
    mode_entered_at = NoTime \/ t - mode_entered_at >= MinimumModeDuration

KeepMode == UNCHANGED <<current_mode, mode_entered_at, pause_active_category>>

(***************************************************************************)
(* The branches of update().                                               *)
(***************************************************************************)

\* The observation cannot be used: it does not validate, has no timestamp, or
\* is not newer than the last one.  The last timestamp stays as it was.
RejectObservation(t) ==
    /\ ForcePause(t, "DATA_CRITICAL")
    /\ RecordUnusable
    /\ UNCHANGED last_timestamp_seconds

UpdateMalformed == \E t \in OptionalTimestamp : RejectObservation(t)

UpdateStale ==
    /\ last_timestamp_seconds # NoTime
    /\ \E t \in Timestamp : t <= last_timestamp_seconds /\ RejectObservation(t)

\* The evaluation of a usable observation, at its timestamp.
Newer(t) == last_timestamp_seconds = NoTime \/ t > last_timestamp_seconds

Accept(e, t) ==
    /\ last_timestamp_seconds' = t
    /\ Record(e, t)

\* Slip: every category may wait.
DeferAnyPause(e) ==
    /\ e.mode = "PAUSE"
    /\ current_mode \notin {NoMode, "PAUSE"}
    /\ PauseEntryConfirm > 0

\* A strategy-regime pause of a working mode may be put off.
Deferrable(e) ==
    /\ Extreme(e)
    /\ current_mode \notin {NoMode, "PAUSE"}
    /\ PauseEntryConfirm > 0

UpdatePause(e, t) ==
    /\ e.mode = "PAUSE" /\ ~Deferrable(e)
    /\ ForcePause(t, e.pause_category)
    /\ Accept(e, t)

\* _pending_strategy_pause with _track_pause_candidate: a new reason restarts
\* the confirmation; the candidate of a mode change is left alone.
UpdatePendingPause(e, t) ==
    /\ Deferrable(e)
    /\ LET same == pause_candidate.reason = e.reason
           tracked == [reason |-> e.reason,
                       since  |-> IF same THEN pause_candidate.since ELSE t,
                       count  |-> IF same THEN pause_candidate.count + 1 ELSE 1]
       IN  IF t - tracked.since >= PauseEntryConfirm
           THEN Activate("PAUSE", t, e.pause_category)
           ELSE /\ pause_candidate' = tracked
                /\ KeepMode
                /\ UNCHANGED <<candidate_mode, candidate_count, pause_safe_since,
                               recovery_candidate>>
    /\ Accept(e, t)

\* _pause_recovery; the first observation ever enters PAUSE and starts it.  A
\* change of candidate restarts the count but not the time.
UpdateRecovery(e, t) ==
    /\ e.mode # "PAUSE" /\ current_mode \in {NoMode, "PAUSE"}
    /\ LET same == recovery_candidate.mode = e.mode
           safe_since == IF pause_safe_since = NoTime THEN t ELSE pause_safe_since
           exit_confirm == IF pause_active_category = "STRATEGY_REGIME"
                           THEN PauseExitConfirm ELSE 0
           ready == /\ NextCount(e.mode) >= PauseRecoverySamples
                    /\ t - safe_since >= PauseRecoverySeconds
                    /\ t - safe_since >= exit_confirm
       IN  \/ ready /\ Activate(e.mode, t, NoCategory)
           \/ /\ ~ready
              /\ Track(e.mode)
              /\ current_mode' = "PAUSE"
              /\ mode_entered_at' = IF current_mode = NoMode THEN t ELSE mode_entered_at
              /\ pause_safe_since' = safe_since
              /\ pause_candidate' = NoPauseCandidate
              /\ recovery_candidate' =
                    [mode  |-> e.mode,
                     since |-> IF same THEN recovery_candidate.since ELSE t,
                     count |-> IF same THEN recovery_candidate.count + 1 ELSE 1]
              /\ UNCHANGED pause_active_category
    /\ Accept(e, t)

\* The mode stays; only the candidate of a change moves.
Stay ==
    /\ KeepMode
    /\ pause_candidate' = NoPauseCandidate
    /\ UNCHANGED <<pause_safe_since, recovery_candidate>>

\* _defensive_exit: everything but DEFENSIVE counts towards NORMAL.
UpdateDefensive(e, t) ==
    /\ e.mode # "PAUSE" /\ current_mode = "DEFENSIVE"
    /\ LET exit == /\ e.mode # "DEFENSIVE"
                   /\ NextCount("NORMAL") >= DefensiveExitSamples
                   /\ DurationSatisfied(t)
       IN  \/ exit /\ Activate("NORMAL", t, NoCategory)
           \/ ~exit /\ Stay /\ IF e.mode = "DEFENSIVE" THEN ResetCandidate ELSE Track("NORMAL")
    /\ Accept(e, t)

\* The tail of _apply_evaluation, in NORMAL and in the two biased modes.
UpdateWorking(e, t) ==
    /\ e.mode # "PAUSE" /\ current_mode \in {"NORMAL", "LONG_BIAS", "SHORT_BIAS"}
    /\ LET change == /\ e.mode # current_mode
                     /\ NextCount(e.mode) >= ModeConfirmationSamples
                     /\ DurationSatisfied(t)
       IN  \/ change /\ Activate(e.mode, t, NoCategory)
           \/ ~change /\ Stay /\ IF e.mode = current_mode THEN ResetCandidate ELSE Track(e.mode)
    /\ Accept(e, t)

Evaluations == {DetermineCandidateMode(s) : s \in ObservedStates}

Next ==
    \/ UpdateMalformed
    \/ UpdateStale
    \/ \E e \in Evaluations, t \in {t \in Timestamp : Newer(t)} :
          \/ UpdatePause(e, t)
          \/ UpdatePendingPause(e, t)
          \/ UpdateRecovery(e, t)
          \/ UpdateDefensive(e, t)
          \/ UpdateWorking(e, t)

Spec == Init /\ [][Next]_vars

-----------------------------------------------------------------------------
WorkingMode == GridMode \ {"PAUSE"}

TypeOK ==
    /\ current_mode \in GridMode \union {NoMode}
    /\ candidate_mode \in WorkingMode \union {NoMode}
    /\ candidate_count \in Nat
    /\ mode_entered_at \in OptionalTimestamp
    /\ last_timestamp_seconds \in OptionalTimestamp
    /\ pause_safe_since \in OptionalTimestamp
    /\ pause_candidate \in [reason : Int, since : OptionalTimestamp,
                            count : Nat]
    /\ pause_active_category \in PauseCategory \union {NoCategory}
    /\ recovery_candidate \in [mode : WorkingMode \union {NoMode},
                               since : OptionalTimestamp, count : Nat]
    /\ observed \in
          [mode : GridMode \union {NoMode}, count : Nat, since : OptionalTimestamp,
           safe_since : OptionalTimestamp, extreme_since : OptionalTimestamp,
           reason : Int, reason_since : OptionalTimestamp,
           pause_category : PauseCategory \union {NoCategory},
           changed_at : OptionalTimestamp]

\* A working mode is kept only while the market allows it: the last
\* observation was usable, and either asked for a working mode or is a
\* strategy-regime pause whose confirmation window, counted from when its
\* reason was first seen, is still open.  Critical data and hard risk never
\* wait ("PAUSE is an immediate safety mode").
WorkingModeJustified ==
    current_mode \in WorkingMode =>
        \/ observed.mode \in WorkingMode
        \/ /\ observed.reason_since # NoTime
           /\ last_timestamp_seconds - observed.reason_since < PauseEntryConfirm

\* "STRATEGY_REGIME pause entry and recovery use bounded confirmation windows"
\* (src/derive_options_mm/stage13.py): the market cannot call for a pause
\* without a break for longer than the window and find the mode still working.
PauseEntryBounded ==
    current_mode \in WorkingMode =>
        \/ observed.extreme_since = NoTime
        \/ last_timestamp_seconds - observed.extreme_since < PauseEntryConfirm

LeavePause == current_mode \in {NoMode, "PAUSE"} /\ current_mode' \in WorkingMode

ChangeMode == current_mode \in WorkingMode /\ current_mode' \in WorkingMode \ {current_mode}

RecoveryIsDue ==
    /\ observed'.mode = current_mode'
    /\ observed'.count >= PauseRecoverySamples
    /\ last_timestamp_seconds' - observed'.safe_since >= PauseRecoverySeconds
    /\ \/ observed.pause_category # "STRATEGY_REGIME"
       \/ last_timestamp_seconds' - observed'.safe_since >= PauseExitConfirm

\* PAUSE is left only to a mode that the last pause_recovery_samples
\* observations all asked for, and only after the market has been safe,
\* without a break, for pause_recovery_seconds, and for the exit window too if
\* the last call for PAUSE was a strategy-regime one (_pause_recovery).
RecoveryEarned ==
    [][LeavePause => RecoveryIsDue]_vars

ChangeIsDue ==
    /\ last_timestamp_seconds' - observed.changed_at >= MinimumModeDuration
    /\ current_mode # "DEFENSIVE" \/ current_mode' = "NORMAL"

\* A working mode gives way to another working mode only after it was active
\* for the minimum duration, and DEFENSIVE only to NORMAL (_duration_satisfied,
\* _defensive_exit); a forced PAUSE that was dated back never shortens it.
WorkingModeResides ==
    [][ChangeMode => ChangeIsDue]_vars

-----------------------------------------------------------------------------
(***************************************************************************)
(* The inductive invariant: what the selector remembers agrees with what   *)
(* was observed.                                                           *)
(***************************************************************************)
\* Before the first observation there is nothing to remember.
Untouched ==
    /\ candidate_mode = NoMode /\ pause_safe_since = NoTime
    /\ pause_active_category = NoCategory
    /\ observed = NoHistory

\* In PAUSE the candidate and the safe time are those of the current runs, and
\* the category is that of the last call for PAUSE.
PauseRemembers ==
    /\ candidate_mode # NoMode =>
          candidate_mode = observed.mode /\ candidate_count <= observed.count
    /\ pause_safe_since = observed.safe_since
    /\ observed.pause_category = "STRATEGY_REGIME" =>
          pause_active_category = "STRATEGY_REGIME"

\* In a working mode the pause candidate is the current run of equal reasons,
\* and the mode is dated to the observation that activated it.
WorkRemembers ==
    /\ last_timestamp_seconds # NoTime
    /\ mode_entered_at # NoTime /\ mode_entered_at = observed.changed_at
    /\ observed.mode # NoMode
    /\ observed.mode = "PAUSE" <=> observed.reason # Missing
    /\ observed.reason # Missing => observed.reason_since # NoTime
    /\ pause_candidate.reason = observed.reason
    /\ pause_candidate.since = observed.reason_since

SelectorRemembers ==
    /\ current_mode = NoMode => Untouched
    /\ current_mode = "PAUSE" => PauseRemembers
    /\ current_mode \in WorkingMode => WorkRemembers

IInv == TypeOK /\ SelectorRemembers /\ WorkingModeJustified
=============================================================================
