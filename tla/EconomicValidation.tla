--------------------------- MODULE EconomicValidation ---------------------------
(***************************************************************************)
(* Stage 14: how condor/stage14.run watches a shadow session until there   *)
(* is evidence enough or time is up, and what Stage14EconomicValidator     *)
(* concludes of it.  A checkpoint tells of every hour; the validator's     *)
(* view of the stage 13 regressions is empty until the session has         *)
(* stopped and its report is there.                                        *)
(*                                                                         *)
(* The session tells, each cycle, one frame and at most one fill, a cycle  *)
(* completed and whether a level was kept (its own modules say how).  A    *)
(* markout is the sign of a price difference.  Anything may raise, and the *)
(* process may be killed between any two writes.  Tables and texts are     *)
(* left out.                                                               *)
(***************************************************************************)
EXTENDS Integers, FiniteSetsExt, SequencesExt

CONSTANTS
    MinimumDuration, Duration,   \* seconds: of a diagnosis, and of the session
    CheckpointInterval,          \* seconds between checkpoints
    FillTarget, MinMarkouts, MinCycles,
    Horizon30, Horizon60,        \* the two horizons that evidence rests on, in seconds
    CycleSteps,                  \* seconds a cycle takes
    Mids, FillPrice,             \* of frames, and of fills
    Circumstances                \* what else a session may turn out to be

ASSUME EconomicAssumption ==
    /\ {MinimumDuration, Duration, FillTarget, MinMarkouts, MinCycles, Horizon30, Horizon60}
          \subseteq Nat
    /\ MinMarkouts > 0           \* Stage14Config has 5, and nothing sets it to anything else
    /\ CheckpointInterval \in Nat \ {0} /\ CycleSteps \subseteq Nat \ {0}
    /\ Mids \subseteq Nat \ {0} /\ FillPrice \in Nat \ {0}
    /\ Horizon30 <= Horizon60
    /\ \A c \in Circumstances :
          /\ c.sensitivity \in {"LOW", "HIGH"}
          /\ {c.fees_verified, c.long_open, c.controlled, c.unratioed} \subseteq BOOLEAN

VARIABLES
    stage,                       \* where run() is
    clock,                       \* seconds since the start
    session,                     \* what the session has told so far
    next_checkpoint,             \* _next_checkpoint_epoch
    hourly,                      \* _hourly_rows, one for both models
    reason,                      \* why the session stopped
    manifest,                    \* the status in manifest.json
    latest,                      \* reports/stage14/latest_summary.json
    summary                      \* summary.json of the session

validationVars == <<stage, clock, session, next_checkpoint, hourly, reason, manifest, latest,
                    summary>>

NoSummary == [status |-> "none", evidence |-> "none", classification |-> "none",
              optimization |-> "NO", canary |-> "NO", reason |-> "none"]

-----------------------------------------------------------------------------
(* What a snapshot is made of *)

\* _markout_rows: of every fill and horizon; the first frame that is late enough.
MarkoutRow(told, end, fill, horizon) ==
    LET later == {i \in DOMAIN told.frames : /\ told.frames[i].at > fill.at
                                             /\ told.frames[i].at >= fill.at + horizon}
        mid == told.frames[Min(later)].mid
    IN  IF later # {}
        THEN [status |-> "COMPLETE", sign |-> IF fill.side = "buy" THEN mid - FillPrice
                                              ELSE FillPrice - mid]
        ELSE [status |-> IF fill.at + horizon > end THEN "MISSING_SESSION_END"
                         ELSE "MISSING_DATA", sign |-> 0]

Markouts(told, end, horizon) ==
    [i \in DOMAIN told.fills |-> MarkoutRow(told, end, told.fills[i], horizon)]

TotalOf(numbers) ==
    LET sum[n \in 0..Len(numbers)] == IF n = 0 THEN 0 ELSE sum[n - 1] + numbers[n]
    IN  sum[Len(numbers)]

\* _markout_summary: how many there are, and the sign of their mean.
MarkoutSummary(told, end, horizon) ==
    LET rows == Markouts(told, end, horizon)
        complete == {i \in DOMAIN rows : rows[i].status = "COMPLETE"}
    IN  [count |-> Cardinality(complete),
         sum |-> TotalOf([i \in DOMAIN rows |-> IF i \in complete THEN rows[i].sign ELSE 0])]

\* _adverse_selection
AdverseSelection(told, end) ==
    LET thirty == MarkoutSummary(told, end, Horizon30)
        sixty == MarkoutSummary(told, end, Horizon60)
    IN  CASE thirty.count < MinMarkouts \/ sixty.count < MinMarkouts -> "INSUFFICIENT_SAMPLE"
          [] OTHER -> IF thirty.sum < 0 /\ sixty.sum < 0 THEN "TOXIC"
                      ELSE IF thirty.sum > 0 /\ sixty.sum > 0 THEN "HEALTHY" ELSE "NEUTRAL"

\* A plausible mistake: the report of the session is not waited for.
StableAsFarAsKnown(told, reported) == told.regression \in BOOLEAN

\* _stability: what stage 13 found, once its report is there.  The "FAIL" of
\* ORDER STABILITY that it asks for besides is never reported by the baseline.
Stable(told, reported) == ~(reported /\ told.regression)

\* assess_economic_evidence
Evidence(told, elapsed, end, reported) ==
    LET thirty == MarkoutSummary(told, end, Horizon30).count
        sixty == MarkoutSummary(told, end, Horizon60).count
    IN  IF /\ elapsed >= MinimumDuration /\ Len(told.fills) >= FillTarget
           /\ thirty >= MinMarkouts /\ sixty >= MinMarkouts /\ told.cycles >= MinCycles
           /\ told.frames # <<>> /\ Stable(told, reported) /\ told.quality
        THEN "SUFFICIENT_FOR_DIAGNOSIS"
        ELSE IF told.fills # <<>> \/ told.cycles > 0 \/ told.frames # <<>>
        THEN "DEVELOPING" ELSE "INSUFFICIENT"

\* _keep_summary: runs of cycles that kept the level.
ClosedStreaks(run) == IF run.current = 0 THEN run.streaks ELSE Append(run.streaks, run.current)
KeepStreaks(told) ==
    LET run[n \in 0..Len(told.keeps)] ==
            IF n = 0 THEN [current |-> 0, streaks |-> <<>>]
            ELSE IF told.keeps[n] THEN [run[n - 1] EXCEPT !.current = @ + 1]
            ELSE [current |-> 0, streaks |-> ClosedStreaks(run[n - 1])]
    IN  ClosedStreaks(run[Len(told.keeps)])

\* The safety part of _build_summary.
Safe(told) == ~told.contaminated

\* Whether fills have led to no cycle while a position stayed open for long.
CapitalLockup(told) == told.fills # <<>> /\ told.cycles = 0 /\ told.long_open

\* _classification, in the order it asks.
Classification(told, evidence, why, end) ==
    IF ~Safe(told) \/ ~told.quality THEN "DATA_QUALITY_INSUFFICIENT"
    ELSE IF ~Stable(told, TRUE) THEN "MIXED"
    ELSE IF AdverseSelection(told, end) = "TOXIC" THEN "ADVERSE_SELECTION"
    ELSE IF CapitalLockup(told) THEN "CAPITAL_LOCKUP"
    ELSE IF why = "MAXIMUM_6_HOUR_WINDOW" /\ Len(told.fills) < FillTarget
    THEN "LOW_CONSERVATIVE_FILL_RATE"
    ELSE IF evidence # "SUFFICIENT_FOR_DIAGNOSIS" THEN "INSUFFICIENT_SAMPLE"
    ELSE IF told.sensitivity = "HIGH" THEN "HIGH_FILL_MODEL_UNCERTAINTY"
    ELSE IF told.unratioed THEN "LOW_VOLUME_EFFICIENCY"
    ELSE "HEALTHY_SHADOW_ECONOMICS"

\* _readiness; the canary also needs a verified fee model.
ReadyFor(told, classification, end) ==
    LET base == /\ classification = "HEALTHY_SHADOW_ECONOMICS"
                /\ AdverseSelection(told, end) \in {"HEALTHY", "NEUTRAL"}
                /\ told.cycles >= MinCycles /\ told.controlled
    IN  [optimization |-> IF base THEN "YES" ELSE "NO",
         canary |-> IF base /\ told.fees_verified THEN "YES" ELSE "NO"]

\* _build_summary, final.
FinalSummary(told, why, end) ==
    LET evidence == Evidence(told, end, end, TRUE)
        classification == Classification(told, evidence, why, end)
        ready == ReadyFor(told, classification, end)
    IN  [status |-> "COMPLETE", evidence |-> evidence, classification |-> classification,
         optimization |-> ready.optimization, canary |-> ready.canary, reason |-> why]

\* _write_live_snapshot
LiveSummary(told, now) ==
    [NoSummary EXCEPT !.status = "RUNNING", !.evidence = Evidence(told, now, now, FALSE),
                      !.classification = "IN_PROGRESS"]

-----------------------------------------------------------------------------
(* The session *)

Nothing(c) ==
    [frames |-> <<>>, fills |-> <<>>, cycles |-> 0, keeps |-> <<>>, regression |-> FALSE,
     quality |-> TRUE, contaminated |-> FALSE, sensitivity |-> c.sensitivity,
     fees_verified |-> c.fees_verified, long_open |-> c.long_open,
     controlled |-> c.controlled, unratioed |-> c.unratioed]

\* prepare and start
ValidationInit ==
    /\ stage = "prepared" /\ clock = 0 /\ next_checkpoint = 0 /\ hourly = <<>>
    /\ session \in {Nothing(c) : c \in Circumstances}
    /\ reason = "none" /\ manifest = "READY" /\ latest = NoSummary /\ summary = NoSummary

StartValidation ==
    /\ stage = "prepared" /\ stage' = "running"
    /\ next_checkpoint' = CheckpointInterval
    /\ manifest' = "RUNNING" /\ latest' = LiveSummary(session, 0)
    /\ UNCHANGED <<clock, session, hourly, reason, summary>>

\* record_checkpoint: the next one is the first after now.
NextCheckpoint(now) ==
    IF next_checkpoint > now THEN next_checkpoint
    ELSE next_checkpoint + CheckpointInterval
            * ((now - next_checkpoint) \div CheckpointInterval + 1)

RecordCheckpoint(told, now, forced) ==
    /\ hourly' = IF forced \/ now >= next_checkpoint
                 THEN Append(hourly, [at |-> now, type |-> IF forced THEN "FINAL" ELSE "HOURLY"])
                 ELSE hourly
    /\ next_checkpoint' = NextCheckpoint(now)
    /\ latest' = LiveSummary(told, now)

\* should_early_stop, and the other ends of the loop.
EndOfLoop(told, now) ==
    IF /\ now >= MinimumDuration
       /\ Evidence(told, now, now, FALSE) = "SUFFICIENT_FOR_DIAGNOSIS"
    THEN "EARLY_EVIDENCE_SUFFICIENT"
    ELSE IF now >= Duration THEN "MAXIMUM_6_HOUR_WINDOW" ELSE "none"

\* One round of run(): the session's cycle, the checkpoint, and the decision.
RunCycle ==
    /\ stage = "running"
    /\ \E step \in CycleSteps, mid \in Mids, side \in {"none", "buy", "sell"},
          completes, kept, regresses, quality \in BOOLEAN :
       LET now == clock + step
           told == [session EXCEPT
                      !.frames = Append(@, [at |-> now, mid |-> mid]),
                      !.fills = IF side = "none" THEN @ ELSE Append(@, [at |-> now, side |-> side]),
                      !.cycles = IF completes THEN @ + 1 ELSE @,
                      !.keeps = Append(@, kept),
                      !.regression = @ \/ regresses, !.quality = quality]
           end == EndOfLoop(told, now)
       IN  /\ 2 * told.cycles <= Len(told.fills)
           /\ regresses \/ ~quality => side = "none" /\ ~kept
           /\ clock' = now /\ session' = told
           /\ RecordCheckpoint(told, now, FALSE)
           /\ reason' = end /\ stage' = IF end = "none" THEN "running" ELSE "stopping"
    /\ UNCHANGED <<manifest, summary>>

\* An interrupt, a changed profile, a foreign environment or a failed fetch.
Interrupted ==
    /\ stage = "running" /\ stage' = "stopping"
    /\ \E why \in {"MANUAL_STOP", "CONFIG_CHANGE", "ENVIRONMENT_INCONSISTENCY", "DATA_FAILURE"} :
          /\ reason' = why
          /\ session' = [session EXCEPT !.contaminated = why = "CONFIG_CHANGE"]
    /\ UNCHANGED <<clock, next_checkpoint, hourly, manifest, latest, summary>>

\* session.stop, whose report finalize reads; it records a last checkpoint.
StopAndRecord ==
    /\ stage = "stopping" /\ stage' = "report"
    /\ RecordCheckpoint(session, clock, TRUE)
    /\ UNCHANGED <<clock, session, reason, manifest, summary>>

\* finalize: summary.json, then the manifest, then the latest summary.
WriteSummary ==
    /\ stage = "report" /\ stage' = "manifest"
    /\ summary' = FinalSummary(session, reason, clock)
    /\ UNCHANGED <<clock, session, next_checkpoint, hourly, reason, manifest, latest>>

WriteManifest ==
    /\ stage = "manifest" /\ stage' = "latest" /\ manifest' = "COMPLETE"
    /\ UNCHANGED <<clock, session, next_checkpoint, hourly, reason, latest, summary>>

WriteLatest ==
    /\ stage = "latest" /\ stage' = "done" /\ latest' = summary
    /\ UNCHANGED <<clock, session, next_checkpoint, hourly, reason, manifest, summary>>

\* A write fails, or the process is killed.
Lost ==
    /\ stage \notin {"done", "lost"} /\ stage' = "lost"
    /\ UNCHANGED <<clock, session, next_checkpoint, hourly, reason, manifest, latest, summary>>

ValidationNext ==
    \/ StartValidation \/ RunCycle \/ Interrupted \/ StopAndRecord
    \/ WriteSummary \/ WriteManifest \/ WriteLatest \/ Lost

ValidationSpec == ValidationInit /\ [][ValidationNext]_validationVars

-----------------------------------------------------------------------------
(* Properties *)

\* The checkpoints of the hours.
Hourly == {i \in DOMAIN hourly : hourly[i].type = "HOURLY"}

\* A report that calls the strategy ready rests on a session that ran long
\* enough and told enough, regressed nowhere, kept its configuration and lost
\* nothing to the market, whatever stopped it and whenever; none that is still
\* running or was cut off does; the manifest says COMPLETE only of a summary
\* that is there; and every hour a cycle ended in has one checkpoint.
ReadyIsEarned ==
    /\ \A told \in {latest, summary} :
          told.optimization = "YES" =>
              /\ told.status = "COMPLETE" /\ clock >= MinimumDuration
              /\ Len(session.fills) >= FillTarget /\ session.cycles >= MinCycles
              /\ ~session.regression /\ session.quality /\ ~session.contaminated
              /\ LET complete == {i \in DOMAIN session.fills :
                                     session.fills[i].at + Horizon60 <= clock}
                 IN  Cardinality(complete) >= MinMarkouts
              /\ \E i \in DOMAIN session.fills, j \in DOMAIN session.frames :
                    IF session.fills[i].side = "buy" THEN session.frames[j].mid >= FillPrice
                    ELSE session.frames[j].mid <= FillPrice
    /\ summary.canary = "YES" => summary.optimization = "YES" /\ session.fees_verified
    /\ manifest = "COMPLETE" => summary.status = "COMPLETE"
    /\ summary.reason = "EARLY_EVIDENCE_SUFFICIENT" /\ ~session.regression
          => summary.evidence = "SUFFICIENT_FOR_DIAGNOSIS"
    /\ stage \in {"running", "stopping"} =>
          /\ next_checkpoint > clock
          /\ \A k \in 1..(clock \div CheckpointInterval) :
                \/ \E i \in Hourly : hourly[i].at \div CheckpointInterval = k
                \/ ~\E j \in DOMAIN session.frames :
                        session.frames[j].at \div CheckpointInterval = k
          /\ \A i, j \in Hourly :
                i # j => hourly[i].at \div CheckpointInterval # hourly[j].at \div CheckpointInterval
    /\ TotalOf(KeepStreaks(session))
          = Cardinality({i \in DOMAIN session.keeps : session.keeps[i]})
================================================================================
