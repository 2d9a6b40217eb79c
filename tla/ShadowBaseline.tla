---------------------------- MODULE ShadowBaseline ----------------------------
(***************************************************************************)
(* A baseline session as condor/shadow_baseline.run drives it and          *)
(* ShadowBaselineSession keeps it: two paper engines, one for each fill    *)
(* model, run one after the other on the frames of a cycle, and what their *)
(* engines tell is copied into one JSONL log and one SQLite table.  The    *)
(* profile the session was made from is hashed at the start and compared   *)
(* before every cycle.  Whatever ends the loop, the session is stopped: it *)
(* shuts the engines down, copies what is left, and writes the report.     *)
(*                                                                         *)
(* Any write to the store may fail, an engine may raise in the middle of a *)
(* cycle, the profile may be edited at any time, and the process may be    *)
(* killed between any two steps.                                           *)
(***************************************************************************)
EXTENDS Integers, Sequences, SequencesExt

CONSTANTS
    Profiles,                    \* what the file of the profile may hold
    MaxCycles, MaxEvents,        \* bounds: on cycles, and on what one engine tells
    MaxFaults, MaxEdits          \* bounds: on failures, and on edits of the profile

FillModel == <<"conservative", "touch">>
Models == 1..2                   \* in the order they run

VARIABLES
    profile,                     \* what the file of the profile holds
    frozen,                      \* _frozen_source_hash
    config_contaminated,         \* config_contaminated
    step,                          \* where the process is
    model,                       \* the model whose turn it is
    stopping,                    \* stop() has been entered
    events,                      \* len(engine.events), of each model
    persisted,                   \* _persisted_events, of each model
    saving,                      \* how far the copying of the model's events is
    ran,                         \* the cycles the engine of each model has finished
    log, rows,                   \* the JSONL log and the table shadow_events
    cycles, checkpoint,          \* cycles, and how many the last checkpoint tells
    status,                      \* the status in baseline_manifest.json
    reason,                      \* stop_reason
    faults, edits                \* how many failures and edits there were

session == <<config_contaminated, model, stopping, events, persisted, saving, ran>>
store == <<log, rows>>
report == <<cycles, checkpoint, status, reason>>
world == <<profile, faults, edits>>
baselineVars == <<step, frozen, session, store, report, world>>

Over == {"ended", "aborted", "killed"}

BaselineInit ==
    /\ profile \in Profiles /\ frozen = profile /\ config_contaminated = FALSE
    /\ step = "start" /\ model = 1 /\ stopping = FALSE
    /\ events = [m \in Models |-> 0] /\ persisted = events /\ ran = events /\ saving = 0
    /\ log = <<>> /\ rows = <<>>
    /\ cycles = 0 /\ checkpoint = 0 /\ status = "none" /\ reason = "none"
    /\ faults = 0 /\ edits = 0
-----------------------------------------------------------------------------
\* What the end of a step in an exception does: run() catches it and stops the
\* session, unless the session is being started or stopped.
Raise(why) ==
    IF step = "start" \/ stopping
    THEN step' = "aborted" /\ UNCHANGED <<reason, model, stopping>>
    ELSE step' = "stop" /\ reason' = why /\ model' = 1 /\ stopping' = TRUE

\* A step that fails is one of the faults.
Fails(failed) ==
    /\ faults' = faults + (IF failed THEN 1 ELSE 0) /\ faults' <= MaxFaults
    /\ UNCHANGED <<profile, edits>>

\* append_event: the line first, then the row; either may fail.
AppendEvent(event, outcome) ==
    /\ log' = IF outcome = "nothing" THEN log ELSE Append(log, event)
    /\ rows' = IF outcome = "written" THEN Append(rows, event) ELSE rows
    /\ Fails(outcome # "written")

Outcomes == {"written", "line only", "nothing"}

\* start: the freeze, the starts of both engines, and the manifest.
Start ==
    /\ step = "start" /\ frozen' = profile
    /\ events' = [m \in Models |-> 1]
    /\ \E outcome \in Outcomes :
          /\ AppendEvent(<<"BASELINE_START", 0>>, outcome)
          /\ IF outcome = "written"
             THEN step' = "fetch" /\ status' = "RUNNING" /\ UNCHANGED <<reason, model, stopping>>
             ELSE Raise("none") /\ UNCHANGED status
    /\ UNCHANGED <<config_contaminated, persisted, saving, ran, cycles, checkpoint>>

\* The head of the loop: a limit ends it, the frames fail to come, an interrupt
\* arrives while they are awaited, or the cycle begins.
Fetch ==
    /\ step = "fetch"
    /\ \/ Raise("COMPLETE") /\ Fails(FALSE)
       \/ Raise("MANUAL_STOP") /\ Fails(FALSE)
       \/ \E why \in {"DATA_FAILURE", "ENVIRONMENT_INCONSISTENCY"} : Raise(why) /\ Fails(TRUE)
       \/ cycles < MaxCycles /\ step' = "check" /\ Fails(FALSE) /\ UNCHANGED <<reason, model, stopping>>
    /\ UNCHANGED <<frozen, config_contaminated, events, persisted, saving, ran, store,
                   cycles, checkpoint, status>>

\* check_config_frozen, and what run() makes of its answer.
CheckConfigFrozen ==
    /\ step = "check"
    /\ config_contaminated' = (profile # frozen)
    /\ IF profile = frozen
       THEN step' = "engine" /\ model' = 1 /\ Fails(FALSE) /\ UNCHANGED <<store, reason, stopping>>
       ELSE \E outcome \in Outcomes :
               /\ AppendEvent(<<"CONFIG_CHANGE", 0>>, outcome)
               /\ Raise(IF outcome = "written" THEN "CONFIG_CHANGE" ELSE "DATA_FAILURE")
    /\ UNCHANGED <<frozen, events, persisted, saving, ran, cycles, checkpoint, status>>

\* ShadowSession.run_cycle of the model: the engine tells some events, and may
\* raise after it has told them.
RunModel ==
    /\ step = "engine"
    /\ \E told \in 0..2, failed \in BOOLEAN :
          /\ events[model] + told <= MaxEvents /\ Fails(failed)
          /\ events' = [events EXCEPT ![model] = @ + told]
          /\ IF failed THEN Raise("DATA_FAILURE") /\ UNCHANGED ran
             ELSE /\ ran' = [ran EXCEPT ![model] = @ + 1] /\ step' = "record"
                  /\ UNCHANGED <<reason, model, stopping>>
    /\ UNCHANGED <<frozen, config_contaminated, persisted, saving, store, cycles, checkpoint, status>>

\* The next model, or what follows the last.
NextModel(first, after) ==
    IF model < 2 THEN model' = model + 1 /\ step' = first ELSE model' = 1 /\ step' = after

\* _record_model_state: before the events are copied, or at a stop after them.
RecordModelState ==
    /\ step = "record"
    /\ \E failed \in BOOLEAN :
          /\ Fails(failed)
          /\ CASE failed -> Raise("DATA_FAILURE")
               [] ~failed /\ stopping -> NextModel("stop", "stopped") /\ UNCHANGED <<reason, stopping>>
               [] OTHER -> step' = "persist" /\ UNCHANGED <<reason, model, stopping>>
    /\ saving' = persisted[model]
    /\ UNCHANGED <<frozen, config_contaminated, events, persisted, ran, store, cycles, checkpoint, status>>

\* A plausible mistake: an event counts as copied before it is written.
PersistEventCountedFirst ==
    /\ step = "persist" /\ saving < events[model]
    /\ \E outcome \in Outcomes :
          /\ AppendEvent(<<FillModel[model], saving + 1>>, outcome)
          /\ IF outcome = "written" THEN UNCHANGED <<step, reason, model, stopping>>
             ELSE Raise("DATA_FAILURE")
    /\ saving' = saving + 1 /\ persisted' = [persisted EXCEPT ![model] = saving']
    /\ UNCHANGED <<frozen, config_contaminated, events, ran, cycles, checkpoint, status>>

\* _persist_engine_delta: one event after the other, and when all are written
\* the count of those that need not be written again.
PersistEvent ==
    /\ step = "persist" /\ saving < events[model]
    /\ \E outcome \in Outcomes :
          /\ AppendEvent(<<FillModel[model], saving + 1>>, outcome)
          /\ IF outcome = "written" THEN UNCHANGED <<step, reason, model, stopping>>
             ELSE Raise("DATA_FAILURE")
    /\ saving' = saving + 1
    /\ UNCHANGED <<frozen, config_contaminated, events, persisted, ran, cycles, checkpoint, status>>

PersistedAll ==
    /\ step = "persist" /\ saving = events[model]
    /\ persisted' = [persisted EXCEPT ![model] = events[model]]
    /\ \E failed \in BOOLEAN :                      \* of save_order, save_fill, save_metrics
          /\ Fails(failed)
          /\ CASE failed -> Raise("DATA_FAILURE")
               [] ~failed /\ stopping /\ cycles > 0 -> step' = "record" /\ UNCHANGED <<reason, model, stopping>>
               [] ~failed /\ stopping /\ cycles = 0 ->
                     NextModel("stop", "stopped") /\ UNCHANGED <<reason, stopping>>
               [] OTHER -> NextModel("engine", "count") /\ UNCHANGED <<reason, stopping>>
    /\ UNCHANGED <<frozen, config_contaminated, events, saving, ran, store, cycles, checkpoint, status>>

\* The end of run_cycle: a checkpoint when the last is old enough, and there is
\* none before the first cycle.
Count ==
    /\ step = "count" /\ cycles' = cycles + 1
    /\ \/ /\ checkpoint' = cycles'
          /\ \E outcome \in Outcomes :
                /\ AppendEvent(<<"CHECKPOINT", 0>>, outcome)
                /\ IF outcome = "written" THEN step' = "sleep" /\ UNCHANGED <<reason, model, stopping>>
                   ELSE Raise("DATA_FAILURE")
       \/ /\ checkpoint # 0 /\ step' = "sleep" /\ Fails(FALSE)
          /\ UNCHANGED <<checkpoint, store, reason, model, stopping>>
    /\ UNCHANGED <<frozen, config_contaminated, events, persisted, saving, ran, status>>

\* The rest of the loop: the metrics that are printed, and the pause, which an
\* interrupt or the end of the duration cuts short.
Sleep ==
    /\ step = "sleep"
    /\ \/ step' = "fetch" /\ Fails(FALSE) /\ UNCHANGED <<reason, model, stopping>>
       \/ Raise("DATA_FAILURE") /\ Fails(TRUE)
       \/ \E why \in {"MANUAL_STOP", "COMPLETE"} : Raise(why) /\ Fails(FALSE)
    /\ UNCHANGED <<frozen, config_contaminated, events, persisted, saving, ran, store,
                   cycles, checkpoint, status>>
-----------------------------------------------------------------------------
\* stop: the shutdown of each engine, which tells of it, and the copying of what
\* its engine has told.
ShutDownEngine ==
    /\ step = "stop" /\ step' = "persist" /\ saving' = persisted[model]
    /\ events' = [events EXCEPT ![model] = @ + 1]
    /\ UNCHANGED <<frozen, config_contaminated, model, stopping, persisted, ran, store, report, world>>

MarkStopped ==
    /\ step = "stopped"
    /\ \E outcome \in Outcomes :
          /\ AppendEvent(<<"BASELINE_STOP", 0>>, outcome)
          /\ step' = IF outcome = "written" THEN "report" ELSE "aborted"
    /\ UNCHANGED <<frozen, session, report>>

WriteReport ==
    /\ step = "report"
    /\ \E failed \in BOOLEAN :
          /\ Fails(failed) /\ step' = IF failed THEN "aborted" ELSE "close"
          /\ status' = IF failed THEN status
                       ELSE IF config_contaminated THEN "INVALID_CONFIG" ELSE "COMPLETE"
    /\ UNCHANGED <<frozen, session, store, cycles, checkpoint, reason>>

\* The last save_session and save_metrics.
Close ==
    /\ step = "close"
    /\ \E failed \in BOOLEAN : Fails(failed) /\ step' = IF failed THEN "aborted" ELSE "ended"
    /\ UNCHANGED <<frozen, session, store, report>>

\* The user's editor, and the kill.
EditProfile ==
    /\ edits < MaxEdits /\ step \notin Over
    /\ edits' = edits + 1 /\ profile' \in Profiles \ {profile}
    /\ UNCHANGED <<step, frozen, session, store, report, faults>>

Kill == step \notin Over /\ step' = "killed" /\ UNCHANGED <<frozen, session, store, report, world>>

BaselineNext ==
    \/ Start \/ Fetch \/ CheckConfigFrozen \/ RunModel \/ RecordModelState
    \/ PersistEvent \/ PersistedAll \/ Count \/ Sleep
    \/ ShutDownEngine \/ MarkStopped \/ WriteReport \/ Close \/ EditProfile \/ Kill

BaselineSpec == BaselineInit /\ [][BaselineNext]_baselineVars
-----------------------------------------------------------------------------
Told(m) == {<<FillModel[m], n>> : n \in 1..events[m]}

\* Nothing the engines told is missing from the log or the table of a session
\* that says it was stopped, whatever failed before (stop, _persist_engine_delta):
\* an event that was being written when the store failed is written again.
StoppedIsComplete ==
    <<"BASELINE_STOP", 0>> \in ToSet(log) =>
        \A m \in Models : Told(m) \subseteq ToSet(log) \cap ToSet(rows)
=============================================================================
