---------------------------- MODULE ConfigStore ----------------------------
(* The dashboard's configuration: what the sessions of its operators stage,  *)
(* what they apply, and the files an apply writes one after the other        *)
(* (dashboard/config_store.py, and the staging of dashboard/app.py).         *)
(*                                                                           *)
(* A configuration is a competition profile and a strategy overlay, which    *)
(* live in two files and are validated each on its own.  A hash stands for   *)
(* the configuration it is taken of.  Left out: the .bak copies, which no    *)
(* code reads, the hash whose drift is only warned of, notes and timestamps, *)
(* and the redaction, which finds no secret in a validated configuration.    *)
(* The server keeps all sessions; when it dies, the files are what is left.  *)
EXTENDS Naturals, Sequences, FiniteSetsExt

CONSTANTS
    Sessions,        \* browser sessions of one dashboard server
    Risks,           \* what the limits of a profile add up to: larger is riskier
    Strategies,      \* overlays, a larger number being a riskier one
    MaxVersions,     \* bound: applies that are started
    MaxFailures      \* bound: failed writes and crashes of the server

VARIABLES
    profile, strategy, controller,  \* the three YAML files
    history,         \* v%04d.json: version -> [previous, config]
    events,          \* config_change_events.jsonl: [version, old, new]
    session,         \* of each session: [open, staged, job]
    started, failures,
    overlapped,      \* history variable: sessions whose apply ran beside another
    whole            \* history variable: the last apply to write ran alone and to its end

files == <<profile, strategy, controller, history, events>>
ghosts == <<overlapped, whole>>
storeVars == <<files, session, started, failures, ghosts>>

Networks == {"testnet", "mainnet"}

Competitions == [network : Networks, execution : BOOLEAN, risk : Risks]

\* CompetitionProfile.validate: mainnet profiles are read-only.
Valid(competition) == ~(competition.network = "mainnet" /\ competition.execution)

NoJob == [step |-> "none"]

\* ConfigStore.load().  Every pair of valid halves is a valid configuration.
Saved == [competition |-> profile, strategy |-> strategy]

\* ConfigStore.version(): the largest number in the history directory.
Version == Max({0} \cup DOMAIN history)

\* _is_risk_increasing over the fields, and the switch of execution_enabled.
RiskIncreasing(old, new) ==
    \/ new.competition.risk > old.competition.risk
    \/ new.strategy > old.strategy
EnablesExecution(old, new) == new.competition.execution /\ ~old.competition.execution
SwitchesToMainnet(old, new) ==
    new.competition.network = "mainnet" /\ old.competition.network # "mainnet"

AckRequired(old, new) ==
    RiskIncreasing(old, new) \/ EnablesExecution(old, new) \/ SwitchesToMainnet(old, new)

\* build_controller_config: the network of the profile; both permissions off.
ControllerOf(competition) ==
    [network |-> competition.network, execution |-> FALSE, mainnet_trading |-> FALSE]

\* environment_preset: another network stages execution off.
EnvironmentPreset(competition, network) ==
    [competition EXCEPT !.network = network, !.execution = FALSE]

\* preset_profile, of the profile that is saved.
PresetProfile(name, competition) ==
    IF name = "conservative" THEN [competition EXCEPT !.risk = Min(Risks)] ELSE competition

Idle(s) == session[s].open /\ session[s].job = NoJob

\* The first run of the script in a session: what is saved is staged.
Open(s) ==
    /\ ~session[s].open
    /\ session' = [session EXCEPT ![s] =
                     [open |-> TRUE, staged |-> Saved, job |-> NoJob]]
    /\ UNCHANGED <<files, started, failures, ghosts>>

\* _stage_record: a record that does not validate leaves what was staged.
Stage(s, bundle) ==
    /\ Idle(s)
    /\ session' = [session EXCEPT ![s].staged = IF Valid(bundle.competition) THEN bundle ELSE @]
    /\ UNCHANGED <<files, started, failures, ghosts>>

\* The forms of the pages: each stages what the operator enters in it.
StageStrategy(s) ==
    \E strategy_ \in Strategies : Stage(s, [session[s].staged EXCEPT !.strategy = strategy_])
StageRisk(s) ==
    \E risk \in Risks : Stage(s, [session[s].staged EXCEPT !.competition.risk = risk])
StageExecution(s) ==
    \E enabled \in BOOLEAN, risk \in Risks :
      Stage(s, [session[s].staged EXCEPT !.competition.execution = enabled,
                                         !.competition.risk = risk])
StageAssets(s) ==
    \E risk \in Risks : Stage(s, [session[s].staged EXCEPT !.competition.risk = risk])
StageEnvironment(s) ==
    \E network \in Networks :
      Stage(s, [session[s].staged EXCEPT !.competition = EnvironmentPreset(@, network)])
StageTemplate(s) ==
    \E name \in {"competition", "conservative"} :
      Stage(s, [session[s].staged EXCEPT !.competition = PresetProfile(name, profile)])

\* LOAD COMPETITION PROFILE and RESET TO SAVED CONFIG.
Reset(s) ==
    /\ Idle(s)
    /\ session' = [session EXCEPT ![s].staged = Saved]
    /\ UNCHANGED <<files, started, failures, ghosts>>

\* The click that starts an apply of the bundle; the script shows no page
\* of the session until the apply has ended.
Begin(s, bundle, from) ==
    /\ Idle(s) /\ started < MaxVersions
    /\ started' = started + 1
    /\ session' = [session EXCEPT ![s].job =
                     [step |-> "read", bundle |-> bundle, from |-> from]]
    /\ LET others == {t \in Sessions \ {s} : session[t].job # NoJob}
       IN overlapped' = IF others = {} THEN overlapped \ {s} ELSE overlapped \cup others \cup {s}
    /\ UNCHANGED <<files, failures, whole>>

\* APPLY: there are changes, and those of the risk have their box ticked.
Apply(s) ==
    /\ session[s].open /\ session[s].staged # Saved
    /\ \E acknowledged \in BOOLEAN :
         /\ AckRequired(Saved, session[s].staged) => acknowledged
         /\ Begin(s, session[s].staged, "sidebar")

\* RESTORE VERSION: the configuration of a version goes through apply().
Restore(s, version) ==
    /\ version \in DOMAIN history
    /\ Begin(s, history[version].config, "history")

At(s, step) == session[s].job # NoJob /\ session[s].job.step = step
Step(s, job) == session' = [session EXCEPT ![s].job = job]
Goto(s, step) == Step(s, [session[s].job EXCEPT !.step = step])

\* apply(): the configuration and then the version it replaces are read.
ReadCurrent(s) ==
    /\ At(s, "read")
    /\ LET job == session[s].job IN
         Step(s, [step |-> "version", bundle |-> job.bundle, from |-> job.from,
                  previous |-> Saved])
    /\ UNCHANGED <<files, started, failures, ghosts>>

TakeVersion(s) ==
    /\ At(s, "version")
    /\ LET job == session[s].job IN
         Step(s, [step |-> "profile", bundle |-> job.bundle, from |-> job.from,
                  previous |-> job.previous, version |-> Version + 1])
    /\ UNCHANGED <<files, started, failures, ghosts>>

\* A plausible mistake: the overlay is left as it is when the network has not changed.
WriteProfileOnly(s) ==
    /\ At(s, "profile")
    /\ profile' = session[s].job.bundle.competition
    /\ whole' = FALSE
    /\ Goto(s, IF session[s].job.bundle.competition.network = profile.network
               THEN "controller" ELSE "strategy")
    /\ UNCHANGED <<strategy, controller, history, events, started, failures, overlapped>>

\* The writes, each one a replacement of the whole file.
WriteProfile(s) ==
    /\ At(s, "profile")
    /\ profile' = session[s].job.bundle.competition
    /\ whole' = FALSE
    /\ Goto(s, "strategy")
    /\ UNCHANGED <<strategy, controller, history, events, started, failures, overlapped>>

WriteStrategy(s) ==
    /\ At(s, "strategy")
    /\ strategy' = session[s].job.bundle.strategy
    /\ Goto(s, "controller")
    /\ UNCHANGED <<profile, controller, history, events, started, failures, ghosts>>

WriteController(s) ==
    /\ At(s, "controller")
    /\ controller' = ControllerOf(session[s].job.bundle.competition)
    /\ Goto(s, "history")
    /\ UNCHANGED <<profile, strategy, history, events, started, failures, ghosts>>

WriteHistory(s) ==
    /\ At(s, "history")
    /\ LET job == session[s].job IN
         history' = [v \in DOMAIN history \cup {job.version} |->
                       IF v = job.version
                       THEN [previous |-> job.previous, config |-> job.bundle]
                       ELSE history[v]]
    /\ Goto(s, "event")
    /\ UNCHANGED <<profile, strategy, controller, events, started, failures, ghosts>>

\* The event is appended and apply() returns.  The sidebar
\* stages what is now saved; a restore leaves what was staged before it.
AppendEvent(s) ==
    /\ At(s, "event")
    /\ LET job == session[s].job IN
         /\ events' = Append(events, [version |-> job.version, old |-> job.previous,
                                      new |-> job.bundle])
         /\ session' = [session EXCEPT ![s] =
                          IF job.from = "sidebar"
                          THEN [@ EXCEPT !.job = NoJob, !.staged = Saved]
                          ELSE [@ EXCEPT !.job = NoJob]]
         /\ whole' = (s \notin overlapped)
    /\ UNCHANGED <<profile, strategy, controller, history, started, failures, overlapped>>

\* OSError of a write: "Configuration was not applied", whatever was written.
FailWrite(s) ==
    /\ session[s].job # NoJob
    /\ session[s].job.step \in {"profile", "strategy", "controller", "history", "event"}
    /\ failures < MaxFailures
    /\ failures' = failures + 1
    /\ session' = [session EXCEPT ![s].job = NoJob]
    /\ UNCHANGED <<files, started, ghosts>>

\* The server dies; nothing in it finishes or undoes the writes.
Crash ==
    /\ failures < MaxFailures
    /\ failures' = failures + 1
    /\ session' = [s \in Sessions |-> [session[s] EXCEPT !.open = FALSE, !.job = NoJob]]
    /\ UNCHANGED <<files, started, ghosts>>

StoreInit ==
    /\ profile = [network |-> "testnet", execution |-> FALSE, risk |-> Min(Risks)]
    /\ strategy = Min(Strategies)
    /\ controller = ControllerOf(profile)
    /\ history = <<>> /\ events = <<>>
    /\ session = [s \in Sessions |->
                    [open |-> FALSE, staged |-> Saved, job |-> NoJob]]
    /\ started = 0 /\ failures = 0
    /\ overlapped = {} /\ whole = FALSE

StoreNext ==
    \/ \E s \in Sessions :
         \/ Open(s) \/ Reset(s) \/ Apply(s)
         \/ StageStrategy(s) \/ StageRisk(s) \/ StageExecution(s) \/ StageAssets(s)
         \/ StageEnvironment(s) \/ StageTemplate(s)
         \/ \E version \in 1 .. MaxVersions : Restore(s, version)
         \/ ReadCurrent(s) \/ TakeVersion(s) \/ WriteProfile(s) \/ WriteStrategy(s)
         \/ WriteController(s) \/ WriteHistory(s) \/ AppendEvent(s) \/ FailWrite(s)
    \/ Crash

StoreSpec == StoreInit /\ [][StoreNext]_storeVars

-----------------------------------------------------------------------------
\* The files stay in their domains.
TypeOK ==
    /\ profile \in Competitions /\ strategy \in Strategies
    /\ DOMAIN history \subseteq 1 .. MaxVersions
    /\ Valid(profile)
    /\ \A v \in DOMAIN history : Valid(history[v].config.competition)
    /\ overlapped \subseteq Sessions /\ whole \in BOOLEAN

\* The newest version in the history, the three files and the last event are
\* of one configuration once an apply has run alone to its end, whatever
\* crashes, failed writes and racing applies came before it: five writes
\* without a transaction are mended by the next one (config_store.py:114-153).
LoneApplyMends ==
    whole =>
      /\ Version > 0
      /\ history[Version].config = Saved
      /\ controller = ControllerOf(profile)
      /\ events[Len(events)].version = Version /\ events[Len(events)].new = Saved

\* Every event in the log tells of a version that the history holds, even when
\* the server died or a write failed in between (config_store.py:129-151).
LoggedIsRecorded == \A n \in 1 .. Len(events) : events[n].version \in DOMAIN history

\* Both: an apply that runs alone mends what faults left, and no fault leaves an
\* event without its version (config_store.py:114-153).
StoreMendsAndRecords == LoneApplyMends /\ LoggedIsRecorded
=============================================================================
