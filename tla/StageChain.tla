------------------------------ MODULE StageChain ------------------------------
(***************************************************************************)
(* Stages 1 to 4 as they are run, each in a process of its own that is     *)
(* joined to the others by JSONL streams alone (the run() of the routines  *)
(* derive_market_state.py, derive_grid_mode.py and derive_grid_plan.py).   *)
(* A stage may be started again, its append may fail, and a stream is      *)
(* rotated whatever its readers have read.  What a stage computes is in    *)
(* StateEngine, ModeSelector and GridEngine; a record here is the number   *)
(* of the snapshot it comes from.  A poll and an append are one step each: *)
(* what comes between their halves is in CondorTailer.                     *)
(***************************************************************************)
EXTENDS Integers, Sequences, SequencesExt

CONSTANTS
    MaxSnapshots,                \* bound: the snapshots that are collected
    MaxLines,                    \* max_output_file_bytes, in lines
    MaxFaults,                   \* bound: restarts and failed appends
    ReplayInputs                 \* replay_existing_inputs of Stage 4

ASSUME ChainAssumption ==
    /\ {MaxSnapshots, MaxFaults} \subseteq Nat /\ MaxLines \in Nat \ {0}
    /\ ReplayInputs \in BOOLEAN

VARIABLES
    lines,                       \* the lines of each stream's file
    epoch,                       \* which file of the stream it is, 0 before the first
    read_to,                    \* of each tailer: _inode and, in lines, _offset
    batch,                       \* of Stages 2 and 3: the records of the poll under way
    polling,                          \* which tailer of Stage 4 is next, or "emit"
    booting,                     \* whether these are the bootstraps of Stage 4
    changed,                     \* changed
    inputs,                      \* latest: the record of each input, 0 for none
    planned,                     \* the inputs of the last plan in its stream, 0 before the first
    faults,
    faulted                      \* history: the newest snapshot at the last fault

chainVars ==
    <<lines, epoch, read_to, batch, polling, booting, changed, inputs, planned, faults, faulted>>

Streams == {"snapshot", "state", "mode"}
Feeds == [state |-> "snapshot", mode |-> "state"]    \* what Stages 2 and 3 read
Stages == DOMAIN Feeds

\* A tailer is known by its stage and its stream.
Tailers == {<<s, Feeds[s]>> : s \in Stages} \union {<<"plan", n>> : n \in Streams}
AtNothing == [epoch |-> 0, lines |-> 0]
AtEnd(n) == [epoch |-> epoch[n], lines |-> Len(lines[n])]

Newest == IF lines["snapshot"] = <<>> THEN 0 ELSE Last(lines["snapshot"])

ChainInit ==
    /\ lines = [n \in Streams |-> <<>>] /\ epoch = [n \in Streams |-> 0]
    /\ read_to = [t \in Tailers |-> AtNothing]
    /\ batch = [s \in Stages |-> <<>>]
    /\ polling = "snapshot" /\ booting = TRUE /\ changed = FALSE
    /\ inputs = [n \in Streams |-> 0] /\ planned = [n \in Streams |-> 0]
    /\ faults = 0 /\ faulted = 0

\* append_state(), append_mode_decision(): a file that is full is put aside,
\* with what no tailer has read of it.
AppendTo(n, record) ==
    LET rotated == lines[n] = <<>> \/ Len(lines[n]) >= MaxLines
    IN  /\ lines' = [lines EXCEPT ![n] = IF rotated THEN <<record>> ELSE Append(@, record)]
        /\ epoch' = IF rotated THEN [epoch EXCEPT ![n] = @ + 1] ELSE epoch

\* poll(): a file other than the one that is known is read from its start.
Unread(t) ==
    LET n == t[2]
    IN  IF read_to[t].epoch = epoch[n]
        THEN SubSeq(lines[n], read_to[t].lines + 1, Len(lines[n]))
        ELSE lines[n]

Faulted ==
    /\ faults < MaxFaults /\ faults' = faults + 1
    /\ faulted' = Newest

NoFault == UNCHANGED <<faults, faulted>>

\* Stage 1 appends a snapshot.
Collects ==
    /\ Newest < MaxSnapshots
    /\ AppendTo("snapshot", Newest + 1)
    /\ NoFault /\ UNCHANGED <<read_to, batch, polling, booting, changed, inputs, planned>>

-----------------------------------------------------------------------------
(* Stages 2 and 3 *)

StagePolls(s) ==
    LET t == <<s, Feeds[s]>>
    IN  /\ batch[s] = <<>> /\ Unread(t) # <<>>
        /\ batch' = [batch EXCEPT ![s] = Unread(t)]
        /\ read_to' = [read_to EXCEPT ![t] = AtEnd(t[2])]
        /\ NoFault /\ UNCHANGED <<lines, epoch, polling, booting, changed, inputs, planned>>

\* Every record is told of, in its order.
StageAppends(s) ==
    /\ batch[s] # <<>>
    /\ AppendTo(s, Head(batch[s]))
    /\ batch' = [batch EXCEPT ![s] = Tail(@)]
    /\ NoFault /\ UNCHANGED <<read_to, polling, booting, changed, inputs, planned>>

\* An append fails, and the stage goes on with the next record.
StageLoses(s) ==
    /\ batch[s] # <<>> /\ Faulted
    /\ batch' = [batch EXCEPT ![s] = Tail(@)]
    /\ UNCHANGED <<lines, epoch, read_to, polling, booting, changed, inputs, planned>>

\* A plausible mistake: a stage that starts again reads what it finds as if it came now.
StageReplays(s) ==
    LET t == <<s, Feeds[s]>>
    IN  /\ Faulted
        /\ batch' = [batch EXCEPT ![s] = <<>>]
        /\ read_to' = [read_to EXCEPT ![t] = AtNothing]
        /\ UNCHANGED <<lines, epoch, polling, booting, changed, inputs, planned>>

\* The stage is started again: what it finds only warms it.
StageRestarts(s) ==
    LET t == <<s, Feeds[s]>>
    IN  /\ Faulted
        /\ batch' = [batch EXCEPT ![s] = <<>>]
        /\ read_to' = [read_to EXCEPT ![t] = AtEnd(t[2])]
        /\ UNCHANGED <<lines, epoch, polling, booting, changed, inputs, planned>>

-----------------------------------------------------------------------------
(* Stage 4 *)

AfterTailer == [snapshot |-> "state", state |-> "mode", mode |-> "emit"]

\* bootstrap() and poll() of one of the three streams: the last record is kept.
PlanPolls(n) ==
    LET t == <<"plan", n>>
    IN  /\ polling = n /\ polling' = AfterTailer[n]
        /\ IF Unread(t) = <<>> THEN UNCHANGED <<inputs, changed>>
           ELSE inputs' = [inputs EXCEPT ![n] = Last(Unread(t))] /\ changed' = TRUE
        /\ read_to' = [read_to EXCEPT ![t] = AtEnd(n)]
        /\ NoFault /\ UNCHANGED <<lines, epoch, batch, booting, planned>>

Due == IF booting THEN ReplayInputs ELSE changed
Ready == \A n \in Streams : inputs[n] # 0

AfterEmit == polling' = "snapshot" /\ booting' = FALSE /\ changed' = FALSE

\* emit_if_ready()
PlanEmits ==
    /\ polling = "emit" /\ AfterEmit
    /\ planned' = IF Due /\ Ready THEN inputs ELSE planned
    /\ NoFault /\ UNCHANGED <<lines, epoch, read_to, batch, inputs>>

PlanLoses ==
    /\ polling = "emit" /\ Due /\ Ready /\ AfterEmit
    /\ Faulted
    /\ UNCHANGED <<lines, epoch, read_to, batch, inputs, planned>>

PlanRestarts ==
    /\ Faulted
    /\ polling' = "snapshot" /\ booting' = TRUE /\ changed' = FALSE
    /\ inputs' = [n \in Streams |-> 0]
    /\ read_to' = [t \in Tailers |-> IF t[1] = "plan" THEN AtNothing ELSE read_to[t]]
    /\ UNCHANGED <<lines, epoch, batch, planned>>

-----------------------------------------------------------------------------
StageRuns(s) == StagePolls(s) \/ StageAppends(s)
PlanRuns == PlanEmits \/ \E n \in Streams : PlanPolls(n)

ChainNext ==
    \/ Collects \/ PlanRuns \/ PlanLoses \/ PlanRestarts
    \/ \E s \in Stages : StageRuns(s) \/ StageLoses(s) \/ StageRestarts(s)

\* Each routine polls again and again.
ChainSpec ==
    /\ ChainInit /\ [][ChainNext]_chainVars
    /\ WF_chainVars(PlanRuns) /\ \A s \in Stages : WF_chainVars(StageRuns(s))

-----------------------------------------------------------------------------
(* Properties *)

ChainTypeOK ==
    /\ lines \in [Streams -> Seq(1..MaxSnapshots)] /\ epoch \in [Streams -> Nat]
    /\ read_to \in [Tailers -> [epoch : Nat, lines : Nat]]
    /\ batch \in [Stages -> Seq(1..MaxSnapshots)]
    /\ polling \in Streams \union {"emit"} /\ {booting, changed} \subseteq BOOLEAN
    /\ {inputs, planned} \subseteq [Streams -> 0..MaxSnapshots]
    /\ faults \in 0..MaxFaults /\ faulted \in 0..MaxSnapshots

\* No plan that reaches the stream is made of an older snapshot, state or mode
\* than the one before it, although every stage may start again from what it
\* finds in a file that was just rotated.
PlanInputsOnlyAdvance == [][\A n \in Streams : planned'[n] >= planned[n]]_planned

NewestPlanned == Newest > faulted => \A n \in Streams : planned[n] = Newest

\* A snapshot that comes after the last fault ends in a plan that joins it with
\* its own state and mode, although Stage 4 polls the three streams one after
\* another and may join it with an older state or an older one with its mode.
NewestIsPlanned == <>[]NewestPlanned
===============================================================================
