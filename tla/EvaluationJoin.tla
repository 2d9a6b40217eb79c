---------------------------- MODULE EvaluationJoin ----------------------------
(***************************************************************************)
(* What the evaluation reads: the streams of stages 1 to 4 as they are     *)
(* loaded, one after the other, while the stages may still be writing them *)
(* (load_dataset), and the join of each plan with the records before it    *)
(* that every number of the evaluation is taken of (plan_frames, and the   *)
(* audit's canonicalize_plans and frames_from_plans).                      *)
(*                                                                         *)
(* A record is the instant it is stamped with, its pair, and what the join *)
(* or the audit look at: of a snapshot whether its IV is there, of a plan  *)
(* whether it is marked as a controlled one, and its version.              *)
(***************************************************************************)
EXTENDS Integers, FiniteSetsExt, SequencesExt

CONSTANTS
    NoInstant,                   \* a timestamp that does not parse: infinity
    Stages,                      \* the records of each stream: its name -> a set
    Loaded,                      \* the streams as they are when they are opened
    MaxCarriedAge,               \* one of IV_FRESHNESS_THRESHOLDS
    MaxWritten                   \* bound: the records written while it loads

StreamNames == <<"snapshots", "states", "modes", "plans">>
InputStreams == {"snapshots", "states", "modes"}

Instant == 0..NoInstant
SnapshotRow == [at : Instant, pair : STRING, iv : BOOLEAN]
StampedRow == [at : Instant, pair : STRING, iv : BOOLEAN, rv : BOOLEAN]
VersionRow == [at : Instant, pair : STRING, controlled : BOOLEAN, version : Nat]

ASSUME JoinAssumption ==
    /\ {NoInstant, MaxCarriedAge} \subseteq Nat
    /\ Stages \in [snapshots : SUBSET SnapshotRow, states : SUBSET StampedRow,
                   modes : SUBSET StampedRow, plans : SUBSET VersionRow]
    /\ Loaded \subseteq [snapshots : Seq(SnapshotRow), states : Seq(StampedRow),
                        modes : Seq(StampedRow), plans : Seq(VersionRow)]

VARIABLES
    streams,                     \* the records of each stream
    invalid,                     \* invalid_records of each stream
    reading,                     \* the stream that is read next, 5 when all are
    written                      \* the records written meanwhile

joinVars == <<streams, invalid, reading, written>>

-----------------------------------------------------------------------------
(* The order of a stream *)

\* sorted_records: by instant, and as in the file where it is the same, so that
\* as many as are before a record come before it.
Earlier(s, j, i) == s[j].at < s[i].at \/ (s[j].at = s[i].at /\ j < i)
Sorted(s) ==
    [k \in 1..Len(s) |-> s[CHOOSE i \in DOMAIN s :
                               Cardinality({j \in DOMAIN s : Earlier(s, j, i)}) = k - 1]]

\* The records at some places of a sequence, in their order.
Those(s, places) ==
    [k \in 1..Cardinality(places) |->
       s[CHOOSE i \in places : Cardinality({j \in places : j < i}) = k - 1]]

Timed(s) == Those(s, {i \in DOMAIN s : s[i].at # NoInstant})

\* _quality_for: what the manifest says of a stream's order and its gaps.
Quality(s) ==
    LET timed == Timed(s)
        times == [i \in 1..Len(timed) |-> timed[i].at]
    IN  [timestamp_records |-> Len(times),
         duplicate_timestamp_count |-> Len(times) - Cardinality(ToSet(times)),
         out_of_order_count |-> Cardinality({i \in 1..Len(times) - 1 : times[i + 1] < times[i]}),
         start |-> IF times = <<>> THEN NoInstant ELSE Min(ToSet(times)),
         end |-> IF times = <<>> THEN NoInstant ELSE Max(ToSet(times))]

\* common_start_seconds and common_end_seconds, of the streams that have a time.
Starts == {Quality(streams[n]).start : n \in ToSet(StreamNames)} \ {NoInstant}
Ends == {Quality(streams[n]).end : n \in ToSet(StreamNames)} \ {NoInstant}
InWindow(t) == Starts # {} /\ Max(Starts) <= t /\ t <= Min(Ends)

ReplaySnapshots ==
    LET sorted == Sorted(streams["snapshots"])
    IN  Those(sorted, {i \in DOMAIN sorted : InWindow(sorted[i].at)})

-----------------------------------------------------------------------------
(* The join *)

\* A plausible mistake: the first record of the instant and not the last.
AtOrBeforeFirst(name, t) ==
    LET sorted == Sorted(streams[name])
        past == {i \in DOMAIN sorted : sorted[i].at <= t}
        newest == {i \in past : sorted[i].at = sorted[Max(past)].at}
    IN  IF past = {} THEN <<>> ELSE <<sorted[Min(newest)]>>

\* AsOfSeries.at_or_before: the last one up to the instant, or none.
AtOrBefore(name, t) ==
    LET sorted == Sorted(streams[name])
        past == {i \in DOMAIN sorted : sorted[i].at <= t}
    IN  IF past = {} THEN <<>> ELSE <<sorted[Max(past)]>>

\* A frame needs all three, and of the pair of the plan.
Frame(plan) ==
    [plan |-> plan, inputs |-> [n \in InputStreams |-> AtOrBefore(n, plan.at)]]
Complete(frame) ==
    \A n \in InputStreams :
      frame.inputs[n] # <<>> /\ frame.inputs[n][1].pair = frame.plan.pair

Joined(plans) ==
    LET frames == [i \in 1..Len(plans) |-> Frame(plans[i])]
    IN  Those(frames, {i \in DOMAIN frames : Complete(frames[i])})

LastOfEachInstant(s) ==
    Those(s, {i \in DOMAIN s : i = Len(s) \/ s[i + 1].at # s[i].at})

\* plan_frames: the last plan of an instant, whoever it is of.
PlanFrames == Joined(LastOfEachInstant(Timed(Sorted(streams["plans"]))))

\* frames_from_plans, without its deduplication.
FramesFromPlans(plans) == Joined(Timed(Sorted(plans)))

\* canonicalize_plans: controlled plans are left out, and of the others the last
\* of each instant is kept.  One without an instant is a group of its own.
Production ==
    LET rows == streams["plans"] IN Those(rows, {i \in DOMAIN rows : ~rows[i].controlled})
Canonical ==
    LastOfEachInstant(Timed(Sorted(Production)))
    \o Those(Production, {i \in DOMAIN Production : Production[i].at = NoInstant})

LastPlanAt(t) ==
    LET rows == streams["plans"] IN rows[Max({i \in DOMAIN rows : rows[i].at = t})]
Instants == {streams["plans"][i].at : i \in 1..Len(streams["plans"])} \ {NoInstant}
Conflicting == {t \in Instants : Cardinality({p \in ToSet(Production) : p.at = t}) > 1}
DuplicateTimestamps == Len(Timed(streams["plans"])) - Cardinality(Instants)
ExcludedControlled == Len(streams["plans"]) - Len(Production)

\* _asof_iv_snapshots: IV that was there is carried until it is too old.
CarriedIv ==
    LET sorted == Sorted(streams["snapshots"])
        \* last_iv_time
        last[k \in 0..Len(sorted)] ==
            IF k = 0 THEN NoInstant
            ELSE IF sorted[k].iv THEN sorted[k].at ELSE last[k - 1]
    IN  [k \in 1..Len(sorted) |->
           [at |-> sorted[k].at,
            iv |-> /\ last[k] # NoInstant /\ sorted[k].at # NoInstant
                   /\ sorted[k].at - last[k] <= MaxCarriedAge]]

\* iv_coverage_audit: where the IV of a frame is, and what is there instead.
IvSource(frame, threshold) ==
    LET state == frame.inputs["states"][1]
    IN  CASE ~state.iv -> "missing"
          [] state.iv /\ frame.plan.at - state.at <= threshold -> "fresh"
          [] OTHER -> "stale"
Told(frames, source, threshold) ==
    {i \in 1..Len(frames) : IvSource(frames[i], threshold) = source}
RvFallback(frames, threshold) ==
    {i \in 1..Len(frames) :
       IvSource(frames[i], threshold) # "fresh" /\ frames[i].inputs["states"][1].rv}

-----------------------------------------------------------------------------
(* Loading *)

\* A stage appends to its stream.  What it appends after the stream has been
\* read is in no frame.
Write ==
    /\ \E k \in 1..4 :
         /\ reading <= k
         /\ \E r \in Stages[StreamNames[k]] :
              streams' = [streams EXCEPT ![StreamNames[k]] = Append(@, r)]
    /\ written < MaxWritten /\ written' = written + 1
    /\ UNCHANGED <<invalid, reading>>

\* load_jsonl: a line that is being written is malformed, and is left out.
Load ==
    /\ reading <= 4
    /\ LET name == StreamNames[reading]
           s == streams[name]
       IN  \E torn \in {0, 1} :
             /\ torn <= Len(s)
             /\ streams' = [streams EXCEPT ![name] = SubSeq(s, 1, Len(s) - torn)]
             /\ invalid' = [invalid EXCEPT ![name] = @ + torn]
    /\ reading' = reading + 1
    /\ UNCHANGED written

JoinInit ==
    /\ streams \in Loaded
    /\ invalid = [n \in ToSet(StreamNames) |-> 0]
    /\ reading = 1 /\ written = 0

JoinNext == Write \/ Load

JoinSpec == JoinInit /\ [][JoinNext]_joinVars

-----------------------------------------------------------------------------
Frames == PlanFrames
CanonicalFrames == FramesFromPlans(Canonical)

\* What a frame joins was stamped no later than its plan, and nothing that was
\* read comes between, whatever the order it was written in.
Causal(frame) ==
    \A n \in InputStreams :
      LET s == streams[n]
          r == frame.inputs[n][1]
      IN  \E i \in 1..Len(s) :
            /\ s[i] = r /\ r.at <= frame.plan.at
            /\ \A j \in 1..Len(s) :
                 s[j].at <= frame.plan.at
                 => s[j].at < r.at \/ (s[j].at = r.at /\ j <= i)

\* There is one frame an instant, and both ways to it differ only in the
\* instants whose last plan is a controlled one.
OneAnInstant ==
    LET frames == Frames
        canonical == ToSet(CanonicalFrames)
    IN  /\ \A i, j \in 1..Len(frames) : i < j => frames[i].plan.at < frames[j].plan.at
        /\ \A t \in Instants :
             ~LastPlanAt(t).controlled
             => \A f \in ToSet(frames) \union canonical :
                  f.plan.at = t => f \in ToSet(frames) \intersect canonical

\* In the common window a plan is without an input only of a stream that tells
\* no time, which does not narrow the window.
WindowIsCovered ==
    \A t \in Instants, n \in InputStreams :
      InWindow(t) /\ Timed(streams[n]) # <<>> => AtOrBefore(n, t) # <<>>

\* Every plan of the stream is canonical, excluded, or one too many.
ConflictsAccounted ==
    LET rows == streams["plans"]
        onlyControlled == {t \in Instants : \A i \in 1..Len(rows) :
                                              rows[i].at = t => rows[i].controlled}
        untimed == Cardinality({i \in 1..Len(rows) :
                                  rows[i].at = NoInstant /\ rows[i].controlled})
    IN  /\ Len(rows) = Len(Canonical) + DuplicateTimestamps + Cardinality(onlyControlled)
                       + untimed
        /\ ExcludedControlled >= Cardinality(onlyControlled) + untimed
        /\ Cardinality(Conflicting) <= DuplicateTimestamps

\* A stream that is told in order is the one that is replayed, IV is carried
\* from a snapshot that had it and is not too old, and a longer threshold makes
\* IV fresh where there was a fallback and never the other way.
ManifestHolds ==
    LET carried == CarriedIv
        sorted == Sorted(streams["snapshots"])
        frames == CanonicalFrames
    IN  /\ \A n \in ToSet(StreamNames) :
             Quality(streams[n]).out_of_order_count = 0
             => Timed(Sorted(streams[n])) = Timed(streams[n])
        /\ \A i \in 1..Len(carried) :
             carried[i].iv <=>
               /\ carried[i].at # NoInstant
               /\ \E j \in 1..i : /\ sorted[j].iv
                                  /\ carried[i].at - carried[j].at <= MaxCarriedAge
        /\ \A r \in ToSet(ReplaySnapshots) : r \in ToSet(streams["snapshots"])
        /\ Told(frames, "fresh", 0) \subseteq Told(frames, "fresh", MaxCarriedAge)
        /\ RvFallback(frames, MaxCarriedAge) \subseteq RvFallback(frames, 0)

\* Once all is read, every frame is causal, and what is told of the streams
\* (conflicts, window, order, IV) is so: no number of the evaluation has looked
\* ahead, and none is of a plan that counts twice.
FramesAreCausal ==
    reading = 5 =>
      /\ \A f \in ToSet(Frames) \union ToSet(CanonicalFrames) : Causal(f)
      /\ OneAnInstant /\ WindowIsCovered /\ ConflictsAccounted /\ ManifestHolds
================================================================================
