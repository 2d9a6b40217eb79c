------------------------------ MODULE PauseEpisodes ------------------------------
(***************************************************************************)
(* How the stage reports tell the pauses and the risk blocks of a session: *)
(* from one series of cycles, stages 12e, 12f, 12g and 13 each make        *)
(* episodes of their own, by cause, by asset, across the portfolio and of  *)
(* the candidates a pause begins with, and the tracker of stage 12c makes  *)
(* its own while the session runs.                                         *)
(*                                                                         *)
(* The cycles are those of one trading pair.  Texts, percentiles, buckets  *)
(* and the fields a row merely carries are left out.                       *)
(***************************************************************************)
EXTENDS Integers, FiniteSetsExt, SequencesExt

CONSTANTS
    Observations,                \* what a cycle may have observed
    Steps,                       \* seconds between cycles
    GapSeconds,                  \* continuity_gap_seconds
    MaxCyclesTold                \* bound: how many cycles there are

DATA_PAUSE_CATEGORIES == {"DATA_VALIDITY", "GLOBAL_IV_DATA", "RELATIONSHIP_NOT_VALID"}

ASSUME EpisodesAssumption ==
    /\ Steps \subseteq Nat \ {0} /\ GapSeconds \in Nat /\ MaxCyclesTold \in Nat
    /\ \A o \in Observations :
          /\ {o.snapshot, o.state, o.relation, o.iv, o.enabled, o.gate, o.confirmed}
               \subseteq BOOLEAN
          /\ o.plan \in {"valid", "quantized_away", "no_levels", "invalid"}
          /\ o.mode \in STRING /\ o.candidate \in STRING

VARIABLES
    rows,                        \* the plan rows, one for each cycle
    active,                      \* RiskEpisodeTracker._active, by level
    ended,                       \* RiskEpisodeTracker._episodes
    raw_blocks_total

episodeVars == <<rows, active, ended, raw_blocks_total>>

NoEpisode == [first |-> 0, last |-> 0, count |-> 0]

GridLevels == UNION {o.levels \union o.blocked : o \in Observations}

EpisodesInit ==
    /\ rows = <<>>
    /\ active = [l \in GridLevels |-> NoEpisode]
    /\ ended = <<>>
    /\ raw_blocks_total = 0

-----------------------------------------------------------------------------
(* Rows (stage 12e) *)

\* _plan_reason: the first of the gates the cycle failed at.
PlanReason(o) ==
    CASE ~o.snapshot \/ ~o.state -> "DATA_VALIDITY"
      [] ~o.relation -> "RELATIONSHIP_NOT_VALID"
      [] ~o.iv -> "GLOBAL_IV_DATA"
      [] o.plan = "quantized_away" -> "GRID_VALIDATION"
      [] o.plan = "no_levels" -> "NO_LEVELS"
      [] o.plan = "invalid" -> "PLAN_VALIDATION"
      [] o.mode = "pause" \/ ~o.enabled -> "MODE_PAUSE"
      [] o.gate -> "EXECUTION_GATE"
      [] o.blocked # {} -> "PORTFOLIO_RISK"
      [] o.levels = {} -> "NO_LEVELS"
      [] OTHER -> "NONE"

Transition(before, valid) ==
    CASE before = <<>> -> IF valid THEN "INITIAL_VALID" ELSE "INITIAL_INVALID"
      [] before # <<>> /\ Last(before).plan_valid /\ ~valid -> "VALID_TO_INVALID"
      [] before # <<>> /\ ~Last(before).plan_valid /\ valid -> "INVALID_TO_VALID"
      [] OTHER -> IF valid THEN "VALID_CONTINUED" ELSE "INVALID_CONTINUED"

\* build_plan_invalid_rows: a cycle, beside the one before it.
PlanRow(before, o, at) ==
    LET levels == IF before = <<>> THEN {} ELSE Last(before).levels
    IN  [at |-> at, transition |-> Transition(before, o.plan = "valid"),
         plan_valid |-> o.plan = "valid", mode |-> o.mode, category |-> PlanReason(o),
         is_paused |-> PlanReason(o) # "NONE" \/ o.mode = "pause",
         levels |-> o.levels, removed |-> levels \ o.levels, added |-> o.levels \ levels,
         candidate |-> o.candidate, confirmed |-> o.confirmed]

-----------------------------------------------------------------------------
(* Episodes *)

\* A plausible mistake: an episode goes on when its first cycle is near.
ContinuedFromFirst(episodes, row) ==
    IF episodes = <<>> \/ row.at - Last(episodes).first > GapSeconds
    THEN Append(SelectSeq(episodes, LAMBDA e : e.last < row.at),
                [first |-> row.at, last |-> row.at, count |-> 1,
                 affected |-> row.removed, causes |-> <<row.category>>])
    ELSE [episodes EXCEPT ![Len(episodes)].last = row.at]

\* A row goes to the episode before it, unless the gap is too long.
Continued(episodes, row) ==
    IF episodes = <<>> \/ row.at - Last(episodes).last > GapSeconds
    THEN Append(episodes, [first |-> row.at, last |-> row.at, count |-> 1,
                           affected |-> row.removed, causes |-> <<row.category>>])
    ELSE [episodes EXCEPT ![Len(episodes)] =
            [@ EXCEPT !.last = row.at, !.count = @ + 1, !.affected = @ \union row.removed,
                      !.causes = Append(@, row.category)]]

Categories(told) == {told[i].category : i \in DOMAIN told}

\* build_pause_episodes: by cause (stages 12e and 12f).
CauseEpisodes(told, category) ==
    FoldLeft(Continued, <<>>,
             SelectSeq(told, LAMBDA r : r.is_paused /\ r.category = category))

\* What stage 12f adds: the levels an episode took away and that came back,
\* and after how long.
Returned(told, episode) ==
    LET later == {i \in DOMAIN told : told[i].plan_valid /\ told[i].at > episode.last}
        levels == episode.affected \intersect UNION {told[i].levels : i \in later}
        back == {told[i].at : i \in {j \in later : told[j].levels \intersect levels # {}}}
    IN  [levels |-> levels, after |-> IF levels = {} THEN 0 ELSE Min(back) - episode.last]

\* build_pause_count_reconciliation
CountReconciliation(told) ==
    LET OfCategory(c) == LET episodes == CauseEpisodes(told, c)
                         IN  FoldLeft(LAMBDA n, e : n + e.count, 0, episodes)
    IN  [pause_observations |-> Cardinality({i \in DOMAIN told : told[i].is_paused}),
         from_episodes |-> MapThenSumSet(OfCategory, Categories(told))]

\* _pause_rows: stage 12g also takes an invalid plan for a pause.
PauseRows(told) ==
    SelectSeq(told, LAMBDA r : r.is_paused \/ ~r.plan_valid \/ r.mode = "pause")

\* The cause most of an episode's cycles have; of several, the first seen.
Primary(causes) ==
    LET Times(c) == Cardinality({i \in DOMAIN causes : causes[i] = c})
        first == CHOOSE i \in DOMAIN causes :
                    /\ \A j \in DOMAIN causes : Times(causes[j]) <= Times(causes[i])
                    /\ \A j \in DOMAIN causes :
                          Times(causes[j]) = Times(causes[i]) => i <= j
    IN  causes[first]

\* build_pause_episode_breakdown, of the asset: an episode lasts until the
\* first valid plan after it, or the end.
AssetEpisodes(told, end) ==
    LET episodes == FoldLeft(Continued, <<>>, PauseRows(told))
        Recovery(e) == {told[i].at : i \in {j \in DOMAIN told :
                            told[j].plan_valid /\ told[j].at > e.last}}
        Until(e) == IF Recovery(e) = {} THEN end ELSE Min(Recovery(e))
    IN  [i \in DOMAIN episodes |->
            [first |-> episodes[i].first, end |-> Until(episodes[i]),
             count |-> episodes[i].count, primary |-> Primary(episodes[i].causes),
             recovered |-> Recovery(episodes[i]) # {}]]

\* The same of the portfolio: those for its limits, joined across the gaps.
PortfolioEpisodes(told, end) ==
    LET Join(joined, e) ==
            IF joined = <<>> \/ e.first > Last(joined).end + GapSeconds
            THEN Append(joined, e)
            ELSE [joined EXCEPT ![Len(joined)] =
                    [@ EXCEPT !.end = IF e.end > @ THEN e.end ELSE @,
                              !.count = @ + e.count]]
    IN  FoldLeft(Join, <<>>, SelectSeq(AssetEpisodes(told, end),
                                       LAMBDA e : e.primary = "PORTFOLIO_RISK"))

\* build_pause_hysteresis: an episode for every run of cycles with the same
\* candidate for a pause; it ends when the next cycle has another or none.
CandidateEpisodes(told) ==
    LET Starts(i) == told[i].candidate # "" /\
                        (i = 1 \/ told[i - 1].candidate # told[i].candidate)
        Ends(i) == {j \in DOMAIN told : j > i /\ told[j].candidate # told[i].candidate}
        LastOf(i) == IF Ends(i) = {} THEN Len(told) ELSE Min(Ends(i)) - 1
    IN  {[category |-> told[i].candidate, start |-> told[i].at, closed |-> Ends(i) # {},
          finish |-> IF Ends(i) = {} THEN told[Len(told)].at ELSE told[Min(Ends(i))].at,
          count |-> LastOf(i) - i + 1,
          confirmed |-> \E j \in i..LastOf(i) : told[j].confirmed /\ told[j].mode = "pause"] :
            i \in {j \in DOMAIN told : Starts(j)}}

\* build_plan_oscillation: how often the plan was lost and came back, and the
\* longest time it was away, in cycles.
Oscillation(told) ==
    LET Count(t) == Cardinality({i \in DOMAIN told : told[i].transition = t})
        Streak(run, r) == IF r.plan_valid THEN [run EXCEPT !.now = 0]
                          ELSE [now |-> run.now + 1,
                                longest |-> IF run.now + 1 > run.longest THEN run.now + 1
                                            ELSE run.longest]
        Invalid(S) == Cardinality({i \in DOMAIN told :
                                      ~told[i].plan_valid /\ told[i].category \in S})
    IN  [lost |-> Count("VALID_TO_INVALID"), back |-> Count("INVALID_TO_VALID"),
         longest |-> FoldLeft(Streak, [now |-> 0, longest |-> 0], told).longest,
         data |-> Invalid(DATA_PAUSE_CATEGORIES),
         strategy |-> Invalid({"GRID_VALIDATION", "NO_LEVELS", "MODE_PAUSE", "EXECUTION_GATE",
                               "PORTFOLIO_RISK"})]

\* build_plan_oscillation_stage12f: the same of a level, and the seconds it was
\* away each time.
LevelOscillation(told, level) ==
    LET See(seen, r) ==
            CASE seen.present /\ level \notin r.levels ->
                    [seen EXCEPT !.present = FALSE, !.removals = @ + 1, !.removed_at = r.at]
              [] ~seen.present /\ level \in r.levels ->
                    [seen EXCEPT !.present = TRUE, !.removed_at = -1,
                                 !.absences = IF seen.removed_at = -1 THEN @
                                              ELSE Append(@, r.at - seen.removed_at)]
              [] OTHER -> seen
    IN  FoldLeft(See, [present |-> FALSE, removals |-> 0, removed_at |-> -1,
                       absences |-> <<>>], told)

-----------------------------------------------------------------------------
(* The tracker (stage 12c) *)

\* RiskEpisodeTracker.record, for each of the levels that were blocked.
Record(blocked, at) ==
    LET stale == {l \in blocked : active[l].count > 0 /\ at - active[l].last > GapSeconds}
        new == {l \in blocked : active[l].count = 0} \union stale
    IN  /\ active' = [l \in GridLevels |->
              IF l \in new THEN [first |-> at, last |-> at, count |-> 1]
              ELSE IF l \in blocked THEN [active[l] EXCEPT !.last = at, !.count = @ + 1]
              ELSE active[l]]
        /\ ended' = ended \o [i \in 1..Cardinality(stale) |-> active[SetToSeq(stale)[i]]]
        /\ raw_blocks_total' = raw_blocks_total + Cardinality(blocked)

CycleTold ==
    /\ Len(rows) < MaxCyclesTold
    /\ \E o \in Observations, step \in Steps :
          LET at == (IF rows = <<>> THEN 0 ELSE Last(rows).at) + step
          IN  /\ rows' = Append(rows, PlanRow(rows, o, at))
              /\ Record(o.blocked, at)

EpisodesSpec == EpisodesInit /\ [][CycleTold]_episodeVars

-----------------------------------------------------------------------------
(* Properties *)

Apart(episodes) ==
    \A i \in DOMAIN episodes :
        i > 1 => episodes[i].first - episodes[i - 1].last > GapSeconds

\* No observation is told twice or left out: the cycles of the episodes add up
\* to the cycles paused (count_reconciliation_pass), the episodes of one cause
\* lie apart in time, the runs of pause candidates cover the cycles that have
\* one, a plan or a level comes back only after it was lost, at most once for
\* each time, and every block the tracker was told of is in one episode.
EpisodesReconcile ==
    LET Told(e) == e.count
        Total(episodes) == FoldLeft(LAMBDA n, e : n + e.count, 0, episodes)
        osc == Oscillation(rows)
        end == IF rows = <<>> THEN 0 ELSE Last(rows).at
        asset == AssetEpisodes(rows, end)
        counts == CountReconciliation(rows)
        Count(l) == active[l].count
    IN  /\ counts.pause_observations = counts.from_episodes
        /\ \A c \in Categories(rows) :
              /\ Apart(CauseEpisodes(rows, c))
              /\ \A i \in DOMAIN CauseEpisodes(rows, c) :
                    LET returned == Returned(rows, CauseEpisodes(rows, c)[i])
                    IN  returned.levels # {} => returned.after > 0
        /\ Total(asset) = Len(PauseRows(rows))
        /\ Total(PortfolioEpisodes(rows, end))
             = Total(SelectSeq(asset, LAMBDA e : e.primary = "PORTFOLIO_RISK"))
        /\ MapThenSumSet(Told, CandidateEpisodes(rows))
             = Cardinality({i \in DOMAIN rows : rows[i].candidate # ""})
        /\ osc.lost - osc.back \in {-1, 0, 1}
        /\ \A l \in GridLevels :
              LET seen == LevelOscillation(rows, l)
              IN  seen.removals - Len(seen.absences) \in {0, 1}
        /\ raw_blocks_total = MapThenSumSet(Count, GridLevels) + Total(ended)
================================================================================
