------------------------------ MODULE RunMetrics ------------------------------
(***************************************************************************)
(* The series a baseline session measures itself by (TimeWeightedExposure  *)
(* and DrawdownTracker of shadow_baseline.py), and the sums its report     *)
(* takes over a stretch of them.  A point is recorded at the start, after  *)
(* every cycle and at the stop, all by the local clock: they come in order *)
(* but where that clock is set back.  _integrate sorts them, and what the  *)
(* sums promise here does not depend on the order.  Times are whole        *)
(* seconds, one kind of exposure stands for the nine that are summed alike.*)
(***************************************************************************)
EXTENDS Integers, Sequences, SequencesExt, FiniteSets, FiniteSetsExt

CONSTANTS
    LastSecond,                  \* bound: times are 0..LastSecond
    MaxPoints,                   \* bound: how many points there are
    Exposures, Equities,         \* what the points may hold
    Threshold                    \* of the time above it

VARIABLES
    points,                      \* what add() has appended, both trackers' in one
    high_water_mark,             \* high_water_mark
    stopped                      \* the last point is that of stop()

vars == <<points, high_water_mark, stopped>>

Times == 0..LastSecond

\* TimeWeightedExposure.add and DrawdownTracker.add
Point(time, exposure, equity, mark) ==
    [at |-> time, nth |-> Len(points) + 1, exposure |-> exposure, equity |-> equity,
     drawdown |-> Max({0, mark - equity})]

Add(time, exposure, equity) ==
    LET mark == Max({high_water_mark, equity})
    IN  /\ high_water_mark' = mark
        /\ points' = Append(points, Point(time, exposure, equity, mark))

\* start: no exposure, and the equity the session begins with.
Init ==
    /\ \E equity \in Equities, time \in Times :
          /\ high_water_mark = equity
          /\ points = <<[at |-> time, nth |-> 1, exposure |-> 0, equity |-> equity, drawdown |-> 0]>>
    /\ stopped = FALSE

\* _record_model_state, of a cycle, at any time the clock may show, or of the
\* stop, which is not before the start.
RecordModelState ==
    /\ ~stopped /\ Len(points) < MaxPoints
    /\ \E time \in Times, exposure \in Exposures, equity \in Equities : Add(time, exposure, equity)
    /\ UNCHANGED stopped

Stop ==
    /\ ~stopped /\ Len(points) > 1 /\ stopped' = TRUE
    /\ \E time \in points[1].at .. LastSecond, equity \in Equities :
          Add(time, Last(points).exposure, equity)

Next == RecordModelState \/ Stop

Spec == Init /\ [][Next]_vars
-----------------------------------------------------------------------------
\* A plausible mistake: the points as they arrived.
AsTheyArrived(series) == series

\* The points in the order of their times, and of their arrival at one time.
Ordered(series) ==
    SortSeq(series, LAMBDA p, q : p.at < q.at \/ (p.at = q.at /\ p.nth < q.nth))

\* What _integrate and _time_above walk: the last point up to the start, if
\* there is one, and the points after it and before the end.
Walk(series, start, end) ==
    LET ordered == Ordered(series)
        before == SelectSeq(ordered, LAMBDA p : p.at <= start)
        future == SelectSeq(ordered, LAMBDA p : start < p.at /\ p.at < end)
    IN  (IF before = <<>> THEN <<[exposure |-> 0, at |-> start]>>
         ELSE <<[exposure |-> Last(before).exposure, at |-> start]>>)
        \o [i \in 1..Len(future) |-> [exposure |-> future[i].exposure, at |-> future[i].at]]

\* How long each point of a walk lasts: until the next, the last until the end.
Lasts(walk, i, end) == (IF i < Len(walk) THEN walk[i + 1].at ELSE end) - walk[i].at

\* _integrate and _time_above
Integrate(series, start, end) ==
    LET walk == Walk(series, start, end)
    IN  FoldLeftDomain(LAMBDA total, i : total + walk[i].exposure * Lasts(walk, i, end), 0, walk)

TimeAbove(series, start, end) ==
    LET walk == Walk(series, start, end)
    IN  FoldLeftDomain(LAMBDA total, i :
            total + (IF walk[i].exposure >= Threshold THEN Lasts(walk, i, end) ELSE 0), 0, walk)

\* DrawdownTracker.summary: the time under water, the longest stretch of it, and
\* how often it begins or ends.
Drawdown(series, start, end) ==
    LET ordered == Ordered(series)
        until(i) == IF i < Len(ordered) THEN ordered[i + 1].at ELSE end
        seconds(i) == Max({0, Min({end, until(i)}) - Max({start, ordered[i].at})})
        Step(sums, i) ==
            LET under == ordered[i].drawdown > 0
                current == IF under THEN sums.current + seconds(i) ELSE 0
            IN  [underwater |-> sums.underwater + (IF under THEN seconds(i) ELSE 0),
                 current |-> current, longest |-> Max({sums.longest, current}),
                 turns |-> sums.turns + (IF under # sums.under THEN 1 ELSE 0), under |-> under]
    IN  FoldLeftDomain(Step, [underwater |-> 0, current |-> 0, longest |-> 0,
                              turns |-> 0, under |-> FALSE], ordered)
-----------------------------------------------------------------------------
\* The definition they are measured against: what holds in a second is what the
\* last point of the latest time up to it says.
Holding(time) ==
    LET past == {i \in DOMAIN points : points[i].at <= time}
        latest == {i \in past : \A j \in past : points[j].at <= points[i].at}
    IN  Max(latest)

Known(time) == \E i \in DOMAIN points : points[i].at <= time

ExposureIn(time) == IF Known(time) THEN points[Holding(time)].exposure ELSE 0

Underwater(time) == Known(time) /\ points[Holding(time)].drawdown > 0

\* The report's exposure over any stretch is the sum of what holds in each of
\* its seconds, and its time above a threshold counts those seconds, also when
\* the clock was set back or points came at one time (_integrate, _time_above); the
\* hours of a run therefore add up to the run.
ExposureIsExact ==
    \A start, end \in Times : start <= end =>
        /\ Integrate(points, start, end) = MapThenSumSet(ExposureIn, start .. (end - 1))
        /\ TimeAbove(points, start, end)
               = Cardinality({t \in start .. (end - 1) : ExposureIn(t) >= Threshold})

\* The time under water is that of the seconds whose point is below the highest
\* equity so far, and the longest stretch of them is one that no other second and
\* no point at the high-water mark interrupts, be it for no time
\* (DrawdownTracker.summary, over the run from its first point).
UnderwaterIsExact ==
    \A end \in points[1].at .. LastSecond :
        LET start == points[1].at
            under == {t \in start .. (end - 1) : Underwater(t)}
            stretches == {s \in (start .. end) \X (start .. end) :
                             /\ s[1] <= s[2] /\ (s[1] .. (s[2] - 1)) \subseteq under
                             /\ \A i \in DOMAIN points :
                                    points[i].at \in (s[1] + 1) .. (s[2] - 1) => points[i].drawdown > 0}
            drawdown == Drawdown(points, start, end)
        IN  /\ drawdown.underwater = Cardinality(under)
            /\ drawdown.longest = Max({s[2] - s[1] : s \in stretches})

\* The sums of the report say what the points say, in whatever order they came.
SeriesAreExact == ExposureIsExact /\ UnderwaterIsExact
=============================================================================
