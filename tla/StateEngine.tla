------------------------------ MODULE StateEngine ------------------------------
(***************************************************************************)
(* The second stage of the pipeline (state_engine.StateEngine): it keeps   *)
(* the snapshots of one trading pair for as long as its windows reach, and *)
(* makes of each a MarketState with a volatility label, which has a        *)
(* threshold to enter and a lower one to leave, and a direction label,     *)
(* which must be called for by several scores in a row.                    *)
(*                                                                         *)
(* Of a snapshot the model keeps what the labels depend on.  Timestamps    *)
(* are ages, relative to the newest snapshot in the history.  The values   *)
(* of the two scores are arbitrary, whether they can be computed at all    *)
(* follows from the history as in the code (all weights are positive, as   *)
(* configured).  The inventory label, which has no memory, the confidence, *)
(* the reasons and the limit of 10,000 snapshots, which no window of       *)
(* minutes comes near, are left out.                                       *)
(***************************************************************************)
EXTENDS Integers, Sequences, FiniteSets

CONSTANTS
    Pairs,                       \* trading pairs of snapshots
    Gaps,                        \* timestamps of snapshots, after the newest kept
    Retention,                   \* the longest of the windows
    RvWindow,                    \* realized_vol_window_seconds
    RvBaseline,                  \* realized_vol_baseline_seconds
    IvWindow,                    \* iv_history_window_seconds
    ReturnWindow,                \* direction_return_window_seconds
    MinSamples,                  \* minimum_history_samples
    IvMinSamples,                \* iv_minimum_samples
    VolScores, HighEnter, HighExit,
    Scores, BullEnter, BullExit, BearEnter, BearExit,
    Confirm                      \* direction_confirmation_samples

NoPair == "none"

ASSUME WindowsAssumption ==
    /\ Gaps \subseteq Int /\ NoPair \notin Pairs
    /\ {RvWindow, RvBaseline, IvWindow, ReturnWindow} \subseteq 1..Retention
    /\ Retention \in Nat
    /\ MinSamples \in Nat \ {0, 1}
    /\ IvMinSamples \in Nat \ {0}

\* The bands of the two directions do not meet.
ASSUME ThresholdsAssumption ==
    /\ VolScores \union {HighEnter, HighExit} \subseteq Nat
    /\ HighExit <= HighEnter
    /\ Scores \union {BullEnter, BullExit, BearEnter, BearExit} \subseteq Int
    /\ BearEnter <= BearExit /\ BearExit <= 0 /\ 0 <= BullExit /\ BullExit <= BullEnter
    /\ BearEnter < 0 /\ 0 < BullEnter
    /\ Confirm \in Nat \ {0}

VolatilityState == {"INITIALIZING", "NORMAL", "HIGH"}
DirectionState == {"INITIALIZING", "BULLISH", "NEUTRAL", "BEARISH"}

VARIABLES
    trading_pair,                \* _trading_pair
    history,                     \* _history: age, presence of an ATM IV, pair
    volatility,                  \* _volatility_state
    direction,                   \* _direction_state
    pending,                     \* _pending_direction, INITIALIZING for None
    pending_count,               \* _pending_direction_count
    market_state,                \* the MarketState returned last
    scored                       \* history: the last Confirm direction scores, newest first

labels == <<volatility, direction, pending, pending_count, scored>>
engineVars == <<trading_pair, history, labels, market_state>>

Report(v, d, valid) == [volatility_state |-> v, direction_state |-> d, state_valid |-> valid]

EngineInit ==
    /\ trading_pair = NoPair
    /\ history = <<>>
    /\ volatility = "INITIALIZING"
    /\ direction = "INITIALIZING"
    /\ pending = "INITIALIZING"
    /\ pending_count = 0
    /\ market_state = Report("INITIALIZING", "INITIALIZING", FALSE)
    /\ scored = <<>>

-----------------------------------------------------------------------------
(* The history *)

\* The pair is the first one a snapshot names, be the snapshot of use or not.
SetPair(pair) == trading_pair' = IF trading_pair = NoPair THEN pair ELSE trading_pair

\* A plausible mistake: a snapshot of any pair will do.
UsableOfAnyPair(pair, valid, gap) == valid /\ (history = <<>> \/ gap > 0)

\* Of the engine's pair, valid, and newer than the history.
Usable(pair, valid, gap) ==
    /\ trading_pair \in {NoPair, pair}
    /\ valid
    /\ history = <<>> \/ gap > 0

\* The history with one more snapshot, from the first that the windows still
\* reach (_prune_history, which takes away from the left).
Extended(pair, gap, iv) ==
    LET aged == [i \in DOMAIN history |-> [history[i] EXCEPT !.age = @ + gap]]
        all  == Append(aged, [age |-> 0, iv |-> iv, pair |-> pair])
        young == {i \in DOMAIN all : all[i].age <= Retention}
        oldest == CHOOSE i \in young : \A j \in young : i <= j
    IN  SubSeq(all, oldest, Len(all))

\* The ages of the returns are those of the later of their two points, and the
\* baseline ends where the current window begins.  (The return of the newest
\* point is always in the current one.)
BaselineKnown(points) ==
    \E i \in 2..Len(points) : RvWindow <= points[i].age /\ points[i].age < RvBaseline

\* An IV ratio needs enough IVs before the present one.
IvRatioKnown(points) ==
    /\ points[Len(points)].iv
    /\ Cardinality({i \in 1..(Len(points) - 1) :
                       points[i].iv /\ points[i].age <= IvWindow}) >= IvMinSamples

\* A short return needs a price from before its window.
ReturnKnown(points) == \E i \in DOMAIN points : points[i].age >= ReturnWindow

-----------------------------------------------------------------------------
(* The labels *)

\* classify_volatility: HIGH is left below a lower threshold than it is entered.
ClassifyVolatility(score) ==
    IF score >= (IF volatility = "HIGH" THEN HighExit ELSE HighEnter) THEN "HIGH" ELSE "NORMAL"

\* classify_direction
ClassifyDirection(score) ==
    CASE score >= BullEnter -> "BULLISH"
      [] score <= BearEnter -> "BEARISH"
      [] OTHER -> "NEUTRAL"

\* _direction_target: a direction is kept up to its exit threshold.
DirectionTarget(score) ==
    CASE direction = "BULLISH" /\ score >= BullExit -> "BULLISH"
      [] direction = "BEARISH" /\ score <= BearExit -> "BEARISH"
      [] OTHER -> ClassifyDirection(score)

\* How many scores in a row, this one included, have called for the target.
Count(target) == IF target = pending THEN pending_count + 1 ELSE 1

\* A plausible mistake: a score for the present label leaves the count standing.
ConfirmedKeepingCount(target) ==
    IF target = direction
    THEN UNCHANGED <<direction, pending, pending_count>>
    ELSE IF Count(target) >= Confirm
    THEN direction' = target /\ pending' = "INITIALIZING" /\ pending_count' = 0
    ELSE pending' = target /\ pending_count' = Count(target) /\ UNCHANGED direction

\* A plausible mistake: one score too many is waited for.
ConfirmedLate(target) ==
    IF target = direction
    THEN pending' = "INITIALIZING" /\ pending_count' = 0 /\ UNCHANGED direction
    ELSE IF Count(target) > Confirm
    THEN direction' = target /\ pending' = "INITIALIZING" /\ pending_count' = 0
    ELSE pending' = target /\ pending_count' = Count(target) /\ UNCHANGED direction

\* _confirmed_direction
ConfirmedDirection(target) ==
    IF target = direction
    THEN pending' = "INITIALIZING" /\ pending_count' = 0 /\ UNCHANGED direction
    ELSE IF Count(target) >= Confirm
    THEN direction' = target /\ pending' = "INITIALIZING" /\ pending_count' = 0
    ELSE pending' = target /\ pending_count' = Count(target) /\ UNCHANGED direction

\* The score goes in front of the ones remembered.
Remember(score) ==
    scored' = [i \in 1..(IF Len(scored) < Confirm THEN Len(scored) + 1 ELSE Confirm) |->
                  IF i = 1 THEN score ELSE scored[i - 1]]

-----------------------------------------------------------------------------
(* update, by the three ways it returns *)

\* _invalid_state: nothing is learnt, and the labels so far are told as invalid.
Skip(pair, valid, gap) ==
    /\ ~Usable(pair, valid, gap)
    /\ SetPair(pair)
    /\ market_state' = Report(volatility, direction, FALSE)
    /\ UNCHANGED <<history, labels>>

\* Too few snapshots: the labels are kept, but not told.
WarmUp(pair, gap, iv) ==
    /\ Usable(pair, TRUE, gap)
    /\ Len(Extended(pair, gap, iv)) < MinSamples
    /\ SetPair(pair)
    /\ history' = Extended(pair, gap, iv)
    /\ market_state' = Report("INITIALIZING", "INITIALIZING", FALSE)
    /\ UNCHANGED labels

\* The volatility score, if there is one, moves the volatility label.
JudgeVolatility(known, score) ==
    volatility' = IF known THEN ClassifyVolatility(score) ELSE volatility

\* The direction score, if there is one, goes to the confirmation.
JudgeDirection(known, score) ==
    IF known
    THEN ConfirmedDirection(DirectionTarget(score)) /\ Remember(score)
    ELSE UNCHANGED <<direction, pending, pending_count, scored>>

\* A whole update; `book` says whether the book or the flow gives a component.
Judge(pair, gap, iv, book, vol_score, score) ==
    LET points == Extended(pair, gap, iv)
        vol_known == BaselineKnown(points) \/ IvRatioKnown(points)
        direction_known == book \/ ReturnKnown(points)
    IN  /\ Usable(pair, TRUE, gap)
        /\ Len(points) >= MinSamples
        /\ SetPair(pair)
        /\ history' = points
        /\ JudgeVolatility(vol_known, vol_score)
        /\ JudgeDirection(direction_known, score)
        /\ market_state' = Report(IF vol_known THEN volatility' ELSE "INITIALIZING",
                                  IF direction_known THEN direction' ELSE "INITIALIZING",
                                  BaselineKnown(points) /\ direction_known)

EngineNext ==
    \E pair \in Pairs, gap \in Gaps :
        \/ \E valid \in BOOLEAN : Skip(pair, valid, gap)
        \/ \E iv \in BOOLEAN : WarmUp(pair, gap, iv)
        \/ \E iv, book \in BOOLEAN, vol_score \in VolScores, score \in Scores :
              Judge(pair, gap, iv, book, vol_score, score)

EngineSpec == EngineInit /\ [][EngineNext]_engineVars

-----------------------------------------------------------------------------
(* Properties *)

\* The labels and what they are waiting for: the direction pending is not the
\* one told, and one score more may confirm it.
LabelsOK ==
    /\ volatility \in VolatilityState
    /\ direction \in DirectionState
    /\ pending \in DirectionState
    /\ pending = direction => direction = "INITIALIZING"
    /\ pending_count \in 0..(Confirm - 1)
    /\ pending_count = 0 <=> pending = "INITIALIZING"
    /\ scored \in Seq(Scores) /\ Len(scored) <= Confirm

\* The variables stay in their domains, and the history within its windows.
EngineTypeOK ==
    /\ trading_pair \in Pairs \union {NoPair}
    /\ history \in Seq([age : 0..Retention, iv : BOOLEAN, pair : Pairs])
    /\ market_state \in [volatility_state : VolatilityState,
                         direction_state : DirectionState, state_valid : BOOLEAN]
    /\ LabelsOK

\* What a score calls for, told apart from how the engine counts.
Calls(from, to, score) ==
    CASE to = "BULLISH" -> score >= BullEnter
      [] to = "BEARISH" -> score <= BearEnter
      [] to = "NEUTRAL" -> /\ BearEnter < score /\ score < BullEnter
                           /\ from = "BULLISH" => score < BullExit
                           /\ from = "BEARISH" => score > BearExit
      [] OTHER -> FALSE

AllCall(from, to, scores) ==
    Len(scores) = Confirm /\ \A i \in DOMAIN scores : Calls(from, to, scores[i])

\* The direction changes only to what the last direction_confirmation_samples
\* scores, each of them, called for (_confirmed_direction), whatever snapshots
\* without a score came in between.
DirectionEarned ==
    [][direction' # direction => AllCall(direction, direction', scored')]_engineVars

\* And it does change then: no direction all of the last scores call for is
\* left waiting (the count is neither lost nor restarted).
DirectionHeard ==
    \A d \in DirectionState \ {direction} : ~AllCall(direction, d, scored)

\* A state told as valid rests on a history that has enough points and reaches
\* back beyond the current volatility window, so that the two volatilities it
\* compares share no return (update, state_valid).
ValidMeansWarm ==
    market_state.state_valid =>
        /\ Len(history) >= MinSamples
        /\ history[1].age > RvWindow
        /\ history[Len(history)].age = 0

\* The snapshots of no two pairs are ever mixed, and they are kept in the order
\* of their time (the deque of update, whose windows rely on it).
HistoryOfOnePair ==
    /\ \A i \in DOMAIN history : history[i].pair = trading_pair
    /\ \A i, j \in DOMAIN history : i < j => history[i].age > history[j].age

\* What the labels are computed from is sound: both of the above.
HistorySound == ValidMeansWarm /\ HistoryOfOnePair
================================================================================
