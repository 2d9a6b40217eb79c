------------------------------ MODULE OrderLifecycle ------------------------------
(***************************************************************************)
(* What the shadow engine writes of the life of its orders, and what the   *)
(* stage reports make of it.  Two clocks meet here: the controller's, one  *)
(* tick a cycle, and that of the market frames, the time of their receipt, *)
(* which cycles of a replay may share.  An order bears the times of both,  *)
(* the cycle that made it and the cycle that cancelled it.                 *)
(*                                                                         *)
(* Which orders a frame fills and what the reconciliation decides of a     *)
(* level are arbitrary, as far as the reconciliation allows it             *)
(* (ShadowExecution and AdaptiveGrid model the decisions).  Every order    *)
(* has one unit.  One trading pair; prices are left out.                   *)
(***************************************************************************)
EXTENDS Integers, FiniteSetsExt, SequencesExt

CONSTANTS
    BuyLevels, SellLevels,       \* the levels of the plan, of each side
    Statuses,                    \* execution_status of the pair in sessions
    StopReasons, Blocks,         \* why orders are stopped, and levels blocked, in sessions
    MaxCycles                    \* bound: how many cycles a session has

PlanLevels == 1..(BuyLevels + SellLevels)

NoReason == ""

ASSUME LifecycleAssumption ==
    /\ BuyLevels \in Nat /\ SellLevels \in Nat /\ MaxCycles \in Nat
    /\ Statuses \subseteq {"EXECUTION_ENABLED", "SIGNAL_ONLY", "SIGNAL_ONLY_MIN_SIZE"}
    /\ StopReasons \subseteq {"level no longer desired", "cannot be quantized",
                              "crossing, young", "crossing", "maximum age", "plan change"}
    /\ Blocks \subseteq {"PORTFOLIO_RISK_BLOCK", "MIN_SIZE", "MAKER_SAFETY"}

VARIABLES
    status,                      \* execution_status
    now,                         \* controller_timestamp, and the cycle
    stamp,                       \* frame.timestamp
    orders,                      \* orders, in the order of their creation
    eligibility,                 \* order_eligibility_audit
    reservations,                \* risk_reservation_audit, of the portfolio
    counts,                      \* how many orders it told of as created, and so on
    stopped

lifecycleVars == <<status, now, stamp, orders, eligibility, reservations, counts, stopped>>

LifecycleInit ==
    /\ status \in Statuses
    /\ now = 0 /\ stamp = 0
    /\ orders = <<>> /\ eligibility = <<>> /\ reservations = <<>>
    /\ counts = [create |-> 0, reject |-> 0, cancel |-> 0, fill |-> 0]
    /\ stopped = FALSE

ActiveOrders(book) == {i \in DOMAIN book : Last(book[i].sequence) = "RESTING"}
Entries(book) == {i \in DOMAIN book : ~book[i].is_exit}
EntriesResting(book) == ActiveOrders(book) \intersect Entries(book)
EntriesFilled(book) ==
    {i \in Entries(book) : Last(book[i].sequence) = "FILLED_AFTER_RESTING"}

\* The numbers of a set, from the least.
InOrder(S) ==
    [n \in 1..Cardinality(S) |-> CHOOSE i \in S : Cardinality({j \in S : j < i}) = n - 1]

IsBuy(order) == (order.level <= BuyLevels) # order.is_exit

-----------------------------------------------------------------------------
(* The orders *)

\* create_order: one that would take is rejected and never rests.
NewOrder(level, parent, crossed, time, frame, cycle) ==
    [level |-> level, is_exit |-> parent # 0, parent |-> parent, cycle |-> cycle,
     sequence |-> IF crossed THEN <<"CREATED", "NEVER_RESTED_REJECTED">>
                  ELSE <<"CREATED", "VALIDATED", "RESTING">>,
     created |-> time, created_stamp |-> frame,
     terminal |-> IF crossed THEN time ELSE 0, terminal_stamp |-> IF crossed THEN frame ELSE 0,
     reason |-> IF crossed THEN "WOULD_CROSS_MARKET" ELSE NoReason,
     cancel_cycle |-> 0, same_cycle |-> FALSE, next_cycle |-> 0]

\* The end of an order, on both clocks.
EndedOrder(order, state, reason, time, frame) ==
    [order EXCEPT !.sequence = Append(@, state), !.reason = reason,
                  !.terminal = time, !.terminal_stamp = frame]

\* _fill, of the order itself, and, if it is an exit, of its entry, whose times
\* become those of the exit.
FilledOrder(order, time, frame) ==
    EndedOrder(order, "FILLED_AFTER_RESTING", "FILLED", time, frame)
CompletedEntry(order, time, frame) ==
    EndedOrder(order, "COMPLETE", order.reason, time, frame)

\* process_frame: what rested before the frame may be filled by it.  The fill of
\* an entry makes its exit, in the order of the entries and of their cycle.
Filled(S, crossed, time, frame) ==
    LET entries == InOrder(S \intersect Entries(orders))
        done == {orders[x].parent : x \in S \ Entries(orders)}
        Exit(i) == NewOrder(orders[i].level, i, i \in crossed, time, frame, orders[i].cycle)
    IN  [i \in DOMAIN orders |->
            IF i \in S THEN FilledOrder(orders[i], time, frame)
            ELSE IF i \in done THEN CompletedEntry(orders[i], time, frame)
            ELSE orders[i]]
        \o [n \in DOMAIN entries |-> Exit(entries[n])]

\* annotate_order_next_frame: the first later cycle an entry is seen in.
Annotated(book, cycle, frame) ==
    [i \in DOMAIN book |->
        IF /\ ~book[i].is_exit /\ book[i].next_cycle = 0
           /\ book[i].created_stamp < frame \/ book[i].cycle # cycle
        THEN [book[i] EXCEPT !.next_cycle = cycle] ELSE book[i]]

\* classify_cancel_reason, of why the reconciliation stops an order or the
\* session ends; a plan that pauses wants no level, which is looked at first.
CancelReason(why) ==
    CASE why = "shutdown" -> "SESSION_SHUTDOWN"
      [] why = "kill switch" -> "MANUAL_STOP"
      [] why \in {"pause", "level no longer desired", "cannot be quantized"} ->
            "PLAN_LEVEL_REMOVED"
      [] why = "crossing, young" -> "MIN_LIFETIME_SAFETY_OVERRIDE"
      [] why = "crossing" -> "WOULD_CROSS_MARKET"
      [] why = "maximum age" -> "MAX_AGE"
      [] why = "plan change" -> "PRICE_DEVIATION"

\* A plausible mistake: the frame's time decides even when the cycle is known.
SameFrame(order, cycle, frame) == frame <= order.created_stamp

\* Whether an order ends in the cycle that made it: by their names, or else, as
\* at the end of the session, by the frame it was made of.
SameCycle(order, cycle, frame) ==
    IF cycle # 0 THEN order.cycle = cycle ELSE frame <= order.created_stamp

\* cancel_order
Cancel(order, why, cycle, time, frame) ==
    [EndedOrder(order, "CANCELLED_AFTER_RESTING", CancelReason(why), time, frame)
        EXCEPT !.cancel_cycle = cycle, !.same_cycle = SameCycle(order, cycle, frame)]

-----------------------------------------------------------------------------
(* A cycle *)

\* The entry a level has, 0 if none.
AtLevel(book, level) ==
    LET held == {i \in EntriesResting(book) \union EntriesFilled(book) : book[i].level = level}
    IN  IF held = {} THEN 0 ELSE Max(held)

\* What may be decided of a level.  Nothing is created while anything is
\* stopped; one that cannot be quantized is blocked, and its order, unless a
\* pause is being confirmed, stopped.
Verdicts(book, level) ==
    LET i == AtLevel(book, level)
    IN  IF i = 0
        THEN IF status = "EXECUTION_ENABLED" THEN {"create", "none"} \union Blocks
             ELSE {status, "none"} \union (Blocks \intersect {"MIN_SIZE"})
        ELSE IF i \in EntriesFilled(book) THEN {"keep"} \union (Blocks \intersect {"MIN_SIZE"})
        ELSE {"keep"} \union (Blocks \intersect {"MIN_SIZE"}) \union StopReasons

\* The sets of verdicts a cycle may come to: under a pause every entry at rest is
\* stopped and no level is looked at.
Decisions(book) ==
    LET paused(why) == [l \in PlanLevels |->
                            IF AtLevel(book, l) \in EntriesResting(book) THEN why ELSE "paused"]
        levels == {d \in [PlanLevels -> UNION {Verdicts(book, l) : l \in PlanLevels}] :
                      /\ \A l \in PlanLevels : d[l] \in Verdicts(book, l)
                      /\ (\E l \in PlanLevels : d[l] \in StopReasons)
                            => \A l \in PlanLevels : d[l] # "create"}
    IN  levels \union {paused("pause"), paused("kill switch")}

\* _record_candidate_eligibility, and what a create adds to its row.
EligibilityRow(book, level, verdict, id) ==
    LET blocked == verdict \in Blocks \union Statuses \union {"cannot be quantized"}
    IN  [action |-> CASE verdict \in {"paused", "pause", "kill switch"} -> "PAUSE_SUPPRESSED"
                      [] blocked -> "BLOCKED"
                      [] verdict = "create" -> "CREATE_DECISION"
                      [] verdict = "keep" -> "KEEP"
                      [] verdict \in StopReasons /\ ~blocked -> "STOP"
                      [] verdict = "none" -> "NOT_DESIRED",
         block |-> IF verdict = "cannot be quantized" THEN "MIN_SIZE"
                   ELSE IF blocked THEN verdict ELSE NoReason,
         risk_allowed |-> status = "EXECUTION_ENABLED" /\ verdict \in {"create", "keep"},
         order |-> IF verdict = "create" THEN id ELSE AtLevel(book, level),
         instantiated |-> verdict = "create"]

\* What rests, and what is held, in units.
Pending(book) == Cardinality(EntriesResting(book))
Position(book) ==
    LET done == {i \in DOMAIN book : book[i].reason = "FILLED"}
    IN  Cardinality({i \in done : IsBuy(book[i])}) - Cardinality({i \in done : ~IsBuy(book[i])})
Size(x) == IF x < 0 THEN -x ELSE x

\* record_risk_reservation_snapshot: gross is what the governor saw before the
\* reconciliation.
Reservation(before, after) ==
    [at |-> now + 1, gross |-> Size(Position(before)) + Pending(before),
     filled |-> Size(Position(after)), before |-> Pending(before), after |-> Pending(after)]

\* What the verdicts stop, and what they create.
StopsOf(book, d) ==
    {i \in EntriesResting(book) :
        d[book[i].level] \in StopReasons \union {"pause", "kill switch"}}
Creates(d) == {l \in PlanLevels : d[l] = "create"}

\* reconcile_pair, carried out, of the orders that have been told of the cycle.
Reconciled(book, d, time, frame) ==
    LET seen == Annotated(book, time, frame)
        creates == InOrder(Creates(d))
    IN  [i \in DOMAIN book |->
            IF i \in StopsOf(book, d) THEN Cancel(seen[i], d[seen[i].level], time, time, frame)
            ELSE seen[i]]
        \o [n \in DOMAIN creates |-> NewOrder(creates[n], 0, FALSE, time, frame, time)]

\* What a cycle comes to, whose frame fills S and whose plan decides d: the fills
\* are counted before the plan is reconciled.
CycleOf(frame, S, crossed, d) ==
    LET time == now + 1
        book == Filled(S, crossed, time, frame)
        after == Reconciled(book, d, time, frame)
        Id(l) == IF d[l] = "create"
                 THEN CHOOSE i \in DOMAIN after : i > Len(book) /\ after[i].level = l
                 ELSE 0
    IN  /\ now' = time /\ stamp' = frame
        /\ orders' = after
        /\ eligibility' = eligibility \o
              [l \in PlanLevels |-> EligibilityRow(book, l, d[l], Id(l))]
        /\ reservations' = Append(reservations, Reservation(book, after))
        /\ counts' = [counts EXCEPT
              !.create = @ + Cardinality(Creates(d))
                           + Cardinality((S \intersect Entries(orders)) \ crossed),
              !.reject = @ + Cardinality(crossed),
              !.cancel = @ + Cardinality(StopsOf(book, d)),
              !.fill = @ + Cardinality(S)]
        /\ UNCHANGED <<status, stopped>>

\* run_cycle: the frame fills, the plan is reconciled, stops are carried out and
\* then, if there were none, creates.
Cycle ==
    /\ ~stopped /\ now < MaxCycles
    /\ \E frame \in {stamp, now + 1} :
       \E S \in SUBSET {i \in ActiveOrders(orders) : orders[i].created_stamp < frame} :
       \E crossed \in SUBSET (S \intersect Entries(orders)) :
       \E d \in Decisions(Filled(S, crossed, now + 1, frame)) :
           CycleOf(frame, S, crossed, d)

\* shutdown, at the time of the last cycle or later; a wall clock time is told
\* as that of the frame.
Stop ==
    /\ ~stopped
    /\ \E time \in {now, now + 1} :
          orders' = [i \in DOMAIN orders |->
             IF i \in ActiveOrders(orders) THEN Cancel(orders[i], "shutdown", 0, time, time)
             ELSE orders[i]]
    /\ counts' = [counts EXCEPT !.cancel = @ + Cardinality(ActiveOrders(orders))]
    /\ stopped' = TRUE
    /\ UNCHANGED <<status, now, stamp, eligibility, reservations>>

LifecycleNext == Cycle \/ Stop

LifecycleSpec == LifecycleInit /\ [][LifecycleNext]_lifecycleVars

-----------------------------------------------------------------------------
(* What is reported (stages 12f, 12g and 13) *)

InSequence(order, state) == \E k \in DOMAIN order.sequence : order.sequence[k] = state

\* _same_cycle_create_cancel
SameCycleCancel(order) ==
    IF order.cancel_cycle # 0 THEN order.same_cycle
    ELSE \/ order.same_cycle
         \/ InSequence(order, "RESTING") /\ order.terminal_stamp = order.created_stamp
            /\ order.terminal # 0

ZeroLifetime(order) == order.terminal # 0 /\ order.terminal <= order.created

\* classify_zero_lifetime_root_cause
RootCause(order) ==
    CASE InSequence(order, "NEVER_RESTED_REJECTED") -> "WOULD_CROSS_MARKET"
      [] InSequence(order, "RESTING") /\ SameCycleCancel(order) ->
            "RECONCILIATION_CANCEL_SAME_FRAME"
      [] InSequence(order, "RESTING") /\ ~SameCycleCancel(order) ->
            IF order.reason = "SESSION_SHUTDOWN" THEN "SESSION_SHUTDOWN" ELSE "OTHER_EXPLICIT"

\* The steps build_order_state_transitions allows.
AllowedSteps ==
    {<<"CREATED", "VALIDATED">>, <<"CREATED", "NEVER_RESTED_REJECTED">>,
     <<"VALIDATED", "RESTING">>, <<"VALIDATED", "NEVER_RESTED_REJECTED">>,
     <<"RESTING", "CANCELLED_AFTER_RESTING">>, <<"RESTING", "FILLED_AFTER_RESTING">>,
     <<"FILLED_AFTER_RESTING", "COMPLETE">>, <<"CANCELLED_AFTER_RESTING", "COMPLETE">>}

\* How long an entry lasted, as the funnel and the survival reports count it.
Lifetime(order, end) == (IF order.terminal # 0 THEN order.terminal ELSE end) - order.created

\* build_order_funnel
EntriesIn(state) == {i \in Entries(orders) : InSequence(orders[i], state)}
CreateDecisions == {k \in DOMAIN eligibility :
                       eligibility[k].action \in {"BLOCKED", "CREATE_DECISION"}}
Funnel(end) ==
    [instantiated |-> Cardinality(Entries(orders)),
     validated |-> Cardinality(EntriesIn("VALIDATED")),
     entered_resting |-> Cardinality(EntriesIn("RESTING")),
     stayed |-> Cardinality({i \in Entries(orders) : Lifetime(orders[i], end) >= 1}),
     filled |-> Cardinality(EntriesIn("FILLED_AFTER_RESTING")),
     rejected |-> Cardinality(EntriesIn("NEVER_RESTED_REJECTED")),
     create_decisions |-> Cardinality(CreateDecisions)]

\* _create_category, of a row whose order, if it names one, has been made.
CreateCategory(row) ==
    IF row.instantiated \/ row.order # 0 THEN "INSTANTIATED"
    ELSE IF status # "EXECUTION_ENABLED" THEN status
    ELSE row.block

\* build_create_decision_reconciliation
DecidedAs(category) == {k \in CreateDecisions : CreateCategory(eligibility[k]) = category}

\* build_quote_survival and build_resting_lifetime leave out what never lasted.
Survivors == {i \in Entries(orders) : ~SameCycleCancel(orders[i])}
RestingEvidence(end) == {i \in Survivors : Lifetime(orders[i], end) > 0}

\* build_risk_reservation_audit
GrossReconciles(row) ==
    /\ row.gross = row.filled + row.before
    /\ row.gross + (row.after - row.before) = row.filled + row.after

PendingOscillates(k) ==
    LET Delta(j) == reservations[j].after - reservations[j - 1].after
        moved == {j \in 2..(k - 1) : Delta(j) # 0}
    IN  k > 2 /\ moved # {} /\ Delta(k) * Delta(Max(moved)) < 0

-----------------------------------------------------------------------------
(* Properties *)

\* Every order is told once, and as what happened to it, also where
\* cycles share the time of a frame: its states follow one another as the
\* report allows; no cycle cancels what it made, so that what has no lifetime
\* was rejected or was shut down; each entry that rested was filled, cancelled
\* or rests still; every create decision is an order or blocked for a reason,
\* and orders alone come of creates; an entry is seen by the cycle after its
\* own; and the events add up to what is active (order_sequence_valid,
\* same_cycle_create_cancel, order_funnel, create_decision_reconciliation).
LifecycleReconciles ==
    LET funnel == Funnel(now)
    IN  /\ \A i \in DOMAIN orders :
              LET o == orders[i]
              IN  /\ \A k \in 2..Len(o.sequence) :
                        <<o.sequence[k - 1], o.sequence[k]>> \in AllowedSteps
                  /\ o.cancel_cycle # 0 => ~SameCycleCancel(o) /\ ~ZeroLifetime(o)
                  /\ ZeroLifetime(o) =>
                        RootCause(o) \in {"WOULD_CROSS_MARKET", "SESSION_SHUTDOWN",
                                          "RECONCILIATION_CANCEL_SAME_FRAME"}
                  /\ ~o.is_exit /\ now > o.cycle => o.next_cycle = o.cycle + 1
        /\ funnel.rejected = 0 /\ funnel.validated = funnel.instantiated
        /\ funnel.entered_resting =
              funnel.filled + Cardinality(EntriesResting(orders))
                + Cardinality(EntriesIn("CANCELLED_AFTER_RESTING"))
        /\ funnel.stayed = Cardinality(RestingEvidence(now))
        /\ \A i \in Entries(orders) \ Survivors : orders[i].reason = "SESSION_SHUTDOWN"
        /\ DecidedAs(NoReason) = {} /\ DecidedAs("UNKNOWN_INTERNAL") = {}
        /\ Cardinality({k \in CreateDecisions : eligibility[k].instantiated})
             = funnel.instantiated
        /\ counts.create - counts.cancel - counts.fill = Cardinality(ActiveOrders(orders))
        /\ \A k \in DOMAIN reservations : GrossReconciles(reservations[k])
        /\ Cardinality({k \in DOMAIN reservations : PendingOscillates(k)})
             <= 2 * (counts.cancel + counts.fill)
================================================================================
