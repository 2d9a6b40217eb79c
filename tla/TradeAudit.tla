------------------------------ MODULE TradeAudit ------------------------------
(***************************************************************************)
(* What the stage reports conclude from the public trades a session was    *)
(* told: whether one order ought to have been filled (stage 12e), and      *)
(* whether the collector told all the trades there were, next to the REST  *)
(* history it is checked against (stage 12f).                              *)
(*                                                                         *)
(* One trading pair and one order of the conservative fill model, resting  *)
(* from time 0.  Each frame, the exchange has at most one trade to tell:   *)
(* on time, late, or stamped by a clock that is ahead; the collector may   *)
(* lose it, and REST may have a row for either side of it.  Units, texts,  *)
(* pages and polling are left out (TradeFeed models the feed).             *)
(***************************************************************************)
EXTENDS Integers, FiniteSetsExt, SequencesExt

CONSTANTS
    Sides,                       \* "buy", "sell": sides of orders
    LimitPrice,                  \* the order's
    TradePrices,                 \* of trades
    Books,                       \* bid, ask and depth of frames
    Tellings,                    \* ok, kept, roles and check: what becomes of a trade
    Skews,                       \* seconds a trade is stamped after its frame
    FrameSteps,                  \* seconds between frames
    MaxFrames                    \* bound: how many frames there are

ASSUME TradeAuditAssumption ==
    /\ Sides \subseteq {"buy", "sell"} /\ LimitPrice \in Nat \ {0}
    /\ TradePrices \subseteq Nat \ {0} /\ Skews \subseteq Int
    /\ \A t \in Tellings : /\ {t.ok, t.kept} \subseteq BOOLEAN
                          /\ t.roles \subseteq {"maker", "taker"}
                          /\ t.check \in {"", "PASS", "ERROR"}
    /\ Books \subseteq [bid : Nat, ask : Nat, depth : Nat]
    /\ FrameSteps \subseteq Nat \ {0} /\ MaxFrames \in Nat

VARIABLES
    order,                       \* side, terminal (0 while it rests) and filled
    frames                       \* the frames of the session

auditVars == <<order, frames>>

AuditInit ==
    /\ order \in {[side |-> s, terminal |-> 0, filled |-> FALSE] : s \in Sides}
    /\ frames = <<>>

EndTime == IF frames = <<>> THEN 0 ELSE Last(frames).at

-----------------------------------------------------------------------------
(* Trades and rows *)

Opposite(side) == IF side = "buy" THEN "sell" ELSE "buy"

\* The rows REST has of a trade; the maker's has the maker's direction.
RestRows(trade, roles) ==
    {[trade |-> [trade EXCEPT !.side = IF r = "maker" THEN Opposite(@) ELSE @],
      role |-> r] : r \in roles}

\* canonical_trade_rows: of the rows with one id, the taker's if there is one;
\* rows without an id (0) are all kept.
CanonicalTrades(raw) ==
    LET SameId(row) == {r \in raw : r.trade.id = row.trade.id}
        Selected(row) == \/ row.trade.id = 0
                         \/ row.role = "taker"
                         \/ \A r \in SameId(row) : r.role # "taker"
    IN  {row.trade : row \in {r \in raw : Selected(r)}}

\* _trade_key: its id, or, without one, all of it.
TradeKey(trade) == IF trade.id # 0 THEN <<trade.id>> ELSE trade
KeysOf(trades) == {TradeKey(t) : t \in trades}

\* reconcile_trade_sets: a trade with an id matches whatever else differs.
ReconcileTrades(primary, reference) ==
    LET both == KeysOf(primary) \intersect KeysOf(reference)
    IN  [matched |-> Cardinality(both),
         primary_count |-> Cardinality(KeysOf(primary)),
         reference_count |-> Cardinality(KeysOf(reference)),
         primary_missing |-> Cardinality(KeysOf(reference) \ KeysOf(primary)),
         reference_missing |-> Cardinality(KeysOf(primary) \ KeysOf(reference)),
         attribute_mismatch |-> Cardinality({k \in both :
                                   \E t \in primary, u \in reference :
                                       TradeKey(t) = k /\ TradeKey(u) = k /\ t # u})]

Mismatched(counts) ==
    counts.primary_missing + counts.reference_missing + counts.attribute_mismatch > 0

\* A plausible mistake: a trade at the order's price is through it.
TradeTouches(side, trade) ==
    \/ side = "buy" /\ trade.side = "sell" /\ trade.price <= LimitPrice
    \/ side = "sell" /\ trade.side = "buy" /\ trade.price >= LimitPrice

\* _trade_qualifies
TradeQualifies(side, trade) ==
    \/ side = "buy" /\ trade.side = "sell" /\ trade.price < LimitPrice
    \/ side = "sell" /\ trade.side = "buy" /\ trade.price > LimitPrice

-----------------------------------------------------------------------------
(* The session *)

\* _trade_evidence of the conservative model: the order is filled by a trade the
\* frame tells of, after its start and no later than the frame.
Fills(at, trades) ==
    /\ order.terminal = 0
    /\ \E t \in trades :
          /\ 0 < t.at /\ t.at <= at
          /\ \/ order.side = "buy" /\ t.side = "sell" /\ t.price < LimitPrice
             \/ order.side = "sell" /\ t.side = "buy" /\ t.price > LimitPrice

\* The trade of a frame, if there is one.
Given(at) ==
    {{}} \union {{[id |-> IF named THEN Len(frames) + 1 ELSE 0, at |-> at + skew,
                  price |-> p, side |-> s]} :
                    named \in BOOLEAN, skew \in Skews, p \in TradePrices,
                    s \in {"buy", "sell"}}

\* A frame: what the collector has of the exchange's trades, what the check
\* against REST, if there is one, finds, and what a repair makes of it; then
\* the order is filled, or may be cancelled.
FrameTold ==
    /\ Len(frames) < MaxFrames
    /\ \E step \in FrameSteps, book \in Books, telling \in Tellings, cancel \in BOOLEAN :
       \E given \in Given(EndTime + step) :
       LET at == EndTime + step
           primary == IF telling.kept THEN given ELSE {}
           reference == CanonicalTrades(UNION {RestRows(t, telling.roles) : t \in given})
           counts == ReconcileTrades(primary, reference)
           repair == telling.check = "PASS" /\ Mismatched(counts)
           trades == IF repair THEN reference ELSE primary
       IN  /\ frames' = Append(frames,
                 [at |-> at, since |-> EndTime, ok |-> telling.ok, trades |-> trades,
                  bid |-> book.bid, ask |-> book.ask, depth |-> book.depth,
                  raw_status |-> IF repair THEN "MISMATCH" ELSE telling.check,
                  repaired |-> repair /\ ~Mismatched(ReconcileTrades(trades, reference)),
                  counts |-> counts, given |-> given])
           /\ order' = IF Fills(at, trades)
                       THEN [order EXCEPT !.filled = TRUE, !.terminal = at]
                       ELSE IF cancel /\ order.terminal = 0
                       THEN [order EXCEPT !.terminal = at] ELSE order

AuditSpec == AuditInit /\ [][FrameTold]_auditVars

-----------------------------------------------------------------------------
(* What is reported *)

ActiveEnd == IF order.terminal # 0 THEN order.terminal ELSE EndTime

\* The trades told after the order's start by one of its own frames.
ToldTrades ==
    UNION {{<<t, f>> : t \in {u \in frames[f].trades : u.at > 0}} : f \in DOMAIN frames}
QualifyingActive ==
    {tf \in ToldTrades : tf[1].at <= ActiveEnd /\ TradeQualifies(order.side, tf[1])}
QualifyingAfter ==
    {tf \in ToldTrades : /\ order.terminal # 0 /\ tf[1].at > ActiveEnd /\ tf[1].at <= EndTime
                         /\ TradeQualifies(order.side, tf[1])}

\* _union_seconds of the intervals the collector was healthy in, in the order's
\* time; time is counted in whole seconds.
CoveredSeconds ==
    Cardinality({s \in 1..ActiveEnd :
                    \E f \in DOMAIN frames :
                        frames[f].ok /\ frames[f].since < s /\ s <= frames[f].at})

Touched ==
    \E f \in DOMAIN frames :
        /\ frames[f].at <= ActiveEnd
        /\ IF order.side = "buy" THEN frames[f].ask <= LimitPrice ELSE frames[f].bid >= LimitPrice

\* classify_fill_contract
FillContract ==
    CASE order.filled -> "TRADE_THROUGH_FILLED"
      [] ~order.filled /\ QualifyingAfter \union QualifyingActive # {} ->
            "TRADE_THROUGH_OBSERVED_NO_FILL"
      [] OTHER ->
            IF (\A tf \in ToldTrades : tf[1].at > ActiveEnd) \/ CoveredSeconds = 0
            THEN "INSUFFICIENT_TRADE_EVIDENCE"
            ELSE IF Touched THEN "TOUCHED_NOT_TRADED_THROUGH" ELSE "NEVER_REACHED_PRICE"

\* _frame_market_activity: silence in a market that moves is suspect.
Silence(f) ==
    LET frame == frames[f]
        valid == frame.bid > 0 /\ frame.ask > frame.bid
        moved == f > 1 /\ <<frame.bid, frame.ask, frame.depth>>
                            # <<frames[f - 1].bid, frames[f - 1].ask, frames[f - 1].depth>>
    IN  CASE ~frame.ok -> "COLLECTION_UNHEALTHY"
          [] frame.ok /\ frame.trades # {} -> "TRADE_EVENTS_OBSERVED"
          [] OTHER -> IF valid /\ frame.depth > 0 /\ moved THEN "PUBLIC_TRADE_STREAM_SUSPECT"
                      ELSE IF valid THEN "FUNCTIONING_BUT_MARKET_SPARSE"
                      ELSE "MARKET_DATA_INVALID"

\* build_trade_crosscheck_rows: a row for each frame that was checked.
CrosscheckRows == {f \in DOMAIN frames : frames[f].raw_status # ""}

\* build_trade_collector_audit
CollectorAudit ==
    LET mismatched == {f \in CrosscheckRows : frames[f].raw_status = "MISMATCH"}
        recovered == {f \in mismatched : frames[f].repaired}
        suspect == {f \in DOMAIN frames : Silence(f) = "PUBLIC_TRADE_STREAM_SUSPECT"}
        errors == {f \in DOMAIN frames : ~frames[f].ok}
    IN  CASE errors \union (mismatched \ recovered) # {} -> "INCOMPLETE"
          [] OTHER ->
                IF suspect # {}
                THEN IF recovered # {} THEN "RECOVERED_WITH_SUSPECT_STREAM"
                     ELSE "PUBLIC_TRADE_STREAM_SUSPECT"
                ELSE IF recovered # {} THEN "HEALTHY_WITH_SMALL_RECOVERED_GAPS"
                ELSE IF \A f \in DOMAIN frames : frames[f].trades = {}
                THEN "MARKET_GENUINELY_SPARSE" ELSE "HEALTHY"

-----------------------------------------------------------------------------
(* Properties *)

\* The reports agree with the session.  An order is told as filled exactly when
\* it was, and then a trade went through it while it rested; one that is told
\* to have missed a trade was told of it too late or by a clock ahead of its
\* own; the others rested under a healthy collector.  What a check compares is
\* counted once on each side, and a trade REST has both rows of agrees with
\* the collector's; a collector called healthy told every trade of the frames
\* that were checked.
TradeAuditExplains ==
    /\ FillContract = "TRADE_THROUGH_FILLED" <=> order.filled
    /\ order.filled => QualifyingActive # {}
    /\ FillContract = "TRADE_THROUGH_OBSERVED_NO_FILL" =>
          \A tf \in QualifyingActive :
              \/ tf[1].at > frames[tf[2]].at
              \/ order.terminal # 0 /\ frames[tf[2]].at > order.terminal
    /\ FillContract \in {"TOUCHED_NOT_TRADED_THROUGH", "NEVER_REACHED_PRICE"} =>
          \E f \in DOMAIN frames : frames[f].ok
    /\ CoveredSeconds <= ActiveEnd
    /\ (\A f \in DOMAIN frames : frames[f].ok) => CoveredSeconds = ActiveEnd
    /\ \A f \in CrosscheckRows :
          LET counts == frames[f].counts
          IN  /\ counts.matched + counts.primary_missing = counts.reference_count
              /\ counts.matched + counts.reference_missing = counts.primary_count
              /\ counts.attribute_mismatch = 0
              /\ CollectorAudit \in {"HEALTHY", "HEALTHY_WITH_SMALL_RECOVERED_GAPS"}
                   => frames[f].raw_status = "ERROR" \/ frames[f].given \subseteq frames[f].trades
================================================================================
