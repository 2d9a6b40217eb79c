------------------------------ MODULE ReportProofs ------------------------------
(***************************************************************************)
(* What the reports of a session conclude.                                 *)
(*                                                                         *)
(* TradeAudit: an interval is excluded where it matters, and what is told  *)
(* of it is what REST and the stream told, for a frame that is checked     *)
(* keeps how its trades were matched (CheckIsTrue), and the frames leave   *)
(* no gap.  EconomicValidation: a session that is called ready earned it,  *)
(* for each ready verdict was of the hours before it, which only add up.   *)
(* OrderLifecycle: an order goes one of five courses, an exit has a filled *)
(* entry of its own, and what is pending falls no more often than orders   *)
(* are cancelled and filled (LifeInv); so the reports of the orders agree. *)
(***************************************************************************)
EXTENDS TradeAudit, EconomicValidation, OrderLifecycle, EvaluationProofs

-----------------------------------------------------------------------------
(* What the reports conclude of the trades *)

\* What REST is asked for: both parties' rows of a trade, so that the taker's is
\* among them whenever the check is made.
RestTellsTakers == \A t \in Tellings : t.check # "" => "taker" \in t.roles

Trade == [id : Nat, at : Int, price : Nat \ {0}, side : {"buy", "sell"}]
Counts == [matched : Nat, primary_count : Nat, reference_count : Nat, primary_missing : Nat,
           reference_missing : Nat, attribute_mismatch : Nat]
ToldFrame ==
    [at : Nat \ {0}, since : Nat, ok : BOOLEAN, trades : SUBSET Trade, bid : Nat, ask : Nat,
     depth : Nat, raw_status : {"", "PASS", "ERROR", "MISMATCH"}, repaired : BOOLEAN,
     counts : Counts, given : SUBSET Trade]

AuditTypeOK ==
    /\ order \in [side : {"buy", "sell"}, terminal : Nat, filled : BOOLEAN]
    /\ frames \in Seq(ToldFrame)

\* Each frame begins where the one before it ended, and they leave no gap.
FramesFollow ==
    /\ \A i \in 1..Len(frames) : frames[i].since < frames[i].at /\ frames[i].at <= EndTime
    /\ \A s \in 1..EndTime : \E i \in 1..Len(frames) :
          frames[i].since < s /\ s <= frames[i].at

\* What is counted of a frame that is checked, and what its trades are then.
CheckIsTrue(frame) ==
    frame.raw_status # "" =>
        /\ frame.counts.matched + frame.counts.primary_missing = frame.counts.reference_count
        /\ frame.counts.matched + frame.counts.reference_missing = frame.counts.primary_count
        /\ frame.counts.attribute_mismatch = 0
        /\ frame.raw_status # "ERROR" => frame.given \subseteq frame.trades

\* A trade of the frame that goes through the order while it rests.
GoesThrough(frame, t) ==
    0 < t.at /\ t.at <= frame.at /\ TradeQualifies(order.side, t)

\* The order is filled by the frame that tells of a trade through it, and only so.
OrderIsTrue ==
    /\ order.terminal <= EndTime
    /\ order.filled =>
          /\ order.terminal # 0
          /\ \E i \in 1..Len(frames) : /\ frames[i].at = order.terminal
                                       /\ \E t \in frames[i].trades : GoesThrough(frames[i], t)
    /\ ~order.filled =>
          \A i \in 1..Len(frames) :
              order.terminal = 0 \/ frames[i].at <= order.terminal =>
                  \A t \in frames[i].trades : ~GoesThrough(frames[i], t)

AuditInv ==
    /\ AuditTypeOK /\ FramesFollow /\ OrderIsTrue
    /\ \A i \in 1..Len(frames) : CheckIsTrue(frames[i])

LEMMA EndTimeIs ==
  ASSUME AuditTypeOK
  PROVE  /\ EndTime \in Nat
         /\ frames = <<>> => EndTime = 0
         /\ frames # <<>> => EndTime = frames[Len(frames)].at
  <1>1. CASE frames = <<>>
    BY <1>1 DEF EndTime
  <1>2. CASE frames # <<>>
    <2>1. Len(frames) \in 1..Len(frames)
      BY <1>2 DEF AuditTypeOK
    <2>2. frames[Len(frames)] \in ToldFrame
      BY <2>1 DEF AuditTypeOK
    <2> QED BY <1>2, <2>2 DEF EndTime, Last, ToldFrame
  <1> QED BY <1>1, <1>2

-----------------------------------------------------------------------------
(* The check against REST *)

\* What the two sides have in common and what one has alone is all it has.
LEMMA PartsAddUp ==
  ASSUME NEW A, NEW B, IsFiniteSet(A), IsFiniteSet(B)
  PROVE  /\ Cardinality(A \intersect B) \in Nat /\ Cardinality(A \ B) \in Nat
         /\ Cardinality(A \intersect B) + Cardinality(A \ B) = Cardinality(A)
  <1> DEFINE C == A \intersect B
             D == A \ B
  <1>1. /\ IsFiniteSet(C) /\ IsFiniteSet(D)
    <2>1. C \in SUBSET A /\ D \in SUBSET A
      OBVIOUS
    <2> QED BY <2>1, FS_Subset
  <1>2. Cardinality(C \cup D) = Cardinality(C) + Cardinality(D) - Cardinality(C \cap D)
    BY <1>1, FS_Union
  <1>3. C \cup D = A /\ C \cap D = {}
    OBVIOUS
  <1>4. Cardinality(C) \in Nat /\ Cardinality(D) \in Nat
    BY <1>1, FS_CardinalityType
  <1>5. Cardinality(C \cap D) = 0
    BY <1>3, FS_EmptySet
  <1>6. Cardinality(A) = Cardinality(C) + Cardinality(D) - 0
    BY <1>2, <1>3, <1>5
  <1> HIDE DEF C, D
  <1>7. Cardinality(C) + Cardinality(D) = Cardinality(A)
    BY <1>4, <1>6
  <1> QED BY <1>4, <1>7 DEF C, D

\* The trade of a frame, if there is one, and what REST has of it.
RestReference(given, roles) == CanonicalTrades(UNION {RestRows(t, roles) : t \in given})
KeptOf(kept, given) == IF kept THEN given ELSE {}
FrameCounts(kept, given, roles) ==
    ReconcileTrades(KeptOf(kept, given), RestReference(given, roles))
GivenTrades(given) == given = {} \/ \E t \in Trade : given = {t}

LEMMA CanonicalRows ==
  ASSUME NEW given, GivenTrades(given), NEW roles \in SUBSET {"maker", "taker"}
  PROVE  /\ RestReference(given, roles) \subseteq Trade
         /\ IsFiniteSet(RestReference(given, roles))
         /\ given = {} => RestReference(given, roles) = {}
         /\ "taker" \in roles => given \subseteq RestReference(given, roles)
         /\ "taker" \in roles =>
               \A t \in RestReference(given, roles) : t.id # 0 => t \in given
  <1> DEFINE raw == UNION {RestRows(t, roles) : t \in given}
             reference == RestReference(given, roles)
             Other(t) == [t EXCEPT !.side = IF @ = "buy" THEN "sell" ELSE "buy"]
  <1>1. CASE given = {}
    <2>1. raw = {}
      BY <1>1
    <2>2. reference = {}
      BY <2>1 DEF CanonicalTrades, RestReference
    <2> QED BY <1>1, <2>2, FS_EmptySet
  <1>2. ASSUME NEW t \in Trade, given = {t} PROVE
           /\ reference \subseteq Trade /\ IsFiniteSet(reference)
           /\ "taker" \in roles => given \subseteq reference
           /\ "taker" \in roles => \A u \in reference : u.id # 0 => u \in given
    <2> DEFINE maker == [trade |-> Other(t), role |-> "maker"]
               taker == [trade |-> t, role |-> "taker"]
    <2>1. Other(t) \in Trade /\ Other(t).id = t.id
      BY DEF Trade
    <2>2. t = [t EXCEPT !.side = @]
      BY DEF Trade
    <2>3. raw = RestRows(t, roles)
      BY <1>2
    <2>4. \A row \in raw : \/ "maker" \in roles /\ row = maker
                           \/ "taker" \in roles /\ row = taker
      BY <2>2, <2>3 DEF RestRows, Opposite
    <2>5. "taker" \in roles => taker \in raw
      BY <2>2, <2>3 DEF RestRows
    <2>6. \A row \in raw : row.trade.id = t.id /\ row.trade \in Trade
      <3>1. maker.trade.id = t.id /\ maker.trade \in Trade
        BY <2>1
      <3>2. taker.trade.id = t.id /\ taker.trade \in Trade
        OBVIOUS
      <3> HIDE DEF maker, taker
      <3> QED BY <2>4, <3>1, <3>2
    <2>7. reference \subseteq {t, Other(t)}
      BY <2>4 DEF CanonicalTrades, RestReference
    <2>8. IsFiniteSet({t, Other(t)})
      <3> DEFINE u == Other(t)
      <3> HIDE DEF u
      <3>1. IsFiniteSet({t})
        BY FS_Singleton
      <3>2. IsFiniteSet({t} \cup {u})
        BY <3>1, FS_AddElement
      <3>3. {t, u} = {t} \cup {u}
        OBVIOUS
      <3> QED BY <3>2, <3>3 DEF u
    <2>9. IsFiniteSet(reference) /\ reference \subseteq Trade
      BY <2>1, <2>7, <2>8, FS_Subset
    <2>10. ASSUME "taker" \in roles PROVE t \in reference
      BY <2>5, <2>10 DEF CanonicalTrades, RestReference
    <2>11. ASSUME "taker" \in roles, NEW u \in reference, u.id # 0 PROVE u = t
      <3>1. PICK row \in raw : /\ u = row.trade
                               /\ \/ row.trade.id = 0 \/ row.role = "taker"
                                  \/ \A r \in {r \in raw : r.trade.id = row.trade.id} :
                                        r.role # "taker"
        BY DEF CanonicalTrades, RestReference
      <3>2. row.trade.id # 0
        BY <3>1, <2>11
      <3>3. taker \in {r \in raw : r.trade.id = row.trade.id}
        BY <2>5, <2>6, <2>11
      <3>4. row.role = "taker"
        BY <3>1, <3>2, <3>3
      <3>5. row = taker
        BY <2>4, <3>4
      <3> QED BY <3>1, <3>5
    <2> HIDE DEF reference, raw
    <2> QED BY <1>2, <2>9, <2>10, <2>11
  <1> QED BY <1>1, <1>2 DEF GivenTrades
LEMMA KeysAreFinite ==
  ASSUME NEW trades, IsFiniteSet(trades)
  PROVE  IsFiniteSet(KeysOf(trades))
  <1> DEFINE f == [t \in trades |-> TradeKey(t)]
  <1>1. f \in Surjection(trades, KeysOf(trades))
    BY DEF Surjection, KeysOf
  <1> QED BY <1>1, FS_Surjection

LEMMA ReconciledCounts ==
  ASSUME NEW given, GivenTrades(given), NEW kept \in BOOLEAN,
         NEW roles \in SUBSET {"maker", "taker"}
  PROVE  /\ FrameCounts(kept, given, roles) \in Counts
         /\ FrameCounts(kept, given, roles).matched
               + FrameCounts(kept, given, roles).primary_missing
               = FrameCounts(kept, given, roles).reference_count
         /\ FrameCounts(kept, given, roles).matched
               + FrameCounts(kept, given, roles).reference_missing
               = FrameCounts(kept, given, roles).primary_count
         /\ "taker" \in roles => FrameCounts(kept, given, roles).attribute_mismatch = 0
         /\ ~Mismatched(FrameCounts(kept, given, roles)) =>
               RestReference(given, roles) = {} \/ kept
  <1> DEFINE primary == KeptOf(kept, given)
             reference == RestReference(given, roles)
             P == KeysOf(primary)
             R == KeysOf(reference)
             differ == {k \in P \intersect R :
                           \E t \in primary, u \in reference :
                               TradeKey(t) = k /\ TradeKey(u) = k /\ t # u}
             tally == FrameCounts(kept, given, roles)
  <1>1. /\ reference \subseteq Trade /\ IsFiniteSet(reference)
        /\ "taker" \in roles => \A t \in reference : t.id # 0 => t \in given
    BY CanonicalRows
  <1>2. given \subseteq Trade /\ IsFiniteSet(given) /\ \A t, u \in given : t = u
    BY FS_Singleton, FS_EmptySet DEF GivenTrades
  <1>3. primary \subseteq given /\ IsFiniteSet(primary)
    BY <1>2, FS_EmptySet DEF KeptOf
  <1> HIDE DEF primary, reference
  <1>4. IsFiniteSet(P) /\ IsFiniteSet(R)
    BY <1>1, <1>3, KeysAreFinite
  <1>5. IsFiniteSet(differ) /\ IsFiniteSet(P \intersect R)
    <2>1. P \intersect R \in SUBSET P /\ differ \in SUBSET P
      OBVIOUS
    <2> QED BY <1>4, <2>1, FS_Subset
  <1>6. "taker" \in roles => differ = {}
    <2> SUFFICES ASSUME "taker" \in roles, NEW t \in primary, NEW u \in reference,
                        TradeKey(t) = TradeKey(u), t # u
                 PROVE  FALSE
      OBVIOUS
    <2>1. t \in Trade /\ u \in Trade /\ t \in given
      BY <1>1, <1>2, <1>3
    <2>2. CASE u.id # 0
      BY <1>1, <1>2, <2>1, <2>2
    <2>3. CASE u.id = 0 /\ t.id = 0
      BY <2>3 DEF TradeKey
    <2>4. CASE u.id = 0 /\ t.id # 0
      BY <2>1, <2>4 DEF TradeKey, Trade
    <2> QED BY <2>2, <2>3, <2>4
  <1>7. Cardinality(differ) \in Nat /\ ("taker" \in roles => Cardinality(differ) = 0)
    BY <1>5, <1>6, FS_CardinalityType, FS_EmptySet
  <1>8. /\ Cardinality(P) \in Nat /\ Cardinality(R) \in Nat
        /\ Cardinality(P \intersect R) \in Nat
        /\ Cardinality(P \ R) \in Nat /\ Cardinality(R \ P) \in Nat
        /\ Cardinality(P \intersect R) + Cardinality(R \ P) = Cardinality(R)
        /\ Cardinality(P \intersect R) + Cardinality(P \ R) = Cardinality(P)
    <2>1. P \intersect R = R \intersect P
      OBVIOUS
    <2> HIDE DEF P, R
    <2> QED BY <1>4, <2>1, PartsAddUp, FS_CardinalityType
  <1>9. tally = [matched |-> Cardinality(P \intersect R),
                  primary_count |-> Cardinality(P), reference_count |-> Cardinality(R),
                  primary_missing |-> Cardinality(R \ P),
                  reference_missing |-> Cardinality(P \ R),
                  attribute_mismatch |-> Cardinality(differ)]
    BY DEF ReconcileTrades, FrameCounts, primary, reference
  <1>10. /\ tally \in Counts
         /\ tally.matched + tally.primary_missing = tally.reference_count
         /\ tally.matched + tally.reference_missing = tally.primary_count
         /\ "taker" \in roles => tally.attribute_mismatch = 0
    <2> HIDE DEF P, R, differ, tally
    <2> QED BY <1>7, <1>8, <1>9 DEF Counts
  <1>11. ASSUME ~Mismatched(tally), ~kept PROVE reference = {} /\ primary = {}
    <2>1. primary = {} /\ P = {}
      BY <1>11 DEF primary, KeptOf, KeysOf
    <2>2. Cardinality(R \ P) = 0
      <3>1. /\ tally.primary_missing = Cardinality(R \ P)
            /\ tally.reference_missing = Cardinality(P \ R)
            /\ tally.attribute_mismatch = Cardinality(differ)
        <4> HIDE DEF P, R, differ, tally
        <4> QED BY <1>9
      <3>2. ~(Cardinality(R \ P) + Cardinality(P \ R) + Cardinality(differ) > 0)
        <4> HIDE DEF P, R, differ, tally
        <4> QED BY <3>1, <1>11 DEF Mismatched
      <3> HIDE DEF P, R, differ, tally
      <3> QED BY <3>2, <1>7, <1>8
    <2>3. IsFiniteSet(R \ P)
      BY <1>4, <2>1
    <2>4. R = {}
      BY <2>1, <2>2, <2>3, FS_EmptySet
    <2> QED BY <2>1, <2>4 DEF KeysOf
  <1> QED BY <1>10, <1>11 DEF primary, reference

-----------------------------------------------------------------------------
(* The steps *)

LEMMA AuditStarts == AuditInit => AuditInv
  <1> SUFFICES ASSUME AuditInit PROVE AuditInv
    OBVIOUS
  <1>1. frames = <<>> /\ Len(frames) = 0 /\ EndTime = 0
    BY DEF AuditInit, EndTime
  <1>2. AuditTypeOK
    <2>1. PICK s \in Sides : order = [side |-> s, terminal |-> 0, filled |-> FALSE]
      BY DEF AuditInit
    <2>2. s \in {"buy", "sell"}
      BY TradeAuditAssumption
    <2> QED BY <1>1, <2>1, <2>2 DEF AuditTypeOK
  <1>3. FramesFollow
    <2>1. 1..0 = {}
      OBVIOUS
    <2> QED BY <1>1, <2>1 DEF FramesFollow
  <1>4. OrderIsTrue
    <2>1. order.terminal = 0 /\ order.filled = FALSE
      BY DEF AuditInit
    <2>2. 1..0 = {}
      OBVIOUS
    <2> QED BY <1>1, <2>1, <2>2 DEF OrderIsTrue
  <1>5. \A i \in 1..Len(frames) : CheckIsTrue(frames[i])
    BY <1>1
  <1> QED BY <1>2, <1>3, <1>4, <1>5 DEF AuditInv

\* What a step adds to the frames: the next of them, as it has to be.
NextFrame(frame) ==
    /\ frame \in ToldFrame /\ frames' = Append(frames, frame)
    /\ frame.since = EndTime /\ frame.since < frame.at
    /\ CheckIsTrue(frame)
    /\ \/ /\ Fills(frame.at, frame.trades)
          /\ order' = [order EXCEPT !.filled = TRUE, !.terminal = frame.at]
       \/ /\ ~Fills(frame.at, frame.trades) /\ order.terminal = 0
          /\ order' = [order EXCEPT !.terminal = frame.at]
       \/ ~Fills(frame.at, frame.trades) /\ order' = order

LEMMA AFrameIsNext ==
  ASSUME AuditTypeOK, RestTellsTakers, FrameTold
  PROVE  \E frame : NextFrame(frame)
  <1> DEFINE Says(step, book, telling, cancel, given) ==
             LET at == EndTime + step
                 primary == KeptOf(telling.kept, given)
                 reference == RestReference(given, telling.roles)
                 tally == FrameCounts(telling.kept, given, telling.roles)
                 repair == telling.check = "PASS" /\ Mismatched(tally)
                 trades == IF repair THEN reference ELSE primary
             IN  /\ frames' = Append(frames,
                       [at |-> at, since |-> EndTime, ok |-> telling.ok, trades |-> trades,
                        bid |-> book.bid, ask |-> book.ask, depth |-> book.depth,
                        raw_status |-> IF repair THEN "MISMATCH" ELSE telling.check,
                        repaired |-> repair /\ ~Mismatched(ReconcileTrades(trades, reference)),
                        counts |-> tally, given |-> given])
                 /\ order' = IF Fills(at, trades)
                             THEN [order EXCEPT !.filled = TRUE, !.terminal = at]
                             ELSE IF cancel /\ order.terminal = 0
                             THEN [order EXCEPT !.terminal = at] ELSE order
  <1>0. PICK step \in FrameSteps, book \in Books, telling \in Tellings, cancel \in BOOLEAN :
             \E given \in Given(EndTime + step) : Says(step, book, telling, cancel, given)
    BY DEF FrameTold, RestReference, KeptOf, FrameCounts
  <1>1. PICK given \in Given(EndTime + step) : Says(step, book, telling, cancel, given)
    BY <1>0
  <1> DEFINE at == EndTime + step
             primary == KeptOf(telling.kept, given)
             reference == RestReference(given, telling.roles)
             tally == FrameCounts(telling.kept, given, telling.roles)
             repair == telling.check = "PASS" /\ Mismatched(tally)
             trades == IF repair THEN reference ELSE primary
             verdict == IF repair THEN "MISMATCH" ELSE telling.check
             mended == repair /\ ~Mismatched(ReconcileTrades(trades, reference))
             frame == [at |-> at, since |-> EndTime, ok |-> telling.ok, trades |-> trades,
                       bid |-> book.bid, ask |-> book.ask, depth |-> book.depth,
                       raw_status |-> verdict, repaired |-> mended,
                       counts |-> tally, given |-> given]
  <1>2. EndTime \in Nat /\ step \in Nat \ {0} /\ at \in Nat \ {0} /\ at \in Int
    <2>1. step \in Nat \ {0}
      BY TradeAuditAssumption
    <2>2. EndTime \in Nat
      BY EndTimeIs
    <2> HIDE DEF Says
    <2> QED BY <2>1, <2>2
  <1>3. GivenTrades(given) /\ given \subseteq Trade
    <2>1. Len(frames) + 1 \in Nat
      BY DEF AuditTypeOK
    <2>2. CASE given = {}
      BY <2>2 DEF GivenTrades
    <2>3. ASSUME NEW named \in BOOLEAN, NEW skew \in Skews, NEW p \in TradePrices,
                 NEW s \in {"buy", "sell"},
                 given = {[id |-> IF named THEN Len(frames) + 1 ELSE 0, at |-> at + skew,
                           price |-> p, side |-> s]}
          PROVE  GivenTrades(given) /\ given \subseteq Trade
      <3> DEFINE id == IF named THEN Len(frames) + 1 ELSE 0
                 when == at + skew
                 t == [id |-> id, at |-> when, price |-> p, side |-> s]
      <3>1. t \in Trade
        <4>1. skew \in Int /\ p \in Nat \ {0}
          BY TradeAuditAssumption
        <4>2. id \in Nat /\ when \in Int
          BY <1>2, <2>1, <4>1
        <4> HIDE DEF id, when
        <4> QED BY <4>1, <4>2 DEF Trade
      <3> HIDE DEF t
      <3> QED BY <2>3, <3>1 DEF GivenTrades, t
    <2> QED BY <2>2, <2>3 DEF Given
  <1>4. /\ telling.ok \in BOOLEAN /\ telling.kept \in BOOLEAN
        /\ telling.roles \in SUBSET {"maker", "taker"}
        /\ telling.check \in {"", "PASS", "ERROR"}
        /\ telling.check # "" => "taker" \in telling.roles
    BY TradeAuditAssumption DEF RestTellsTakers
  <1>5. /\ tally \in Counts
        /\ tally.matched + tally.primary_missing = tally.reference_count
        /\ tally.matched + tally.reference_missing = tally.primary_count
        /\ "taker" \in telling.roles => tally.attribute_mismatch = 0
        /\ ~Mismatched(tally) => reference = {} \/ telling.kept
    BY <1>3, <1>4, ReconciledCounts
  <1>6. /\ reference \subseteq Trade /\ (given = {} => reference = {})
        /\ "taker" \in telling.roles => given \subseteq reference
    BY <1>3, <1>4, CanonicalRows
  <1> HIDE DEF at, reference, tally
  <1>7. primary \subseteq Trade /\ trades \subseteq Trade
    BY <1>3, <1>6 DEF KeptOf
  <1>8. verdict \in {"", "PASS", "ERROR", "MISMATCH"} /\ mended \in BOOLEAN
    BY <1>4
  <1>9. verdict # "" => telling.check # ""
    OBVIOUS
  <1>10. verdict \notin {"", "ERROR"} => given \subseteq trades
    <2>1. CASE repair
      BY <1>4, <1>6, <2>1
    <2>2. CASE ~repair /\ telling.check = "PASS"
      <3>1. ~Mismatched(tally)
        BY <2>2
      <3>2. CASE telling.kept
        BY <2>2, <3>2 DEF KeptOf
      <3>3. CASE ~telling.kept
        BY <1>4, <1>5, <1>6, <2>2, <3>1, <3>3
      <3> QED BY <3>2, <3>3
    <2>3. CASE ~repair /\ telling.check # "PASS"
      BY <1>4, <2>3
    <2> QED BY <2>1, <2>2, <2>3
  <1>11. frame \in ToldFrame
    <2>1. book.bid \in Nat /\ book.ask \in Nat /\ book.depth \in Nat
      BY TradeAuditAssumption
    <2> HIDE DEF trades, verdict, mended
    <2> QED BY <1>2, <1>3, <1>4, <1>5, <1>7, <1>8, <2>1 DEF ToldFrame
  <1>12. /\ frame.at = at /\ frame.since = EndTime /\ frame.trades = trades
         /\ frame.raw_status = verdict /\ frame.counts = tally /\ frame.given = given
    OBVIOUS
  <1>13. /\ frames' = Append(frames, frame)
         /\ order' = IF Fills(at, trades)
                     THEN [order EXCEPT !.filled = TRUE, !.terminal = at]
                     ELSE IF cancel /\ order.terminal = 0
                     THEN [order EXCEPT !.terminal = at] ELSE order
    BY <1>1 DEF at, reference, tally
  <1>14. EndTime < at
    BY <1>2 DEF at
  <1> HIDE DEF frame, trades, verdict
  <1>15. CheckIsTrue(frame)
    BY <1>4, <1>5, <1>9, <1>10, <1>12 DEF CheckIsTrue
  <1> QED BY <1>11, <1>12, <1>13, <1>14, <1>15 DEF NextFrame

LEMMA AuditStays ==
  ASSUME AuditInv, NEW frame, NextFrame(frame)
  PROVE  AuditInv'
  <1> DEFINE n == Len(frames)
             new == frames'
  <1>1. AuditTypeOK /\ FramesFollow /\ OrderIsTrue /\ frame \in ToldFrame
    BY DEF AuditInv, NextFrame
  <1>2. n \in Nat /\ EndTime \in Nat /\ new = Append(frames, frame)
    BY <1>1, EndTimeIs DEF AuditTypeOK, NextFrame
  <1>3. /\ new \in Seq(ToldFrame) /\ Len(new) = n + 1 /\ new[n + 1] = frame
        /\ \A i \in 1..n : new[i] = frames[i]
    BY <1>1, <1>2 DEF AuditTypeOK
  <1>4. /\ frame.at \in Nat \ {0} /\ frame.since = EndTime /\ EndTime < frame.at
        /\ frame.since \in Nat /\ frame.trades \subseteq Trade
    BY <1>1 DEF ToldFrame, NextFrame
  <1>5. /\ order.side \in {"buy", "sell"} /\ order.terminal \in Nat
        /\ order.filled \in BOOLEAN
        /\ order = [side |-> order.side, terminal |-> order.terminal, filled |-> order.filled]
    BY <1>1 DEF AuditTypeOK
  <1>6. AuditTypeOK'
    <2>1. order' \in [side : {"buy", "sell"}, terminal : Nat, filled : BOOLEAN]
      <3>1. \/ order' = [order EXCEPT !.filled = TRUE, !.terminal = frame.at]
            \/ order' = [order EXCEPT !.terminal = frame.at]
            \/ order' = order
        BY DEF NextFrame
      <3> QED BY <1>1, <1>4, <3>1 DEF AuditTypeOK
    <2> QED BY <1>3, <2>1 DEF AuditTypeOK
  <1>7. EndTime' = frame.at
    <2>1. new # <<>>
      BY <1>2, <1>3
    <2> QED BY <1>2, <1>3, <2>1 DEF EndTime, Last
  <1>8. \A i \in 1..n : /\ frames[i].at \in Nat /\ frames[i].since \in Nat
                        /\ frames[i].trades \subseteq Trade
    <2> SUFFICES ASSUME NEW i \in 1..n
                 PROVE  /\ frames[i].at \in Nat /\ frames[i].since \in Nat
                        /\ frames[i].trades \subseteq Trade
      OBVIOUS
    <2>1. frames[i] \in ToldFrame
      BY <1>1 DEF AuditTypeOK
    <2> QED BY <2>1 DEF ToldFrame
  <1>9. FramesFollow'
    <2>1. ASSUME NEW i \in 1..(n + 1) PROVE new[i].since < new[i].at /\ new[i].at <= frame.at
      <3>1. CASE i = n + 1
        BY <1>3, <1>4, <3>1
      <3>2. CASE i \in 1..n
        <4>1. frames[i].since < frames[i].at /\ frames[i].at <= EndTime
          BY <1>1, <3>2 DEF FramesFollow
        <4> QED BY <1>2, <1>3, <1>4, <1>8, <3>2, <4>1
      <3> QED BY <1>2, <3>1, <3>2
    <2>2. ASSUME NEW s \in 1..frame.at
          PROVE  \E i \in 1..(n + 1) : new[i].since < s /\ s <= new[i].at
      <3>1. CASE s <= EndTime
        <4>1. s \in 1..EndTime
          BY <1>2, <3>1
        <4>2. PICK i \in 1..n : frames[i].since < s /\ s <= frames[i].at
          BY <1>1, <4>1 DEF FramesFollow
        <4> QED BY <1>2, <1>3, <4>2
      <3>2. CASE ~(s <= EndTime)
        <4>1. n + 1 \in 1..(n + 1) /\ new[n + 1].since < s /\ s <= new[n + 1].at
          BY <1>2, <1>3, <1>4, <3>2
        <4> QED BY <4>1
      <3> QED BY <3>1, <3>2
    <2> QED BY <1>3, <1>7, <2>1, <2>2 DEF FramesFollow
  <1>10. \A i \in 1..(n + 1) : CheckIsTrue(new[i])
    <2>1. CheckIsTrue(frame) /\ \A i \in 1..n : CheckIsTrue(frames[i])
      BY DEF NextFrame, AuditInv
    <2> QED BY <1>2, <1>3, <2>1
  <1>11. order'.side = order.side
    BY <1>5 DEF NextFrame
  <1>12. \A t \in frame.trades :
            TradeQualifies(order.side, t) /\ 0 < t.at /\ t.at <= frame.at /\ order.terminal = 0
              => Fills(frame.at, frame.trades)
    BY DEF TradeQualifies, Fills
  <1>13. OrderIsTrue'
    <2> DEFINE Through(f, t) == /\ 0 < t.at /\ t.at <= f.at
                                /\ TradeQualifies(order.side, t)
    <2>0. \A f, t : /\ GoesThrough(f, t) <=> Through(f, t)
                    /\ GoesThrough(f, t)' <=> Through(f', t')
      BY <1>11 DEF GoesThrough, TradeQualifies
    <2>1. ASSUME Fills(frame.at, frame.trades),
                 order' = [order EXCEPT !.filled = TRUE, !.terminal = frame.at]
          PROVE  OrderIsTrue'
      <3>1. order'.filled /\ order'.terminal = frame.at
        BY <1>5, <2>1
      <3>2. PICK t \in frame.trades : Through(frame, t)
        BY <2>1 DEF Fills, TradeQualifies
      <3>3. n + 1 \in 1..(n + 1) /\ new[n + 1].at = order'.terminal
        BY <1>2, <1>3, <3>1
      <3>4. t \in new[n + 1].trades /\ Through(new[n + 1], t)
        BY <1>3, <3>2
      <3>5. \E u \in new[n + 1].trades : Through(new[n + 1], u)
        BY <3>4
      <3> QED BY <1>3, <1>4, <1>7, <1>11, <3>1, <3>3, <3>5
              DEF OrderIsTrue, GoesThrough
    <2>2. ASSUME ~Fills(frame.at, frame.trades), order.terminal = 0,
                 order' = [order EXCEPT !.terminal = frame.at]
          PROVE  OrderIsTrue'
      <3>1. /\ order'.filled = order.filled /\ order'.terminal = frame.at
            /\ ~order.filled
        BY <1>1, <1>5, <2>2 DEF OrderIsTrue
      <3>2. ASSUME NEW i \in 1..(n + 1), NEW t \in new[i].trades
            PROVE  ~Through(new[i], t)
        <4>1. CASE i = n + 1
          BY <1>3, <1>12, <2>2, <3>2, <4>1
        <4>2. CASE i \in 1..n
          BY <1>1, <1>3, <2>2, <3>1, <3>2, <4>2 DEF OrderIsTrue, GoesThrough
        <4> QED BY <1>2, <4>1, <4>2
      <3> QED BY <1>3, <1>4, <1>7, <1>11, <3>1, <3>2 DEF OrderIsTrue, GoesThrough
    <2>3. ASSUME ~Fills(frame.at, frame.trades), order' = order
          PROVE  OrderIsTrue'
      <3>1. order.terminal <= frame.at
        BY <1>1, <1>2, <1>4, <1>5 DEF OrderIsTrue
      <3>2. ASSUME order.filled
            PROVE  /\ order.terminal # 0
                   /\ \E i \in 1..(n + 1) : /\ new[i].at = order.terminal
                                          /\ \E t \in new[i].trades : Through(new[i], t)
        <4>1. PICK i \in 1..n : /\ frames[i].at = order.terminal
                                /\ \E t \in frames[i].trades : Through(frames[i], t)
          BY <1>1, <3>2 DEF OrderIsTrue, GoesThrough
        <4>2. i \in 1..(n + 1) /\ new[i] = frames[i]
          BY <1>2, <1>3
        <4> QED BY <1>1, <3>2, <4>1, <4>2 DEF OrderIsTrue
      <3>3. ASSUME ~order.filled, NEW i \in 1..(n + 1),
                   order.terminal = 0 \/ new[i].at <= order.terminal, NEW t \in new[i].trades
            PROVE  ~Through(new[i], t)
        <4>1. CASE i = n + 1
          <5>1. order.terminal = 0
            BY <1>1, <1>2, <1>3, <1>4, <1>5, <3>3, <4>1 DEF OrderIsTrue
          <5> QED BY <1>3, <1>12, <2>3, <3>3, <4>1, <5>1
        <4>2. CASE i \in 1..n
          BY <1>1, <1>3, <3>3, <4>2 DEF OrderIsTrue, GoesThrough
        <4> QED BY <1>2, <4>1, <4>2
      <3> QED BY <1>3, <1>7, <2>3, <3>1, <3>2, <3>3 DEF OrderIsTrue, GoesThrough
    <2> QED BY <2>1, <2>2, <2>3 DEF NextFrame
  <1> QED BY <1>3, <1>6, <1>9, <1>10, <1>13 DEF AuditInv

-----------------------------------------------------------------------------
(* What is reported *)

LEMMA SecondsAreCovered ==
  ASSUME AuditInv
  PROVE  /\ ActiveEnd \in Nat /\ ActiveEnd <= EndTime
         /\ CoveredSeconds <= ActiveEnd
         /\ CoveredSeconds # 0 => \E f \in DOMAIN frames : frames[f].ok
         /\ (\A f \in DOMAIN frames : frames[f].ok) => CoveredSeconds = ActiveEnd
  <1> DEFINE S == {s \in 1..ActiveEnd :
                      \E f \in DOMAIN frames :
                          frames[f].ok /\ frames[f].since < s /\ s <= frames[f].at}
  <1>1. ActiveEnd \in Nat /\ ActiveEnd <= EndTime
    <2>1. EndTime \in Nat /\ order.terminal \in Nat /\ order.terminal <= EndTime
      BY EndTimeIs DEF AuditInv, AuditTypeOK, OrderIsTrue
    <2> QED BY <2>1 DEF ActiveEnd
  <1>2. /\ IsFiniteSet(1..ActiveEnd) /\ Cardinality(1..ActiveEnd) = ActiveEnd
    BY <1>1, FS_Interval
  <1>3. IsFiniteSet(S) /\ Cardinality(S) <= ActiveEnd
    <2>1. S \in SUBSET (1..ActiveEnd)
      OBVIOUS
    <2> HIDE DEF S
    <2> QED BY <1>2, <2>1, FS_Subset
  <1>4. ASSUME Cardinality(S) # 0 PROVE \E f \in DOMAIN frames : frames[f].ok
    <2>1. S # {}
      BY <1>4, FS_EmptySet
    <2> QED BY <2>1
  <1>5. ASSUME \A f \in DOMAIN frames : frames[f].ok PROVE S = 1..ActiveEnd
    <2>1. DOMAIN frames = 1..Len(frames)
      BY DEF AuditInv, AuditTypeOK
    <2>2. EndTime \in Nat
      BY EndTimeIs DEF AuditInv
    <2>3. ASSUME NEW s \in 1..ActiveEnd PROVE s \in S
      <3>1. s \in 1..EndTime
        BY <1>1, <2>2
      <3>2. PICK f \in 1..Len(frames) : frames[f].since < s /\ s <= frames[f].at
        BY <3>1 DEF AuditInv, FramesFollow
      <3> QED BY <1>5, <2>1, <3>2
    <2> QED BY <2>3
  <1>6. CoveredSeconds = Cardinality(S)
    BY DEF CoveredSeconds
  <1> HIDE DEF S
  <1> QED BY <1>1, <1>2, <1>3, <1>4, <1>5, <1>6

LEMMA AuditExplains ==
  ASSUME AuditInv
  PROVE  TradeAuditExplains
  <1>1. AuditTypeOK /\ OrderIsTrue /\ DOMAIN frames = 1..Len(frames)
    BY DEF AuditInv, AuditTypeOK
  <1>2. order.filled \in BOOLEAN /\ order.terminal \in Nat
    BY <1>1 DEF AuditTypeOK
  <1>3. order.filled => FillContract = "TRADE_THROUGH_FILLED"
    BY DEF FillContract
  <1>4. ASSUME ~order.filled
        PROVE  /\ FillContract # "TRADE_THROUGH_FILLED"
               /\ FillContract \in {"TOUCHED_NOT_TRADED_THROUGH", "NEVER_REACHED_PRICE"} =>
                     CoveredSeconds # 0
    <2>1. CASE QualifyingAfter \union QualifyingActive # {}
      <3>1. FillContract = "TRADE_THROUGH_OBSERVED_NO_FILL"
        BY <1>4, <2>1 DEF FillContract
      <3> QED BY <3>1
    <2>2. CASE ~(QualifyingAfter \union QualifyingActive # {})
      <3>1. FillContract =
              IF (\A tf \in ToldTrades : tf[1].at > ActiveEnd) \/ CoveredSeconds = 0
              THEN "INSUFFICIENT_TRADE_EVIDENCE"
              ELSE IF Touched THEN "TOUCHED_NOT_TRADED_THROUGH" ELSE "NEVER_REACHED_PRICE"
        BY <1>4, <2>2 DEF FillContract
      <3> QED BY <3>1
    <2> QED BY <2>1, <2>2
  <1>5. ASSUME order.filled PROVE QualifyingActive # {}
    <2>1. PICK i \in 1..Len(frames) : /\ frames[i].at = order.terminal
                                      /\ \E t \in frames[i].trades : GoesThrough(frames[i], t)
      BY <1>1, <1>5 DEF OrderIsTrue
    <2>2. PICK t \in frames[i].trades : GoesThrough(frames[i], t)
      BY <2>1
    <2>3. ActiveEnd = frames[i].at
      BY <1>1, <1>5, <2>1 DEF OrderIsTrue, ActiveEnd
    <2>4. t.at > 0 /\ t.at <= ActiveEnd /\ TradeQualifies(order.side, t)
      <3>1. t \in Trade /\ ActiveEnd \in Nat
        <4>1. frames[i] \in ToldFrame
          BY <1>1 DEF AuditTypeOK
        <4> QED BY <2>2, <2>3, <4>1 DEF ToldFrame
      <3> QED BY <2>2, <2>3, <3>1 DEF GoesThrough, Trade
    <2>5. <<t, i>> \in ToldTrades
      BY <1>1, <2>4 DEF ToldTrades
    <2> QED BY <2>4, <2>5 DEF QualifyingActive
  <1>6. ASSUME ~order.filled, NEW tf \in QualifyingActive
        PROVE  \/ tf[1].at > frames[tf[2]].at
               \/ order.terminal # 0 /\ frames[tf[2]].at > order.terminal
    <2>1. tf \in ToldTrades /\ TradeQualifies(order.side, tf[1])
      BY <1>6 DEF QualifyingActive
    <2>0. PICK i \in 1..Len(frames) : \E t \in frames[i].trades : tf = <<t, i>> /\ t.at > 0
      BY <1>1, <2>1 DEF ToldTrades
    <2>2. PICK t \in frames[i].trades : tf = <<t, i>> /\ t.at > 0
      BY <2>0
    <2>3. t.at \in Int /\ frames[i].at \in Nat
      <3>1. frames[i] \in ToldFrame
        BY <1>1 DEF AuditTypeOK
      <3>2. t \in Trade /\ frames[i].at \in Nat
        BY <3>1 DEF ToldFrame
      <3> QED BY <3>2 DEF Trade
    <2>4. tf[1] = t /\ tf[2] = i
      BY <2>2
    <2>5. order.terminal = 0 \/ frames[i].at <= order.terminal => ~GoesThrough(frames[i], t)
      BY <1>1, <1>6, <2>2 DEF OrderIsTrue
    <2> QED BY <1>2, <2>1, <2>2, <2>3, <2>4, <2>5 DEF GoesThrough
  <1>7. ASSUME NEW f \in CrosscheckRows
        PROVE  LET tally == frames[f].counts
               IN  /\ tally.matched + tally.primary_missing = tally.reference_count
                   /\ tally.matched + tally.reference_missing = tally.primary_count
                   /\ tally.attribute_mismatch = 0
                   /\ CollectorAudit \in {"HEALTHY", "HEALTHY_WITH_SMALL_RECOVERED_GAPS"}
                        => frames[f].raw_status = "ERROR" \/ frames[f].given \subseteq frames[f].trades
    <2>1. f \in 1..Len(frames) /\ frames[f].raw_status # ""
      BY <1>1 DEF CrosscheckRows
    <2>2. CheckIsTrue(frames[f])
      BY <2>1 DEF AuditInv
    <2> QED BY <2>1, <2>2 DEF CheckIsTrue
  <1>8. /\ CoveredSeconds <= ActiveEnd
        /\ CoveredSeconds # 0 => \E f \in DOMAIN frames : frames[f].ok
        /\ (\A f \in DOMAIN frames : frames[f].ok) => CoveredSeconds = ActiveEnd
    BY SecondsAreCovered
  <1>9. FillContract = "TRADE_THROUGH_OBSERVED_NO_FILL" => ~order.filled
    BY <1>3
  <1>10. FillContract \in {"TOUCHED_NOT_TRADED_THROUGH", "NEVER_REACHED_PRICE"} =>
            \E f \in DOMAIN frames : frames[f].ok
    BY <1>3, <1>4, <1>8
  <1> HIDE DEF FillContract
  <1> QED BY <1>2, <1>3, <1>4, <1>5, <1>6, <1>7, <1>8, <1>9, <1>10 DEF TradeAuditExplains

\* The reports on the trades agree with the session, however many frames there
\* are, whatever is lost, late or early, as long as REST tells the taker's row.
THEOREM TheTradeAuditExplains == RestTellsTakers => (AuditSpec => []TradeAuditExplains)
  <1> SUFFICES ASSUME RestTellsTakers PROVE AuditSpec => []TradeAuditExplains
    OBVIOUS
  <1>1. AuditInit => AuditInv
    BY AuditStarts
  <1>2. AuditInv /\ [FrameTold]_auditVars => AuditInv'
    <2> SUFFICES ASSUME AuditInv, [FrameTold]_auditVars PROVE AuditInv'
      OBVIOUS
    <2>1. CASE FrameTold
      <3>1. AuditTypeOK
        BY DEF AuditInv
      <3> QED BY <2>1, <3>1, AFrameIsNext, AuditStays
    <2>2. CASE UNCHANGED auditVars
      BY <2>2 DEF auditVars, AuditInv, AuditTypeOK, FramesFollow, OrderIsTrue, EndTime,
                  GoesThrough
    <2> QED BY <2>1, <2>2
  <1>3. AuditInv => TradeAuditExplains
    BY AuditExplains
  <1> QED BY <1>1, <1>2, <1>3, PTL DEF AuditSpec

-----------------------------------------------------------------------------
(* Sums and hours *)

\* The partial sums of some numbers.
TotalledTo(numbers, n, sum) ==
    sum = [k \in 0..n |-> IF k = 0 THEN 0 ELSE sum[k - 1] + numbers[k]]

LEMMA TotalExists ==
  ASSUME NEW numbers, NEW n \in Nat
  PROVE  \E sum : TotalledTo(numbers, n, sum)
  <1> DEFINE Ns == {k \in Nat : \E s : TotalledTo(numbers, k, s)}
  <1>1. 0 \in Ns
    <2>1. TotalledTo(numbers, 0, [k \in 0..0 |-> 0])
      BY DEF TotalledTo
    <2> QED BY <2>1
  <1>2. ASSUME NEW m \in Nat, m \in Ns PROVE m + 1 \in Ns
    <2>1. PICK s : TotalledTo(numbers, m, s)
      BY <1>2
    <2> DEFINE t == [k \in 0..(m + 1) |-> IF k = m + 1 THEN s[m] + numbers[m + 1] ELSE s[k]]
    <2>2. \A k \in 0..m : s[k] = IF k = 0 THEN 0 ELSE s[k - 1] + numbers[k]
      BY <2>1 DEF TotalledTo
    <2>3. \A k \in 0..(m + 1) : t[k] = IF k = 0 THEN 0 ELSE t[k - 1] + numbers[k]
      BY <2>2
    <2>4. TotalledTo(numbers, m + 1, t)
      BY <2>3 DEF TotalledTo
    <2> QED BY <2>4
  <1>3. n \in Ns
    <2> HIDE DEF Ns
    <2>1. \A i \in 0..(n - 1) : i \in Ns => i + 1 \in Ns
      BY <1>2
    <2>2. 0..n \subseteq Ns
      BY <1>1, <2>1, UpTo
    <2> QED BY <2>2
  <1> QED BY <1>3

LEMMA TotalIs ==
  ASSUME NEW numbers \in Seq(Int)
  PROVE  \E sum : /\ sum[0] = 0 /\ sum[Len(numbers)] = TotalOf(numbers)
                  /\ \A k \in 0..Len(numbers) : sum[k] \in Int
                  /\ \A k \in 0..(Len(numbers) - 1) : sum[k + 1] = sum[k] + numbers[k + 1]
  <1> DEFINE n == Len(numbers)
             sum == CHOOSE s : TotalledTo(numbers, n, s)
  <1>1. n \in Nat /\ \A k \in 1..n : numbers[k] \in Int
    OBVIOUS
  <1>2. TotalledTo(numbers, n, sum)
    BY <1>1, TotalExists
  <1>3. sum[n] = TotalOf(numbers)
    BY DEF TotalOf, TotalledTo
  <1> HIDE DEF sum
  <1>4. \A k \in 0..n : sum[k] = IF k = 0 THEN 0 ELSE sum[k - 1] + numbers[k]
    BY <1>2 DEF TotalledTo
  <1> HIDE DEF n
  <1>5. sum[0] = 0
    BY <1>1, <1>4
  <1>6. \A k \in 0..(n - 1) : sum[k + 1] = sum[k] + numbers[k + 1]
    <2> SUFFICES ASSUME NEW k \in 0..(n - 1) PROVE sum[k + 1] = sum[k] + numbers[k + 1]
      OBVIOUS
    <2>1. k + 1 \in 0..n /\ k + 1 # 0 /\ (k + 1) - 1 = k
      BY <1>1
    <2> QED BY <1>4, <2>1
  <1> DEFINE Ns == {k \in 0..n : sum[k] \in Int}
  <1>7. 0 \in Ns
    BY <1>1, <1>5
  <1>8. \A k \in 0..(n - 1) : k \in Ns => k + 1 \in Ns
    BY <1>1, <1>6
  <1>9. 0..n \subseteq Ns
    <2> HIDE DEF Ns
    <2> QED BY <1>1, <1>7, <1>8, UpTo
  <1>10. \A k \in 0..n : sum[k] \in Int
    BY <1>9
  <1> QED BY <1>3, <1>5, <1>6, <1>10 DEF n

LEMMA TotalOfNone == TotalOf(<<>>) = 0
  <1>1. <<>> \in Seq(Int) /\ Len(<<>>) = 0
    OBVIOUS
  <1> QED BY <1>1, TotalIs

LEMMA TotalOfMore ==
  ASSUME NEW numbers \in Seq(Int), NEW x \in Int
  PROVE  TotalOf(Append(numbers, x)) = TotalOf(numbers) + x
  <1> DEFINE n == Len(numbers)
             more == Append(numbers, x)
  <1>1. /\ n \in Nat /\ more \in Seq(Int) /\ Len(more) = n + 1 /\ more[n + 1] = x
        /\ \A k \in 1..n : more[k] = numbers[k]
    OBVIOUS
  <1>2. PICK a : /\ a[0] = 0 /\ a[n] = TotalOf(numbers)
                 /\ \A k \in 0..n : a[k] \in Int
                 /\ \A k \in 0..(n - 1) : a[k + 1] = a[k] + numbers[k + 1]
    BY TotalIs
  <1> HIDE DEF n, more
  <1>3. PICK b : /\ b[0] = 0 /\ b[n + 1] = TotalOf(more)
                 /\ \A k \in 0..(n + 1) : b[k] \in Int
                 /\ \A k \in 0..((n + 1) - 1) : b[k + 1] = b[k] + more[k + 1]
    <2>1. \E b : /\ b[0] = 0 /\ b[Len(more)] = TotalOf(more)
                 /\ \A k \in 0..Len(more) : b[k] \in Int
                 /\ \A k \in 0..(Len(more) - 1) : b[k + 1] = b[k] + more[k + 1]
      BY <1>1, TotalIs
    <2> QED BY <1>1, <2>1
  <1> DEFINE Ns == {k \in 0..n : b[k] = a[k]}
  <1>4. 0 \in Ns
    BY <1>1, <1>2, <1>3
  <1>5. \A k \in 0..(n - 1) : k \in Ns => k + 1 \in Ns
    <2> SUFFICES ASSUME NEW k \in 0..(n - 1), b[k] = a[k]
                 PROVE  k + 1 \in 0..n /\ b[k + 1] = a[k + 1]
      OBVIOUS
    <2>1. k + 1 \in 1..n /\ k + 1 \in 0..n /\ k \in 0..((n + 1) - 1)
      BY <1>1
    <2> QED BY <1>1, <1>2, <1>3, <2>1
  <1>6. 0..n \subseteq Ns
    <2> HIDE DEF Ns
    <2> QED BY <1>1, <1>4, <1>5, UpTo
  <1>7. b[n] = a[n] /\ n \in 0..((n + 1) - 1)
    BY <1>1, <1>6
  <1> QED BY <1>1, <1>2, <1>3, <1>7 DEF more

\* A sum that is not negative has a number in it that is not, unless it is of none.
LEMMA NoneIsNegative ==
  ASSUME NEW numbers \in Seq(Int), NEW one \in DOMAIN numbers, numbers[one] < 0,
         \A k \in DOMAIN numbers : numbers[k] <= 0
  PROVE  TotalOf(numbers) < 0
  <1> DEFINE n == Len(numbers)
  <1>1. n \in Nat /\ one \in 1..n /\ \A k \in 1..n : numbers[k] \in Int /\ numbers[k] <= 0
    OBVIOUS
  <1>2. PICK a : /\ a[0] = 0 /\ a[n] = TotalOf(numbers)
                 /\ \A k \in 0..n : a[k] \in Int
                 /\ \A k \in 0..(n - 1) : a[k + 1] = a[k] + numbers[k + 1]
    BY TotalIs
  <1> HIDE DEF n
  <1> DEFINE Ns == {k \in 0..n : a[k] <= 0 /\ (k >= one => a[k] < 0)}
  <1>3. 0 \in Ns
    BY <1>1, <1>2
  <1>4. \A k \in 0..(n - 1) : k \in Ns => k + 1 \in Ns
    <2> SUFFICES ASSUME NEW k \in 0..(n - 1), a[k] <= 0, k >= one => a[k] < 0
                 PROVE  /\ k + 1 \in 0..n /\ a[k + 1] <= 0
                        /\ k + 1 >= one => a[k + 1] < 0
      OBVIOUS
    <2>1. /\ k + 1 \in 1..n /\ k + 1 \in 0..n /\ k \in 0..n
          /\ a[k] \in Int /\ a[k + 1] \in Int
      BY <1>1, <1>2
    <2>2. a[k + 1] = a[k] + numbers[k + 1] /\ numbers[k + 1] \in Int /\ numbers[k + 1] <= 0
      BY <1>1, <1>2, <2>1
    <2>3. k + 1 = one \/ k + 1 < one \/ k >= one
      BY <1>1
    <2> QED BY <1>1, <2>1, <2>2, <2>3
  <1>5. 0..n \subseteq Ns
    <2> HIDE DEF Ns
    <2> QED BY <1>1, <1>3, <1>4, UpTo
  <1>6. n \in Ns /\ n >= one
    BY <1>1, <1>5
  <1> QED BY <1>2, <1>6

LEMMA HourOf ==
  ASSUME NEW a \in Nat, NEW c \in Nat \ {0}
  PROVE  /\ a \div c \in Nat
         /\ c * (a \div c) <= a /\ a < c * (a \div c) + c
  OBVIOUS

LEMMA HourIs ==
  ASSUME NEW a \in Nat, NEW c \in Nat \ {0}, NEW q \in Nat, c * q <= a, a < c * q + c
  PROVE  a \div c = q
  <1>1. /\ a \div c \in Nat
        /\ c * (a \div c) <= a /\ a < c * (a \div c) + c
    BY HourOf
  <1> DEFINE p == a \div c
  <1> HIDE DEF p
  <1>2. p \in Nat /\ c * p <= a /\ a < c * p + c
    BY <1>1 DEF p
  <1>3. ~(p < q)
    <2> SUFFICES ASSUME p + 1 <= q PROVE FALSE
      BY <1>2
    <2>1. c * (p + 1) <= c * q
      BY <1>2
    <2> QED BY <1>2, <2>1
  <1>4. ~(q < p)
    <2> SUFFICES ASSUME q + 1 <= p PROVE FALSE
      BY <1>2
    <2>1. c * (q + 1) <= c * p
      BY <1>2
    <2> QED BY <1>2, <2>1
  <1> QED BY <1>2, <1>3, <1>4 DEF p
-----------------------------------------------------------------------------
(* The streaks of cycles that kept their level *)

KeptUpTo(keeps, n) == {i \in 1..n : keeps[i]}

NextRun(run, kept) ==
    IF kept THEN [run EXCEPT !.current = @ + 1] ELSE [current |-> 0, streaks |-> ClosedStreaks(run)]

WalkedTo(keeps, n, run) ==
    run = [k \in 0..n |-> IF k = 0 THEN [current |-> 0, streaks |-> <<>>]
                          ELSE NextRun(run[k - 1], keeps[k])]

LEMMA WalkExists ==
  ASSUME NEW keeps, NEW n \in Nat
  PROVE  \E run : WalkedTo(keeps, n, run)
  <1> DEFINE Ns == {k \in Nat : \E s : WalkedTo(keeps, k, s)}
             none == [current |-> 0, streaks |-> <<>>]
  <1>1. 0 \in Ns
    <2>1. WalkedTo(keeps, 0, [k \in 0..0 |-> none])
      BY DEF WalkedTo
    <2> QED BY <2>1
  <1>2. ASSUME NEW m \in Nat, m \in Ns PROVE m + 1 \in Ns
    <2>1. PICK s : WalkedTo(keeps, m, s)
      BY <1>2
    <2> DEFINE t == [k \in 0..(m + 1) |-> IF k = m + 1 THEN NextRun(s[m], keeps[m + 1]) ELSE s[k]]
    <2>2. \A k \in 0..m : s[k] = IF k = 0 THEN none ELSE NextRun(s[k - 1], keeps[k])
      BY <2>1 DEF WalkedTo
    <2>3. \A k \in 0..(m + 1) : t[k] = IF k = 0 THEN none ELSE NextRun(t[k - 1], keeps[k])
      <3> SUFFICES ASSUME NEW k \in 0..(m + 1)
                   PROVE  t[k] = IF k = 0 THEN none ELSE NextRun(t[k - 1], keeps[k])
        OBVIOUS
      <3>1. CASE k = 0
        BY <2>2, <3>1
      <3>2. CASE k = m + 1
        <4>1. t[k - 1] = s[m] /\ t[k] = NextRun(s[m], keeps[k])
          BY <3>2
        <4> QED BY <3>2, <4>1
      <3>3. CASE k \in 1..m
        <4>1. t[k - 1] = s[k - 1] /\ t[k] = s[k]
          BY <3>3
        <4> QED BY <2>2, <3>3, <4>1
      <3> QED BY <3>1, <3>2, <3>3
    <2>4. WalkedTo(keeps, m + 1, t)
      BY <2>3 DEF WalkedTo
    <2> QED BY <2>4
  <1>3. n \in Ns
    <2> HIDE DEF Ns
    <2>1. \A i \in 0..(n - 1) : i \in Ns => i + 1 \in Ns
      BY <1>2
    <2>2. 0..n \subseteq Ns
      BY <1>1, <2>1, UpTo
    <2> QED BY <2>2
  <1> QED BY <1>3

LEMMA KeptCounts ==
  ASSUME NEW keeps \in Seq(BOOLEAN), NEW n \in 0..Len(keeps)
  PROVE  /\ Cardinality(KeptUpTo(keeps, n)) \in Nat
         /\ n = 0 => Cardinality(KeptUpTo(keeps, n)) = 0
         /\ n # 0 => Cardinality(KeptUpTo(keeps, n))
                       = Cardinality(KeptUpTo(keeps, n - 1)) + IF keeps[n] THEN 1 ELSE 0
  <1>1. \A k \in 0..Len(keeps) : IsFiniteSet(KeptUpTo(keeps, k))
    <2> SUFFICES ASSUME NEW k \in 0..Len(keeps) PROVE IsFiniteSet(KeptUpTo(keeps, k))
      OBVIOUS
    <2>1. KeptUpTo(keeps, k) \in SUBSET (1..k) /\ k \in Int
      BY DEF KeptUpTo
    <2>2. IsFiniteSet(1..k)
      BY <2>1, FS_Interval
    <2> QED BY <2>1, <2>2, FS_Subset
  <1>2. CASE n = 0
    <2>1. KeptUpTo(keeps, n) = {}
      BY <1>2 DEF KeptUpTo
    <2>2. Cardinality(KeptUpTo(keeps, n)) = 0
      BY <2>1, FS_EmptySet
    <2> QED BY <1>2, <2>2
  <1>3. CASE n # 0
    <2>1. n - 1 \in 0..Len(keeps) /\ n \in Nat
      BY <1>3
    <2>2. KeptUpTo(keeps, n) = IF keeps[n] THEN KeptUpTo(keeps, n - 1) \cup {n} ELSE KeptUpTo(keeps, n - 1)
      BY <1>3 DEF KeptUpTo
    <2>3. n \notin KeptUpTo(keeps, n - 1)
      BY <2>1 DEF KeptUpTo
    <2>4. IsFiniteSet(KeptUpTo(keeps, n - 1)) /\ Cardinality(KeptUpTo(keeps, n - 1)) \in Nat
      BY <1>1, <2>1, FS_CardinalityType
    <2>5. Cardinality(KeptUpTo(keeps, n - 1) \cup {n}) = Cardinality(KeptUpTo(keeps, n - 1)) + 1
      BY <2>3, <2>4, FS_AddElement
    <2>6. keeps[n] \in BOOLEAN
      BY <1>3
    <2>7. CASE keeps[n]
      BY <1>3, <2>2, <2>4, <2>5, <2>7
    <2>8. CASE ~keeps[n]
      BY <1>3, <2>2, <2>4, <2>8
    <2> QED BY <2>7, <2>8
  <1> QED BY <1>2, <1>3

LEMMA StreaksAddUp ==
  ASSUME NEW told, told.keeps \in Seq(BOOLEAN)
  PROVE  TotalOf(KeepStreaks(told)) = Cardinality({i \in DOMAIN told.keeps : told.keeps[i]})
  <1> DEFINE keeps == told.keeps
             n == Len(keeps)
             none == [current |-> 0, streaks |-> <<>>]
             run == CHOOSE s : WalkedTo(keeps, n, s)
  <1>1. n \in Nat /\ \A k \in 1..n : keeps[k] \in BOOLEAN
    OBVIOUS
  <1>2. WalkedTo(keeps, n, run)
    BY <1>1, WalkExists
  <1>3. KeepStreaks(told) = ClosedStreaks(run[n])
    BY DEF KeepStreaks, WalkedTo, NextRun
  <1>4. {i \in DOMAIN told.keeps : told.keeps[i]} = KeptUpTo(keeps, n)
    BY DEF KeptUpTo
  <1>5. \A k \in 0..n : Cardinality(KeptUpTo(keeps, k)) \in Nat
    BY KeptCounts
  <1>6. Cardinality(KeptUpTo(keeps, 0)) = 0
    BY <1>1, KeptCounts
  <1>7. \A k \in 0..(n - 1) : Cardinality(KeptUpTo(keeps, k + 1))
                                = Cardinality(KeptUpTo(keeps, k)) + IF keeps[k + 1] THEN 1 ELSE 0
    <2> SUFFICES ASSUME NEW k \in 0..(n - 1)
                 PROVE  Cardinality(KeptUpTo(keeps, k + 1))
                          = Cardinality(KeptUpTo(keeps, k)) + IF keeps[k + 1] THEN 1 ELSE 0
      OBVIOUS
    <2>1. k + 1 \in 0..n /\ k + 1 # 0 /\ (k + 1) - 1 = k
      BY <1>1
    <2> HIDE DEF n
    <2>2. k + 1 \in 0..Len(keeps)
      BY <2>1 DEF n
    <2>3. Cardinality(KeptUpTo(keeps, k + 1)) = Cardinality(KeptUpTo(keeps, (k + 1) - 1))
                                             + IF keeps[k + 1] THEN 1 ELSE 0
      BY <2>1, <2>2, KeptCounts
    <2> QED BY <2>1, <2>3
  <1> HIDE DEF run
  <1>8. \A k \in 0..n : run[k] = IF k = 0 THEN none ELSE NextRun(run[k - 1], keeps[k])
    BY <1>2 DEF WalkedTo
  <1>9. run[0] = none
    BY <1>1, <1>8
  <1>10. \A k \in 0..(n - 1) : run[k + 1] = NextRun(run[k], keeps[k + 1])
    <2> SUFFICES ASSUME NEW k \in 0..(n - 1) PROVE run[k + 1] = NextRun(run[k], keeps[k + 1])
      OBVIOUS
    <2>1. k + 1 \in 0..n /\ k + 1 # 0 /\ (k + 1) - 1 = k
      BY <1>1
    <2> QED BY <1>8, <2>1
  <1> DEFINE Run == [current : Nat, streaks : Seq(Int)]
             Card(k) == Cardinality(KeptUpTo(keeps, k))
  <1>11. \A r \in Run : ClosedStreaks(r) \in Seq(Int) /\ TotalOf(ClosedStreaks(r)) = TotalOf(r.streaks) + r.current
                        /\ TotalOf(r.streaks) \in Int
    <2> SUFFICES ASSUME NEW r \in Run
                 PROVE  /\ ClosedStreaks(r) \in Seq(Int) /\ TotalOf(r.streaks) \in Int
                        /\ TotalOf(ClosedStreaks(r)) = TotalOf(r.streaks) + r.current
      OBVIOUS
    <2>1. r.streaks \in Seq(Int) /\ r.current \in Int
      OBVIOUS
    <2>2. TotalOf(r.streaks) \in Int
      <3>1. PICK a : /\ a[Len(r.streaks)] = TotalOf(r.streaks)
                     /\ \A k \in 0..Len(r.streaks) : a[k] \in Int
        BY <2>1, TotalIs
      <3>2. Len(r.streaks) \in 0..Len(r.streaks)
        BY <2>1
      <3> QED BY <3>1, <3>2
    <2>3. TotalOf(Append(r.streaks, r.current)) = TotalOf(r.streaks) + r.current
      BY <2>1, TotalOfMore
    <2>4. Append(r.streaks, r.current) \in Seq(Int)
      BY <2>1
    <2> QED BY <2>1, <2>2, <2>3, <2>4 DEF ClosedStreaks
  <1> DEFINE Ns == {k \in 0..n : run[k] \in Run /\ TotalOf(run[k].streaks) + run[k].current = Card(k)}
  <1>12. 0 \in Ns
    <2>1. none \in Run /\ none.streaks = <<>> /\ none.current = 0
      OBVIOUS
    <2>2. run[0] \in Run /\ TotalOf(run[0].streaks) + run[0].current = 0 + 0
      <3> HIDE DEF none, Run
      <3> QED BY <1>9, <2>1, TotalOfNone
    <2> HIDE DEF n, Run
    <2> QED BY <1>1, <1>6, <2>2
  <1>13. \A k \in 0..(n - 1) : k \in Ns => k + 1 \in Ns
    <2> SUFFICES ASSUME NEW k \in 0..(n - 1), run[k] \in Run,
                        TotalOf(run[k].streaks) + run[k].current = Card(k)
                 PROVE  /\ k + 1 \in 0..n /\ run[k + 1] \in Run
                        /\ TotalOf(run[k + 1].streaks) + run[k + 1].current = Card(k + 1)
      OBVIOUS
    <2>1. k + 1 \in 1..n /\ k + 1 \in 0..n /\ k \in 0..n
      BY <1>1
    <2>2. /\ Card(k) \in Nat /\ Card(k + 1) = Card(k) + IF keeps[k + 1] THEN 1 ELSE 0
          /\ keeps[k + 1] \in BOOLEAN
      BY <1>1, <1>5, <1>7, <2>1
    <2>3. /\ run[k].current \in Nat /\ TotalOf(run[k].streaks) \in Int
          /\ ClosedStreaks(run[k]) \in Seq(Int)
          /\ TotalOf(ClosedStreaks(run[k])) = TotalOf(run[k].streaks) + run[k].current
      BY <1>11
    <2>4. run[k + 1] = NextRun(run[k], keeps[k + 1])
      BY <1>10
    <2> HIDE DEF n, Card, keeps
    <2>5. CASE keeps[k + 1]
      <3>1. run[k + 1] = [run[k] EXCEPT !.current = @ + 1]
        BY <2>4, <2>5 DEF NextRun
      <3>2. /\ run[k + 1] \in Run /\ run[k + 1].streaks = run[k].streaks
            /\ run[k + 1].current = run[k].current + 1
        <4> DEFINE r == run[k]
        <4>1. r \in Run /\ run[k + 1] = [r EXCEPT !.current = @ + 1]
          BY <3>1
        <4> HIDE DEF r
        <4>2. [r EXCEPT !.current = @ + 1] \in Run
          BY <4>1
        <4> QED BY <4>1, <4>2 DEF r
      <3>3. Card(k + 1) = Card(k) + 1
        BY <2>2, <2>5
      <3> QED BY <2>1, <2>2, <2>3, <3>2, <3>3
    <2>6. CASE ~keeps[k + 1]
      <3>1. run[k + 1] = [current |-> 0, streaks |-> ClosedStreaks(run[k])]
        BY <2>4, <2>6 DEF NextRun
      <3>2. /\ run[k + 1] \in Run /\ run[k + 1].streaks = ClosedStreaks(run[k])
            /\ run[k + 1].current = 0
        BY <2>3, <3>1
      <3>3. Card(k + 1) = Card(k) + 0
        BY <2>2, <2>6
      <3> QED BY <2>1, <2>2, <2>3, <3>2, <3>3
    <2> QED BY <2>2, <2>5, <2>6
  <1>14. 0..n \subseteq Ns
    <2> HIDE DEF Ns, n
    <2> QED BY <1>1, <1>12, <1>13, UpTo
  <1>15. run[n] \in Run /\ TotalOf(run[n].streaks) + run[n].current = Card(n)
    BY <1>1, <1>14
  <1> HIDE DEF n, keeps, Card, Run
  <1> QED BY <1>3, <1>4, <1>11, <1>15 DEF Card

-----------------------------------------------------------------------------
(* What a session has told, and what the evidence in it is *)

SessionFrame == [at : Nat, mid : Nat \ {0}]
SessionFill == [at : Nat, side : {"buy", "sell"}]
ToldSessions ==
    [frames : Seq(SessionFrame), fills : Seq(SessionFill), cycles : Nat, keeps : Seq(BOOLEAN),
     regression : BOOLEAN, quality : BOOLEAN, contaminated : BOOLEAN,
     sensitivity : {"LOW", "HIGH"}, fees_verified : BOOLEAN, long_open : BOOLEAN,
     controlled : BOOLEAN, unratioed : BOOLEAN]

\* The fills a frame came late enough for.
Completed(told, end, horizon) ==
    {i \in 1..Len(told.fills) : Markouts(told, end, horizon)[i].status = "COMPLETE"}

LEMMA HorizonsAre == Horizon30 \in Nat /\ Horizon60 \in Nat
  BY EconomicAssumption

\* A fill is complete only of a frame that came the horizon after it, and its
\* sign is that of the frame's price to the fill's.
LEMMA CompletedHasFrame ==
  ASSUME NEW told \in ToldSessions, NEW end \in Nat, NEW horizon \in Nat,
         NEW i \in 1..Len(told.fills)
  PROVE  /\ Markouts(told, end, horizon)[i].sign \in Int
         /\ i \in Completed(told, end, horizon) =>
               \E j \in 1..Len(told.frames) :
                   /\ told.frames[j].at >= told.fills[i].at + horizon
                   /\ Markouts(told, end, horizon)[i].sign
                         = IF told.fills[i].side = "buy" THEN told.frames[j].mid - FillPrice
                           ELSE FillPrice - told.frames[j].mid
  <1> DEFINE fill == told.fills[i]
             row == MarkoutRow(told, end, fill, horizon)
             later == {j \in DOMAIN told.frames : /\ told.frames[j].at > fill.at
                                                  /\ told.frames[j].at >= fill.at + horizon}
  <1>1. /\ told.frames \in Seq(SessionFrame) /\ told.fills \in Seq(SessionFill)
        /\ fill.at \in Nat /\ FillPrice \in Nat
    <2>1. told.frames \in Seq(SessionFrame) /\ told.fills \in Seq(SessionFill)
      BY DEF ToldSessions
    <2>2. fill \in SessionFill
      BY <2>1
    <2> QED BY <2>1, <2>2, EconomicAssumption DEF SessionFill
  <1>2. Markouts(told, end, horizon)[i] = row
    <2>1. i \in DOMAIN told.fills
      BY <1>1
    <2> QED BY <2>1 DEF Markouts
  <1>3. later \in SUBSET Nat /\ later \subseteq 1..Len(told.frames)
    BY <1>1
  <1>4. CASE later = {}
    <2>1. row.sign = 0 /\ row.status \in {"MISSING_SESSION_END", "MISSING_DATA"}
      BY <1>4 DEF MarkoutRow
    <2>2. i \notin Completed(told, end, horizon)
      BY <1>2, <2>1 DEF Completed
    <2> QED BY <1>2, <2>1, <2>2
  <1>5. CASE later # {}
    <2> DEFINE j == Min(later)
    <2>1. j \in later
      <3> HIDE DEF later
      <3> QED BY <1>3, <1>5, LeastIs
    <2>2. row = [status |-> "COMPLETE", sign |-> IF fill.side = "buy"
                                                 THEN told.frames[j].mid - FillPrice
                                                 ELSE FillPrice - told.frames[j].mid]
      BY <1>5 DEF MarkoutRow
    <2> HIDE DEF row, j
    <2>3. told.frames[j] \in SessionFrame
      BY <1>1, <1>3, <2>1
    <2>4. told.frames[j].mid \in Nat /\ told.frames[j].at >= fill.at + horizon
      BY <2>1, <2>3 DEF SessionFrame
    <2>5. j \in 1..Len(told.frames)
      BY <1>3, <2>1
    <2> QED BY <1>1, <1>2, <2>2, <2>4, <2>5
  <1> QED BY <1>4, <1>5

LEMMA SummaryIs ==
  ASSUME NEW told \in ToldSessions, NEW end \in Nat, NEW horizon \in Nat
  PROVE  /\ MarkoutSummary(told, end, horizon).count = Cardinality(Completed(told, end, horizon))
         /\ IsFiniteSet(Completed(told, end, horizon))
         /\ MarkoutSummary(told, end, horizon).count > 0
             /\ MarkoutSummary(told, end, horizon).sum >= 0 =>
               \E i \in Completed(told, end, horizon) :
                   Markouts(told, end, horizon)[i].sign >= 0
         /\ MarkoutSummary(told, end, horizon).sum \in Int
         /\ MarkoutSummary(told, end, horizon).count \in Nat
  <1> DEFINE n == Len(told.fills)
             rows == Markouts(told, end, horizon)
             complete == Completed(told, end, horizon)
             signs == [i \in 1..n |-> IF i \in complete THEN rows[i].sign ELSE 0]
  <1>1. told.fills \in Seq(SessionFill) /\ n \in Nat /\ DOMAIN told.fills = 1..n
    BY DEF ToldSessions
  <1>2. DOMAIN rows = 1..n
    BY <1>1 DEF Markouts
  <1>3. /\ MarkoutSummary(told, end, horizon).count = Cardinality(complete)
        /\ MarkoutSummary(told, end, horizon).sum = TotalOf(signs)
    <2>1. complete = {i \in DOMAIN rows : rows[i].status = "COMPLETE"}
      BY <1>2 DEF Completed
    <2> QED BY <1>2, <2>1 DEF MarkoutSummary
  <1>4. IsFiniteSet(complete)
    <2>1. complete \in SUBSET (1..n) /\ IsFiniteSet(1..n)
      BY <1>1, FS_Interval DEF Completed
    <2> QED BY <2>1, FS_Subset
  <1>5. \A i \in 1..n : rows[i].sign \in Int
    BY CompletedHasFrame
  <1>6. signs \in Seq(Int) /\ DOMAIN signs = 1..n /\ Len(signs) = n
    <2> HIDE DEF rows, complete
    <2>1. signs \in [1..n -> Int] /\ DOMAIN signs = 1..n
      BY <1>5
    <2> HIDE DEF signs, n
    <2> QED BY <1>1, <2>1
  <1>7. TotalOf(signs) \in Int
    <2> HIDE DEF signs
    <2>1. PICK a : /\ a[Len(signs)] = TotalOf(signs)
                   /\ \A k \in 0..Len(signs) : a[k] \in Int
      BY <1>6, TotalIs
    <2> QED BY <1>1, <1>6, <2>1
  <1>8. ASSUME Cardinality(complete) > 0, TotalOf(signs) >= 0
        PROVE  \E i \in complete : rows[i].sign >= 0
    <2> SUFFICES ASSUME \A i \in complete : rows[i].sign < 0 PROVE FALSE
      BY <1>5 DEF Completed
    <2>1. complete # {}
      BY <1>8, FS_EmptySet
    <2>2. PICK one \in complete : TRUE
      BY <2>1
    <2>3. one \in 1..n
      BY <2>2 DEF Completed
    <2> HIDE DEF complete, rows
    <2>4. signs[one] < 0 /\ \A k \in 1..n : signs[k] <= 0
      BY <1>5, <2>2, <2>3
    <2> HIDE DEF signs
    <2>5. TotalOf(signs) < 0
      BY <1>6, <2>3, <2>4, NoneIsNegative
    <2> QED BY <1>7, <1>8, <2>5
  <1>9. Cardinality(complete) \in Nat
    BY <1>4, FS_CardinalityType
  <1> HIDE DEF complete, signs, rows
  <1> QED BY <1>3, <1>4, <1>7, <1>8, <1>9 DEF complete, rows

\* What evidence that suffices says of the session; it says it at the end as well.
LEMMA EvidenceIs ==
  ASSUME NEW told \in ToldSessions, NEW end \in Nat, NEW reported \in BOOLEAN,
         Evidence(told, end, end, reported) = "SUFFICIENT_FOR_DIAGNOSIS"
  PROVE  /\ end >= MinimumDuration /\ Len(told.fills) >= FillTarget
         /\ told.cycles >= MinCycles /\ Stable(told, reported) /\ told.quality
         /\ Stable(told, TRUE) => Evidence(told, end, end, TRUE) = "SUFFICIENT_FOR_DIAGNOSIS"
  <1> DEFINE enough == /\ end >= MinimumDuration /\ Len(told.fills) >= FillTarget
                       /\ MarkoutSummary(told, end, Horizon30).count >= MinMarkouts
                       /\ MarkoutSummary(told, end, Horizon60).count >= MinMarkouts
                       /\ told.cycles >= MinCycles /\ told.frames # <<>>
             rest == IF told.fills # <<>> \/ told.cycles > 0 \/ told.frames # <<>>
                     THEN "DEVELOPING" ELSE "INSUFFICIENT"
  <1>1. \A r \in BOOLEAN : Evidence(told, end, end, r)
                             = IF enough /\ Stable(told, r) /\ told.quality
                               THEN "SUFFICIENT_FOR_DIAGNOSIS" ELSE rest
    BY DEF Evidence
  <1>2. rest # "SUFFICIENT_FOR_DIAGNOSIS"
    OBVIOUS
  <1>3. enough /\ Stable(told, reported) /\ told.quality
    <2> HIDE DEF enough, rest
    <2> QED BY <1>1, <1>2
  <1> QED BY <1>1, <1>3

\* What a summary that calls the strategy ready says of the session.
LEMMA ReadyIs ==
  ASSUME NEW told \in ToldSessions, NEW end \in Nat, NEW why,
         FinalSummary(told, why, end).optimization = "YES"
  PROVE  /\ end >= MinimumDuration /\ Len(told.fills) >= FillTarget
         /\ told.cycles >= MinCycles /\ ~told.regression /\ told.quality /\ ~told.contaminated
         /\ Cardinality({i \in DOMAIN told.fills : \E j \in 1..Len(told.frames) :
                             told.frames[j].at >= told.fills[i].at + Horizon60}) >= MinMarkouts
         /\ \E i \in DOMAIN told.fills, j \in DOMAIN told.frames :
               IF told.fills[i].side = "buy" THEN told.frames[j].mid >= FillPrice
               ELSE told.frames[j].mid <= FillPrice
  <1> DEFINE evidence == Evidence(told, end, end, TRUE)
             classification == Classification(told, evidence, why, end)
             thirty == MarkoutSummary(told, end, Horizon30)
             sixty == MarkoutSummary(told, end, Horizon60)
  <1>1. /\ classification = "HEALTHY_SHADOW_ECONOMICS"
        /\ AdverseSelection(told, end) \in {"HEALTHY", "NEUTRAL"}
        /\ told.cycles >= MinCycles
    BY DEF FinalSummary, ReadyFor
  <1>2. /\ Safe(told) /\ told.quality /\ Stable(told, TRUE)
        /\ evidence = "SUFFICIENT_FOR_DIAGNOSIS"
    <2> HIDE DEF evidence
    <2> QED BY <1>1 DEF Classification
  <1>3. end >= MinimumDuration /\ Len(told.fills) >= FillTarget
    BY <1>2, EvidenceIs
  <1>4. ~told.regression /\ ~told.contaminated
    BY <1>2 DEF Stable, Safe
  <1>5. /\ thirty.count >= MinMarkouts /\ sixty.count >= MinMarkouts
        /\ ~(thirty.sum < 0 /\ sixty.sum < 0)
    <2>1. CASE thirty.count < MinMarkouts \/ sixty.count < MinMarkouts
      <3>1. AdverseSelection(told, end) = "INSUFFICIENT_SAMPLE"
        BY <2>1 DEF AdverseSelection
      <3> QED BY <1>1, <3>1
    <2>2. CASE ~(thirty.count < MinMarkouts \/ sixty.count < MinMarkouts)
      <3>1. AdverseSelection(told, end) =
               IF thirty.sum < 0 /\ sixty.sum < 0 THEN "TOXIC"
               ELSE IF thirty.sum > 0 /\ sixty.sum > 0 THEN "HEALTHY" ELSE "NEUTRAL"
        BY <2>2 DEF AdverseSelection
      <3>2. ~(thirty.sum < 0 /\ sixty.sum < 0)
        <4> HIDE DEF thirty, sixty
        <4> QED BY <1>1, <3>1
      <3>3. thirty.count \in Nat /\ sixty.count \in Nat
        BY SummaryIs, HorizonsAre
      <3>4. MinMarkouts \in Nat
        BY EconomicAssumption
      <3> HIDE DEF thirty, sixty
      <3> QED BY <2>2, <3>2, <3>3, <3>4
    <2> QED BY <2>1, <2>2
  <1>6. MinMarkouts \in Nat /\ MinMarkouts > 0 /\ FillPrice \in Nat
    BY EconomicAssumption
  <1>7. /\ told.frames \in Seq(SessionFrame) /\ told.fills \in Seq(SessionFill)
        /\ DOMAIN told.frames = 1..Len(told.frames) /\ DOMAIN told.fills = 1..Len(told.fills)
    BY DEF ToldSessions
  <1>8. \E horizon \in {Horizon30, Horizon60} : \E i \in Completed(told, end, horizon) :
            Markouts(told, end, horizon)[i].sign >= 0
    <2>1. \A horizon \in {Horizon30, Horizon60} :
             /\ MarkoutSummary(told, end, horizon).sum \in Int
             /\ MarkoutSummary(told, end, horizon).count \in Nat
             /\ MarkoutSummary(told, end, horizon).count > 0
                 /\ MarkoutSummary(told, end, horizon).sum >= 0 =>
                   \E i \in Completed(told, end, horizon) :
                       Markouts(told, end, horizon)[i].sign >= 0
      BY SummaryIs, HorizonsAre
    <2>2. thirty.count > 0 /\ sixty.count > 0
      <3>1. thirty.count \in Nat /\ sixty.count \in Nat
        BY <2>1
      <3> HIDE DEF thirty, sixty
      <3> QED BY <1>5, <1>6, <3>1
    <2>3. thirty.sum >= 0 \/ sixty.sum >= 0
      <3>1. thirty.sum \in Int /\ sixty.sum \in Int
        BY <2>1
      <3> HIDE DEF thirty, sixty
      <3> QED BY <1>5, <3>1
    <2> QED BY <2>1, <2>2, <2>3
  <1>9. \E i \in DOMAIN told.fills, j \in DOMAIN told.frames :
               IF told.fills[i].side = "buy" THEN told.frames[j].mid >= FillPrice
               ELSE told.frames[j].mid <= FillPrice
    <2>1. PICK horizon \in {Horizon30, Horizon60} : \E i \in Completed(told, end, horizon) :
            Markouts(told, end, horizon)[i].sign >= 0
      BY <1>8
    <2>2. PICK i \in Completed(told, end, horizon) : Markouts(told, end, horizon)[i].sign >= 0
      BY <2>1
    <2>3. horizon \in Nat /\ i \in 1..Len(told.fills)
      BY <2>1, <2>2, HorizonsAre DEF Completed
    <2>4. PICK j \in 1..Len(told.frames) :
                   /\ told.frames[j].at >= told.fills[i].at + horizon
                   /\ Markouts(told, end, horizon)[i].sign
                         = IF told.fills[i].side = "buy" THEN told.frames[j].mid - FillPrice
                           ELSE FillPrice - told.frames[j].mid
      BY <2>2, <2>3, CompletedHasFrame
    <2>5. told.frames[j].mid \in Nat
      <3>1. told.frames[j] \in SessionFrame
        BY <1>7
      <3> QED BY <3>1 DEF SessionFrame
    <2>6. IF told.fills[i].side = "buy" THEN told.frames[j].mid >= FillPrice
               ELSE told.frames[j].mid <= FillPrice
      BY <1>6, <2>2, <2>4, <2>5
    <2> QED BY <1>7, <2>3, <2>6
  <1>10. Cardinality({i \in DOMAIN told.fills : \E j \in 1..Len(told.frames) :
                         told.frames[j].at >= told.fills[i].at + Horizon60}) >= MinMarkouts
    <2> DEFINE S == {i \in DOMAIN told.fills : \E j \in 1..Len(told.frames) :
                         told.frames[j].at >= told.fills[i].at + Horizon60}
               C == Completed(told, end, Horizon60)
    <2>1. C \subseteq S
      <3> SUFFICES ASSUME NEW i \in C PROVE i \in S
        OBVIOUS
      <3>1. i \in 1..Len(told.fills)
        BY DEF Completed
      <3> QED BY <1>7, <3>1, CompletedHasFrame, HorizonsAre
    <2>2. IsFiniteSet(S)
      <3>1. S \in SUBSET (1..Len(told.fills))
        BY <1>7
      <3>2. IsFiniteSet(1..Len(told.fills))
        BY <1>7, FS_Interval
      <3> QED BY <3>1, <3>2, FS_Subset
    <2>3. sixty.count = Cardinality(C)
      BY SummaryIs, HorizonsAre
    <2>4. Cardinality(C) <= Cardinality(S) /\ Cardinality(C) \in Nat /\ Cardinality(S) \in Nat
      <3> HIDE DEF C, S
      <3>1. IsFiniteSet(C)
        BY <2>1, <2>2, FS_Subset
      <3> QED BY <2>1, <2>2, <3>1, FS_Subset, FS_CardinalityType
    <2> HIDE DEF C, S, sixty
    <2>5. Cardinality(S) >= MinMarkouts
      BY <1>5, <1>6, <2>3, <2>4
    <2> QED BY <2>5 DEF S
  <1> QED BY <1>1, <1>2, <1>3, <1>4, <1>9, <1>10

-----------------------------------------------------------------------------
(* The session, hour by hour *)

Reasons == {"none", "EARLY_EVIDENCE_SUFFICIENT", "MAXIMUM_6_HOUR_WINDOW", "MANUAL_STOP",
            "CONFIG_CHANGE", "ENVIRONMENT_INCONSISTENCY", "DATA_FAILURE"}
ReportStages == {"prepared", "running", "stopping", "report", "manifest", "latest", "done", "lost"}

ValidationTypeOK ==
    /\ stage \in ReportStages /\ clock \in Nat /\ session \in ToldSessions
    /\ next_checkpoint \in Nat /\ hourly \in Seq([at : Nat, type : {"FINAL", "HOURLY"}])
    /\ reason \in Reasons

Hour(at) == at \div CheckpointInterval

\* The frames are of the past, the last one of now.
FramesArePast ==
    /\ \A j \in 1..Len(session.frames) : session.frames[j].at <= clock
    /\ clock = 0 \/ \E j \in 1..Len(session.frames) : session.frames[j].at = clock

\* Every hour in which a frame came has one row, and the next is of the next hour.
HoursAreTold ==
    stage \in {"running", "stopping"} =>
        /\ next_checkpoint = CheckpointInterval * (Hour(clock) + 1)
        /\ \A i \in 1..Len(hourly) : hourly[i].at <= clock
        /\ \A j \in 1..Len(session.frames) : Hour(session.frames[j].at) # 0 =>
              \E i \in 1..Len(hourly) : /\ hourly[i].type = "HOURLY"
                                        /\ Hour(hourly[i].at) = Hour(session.frames[j].at)
        /\ \A i, j \in 1..Len(hourly) : i # j => Hour(hourly[i].at) # Hour(hourly[j].at)

\* A session that was stopped early had the evidence for it.
EarlyIsSupported ==
    reason = "EARLY_EVIDENCE_SUFFICIENT" =>
        Evidence(session, clock, clock, FALSE) = "SUFFICIENT_FOR_DIAGNOSIS"

\* What is written last of a session is the summary of all of it, and the manifest
\* and the latest summary tell of that one.
SummaryIsFinal ==
    /\ \/ summary = NoSummary /\ stage \notin {"manifest", "latest", "done"}
       \/ /\ stage \in {"manifest", "latest", "done", "lost"}
          /\ summary = FinalSummary(session, reason, clock)
    /\ manifest = "COMPLETE" => summary = FinalSummary(session, reason, clock)
    /\ latest.optimization # "YES" \/ latest = summary
    /\ stage = "prepared" => clock = 0 /\ hourly = <<>> /\ session.frames = <<>>

ValidationInv ==
    ValidationTypeOK /\ FramesArePast /\ HoursAreTold /\ EarlyIsSupported /\ SummaryIsFinal

LEMMA IntervalIs == CheckpointInterval \in Nat \ {0}
  BY EconomicAssumption

LEMMA ValidationStarts == ValidationInit => ValidationInv
  <1> SUFFICES ASSUME ValidationInit PROVE ValidationInv
    OBVIOUS
  <1>1. PICK c \in Circumstances : session = Nothing(c)
    BY DEF ValidationInit
  <1>2. /\ c.sensitivity \in {"LOW", "HIGH"}
        /\ {c.fees_verified, c.long_open, c.controlled, c.unratioed} \subseteq BOOLEAN
    BY EconomicAssumption
  <1>3. session \in ToldSessions /\ session.frames = <<>>
    BY <1>1, <1>2 DEF Nothing, ToldSessions
  <1>4. ValidationTypeOK
    BY <1>3 DEF ValidationInit, ValidationTypeOK, ReportStages, Reasons
  <1>5. FramesArePast
    BY <1>3 DEF FramesArePast, ValidationInit
  <1>6. HoursAreTold /\ EarlyIsSupported
    BY DEF HoursAreTold, EarlyIsSupported, ValidationInit
  <1>7. SummaryIsFinal
    BY <1>3 DEF SummaryIsFinal, ValidationInit, NoSummary
  <1> QED BY <1>4, <1>5, <1>6, <1>7 DEF ValidationInv

LEMMA LiveIsNotReady ==
  ASSUME NEW told, NEW moment
  PROVE  LiveSummary(told, moment).optimization # "YES"
  BY DEF LiveSummary, NoSummary

\* The checkpoint after now is the start of the next hour.
LEMMA NextCheckpointIs ==
  ASSUME clock \in Nat, next_checkpoint = CheckpointInterval * (Hour(clock) + 1),
         NEW moment \in Nat, moment >= clock
  PROVE  /\ NextCheckpoint(moment) = CheckpointInterval * (Hour(moment) + 1)
         /\ moment >= next_checkpoint => Hour(moment) > Hour(clock)
         /\ ~(moment >= next_checkpoint) => Hour(moment) = Hour(clock)
         /\ NextCheckpoint(moment) \in Nat /\ NextCheckpoint(moment) > moment
  <1> DEFINE c == CheckpointInterval
             h == Hour(clock)
             k == Hour(moment)
             d == (moment - next_checkpoint) \div c
  <1>1. c \in Nat /\ c > 0 /\ c \in Nat \ {0}
    BY IntervalIs
  <1>2. h \in Nat /\ c * h <= clock /\ clock < c * h + c
    BY <1>1, HourOf DEF Hour
  <1>3. k \in Nat /\ c * k <= moment /\ moment < c * k + c
    BY <1>1, HourOf DEF Hour
  <1> HIDE DEF h, k, c
  <1>4. next_checkpoint = c * h + c /\ c * h \in Nat /\ next_checkpoint \in Nat
        /\ c * k \in Nat /\ c * (k + 1) = c * k + c
    BY <1>1, <1>2, <1>3 DEF h, c
  <1>5. CASE moment < next_checkpoint
    <2>1. c * h <= moment /\ moment < c * h + c
      BY <1>2, <1>4, <1>5
    <2>2. k = h
      BY <1>1, <1>2, <2>1, HourIs DEF k, Hour, c
    <2>3. NextCheckpoint(moment) = next_checkpoint
      BY <1>4, <1>5 DEF NextCheckpoint
    <2> QED BY <1>1, <1>2, <1>4, <1>5, <2>2, <2>3 DEF c, h, k
  <1>6. CASE ~(moment < next_checkpoint)
    <2>1. moment - next_checkpoint \in Nat
      BY <1>4, <1>6
    <2>2. d \in Nat /\ c * d <= moment - next_checkpoint /\ moment - next_checkpoint < c * d + c
      BY <1>1, <2>1, HourOf
    <2> HIDE DEF d
    <2> DEFINE q == h + 1 + d
    <2>3. q \in Nat /\ c * q = c * h + c + c * d
      BY <1>1, <1>2, <2>2
    <2>4. c * q <= moment /\ moment < c * q + c
      <3> DEFINE x == c * q
                 y == c * d
      <3>1. x = next_checkpoint + y /\ y \in Nat
        BY <1>1, <1>4, <2>2, <2>3
      <3> HIDE DEF x, y
      <3>2. y <= moment - next_checkpoint /\ moment - next_checkpoint < y + c
        BY <2>2 DEF y
      <3> QED BY <1>1, <1>4, <3>1, <3>2 DEF x
    <2>5. k = q
      <3> HIDE DEF q
      <3> QED BY <1>1, <2>3, <2>4, HourIs DEF k, Hour, c
    <2>6. k > h
      BY <1>2, <2>2, <2>5
    <2>7. NextCheckpoint(moment) = next_checkpoint + c * (d + 1)
      <3>1. ~(next_checkpoint > moment)
        BY <1>4, <1>6
      <3> QED BY <3>1 DEF NextCheckpoint, d, c
    <2>8. c * (d + 1) = c * d + c
      BY <1>1, <2>2
    <2>9. NextCheckpoint(moment) = c * k + c
      <3> DEFINE x == c * q
                 y == c * d
                 z == c * h
      <3>1. y \in Nat /\ z \in Nat /\ x = z + c + y
        BY <1>1, <1>4, <2>2, <2>3
      <3>2. NextCheckpoint(moment) = z + c + (y + c)
        BY <1>4, <2>7, <2>8
      <3>3. c * k = x
        BY <2>5
      <3> HIDE DEF x, y, z, q
      <3> QED BY <1>1, <3>1, <3>2, <3>3
    <2> HIDE DEF q
    <2> QED BY <1>1, <1>3, <1>4, <1>6, <2>6, <2>9 DEF c, h, k
  <1> QED BY <1>4, <1>5, <1>6

\* What a round of the loop adds to what was told, and where it leads.
NextRound(told, moment) ==
    /\ stage = "running" /\ told \in ToldSessions /\ moment \in Nat /\ moment > clock
    /\ \E mid : told.frames = Append(session.frames, [at |-> moment, mid |-> mid])
    /\ clock' = moment /\ session' = told
    /\ RecordCheckpoint(told, moment, FALSE)
    /\ reason' = EndOfLoop(told, moment)
    /\ stage' = IF EndOfLoop(told, moment) = "none" THEN "running" ELSE "stopping"
    /\ UNCHANGED <<manifest, summary>>

LEMMA ARoundIsNext ==
  ASSUME ValidationTypeOK, RunCycle
  PROVE  \E told, moment : NextRound(told, moment)
  <1> DEFINE ToldOf(step, mid, side, completes, kept, regresses, quality) ==
                 [session EXCEPT
                      !.frames = Append(@, [at |-> clock + step, mid |-> mid]),
                      !.fills = IF side = "none" THEN @
                                ELSE Append(@, [at |-> clock + step, side |-> side]),
                      !.cycles = IF completes THEN @ + 1 ELSE @,
                      !.keeps = Append(@, kept),
                      !.regression = @ \/ regresses, !.quality = quality]
             Round(told, moment) ==
                 /\ clock' = moment /\ session' = told
                 /\ RecordCheckpoint(told, moment, FALSE)
                 /\ reason' = EndOfLoop(told, moment)
                 /\ stage' = IF EndOfLoop(told, moment) = "none" THEN "running" ELSE "stopping"
             Body(step, mid, side, completes, kept, regresses, quality) ==
                 LET moment == clock + step
                     told == [session EXCEPT
                      !.frames = Append(@, [at |-> moment, mid |-> mid]),
                      !.fills = IF side = "none" THEN @
                                ELSE Append(@, [at |-> moment, side |-> side]),
                      !.cycles = IF completes THEN @ + 1 ELSE @,
                      !.keeps = Append(@, kept),
                      !.regression = @ \/ regresses, !.quality = quality]
                     end == EndOfLoop(told, moment)
                 IN  /\ 2 * told.cycles <= Len(told.fills)
                     /\ regresses \/ ~quality => side = "none" /\ ~kept
                     /\ clock' = moment /\ session' = told
                     /\ RecordCheckpoint(told, moment, FALSE)
                     /\ reason' = end /\ stage' = IF end = "none" THEN "running" ELSE "stopping"
  <1>0. PICK step \in CycleSteps, mid \in Mids, side \in {"none", "buy", "sell"},
             completes \in BOOLEAN, kept \in BOOLEAN, regresses \in BOOLEAN, quality \in BOOLEAN :
             Body(step, mid, side, completes, kept, regresses, quality)
    BY DEF RunCycle
  <1>1. Round(ToldOf(step, mid, side, completes, kept, regresses, quality), clock + step)
    BY <1>0
  <1> HIDE DEF Body
  <1> DEFINE moment == clock + step
             frames2 == Append(session.frames, [at |-> moment, mid |-> mid])
             fills2 == IF side = "none" THEN session.fills
                       ELSE Append(session.fills, [at |-> moment, side |-> side])
             cycles2 == IF completes THEN session.cycles + 1 ELSE session.cycles
             keeps2 == Append(session.keeps, kept)
             told == ToldOf(step, mid, side, completes, kept, regresses, quality)
  <1>2. moment \in Nat /\ moment > clock
    <2>1. step \in Nat \ {0} /\ clock \in Nat
      BY EconomicAssumption DEF ValidationTypeOK
    <2> HIDE DEF Round, ToldOf
    <2> QED BY <2>1
  <1>3. mid \in Nat \ {0}
    BY EconomicAssumption
  <1>4. /\ session \in ToldSessions /\ session.frames \in Seq(SessionFrame)
        /\ session.fills \in Seq(SessionFill) /\ session.cycles \in Nat
        /\ session.keeps \in Seq(BOOLEAN) /\ session.regression \in BOOLEAN
    BY DEF ValidationTypeOK, ToldSessions
  <1> HIDE DEF Round
  <1>5. frames2 \in Seq(SessionFrame)
    <2>1. [at |-> moment, mid |-> mid] \in SessionFrame
      BY <1>2, <1>3 DEF SessionFrame
    <2> QED BY <1>4, <2>1
  <1>6. fills2 \in Seq(SessionFill)
    <2>1. CASE side = "none"
      BY <1>4, <2>1
    <2>2. CASE side # "none"
      <3>1. [at |-> moment, side |-> side] \in SessionFill
        BY <1>2, <2>2 DEF SessionFill
      <3> QED BY <1>4, <2>2, <3>1
    <2> QED BY <2>1, <2>2
  <1>7. cycles2 \in Nat /\ keeps2 \in Seq(BOOLEAN)
    BY <1>4
  <1>8. told = [session EXCEPT !.frames = frames2, !.fills = fills2, !.cycles = cycles2,
                               !.keeps = keeps2, !.regression = session.regression \/ regresses,
                               !.quality = quality]
    BY <1>4 DEF ToldSessions
  <1>9. told \in ToldSessions /\ told.frames = frames2
    <2> HIDE DEF frames2, fills2, cycles2, keeps2, told
    <2>1. session.regression \/ regresses \in BOOLEAN
      OBVIOUS
    <2> QED BY <1>4, <1>5, <1>6, <1>7, <1>8, <2>1 DEF ToldSessions
  <1>10. \E m : told.frames = Append(session.frames, [at |-> moment, mid |-> m])
    <2> HIDE DEF told
    <2> QED BY <1>9
  <1>11. Round(told, moment)
    BY <1>1
  <1>12. stage = "running" /\ UNCHANGED <<manifest, summary>>
    BY DEF RunCycle
  <1> HIDE DEF told, moment
  <1>13. NextRound(told, moment)
    BY <1>2, <1>9, <1>10, <1>11, <1>12 DEF NextRound, Round, moment
  <1> QED BY <1>13

LEMMA RoundStays ==
  ASSUME ValidationInv, NEW told, NEW moment, NextRound(told, moment)
  PROVE  ValidationInv'
  <1> DEFINE c == CheckpointInterval
             n == Len(session.frames)
             m == Len(hourly)
             row == [at |-> moment, type |-> "HOURLY"]
             Row == [at : Nat, type : {"FINAL", "HOURLY"}]
  <1>1. /\ stage = "running" /\ told \in ToldSessions /\ moment \in Nat /\ moment > clock /\ clock \in Nat
        /\ clock' = moment /\ session' = told /\ summary' = summary /\ manifest' = manifest
        /\ reason' = EndOfLoop(told, moment)
        /\ stage' = IF EndOfLoop(told, moment) = "none" THEN "running" ELSE "stopping"
    BY DEF NextRound, ValidationInv, ValidationTypeOK
  <1>2. PICK mid : told.frames = Append(session.frames, [at |-> moment, mid |-> mid])
    BY DEF NextRound
  <1>3. /\ n \in Nat /\ Len(told.frames) = n + 1 /\ told.frames[n + 1].at = moment
        /\ \A j \in 1..n : told.frames[j] = session.frames[j] /\ session.frames[j].at \in Nat
    <2>1. session.frames \in Seq(SessionFrame)
      BY DEF ValidationInv, ValidationTypeOK, ToldSessions
    <2>2. \A j \in 1..n : session.frames[j] \in SessionFrame
      BY <2>1
    <2> QED BY <1>2, <2>1, <2>2 DEF SessionFrame
  <1>4. /\ hourly' = IF moment >= next_checkpoint THEN Append(hourly, row) ELSE hourly
        /\ next_checkpoint' = NextCheckpoint(moment) /\ latest' = LiveSummary(told, moment)
    BY DEF NextRound, RecordCheckpoint
  <1>5. hourly \in Seq(Row) /\ m \in Nat /\ row \in Row /\ \A i \in 1..m : hourly[i].at \in Nat
    <2>1. hourly \in Seq(Row) /\ row \in Row
      BY <1>1 DEF ValidationInv, ValidationTypeOK
    <2>2. \A i \in 1..m : hourly[i] \in Row
      <3> HIDE DEF Row
      <3> QED BY <2>1
    <2> HIDE DEF row
    <2> QED BY <2>1, <2>2
  <1>6. /\ next_checkpoint = c * (Hour(clock) + 1)
        /\ \A i \in 1..m : hourly[i].at <= clock
        /\ \A j \in 1..n : Hour(session.frames[j].at) # 0 =>
              \E i \in 1..m : /\ hourly[i].type = "HOURLY"
                              /\ Hour(hourly[i].at) = Hour(session.frames[j].at)
        /\ \A i, j \in 1..m : i # j => Hour(hourly[i].at) # Hour(hourly[j].at)
    BY <1>1 DEF ValidationInv, HoursAreTold
  <1>7. /\ NextCheckpoint(moment) = c * (Hour(moment) + 1)
        /\ moment >= next_checkpoint => Hour(moment) > Hour(clock)
        /\ ~(moment >= next_checkpoint) => Hour(moment) = Hour(clock)
        /\ NextCheckpoint(moment) \in Nat
    BY <1>1, <1>6, NextCheckpointIs
  <1>8. EndOfLoop(told, moment) \in {"none", "EARLY_EVIDENCE_SUFFICIENT", "MAXIMUM_6_HOUR_WINDOW"}
    BY DEF EndOfLoop
  <1>9. /\ hourly' \in Seq(Row)
        /\ moment >= next_checkpoint => /\ Len(hourly') = m + 1 /\ hourly'[m + 1] = row
                                     /\ \A i \in 1..m : hourly'[i] = hourly[i]
        /\ ~(moment >= next_checkpoint) => hourly' = hourly
    <2>1. /\ Append(hourly, row) \in Seq(Row) /\ Len(Append(hourly, row)) = m + 1
          /\ Append(hourly, row)[m + 1] = row
          /\ \A i \in 1..m : Append(hourly, row)[i] = hourly[i]
      <3> HIDE DEF row, Row
      <3> QED BY <1>5
    <2> HIDE DEF row, Row
    <2> QED BY <1>4, <1>5, <2>1
  <1>10. ValidationTypeOK'
    <2>1. stage' \in ReportStages /\ reason' \in Reasons
      BY <1>1, <1>8 DEF ReportStages, Reasons
    <2> HIDE DEF row
    <2> QED BY <1>1, <1>4, <1>7, <1>9, <2>1 DEF ValidationTypeOK
  <1>11. FramesArePast'
    <2>1. \A j \in 1..(n + 1) : told.frames[j].at <= moment
      <3> SUFFICES ASSUME NEW j \in 1..(n + 1) PROVE told.frames[j].at <= moment
        OBVIOUS
      <3>1. CASE j = n + 1
        BY <1>1, <1>3, <3>1
      <3>2. CASE j \in 1..n
        <4>1. session.frames[j].at <= clock
          BY <3>2 DEF ValidationInv, FramesArePast
        <4> QED BY <1>1, <1>3, <3>2, <4>1
      <3> QED BY <1>3, <3>1, <3>2
    <2>2. n + 1 \in 1..(n + 1) /\ told.frames[n + 1].at = moment
      BY <1>3
    <2> QED BY <1>1, <1>3, <2>1, <2>2 DEF FramesArePast
  <1>12. \A at \in Nat : Hour(at) \in Nat
    BY IntervalIs, HourOf DEF Hour
  <1>13. \A i \in 1..m : Hour(hourly[i].at) <= Hour(clock)
    <2> SUFFICES ASSUME NEW i \in 1..m PROVE Hour(hourly[i].at) <= Hour(clock)
      OBVIOUS
    <2> DEFINE a == hourly[i].at
               h == Hour(a)
               k == Hour(clock)
    <2>1. a \in Nat /\ a <= clock
      BY <1>5, <1>6
    <2>2. c \in Nat /\ c > 0 /\ c \in Nat \ {0}
      BY IntervalIs
    <2> HIDE DEF a, c
    <2>3. h \in Nat /\ c * h <= a
      BY <2>1, <2>2, HourOf DEF Hour, c
    <2>4. k \in Nat /\ clock < c * k + c
      BY <1>1, <2>2, HourOf DEF Hour, c
    <2> HIDE DEF h, k
    <2>5. ~(k + 1 <= h)
      <3> SUFFICES ASSUME k + 1 <= h PROVE FALSE
        OBVIOUS
      <3>1. c * (k + 1) <= c * h /\ c * (k + 1) = c * k + c
        BY <2>2, <2>3, <2>4
      <3> QED BY <1>1, <2>1, <2>2, <2>3, <2>4, <3>1
    <2>6. h <= k
      BY <2>3, <2>4, <2>5
    <2> QED BY <2>6 DEF h, k, a
  <1>14. HoursAreTold'
    <2> SUFFICES /\ next_checkpoint' = c * (Hour(moment) + 1)
                 /\ \A i \in 1..Len(hourly') : hourly'[i].at <= moment
                 /\ \A j \in 1..(n + 1) : Hour(told.frames[j].at) # 0 =>
                       \E i \in 1..Len(hourly') : /\ hourly'[i].type = "HOURLY"
                                                  /\ Hour(hourly'[i].at) = Hour(told.frames[j].at)
                 /\ \A i, j \in 1..Len(hourly') : i # j => Hour(hourly'[i].at) # Hour(hourly'[j].at)
      BY <1>1, <1>3 DEF HoursAreTold, Hour
    <2>0. next_checkpoint' = c * (Hour(moment) + 1)
      BY <1>4, <1>7
    <2>1. CASE moment >= next_checkpoint
      <3>1. row.at = moment /\ row.type = "HOURLY"
        OBVIOUS
      <3> HIDE DEF row
      <3>2. \A i \in 1..(m + 1) : hourly'[i].at <= moment
        <4> SUFFICES ASSUME NEW i \in 1..(m + 1) PROVE hourly'[i].at <= moment
          OBVIOUS
        <4>1. CASE i = m + 1
          BY <1>1, <1>9, <2>1, <3>1, <4>1
        <4>2. CASE i \in 1..m
          <5>1. hourly'[i] = hourly[i] /\ hourly[i].at <= clock /\ hourly[i].at \in Nat
            BY <1>5, <1>6, <1>9, <2>1, <4>2
          <5> QED BY <1>1, <5>1
        <4> QED BY <1>5, <4>1, <4>2
      <3>3. ASSUME NEW j \in 1..(n + 1), Hour(told.frames[j].at) # 0
            PROVE  \E i \in 1..(m + 1) : /\ hourly'[i].type = "HOURLY"
                                         /\ Hour(hourly'[i].at) = Hour(told.frames[j].at)
        <4>1. CASE j = n + 1
          <5>1. m + 1 \in 1..(m + 1) /\ hourly'[m + 1] = row
            BY <1>5, <1>9, <2>1
          <5> QED BY <1>3, <3>1, <4>1, <5>1
        <4>2. CASE j \in 1..n
          <5>1. PICK i \in 1..m : /\ hourly[i].type = "HOURLY"
                                  /\ Hour(hourly[i].at) = Hour(session.frames[j].at)
            BY <1>3, <1>6, <3>3, <4>2
          <5>2. i \in 1..(m + 1) /\ hourly'[i] = hourly[i]
            BY <1>5, <1>9, <2>1
          <5> QED BY <1>3, <4>2, <5>1, <5>2
        <4> QED BY <1>3, <4>1, <4>2
      <3>4. ASSUME NEW i \in 1..(m + 1), NEW j \in 1..(m + 1), i # j
            PROVE  Hour(hourly'[i].at) # Hour(hourly'[j].at)
        <4>1. \A k \in 1..m : Hour(hourly'[k].at) # Hour(moment)
          <5> SUFFICES ASSUME NEW k \in 1..m PROVE Hour(hourly'[k].at) # Hour(moment)
            OBVIOUS
          <5>1. /\ Hour(hourly[k].at) <= Hour(clock) /\ Hour(moment) > Hour(clock)
                /\ hourly'[k] = hourly[k]
            BY <1>7, <1>9, <1>13, <2>1
          <5>2. Hour(hourly[k].at) \in Nat /\ Hour(clock) \in Nat /\ Hour(moment) \in Nat
            BY <1>1, <1>5, <1>12
          <5> QED BY <5>1, <5>2
        <4>2. hourly'[m + 1].at = moment
          BY <1>9, <2>1, <3>1
        <4>3. CASE i \in 1..m /\ j \in 1..m
          BY <1>6, <1>9, <2>1, <3>4, <4>3
        <4>4. CASE i = m + 1 \/ j = m + 1
          BY <1>5, <3>4, <4>1, <4>2, <4>4
        <4> QED BY <1>5, <4>3, <4>4
      <3>5. Len(hourly') = m + 1
        BY <1>9, <2>1
      <3> QED BY <2>0, <3>2, <3>3, <3>4, <3>5
    <2>2. CASE ~(moment >= next_checkpoint)
      <3>1. hourly' = hourly
        BY <1>9, <2>2
      <3>2. \A i \in 1..m : hourly[i].at <= moment
        BY <1>1, <1>5, <1>6
      <3>3. ASSUME NEW j \in 1..(n + 1), Hour(told.frames[j].at) # 0
            PROVE  \E i \in 1..m : /\ hourly[i].type = "HOURLY"
                                   /\ Hour(hourly[i].at) = Hour(told.frames[j].at)
        <4>1. CASE j = n + 1
          <5>1. Hour(clock) # 0 /\ Hour(told.frames[j].at) = Hour(clock)
            BY <1>3, <1>7, <2>2, <3>3, <4>1
          <5>2. clock # 0
            <6>1. Hour(0) = 0
              BY IntervalIs, HourIs DEF Hour
            <6> QED BY <5>1, <6>1
          <5>3. PICK k \in 1..n : session.frames[k].at = clock
            BY <5>2 DEF ValidationInv, FramesArePast
          <5> QED BY <1>6, <5>1, <5>3
        <4>2. CASE j \in 1..n
          BY <1>3, <1>6, <3>3, <4>2
        <4> QED BY <1>3, <4>1, <4>2
      <3> QED BY <1>6, <2>0, <3>1, <3>2, <3>3
    <2> QED BY <2>1, <2>2
  <1>15. EarlyIsSupported'
    <2>1. EndOfLoop(told, moment) = "EARLY_EVIDENCE_SUFFICIENT" =>
             Evidence(told, moment, moment, FALSE) = "SUFFICIENT_FOR_DIAGNOSIS"
      BY DEF EndOfLoop
    <2>2. Evidence(session, clock, clock, FALSE)' = Evidence(told, moment, moment, FALSE)
      BY <1>1 DEF Evidence, MarkoutSummary, Markouts, MarkoutRow, Stable
    <2> QED BY <1>1, <2>1, <2>2 DEF EarlyIsSupported
  <1>16. SummaryIsFinal'
    <2>1. summary = NoSummary /\ manifest # "COMPLETE"
      <3>1. SummaryIsFinal
        BY DEF ValidationInv
      <3>2. summary = NoSummary
        BY <1>1, <3>1 DEF SummaryIsFinal
      <3>3. NoSummary.status = "none" /\ FinalSummary(session, reason, clock).status = "COMPLETE"
        BY DEF NoSummary, FinalSummary
      <3> QED BY <3>1, <3>2, <3>3 DEF SummaryIsFinal
    <2>2. latest'.optimization # "YES"
      BY <1>4, LiveIsNotReady
    <2>3. stage' \in {"running", "stopping"}
      BY <1>1
    <2> QED BY <1>1, <2>1, <2>2, <2>3 DEF SummaryIsFinal, NoSummary
  <1> QED BY <1>10, <1>11, <1>14, <1>15, <1>16 DEF ValidationInv

\* Evidence and summary are of the session and the clock alone.
LEMMA SameSession ==
  ASSUME UNCHANGED <<clock, session>>
  PROVE  /\ Evidence(session, clock, clock, FALSE)' = Evidence(session, clock, clock, FALSE)
         /\ reason' = reason =>
               FinalSummary(session, reason, clock)' = FinalSummary(session, reason, clock)
         /\ FramesArePast' = FramesArePast
  <1>1. Evidence(session, clock, clock, FALSE)' = Evidence(session, clock, clock, FALSE)
    OBVIOUS
  <1>2. reason' = reason =>
          FinalSummary(session, reason, clock)' = FinalSummary(session, reason, clock)
    OBVIOUS
  <1>3. FramesArePast' = FramesArePast
    BY DEF FramesArePast
  <1> QED BY <1>1, <1>2, <1>3

LEMMA ValidationStays == ValidationInv /\ [ValidationNext]_validationVars => ValidationInv'
  <1> SUFFICES ASSUME ValidationInv, [ValidationNext]_validationVars PROVE ValidationInv'
    OBVIOUS
  <1>0. ValidationTypeOK /\ FramesArePast /\ HoursAreTold /\ EarlyIsSupported /\ SummaryIsFinal
    BY DEF ValidationInv
  <1>1. CASE StartValidation
    <2>1. /\ stage = "prepared" /\ stage' = "running" /\ next_checkpoint' = CheckpointInterval
          /\ manifest' = "RUNNING" /\ latest' = LiveSummary(session, 0)
          /\ UNCHANGED <<clock, session, hourly, reason, summary>>
      BY <1>1 DEF StartValidation
    <2>2. clock = 0 /\ hourly = <<>> /\ session.frames = <<>> /\ summary = NoSummary
      BY <1>0, <2>1 DEF SummaryIsFinal
    <2>3. ValidationTypeOK'
      BY <1>0, <2>1, IntervalIs DEF ValidationTypeOK, ReportStages
    <2>4. FramesArePast' /\ EarlyIsSupported'
      BY <1>0, <2>1, SameSession DEF EarlyIsSupported
    <2>5. HoursAreTold'
      <3>1. Hour(0) = 0 /\ CheckpointInterval * (0 + 1) = CheckpointInterval
        BY IntervalIs, HourIs DEF Hour
      <3>2. Len(hourly) = 0 /\ Len(session.frames) = 0 /\ 1..0 = {}
        BY <2>2
      <3> QED BY <2>1, <2>2, <3>1, <3>2 DEF HoursAreTold, Hour
    <2>6. SummaryIsFinal'
      BY <2>1, <2>2, LiveIsNotReady DEF SummaryIsFinal, NoSummary
    <2> QED BY <2>3, <2>4, <2>5, <2>6 DEF ValidationInv
  <1>2. CASE RunCycle
    BY <1>0, <1>2, ARoundIsNext, RoundStays
  <1>3. CASE Interrupted
    <2>1. PICK why \in {"MANUAL_STOP", "CONFIG_CHANGE", "ENVIRONMENT_INCONSISTENCY",
                        "DATA_FAILURE"} :
             /\ reason' = why
             /\ session' = [session EXCEPT !.contaminated = why = "CONFIG_CHANGE"]
      BY <1>3 DEF Interrupted
    <2>2. /\ stage = "running" /\ stage' = "stopping"
          /\ UNCHANGED <<clock, next_checkpoint, hourly, manifest, latest, summary>>
      BY <1>3 DEF Interrupted
    <2>3. session \in ToldSessions
      BY <1>0 DEF ValidationTypeOK
    <2>4. session' \in ToldSessions /\ session'.frames = session.frames
      <3> DEFINE flag == why = "CONFIG_CHANGE"
      <3>1. flag \in BOOLEAN /\ session' = [session EXCEPT !.contaminated = flag]
        BY <2>1
      <3> HIDE DEF flag
      <3> QED BY <2>3, <3>1 DEF ToldSessions
    <2>5. ValidationTypeOK'
      BY <1>0, <2>1, <2>2, <2>4 DEF ValidationTypeOK, ReportStages, Reasons
    <2>6. FramesArePast'
      BY <1>0, <2>2, <2>4 DEF FramesArePast
    <2>7. HoursAreTold'
      BY <1>0, <2>2, <2>4 DEF HoursAreTold, Hour
    <2>8. EarlyIsSupported'
      BY <2>1 DEF EarlyIsSupported
    <2>9. SummaryIsFinal'
      <3>1. summary = NoSummary
        BY <1>0, <2>2 DEF SummaryIsFinal
      <3>2. NoSummary.status = "none" /\ FinalSummary(session, reason, clock).status = "COMPLETE"
        BY DEF NoSummary, FinalSummary
      <3> QED BY <1>0, <2>2, <3>1, <3>2 DEF SummaryIsFinal
    <2> QED BY <2>5, <2>6, <2>7, <2>8, <2>9 DEF ValidationInv
  <1>4. CASE StopAndRecord
    <2> DEFINE Row == [at : Nat, type : {"FINAL", "HOURLY"}]
               row == [at |-> clock, type |-> "FINAL"]
    <2>1. /\ stage = "stopping" /\ stage' = "report"
          /\ hourly' = Append(hourly, row) /\ next_checkpoint' = NextCheckpoint(clock)
          /\ latest' = LiveSummary(session, clock)
          /\ UNCHANGED <<clock, session, reason, manifest, summary>>
      BY <1>4 DEF StopAndRecord, RecordCheckpoint
    <2>2. /\ clock \in Nat /\ row \in Row /\ hourly \in Seq(Row)
          /\ next_checkpoint = CheckpointInterval * (Hour(clock) + 1)
      BY <1>0, <2>1 DEF ValidationTypeOK, HoursAreTold
    <2>3. NextCheckpoint(clock) \in Nat
      BY <2>2, NextCheckpointIs
    <2>4. Append(hourly, row) \in Seq(Row)
      <3> HIDE DEF row, Row
      <3> QED BY <2>2
    <2>5. ValidationTypeOK'
      <3> HIDE DEF row
      <3> QED BY <1>0, <2>1, <2>3, <2>4 DEF ValidationTypeOK, ReportStages
    <2>6. FramesArePast' /\ EarlyIsSupported'
      BY <1>0, <2>1, SameSession DEF EarlyIsSupported
    <2>7. HoursAreTold'
      BY <2>1 DEF HoursAreTold
    <2>8. SummaryIsFinal'
      <3>1. latest'.optimization # "YES"
        BY <2>1, LiveIsNotReady
      <3>2. FinalSummary(session, reason, clock)' = FinalSummary(session, reason, clock)
        BY <2>1, SameSession
      <3> QED BY <1>0, <2>1, <3>1, <3>2 DEF SummaryIsFinal
    <2> QED BY <2>5, <2>6, <2>7, <2>8 DEF ValidationInv
  <1>5. CASE WriteSummary
    <2>1. /\ stage = "report" /\ stage' = "manifest"
          /\ summary' = FinalSummary(session, reason, clock)
          /\ UNCHANGED <<clock, session, next_checkpoint, hourly, reason, manifest, latest>>
      BY <1>5 DEF WriteSummary
    <2>2. FinalSummary(session, reason, clock)' = FinalSummary(session, reason, clock)
      BY <2>1, SameSession
    <2>3. ValidationTypeOK'
      BY <1>0, <2>1 DEF ValidationTypeOK, ReportStages
    <2>4. FramesArePast' /\ EarlyIsSupported'
      BY <1>0, <2>1, SameSession DEF EarlyIsSupported
    <2>5. HoursAreTold'
      BY <2>1 DEF HoursAreTold
    <2>6. summary = NoSummary /\ latest.optimization # "YES"
      <3>1. summary = NoSummary
        BY <1>0, <2>1 DEF SummaryIsFinal
      <3> QED BY <1>0, <3>1 DEF SummaryIsFinal, NoSummary
    <2>7. SummaryIsFinal'
      BY <2>1, <2>2, <2>6 DEF SummaryIsFinal
    <2> QED BY <2>3, <2>4, <2>5, <2>7 DEF ValidationInv
  <1>6. CASE WriteManifest
    <2>1. /\ stage = "manifest" /\ stage' = "latest" /\ manifest' = "COMPLETE"
          /\ UNCHANGED <<clock, session, next_checkpoint, hourly, reason, latest, summary>>
      BY <1>6 DEF WriteManifest
    <2>2. FinalSummary(session, reason, clock)' = FinalSummary(session, reason, clock)
      BY <2>1, SameSession
    <2>3. ValidationTypeOK' /\ HoursAreTold'
      BY <1>0, <2>1 DEF ValidationTypeOK, ReportStages, HoursAreTold
    <2>4. FramesArePast' /\ EarlyIsSupported'
      BY <1>0, <2>1, SameSession DEF EarlyIsSupported
    <2>5. SummaryIsFinal'
      BY <1>0, <2>1, <2>2 DEF SummaryIsFinal
    <2> QED BY <2>3, <2>4, <2>5 DEF ValidationInv
  <1>7. CASE WriteLatest
    <2>1. /\ stage = "latest" /\ stage' = "done" /\ latest' = summary
          /\ UNCHANGED <<clock, session, next_checkpoint, hourly, reason, manifest, summary>>
      BY <1>7 DEF WriteLatest
    <2>2. FinalSummary(session, reason, clock)' = FinalSummary(session, reason, clock)
      BY <2>1, SameSession
    <2>3. ValidationTypeOK' /\ HoursAreTold'
      BY <1>0, <2>1 DEF ValidationTypeOK, ReportStages, HoursAreTold
    <2>4. FramesArePast' /\ EarlyIsSupported'
      BY <1>0, <2>1, SameSession DEF EarlyIsSupported
    <2>5. SummaryIsFinal'
      BY <1>0, <2>1, <2>2 DEF SummaryIsFinal
    <2> QED BY <2>3, <2>4, <2>5 DEF ValidationInv
  <1>8. CASE Lost \/ UNCHANGED validationVars
    <2>1. /\ stage' \in {stage, "lost"}
          /\ stage' # stage => stage \notin {"done", "lost"}
          /\ UNCHANGED <<clock, session, next_checkpoint, hourly, reason, manifest, latest, summary>>
      BY <1>8 DEF Lost, validationVars
    <2>2. FinalSummary(session, reason, clock)' = FinalSummary(session, reason, clock)
      BY <2>1, SameSession
    <2>3. ValidationTypeOK' /\ HoursAreTold'
      BY <1>0, <2>1 DEF ValidationTypeOK, ReportStages, HoursAreTold, Hour
    <2>4. FramesArePast' /\ EarlyIsSupported'
      BY <1>0, <2>1, SameSession DEF EarlyIsSupported
    <2>5. SummaryIsFinal'
      BY <1>0, <2>1, <2>2 DEF SummaryIsFinal
    <2> QED BY <2>3, <2>4, <2>5 DEF ValidationInv
  <1> QED BY <1>1, <1>2, <1>3, <1>4, <1>5, <1>6, <1>7, <1>8 DEF ValidationNext

LEMMA ValidationIsEarned ==
  ASSUME ValidationInv
  PROVE  ReadyIsEarned
  <1> DEFINE final == FinalSummary(session, reason, clock)
  <1>1. /\ ValidationTypeOK /\ FramesArePast /\ HoursAreTold /\ EarlyIsSupported
        /\ SummaryIsFinal /\ session \in ToldSessions /\ clock \in Nat
    BY DEF ValidationInv, ValidationTypeOK
  <1>2. summary = NoSummary \/ summary = final
    BY <1>1 DEF SummaryIsFinal
  <1>3. /\ final.status = "COMPLETE" /\ final.reason = reason
        /\ final.evidence = Evidence(session, clock, clock, TRUE)
        /\ final.canary = "YES" => final.optimization = "YES" /\ session.fees_verified
    BY DEF FinalSummary, ReadyFor
  <1>4. /\ NoSummary.optimization # "YES" /\ NoSummary.canary # "YES"
        /\ NoSummary.reason # "EARLY_EVIDENCE_SUFFICIENT"
    BY DEF NoSummary
  <1>5. /\ session.frames \in Seq(SessionFrame) /\ session.fills \in Seq(SessionFill)
        /\ DOMAIN session.fills = 1..Len(session.fills) /\ session.keeps \in Seq(BOOLEAN)
        /\ DOMAIN session.frames = 1..Len(session.frames) /\ session.regression \in BOOLEAN
    BY <1>1 DEF ToldSessions
  <1>6. ASSUME NEW told \in {latest, summary}, told.optimization = "YES"
        PROVE  told = final
    BY <1>1, <1>2, <1>4, <1>6 DEF SummaryIsFinal
  <1>7. ASSUME final.optimization = "YES"
        PROVE  /\ clock >= MinimumDuration
               /\ Len(session.fills) >= FillTarget /\ session.cycles >= MinCycles
               /\ ~session.regression /\ session.quality /\ ~session.contaminated
               /\ Cardinality({i \in DOMAIN session.fills :
                                  session.fills[i].at + Horizon60 <= clock}) >= MinMarkouts
               /\ \E i \in DOMAIN session.fills, j \in DOMAIN session.frames :
                     IF session.fills[i].side = "buy" THEN session.frames[j].mid >= FillPrice
                     ELSE session.frames[j].mid <= FillPrice
    <2> DEFINE S == {i \in DOMAIN session.fills : \E j \in 1..Len(session.frames) :
                        session.frames[j].at >= session.fills[i].at + Horizon60}
               C == {i \in DOMAIN session.fills : session.fills[i].at + Horizon60 <= clock}
    <2>1. S \subseteq C
      <3> SUFFICES ASSUME NEW i \in 1..Len(session.fills), NEW j \in 1..Len(session.frames),
                          session.frames[j].at >= session.fills[i].at + Horizon60
                   PROVE  session.fills[i].at + Horizon60 <= clock
        BY <1>5
      <3>1. session.frames[j] \in SessionFrame /\ session.fills[i] \in SessionFill
        BY <1>5
      <3>2. session.frames[j].at \in Nat /\ session.fills[i].at \in Nat
        BY <3>1 DEF SessionFrame, SessionFill
      <3>3. session.frames[j].at <= clock
        BY <1>1 DEF FramesArePast
      <3> QED BY <1>1, <3>2, <3>3, HorizonsAre
    <2>2. IsFiniteSet(C)
      <3>1. C \in SUBSET (1..Len(session.fills))
        BY <1>5
      <3>2. IsFiniteSet(1..Len(session.fills))
        BY <1>5, FS_Interval
      <3> QED BY <3>1, <3>2, FS_Subset
    <2>3. Cardinality(S) >= MinMarkouts
      BY <1>1, <1>7, ReadyIs
    <2> HIDE DEF S, C
    <2>4. /\ Cardinality(S) <= Cardinality(C) /\ Cardinality(S) \in Nat /\ Cardinality(C) \in Nat
      <3>1. IsFiniteSet(S)
        BY <2>1, <2>2, FS_Subset
      <3> QED BY <2>1, <2>2, <3>1, FS_Subset, FS_CardinalityType
    <2>5. MinMarkouts \in Nat
      BY EconomicAssumption
    <2>6. Cardinality(C) >= MinMarkouts
      BY <2>3, <2>4, <2>5
    <2> QED BY <1>1, <1>7, <2>6, ReadyIs DEF C
  <1>8. summary.canary = "YES" => summary.optimization = "YES" /\ session.fees_verified
    BY <1>2, <1>3, <1>4
  <1>9. manifest = "COMPLETE" => summary.status = "COMPLETE"
    BY <1>1, <1>3 DEF SummaryIsFinal
  <1>10. summary.reason = "EARLY_EVIDENCE_SUFFICIENT" /\ ~session.regression
            => summary.evidence = "SUFFICIENT_FOR_DIAGNOSIS"
    <2> SUFFICES ASSUME summary.reason = "EARLY_EVIDENCE_SUFFICIENT", ~session.regression
                 PROVE  summary.evidence = "SUFFICIENT_FOR_DIAGNOSIS"
      OBVIOUS
    <2>1. summary = final /\ reason = "EARLY_EVIDENCE_SUFFICIENT"
      BY <1>2, <1>3, <1>4
    <2>2. Evidence(session, clock, clock, FALSE) = "SUFFICIENT_FOR_DIAGNOSIS"
      BY <1>1, <2>1 DEF EarlyIsSupported
    <2>3. Stable(session, TRUE)
      BY DEF Stable
    <2>4. Evidence(session, clock, clock, TRUE) = "SUFFICIENT_FOR_DIAGNOSIS"
      BY <1>1, <2>2, <2>3, EvidenceIs
    <2> QED BY <1>3, <2>1, <2>4
  <1>11. ASSUME stage \in {"running", "stopping"}
         PROVE  /\ next_checkpoint > clock
                /\ \A k \in 1..(clock \div CheckpointInterval) :
                      \/ \E i \in Hourly : hourly[i].at \div CheckpointInterval = k
                      \/ ~\E j \in DOMAIN session.frames :
                              session.frames[j].at \div CheckpointInterval = k
                /\ \A i, j \in Hourly :
                      i # j => hourly[i].at \div CheckpointInterval
                                 # hourly[j].at \div CheckpointInterval
    <2>1. /\ next_checkpoint = CheckpointInterval * (Hour(clock) + 1)
          /\ \A j \in 1..Len(session.frames) : Hour(session.frames[j].at) # 0 =>
                \E i \in 1..Len(hourly) : /\ hourly[i].type = "HOURLY"
                                          /\ Hour(hourly[i].at) = Hour(session.frames[j].at)
          /\ \A i, j \in 1..Len(hourly) : i # j => Hour(hourly[i].at) # Hour(hourly[j].at)
      BY <1>1, <1>11 DEF HoursAreTold
    <2>2. DOMAIN hourly = 1..Len(hourly)
      BY <1>1 DEF ValidationTypeOK
    <2>3. next_checkpoint > clock
      <3>1. NextCheckpoint(clock) > clock /\ NextCheckpoint(clock) = next_checkpoint
        BY <1>1, <2>1, NextCheckpointIs
      <3> QED BY <3>1
    <2>4. \A i, j \in Hourly : i # j => Hour(hourly[i].at) # Hour(hourly[j].at)
      BY <2>1, <2>2 DEF Hourly
    <2>5. ASSUME NEW k \in 1..Hour(clock), NEW j \in DOMAIN session.frames,
                 Hour(session.frames[j].at) = k
          PROVE  \E i \in Hourly : Hour(hourly[i].at) = k
      <3>1. k # 0
        BY <1>1, IntervalIs, HourOf DEF Hour
      <3> QED BY <1>5, <2>1, <2>2, <2>5, <3>1 DEF Hourly
    <2> QED BY <2>3, <2>4, <2>5 DEF Hour
  <1>12. TotalOf(KeepStreaks(session)) = Cardinality({i \in DOMAIN session.keeps : session.keeps[i]})
    BY <1>5, StreaksAddUp
  <1> HIDE DEF final
  <1> QED BY <1>3, <1>6, <1>7, <1>8, <1>9, <1>10, <1>11, <1>12 DEF ReadyIsEarned

\* A report that calls the strategy ready has earned it, however long the session
\* is, whatever it tells and wherever it is cut off.
THEOREM ReadinessIsEarned == ValidationSpec => []ReadyIsEarned
  <1>1. ValidationInit => ValidationInv
    BY ValidationStarts
  <1>2. ValidationInv /\ [ValidationNext]_validationVars => ValidationInv'
    BY ValidationStays
  <1>3. ValidationInv => ReadyIsEarned
    BY ValidationIsEarned
  <1> QED BY <1>1, <1>2, <1>3, PTL DEF ValidationSpec

-----------------------------------------------------------------------------
(* How an order may go *)

AtRest == <<"CREATED", "VALIDATED", "RESTING">>
NeverRested == <<"CREATED", "NEVER_RESTED_REJECTED">>
CancelledFromRest == <<"CREATED", "VALIDATED", "RESTING", "CANCELLED_AFTER_RESTING">>
FilledFromRest == <<"CREATED", "VALIDATED", "RESTING", "FILLED_AFTER_RESTING">>
CompletedFromRest == <<"CREATED", "VALIDATED", "RESTING", "FILLED_AFTER_RESTING", "COMPLETE">>

Courses == {AtRest, NeverRested, CancelledFromRest, FilledFromRest, CompletedFromRest}
CourseHas(course, s) == \E k \in DOMAIN course : course[k] = s

\* What is told after three or four states.
LEMMA FourAre ==
  ASSUME NEW a, NEW b, NEW c, NEW d
  PROVE  Append(<<a, b, c>>, d) = <<a, b, c, d>>
  <1> DEFINE S == {a, b, c, d}
             x == Append(<<a, b, c>>, d)
             y == <<a, b, c, d>>
  <1>1. <<a, b, c>> \in Seq(S) /\ d \in S /\ y \in Seq(S)
    OBVIOUS
  <1>2. Len(<<a, b, c>>) = 3 /\ Len(y) = 4
    OBVIOUS
  <1>3. x \in Seq(S) /\ Len(x) = 4
    BY <1>1, <1>2, AppendProperties
  <1>4. x[1] = a /\ x[2] = b /\ x[3] = c /\ x[4] = d
    OBVIOUS
  <1>5. y[1] = a /\ y[2] = b /\ y[3] = c /\ y[4] = d
    OBVIOUS
  <1>6. \A k \in 1..4 : k = 1 \/ k = 2 \/ k = 3 \/ k = 4
    OBVIOUS
  <1> HIDE DEF x, y, S
  <1>7. \A k \in 1..4 : x[k] = y[k]
    BY <1>4, <1>5, <1>6
  <1>8. x = y
    BY <1>1, <1>2, <1>3, <1>7, SeqEqual
  <1> QED BY <1>8 DEF x, y

LEMMA FiveAre ==
  ASSUME NEW a, NEW b, NEW c, NEW d, NEW e
  PROVE  Append(<<a, b, c, d>>, e) = <<a, b, c, d, e>>
  <1> DEFINE S == {a, b, c, d, e}
             x == Append(<<a, b, c, d>>, e)
             y == <<a, b, c, d, e>>
  <1>1. <<a, b, c, d>> \in Seq(S) /\ e \in S /\ y \in Seq(S)
    OBVIOUS
  <1>2. Len(<<a, b, c, d>>) = 4 /\ Len(y) = 5
    OBVIOUS
  <1>3. x \in Seq(S) /\ Len(x) = 5
    BY <1>1, <1>2, AppendProperties
  <1>4. x[1] = a /\ x[2] = b /\ x[3] = c /\ x[4] = d /\ x[5] = e
    OBVIOUS
  <1>5. y[1] = a /\ y[2] = b /\ y[3] = c /\ y[4] = d /\ y[5] = e
    OBVIOUS
  <1>6. \A k \in 1..5 : k = 1 \/ k = 2 \/ k = 3 \/ k = 4 \/ k = 5
    OBVIOUS
  <1> HIDE DEF x, y, S
  <1>7. \A k \in 1..5 : x[k] = y[k]
    BY <1>4, <1>5, <1>6
  <1>8. x = y
    BY <1>1, <1>2, <1>3, <1>7, SeqEqual
  <1> QED BY <1>8 DEF x, y

LEMMA CoursesAre ==
  /\ Last(AtRest) = "RESTING" /\ Last(NeverRested) = "NEVER_RESTED_REJECTED"
  /\ Last(CancelledFromRest) = "CANCELLED_AFTER_RESTING"
  /\ Last(FilledFromRest) = "FILLED_AFTER_RESTING" /\ Last(CompletedFromRest) = "COMPLETE"
  /\ Append(AtRest, "CANCELLED_AFTER_RESTING") = CancelledFromRest
  /\ Append(AtRest, "FILLED_AFTER_RESTING") = FilledFromRest
  /\ Append(FilledFromRest, "COMPLETE") = CompletedFromRest
  <1>1. Last(AtRest) = "RESTING"
    BY DEF AtRest, Last
  <1>2. Last(NeverRested) = "NEVER_RESTED_REJECTED"
    BY DEF NeverRested, Last
  <1>3. Last(CancelledFromRest) = "CANCELLED_AFTER_RESTING"
    BY DEF CancelledFromRest, Last
  <1>4. Last(FilledFromRest) = "FILLED_AFTER_RESTING"
    BY DEF FilledFromRest, Last
  <1>5. Last(CompletedFromRest) = "COMPLETE"
    BY DEF CompletedFromRest, Last
  <1>6. Append(AtRest, "CANCELLED_AFTER_RESTING") = CancelledFromRest
    BY FourAre DEF AtRest, CancelledFromRest
  <1>7. Append(AtRest, "FILLED_AFTER_RESTING") = FilledFromRest
    BY FourAre DEF AtRest, FilledFromRest
  <1>8. Append(FilledFromRest, "COMPLETE") = CompletedFromRest
    BY FiveAre DEF FilledFromRest, CompletedFromRest
  <1> QED BY <1>1, <1>2, <1>3, <1>4, <1>5, <1>6, <1>7, <1>8

LEMMA CoursesDiffer ==
  /\ AtRest # NeverRested /\ AtRest # CancelledFromRest /\ AtRest # FilledFromRest
  /\ AtRest # CompletedFromRest
  /\ NeverRested # CancelledFromRest /\ NeverRested # FilledFromRest
  /\ NeverRested # CompletedFromRest
  /\ CancelledFromRest # FilledFromRest /\ CancelledFromRest # CompletedFromRest
  /\ FilledFromRest # CompletedFromRest
  BY DEF AtRest, NeverRested, CancelledFromRest, FilledFromRest, CompletedFromRest

LEMMA CoursesHave ==
  /\ \A c \in Courses : CourseHas(c, "RESTING") <=> c # NeverRested
  /\ \A c \in Courses : CourseHas(c, "VALIDATED") <=> c # NeverRested
  /\ \A c \in Courses : CourseHas(c, "NEVER_RESTED_REJECTED") <=> c = NeverRested
  /\ \A c \in Courses : CourseHas(c, "CANCELLED_AFTER_RESTING") <=> c = CancelledFromRest
  /\ \A c \in Courses : CourseHas(c, "FILLED_AFTER_RESTING")
                        <=> c \in {FilledFromRest, CompletedFromRest}
  <1>1. \A s : CourseHas(AtRest, s) <=> s \in {"CREATED", "VALIDATED", "RESTING"}
    BY DEF CourseHas, AtRest
  <1>2. \A s : CourseHas(NeverRested, s) <=> s \in {"CREATED", "NEVER_RESTED_REJECTED"}
    BY DEF CourseHas, NeverRested
  <1>3. \A s : CourseHas(CancelledFromRest, s)
                 <=> s \in {"CREATED", "VALIDATED", "RESTING", "CANCELLED_AFTER_RESTING"}
    BY DEF CourseHas, CancelledFromRest
  <1>4. \A s : CourseHas(FilledFromRest, s)
                 <=> s \in {"CREATED", "VALIDATED", "RESTING", "FILLED_AFTER_RESTING"}
    BY DEF CourseHas, FilledFromRest
  <1>5. \A s : CourseHas(CompletedFromRest, s)
                 <=> s \in {"CREATED", "VALIDATED", "RESTING", "FILLED_AFTER_RESTING", "COMPLETE"}
    BY DEF CourseHas, CompletedFromRest
  <1> QED BY <1>1, <1>2, <1>3, <1>4, <1>5, CoursesDiffer DEF Courses

LEMMA CoursesStep ==
  \A c \in Courses : \A k \in 2..Len(c) : <<c[k - 1], c[k]>> \in AllowedSteps
  <1>1. \A k \in 2..Len(AtRest) : <<AtRest[k - 1], AtRest[k]>> \in AllowedSteps
    <2>1. Len(AtRest) = 3 /\ AtRest[1] = "CREATED" /\ AtRest[2] = "VALIDATED" /\ AtRest[3] = "RESTING"
      BY DEF AtRest
    <2>2. \A k \in 2..3 : k = 2 \/ k = 3
      OBVIOUS
    <2> QED BY <2>1, <2>2 DEF AllowedSteps
  <1>2. \A k \in 2..Len(NeverRested) : <<NeverRested[k - 1], NeverRested[k]>> \in AllowedSteps
    <2>1. Len(NeverRested) = 2 /\ NeverRested[1] = "CREATED"
          /\ NeverRested[2] = "NEVER_RESTED_REJECTED"
      BY DEF NeverRested
    <2>2. \A k \in 2..2 : k = 2
      OBVIOUS
    <2> QED BY <2>1, <2>2 DEF AllowedSteps
  <1>3. \A k \in 2..Len(CancelledFromRest) :
           <<CancelledFromRest[k - 1], CancelledFromRest[k]>> \in AllowedSteps
    <2>1. /\ Len(CancelledFromRest) = 4 /\ CancelledFromRest[1] = "CREATED"
          /\ CancelledFromRest[2] = "VALIDATED" /\ CancelledFromRest[3] = "RESTING"
          /\ CancelledFromRest[4] = "CANCELLED_AFTER_RESTING"
      BY DEF CancelledFromRest
    <2>2. \A k \in 2..4 : k = 2 \/ k = 3 \/ k = 4
      OBVIOUS
    <2> QED BY <2>1, <2>2 DEF AllowedSteps
  <1>4. \A k \in 2..Len(FilledFromRest) :
           <<FilledFromRest[k - 1], FilledFromRest[k]>> \in AllowedSteps
    <2>1. /\ Len(FilledFromRest) = 4 /\ FilledFromRest[1] = "CREATED"
          /\ FilledFromRest[2] = "VALIDATED" /\ FilledFromRest[3] = "RESTING"
          /\ FilledFromRest[4] = "FILLED_AFTER_RESTING"
      BY DEF FilledFromRest
    <2>2. \A k \in 2..4 : k = 2 \/ k = 3 \/ k = 4
      OBVIOUS
    <2> QED BY <2>1, <2>2 DEF AllowedSteps
  <1>5. \A k \in 2..Len(CompletedFromRest) :
           <<CompletedFromRest[k - 1], CompletedFromRest[k]>> \in AllowedSteps
    <2>1. /\ Len(CompletedFromRest) = 5 /\ CompletedFromRest[1] = "CREATED"
          /\ CompletedFromRest[2] = "VALIDATED"
          /\ CompletedFromRest[3] = "RESTING" /\ CompletedFromRest[4] = "FILLED_AFTER_RESTING"
          /\ CompletedFromRest[5] = "COMPLETE"
      BY DEF CompletedFromRest
    <2>2. \A k \in 2..5 : k = 2 \/ k = 3 \/ k = 4 \/ k = 5
      OBVIOUS
    <2> QED BY <2>1, <2>2 DEF AllowedSteps
  <1> QED BY <1>1, <1>2, <1>3, <1>4, <1>5 DEF Courses

\* The numbers of a set, from the least, are its places.
LEMMA InOrderIs ==
  ASSUME NEW n \in Nat, NEW I \in SUBSET (1..n)
  PROVE  /\ Keeps(InOrder(I), I)
         /\ Cardinality(I) \in Nat /\ IsFiniteSet(I)
         /\ InOrder(I) \in Seq(I) /\ Len(InOrder(I)) = Cardinality(I)
         /\ DOMAIN InOrder(I) = 1..Cardinality(I)
  <1> DEFINE R == {x \in I \X I : x[1] < x[2]}
             p == [k \in 1..Cardinality(I) |-> CHOOSE i \in I : RankIn(R, I, i) = k - 1]
  <1>1. IsFiniteSet(I) /\ Cardinality(I) \in Nat
    BY PlacesAreFinite
  <1>2. \A i, j \in I : <<i, j>> \in R <=> i < j
    OBVIOUS
  <1>3. Orders(R, I)
    <2>1. \A i \in I : i \in Int
      OBVIOUS
    <2> HIDE DEF R
    <2> QED BY <1>2, <2>1 DEF Orders
  <1>4. Tells(p, R, I)
    <2> HIDE DEF R
    <2> QED BY <1>1, <1>3, RanksTell
  <1>5. \A k \in 1..Cardinality(I) :
           p[k] = CHOOSE i \in I : Cardinality({j \in I : j < i}) = k - 1
    <2>1. \A i \in I : {j \in I : <<j, i>> \in R} = {j \in I : j < i}
      BY <1>2
    <2>2. \A i \in I : RankIn(R, I, i) = Cardinality({j \in I : j < i})
      BY <2>1 DEF RankIn, Before
    <2> HIDE DEF R
    <2>3. \A k \in 1..Cardinality(I) : p[k] = CHOOSE i \in I : RankIn(R, I, i) = k - 1
      OBVIOUS
    <2> HIDE DEF p
    <2>4. \A k : (CHOOSE i \in I : RankIn(R, I, i) = k - 1)
                  = CHOOSE i \in I : Cardinality({j \in I : j < i}) = k - 1
      BY <2>2
    <2> QED BY <2>3, <2>4
  <1>6. InOrder(I) = p
    <2>1. InOrder(I) = [k \in 1..Cardinality(I) |->
                          CHOOSE i \in I : Cardinality({j \in I : j < i}) = k - 1]
      BY DEF InOrder
    <2>2. p = [k \in 1..Cardinality(I) |-> p[k]]
      OBVIOUS
    <2> HIDE DEF p
    <2> QED BY <1>5, <2>1, <2>2
  <1>7. Keeps(p, I)
    <2> HIDE DEF p
    <2>1. /\ p \in [1..Cardinality(I) -> I]
          /\ \A k, l \in 1..Cardinality(I) : k < l <=> <<p[k], p[l]>> \in R
          /\ \A i \in I : \E k \in 1..Cardinality(I) : p[k] = i
      <3> HIDE DEF R
      <3> QED BY <1>4 DEF Tells
    <2> HIDE DEF R
    <2> QED BY <1>2, <2>1 DEF Keeps
  <1> HIDE DEF p
  <1>8. p \in [1..Cardinality(I) -> I]
    BY <1>7 DEF Keeps
  <1>9. p \in Seq(I) /\ Len(p) = Cardinality(I) /\ DOMAIN p = 1..Cardinality(I)
    BY <1>1, <1>8
  <1> QED BY <1>1, <1>6, <1>7, <1>9

-----------------------------------------------------------------------------
(* What is so of every order *)

ReasonsTold ==
  {NoReason, "FILLED", "WOULD_CROSS_MARKET", "SESSION_SHUTDOWN", "MANUAL_STOP", "MAX_AGE",
   "PLAN_LEVEL_REMOVED", "MIN_LIFETIME_SAFETY_OVERRIDE", "PRICE_DEVIATION"}
OrderRow ==
  [level : PlanLevels, is_exit : BOOLEAN, parent : Nat, cycle : Nat, sequence : Courses,
   created : Nat, created_stamp : Nat, terminal : Nat, terminal_stamp : Nat,
   reason : ReasonsTold, cancel_cycle : Nat, same_cycle : BOOLEAN, next_cycle : Nat]

\* Of an entry: it is never rejected, and the cycle after its own is written on it
\* once that has come.
EntryStands(o, seen) ==
  /\ o.sequence # NeverRested /\ o.cycle = o.created /\ o.created <= seen
  /\ o.next_cycle = IF seen > o.cycle THEN o.cycle + 1 ELSE 0

\* Of how it ended.
EndStands(o) ==
  /\ o.sequence = AtRest =>
        /\ o.terminal = 0 /\ o.reason = NoReason /\ ~o.same_cycle /\ o.cancel_cycle = 0
  /\ o.sequence = NeverRested => o.reason # "FILLED" /\ o.cancel_cycle = 0
  /\ o.sequence = CancelledFromRest =>
        /\ o.terminal # 0 /\ o.reason # "FILLED"
        /\ o.cancel_cycle # 0 => ~o.same_cycle /\ o.terminal > o.created
        /\ o.cancel_cycle = 0 =>
              /\ o.reason = "SESSION_SHUTDOWN"
              /\ o.same_cycle \/ o.terminal_stamp = o.created_stamp => o.terminal <= o.created
  /\ o.sequence \in {FilledFromRest, CompletedFromRest} =>
        /\ o.reason = "FILLED" /\ o.cancel_cycle = 0 /\ ~o.same_cycle
        /\ o.terminal > o.created /\ o.terminal_stamp > o.created_stamp
  /\ o.sequence = CompletedFromRest => ~o.is_exit

\* By the time, the frame and the cycle the entries have been told of.
Standing(o, time, frame, seen) ==
  /\ 1 <= o.cycle /\ o.cycle <= o.created /\ o.created <= time
  /\ o.created_stamp <= o.created /\ o.created_stamp <= frame
  /\ ~o.is_exit => EntryStands(o, seen)
  /\ EndStands(o)

\* Each exit has an entry of its own, which has been filled before it was made.
ParentsStand(book) ==
  /\ \A x \in DOMAIN book : book[x].is_exit =>
        /\ book[x].parent \in DOMAIN book /\ ~book[book[x].parent].is_exit
        /\ book[book[x].parent].sequence \in {FilledFromRest, CompletedFromRest}
        /\ book[book[x].parent].created_stamp <= book[x].created_stamp
        /\ book[x].sequence = AtRest => book[book[x].parent].sequence = FilledFromRest
  /\ \A x, y \in DOMAIN book :
        book[x].is_exit /\ book[y].is_exit /\ book[x].parent = book[y].parent => x = y

BookStands(book, time, frame, seen) ==
  /\ book \in Seq(OrderRow)
  /\ \A i \in DOMAIN book : Standing(book[i], time, frame, seen)
  /\ ParentsStand(book)

LEMMA ReasonsAre ==
  /\ NoReason # "FILLED" /\ NoReason # "UNKNOWN_INTERNAL" /\ NoReason # "INSTANTIATED"
  /\ NoReason \notin {"PORTFOLIO_RISK_BLOCK", "MIN_SIZE", "MAKER_SAFETY",
                      "EXECUTION_ENABLED", "SIGNAL_ONLY", "SIGNAL_ONLY_MIN_SIZE"}
  BY Zenon DEF NoReason

LEMMA RestsWhen ==
  ASSUME NEW c \in Courses
  PROVE  /\ Last(c) = "RESTING" <=> c = AtRest
         /\ Last(c) = "FILLED_AFTER_RESTING" <=> c = FilledFromRest
  BY CoursesAre, CoursesDiffer DEF Courses

NewAs(o, level, parent, crossed, time, frame, cycle) ==
  /\ o \in OrderRow /\ o.level = level /\ o.is_exit = (parent # 0) /\ o.parent = parent
  /\ o.cycle = cycle /\ o.created = time /\ o.created_stamp = frame
  /\ o.sequence = (IF crossed THEN NeverRested ELSE AtRest)
  /\ ~crossed => o.terminal = 0 /\ o.reason = NoReason
  /\ crossed => o.reason = "WOULD_CROSS_MARKET"
  /\ o.cancel_cycle = 0 /\ ~o.same_cycle /\ o.next_cycle = 0

LEMMA FieldsOfNew ==
  ASSUME NEW level \in PlanLevels, NEW parent \in Nat, NEW crossed \in BOOLEAN,
         NEW time \in Nat, NEW frame \in Nat, NEW cycle \in Nat
  PROVE  NewAs(NewOrder(level, parent, crossed, time, frame, cycle),
               level, parent, crossed, time, frame, cycle)
  <1> DEFINE o == NewOrder(level, parent, crossed, time, frame, cycle)
             course == IF crossed THEN NeverRested ELSE AtRest
             why == IF crossed THEN "WOULD_CROSS_MARKET" ELSE NoReason
  <1>1. o = [level |-> level, is_exit |-> parent # 0, parent |-> parent, cycle |-> cycle,
             sequence |-> course, created |-> time, created_stamp |-> frame,
             terminal |-> IF crossed THEN time ELSE 0,
             terminal_stamp |-> IF crossed THEN frame ELSE 0,
             reason |-> why, cancel_cycle |-> 0, same_cycle |-> FALSE, next_cycle |-> 0]
    BY DEF NewOrder, NeverRested, AtRest
  <1>2. course \in Courses /\ why \in ReasonsTold
    <2>1. AtRest \in Courses /\ NeverRested \in Courses
      BY DEF Courses
    <2>2. "WOULD_CROSS_MARKET" \in ReasonsTold
      BY DEF ReasonsTold
    <2>3. NoReason \in ReasonsTold
      BY DEF ReasonsTold
    <2> QED BY <2>1, <2>2, <2>3
  <1> HIDE DEF o, course, why
  <1>3. o \in OrderRow
    BY <1>1, <1>2 DEF OrderRow
  <1>4. /\ o.level = level /\ o.is_exit = (parent # 0) /\ o.parent = parent
        /\ o.cycle = cycle /\ o.created = time /\ o.created_stamp = frame
        /\ o.sequence = course /\ o.reason = why /\ o.terminal = IF crossed THEN time ELSE 0
        /\ o.cancel_cycle = 0 /\ ~o.same_cycle /\ o.next_cycle = 0
    BY <1>1
  <1> QED BY <1>3, <1>4 DEF o, course, why, NewAs

\* All but how it ended.
SameOrder(p, o) ==
  /\ p.level = o.level /\ p.is_exit = o.is_exit /\ p.parent = o.parent /\ p.cycle = o.cycle
  /\ p.created = o.created /\ p.created_stamp = o.created_stamp

EndedAs(p, o, ending, cause, time, frame) ==
  /\ p \in OrderRow /\ SameOrder(p, o) /\ p.sequence = Append(o.sequence, ending)
  /\ p.reason = cause /\ p.terminal = time /\ p.terminal_stamp = frame
  /\ p.cancel_cycle = o.cancel_cycle /\ p.same_cycle = o.same_cycle
  /\ p.next_cycle = o.next_cycle

LEMMA FieldsOfEnded ==
  ASSUME NEW o \in OrderRow, NEW ending, Append(o.sequence, ending) \in Courses,
         NEW cause \in ReasonsTold, NEW time \in Nat, NEW frame \in Nat
  PROVE  EndedAs(EndedOrder(o, ending, cause, time, frame), o, ending, cause, time, frame)
  <1> DEFINE course == Append(o.sequence, ending)
             p == [o EXCEPT !.sequence = course, !.reason = cause, !.terminal = time,
                            !.terminal_stamp = frame]
  <1>1. p = EndedOrder(o, ending, cause, time, frame)
    BY DEF EndedOrder
  <1> HIDE DEF course
  <1>2. course \in Courses
    BY DEF course
  <1>3. p \in OrderRow
    BY <1>2 DEF OrderRow
  <1>4. /\ SameOrder(p, o) /\ p.sequence = course
        /\ p.reason = cause /\ p.terminal = time /\ p.terminal_stamp = frame
        /\ p.cancel_cycle = o.cancel_cycle /\ p.same_cycle = o.same_cycle
        /\ p.next_cycle = o.next_cycle
    BY DEF OrderRow, SameOrder
  <1> HIDE DEF p
  <1> QED BY <1>1, <1>3, <1>4 DEF course, EndedAs

CancelledAs(p, o, why, cycle, time, frame) ==
  /\ p \in OrderRow /\ SameOrder(p, o) /\ p.sequence = CancelledFromRest
  /\ p.reason = CancelReason(why) /\ p.terminal = time /\ p.terminal_stamp = frame
  /\ p.cancel_cycle = cycle /\ p.same_cycle = SameCycle(o, cycle, frame)
  /\ p.next_cycle = o.next_cycle

LEMMA FieldsOfCancel ==
  ASSUME NEW o \in OrderRow, o.sequence = AtRest, NEW why, CancelReason(why) \in ReasonsTold,
         NEW cycle \in Nat, NEW time \in Nat, NEW frame \in Nat
  PROVE  CancelledAs(Cancel(o, why, cycle, time, frame), o, why, cycle, time, frame)
  <1> DEFINE e == EndedOrder(o, "CANCELLED_AFTER_RESTING", CancelReason(why), time, frame)
             q == SameCycle(o, cycle, frame)
             p == [e EXCEPT !.cancel_cycle = cycle, !.same_cycle = q]
  <1>1. p = Cancel(o, why, cycle, time, frame)
    BY DEF Cancel
  <1>2. q \in BOOLEAN
    <2>1. o.created_stamp \in Nat
      BY DEF OrderRow
    <2>2. (o.cycle = cycle) \in BOOLEAN /\ (frame <= o.created_stamp) \in BOOLEAN
      BY <2>1
    <2>3. CASE cycle # 0
      BY <2>2, <2>3 DEF SameCycle
    <2>4. CASE cycle = 0
      BY <2>2, <2>4 DEF SameCycle
    <2> QED BY <2>3, <2>4
  <1>3. Append(o.sequence, "CANCELLED_AFTER_RESTING") = CancelledFromRest
    BY CoursesAre
  <1>4. CancelledFromRest \in Courses
    BY DEF Courses
  <1>5. CancelReason(why) \in ReasonsTold
    OBVIOUS
  <1>6. /\ e \in OrderRow /\ SameOrder(e, o) /\ e.sequence = CancelledFromRest
        /\ e.reason = CancelReason(why) /\ e.terminal = time /\ e.terminal_stamp = frame
        /\ e.next_cycle = o.next_cycle
    <2> DEFINE why0 == CancelReason(why)
               ending == "CANCELLED_AFTER_RESTING"
    <2>1. why0 \in ReasonsTold /\ Append(o.sequence, ending) \in Courses
      BY <1>3, <1>4, <1>5
    <2>2. e = EndedOrder(o, ending, why0, time, frame)
      OBVIOUS
    <2> HIDE DEF why0, ending, e
    <2>3. EndedAs(EndedOrder(o, ending, why0, time, frame), o, ending, why0, time, frame)
      BY <2>1, FieldsOfEnded
    <2>4. EndedAs(e, o, ending, why0, time, frame)
      BY <2>2, <2>3
    <2> QED BY <1>3, <2>4 DEF why0, ending, EndedAs
  <1> HIDE DEF e, q
  <1>7. p \in OrderRow
    BY <1>2, <1>6 DEF OrderRow
  <1>8. /\ SameOrder(p, e) /\ p.sequence = e.sequence
        /\ p.reason = e.reason /\ p.terminal = e.terminal /\ p.terminal_stamp = e.terminal_stamp
        /\ p.cancel_cycle = cycle /\ p.same_cycle = q /\ p.next_cycle = e.next_cycle
    BY <1>6 DEF OrderRow, SameOrder
  <1> HIDE DEF p
  <1>9. SameOrder(p, o)
    BY <1>6, <1>8 DEF SameOrder
  <1> QED BY <1>1, <1>6, <1>7, <1>8, <1>9 DEF q, CancelledAs

LEMMA StandsOn ==
  ASSUME NEW o, NEW time \in Nat, NEW frame \in Nat, NEW seen \in Nat, NEW later \in Nat,
         NEW next \in Nat, o \in OrderRow, Standing(o, time, frame, seen), time <= later, frame <= next
  PROVE  Standing(o, later, next, seen)
  BY DEF Standing, OrderRow

LEMMA FillStands ==
  ASSUME NEW o, o \in OrderRow, NEW time \in Nat, NEW frame \in Nat, NEW next \in Nat,
         Standing(o, time, frame, time), o.sequence = AtRest, o.created_stamp < next, frame <= next
  PROVE  LET p == FilledOrder(o, time + 1, next)
         IN  /\ p \in OrderRow /\ SameOrder(p, o) /\ p.sequence = FilledFromRest
             /\ Standing(p, time + 1, next, time)
  <1> DEFINE p == FilledOrder(o, time + 1, next)
  <1>1. EndedAs(p, o, "FILLED_AFTER_RESTING", "FILLED", time + 1, next)
    <2> DEFINE ending == "FILLED_AFTER_RESTING"
               why == "FILLED"
               later == time + 1
    <2>1. Append(o.sequence, ending) \in Courses
      BY CoursesAre DEF Courses
    <2>2. why \in ReasonsTold /\ later \in Nat
      BY DEF ReasonsTold
    <2>3. p = EndedOrder(o, ending, why, later, next)
      BY DEF FilledOrder
    <2> HIDE DEF ending, why, later, p
    <2>4. EndedAs(EndedOrder(o, ending, why, later, next), o, ending, why, later, next)
      BY <2>1, <2>2, FieldsOfEnded
    <2> QED BY <2>3, <2>4 DEF ending, why, later
  <1> HIDE DEF p
  <1>2. /\ p \in OrderRow /\ SameOrder(p, o) /\ p.sequence = FilledFromRest
        /\ p.reason = "FILLED" /\ p.terminal = time + 1 /\ p.terminal_stamp = next
        /\ p.cancel_cycle = 0 /\ ~p.same_cycle /\ p.next_cycle = o.next_cycle
    BY <1>1, CoursesAre DEF EndedAs, Standing, EndStands
  <1>3. o.created <= time /\ o.created \in Nat /\ o.created_stamp \in Nat
    BY DEF Standing, OrderRow
  <1>4. EndStands(p)
    BY <1>2, <1>3, CoursesDiffer DEF EndStands, SameOrder
  <1>5. ~p.is_exit => EntryStands(p, time)
    BY <1>2, CoursesDiffer DEF EntryStands, Standing, SameOrder
  <1>6. Standing(p, time + 1, next, time)
    BY <1>2, <1>3, <1>4, <1>5 DEF Standing, SameOrder
  <1> QED BY <1>2, <1>6 DEF p

LEMMA CompletionStands ==
  ASSUME NEW o, o \in OrderRow, NEW time \in Nat, NEW frame \in Nat, NEW next \in Nat,
         Standing(o, time, frame, time), o.sequence = FilledFromRest, ~o.is_exit,
         o.created_stamp < next, frame <= next
  PROVE  LET p == CompletedEntry(o, time + 1, next)
         IN  /\ p \in OrderRow /\ SameOrder(p, o) /\ p.sequence = CompletedFromRest
             /\ Standing(p, time + 1, next, time)
  <1> DEFINE p == CompletedEntry(o, time + 1, next)
  <1>1. EndedAs(p, o, "COMPLETE", o.reason, time + 1, next)
    <2> DEFINE ending == "COMPLETE"
               later == time + 1
    <2>1. Append(o.sequence, ending) \in Courses
      BY CoursesAre DEF Courses
    <2>2. o.reason \in ReasonsTold /\ later \in Nat
      BY DEF OrderRow
    <2>3. p = EndedOrder(o, ending, o.reason, later, next)
      BY DEF CompletedEntry
    <2> HIDE DEF ending, later, p
    <2>4. EndedAs(EndedOrder(o, ending, o.reason, later, next), o, ending, o.reason, later, next)
      BY <2>1, <2>2, FieldsOfEnded
    <2> QED BY <2>3, <2>4 DEF ending, later
  <1> HIDE DEF p
  <1>2. /\ p \in OrderRow /\ SameOrder(p, o) /\ p.sequence = CompletedFromRest
        /\ p.reason = "FILLED" /\ p.terminal = time + 1 /\ p.terminal_stamp = next
        /\ p.cancel_cycle = 0 /\ ~p.same_cycle /\ p.next_cycle = o.next_cycle
    BY <1>1, CoursesAre DEF EndedAs, Standing, EndStands
  <1>3. o.created <= time /\ o.created \in Nat /\ o.created_stamp \in Nat
    BY DEF Standing, OrderRow
  <1>4. EndStands(p)
    BY <1>2, <1>3, CoursesDiffer DEF EndStands, SameOrder
  <1>5. ~p.is_exit => EntryStands(p, time)
    BY <1>2, CoursesDiffer DEF EntryStands, Standing, SameOrder
  <1>6. Standing(p, time + 1, next, time)
    BY <1>2, <1>3, <1>4, <1>5 DEF Standing, SameOrder
  <1> QED BY <1>2, <1>6 DEF p

\* An exit of a frame, of an entry of some cycle before it.
LEMMA ExitStands ==
  ASSUME NEW level \in PlanLevels, NEW parent \in Nat \ {0}, NEW crossed \in BOOLEAN,
         NEW time \in Nat \ {0}, NEW frame \in Nat, frame <= time, NEW cycle \in 1..time, NEW seen
  PROVE  LET o == NewOrder(level, parent, crossed, time, frame, cycle)
         IN  /\ o \in OrderRow /\ o.is_exit /\ o.parent = parent /\ o.created_stamp = frame
             /\ o.sequence = (IF crossed THEN NeverRested ELSE AtRest)
             /\ o.reason # "FILLED"
             /\ Standing(o, time, frame, seen)
  <1> DEFINE o == NewOrder(level, parent, crossed, time, frame, cycle)
  <1>1. NewAs(o, level, parent, crossed, time, frame, cycle)
    BY FieldsOfNew
  <1> HIDE DEF o
  <1>2. /\ o \in OrderRow /\ o.is_exit /\ o.parent = parent /\ o.created_stamp = frame
        /\ o.sequence = (IF crossed THEN NeverRested ELSE AtRest)
        /\ o.cycle = cycle /\ o.created = time
        /\ ~crossed => o.terminal = 0 /\ o.reason = NoReason
        /\ crossed => o.reason = "WOULD_CROSS_MARKET"
        /\ o.cancel_cycle = 0 /\ ~o.same_cycle
    BY <1>1 DEF NewAs
  <1>3. o.reason # "FILLED"
    BY <1>2, ReasonsAre
  <1>4. EndStands(o)
    BY <1>2, <1>3, CoursesDiffer DEF EndStands
  <1>5. Standing(o, time, frame, seen)
    BY <1>2, <1>4 DEF Standing
  <1> QED BY <1>2, <1>3, <1>5 DEF o

\* An entry of a cycle.
LEMMA EntryIsNew ==
  ASSUME NEW level \in PlanLevels, NEW time \in Nat \ {0}, NEW frame \in Nat, frame <= time
  PROVE  LET o == NewOrder(level, 0, FALSE, time, frame, time)
         IN  /\ o \in OrderRow /\ ~o.is_exit /\ o.level = level /\ o.sequence = AtRest
             /\ o.reason # "FILLED"
             /\ Standing(o, time, frame, time)
  <1> DEFINE o == NewOrder(level, 0, FALSE, time, frame, time)
  <1>1. NewAs(o, level, 0, FALSE, time, frame, time)
    BY FieldsOfNew
  <1> HIDE DEF o
  <1>2. /\ o \in OrderRow /\ ~o.is_exit /\ o.level = level /\ o.created_stamp = frame
        /\ o.sequence = AtRest /\ o.cycle = time /\ o.created = time
        /\ o.terminal = 0 /\ o.reason = NoReason
        /\ o.cancel_cycle = 0 /\ ~o.same_cycle /\ o.next_cycle = 0
    BY <1>1 DEF NewAs
  <1>3. o.reason # "FILLED"
    BY <1>2, ReasonsAre
  <1>4. EndStands(o)
    BY <1>2, <1>3, CoursesDiffer DEF EndStands
  <1>5. EntryStands(o, time)
    BY <1>2, CoursesDiffer DEF EntryStands
  <1>6. Standing(o, time, frame, time)
    BY <1>2, <1>4, <1>5 DEF Standing
  <1> QED BY <1>2, <1>3, <1>6 DEF o

\* What the cycle after its own writes on an entry.
SeenIn(o, cycle, frame) ==
  IF /\ ~o.is_exit /\ o.next_cycle = 0
     /\ o.created_stamp < frame \/ o.cycle # cycle
  THEN [o EXCEPT !.next_cycle = cycle] ELSE o

LEMMA AnnotationStands ==
  ASSUME NEW o, o \in OrderRow, NEW time \in Nat, NEW frame \in Nat,
         Standing(o, time + 1, frame, time)
  PROVE  LET p == SeenIn(o, time + 1, frame)
         IN  /\ p \in OrderRow /\ SameOrder(p, o) /\ p.sequence = o.sequence /\ p.reason = o.reason
             /\ Standing(p, time + 1, frame, time + 1)
  <1> DEFINE p == SeenIn(o, time + 1, frame)
  <1>1. CASE p = o /\ (o.is_exit \/ o.next_cycle # 0)
    <2>1. SameOrder(p, o) /\ p \in OrderRow /\ p.sequence = o.sequence /\ p.reason = o.reason
      BY <1>1 DEF SameOrder
    <2>2. ~p.is_exit => EntryStands(p, time + 1)
      BY <1>1 DEF Standing, EntryStands, OrderRow
    <2>3. Standing(p, time + 1, frame, time + 1)
      <3> HIDE DEF p
      <3> QED BY <1>1, <2>2 DEF Standing
    <2> QED BY <2>1, <2>3
  <1>2. CASE p # o \/ (~o.is_exit /\ o.next_cycle = 0)
    <2>1. ~o.is_exit /\ o.next_cycle = 0
      BY <1>2 DEF SeenIn
    <2>2. EntryStands(o, time)
      BY <2>1 DEF Standing
    <2>3. o.cycle # time + 1 /\ o.cycle \in Nat /\ o.created \in Nat /\ o.cycle = time
      BY <2>1, <2>2 DEF EntryStands, OrderRow
    <2>4. p = [o EXCEPT !.next_cycle = time + 1]
      BY <2>1, <2>3 DEF SeenIn
    <2> HIDE DEF p
    <2>5. p \in OrderRow /\ p.next_cycle = time + 1
      BY <2>4 DEF OrderRow
    <2>6. /\ SameOrder(p, o) /\ p.sequence = o.sequence /\ p.reason = o.reason
          /\ p.terminal = o.terminal /\ p.terminal_stamp = o.terminal_stamp
          /\ p.cancel_cycle = o.cancel_cycle /\ p.same_cycle = o.same_cycle
      BY <2>4 DEF OrderRow, SameOrder
    <2>7. EntryStands(p, time + 1)
      <3>1. o.sequence # NeverRested /\ o.cycle = o.created /\ o.created <= time
        BY <2>2 DEF EntryStands
      <3>2. p.cycle = o.cycle /\ p.created = o.created
        BY <2>6 DEF SameOrder
      <3>3. time + 1 > p.cycle /\ p.next_cycle = p.cycle + 1 /\ p.created <= time + 1
        BY <2>3, <2>5, <3>1, <3>2
      <3>4. p.sequence # NeverRested /\ p.cycle = p.created
        BY <2>6, <3>1, <3>2
      <3> QED BY <3>3, <3>4 DEF EntryStands
    <2>8. EndStands(p)
      BY <2>6 DEF EndStands, Standing, SameOrder
    <2>9. Standing(p, time + 1, frame, time + 1)
      BY <2>6, <2>7, <2>8 DEF Standing, SameOrder
    <2> QED BY <2>5, <2>6, <2>9 DEF p
  <1> QED BY <1>1, <1>2

\* A cycle cancels an entry that it has not made.
LEMMA CancelStands ==
  ASSUME NEW o, o \in OrderRow, NEW time \in Nat, NEW frame \in Nat,
         Standing(o, time + 1, frame, time + 1), o.sequence = AtRest, o.created <= time,
         NEW why, CancelReason(why) \in ReasonsTold \ {"FILLED"}
  PROVE  LET p == Cancel(o, why, time + 1, time + 1, frame)
         IN  /\ p \in OrderRow /\ SameOrder(p, o) /\ p.sequence = CancelledFromRest
             /\ p.reason # "FILLED" /\ Standing(p, time + 1, frame, time + 1)
  <1> DEFINE later == time + 1
             p == Cancel(o, why, later, later, frame)
  <1>1. CancelledAs(p, o, why, later, later, frame)
    <2>1. later \in Nat
      OBVIOUS
    <2> HIDE DEF later
    <2> QED BY <2>1, FieldsOfCancel
  <1> HIDE DEF p
  <1>2. o.created \in Nat /\ o.cycle \in Nat /\ o.cycle <= time
    BY DEF OrderRow, Standing
  <1>3. ~SameCycle(o, later, frame)
    BY <1>2 DEF SameCycle
  <1>4. /\ p \in OrderRow /\ SameOrder(p, o) /\ p.sequence = CancelledFromRest
        /\ p.reason # "FILLED" /\ p.terminal = later /\ p.cancel_cycle = later
        /\ ~p.same_cycle /\ p.next_cycle = o.next_cycle
    BY <1>1, <1>3 DEF CancelledAs
  <1>5. EndStands(p)
    BY <1>2, <1>4, CoursesDiffer DEF EndStands, SameOrder
  <1>6. ~p.is_exit => EntryStands(p, later)
    BY <1>4, CoursesDiffer DEF EntryStands, Standing, SameOrder
  <1>7. Standing(p, later, frame, later)
    BY <1>4, <1>5, <1>6 DEF Standing, SameOrder
  <1> QED BY <1>4, <1>7 DEF p

\* And the end of the session what rests by then.
LEMMA ShutdownStands ==
  ASSUME NEW o, o \in OrderRow, NEW time \in Nat, NEW frame \in Nat,
         Standing(o, time, frame, time), o.sequence = AtRest, NEW end \in {time, time + 1}
  PROVE  LET p == Cancel(o, "shutdown", 0, end, end)
         IN  /\ p \in OrderRow /\ SameOrder(p, o) /\ p.sequence = CancelledFromRest
             /\ p.reason # "FILLED" /\ Standing(p, time, frame, time)
  <1> DEFINE p == Cancel(o, "shutdown", 0, end, end)
  <1>1. CancelReason("shutdown") = "SESSION_SHUTDOWN"
    BY DEF CancelReason
  <1>2. CancelledAs(p, o, "shutdown", 0, end, end)
    <2> DEFINE why == "shutdown"
    <2>1. CancelReason(why) \in ReasonsTold /\ end \in Nat
      BY <1>1 DEF ReasonsTold
    <2> HIDE DEF why
    <2>2. CancelledAs(Cancel(o, why, 0, end, end), o, why, 0, end, end)
      BY <2>1, FieldsOfCancel
    <2> QED BY <2>2 DEF why
  <1> HIDE DEF p
  <1>3. /\ o.created \in Nat /\ o.created_stamp \in Nat /\ 1 <= o.created /\ o.created <= time
        /\ o.created_stamp <= o.created
    BY DEF OrderRow, Standing
  <1>4. SameCycle(o, 0, end) <=> end <= o.created_stamp
    BY DEF SameCycle
  <1>5. /\ p \in OrderRow /\ SameOrder(p, o) /\ p.sequence = CancelledFromRest
        /\ p.reason = "SESSION_SHUTDOWN" /\ p.terminal = end /\ p.terminal_stamp = end
        /\ p.cancel_cycle = 0 /\ p.next_cycle = o.next_cycle
        /\ p.same_cycle <=> end <= o.created_stamp
    BY <1>1, <1>2, <1>4 DEF CancelledAs
  <1>6. p.reason # "FILLED"
    BY <1>5
  <1>7. p.same_cycle \/ p.terminal_stamp = p.created_stamp => p.terminal <= p.created
    BY <1>3, <1>5 DEF SameOrder
  <1>8. EndStands(p)
    BY <1>3, <1>5, <1>6, <1>7, CoursesDiffer DEF EndStands, SameOrder
  <1>9. ~p.is_exit => EntryStands(p, time)
    BY <1>5, CoursesDiffer DEF EntryStands, Standing, SameOrder
  <1>10. Standing(p, time, frame, time)
    BY <1>5, <1>8, <1>9 DEF Standing, SameOrder
  <1> QED BY <1>5, <1>6, <1>10 DEF p

-----------------------------------------------------------------------------
(* What a frame fills *)

LEMMA ActiveAre ==
  ASSUME NEW book \in Seq(OrderRow)
  PROVE  /\ ActiveOrders(book) = {i \in DOMAIN book : book[i].sequence = AtRest}
         /\ DOMAIN book = 1..Len(book) /\ Len(book) \in Nat
         /\ \A i \in DOMAIN book : book[i] \in OrderRow /\ book[i].sequence \in Courses
  <1>1. DOMAIN book = 1..Len(book) /\ Len(book) \in Nat
    BY LenProperties
  <1>2. \A i \in DOMAIN book : book[i] \in OrderRow
    BY <1>1, ElementOfSeq
  <1>3. \A i \in DOMAIN book : book[i].sequence \in Courses
    BY <1>2 DEF OrderRow
  <1>4. \A i \in DOMAIN book : Last(book[i].sequence) = "RESTING" <=> book[i].sequence = AtRest
    BY <1>3, RestsWhen
  <1> QED BY <1>1, <1>2, <1>3, <1>4 DEF ActiveOrders

\* A book and what is appended to it.
LEMMA BooksJoin ==
  ASSUME NEW n \in Nat, NEW m \in Nat,
         NEW one \in [1..n -> OrderRow], NEW two \in [1..m -> OrderRow]
  PROVE  /\ one \o two \in Seq(OrderRow) /\ Len(one \o two) = n + m
         /\ \A i \in 1..n : (one \o two)[i] = one[i]
         /\ \A k \in 1..m : (one \o two)[n + k] = two[k]
         /\ \A i \in 1..(n + m) : i \in 1..n \/ \E k \in 1..m : i = n + k
  <1>1. one \in Seq(OrderRow) /\ two \in Seq(OrderRow) /\ Len(one) = n /\ Len(two) = m
    OBVIOUS
  <1>2. one \o two \in Seq(OrderRow) /\ Len(one \o two) = n + m
    BY <1>1, ConcatProperties
  <1>3. \A i \in 1..(n + m) : (one \o two)[i] = IF i <= n THEN one[i] ELSE two[i - n]
    BY <1>1, ConcatProperties
  <1>4. \A i \in 1..n : (one \o two)[i] = one[i]
    BY <1>3
  <1>5. \A k \in 1..m : n + k \in 1..(n + m) /\ ~(n + k <= n) /\ (n + k) - n = k
    OBVIOUS
  <1>6. \A k \in 1..m : (one \o two)[n + k] = two[k]
    BY <1>3, <1>5
  <1>7. \A i \in 1..(n + m) : i \in 1..n \/ \E k \in 1..m : i = n + k
    <2> SUFFICES ASSUME NEW i \in 1..(n + m), ~(i \in 1..n) PROVE \E k \in 1..m : i = n + k
      OBVIOUS
    <2>1. i - n \in 1..m /\ i = n + (i - n)
      OBVIOUS
    <2> QED BY <2>1
  <1> QED BY <1>2, <1>4, <1>6, <1>7

\* What a frame may fill, and what of that would take on the other side.
FillChoice(S, crossed, frame) ==
  /\ S \in SUBSET {i \in ActiveOrders(orders) : orders[i].created_stamp < frame}
  /\ crossed \in SUBSET (S \intersect Entries(orders))

ExitsDone(S) == {orders[x].parent : x \in S \ Entries(orders)}
FillOne(i, S, frame) ==
  IF i \in S THEN FilledOrder(orders[i], now + 1, frame)
  ELSE IF i \in ExitsDone(S) THEN CompletedEntry(orders[i], now + 1, frame)
  ELSE orders[i]
ExitMade(i, crossed, frame) ==
  NewOrder(orders[i].level, i, i \in crossed, now + 1, frame, orders[i].cycle)

LifeTypeOK == now \in Nat /\ stamp \in Nat /\ stamp <= now

FrameIs(frame) == frame \in Nat /\ stamp <= frame /\ frame <= now + 1

LEMMA FillOneStands ==
  ASSUME LifeTypeOK, BookStands(orders, now, stamp, now), NEW frame, FrameIs(frame), NEW S,
         NEW crossed, FillChoice(S, crossed, frame), NEW i \in DOMAIN orders
  PROVE  LET p == FillOne(i, S, frame)
         IN  /\ p \in OrderRow /\ SameOrder(p, orders[i]) /\ Standing(p, now + 1, frame, now)
             /\ i \in S => p.sequence = FilledFromRest /\ orders[i].sequence = AtRest
             /\ i \in ExitsDone(S) =>
                   i \notin S /\ p.sequence = CompletedFromRest /\ orders[i].sequence = FilledFromRest
             /\ i \notin S /\ i \notin ExitsDone(S) => p = orders[i]
  <1> DEFINE p == FillOne(i, S, frame)
  <1>1. orders \in Seq(OrderRow) /\ ParentsStand(orders)
        /\ \A j \in DOMAIN orders : Standing(orders[j], now, stamp, now)
    BY DEF BookStands
  <1>2. \A j \in DOMAIN orders : orders[j] \in OrderRow
    BY <1>1, ActiveAre
  <1>3. \A j \in S : j \in DOMAIN orders /\ orders[j].sequence = AtRest /\ orders[j].created_stamp < frame
    BY <1>1, ActiveAre DEF FillChoice
  <1>4. now \in Nat /\ stamp \in Nat /\ frame \in Nat /\ stamp <= frame
    BY DEF LifeTypeOK, FrameIs
  <1>5. CASE i \in S
    <2>1. p = FilledOrder(orders[i], now + 1, frame)
      BY <1>5 DEF FillOne
    <2>2. i \notin ExitsDone(S)
      <3>1. SUFFICES ASSUME NEW x \in S \ Entries(orders), orders[x].parent = i PROVE FALSE
        BY DEF ExitsDone
      <3>2. x \in DOMAIN orders /\ orders[x].is_exit
        BY <1>3 DEF Entries
      <3>3. orders[i].sequence \in {FilledFromRest, CompletedFromRest}
        BY <1>1, <3>1, <3>2 DEF ParentsStand
      <3> QED BY <1>3, <1>5, <3>3, CoursesDiffer
    <2> HIDE DEF p
    <2>3. /\ p \in OrderRow /\ SameOrder(p, orders[i]) /\ p.sequence = FilledFromRest
          /\ Standing(p, now + 1, frame, now)
      BY <1>1, <1>2, <1>3, <1>4, <1>5, <2>1, FillStands
    <2> QED BY <1>3, <1>5, <2>2, <2>3 DEF p
  <1>6. CASE i \notin S /\ i \in ExitsDone(S)
    <2>1. p = CompletedEntry(orders[i], now + 1, frame)
      BY <1>6 DEF FillOne
    <2>2. PICK x \in S \ Entries(orders) : orders[x].parent = i
      BY <1>6 DEF ExitsDone
    <2>3. x \in DOMAIN orders /\ orders[x].is_exit /\ orders[x].sequence = AtRest
      BY <1>3 DEF Entries
    <2>4. /\ orders[i].sequence = FilledFromRest /\ ~orders[i].is_exit
          /\ orders[i].created_stamp <= orders[x].created_stamp
      BY <1>1, <2>2, <2>3 DEF ParentsStand
    <2>5. orders[i].created_stamp < frame
      <3>1. orders[i].created_stamp \in Nat /\ orders[x].created_stamp \in Nat
        BY <1>2, <2>3 DEF OrderRow
      <3> QED BY <1>3, <1>4, <2>2, <2>4, <3>1
    <2> HIDE DEF p
    <2>6. /\ p \in OrderRow /\ SameOrder(p, orders[i]) /\ p.sequence = CompletedFromRest
          /\ Standing(p, now + 1, frame, now)
      BY <1>1, <1>2, <1>4, <2>1, <2>4, <2>5, CompletionStands
    <2> QED BY <1>6, <2>4, <2>6 DEF p
  <1>7. CASE i \notin S /\ i \notin ExitsDone(S)
    <2>1. p = orders[i]
      BY <1>7 DEF FillOne
    <2>2. Standing(p, now + 1, frame, now)
      <3>1. now + 1 \in Nat /\ now <= now + 1
        BY <1>4
      <3>2. Standing(orders[i], now, stamp, now) /\ orders[i] \in OrderRow
        BY <1>1, <1>2
      <3> HIDE DEF p
      <3>3. Standing(orders[i], now + 1, frame, now)
        BY <1>4, <3>1, <3>2, StandsOn
      <3> QED BY <2>1, <3>3
    <2> QED BY <1>2, <1>7, <2>1, <2>2 DEF SameOrder
  <1> QED BY <1>5, <1>6, <1>7

LEMMA ExitMadeStands ==
  ASSUME LifeTypeOK, BookStands(orders, now, stamp, now), NEW frame, FrameIs(frame), NEW S,
         NEW crossed, FillChoice(S, crossed, frame), NEW i \in S \intersect Entries(orders)
  PROVE  LET o == ExitMade(i, crossed, frame)
         IN  /\ o \in OrderRow /\ o.is_exit /\ o.parent = i /\ o.created_stamp = frame
             /\ o.sequence = (IF i \in crossed THEN NeverRested ELSE AtRest)
             /\ Standing(o, now + 1, frame, now)
  <1> DEFINE o == ExitMade(i, crossed, frame)
             time == now + 1
             q == i \in crossed
             level == orders[i].level
             cycle == orders[i].cycle
  <1>1. orders \in Seq(OrderRow) /\ i \in DOMAIN orders /\ Standing(orders[i], now, stamp, now)
    BY DEF BookStands, Entries
  <1>2. orders[i] \in OrderRow /\ i \in 1..Len(orders) /\ Len(orders) \in Nat
    BY <1>1, ActiveAre
  <1>3. now \in Nat /\ frame \in Nat /\ frame <= time /\ time \in Nat \ {0}
    BY DEF LifeTypeOK, FrameIs
  <1>4. level \in PlanLevels /\ cycle \in 1..time /\ i \in Nat \ {0} /\ q \in BOOLEAN
    <2>1. level \in PlanLevels /\ cycle \in Nat /\ orders[i].created \in Nat
      BY <1>2 DEF OrderRow
    <2>2. 1 <= cycle /\ cycle <= orders[i].created /\ orders[i].created <= now
      BY <1>1 DEF Standing
    <2> QED BY <1>2, <1>3, <2>1, <2>2
  <1>5. o = NewOrder(level, i, q, time, frame, cycle)
    BY DEF ExitMade
  <1> HIDE DEF time, q, level, cycle, o
  <1>6. LET r == NewOrder(level, i, q, time, frame, cycle)
        IN  /\ r \in OrderRow /\ r.is_exit /\ r.parent = i /\ r.created_stamp = frame
            /\ r.sequence = (IF q THEN NeverRested ELSE AtRest)
            /\ r.reason # "FILLED"
            /\ Standing(r, time, frame, now)
    BY <1>3, <1>4, ExitStands
  <1> QED BY <1>5, <1>6 DEF o, time, q

\* The book after a frame, and what changes of it.
FilledWell(book, S, crossed, frame) ==
  /\ BookStands(book, now + 1, frame, now)
  /\ Entries(book) = Entries(orders)
  /\ EntriesResting(book) = EntriesResting(orders) \ S
  /\ Cardinality(ActiveOrders(book))
       = Cardinality(ActiveOrders(orders)) - Cardinality(S)
           + Cardinality((S \intersect Entries(orders)) \ crossed)

LEMMA FilledBook ==
  ASSUME LifeTypeOK, BookStands(orders, now, stamp, now), NEW frame, FrameIs(frame), NEW S,
         NEW crossed, FillChoice(S, crossed, frame)
  PROVE  FilledWell(Filled(S, crossed, now + 1, frame), S, crossed, frame)
  <1> DEFINE n == Len(orders)
             I == S \intersect Entries(orders)
             E == InOrder(I)
             m == Cardinality(I)
             one == [i \in 1..n |-> FillOne(i, S, frame)]
             two == [k \in 1..m |-> ExitMade(E[k], crossed, frame)]
             book == one \o two
  <1>1. /\ orders \in Seq(OrderRow) /\ ParentsStand(orders)
        /\ n \in Nat /\ DOMAIN orders = 1..n
        /\ \A i \in 1..n : orders[i] \in OrderRow /\ orders[i].sequence \in Courses
        /\ ActiveOrders(orders) = {i \in 1..n : orders[i].sequence = AtRest}
    BY ActiveAre DEF BookStands
  <1>2. S \in SUBSET (1..n) /\ I \in SUBSET (1..n) /\ crossed \in SUBSET I /\ I \in SUBSET S
    BY <1>1 DEF FillChoice
  <1>3. /\ m \in Nat /\ E \in [1..m -> I] /\ DOMAIN E = 1..m
        /\ \A k, l \in 1..m : k < l <=> E[k] < E[l]
        /\ \A i \in I : \E k \in 1..m : E[k] = i
    <2> HIDE DEF I, n
    <2>1. Keeps(InOrder(I), I) /\ Cardinality(I) \in Nat /\ DOMAIN InOrder(I) = 1..Cardinality(I)
      BY <1>1, <1>2, InOrderIs
    <2> QED BY <2>1 DEF Keeps
  <1>4. Filled(S, crossed, now + 1, frame) = book
    <2>1. Filled(S, crossed, now + 1, frame)
            = [i \in DOMAIN orders |->
                 IF i \in S THEN FilledOrder(orders[i], now + 1, frame)
                 ELSE IF i \in ExitsDone(S) THEN CompletedEntry(orders[i], now + 1, frame)
                 ELSE orders[i]]
              \o [k \in DOMAIN E |-> ExitMade(E[k], crossed, frame)]
      BY DEF Filled, ExitsDone, ExitMade
    <2>2. [i \in DOMAIN orders |->
                 IF i \in S THEN FilledOrder(orders[i], now + 1, frame)
                 ELSE IF i \in ExitsDone(S) THEN CompletedEntry(orders[i], now + 1, frame)
                 ELSE orders[i]] = one
      BY <1>1 DEF FillOne
    <2>3. [k \in DOMAIN E |-> ExitMade(E[k], crossed, frame)] = two
      BY <1>3
    <2> QED BY <2>1, <2>2, <2>3
  <1>5. \A k \in 1..m : E[k] \in I /\ E[k] \in 1..n
    BY <1>2, <1>3
  <1>6. \A i \in 1..n : LET p == one[i] IN
          /\ p \in OrderRow /\ SameOrder(p, orders[i]) /\ Standing(p, now + 1, frame, now)
          /\ i \in S => p.sequence = FilledFromRest /\ orders[i].sequence = AtRest
          /\ i \in ExitsDone(S) =>
                i \notin S /\ p.sequence = CompletedFromRest /\ orders[i].sequence = FilledFromRest
          /\ i \notin S /\ i \notin ExitsDone(S) => p = orders[i]
    <2> TAKE i \in 1..n
    <2>1. one[i] = FillOne(i, S, frame) /\ i \in DOMAIN orders
      BY <1>1
    <2> HIDE DEF one, I, n
    <2> QED BY <2>1, FillOneStands
  <1>7. \A k \in 1..m : LET o == two[k] IN
          /\ o \in OrderRow /\ o.is_exit /\ o.parent = E[k] /\ o.created_stamp = frame
          /\ o.sequence = (IF E[k] \in crossed THEN NeverRested ELSE AtRest)
          /\ Standing(o, now + 1, frame, now)
    <2> TAKE k \in 1..m
    <2>1. two[k] = ExitMade(E[k], crossed, frame) /\ E[k] \in S \intersect Entries(orders)
      BY <1>5
    <2> HIDE DEF two, I, n, E, m
    <2> QED BY <2>1, ExitMadeStands
  <1>8. /\ book \in Seq(OrderRow) /\ Len(book) = n + m
        /\ \A i \in 1..n : book[i] = one[i]
        /\ \A k \in 1..m : book[n + k] = two[k]
        /\ \A i \in 1..(n + m) : i \in 1..n \/ \E k \in 1..m : i = n + k
    <2>1. one \in [1..n -> OrderRow] /\ two \in [1..m -> OrderRow]
      BY <1>6, <1>7
    <2> HIDE DEF one, two, n, m
    <2> QED BY <1>1, <1>3, <2>1, BooksJoin
  <1> HIDE DEF one, two, book, E
  <1>9. DOMAIN book = 1..(n + m)
    BY <1>8
  <1> HIDE DEF n, m
  <1>10. ParentsStand(book)
    <2>1. \A x \in 1..n : book[x].is_exit =>
            /\ x \notin I /\ orders[x].is_exit /\ book[x].parent = orders[x].parent
            /\ orders[x].parent \in 1..n /\ orders[x].parent \notin S
            /\ ~orders[orders[x].parent].is_exit
            /\ orders[orders[x].parent].sequence \in {FilledFromRest, CompletedFromRest}
            /\ orders[orders[x].parent].created_stamp <= orders[x].created_stamp
            /\ orders[x].sequence = AtRest => orders[orders[x].parent].sequence = FilledFromRest
      <3> SUFFICES ASSUME NEW x \in 1..n, book[x].is_exit
                   PROVE /\ x \notin I /\ orders[x].is_exit /\ book[x].parent = orders[x].parent
                         /\ orders[x].parent \in 1..n /\ orders[x].parent \notin S
                         /\ ~orders[orders[x].parent].is_exit
                         /\ orders[orders[x].parent].sequence \in {FilledFromRest, CompletedFromRest}
                         /\ orders[orders[x].parent].created_stamp <= orders[x].created_stamp
                         /\ orders[x].sequence = AtRest =>
                               orders[orders[x].parent].sequence = FilledFromRest
        OBVIOUS
      <3>1. orders[x].is_exit /\ book[x].parent = orders[x].parent
        BY <1>6, <1>8 DEF SameOrder
      <3>2. x \notin I
        BY <1>1, <3>1 DEF Entries
      <3>3. /\ orders[x].parent \in 1..n
            /\ ~orders[orders[x].parent].is_exit
            /\ orders[orders[x].parent].sequence \in {FilledFromRest, CompletedFromRest}
            /\ orders[orders[x].parent].created_stamp <= orders[x].created_stamp
            /\ orders[x].sequence = AtRest => orders[orders[x].parent].sequence = FilledFromRest
        BY <1>1, <3>1 DEF ParentsStand
      <3>4. orders[x].parent \notin S
        BY <1>6, <3>3, CoursesDiffer
      <3> QED BY <3>1, <3>2, <3>3, <3>4
    <2>2. \A i \in 1..n : orders[i].sequence \in {FilledFromRest, CompletedFromRest} =>
             book[i].sequence \in {FilledFromRest, CompletedFromRest}
      BY <1>6, <1>8, CoursesDiffer
    <2>3. ASSUME NEW x \in 1..n, book[x].is_exit
          PROVE  /\ book[x].parent \in DOMAIN book /\ ~book[book[x].parent].is_exit
                 /\ book[book[x].parent].sequence \in {FilledFromRest, CompletedFromRest}
                 /\ book[book[x].parent].created_stamp <= book[x].created_stamp
                 /\ book[x].sequence = AtRest => book[book[x].parent].sequence = FilledFromRest
      <3> DEFINE i == orders[x].parent
      <3>1. i \in 1..n /\ book[x].parent = i /\ i \in DOMAIN book /\ i \notin S
        BY <1>1, <1>3, <1>9, <2>1, <2>3
      <3>2. ~book[i].is_exit /\ book[i].created_stamp = orders[i].created_stamp
        BY <1>6, <1>8, <2>1, <2>3, <3>1 DEF SameOrder
      <3>3. book[x].created_stamp = orders[x].created_stamp
        BY <1>6, <1>8 DEF SameOrder
      <3>4. book[i].sequence \in {FilledFromRest, CompletedFromRest}
        BY <2>1, <2>2, <2>3, <3>1
      <3>5. ASSUME book[x].sequence = AtRest PROVE book[i].sequence = FilledFromRest
        <4>1. x \notin S /\ x \notin ExitsDone(S)
          BY <1>6, <1>8, <3>5, CoursesDiffer
        <4>2. orders[x].sequence = AtRest
          BY <1>6, <1>8, <3>5, <4>1
        <4>3. orders[i].sequence = FilledFromRest
          BY <2>1, <2>3, <4>2
        <4>4. i \notin ExitsDone(S)
          <5> SUFFICES ASSUME NEW y \in S \ Entries(orders), orders[y].parent = i PROVE FALSE
            BY DEF ExitsDone
          <5>1. y \in 1..n /\ orders[y].is_exit
            BY <1>1, <1>2 DEF Entries
          <5>2. x = y
            BY <1>1, <2>1, <2>3, <5>1 DEF ParentsStand
          <5> QED BY <4>1, <5>2
        <4> QED BY <1>6, <1>8, <3>1, <4>3, <4>4
      <3> HIDE DEF i
      <3> QED BY <2>1, <2>3, <3>1, <3>2, <3>3, <3>4, <3>5 DEF i
    <2>4. ASSUME NEW k \in 1..m
          PROVE  LET x == n + k IN
                 /\ book[x].parent = E[k]
                 /\ book[x].parent \in DOMAIN book /\ ~book[book[x].parent].is_exit
                 /\ book[book[x].parent].sequence = FilledFromRest
                 /\ book[book[x].parent].created_stamp <= book[x].created_stamp
      <3>1. book[n + k].parent = E[k] /\ E[k] \in I /\ E[k] \in 1..n /\ E[k] \in S
            /\ book[n + k].created_stamp = frame
        BY <1>2, <1>5, <1>7, <1>8
      <3>2. E[k] \in DOMAIN book
        BY <1>1, <1>3, <1>9, <3>1
      <3>3. ~orders[E[k]].is_exit
        BY <3>1 DEF Entries
      <3>4. ~book[E[k]].is_exit /\ book[E[k]].created_stamp = orders[E[k]].created_stamp
        BY <1>6, <1>8, <3>1, <3>3 DEF SameOrder
      <3>5. book[E[k]].sequence = FilledFromRest
        BY <1>6, <1>8, <3>1
      <3>6. orders[E[k]].created_stamp < frame
        BY <3>1 DEF FillChoice
      <3>7. orders[E[k]].created_stamp \in Nat /\ frame \in Nat
        BY <1>1, <3>1 DEF OrderRow, FrameIs
      <3> QED BY <3>1, <3>2, <3>4, <3>5, <3>6, <3>7
    <2>5. \A x \in DOMAIN book : book[x].is_exit =>
                 /\ book[x].parent \in DOMAIN book /\ ~book[book[x].parent].is_exit
                 /\ book[book[x].parent].sequence \in {FilledFromRest, CompletedFromRest}
                 /\ book[book[x].parent].created_stamp <= book[x].created_stamp
                 /\ book[x].sequence = AtRest => book[book[x].parent].sequence = FilledFromRest
      BY <1>8, <1>9, <2>3, <2>4
    <2>6. \A x, y \in 1..n :
            book[x].is_exit /\ book[y].is_exit /\ book[x].parent = book[y].parent => x = y
      BY <1>1, <2>1 DEF ParentsStand
    <2>7. \A x \in 1..n, k \in 1..m : book[x].is_exit => book[x].parent # book[n + k].parent
      <3>1. \A k \in 1..m : book[n + k].parent \in S
        BY <1>2, <1>5, <2>4
      <3> QED BY <2>1, <3>1
    <2>8. \A k, l \in 1..m : book[n + k].parent = book[n + l].parent => k = l
      <3> SUFFICES ASSUME NEW k \in 1..m, NEW l \in 1..m, E[k] = E[l], k # l PROVE FALSE
        BY <2>4
      <3>1. E[k] \in Nat
        BY <1>1, <1>5
      <3>2. k < l \/ l < k
        BY <1>3
      <3> QED BY <1>3, <3>1, <3>2
    <2>9. \A x, y \in DOMAIN book :
            book[x].is_exit /\ book[y].is_exit /\ book[x].parent = book[y].parent => x = y
      BY <1>8, <1>9, <2>6, <2>7, <2>8
    <2> QED BY <2>5, <2>9 DEF ParentsStand
  <1>11. BookStands(book, now + 1, frame, now)
    BY <1>6, <1>7, <1>8, <1>9, <1>10 DEF BookStands
  <1>12. Entries(book) = Entries(orders)
    <2>1. \A i \in 1..n : i \in Entries(book) <=> i \in Entries(orders)
      <3>1. \A i \in 1..n : book[i].is_exit = orders[i].is_exit
        BY <1>6, <1>8 DEF SameOrder
      <3>2. \A i \in 1..n : i \in DOMAIN book /\ i \in DOMAIN orders
        BY <1>1, <1>3, <1>9
      <3> QED BY <3>1, <3>2 DEF Entries
    <2>2. \A k \in 1..m : n + k \notin Entries(book)
      BY <1>7, <1>8 DEF Entries
    <2>3. Entries(book) \subseteq 1..n
      BY <1>8, <1>9, <2>2 DEF Entries
    <2>4. Entries(orders) \subseteq 1..n
      BY <1>1 DEF Entries
    <2> QED BY <2>1, <2>3, <2>4
  <1>13. ActiveOrders(book) = {i \in DOMAIN book : book[i].sequence = AtRest}
    BY <1>8, ActiveAre
  <1>14. \A i \in 1..n : i \in ActiveOrders(book) <=> i \in ActiveOrders(orders) /\ i \notin S
    <2> SUFFICES ASSUME NEW i \in 1..n
                 PROVE  i \in ActiveOrders(book) <=> i \in ActiveOrders(orders) /\ i \notin S
      OBVIOUS
    <2>1. i \in DOMAIN book /\ book[i] = one[i]
      BY <1>1, <1>3, <1>8, <1>9
    <2>2. i \in ActiveOrders(orders) <=> orders[i].sequence = AtRest
      BY <1>1
    <2>3. i \in ActiveOrders(book) <=> one[i].sequence = AtRest
      BY <1>13, <2>1
    <2>4. i \in S => one[i].sequence # AtRest
      BY <1>6, CoursesDiffer
    <2>5. i \in ExitsDone(S) => one[i].sequence # AtRest /\ orders[i].sequence # AtRest
      BY <1>6, CoursesDiffer
    <2>6. i \notin S /\ i \notin ExitsDone(S) => one[i] = orders[i]
      BY <1>6
    <2> QED BY <2>2, <2>3, <2>4, <2>5, <2>6
  <1>15. EntriesResting(book) = EntriesResting(orders) \ S
    <2>1. Entries(orders) \subseteq 1..n
      BY <1>1 DEF Entries
    <2> QED BY <1>12, <1>14, <2>1 DEF EntriesResting
  <1>16. Cardinality(ActiveOrders(book))
           = Cardinality(ActiveOrders(orders)) - Cardinality(S) + Cardinality(I \ crossed)
    <2> DEFINE A == ActiveOrders(book)
               O == ActiveOrders(orders)
               B == A \intersect (1..n)
               C == A \ (1..n)
               K == OfAKind(E, m, I \ crossed)
               f == [k \in K |-> n + k]
    <2>1. A \in SUBSET (1..(n + m)) /\ O \in SUBSET (1..n) /\ S \in SUBSET O
      BY <1>1, <1>9, <1>13 DEF FillChoice
    <2>2. B = O \ S
      BY <1>14, <2>1
    <2>3. \A k \in 1..m : n + k \in A <=> E[k] \notin crossed
      BY <1>1, <1>3, <1>7, <1>8, <1>9, <1>13, CoursesDiffer
    <2>4. \A k \in 1..m : n + k \notin 1..n
      BY <1>1
    <2>5. f \in [K -> C] /\ \A y \in C : \E k \in K : f[k] = y
      <3>1. \A k \in K : k \in 1..m /\ E[k] \notin crossed
        BY DEF OfAKind
      <3>2. \A k \in K : n + k \in C
        BY <2>3, <2>4, <3>1
      <3>3. \A y \in C : \E k \in 1..m : y = n + k
        BY <1>8, <2>1
      <3>4. \A k \in 1..m : n + k \in C => k \in K
        BY <1>5, <2>3 DEF OfAKind
      <3> HIDE DEF C, K, A
      <3>5. f \in [K -> C]
        BY <3>2
      <3>6. \A y \in C : \E k \in K : f[k] = y
        BY <3>3, <3>4
      <3> QED BY <3>5, <3>6
    <2>6. K \in SUBSET (1..m)
      BY DEF OfAKind
    <2>7. \A k, l \in K : f[k] = f[l] => k = l
      BY <1>1, <1>3, <2>6
    <2>8. Cardinality(K) = Cardinality(I \ crossed)
      <3>1. Keeps(E, I)
        <4> HIDE DEF I
        <4> QED BY <1>1, <1>2, InOrderIs DEF E, m, n
      <3>2. I \ crossed \in SUBSET I
        OBVIOUS
      <3>3. I \in SUBSET (1..n) /\ n \in Nat
        BY <1>1, <1>2
      <3> HIDE DEF I, K
      <3>4. Cardinality(OfAKind(E, Cardinality(I), I \ crossed)) = Cardinality(I \ crossed)
        BY <3>1, <3>2, <3>3, KeptOfAKind
      <3> QED BY <3>4 DEF K, m
    <2>9. IsFiniteSet(A) /\ IsFiniteSet(O) /\ IsFiniteSet(K)
      <3>1. n + m \in Nat
        BY <1>1, <1>3
      <3> HIDE DEF A, O, K
      <3> QED BY <1>1, <1>3, <2>1, <2>6, <3>1, PlacesAreFinite
    <2> HIDE DEF f, K
    <2>10. Cardinality(C) = Cardinality(K)
      <3> HIDE DEF C, A
      <3> QED BY <2>5, <2>7, <2>9, Onto
    <2>11. Cardinality(O) = Cardinality(S) + Cardinality(O \ S)
           /\ Cardinality(S) \in Nat /\ Cardinality(O \ S) \in Nat
      <3> HIDE DEF O
      <3> QED BY <2>1, <2>9, TheRest
    <2>12. Cardinality(A) = Cardinality(B) + Cardinality(A \ B)
           /\ Cardinality(A \ B) \in Nat /\ Cardinality(B) \in Nat
      <3>1. B \in SUBSET A
        OBVIOUS
      <3> HIDE DEF A, B
      <3> QED BY <2>9, <3>1, TheRest
    <2>13. A \ B = C
      OBVIOUS
    <2>14. Cardinality(A) = Cardinality(O \ S) + Cardinality(I \ crossed)
      <3> HIDE DEF A, B, C, O, I
      <3> QED BY <2>2, <2>8, <2>10, <2>12, <2>13
    <2>15. Cardinality(I \ crossed) \in Nat
      <3> HIDE DEF A, B, C, O, I
      <3> QED BY <2>8, <2>10, <2>12, <2>13
    <2> DEFINE a == Cardinality(A)
               b == Cardinality(O)
               c == Cardinality(S)
               d == Cardinality(O \ S)
               e == Cardinality(I \ crossed)
    <2>16. b = c + d /\ a = d + e /\ c \in Nat /\ d \in Nat /\ e \in Nat
      BY <2>11, <2>14, <2>15
    <2>17. a = b - c + e
      <3> HIDE DEF a, b, c, d, e
      <3> QED BY <2>16
    <2> QED BY <2>17
  <1>17. FilledWell(book, S, crossed, frame)
    BY <1>11, <1>12, <1>15, <1>16 DEF FilledWell
  <1> QED BY <1>4, <1>17

-----------------------------------------------------------------------------
(* What a cycle stops and creates *)

\* A set of places to which some of those that are appended are added.
LEMMA GrownWith ==
  ASSUME NEW n \in Nat, NEW m \in Nat, NEW A \in SUBSET (1..(n + m)), NEW I \in SUBSET (1..m),
         \A k \in 1..m : n + k \in A <=> k \in I
  PROVE  /\ Cardinality(A) = Cardinality(A \intersect (1..n)) + Cardinality(I)
         /\ Cardinality(A \intersect (1..n)) \in Nat /\ Cardinality(I) \in Nat
  <1> DEFINE B == A \intersect (1..n)
             C == A \ B
             f == [k \in I |-> n + k]
  <1>1. IsFiniteSet(A)
    <2>1. n + m \in Nat
      OBVIOUS
    <2> QED BY <2>1, PlacesAreFinite
  <1>2. Cardinality(A) = Cardinality(B) + Cardinality(C) /\ Cardinality(B) \in Nat
    <2>1. B \in SUBSET A
      OBVIOUS
    <2> HIDE DEF B
    <2> QED BY <1>1, <2>1, TheRest
  <1>3. \A k \in I : n + k \in C
    OBVIOUS
  <1>4. \A y \in C : \E k \in I : n + k = y
    <2> SUFFICES ASSUME NEW y \in C PROVE \E k \in I : n + k = y
      OBVIOUS
    <2>1. y \in 1..(n + m) /\ ~(y \in 1..n) /\ y \in A
      OBVIOUS
    <2>2. y - n \in 1..m /\ n + (y - n) = y
      BY <2>1
    <2>3. y - n \in I
      BY <2>1, <2>2
    <2> QED BY <2>2, <2>3
  <1> HIDE DEF C, B
  <1>5. f \in [I -> C] /\ (\A y \in C : \E k \in I : f[k] = y)
    BY <1>3, <1>4
  <1>6. \A k, l \in I : f[k] = f[l] => k = l
    OBVIOUS
  <1>7. IsFiniteSet(I) /\ Cardinality(I) \in Nat
    BY PlacesAreFinite
  <1> HIDE DEF f
  <1>8. Cardinality(C) = Cardinality(I)
    BY <1>5, <1>6, <1>7, Onto
  <1> QED BY <1>2, <1>7, <1>8 DEF B

\* And one to which all of them are.
LEMMA GrownBy ==
  ASSUME NEW n \in Nat, NEW m \in Nat, NEW A \in SUBSET (1..(n + m)),
         \A k \in 1..m : n + k \in A
  PROVE  /\ Cardinality(A) = Cardinality(A \intersect (1..n)) + m
         /\ Cardinality(A \intersect (1..n)) \in Nat
  <1> DEFINE I == 1..m
  <1>1. I \in SUBSET (1..m) /\ \A k \in 1..m : n + k \in A <=> k \in I
    OBVIOUS
  <1>2. Cardinality(I) = m
    BY CountedTo
  <1> HIDE DEF I
  <1> QED BY <1>1, <1>2, GrownWith

LEMMA LevelsAre ==
  PlanLevels \in SUBSET (1..(BuyLevels + SellLevels)) /\ BuyLevels + SellLevels \in Nat
  <1>1. BuyLevels \in Nat /\ SellLevels \in Nat
    BY LifecycleAssumption
  <1>2. BuyLevels + SellLevels \in Nat
    BY <1>1
  <1> QED BY <1>2 DEF PlanLevels

LEMMA WhyStopped ==
  ASSUME NEW why \in StopReasons \union {"pause", "kill switch"}
  PROVE  CancelReason(why) \in ReasonsTold \ {"FILLED"}
  <1>1. why \in {"level no longer desired", "cannot be quantized", "crossing, young", "crossing",
                 "maximum age", "plan change", "pause", "kill switch"}
    BY LifecycleAssumption
  <1>2. CancelReason(why) \in {"MANUAL_STOP", "PLAN_LEVEL_REMOVED", "MIN_LIFETIME_SAFETY_OVERRIDE",
                               "WOULD_CROSS_MARKET", "MAX_AGE", "PRICE_DEVIATION"}
    BY <1>1 DEF CancelReason
  <1> QED BY <1>2 DEF ReasonsTold

ReconciledOne(book, d, i, frame) ==
  LET seen == SeenIn(book[i], now + 1, frame)
  IN  IF i \in StopsOf(book, d) THEN Cancel(seen, d[seen.level], now + 1, now + 1, frame) ELSE seen

LEMMA ReconciledOneStands ==
  ASSUME LifeTypeOK, NEW frame, FrameIs(frame), NEW book, BookStands(book, now + 1, frame, now),
         NEW d, NEW i \in DOMAIN book
  PROVE  LET p == ReconciledOne(book, d, i, frame)
         IN  /\ p \in OrderRow /\ SameOrder(p, book[i]) /\ Standing(p, now + 1, frame, now + 1)
             /\ p.reason = "FILLED" <=> book[i].reason = "FILLED"
             /\ i \in StopsOf(book, d) =>
                   book[i].sequence = AtRest /\ p.sequence = CancelledFromRest
             /\ i \notin StopsOf(book, d) => p.sequence = book[i].sequence
  <1> DEFINE seen == SeenIn(book[i], now + 1, frame)
             p == ReconciledOne(book, d, i, frame)
  <1>1. /\ now \in Nat /\ frame \in Nat
        /\ book \in Seq(OrderRow) /\ book[i] \in OrderRow /\ Standing(book[i], now + 1, frame, now)
        /\ ActiveOrders(book) = {j \in DOMAIN book : book[j].sequence = AtRest}
    BY ActiveAre DEF BookStands, LifeTypeOK, FrameIs
  <1>2. /\ seen \in OrderRow /\ SameOrder(seen, book[i]) /\ seen.sequence = book[i].sequence
        /\ seen.reason = book[i].reason /\ Standing(seen, now + 1, frame, now + 1)
    BY <1>1, AnnotationStands
  <1> HIDE DEF seen
  <1>3. CASE i \in StopsOf(book, d)
    <2> DEFINE why == d[seen.level]
    <2>1. /\ i \in ActiveOrders(book) /\ i \in Entries(book)
          /\ d[book[i].level] \in StopReasons \union {"pause", "kill switch"}
      BY <1>3 DEF StopsOf, EntriesResting
    <2>2. why \in StopReasons \union {"pause", "kill switch"}
      BY <1>2, <2>1 DEF SameOrder
    <2>3. p = Cancel(seen, why, now + 1, now + 1, frame)
      BY <1>3 DEF ReconciledOne, seen
    <2>4. book[i].sequence = AtRest /\ ~book[i].is_exit
      BY <1>1, <2>1 DEF Entries
    <2>5. EntryStands(book[i], now)
      BY <1>1, <2>4 DEF Standing
    <2>6. seen.created <= now /\ seen.sequence = AtRest
      BY <1>2, <2>4, <2>5 DEF EntryStands, SameOrder
    <2> HIDE DEF why, p
    <2>7. CancelReason(why) \in ReasonsTold \ {"FILLED"}
      BY <2>2, WhyStopped
    <2>8. /\ p \in OrderRow /\ SameOrder(p, seen) /\ p.sequence = CancelledFromRest
          /\ p.reason # "FILLED" /\ Standing(p, now + 1, frame, now + 1)
      BY <1>1, <1>2, <2>3, <2>6, <2>7, CancelStands
    <2>9. book[i].reason # "FILLED"
      BY <1>1, <2>4, ReasonsAre DEF Standing, EndStands
    <2>10. SameOrder(p, book[i])
      BY <1>2, <2>8 DEF SameOrder
    <2> QED BY <1>3, <2>4, <2>8, <2>9, <2>10 DEF p
  <1>4. CASE i \notin StopsOf(book, d)
    <2>1. p = seen
      BY <1>4 DEF ReconciledOne, seen
    <2> HIDE DEF p
    <2> QED BY <1>2, <1>4, <2>1 DEF p
  <1> QED BY <1>3, <1>4

\* The book after a cycle, and what changes of it.
ReconciledWell(after, book, d, frame) ==
  /\ BookStands(after, now + 1, frame, now + 1)
  /\ Cardinality(Entries(after)) = Cardinality(Entries(book)) + Cardinality(Creates(d))
  /\ Cardinality(ActiveOrders(after))
       = Cardinality(ActiveOrders(book)) - Cardinality(StopsOf(book, d)) + Cardinality(Creates(d))
  /\ Pending(after) = Pending(book) - Cardinality(StopsOf(book, d)) + Cardinality(Creates(d))
  /\ Position(after) = Position(book)
  /\ IsFiniteSet(StopsOf(book, d)) /\ IsFiniteSet(Creates(d))
  /\ Pending(book) \in Nat /\ Pending(after) \in Nat /\ Position(book) \in Int

LEMMA ReconciledBook ==
  ASSUME LifeTypeOK, NEW frame, FrameIs(frame), NEW book, BookStands(book, now + 1, frame, now),
         NEW d
  PROVE  ReconciledWell(Reconciled(book, d, now + 1, frame), book, d, frame)
  <1> DEFINE n == Len(book)
             I == Creates(d)
             E == InOrder(I)
             m == Cardinality(I)
             T == StopsOf(book, d)
             one == [i \in 1..n |-> ReconciledOne(book, d, i, frame)]
             two == [k \in 1..m |-> NewOrder(E[k], 0, FALSE, now + 1, frame, now + 1)]
             after == one \o two
  <1>1. /\ book \in Seq(OrderRow) /\ ParentsStand(book)
        /\ n \in Nat /\ DOMAIN book = 1..n
        /\ \A i \in 1..n : book[i] \in OrderRow /\ book[i].sequence \in Courses
        /\ ActiveOrders(book) = {i \in 1..n : book[i].sequence = AtRest}
    BY ActiveAre DEF BookStands
  <1>2. I \in SUBSET PlanLevels /\ T \in SUBSET EntriesResting(book)
    BY DEF Creates, StopsOf
  <1>3. /\ m \in Nat /\ E \in [1..m -> I] /\ DOMAIN E = 1..m /\ IsFiniteSet(I)
        /\ \A k \in 1..m : E[k] \in PlanLevels
    <2> DEFINE l == BuyLevels + SellLevels
    <2>1. I \in SUBSET (1..l) /\ l \in Nat
      BY <1>2, LevelsAre
    <2> HIDE DEF I, l
    <2>2. Keeps(InOrder(I), I) /\ Cardinality(I) \in Nat /\ DOMAIN InOrder(I) = 1..Cardinality(I)
          /\ IsFiniteSet(I)
      BY <2>1, InOrderIs
    <2> QED BY <1>2, <2>2 DEF Keeps
  <1>4. Reconciled(book, d, now + 1, frame) = after
    <2> DEFINE seen == Annotated(book, now + 1, frame)
    <2>1. Reconciled(book, d, now + 1, frame)
            = [i \in DOMAIN book |->
                 IF i \in T THEN Cancel(seen[i], d[seen[i].level], now + 1, now + 1, frame)
                 ELSE seen[i]]
              \o [k \in DOMAIN E |-> NewOrder(E[k], 0, FALSE, now + 1, frame, now + 1)]
      BY DEF Reconciled
    <2>2. \A i \in DOMAIN book : seen[i] = SeenIn(book[i], now + 1, frame)
      BY DEF Annotated, SeenIn
    <2> HIDE DEF seen
    <2>3. \A i \in DOMAIN book :
            (IF i \in T THEN Cancel(seen[i], d[seen[i].level], now + 1, now + 1, frame)
             ELSE seen[i]) = ReconciledOne(book, d, i, frame)
      BY <2>2 DEF ReconciledOne
    <2>4. [i \in DOMAIN book |->
             IF i \in T THEN Cancel(seen[i], d[seen[i].level], now + 1, now + 1, frame)
             ELSE seen[i]] = one
      BY <1>1, <2>3
    <2>5. [k \in DOMAIN E |-> NewOrder(E[k], 0, FALSE, now + 1, frame, now + 1)] = two
      BY <1>3
    <2> QED BY <2>1, <2>4, <2>5
  <1>5. now \in Nat /\ frame \in Nat /\ frame <= now + 1
    BY DEF LifeTypeOK, FrameIs
  <1>6. \A i \in 1..n : LET p == one[i] IN
          /\ p \in OrderRow /\ SameOrder(p, book[i]) /\ Standing(p, now + 1, frame, now + 1)
          /\ p.reason = "FILLED" <=> book[i].reason = "FILLED"
          /\ i \in T => book[i].sequence = AtRest /\ p.sequence = CancelledFromRest
          /\ i \notin T => p.sequence = book[i].sequence
    <2> TAKE i \in 1..n
    <2>1. one[i] = ReconciledOne(book, d, i, frame) /\ i \in DOMAIN book
      BY <1>1
    <2> HIDE DEF one, n
    <2> QED BY <2>1, ReconciledOneStands
  <1>7. \A k \in 1..m : LET o == two[k] IN
          /\ o \in OrderRow /\ ~o.is_exit /\ o.sequence = AtRest /\ o.reason # "FILLED"
          /\ Standing(o, now + 1, frame, now + 1)
    <2> TAKE k \in 1..m
    <2> DEFINE time == now + 1
    <2>1. two[k] = NewOrder(E[k], 0, FALSE, time, frame, time) /\ E[k] \in PlanLevels
      BY <1>3
    <2>2. time \in Nat \ {0} /\ frame <= time
      BY <1>5
    <2> HIDE DEF two, E, m, time
    <2>3. LET o == NewOrder(E[k], 0, FALSE, time, frame, time)
          IN  /\ o \in OrderRow /\ ~o.is_exit /\ o.sequence = AtRest /\ o.reason # "FILLED"
              /\ Standing(o, time, frame, time)
      BY <1>5, <2>1, <2>2, EntryIsNew
    <2> QED BY <2>1, <2>3 DEF time
  <1>8. /\ after \in Seq(OrderRow) /\ Len(after) = n + m
        /\ \A i \in 1..n : after[i] = one[i]
        /\ \A k \in 1..m : after[n + k] = two[k]
        /\ \A i \in 1..(n + m) : i \in 1..n \/ \E k \in 1..m : i = n + k
    <2>1. one \in [1..n -> OrderRow] /\ two \in [1..m -> OrderRow]
      BY <1>6, <1>7
    <2> HIDE DEF one, two, n, m
    <2> QED BY <1>1, <1>3, <2>1, BooksJoin
  <1> HIDE DEF one, two, after, E
  <1>9. DOMAIN after = 1..(n + m)
    BY <1>8
  <1> HIDE DEF n, m, T, I
  <1>10. /\ \A i \in 1..n : i \in DOMAIN after /\ SameOrder(after[i], book[i])
         /\ \A i \in 1..n : after[i].sequence = AtRest <=> book[i].sequence = AtRest /\ i \notin T
         /\ \A i \in 1..n : book[i].sequence # AtRest => after[i].sequence = book[i].sequence
         /\ \A i \in 1..n : after[i].reason = "FILLED" <=> book[i].reason = "FILLED"
         /\ \A k \in 1..m : /\ n + k \in DOMAIN after /\ ~after[n + k].is_exit
                            /\ after[n + k].sequence = AtRest /\ after[n + k].reason # "FILLED"
    <2>1. \A i \in 1..n : i \in DOMAIN after /\ after[i] = one[i]
      BY <1>1, <1>3, <1>8, <1>9
    <2>2. \A k \in 1..m : n + k \in DOMAIN after /\ after[n + k] = two[k]
      BY <1>1, <1>3, <1>8, <1>9
    <2> QED BY <1>6, <1>7, <2>1, <2>2, CoursesDiffer
  <1>11. ParentsStand(after)
    <2>1. \A x \in DOMAIN after : after[x].is_exit => x \in 1..n /\ book[x].is_exit
      BY <1>8, <1>9, <1>10 DEF SameOrder
    <2>2. ASSUME NEW x \in DOMAIN after, after[x].is_exit
          PROVE  /\ after[x].parent \in DOMAIN after /\ ~after[after[x].parent].is_exit
                 /\ after[after[x].parent].sequence \in {FilledFromRest, CompletedFromRest}
                 /\ after[after[x].parent].created_stamp <= after[x].created_stamp
                 /\ after[x].sequence = AtRest => after[after[x].parent].sequence = FilledFromRest
      <3>1. x \in 1..n /\ book[x].is_exit
        BY <2>1, <2>2
      <3> DEFINE i == book[x].parent
      <3>2. /\ i \in 1..n /\ ~book[i].is_exit /\ book[i].created_stamp <= book[x].created_stamp
            /\ book[i].sequence \in {FilledFromRest, CompletedFromRest}
            /\ book[x].sequence = AtRest => book[i].sequence = FilledFromRest
        BY <1>1, <3>1 DEF ParentsStand
      <3>3. after[x].parent = i /\ after[x].created_stamp = book[x].created_stamp
        BY <1>10, <3>1 DEF SameOrder
      <3> HIDE DEF i
      <3>4. ~after[i].is_exit /\ after[i].created_stamp = book[i].created_stamp /\ i \in DOMAIN after
        BY <1>10, <3>2 DEF SameOrder
      <3>5. after[i].sequence = book[i].sequence
        BY <1>10, <3>2, CoursesDiffer
      <3>6. after[x].sequence = AtRest => book[x].sequence = AtRest
        BY <1>10, <3>1
      <3> QED BY <3>2, <3>3, <3>4, <3>5, <3>6
    <2>3. \A x, y \in DOMAIN after :
            after[x].is_exit /\ after[y].is_exit /\ after[x].parent = after[y].parent => x = y
      <3>1. \A x \in DOMAIN after : after[x].is_exit => after[x].parent = book[x].parent
        BY <1>10, <2>1 DEF SameOrder
      <3> QED BY <1>1, <2>1, <3>1 DEF ParentsStand
    <2> QED BY <2>2, <2>3 DEF ParentsStand
  <1>12. BookStands(after, now + 1, frame, now + 1)
    BY <1>6, <1>7, <1>8, <1>9, <1>11 DEF BookStands
  <1>13. Cardinality(Entries(after)) = Cardinality(Entries(book)) + m
    <2> DEFINE A == Entries(after)
    <2>1. A \in SUBSET (1..(n + m)) /\ \A k \in 1..m : n + k \in A
      BY <1>9, <1>10 DEF Entries
    <2>2. A \intersect (1..n) = Entries(book)
      BY <1>1, <1>10 DEF Entries, SameOrder
    <2> HIDE DEF A
    <2>3. Cardinality(A) = Cardinality(A \intersect (1..n)) + m
      BY <1>1, <1>3, <2>1, GrownBy
    <2> QED BY <2>2, <2>3 DEF A
  <1>14. ActiveOrders(after) = {i \in DOMAIN after : after[i].sequence = AtRest}
    BY <1>8, ActiveAre
  <1>15. IsFiniteSet(ActiveOrders(book)) /\ IsFiniteSet(EntriesResting(book)) /\ IsFiniteSet(T)
         /\ T \in SUBSET ActiveOrders(book)
    <2>1. ActiveOrders(book) \in SUBSET (1..n)
      BY <1>1
    <2>2. EntriesResting(book) \in SUBSET (1..n) /\ T \in SUBSET (1..n) /\ T \in SUBSET ActiveOrders(book)
      BY <1>2, <2>1 DEF EntriesResting
    <2> QED BY <1>1, <2>1, <2>2, PlacesAreFinite
  <1>16. Cardinality(ActiveOrders(after))
           = Cardinality(ActiveOrders(book)) - Cardinality(T) + m
    <2> DEFINE A == ActiveOrders(after)
               B == ActiveOrders(book)
    <2>1. A \in SUBSET (1..(n + m)) /\ \A k \in 1..m : n + k \in A
      BY <1>9, <1>10, <1>14
    <2>2. A \intersect (1..n) = B \ T
      BY <1>1, <1>10, <1>14
    <2> HIDE DEF A, B
    <2>3. Cardinality(A) = Cardinality(A \intersect (1..n)) + m
      BY <1>1, <1>3, <2>1, GrownBy
    <2>4. Cardinality(B) = Cardinality(T) + Cardinality(B \ T)
          /\ Cardinality(T) \in Nat /\ Cardinality(B \ T) \in Nat
      BY <1>15, TheRest DEF B
    <2> DEFINE a == Cardinality(A)
               b == Cardinality(B)
               c == Cardinality(T)
               e == Cardinality(B \ T)
    <2>5. a = e + m /\ b = c + e /\ c \in Nat /\ e \in Nat
      BY <2>2, <2>3, <2>4
    <2>6. a = b - c + m
      <3> HIDE DEF a, b, c, e
      <3> QED BY <1>3, <2>5
    <2> QED BY <2>6 DEF A, B
  <1>17. /\ Pending(after) = Pending(book) - Cardinality(T) + m
         /\ Pending(book) \in Nat /\ Pending(after) \in Nat
    <2> DEFINE A == EntriesResting(after)
               B == EntriesResting(book)
    <2>1. A \in SUBSET (1..(n + m)) /\ \A k \in 1..m : n + k \in A
      BY <1>9, <1>10, <1>14 DEF EntriesResting, Entries
    <2>2. A \intersect (1..n) = B \ T
      BY <1>1, <1>10, <1>14 DEF EntriesResting, Entries, SameOrder
    <2>3. T \in SUBSET B
      BY <1>2
    <2> HIDE DEF A, B
    <2>4. Cardinality(A) = Cardinality(A \intersect (1..n)) + m
      BY <1>1, <1>3, <2>1, GrownBy
    <2>5. Cardinality(B) = Cardinality(T) + Cardinality(B \ T)
          /\ Cardinality(T) \in Nat /\ Cardinality(B \ T) \in Nat
      BY <1>15, <2>3, TheRest DEF B
    <2> DEFINE a == Cardinality(A)
               b == Cardinality(B)
               c == Cardinality(T)
               e == Cardinality(B \ T)
    <2>6. a = e + m /\ b = c + e /\ c \in Nat /\ e \in Nat
      BY <2>2, <2>4, <2>5
    <2>7. a = b - c + m /\ a \in Nat /\ b \in Nat
      <3> HIDE DEF a, b, c, e
      <3> QED BY <1>3, <2>6
    <2> QED BY <2>7 DEF A, B, Pending
  <1>18. Position(after) = Position(book) /\ Position(book) \in Int
    <2> DEFINE Done(of) == {i \in DOMAIN of : of[i].reason = "FILLED"}
               B(of) == {i \in Done(of) : IsBuy(of[i])}
               S(of) == {i \in Done(of) : ~IsBuy(of[i])}
    <2>1. Done(after) = Done(book)
      BY <1>1, <1>8, <1>9, <1>10
    <2>2. Done(book) \subseteq 1..n
      BY <1>1
    <2>3. \A i \in 1..n : IsBuy(after[i]) <=> IsBuy(book[i])
      BY <1>10 DEF IsBuy, SameOrder
    <2> HIDE DEF Done
    <2>4. B(after) = B(book) /\ S(after) = S(book)
      BY <2>1, <2>2, <2>3
    <2>5. B(book) \in SUBSET (1..n) /\ S(book) \in SUBSET (1..n)
      BY <2>2
    <2>6. \A of : Position(of) = Cardinality(B(of)) - Cardinality(S(of))
      BY DEF Position, Done
    <2> HIDE DEF B, S
    <2>7. Cardinality(B(book)) \in Nat /\ Cardinality(S(book)) \in Nat
      BY <1>1, <2>5, PlacesAreFinite
    <2>8. Position(after) = Position(book)
      BY <2>4, <2>6
    <2> QED BY <2>6, <2>7, <2>8
  <1>19. ReconciledWell(after, book, d, frame)
    BY <1>3, <1>12, <1>13, <1>15, <1>16, <1>17, <1>18 DEF ReconciledWell, T, m, I
  <1> QED BY <1>4, <1>19

\* The end of the session leaves nothing at rest.
LEMMA StoppedBook ==
  ASSUME LifeTypeOK, BookStands(orders, now, stamp, now), NEW end \in {now, now + 1}
  PROVE  LET book == [i \in DOMAIN orders |->
                        IF i \in ActiveOrders(orders) THEN Cancel(orders[i], "shutdown", 0, end, end)
                        ELSE orders[i]]
         IN  /\ BookStands(book, now, stamp, now)
             /\ Entries(book) = Entries(orders) /\ ActiveOrders(book) = {}
  <1> DEFINE n == Len(orders)
             p(i) == IF i \in ActiveOrders(orders) THEN Cancel(orders[i], "shutdown", 0, end, end)
                     ELSE orders[i]
             book == [i \in DOMAIN orders |-> p(i)]
  <1>1. /\ orders \in Seq(OrderRow) /\ ParentsStand(orders)
        /\ n \in Nat /\ DOMAIN orders = 1..n
        /\ \A i \in 1..n : /\ orders[i] \in OrderRow /\ orders[i].sequence \in Courses
                           /\ Standing(orders[i], now, stamp, now)
        /\ ActiveOrders(orders) = {i \in 1..n : orders[i].sequence = AtRest}
    BY ActiveAre DEF BookStands
  <1>2. now \in Nat /\ stamp \in Nat
    BY DEF LifeTypeOK
  <1>3. \A i \in 1..n :
          /\ p(i) \in OrderRow /\ SameOrder(p(i), orders[i]) /\ Standing(p(i), now, stamp, now)
          /\ orders[i].sequence = AtRest => p(i).sequence = CancelledFromRest
          /\ orders[i].sequence # AtRest => p(i).sequence = orders[i].sequence
    <2> TAKE i \in 1..n
    <2>1. CASE i \in ActiveOrders(orders)
      <3>1. p(i) = Cancel(orders[i], "shutdown", 0, end, end) /\ orders[i].sequence = AtRest
        BY <1>1, <2>1
      <3>2. LET q == Cancel(orders[i], "shutdown", 0, end, end)
            IN  /\ q \in OrderRow /\ SameOrder(q, orders[i]) /\ q.sequence = CancelledFromRest
                /\ q.reason # "FILLED" /\ Standing(q, now, stamp, now)
        BY <1>1, <1>2, <3>1, ShutdownStands
      <3> HIDE DEF p
      <3> QED BY <3>1, <3>2
    <2>2. CASE i \notin ActiveOrders(orders)
      <3>1. p(i) = orders[i]
        BY <2>2
      <3>2. orders[i].sequence # AtRest
        BY <1>1, <2>2
      <3> HIDE DEF p
      <3> QED BY <1>1, <3>1, <3>2 DEF SameOrder
    <2> QED BY <2>1, <2>2
  <1>4. /\ DOMAIN book = 1..n
        /\ \A i \in 1..n : book[i] = p(i)
    BY <1>1
  <1>5. book \in Seq(OrderRow)
    <2>1. book = [i \in 1..n |-> p(i)]
      BY <1>1
    <2> HIDE DEF p, n, book
    <2> QED BY <1>1, <1>3, <2>1
  <1> HIDE DEF p, book, n
  <1>6. \A i \in 1..n : SameOrder(book[i], orders[i]) /\ book[i].sequence # AtRest
    BY <1>3, <1>4, CoursesDiffer
  <1>7. \A i \in 1..n : orders[i].sequence # AtRest => book[i].sequence = orders[i].sequence
    BY <1>3, <1>4
  <1>8. ParentsStand(book)
    <2>1. \A x \in 1..n : book[x].is_exit = orders[x].is_exit /\ book[x].parent = orders[x].parent
                          /\ book[x].created_stamp = orders[x].created_stamp
      BY <1>6 DEF SameOrder
    <2>2. ASSUME NEW x \in 1..n, book[x].is_exit
          PROVE  /\ book[x].parent \in 1..n /\ ~book[book[x].parent].is_exit
                 /\ book[book[x].parent].sequence \in {FilledFromRest, CompletedFromRest}
                 /\ book[book[x].parent].created_stamp <= book[x].created_stamp
      <3> DEFINE i == orders[x].parent
      <3>1. /\ i \in 1..n /\ ~orders[i].is_exit /\ orders[i].created_stamp <= orders[x].created_stamp
            /\ orders[i].sequence \in {FilledFromRest, CompletedFromRest}
        BY <1>1, <2>1, <2>2 DEF ParentsStand
      <3>2. book[x].parent = i
        BY <2>1
      <3> HIDE DEF i
      <3>3. book[i].sequence = orders[i].sequence
        BY <1>7, <3>1, CoursesDiffer
      <3> QED BY <2>1, <3>1, <3>2, <3>3
    <2>3. \A x, y \in 1..n :
            book[x].is_exit /\ book[y].is_exit /\ book[x].parent = book[y].parent => x = y
      BY <1>1, <2>1 DEF ParentsStand
    <2> QED BY <1>4, <1>6, <2>2, <2>3 DEF ParentsStand
  <1>9. BookStands(book, now, stamp, now)
    BY <1>3, <1>4, <1>5, <1>8 DEF BookStands
  <1>10. Entries(book) = Entries(orders)
    BY <1>1, <1>4, <1>6 DEF Entries, SameOrder
  <1>11. ActiveOrders(book) = {}
    BY <1>4, <1>5, <1>6, ActiveAre
  <1> QED BY <1>9, <1>10, <1>11 DEF book, p

-----------------------------------------------------------------------------
(* What is told of the levels *)

IsSequence(s) == \E A : s \in Seq(A)

\* The one of n elements, and then the other of m.
JoinedAs(all, s, n, t, m) ==
  /\ IsSequence(all) /\ n \in Nat /\ m \in Nat
  /\ DOMAIN s = 1..n /\ DOMAIN t = 1..m /\ DOMAIN all = 1..(n + m)
  /\ \A i \in 1..n : all[i] = s[i]
  /\ \A k \in 1..m : all[n + k] = t[k]
  /\ \A i \in 1..(n + m) : i \in 1..n \/ \E k \in 1..m : i = n + k

LEMMA SequencesJoin ==
  ASSUME NEW s, IsSequence(s), NEW t, IsSequence(t)
  PROVE  JoinedAs(s \o t, s, Len(s), t, Len(t))
  <1>1. PICK A : s \in Seq(A)
    BY DEF IsSequence
  <1>2. PICK B : t \in Seq(B)
    BY DEF IsSequence
  <1> DEFINE C == A \union B
             n == Len(s)
             m == Len(t)
  <1>3. s \in Seq(C) /\ t \in Seq(C)
    BY <1>1, <1>2
  <1>4. n \in Nat /\ m \in Nat /\ DOMAIN s = 1..n /\ DOMAIN t = 1..m
    BY <1>3, LenProperties
  <1> HIDE DEF C
  <1>5. s \o t \in Seq(C) /\ Len(s \o t) = n + m
    BY <1>3, ConcatProperties
  <1>6. \A i \in 1..(n + m) : (s \o t)[i] = IF i <= n THEN s[i] ELSE t[i - n]
    BY <1>3, ConcatProperties
  <1>7. DOMAIN (s \o t) = 1..(n + m)
    BY <1>5, LenProperties
  <1> HIDE DEF n, m
  <1>8. \A k \in 1..m : n + k \in 1..(n + m) /\ ~(n + k <= n) /\ (n + k) - n = k
    BY <1>4
  <1>9. \A i \in 1..n : i \in 1..(n + m) /\ i <= n
    BY <1>4
  <1>10. \A i \in 1..n : (s \o t)[i] = s[i]
    BY <1>6, <1>9
  <1>11. \A k \in 1..m : (s \o t)[n + k] = t[k]
    BY <1>6, <1>8
  <1>12. \A i \in 1..(n + m) : i \in 1..n \/ \E k \in 1..m : i = n + k
    <2> SUFFICES ASSUME NEW i \in 1..(n + m), ~(i \in 1..n) PROVE \E k \in 1..m : i = n + k
      OBVIOUS
    <2>1. i - n \in 1..m /\ i = n + (i - n)
      BY <1>4
    <2> QED BY <2>1
  <1>13. IsSequence(s \o t)
    BY <1>5 DEF IsSequence
  <1> QED BY <1>4, <1>7, <1>10, <1>11, <1>12, <1>13 DEF n, m, JoinedAs

Blockers == {"PORTFOLIO_RISK_BLOCK", "MIN_SIZE", "MAKER_SAFETY",
             "EXECUTION_ENABLED", "SIGNAL_ONLY", "SIGNAL_ONLY_MIN_SIZE"}

\* An order is made where one is created, and what is blocked says why.
RowStands(row) ==
  /\ row.instantiated <=> row.action = "CREATE_DECISION"
  /\ row.action = "BLOCKED" => row.block \in Blockers

VerdictsTold ==
  {"create", "none", "keep", "paused", "pause", "kill switch"} \union Blocks \union Statuses
     \union StopReasons

LEMMA RowStandsAs ==
  ASSUME NEW book, NEW level, NEW verdict \in VerdictsTold, NEW id
  PROVE  /\ RowStands(EligibilityRow(book, level, verdict, id))
         /\ EligibilityRow(book, level, verdict, id).instantiated <=> verdict = "create"
  <1> DEFINE row == EligibilityRow(book, level, verdict, id)
             Pauses == {"paused", "pause", "kill switch"}
             Barred == Blocks \union Statuses \union {"cannot be quantized"}
  <1>1. /\ Blocks \subseteq {"PORTFOLIO_RISK_BLOCK", "MIN_SIZE", "MAKER_SAFETY"}
        /\ Statuses \subseteq {"EXECUTION_ENABLED", "SIGNAL_ONLY", "SIGNAL_ONLY_MIN_SIZE"}
        /\ StopReasons \subseteq {"level no longer desired", "cannot be quantized",
                                  "crossing, young", "crossing", "maximum age", "plan change"}
    BY LifecycleAssumption
  <1>2. row.instantiated <=> verdict = "create"
    BY DEF EligibilityRow
  <1>3. row.action = CASE verdict \in Pauses -> "PAUSE_SUPPRESSED"
                       [] verdict \in Barred -> "BLOCKED"
                       [] verdict = "create" -> "CREATE_DECISION"
                       [] verdict = "keep" -> "KEEP"
                       [] verdict \in StopReasons /\ ~(verdict \in Barred) -> "STOP"
                       [] verdict = "none" -> "NOT_DESIRED"
    BY DEF EligibilityRow
  <1>4. row.block = IF verdict = "cannot be quantized" THEN "MIN_SIZE"
                    ELSE IF verdict \in Barred THEN verdict ELSE NoReason
    BY DEF EligibilityRow
  <1> HIDE DEF row
  <1>5. CASE verdict \in Pauses
    <2>1. row.action = "PAUSE_SUPPRESSED" /\ verdict # "create"
      BY <1>1, <1>3, <1>5
    <2> QED BY <1>2, <2>1 DEF RowStands, row
  <1>6. CASE verdict \in Barred
    <2>1. row.action = "BLOCKED" /\ verdict # "create"
      BY <1>1, <1>3, <1>6
    <2>2. row.block \in Blockers
      BY <1>1, <1>4, <1>6 DEF Blockers
    <2> QED BY <1>2, <2>1, <2>2 DEF RowStands, row
  <1>7. CASE verdict = "create"
    <2>1. row.action = "CREATE_DECISION"
      BY <1>1, <1>3, <1>7
    <2> QED BY <1>2, <1>7, <2>1 DEF RowStands, row
  <1>8. CASE verdict = "keep" \/ verdict = "none"
    <2>1. row.action \in {"KEEP", "NOT_DESIRED"}
      BY <1>1, <1>3, <1>8
    <2> QED BY <1>2, <1>8, <2>1 DEF RowStands, row
  <1>9. CASE verdict \in StopReasons /\ verdict \notin Barred
    <2>1. row.action = "STOP" /\ verdict # "create"
      BY <1>1, <1>3, <1>9
    <2> QED BY <1>2, <2>1 DEF RowStands, row
  <1> QED BY <1>5, <1>6, <1>7, <1>8, <1>9 DEF VerdictsTold

LEMMA DecisionsAre ==
  ASSUME status \in Statuses, NEW book, NEW d \in Decisions(book)
  PROVE  \A l \in PlanLevels : d[l] \in VerdictsTold
  <1> DEFINE paused(why) == [l \in PlanLevels |->
                               IF AtLevel(book, l) \in EntriesResting(book) THEN why ELSE "paused"]
  <1>1. \A l \in PlanLevels : Verdicts(book, l) \subseteq VerdictsTold
    BY DEF Verdicts, VerdictsTold
  <1>2. \/ \A l \in PlanLevels : d[l] \in Verdicts(book, l)
        \/ d = paused("pause") \/ d = paused("kill switch")
    BY DEF Decisions
  <1>3. ASSUME NEW why \in {"pause", "kill switch"}, d = paused(why)
        PROVE  \A l \in PlanLevels : d[l] \in VerdictsTold
    <2>1. \A l \in PlanLevels : d[l] = why \/ d[l] = "paused"
      BY <1>3
    <2> QED BY <2>1 DEF VerdictsTold
  <1> HIDE DEF paused
  <1> QED BY <1>1, <1>2, <1>3

Instantiated(rows) == {k \in DOMAIN rows : rows[k].instantiated}

RowsStand(rows) == IsSequence(rows) /\ \A k \in DOMAIN rows : RowStands(rows[k])

LEMMA RowsOfACycle ==
  ASSUME NEW rows, RowsStand(rows), NEW told, IsSequence(told),
         DOMAIN told = PlanLevels, NEW I \in SUBSET PlanLevels,
         \A l \in PlanLevels : RowStands(told[l]) /\ (told[l].instantiated <=> l \in I)
  PROVE  /\ RowsStand(rows \o told)
         /\ Cardinality(Instantiated(rows \o told))
              = Cardinality(Instantiated(rows)) + Cardinality(I)
  <1> DEFINE n == Len(rows)
             m == Len(told)
             all == rows \o told
             A == Instantiated(all)
  <1>1. /\ IsSequence(all) /\ n \in Nat /\ m \in Nat
        /\ DOMAIN rows = 1..n /\ DOMAIN told = 1..m /\ DOMAIN all = 1..(n + m)
        /\ \A i \in 1..n : all[i] = rows[i]
        /\ \A k \in 1..m : all[n + k] = told[k]
        /\ \A i \in 1..(n + m) : i \in 1..n \/ \E k \in 1..m : i = n + k
    <2>1. IsSequence(rows)
      BY DEF RowsStand
    <2>2. JoinedAs(all, rows, n, told, m)
      BY <2>1, SequencesJoin
    <2> HIDE DEF n, m, all
    <2> QED BY <2>2 DEF JoinedAs
  <1> HIDE DEF n, m, all
  <1>2. \A k \in DOMAIN all : RowStands(all[k])
    <2>1. \A i \in 1..n : RowStands(rows[i])
      BY <1>1 DEF RowsStand
    <2>2. \A k \in 1..m : RowStands(told[k])
      BY <1>1
    <2>3. \A i \in 1..n : RowStands(all[i])
      BY <1>1, <2>1
    <2>4. \A k \in 1..m : RowStands(all[n + k])
      BY <1>1, <2>2
    <2> QED BY <1>1, <2>3, <2>4
  <1>3. A \in SUBSET (1..(n + m)) /\ I \in SUBSET (1..m)
    BY <1>1 DEF Instantiated
  <1>4. \A k \in 1..m : n + k \in A <=> k \in I
    <2>1. \A k \in 1..m : n + k \in 1..(n + m)
      BY <1>1
    <2> QED BY <1>1, <2>1 DEF Instantiated
  <1>5. A \intersect (1..n) = Instantiated(rows)
    <2>1. \A i \in 1..n : i \in 1..(n + m)
      BY <1>1
    <2> QED BY <1>1, <2>1 DEF Instantiated
  <1> HIDE DEF A
  <1>6. Cardinality(A) = Cardinality(A \intersect (1..n)) + Cardinality(I)
    BY <1>1, <1>3, <1>4, GrownWith
  <1> QED BY <1>1, <1>2, <1>5, <1>6 DEF A, all, RowsStand

-----------------------------------------------------------------------------
(* What is told of the reservations *)

ReservationRow == [at : Nat, gross : Int, filled : Int, before : Nat, after : Nat]

\* Where less is pending than the time before.
Falls(rows) == {k \in 2..Len(rows) : rows[k].after < rows[k - 1].after}

LEMMA OppositeSigns ==
  ASSUME NEW a \in Int, NEW b \in Int, a * b < 0
  PROVE  a < 0 \/ (a > 0 /\ b < 0)
  <1>1. CASE a = 0
    BY <1>1
  <1>2. CASE a > 0 /\ b >= 0
    <2>1. b \in Nat /\ 0 <= a
      BY <1>2
    <2>2. 0 * b <= a * b
      BY <2>1, TimesMonotone
    <2> QED BY <2>1, <2>2
  <1> QED BY <1>1, <1>2

\* What is pending turns round where it falls, or where it rises after a fall, and
\* no two rises are the first after the same.
LEMMA OscillationsFollowFalls ==
  ASSUME reservations \in Seq(ReservationRow)
  PROVE  /\ Cardinality(Falls(reservations)) \in Nat
         /\ Cardinality({k \in DOMAIN reservations : PendingOscillates(k)})
              <= 2 * Cardinality(Falls(reservations))
  <1> DEFINE n == Len(reservations)
             Moved(j) == reservations[j].after - reservations[j - 1].after
             Moves(k) == {j \in 2..(k - 1) : Moved(j) # 0}
             O == {k \in DOMAIN reservations : PendingOscillates(k)}
             F == Falls(reservations)
             A == {k \in O : Moved(k) < 0}
             B == O \ A
             g == [k \in B |-> Max(Moves(k))]
  <1>1. /\ n \in Nat /\ DOMAIN reservations = 1..n
        /\ \A k \in 1..n : reservations[k].after \in Nat
    <2>1. n \in Nat /\ DOMAIN reservations = 1..n
      BY LenProperties
    <2>2. \A k \in 1..n : reservations[k] \in ReservationRow
      BY <2>1, ElementOfSeq
    <2> QED BY <2>1, <2>2 DEF ReservationRow
  <1>2. \A k \in 2..n : Moved(k) \in Int
    BY <1>1
  <1>3. \A k \in 2..n : k \in F <=> Moved(k) < 0
    BY <1>1 DEF Falls
  <1>4. F \in SUBSET (1..n) /\ O \in SUBSET (1..n)
    BY <1>1 DEF Falls
  <1>5. /\ \A k \in O : k > 2 /\ Moves(k) # {}
        /\ \A k \in O : Moved(k) * Moved(Max(Moves(k))) < 0
    BY DEF PendingOscillates
  <1> HIDE DEF O, F
  <1>6. \A k \in O : /\ k \in 2..n /\ Max(Moves(k)) \in 2..(k - 1) /\ Moved(Max(Moves(k))) # 0
                     /\ \A j \in 2..(k - 1) : Moved(j) # 0 => j <= Max(Moves(k))
    <2> SUFFICES ASSUME NEW k \in O
                 PROVE  /\ k \in 2..n /\ Max(Moves(k)) \in 2..(k - 1)
                        /\ Moved(Max(Moves(k))) # 0
                        /\ \A j \in 2..(k - 1) : Moved(j) # 0 => j <= Max(Moves(k))
      OBVIOUS
    <2> DEFINE M == Moves(k)
    <2>1. k \in 2..n /\ M # {}
      <3>1. k \in 1..n /\ k > 2 /\ M # {}
        BY <1>4, <1>5
      <3> HIDE DEF M, n, Moved
      <3> QED BY <1>1, <3>1
    <2>2. M \in SUBSET (1..n) /\ M # {}
      <3>1. M \in SUBSET (2..(k - 1))
        OBVIOUS
      <3> HIDE DEF M, n, Moved
      <3> QED BY <1>1, <2>1, <3>1
    <2>3. Max(M) \in M /\ \A x \in M : x <= Max(M)
      <3> HIDE DEF M, n
      <3> QED BY <1>1, <2>2, GreatestIs
    <2>4. \A j : j \in M <=> j \in 2..(k - 1) /\ Moved(j) # 0
      OBVIOUS
    <2> HIDE DEF M, Moved
    <2> QED BY <2>1, <2>3, <2>4 DEF M
  <1> HIDE DEF Moved, Moves, n
  <1>7. \A k \in B : Moved(k) > 0 /\ Max(Moves(k)) \in F
    <2> SUFFICES ASSUME NEW k \in B PROVE Moved(k) > 0 /\ Max(Moves(k)) \in F
      OBVIOUS
    <2> DEFINE p == Max(Moves(k))
               a == Moved(k)
               b == Moved(p)
    <2>1. k \in O /\ ~(a < 0)
      OBVIOUS
    <2>2. k \in 2..n /\ p \in 2..(k - 1)
      BY <1>6, <2>1
    <2>3. p \in 2..n
      BY <1>1, <2>2
    <2>4. a \in Int /\ b \in Int /\ a * b < 0
      BY <1>2, <1>5, <2>1, <2>2, <2>3
    <2> HIDE DEF a, b
    <2>5. a > 0 /\ b < 0
      BY <2>1, <2>4, OppositeSigns
    <2> QED BY <1>3, <2>3, <2>5 DEF a, b
  <1>8. \A k, l \in B : Max(Moves(k)) = Max(Moves(l)) => ~(k < l)
    <2> SUFFICES ASSUME NEW k \in B, NEW l \in B, Max(Moves(k)) = Max(Moves(l)), k < l PROVE FALSE
      OBVIOUS
    <2>1. k \in 2..n /\ l \in 2..n /\ k \in O /\ l \in O
      BY <1>6
    <2>2. k \in 2..(l - 1)
      BY <1>1, <2>1
    <2>3. Moved(k) # 0
      BY <1>2, <1>7, <2>1
    <2>4. k <= Max(Moves(l))
      BY <1>6, <2>1, <2>2, <2>3
    <2>5. Max(Moves(k)) \in 2..(k - 1)
      BY <1>6, <2>1
    <2> QED BY <1>1, <2>1, <2>4, <2>5
  <1>9. IsFiniteSet(F) /\ IsFiniteSet(O) /\ Cardinality(F) \in Nat
    BY <1>1, <1>4, PlacesAreFinite
  <1>10. A \in SUBSET F
    <2>1. \A k \in O : k \in 2..n
      BY <1>6
    <2> QED BY <1>3, <2>1
  <1>11. g \in Injection(B, F)
    <2>1. g \in [B -> F]
      BY <1>7
    <2>2. \A k, l \in B : g[k] = g[l] => k = l
      <3> SUFFICES ASSUME NEW k \in B, NEW l \in B, Max(Moves(k)) = Max(Moves(l)), k # l PROVE FALSE
        OBVIOUS
      <3>1. k \in 2..n /\ l \in 2..n
        BY <1>6
      <3>2. k < l \/ l < k
        BY <1>1, <3>1
      <3> QED BY <1>8, <3>2
    <2> HIDE DEF g, B
    <2> QED BY <2>1, <2>2 DEF Injection, IsInjective
  <1> HIDE DEF g
  <1>12. IsFiniteSet(B) /\ Cardinality(B) <= Cardinality(F)
    <2> HIDE DEF B
    <2> QED BY <1>9, <1>11, FS_Injection
  <1>13. Cardinality(A) <= Cardinality(F)
    <2> HIDE DEF A
    <2> QED BY <1>9, <1>10, FS_Subset
  <1>14. Cardinality(O) = Cardinality(A) + Cardinality(B) /\ Cardinality(A) \in Nat /\ Cardinality(B) \in Nat
    <2>1. A \in SUBSET O
      OBVIOUS
    <2> HIDE DEF A
    <2> QED BY <1>9, <2>1, TheRest
  <1> DEFINE o == Cardinality(O)
             a == Cardinality(A)
             b == Cardinality(B)
             f == Cardinality(F)
  <1>15. o = a + b /\ a <= f /\ b <= f /\ a \in Nat /\ b \in Nat /\ f \in Nat
    BY <1>9, <1>12, <1>13, <1>14
  <1>16. o <= 2 * f
    <2> HIDE DEF o, a, b, f
    <2> QED BY <1>15
  <1> QED BY <1>9, <1>16 DEF O, F

LEMMA FallsGrow ==
  ASSUME NEW rows \in Seq(ReservationRow), NEW r \in ReservationRow
  PROVE  /\ Append(rows, r) \in Seq(ReservationRow) /\ Len(Append(rows, r)) = Len(rows) + 1
         /\ Append(rows, r)[Len(rows) + 1] = r
         /\ \A k \in 1..Len(rows) : Append(rows, r)[k] = rows[k]
         /\ Cardinality(Falls(Append(rows, r)))
              = Cardinality(Falls(rows))
                  + IF rows # <<>> /\ r.after < rows[Len(rows)].after THEN 1 ELSE 0
         /\ Cardinality(Falls(rows)) \in Nat
  <1> DEFINE n == Len(rows)
             all == Append(rows, r)
             fallen == rows # <<>> /\ r.after < rows[n].after
             I == IF fallen THEN {1} ELSE {}
             A == Falls(all)
  <1>1. n \in Nat /\ (rows = <<>> <=> n = 0)
    BY LenProperties, EmptySeq
  <1>2. /\ all \in Seq(ReservationRow) /\ Len(all) = n + 1 /\ all[n + 1] = r
        /\ \A k \in 1..n : all[k] = rows[k]
    BY AppendProperties
  <1> HIDE DEF n, all
  <1>3. A = {k \in 2..(n + 1) : all[k].after < all[k - 1].after}
    BY <1>2 DEF Falls
  <1>4. Falls(rows) = {k \in 2..n : rows[k].after < rows[k - 1].after}
    BY DEF Falls, n
  <1>5. A \intersect (1..n) = Falls(rows)
    <2>1. \A k \in 2..n : k \in 1..n /\ k - 1 \in 1..n
      BY <1>1
    <2>2. \A k \in 2..n : all[k] = rows[k] /\ all[k - 1] = rows[k - 1]
      BY <1>2, <2>1
    <2>3. \A k : k \in 2..(n + 1) /\ k \in 1..n <=> k \in 2..n
      BY <1>1
    <2> QED BY <1>3, <1>4, <2>2, <2>3
  <1>6. n + 1 \in A <=> fallen
    <2>1. CASE n = 0
      BY <1>1, <1>3, <2>1
    <2>2. CASE n # 0
      <3>1. n + 1 \in 2..(n + 1) /\ (n + 1) - 1 = n /\ n \in 1..n
        BY <1>1, <2>2
      <3>2. all[(n + 1) - 1] = rows[n]
        BY <1>2, <3>1
      <3> QED BY <1>1, <1>2, <1>3, <2>2, <3>1, <3>2
    <2> QED BY <2>1, <2>2
  <1>7. A \in SUBSET (1..(n + 1))
    BY <1>1, <1>3
  <1> HIDE DEF A, fallen
  <1>8. I \in SUBSET (1..1) /\ \A k \in 1..1 : n + k \in A <=> k \in I
    BY <1>6
  <1>9. Cardinality(I) = IF fallen THEN 1 ELSE 0
    BY FS_EmptySet, FS_Singleton
  <1> HIDE DEF I
  <1>10. Cardinality(A) = Cardinality(A \intersect (1..n)) + Cardinality(I)
         /\ Cardinality(A \intersect (1..n)) \in Nat
    <2>1. 1 \in Nat
      OBVIOUS
    <2> QED BY <1>1, <1>7, <1>8, <2>1, GrownWith
  <1> QED BY <1>2, <1>5, <1>9, <1>10 DEF n, all, A, fallen

-----------------------------------------------------------------------------
(* What is so of a session *)

LifeInv ==
  /\ LifeTypeOK /\ status \in Statuses /\ stopped \in BOOLEAN
  /\ counts \in [create : Nat, reject : Nat, cancel : Nat, fill : Nat]
  /\ BookStands(orders, now, stamp, now)
  /\ RowsStand(eligibility)
  /\ Cardinality(Instantiated(eligibility)) = Cardinality(Entries(orders))
  /\ counts.create - counts.cancel - counts.fill = Cardinality(ActiveOrders(orders))
  /\ reservations \in Seq(ReservationRow)
  /\ \A k \in DOMAIN reservations : GrossReconciles(reservations[k])
  /\ ~stopped /\ reservations # <<>> => reservations[Len(reservations)].after = Pending(orders)
  /\ Cardinality(Falls(reservations)) <= counts.cancel + counts.fill

LEMMA LifeStarts == LifecycleInit => LifeInv
  <1> SUFFICES ASSUME LifecycleInit PROVE LifeInv
    OBVIOUS
  <1>1. /\ status \in Statuses /\ now = 0 /\ stamp = 0 /\ stopped = FALSE
        /\ orders = <<>> /\ eligibility = <<>> /\ reservations = <<>>
        /\ counts = [create |-> 0, reject |-> 0, cancel |-> 0, fill |-> 0]
    BY DEF LifecycleInit
  <1>2. /\ orders \in Seq(OrderRow) /\ eligibility \in Seq({}) /\ reservations \in Seq(ReservationRow)
        /\ DOMAIN orders = {} /\ DOMAIN eligibility = {} /\ DOMAIN reservations = {}
        /\ Len(reservations) = 0
    BY <1>1
  <1>3. LifeTypeOK /\ stopped \in BOOLEAN
    <2>1. now = 0 /\ stamp = 0
      BY <1>1
    <2>2. LifeTypeOK
      BY <2>1 DEF LifeTypeOK
    <2>3. stopped = FALSE
      BY <1>1
    <2> QED BY <2>2, <2>3
  <1>4. counts \in [create : Nat, reject : Nat, cancel : Nat, fill : Nat]
        /\ counts.create = 0 /\ counts.cancel = 0 /\ counts.fill = 0
    BY <1>1
  <1>5. BookStands(orders, now, stamp, now)
    BY <1>2 DEF BookStands, ParentsStand
  <1>6. RowsStand(eligibility)
    BY <1>2 DEF RowsStand, IsSequence
  <1>7. Instantiated(eligibility) = {} /\ Entries(orders) = {} /\ ActiveOrders(orders) = {}
        /\ Falls(reservations) = {}
    BY <1>2 DEF Instantiated, Entries, ActiveOrders, Falls
  <1>8. Cardinality({}) = 0
    BY FS_EmptySet
  <1>9. counts.create - counts.cancel - counts.fill = Cardinality(ActiveOrders(orders))
        /\ Cardinality(Falls(reservations)) <= counts.cancel + counts.fill
    BY <1>4, <1>7, <1>8
  <1> QED BY <1>1, <1>2, <1>3, <1>4, <1>5, <1>6, <1>7, <1>9 DEF LifeInv

LEMMA CycleKeeps ==
  ASSUME LifeInv, ~stopped, NEW frame, FrameIs(frame), NEW S, NEW crossed,
         FillChoice(S, crossed, frame), NEW d \in Decisions(Filled(S, crossed, now + 1, frame)),
         CycleOf(frame, S, crossed, d)
  PROVE  LifeInv'
  <1> DEFINE book == Filled(S, crossed, now + 1, frame)
             after == Reconciled(book, d, now + 1, frame)
             I == Creates(d)
             T == StopsOf(book, d)
             X == (S \intersect Entries(orders)) \ crossed
             row == Reservation(book, after)
  <1>1. /\ LifeTypeOK /\ status \in Statuses /\ stopped \in BOOLEAN
        /\ counts \in [create : Nat, reject : Nat, cancel : Nat, fill : Nat]
        /\ BookStands(orders, now, stamp, now)
        /\ RowsStand(eligibility)
        /\ Cardinality(Instantiated(eligibility)) = Cardinality(Entries(orders))
        /\ counts.create - counts.cancel - counts.fill = Cardinality(ActiveOrders(orders))
        /\ reservations \in Seq(ReservationRow)
        /\ \A k \in DOMAIN reservations : GrossReconciles(reservations[k])
        /\ reservations # <<>> => reservations[Len(reservations)].after = Pending(orders)
        /\ Cardinality(Falls(reservations)) <= counts.cancel + counts.fill
    BY DEF LifeInv
  <1>2. /\ now' = now + 1 /\ stamp' = frame /\ orders' = after
        /\ \E told : /\ eligibility' = eligibility \o told
                     /\ told = [l \in PlanLevels |-> told[l]]
                     /\ \A l \in PlanLevels : \E n : told[l] = EligibilityRow(book, l, d[l], n)
        /\ reservations' = Append(reservations, row)
        /\ counts' = [counts EXCEPT
              !.create = @ + Cardinality(I) + Cardinality(X),
              !.reject = @ + Cardinality(crossed),
              !.cancel = @ + Cardinality(T),
              !.fill = @ + Cardinality(S)]
        /\ status' = status /\ stopped' = stopped
    <2> DEFINE told == [l \in PlanLevels |-> EligibilityRow(book, l, d[l],
                 IF d[l] = "create"
                 THEN CHOOSE i \in DOMAIN after : i > Len(book) /\ after[i].level = l
                 ELSE 0)]
    <2>1. eligibility' = eligibility \o told
      BY DEF CycleOf
    <2>2. \A l \in PlanLevels : \E n : told[l] = EligibilityRow(book, l, d[l], n)
      <3> HIDE DEF book, after
      <3> QED OBVIOUS
    <2>3. told = [l \in PlanLevels |-> told[l]]
      <3> HIDE DEF book, after
      <3> QED OBVIOUS
    <2>4. /\ now' = now + 1 /\ stamp' = frame /\ orders' = after
          /\ reservations' = Append(reservations, row)
          /\ counts' = [counts EXCEPT
                !.create = @ + Cardinality(I) + Cardinality(X),
                !.reject = @ + Cardinality(crossed),
                !.cancel = @ + Cardinality(T),
                !.fill = @ + Cardinality(S)]
          /\ status' = status /\ stopped' = stopped
      BY DEF CycleOf
    <2> HIDE DEF told, book, after, row, I, X, T
    <2> QED BY <2>1, <2>2, <2>3, <2>4
  <1>3. now \in Nat /\ frame \in Nat /\ frame <= now + 1
    BY <1>1 DEF LifeTypeOK, FrameIs
  <1>4. FilledWell(book, S, crossed, frame)
    BY <1>1, FilledBook
  <1> HIDE DEF book
  <1>5. /\ BookStands(book, now + 1, frame, now) /\ Entries(book) = Entries(orders)
        /\ EntriesResting(book) = EntriesResting(orders) \ S
        /\ Cardinality(ActiveOrders(book))
             = Cardinality(ActiveOrders(orders)) - Cardinality(S) + Cardinality(X)
    BY <1>4 DEF FilledWell
  <1>6. ReconciledWell(after, book, d, frame)
    BY <1>1, <1>5, ReconciledBook
  <1> HIDE DEF after
  <1>7. /\ BookStands(after, now + 1, frame, now + 1)
        /\ Cardinality(Entries(after)) = Cardinality(Entries(book)) + Cardinality(I)
        /\ Cardinality(ActiveOrders(after))
             = Cardinality(ActiveOrders(book)) - Cardinality(T) + Cardinality(I)
        /\ Pending(after) = Pending(book) - Cardinality(T) + Cardinality(I)
        /\ Position(after) = Position(book)
        /\ IsFiniteSet(T) /\ IsFiniteSet(I)
        /\ Pending(book) \in Nat /\ Pending(after) \in Nat /\ Position(book) \in Int
    BY <1>6 DEF ReconciledWell
  <1>8. /\ IsFiniteSet(S) /\ IsFiniteSet(crossed) /\ IsFiniteSet(X)
        /\ IsFiniteSet(ActiveOrders(orders)) /\ IsFiniteSet(EntriesResting(orders))
    <2> DEFINE n == Len(orders)
    <2>1. n \in Nat /\ ActiveOrders(orders) \in SUBSET (1..n)
      BY <1>1, ActiveAre DEF BookStands
    <2>2. /\ S \in SUBSET (1..n) /\ crossed \in SUBSET (1..n) /\ X \in SUBSET (1..n)
          /\ EntriesResting(orders) \in SUBSET (1..n)
      BY <2>1 DEF FillChoice, EntriesResting
    <2> HIDE DEF n, X
    <2> QED BY <2>1, <2>2, PlacesAreFinite
  <1> HIDE DEF X, I, T
  <1> DEFINE s == Cardinality(S)
             x == Cardinality(X)
             c == Cardinality(crossed)
             i == Cardinality(I)
             t == Cardinality(T)
             a == Cardinality(ActiveOrders(orders))
  <1>9. s \in Nat /\ x \in Nat /\ c \in Nat /\ i \in Nat /\ t \in Nat /\ a \in Nat
    BY <1>7, <1>8, FS_CardinalityType
  <1>10. Cardinality(ActiveOrders(after)) = a - s + x - t + i
    <2> DEFINE b == Cardinality(ActiveOrders(book))
               e == Cardinality(ActiveOrders(after))
    <2>1. b = a - s + x /\ e = b - t + i
      BY <1>5, <1>7
    <2> HIDE DEF a, s, x, t, i, b, e
    <2>2. e = a - s + x - t + i
      BY <1>9, <2>1
    <2> QED BY <2>2 DEF e
  <1> HIDE DEF s, x, c, i, t, a
  <1>11. /\ counts' \in [create : Nat, reject : Nat, cancel : Nat, fill : Nat]
         /\ counts'.create = counts.create + i + x /\ counts'.cancel = counts.cancel + t
         /\ counts'.fill = counts.fill + s
         /\ counts.create \in Nat /\ counts.cancel \in Nat /\ counts.fill \in Nat
    <2>1. counts' = [counts EXCEPT
              !.create = @ + i + x, !.reject = @ + c, !.cancel = @ + t, !.fill = @ + s]
      BY <1>2 DEF i, x, c, t, s
    <2>2. /\ counts.create \in Nat /\ counts.reject \in Nat /\ counts.cancel \in Nat
          /\ counts.fill \in Nat
          /\ counts = [create |-> counts.create, reject |-> counts.reject,
                       cancel |-> counts.cancel, fill |-> counts.fill]
      BY <1>1
    <2>3. counts' = [create |-> counts.create + i + x, reject |-> counts.reject + c,
                     cancel |-> counts.cancel + t, fill |-> counts.fill + s]
      BY <2>1, <2>2
    <2>4. /\ counts.create + i + x \in Nat /\ counts.reject + c \in Nat
          /\ counts.cancel + t \in Nat /\ counts.fill + s \in Nat
      BY <1>9, <2>2
    <2> QED BY <2>2, <2>3, <2>4
  <1>12. counts'.create - counts'.cancel - counts'.fill = Cardinality(ActiveOrders(after))
    <2>1. counts.create - counts.cancel - counts.fill = a
      BY <1>1 DEF a
    <2> QED BY <1>9, <1>10, <1>11, <2>1
  <1>13. /\ RowsStand(eligibility')
         /\ Cardinality(Instantiated(eligibility')) = Cardinality(Entries(after))
    <2>1. PICK told : /\ eligibility' = eligibility \o told
                      /\ told = [l \in PlanLevels |-> told[l]]
                      /\ \A l \in PlanLevels : \E n : told[l] = EligibilityRow(book, l, d[l], n)
      BY <1>2
    <2> DEFINE m == BuyLevels + SellLevels
    <2>2. PlanLevels = 1..m /\ m \in Nat
      BY LevelsAre DEF PlanLevels
    <2>3. IsSequence(told) /\ DOMAIN told = PlanLevels
      <3> DEFINE R == {told[l] : l \in PlanLevels}
      <3>1. told \in [1..m -> R]
        BY <2>1, <2>2
      <3> HIDE DEF R, m
      <3>2. told \in Seq(R)
        BY <2>2, <3>1
      <3> QED BY <2>1, <3>2 DEF IsSequence
    <2>4. I \in SUBSET PlanLevels /\ \A l \in PlanLevels : l \in I <=> d[l] = "create"
      BY DEF I, Creates
    <2>5. \A l \in PlanLevels : d[l] \in VerdictsTold
      BY <1>1, DecisionsAre
    <2>6. \A l \in PlanLevels : RowStands(told[l]) /\ (told[l].instantiated <=> l \in I)
      <3> TAKE l \in PlanLevels
      <3> DEFINE verdict == d[l]
      <3>1. PICK n : told[l] = EligibilityRow(book, l, verdict, n)
        BY <2>1
      <3>2. verdict \in VerdictsTold
        BY <2>5
      <3> HIDE DEF verdict
      <3>3. /\ RowStands(EligibilityRow(book, l, verdict, n))
            /\ EligibilityRow(book, l, verdict, n).instantiated <=> verdict = "create"
        BY <3>2, RowStandsAs
      <3> QED BY <2>4, <3>1, <3>3 DEF verdict
    <2>7. /\ RowsStand(eligibility \o told)
          /\ Cardinality(Instantiated(eligibility \o told))
               = Cardinality(Instantiated(eligibility)) + Cardinality(I)
      BY <1>1, <2>3, <2>4, <2>6, RowsOfACycle
    <2> QED BY <1>1, <1>5, <1>7, <2>1, <2>7
  <1>14. /\ row \in ReservationRow /\ GrossReconciles(row) /\ row.after = Pending(after)
    <2> DEFINE p == Size(Position(book))
               b == Pending(book)
               e == Pending(after)
    <2>1. p \in Int
      BY <1>7 DEF Size
    <2>2. row = [at |-> now + 1, gross |-> p + b, filled |-> p, before |-> b, after |-> e]
      BY <1>7 DEF Reservation
    <2>3. b \in Nat /\ e \in Nat
      BY <1>7
    <2> HIDE DEF row, p, b, e
    <2>4. row \in ReservationRow
      BY <1>3, <2>1, <2>2, <2>3 DEF ReservationRow
    <2>5. row.gross = p + b /\ row.filled = p /\ row.before = b /\ row.after = e
      BY <2>2
    <2>6. GrossReconciles(row)
      BY <2>1, <2>3, <2>5 DEF GrossReconciles
    <2> QED BY <2>4, <2>5, <2>6 DEF e
  <1> HIDE DEF row
  <1>15. /\ reservations' \in Seq(ReservationRow) /\ Len(reservations') = Len(reservations) + 1
         /\ reservations'[Len(reservations) + 1] = row
         /\ \A k \in 1..Len(reservations) : reservations'[k] = reservations[k]
         /\ Cardinality(Falls(reservations'))
              = Cardinality(Falls(reservations))
                  + IF reservations # <<>> /\ row.after < reservations[Len(reservations)].after
                    THEN 1 ELSE 0
         /\ Cardinality(Falls(reservations)) \in Nat
    BY <1>1, <1>2, <1>14, FallsGrow
  <1>16. \A k \in DOMAIN reservations' : GrossReconciles(reservations'[k])
    <2> DEFINE n == Len(reservations)
    <2>1. n \in Nat /\ DOMAIN reservations = 1..n /\ DOMAIN reservations' = 1..(n + 1)
      BY <1>1, <1>15, LenProperties
    <2>2. \A k \in 1..(n + 1) : k \in 1..n \/ k = n + 1
      BY <2>1
    <2> HIDE DEF n
    <2> QED BY <1>1, <1>14, <1>15, <2>1, <2>2 DEF n
  <1>17. reservations'[Len(reservations')].after = Pending(after)
    BY <1>14, <1>15
  <1>18. row.after < Pending(orders) => s + t >= 1
    <2> SUFFICES ASSUME s = 0, t = 0 PROVE ~(row.after < Pending(orders))
      BY <1>9
    <2>1. S = {}
      BY <1>8, FS_EmptySet DEF s
    <2>2. Pending(book) = Pending(orders)
      BY <1>5, <2>1 DEF Pending
    <2> DEFINE b == Pending(book)
               e == Pending(after)
    <2>3. e = b - t + i /\ b \in Nat
      BY <1>7 DEF t, i
    <2>4. ~(e < b)
      <3> HIDE DEF b, e
      <3> QED BY <1>9, <2>3
    <2> QED BY <1>14, <2>2, <2>4
  <1>19. Cardinality(Falls(reservations')) <= counts'.cancel + counts'.fill
    <2> DEFINE f == Cardinality(Falls(reservations))
               g == Cardinality(Falls(reservations'))
    <2>1. f \in Nat /\ f <= counts.cancel + counts.fill
      BY <1>1, <1>15
    <2>2. g = f \/ (g = f + 1 /\ s + t >= 1)
      <3>1. CASE reservations # <<>> /\ row.after < reservations[Len(reservations)].after
        BY <1>1, <1>15, <1>18, <3>1
      <3>2. CASE ~(reservations # <<>> /\ row.after < reservations[Len(reservations)].after)
        <4>1. g = f + 0
          BY <1>15, <3>2
        <4> HIDE DEF f, g
        <4> QED BY <2>1, <4>1
      <3> QED BY <3>1, <3>2
    <2> HIDE DEF f, g
    <2>3. g <= counts'.cancel + counts'.fill
      BY <1>9, <1>11, <2>1, <2>2
    <2> QED BY <2>3 DEF g
  <1>20. LifeTypeOK'
    BY <1>2, <1>3 DEF LifeTypeOK
  <1>21. status' \in Statuses /\ stopped' \in BOOLEAN
    BY <1>1, <1>2
  <1> QED BY <1>2, <1>7, <1>11, <1>12, <1>13, <1>15, <1>16, <1>17, <1>19, <1>20, <1>21 DEF LifeInv

LEMMA StopKeeps ==
  ASSUME LifeInv, Stop
  PROVE  LifeInv'
  <1> DEFINE T == ActiveOrders(orders)
             t == Cardinality(T)
  <1>1. /\ LifeTypeOK /\ status \in Statuses /\ ~stopped
        /\ counts \in [create : Nat, reject : Nat, cancel : Nat, fill : Nat]
        /\ BookStands(orders, now, stamp, now)
        /\ counts.create - counts.cancel - counts.fill = t
        /\ Cardinality(Falls(reservations)) <= counts.cancel + counts.fill
    BY DEF LifeInv, Stop
  <1>2. PICK end \in {now, now + 1} :
          orders' = [i \in DOMAIN orders |->
             IF i \in ActiveOrders(orders) THEN Cancel(orders[i], "shutdown", 0, end, end)
             ELSE orders[i]]
    BY DEF Stop
  <1>3. /\ counts' = [counts EXCEPT !.cancel = @ + t] /\ stopped' = TRUE
        /\ status' = status /\ now' = now /\ stamp' = stamp /\ eligibility' = eligibility
        /\ reservations' = reservations
    BY DEF Stop
  <1>4. /\ BookStands(orders', now, stamp, now)
        /\ Entries(orders') = Entries(orders) /\ ActiveOrders(orders') = {}
    BY <1>1, <1>2, StoppedBook
  <1>5. t \in Nat
    <2> DEFINE n == Len(orders)
    <2>1. n \in Nat /\ T \in SUBSET (1..n)
      BY <1>1, ActiveAre DEF BookStands
    <2> HIDE DEF n, T
    <2>2. IsFiniteSet(T)
      BY <2>1, PlacesAreFinite
    <2> QED BY <2>2, FS_CardinalityType
  <1> HIDE DEF t
  <1>6. /\ counts.create \in Nat /\ counts.cancel \in Nat /\ counts.fill \in Nat
        /\ counts' \in [create : Nat, reject : Nat, cancel : Nat, fill : Nat]
        /\ counts'.create = counts.create /\ counts'.cancel = counts.cancel + t
        /\ counts'.fill = counts.fill
    <2>1. /\ counts.create \in Nat /\ counts.reject \in Nat /\ counts.cancel \in Nat
          /\ counts.fill \in Nat
          /\ counts = [create |-> counts.create, reject |-> counts.reject,
                       cancel |-> counts.cancel, fill |-> counts.fill]
      BY <1>1
    <2>2. counts' = [create |-> counts.create, reject |-> counts.reject,
                     cancel |-> counts.cancel + t, fill |-> counts.fill]
      BY <1>3, <2>1
    <2> QED BY <1>5, <2>1, <2>2
  <1>7. counts'.create - counts'.cancel - counts'.fill = Cardinality(ActiveOrders(orders'))
    <2>1. Cardinality(ActiveOrders(orders')) = 0
      BY <1>4, FS_EmptySet
    <2> QED BY <1>1, <1>5, <1>6, <2>1
  <1>8. Cardinality(Falls(reservations')) <= counts'.cancel + counts'.fill
    <2> DEFINE f == Cardinality(Falls(reservations))
    <2>1. f \in Nat
      <3> HIDE DEF f
      <3> QED BY OscillationsFollowFalls DEF LifeInv, f
    <2>2. Cardinality(Falls(reservations')) = f /\ f <= counts.cancel + counts.fill
      BY <1>1, <1>3
    <2> HIDE DEF f
    <2> QED BY <1>5, <1>6, <2>1, <2>2
  <1>9. LifeTypeOK'
    BY <1>1, <1>3 DEF LifeTypeOK
  <1>10. Cardinality(Instantiated(eligibility')) = Cardinality(Entries(orders'))
         /\ RowsStand(eligibility')
    BY <1>3, <1>4 DEF LifeInv
  <1>11. reservations' \in Seq(ReservationRow)
         /\ \A k \in DOMAIN reservations' : GrossReconciles(reservations'[k])
    BY <1>3 DEF LifeInv
  <1> QED BY <1>1, <1>3, <1>4, <1>6, <1>7, <1>8, <1>9, <1>10, <1>11 DEF LifeInv

LEMMA LifeStays == LifeInv /\ [LifecycleNext]_lifecycleVars => LifeInv'
  <1> SUFFICES ASSUME LifeInv, [LifecycleNext]_lifecycleVars PROVE LifeInv'
    OBVIOUS
  <1>1. CASE Cycle
    <2>1. ~stopped
      BY <1>1 DEF Cycle
    <2>2. PICK frame \in {stamp, now + 1} :
            \E S \in SUBSET {i \in ActiveOrders(orders) : orders[i].created_stamp < frame} :
            \E crossed \in SUBSET (S \intersect Entries(orders)) :
            \E d \in Decisions(Filled(S, crossed, now + 1, frame)) :
               CycleOf(frame, S, crossed, d)
      BY <1>1 DEF Cycle
    <2>3. PICK S \in SUBSET {i \in ActiveOrders(orders) : orders[i].created_stamp < frame} :
            \E crossed \in SUBSET (S \intersect Entries(orders)) :
            \E d \in Decisions(Filled(S, crossed, now + 1, frame)) :
               CycleOf(frame, S, crossed, d)
      BY <2>2
    <2>4. PICK crossed \in SUBSET (S \intersect Entries(orders)) :
            \E d \in Decisions(Filled(S, crossed, now + 1, frame)) :
               CycleOf(frame, S, crossed, d)
      BY <2>3
    <2>5. PICK d \in Decisions(Filled(S, crossed, now + 1, frame)) :
            CycleOf(frame, S, crossed, d)
      BY <2>4
    <2>6. FrameIs(frame)
      BY DEF LifeInv, LifeTypeOK, FrameIs
    <2>7. FillChoice(S, crossed, frame)
      BY DEF FillChoice
    <2> QED BY <2>1, <2>5, <2>6, <2>7, CycleKeeps
  <1>2. CASE Stop
    BY <1>2, StopKeeps
  <1>3. CASE UNCHANGED lifecycleVars
    BY <1>3 DEF lifecycleVars, LifeInv, LifeTypeOK
  <1> QED BY <1>1, <1>2, <1>3 DEF LifecycleNext

-----------------------------------------------------------------------------
(* What is reported of them *)

\* An order that has its place: what the reports ask of it.
LEMMA OrderIsReported ==
  ASSUME NEW o \in OrderRow, NEW time \in Nat, NEW frame \in Nat, Standing(o, time, frame, time)
  PROVE  /\ \A k \in 2..Len(o.sequence) :
               <<o.sequence[k - 1], o.sequence[k]>> \in AllowedSteps
         /\ o.cancel_cycle # 0 => ~SameCycleCancel(o) /\ ~ZeroLifetime(o)
         /\ ZeroLifetime(o) =>
               RootCause(o) \in {"WOULD_CROSS_MARKET", "SESSION_SHUTDOWN",
                                 "RECONCILIATION_CANCEL_SAME_FRAME"}
         /\ ~o.is_exit /\ time > o.cycle => o.next_cycle = o.cycle + 1
         /\ ~o.is_exit /\ SameCycleCancel(o) =>
               o.reason = "SESSION_SHUTDOWN" /\ ~(Lifetime(o, time) >= 1)
         /\ Lifetime(o, time) \in Int
  <1> DEFINE c == o.sequence
  <1>1. /\ c \in Courses /\ o.created \in Nat /\ o.terminal \in Nat /\ o.created_stamp \in Nat
        /\ o.terminal_stamp \in Nat /\ o.cancel_cycle \in Nat /\ o.cycle \in Nat
        /\ o.same_cycle \in BOOLEAN /\ o.is_exit \in BOOLEAN
    BY DEF OrderRow
  <1>2. /\ InSequence(o, "RESTING") <=> c # NeverRested
        /\ InSequence(o, "NEVER_RESTED_REJECTED") <=> c = NeverRested
    <2>1. \A s : InSequence(o, s) <=> CourseHas(c, s)
      BY DEF InSequence, CourseHas
    <2> HIDE DEF c
    <2> QED BY <1>1, <2>1, CoursesHave
  <1>3. EndStands(o)
    BY DEF Standing
  <1>4. ~o.is_exit => c # NeverRested /\ (time > o.cycle => o.next_cycle = o.cycle + 1)
    BY DEF Standing, EntryStands
  <1>5. \A k \in 2..Len(c) : <<c[k - 1], c[k]>> \in AllowedSteps
    <2> HIDE DEF c
    <2> QED BY <1>1, CoursesStep
  <1>6. Lifetime(o, time) = (IF o.terminal # 0 THEN o.terminal ELSE time) - o.created
    BY DEF Lifetime
  <1>7. ZeroLifetime(o) <=> o.terminal # 0 /\ o.terminal <= o.created
    BY DEF ZeroLifetime
  <1>8. SameCycleCancel(o) <=>
          IF o.cancel_cycle # 0 THEN o.same_cycle
          ELSE \/ o.same_cycle
               \/ c # NeverRested /\ o.terminal_stamp = o.created_stamp /\ o.terminal # 0
    BY <1>2 DEF SameCycleCancel
  <1>9. /\ c = NeverRested => RootCause(o) = "WOULD_CROSS_MARKET"
        /\ c # NeverRested /\ SameCycleCancel(o) =>
              RootCause(o) = "RECONCILIATION_CANCEL_SAME_FRAME"
        /\ c # NeverRested /\ ~SameCycleCancel(o) /\ o.reason = "SESSION_SHUTDOWN" =>
              RootCause(o) = "SESSION_SHUTDOWN"
    <2> HIDE DEF c
    <2> QED BY <1>2 DEF RootCause
  <1>10. c \in {AtRest, NeverRested, CancelledFromRest, FilledFromRest, CompletedFromRest}
    BY <1>1 DEF Courses
  <1>11. CASE c = AtRest
    <2>1. /\ o.terminal = 0 /\ ~o.same_cycle /\ o.cancel_cycle = 0
      BY <1>3, <1>11 DEF EndStands
    <2> QED BY <1>1, <1>4, <1>5, <1>6, <1>7, <1>8, <2>1
  <1>12. CASE c = NeverRested
    <2>1. o.cancel_cycle = 0
      BY <1>3, <1>12 DEF EndStands
    <2> QED BY <1>1, <1>4, <1>5, <1>6, <1>9, <1>12, <2>1
  <1>13. CASE c = CancelledFromRest
    <2>1. /\ o.terminal # 0
          /\ o.cancel_cycle # 0 => ~o.same_cycle /\ o.terminal > o.created
          /\ o.cancel_cycle = 0 =>
                /\ o.reason = "SESSION_SHUTDOWN"
                /\ o.same_cycle \/ o.terminal_stamp = o.created_stamp => o.terminal <= o.created
      BY <1>3, <1>13 DEF EndStands
    <2>2. c # NeverRested
      BY <1>13, CoursesDiffer
    <2>3. o.cancel_cycle # 0 => ~SameCycleCancel(o) /\ ~ZeroLifetime(o)
      BY <1>1, <1>7, <1>8, <2>1
    <2>4. ZeroLifetime(o) => RootCause(o) \in {"WOULD_CROSS_MARKET", "SESSION_SHUTDOWN",
                                               "RECONCILIATION_CANCEL_SAME_FRAME"}
      BY <1>9, <2>1, <2>2, <2>3
    <2>5. SameCycleCancel(o) => o.reason = "SESSION_SHUTDOWN" /\ o.terminal <= o.created
      BY <1>1, <1>8, <2>1, <2>3
    <2>6. Lifetime(o, time) = o.terminal - o.created
      BY <1>6, <2>1
    <2>7. SameCycleCancel(o) => o.reason = "SESSION_SHUTDOWN" /\ ~(Lifetime(o, time) >= 1)
      BY <1>1, <2>5, <2>6
    <2> QED BY <1>1, <1>4, <1>5, <2>3, <2>4, <2>6, <2>7
  <1>14. CASE c \in {FilledFromRest, CompletedFromRest}
    <2>1. /\ o.cancel_cycle = 0 /\ ~o.same_cycle
          /\ o.terminal > o.created /\ o.terminal_stamp > o.created_stamp
      BY <1>3, <1>14 DEF EndStands
    <2>2. ~SameCycleCancel(o) /\ ~ZeroLifetime(o)
      BY <1>1, <1>7, <1>8, <2>1
    <2> QED BY <1>1, <1>4, <1>5, <1>6, <2>1, <2>2
  <1> QED BY <1>10, <1>11, <1>12, <1>13, <1>14

\* Of the entries: what the funnel counts of them.
LEMMA EntriesAreReported ==
  ASSUME LifeInv
  PROVE  /\ EntriesIn("NEVER_RESTED_REJECTED") = {}
         /\ EntriesIn("VALIDATED") = Entries(orders)
         /\ IsFiniteSet(EntriesIn("RESTING"))
         /\ Cardinality(EntriesIn("RESTING"))
              = Cardinality(EntriesIn("FILLED_AFTER_RESTING"))
                  + Cardinality(EntriesResting(orders))
                  + Cardinality(EntriesIn("CANCELLED_AFTER_RESTING"))
  <1> DEFINE n == Len(orders)
             R == EntriesResting(orders)
             F == EntriesIn("FILLED_AFTER_RESTING")
             C == EntriesIn("CANCELLED_AFTER_RESTING")
             D == EntriesIn("RESTING")
  <1>1. /\ n \in Nat /\ DOMAIN orders = 1..n
        /\ \A i \in 1..n : orders[i] \in OrderRow /\ orders[i].sequence \in Courses
        /\ ActiveOrders(orders) = {i \in 1..n : orders[i].sequence = AtRest}
        /\ \A i \in 1..n : Standing(orders[i], now, stamp, now)
    BY ActiveAre DEF LifeInv, BookStands
  <1>2. Entries(orders) \in SUBSET (1..n)
        /\ \A i \in Entries(orders) : orders[i].sequence # NeverRested
    BY <1>1 DEF Entries, Standing, EntryStands
  <1>3. \A i \in 1..n : \A s : InSequence(orders[i], s) <=> CourseHas(orders[i].sequence, s)
    BY DEF InSequence, CourseHas
  <1>4. /\ EntriesIn("NEVER_RESTED_REJECTED") = {}
        /\ EntriesIn("VALIDATED") = Entries(orders) /\ D = Entries(orders)
        /\ C = {i \in Entries(orders) : orders[i].sequence = CancelledFromRest}
        /\ F = {i \in Entries(orders) : orders[i].sequence \in {FilledFromRest, CompletedFromRest}}
    <2> HIDE DEF n
    <2> QED BY <1>1, <1>2, <1>3, CoursesHave DEF EntriesIn
  <1>5. R = {i \in Entries(orders) : orders[i].sequence = AtRest}
    BY <1>1, <1>2 DEF EntriesResting
  <1>6. R \in SUBSET (1..n) /\ F \in SUBSET (1..n) /\ C \in SUBSET (1..n) /\ D \in SUBSET (1..n)
    <2> HIDE DEF n, R, F, C, D
    <2> QED BY <1>2, <1>4, <1>5
  <1>7. D = (F \union R) \union C
    <2>1. \A i \in Entries(orders) :
            orders[i].sequence \in {AtRest, CancelledFromRest, FilledFromRest, CompletedFromRest}
      BY <1>1, <1>2 DEF Courses
    <2> HIDE DEF n, R, F, C, D
    <2> QED BY <1>4, <1>5, <2>1
  <1>8. F \intersect R = {} /\ (F \union R) \intersect C = {}
    <2> HIDE DEF n, R, F, C, D
    <2> QED BY <1>4, <1>5, CoursesDiffer
  <1> HIDE DEF n, R, F, C, D
  <1>9. IsFiniteSet(R) /\ IsFiniteSet(F) /\ IsFiniteSet(C) /\ IsFiniteSet(D)
    BY <1>1, <1>6, PlacesAreFinite
  <1>10. IsFiniteSet(F \union R) /\ Cardinality(F \union R) = Cardinality(F) + Cardinality(R)
    <2> DEFINE one == Cardinality(F \union R)
               f == Cardinality(F)
               r == Cardinality(R)
    <2>1. one = f + r - Cardinality(F \intersect R) /\ IsFiniteSet(F \union R)
      BY <1>9, FS_Union
    <2>2. Cardinality(F \intersect R) = 0 /\ f \in Nat /\ r \in Nat
      BY <1>8, <1>9, FS_EmptySet, FS_CardinalityType
    <2> HIDE DEF one, f, r
    <2>3. one = f + r
      BY <2>1, <2>2
    <2> QED BY <2>1, <2>3 DEF one, f, r
  <1>11. Cardinality(D) = Cardinality(F \union R) + Cardinality(C)
    <2> DEFINE one == Cardinality(F \union R)
               c == Cardinality(C)
               e == Cardinality((F \union R) \intersect C)
    <2>1. Cardinality(D) = one + c - e
      BY <1>7, <1>9, <1>10, FS_Union
    <2>2. e = 0 /\ one \in Nat /\ c \in Nat
      BY <1>8, <1>9, <1>10, FS_EmptySet, FS_CardinalityType
    <2> HIDE DEF one, c, e
    <2>3. Cardinality(D) = one + c
      BY <2>1, <2>2
    <2> QED BY <2>3 DEF one, c
  <1>12. Cardinality(D) = Cardinality(F) + Cardinality(R) + Cardinality(C)
    BY <1>10, <1>11
  <1> QED BY <1>4, <1>9, <1>12 DEF D, F, R, C

\* Of the rows: each create decision has an order or a reason.
LEMMA RowsAreReported ==
  ASSUME LifeInv
  PROVE  /\ DecidedAs(NoReason) = {} /\ DecidedAs("UNKNOWN_INTERNAL") = {}
         /\ {k \in CreateDecisions : eligibility[k].instantiated} = Instantiated(eligibility)
  <1>1. \A k \in DOMAIN eligibility : RowStands(eligibility[k])
    BY DEF LifeInv, RowsStand
  <1>2. status \in {"EXECUTION_ENABLED", "SIGNAL_ONLY", "SIGNAL_ONLY_MIN_SIZE"}
    BY LifecycleAssumption DEF LifeInv
  <1>3. ASSUME NEW k \in CreateDecisions
        PROVE  CreateCategory(eligibility[k]) \notin {NoReason, "UNKNOWN_INTERNAL"}
    <2> DEFINE row == eligibility[k]
    <2>1. row.action \in {"BLOCKED", "CREATE_DECISION"} /\ RowStands(row)
      BY <1>1 DEF CreateDecisions
    <2>2. CreateCategory(row) = IF row.instantiated \/ row.order # 0 THEN "INSTANTIATED"
                                ELSE IF status # "EXECUTION_ENABLED" THEN status ELSE row.block
      BY DEF CreateCategory
    <2> HIDE DEF row
    <2>3. ~row.instantiated => row.block \in Blockers
      BY <2>1 DEF RowStands
    <2>4. CreateCategory(row) \in Blockers \union {"INSTANTIATED"}
      BY <1>2, <2>2, <2>3 DEF Blockers
    <2>5. NoReason \notin Blockers \union {"INSTANTIATED"}
          /\ "UNKNOWN_INTERNAL" \notin Blockers \union {"INSTANTIATED"}
      <3>1. NoReason \notin Blockers \union {"INSTANTIATED"}
        BY ReasonsAre, Zenon DEF Blockers
      <3>2. "UNKNOWN_INTERNAL" \notin Blockers \union {"INSTANTIATED"}
        BY DEF Blockers
      <3> QED BY <3>1, <3>2
    <2> QED BY <2>4, <2>5 DEF row
  <1>4. DecidedAs(NoReason) = {} /\ DecidedAs("UNKNOWN_INTERNAL") = {}
    BY <1>3 DEF DecidedAs
  <1>5. {k \in CreateDecisions : eligibility[k].instantiated} = Instantiated(eligibility)
    BY <1>1 DEF CreateDecisions, Instantiated, RowStands
  <1> QED BY <1>4, <1>5

LEMMA LifeReconciles == LifeInv => LifecycleReconciles
  <1> SUFFICES ASSUME LifeInv PROVE LifecycleReconciles
    OBVIOUS
  <1>1. /\ now \in Nat /\ stamp \in Nat
        /\ \A i \in DOMAIN orders : orders[i] \in OrderRow /\ Standing(orders[i], now, stamp, now)
    BY ActiveAre DEF LifeInv, LifeTypeOK, BookStands
  <1>2. \A i \in DOMAIN orders :
          LET o == orders[i]
          IN  /\ \A k \in 2..Len(o.sequence) :
                    <<o.sequence[k - 1], o.sequence[k]>> \in AllowedSteps
              /\ o.cancel_cycle # 0 => ~SameCycleCancel(o) /\ ~ZeroLifetime(o)
              /\ ZeroLifetime(o) =>
                    RootCause(o) \in {"WOULD_CROSS_MARKET", "SESSION_SHUTDOWN",
                                      "RECONCILIATION_CANCEL_SAME_FRAME"}
              /\ ~o.is_exit /\ now > o.cycle => o.next_cycle = o.cycle + 1
    BY <1>1, OrderIsReported
  <1>3. \A i \in DOMAIN orders :
          /\ ~orders[i].is_exit /\ SameCycleCancel(orders[i]) =>
                orders[i].reason = "SESSION_SHUTDOWN" /\ ~(Lifetime(orders[i], now) >= 1)
          /\ Lifetime(orders[i], now) \in Int
    BY <1>1, OrderIsReported
  <1>4. \A i \in Entries(orders) \ Survivors : orders[i].reason = "SESSION_SHUTDOWN"
    BY <1>3 DEF Survivors, Entries
  <1>5. {i \in Entries(orders) : Lifetime(orders[i], now) >= 1} = RestingEvidence(now)
    <2>1. \A i \in Entries(orders) : /\ Lifetime(orders[i], now) \in Int
                                     /\ Lifetime(orders[i], now) >= 1 => i \in Survivors
      BY <1>3 DEF Survivors, Entries
    <2>2. \A x \in Int : x >= 1 <=> x > 0
      OBVIOUS
    <2>3. \A i \in Entries(orders) : Lifetime(orders[i], now) >= 1 <=> Lifetime(orders[i], now) > 0
      BY <2>1, <2>2
    <2>4. Survivors \subseteq Entries(orders)
      BY DEF Survivors
    <2> QED BY <2>1, <2>3, <2>4 DEF RestingEvidence
  <1> DEFINE funnel == Funnel(now)
  <1>6. /\ funnel.instantiated = Cardinality(Entries(orders))
        /\ funnel.validated = Cardinality(EntriesIn("VALIDATED"))
        /\ funnel.entered_resting = Cardinality(EntriesIn("RESTING"))
        /\ funnel.stayed = Cardinality({i \in Entries(orders) : Lifetime(orders[i], now) >= 1})
        /\ funnel.filled = Cardinality(EntriesIn("FILLED_AFTER_RESTING"))
        /\ funnel.rejected = Cardinality(EntriesIn("NEVER_RESTED_REJECTED"))
    BY DEF Funnel
  <1> HIDE DEF funnel
  <1>7. /\ funnel.rejected = 0 /\ funnel.validated = funnel.instantiated
        /\ funnel.entered_resting =
              funnel.filled + Cardinality(EntriesResting(orders))
                + Cardinality(EntriesIn("CANCELLED_AFTER_RESTING"))
    BY <1>6, EntriesAreReported, FS_EmptySet
  <1>8. funnel.stayed = Cardinality(RestingEvidence(now))
    BY <1>5, <1>6
  <1>9. /\ DecidedAs(NoReason) = {} /\ DecidedAs("UNKNOWN_INTERNAL") = {}
        /\ Cardinality({k \in CreateDecisions : eligibility[k].instantiated})
             = funnel.instantiated
    BY <1>6, RowsAreReported DEF LifeInv
  <1>10. Cardinality({k \in DOMAIN reservations : PendingOscillates(k)})
           <= 2 * (counts.cancel + counts.fill)
    <2> DEFINE f == Cardinality(Falls(reservations))
               O == {k \in DOMAIN reservations : PendingOscillates(k)}
               g == Cardinality(O)
               m == Len(reservations)
    <2>1. f \in Nat /\ g <= 2 * f
      <3>1. reservations \in Seq(ReservationRow)
        BY DEF LifeInv
      <3> QED BY <3>1, OscillationsFollowFalls
    <2>2. f <= counts.cancel + counts.fill /\ counts.cancel \in Nat /\ counts.fill \in Nat
      BY DEF LifeInv
    <2>3. g \in Nat
      <3>1. m \in Nat /\ O \in SUBSET (1..m)
        BY LenProperties DEF LifeInv
      <3> HIDE DEF O, m
      <3> QED BY <3>1, PlacesAreFinite, FS_CardinalityType
    <2> HIDE DEF f, g
    <2>4. g <= 2 * (counts.cancel + counts.fill)
      BY <2>1, <2>2, <2>3
    <2> QED BY <2>4 DEF g
  <1>11. /\ counts.create - counts.cancel - counts.fill = Cardinality(ActiveOrders(orders))
         /\ \A k \in DOMAIN reservations : GrossReconciles(reservations[k])
    BY DEF LifeInv
  <1> QED BY <1>2, <1>4, <1>7, <1>8, <1>9, <1>10, <1>11 DEF LifecycleReconciles, funnel

\* What the reports make of the orders agrees with what happened to them, however
\* the exchange's clock stands still: no cycle cancels what it made, each entry that
\* rested is counted once, and what was created, cancelled and filled adds up to
\* what is active (build_order_funnel, build_create_decision_reconciliation,
\* build_risk_reservation_audit).
THEOREM TheLifecycleReconciles == LifecycleSpec => []LifecycleReconciles
  <1> QED BY LifeStarts, LifeStays, LifeReconciles, PTL DEF LifecycleSpec
================================================================================
