------------------------ MODULE ShadowExecutionProofs ------------------------
(***************************************************************************)
(* Proofs about the paper trading of a pair: its ledgers, for fills of any *)
(* prices and sizes, and the engine that makes them.                       *)
(*                                                                         *)
(* The invariants of PositionLedger are inductive together: that the       *)
(* equity is what the position would fetch follows, at a mark, from the    *)
(* ledger's reconciling, and that from the kind of each fill.  Those of    *)
(* the engine need that a place's exit is at a profit from the time its    *)
(* entry is created.                                                       *)
(***************************************************************************)
EXTENDS ShadowExecution, FiniteSetTheorems, WellFoundedInduction, TLAPS

(* The ledgers *)

LedgerInv == LedgerTypeOK /\ LedgersReconcile /\ EquityIsWorth

-----------------------------------------------------------------------------
LEMMA LedgerBegins == LedgerInit => LedgerInv
  <1> SUFFICES ASSUME LedgerInit PROVE LedgerInv
    OBVIOUS
  <1>1. LedgerTypeOK
    <2>1. 0 \in 0..MaxFills
      BY FillsAssumption
    <2>2. shadow \in Book /\ audit \in Book
      BY DEF LedgerInit, Book
    <2>3. shadow.cost = 0 /\ audit.cost = 0
      BY DEF LedgerInit
    <2>4. reduced \in BOOLEAN /\ marked \in BOOLEAN
      BY Zenon DEF LedgerInit
    <2>5. amount \in Int /\ unrealized \in Int /\ high_water_mark \in Int /\ cash \in Int
      BY DEF LedgerInit
    <2>6. mark_price \in Prices \union {0} /\ fills \in 0..MaxFills
      BY <2>1 DEF LedgerInit
    <2> QED
      BY <2>2, <2>3, <2>4, <2>5, <2>6, Zenon DEF LedgerTypeOK
  <1>2. LedgersReconcile
    BY DEF LedgerInit, LedgersReconcile, Reconciles, Signed
  <1>3. mark_price * amount = 0
    <2>1. mark_price = 0 /\ amount = 0
      BY DEF LedgerInit
    <2> QED
      BY <2>1
  <1>4. EquityIsWorth
    BY <1>3 DEF LedgerInit, EquityIsWorth, Equity
  <1> QED
    BY <1>1, <1>2, <1>4 DEF LedgerInv

\* The three kinds of fills, each on the two sides of a position.
LEMMA OpenedReconciles ==
  ASSUME amount \in Int, cash \in Int,
         NEW book \in Book, Reconciles(book),
         NEW price \in Nat, NEW size \in Nat \ {0}, NEW side \in Side,
         Opens(Delta(side, size)),
         amount = 0 => book.cost = 0
  PROVE  /\ Opened(book, price, size) \in Book
         /\ Opened(book, price, size).realized =
              (cash - price * Delta(side, size))
                + Signed(amount + Delta(side, size), Opened(book, price, size).cost)
         /\ amount + Delta(side, size) # 0
  <1>1. price * size \in Nat
    OBVIOUS
  <1>2. CASE side = "buy"
    <2>1. amount >= 0 /\ Delta(side, size) = size
      BY <1>2 DEF Opens, Delta
    <2> QED
      BY <1>1, <2>1 DEF Opened, Signed, Reconciles, Book
  <1>3. CASE side = "sell"
    <2>1. amount <= 0 /\ Delta(side, size) = -size
      BY <1>3 DEF Opens, Delta
    <2>2. price * Delta(side, size) = -(price * size)
      BY <2>1
    <2> QED
      BY <1>1, <2>1, <2>2 DEF Opened, Signed, Reconciles, Book
  <1> QED
    BY <1>2, <1>3 DEF Side

LEMMA ReducedReconciles ==
  ASSUME amount \in Int, cash \in Int,
         NEW book \in Book, Reconciles(book),
         NEW price \in Nat, NEW size \in Nat \ {0}, NEW side \in Side,
         Reduces(Delta(side, size))
  PROVE  /\ Reduced(book, price, size) \in Book
         /\ Reduced(book, price, size).realized =
              (cash - price * Delta(side, size))
                + Signed(amount + Delta(side, size), Reduced(book, price, size).cost)
         /\ amount + Delta(side, size) # 0
  <1> DEFINE share == Share(book.cost, size)
  <1>1. price * size \in Nat
    OBVIOUS
  <1>2. Size(amount) \in Nat \ {0}
    BY DEF Reduces, Opens, Size
  <1>3. share \in Int
    BY <1>2 DEF Share, Book
  <1>4. CASE side = "buy"
    <2>1. amount < 0 /\ Delta(side, size) = size /\ amount + size < 0
      BY <1>4 DEF Reduces, Opens, Delta, Size
    <2> HIDE DEF share
    <2>2. Reduced(book, price, size) =
            [cost |-> book.cost - share, realized |-> book.realized - (price * size - share)]
      BY <2>1 DEF Reduced, Signed, share
    <2> QED
      BY <1>1, <1>3, <2>1, <2>2 DEF Signed, Reconciles, Book
  <1>5. CASE side = "sell"
    <2>1. amount > 0 /\ Delta(side, size) = -size /\ amount - size > 0
      BY <1>5 DEF Reduces, Opens, Delta, Size
    <2>2. price * Delta(side, size) = -(price * size)
      BY <2>1
    <2> HIDE DEF share
    <2>3. Reduced(book, price, size) =
            [cost |-> book.cost - share, realized |-> book.realized + (price * size - share)]
      BY <2>1 DEF Reduced, Signed, share
    <2> QED
      BY <1>1, <1>3, <2>1, <2>2, <2>3 DEF Signed, Reconciles, Book
  <1> QED
    BY <1>4, <1>5 DEF Side

LEMMA TurnedReconciles ==
  ASSUME amount \in Int, cash \in Int,
         NEW book \in Book, Reconciles(book),
         NEW price \in Nat, NEW size \in Nat \ {0}, NEW side \in Side,
         ~Opens(Delta(side, size)), ~Reduces(Delta(side, size))
  PROVE  /\ Turned(book, price, Delta(side, size)) \in Book
         /\ Turned(book, price, Delta(side, size)).realized =
              (cash - price * Delta(side, size))
                + Signed(amount + Delta(side, size),
                         Turned(book, price, Delta(side, size)).cost)
         /\ amount + Delta(side, size) = 0 => Turned(book, price, Delta(side, size)).cost = 0
  <1>1. CASE side = "buy"
    <2> DEFINE left == amount + size
    <2>1. amount < 0 /\ Delta(side, size) = size /\ left >= 0
      BY <1>1 DEF Reduces, Opens, Delta, Size
    <2>2. price * left = price * amount + price * size
      OBVIOUS
    <2>3. price * Size(amount) = -(price * amount)
      BY <2>1 DEF Size
    <2>4. Turned(book, price, Delta(side, size)) =
            [cost     |-> price * left,
             realized |-> book.realized + (-(price * Size(amount) - book.cost))]
      BY <2>1 DEF Turned, Signed, Size
    <2>5. left = 0 => price * left = 0
      OBVIOUS
    <2>6. price * amount \in Int /\ price * size \in Int /\ price * left \in Int
      OBVIOUS
    <2>7. book.realized = cash - book.cost
      BY <2>1 DEF Reconciles, Signed
    <2>8. book.cost \in Int /\ book.realized \in Int
      BY DEF Book
    <2>9. Signed(left, price * left) = price * left
      BY <2>1 DEF Signed
    <2>10. Turned(book, price, Delta(side, size)) \in Book
      BY <2>3, <2>4, <2>6, <2>8 DEF Book
    <2> HIDE DEF left
    <2>11. Turned(book, price, Delta(side, size)).realized =
             (cash - price * Delta(side, size)) + price * left
      BY <2>1, <2>2, <2>3, <2>4, <2>6, <2>7, <2>8
    <2> QED
      BY <2>1, <2>4, <2>5, <2>9, <2>10, <2>11 DEF left
  <1>2. CASE side = "sell"
    <2> DEFINE left == size - amount
    <2>1. amount > 0 /\ Delta(side, size) = -size /\ left >= 0 /\ Size(amount + (-size)) = left
      BY <1>2 DEF Reduces, Opens, Delta, Size
    <2>2. price * left = price * size - price * amount
      OBVIOUS
    <2>3. price * Delta(side, size) = -(price * size)
      BY <2>1
    <2>4. Turned(book, price, Delta(side, size)) =
            [cost |-> price * left, realized |-> book.realized + (price * amount - book.cost)]
      BY <2>1 DEF Turned, Signed, Size
    <2>5. left = 0 => price * left = 0
      OBVIOUS
    <2>6. price * amount \in Int /\ price * size \in Int /\ price * left \in Int
      OBVIOUS
    <2>7. book.realized = cash + book.cost
      BY <2>1 DEF Reconciles, Signed
    <2>8. book.cost \in Int /\ book.realized \in Int
      BY DEF Book
    <2>9. Signed(amount + (-size), price * left) = -(price * left)
      BY <2>1, <2>5 DEF Signed
    <2>10. Turned(book, price, Delta(side, size)) \in Book
      BY <2>4, <2>6, <2>8 DEF Book
    <2>11. amount + (-size) = 0 => left = 0
      OBVIOUS
    <2> HIDE DEF left
    <2>12. Turned(book, price, Delta(side, size)).realized =
             (cash - price * Delta(side, size)) + (-(price * left))
      BY <2>2, <2>3, <2>4, <2>6, <2>7, <2>8
    <2> QED
      BY <2>1, <2>4, <2>5, <2>9, <2>10, <2>11, <2>12
  <1> QED
    BY <1>1, <1>2 DEF Side

-----------------------------------------------------------------------------
\* The audit's ledger reconciles after any fill.
LEMMA AppliedReconciles ==
  ASSUME amount \in Int, cash \in Int,
         NEW book \in Book, Reconciles(book),
         NEW price \in Nat, NEW size \in Nat \ {0}, NEW side \in Side,
         amount = 0 => book.cost = 0
  PROVE  LET delta == Delta(side, size)
             after == Applied(book, price, delta)
         IN  /\ after \in Book
             /\ after.realized = (cash - price * delta) + Signed(amount + delta, after.cost)
             /\ amount + delta = 0 => after.cost = 0
  <1>1. Size(Delta(side, size)) = size
    BY DEF Size, Delta, Side
  <1>2. CASE Opens(Delta(side, size))
    BY <1>1, <1>2, OpenedReconciles DEF Applied
  <1>3. CASE Reduces(Delta(side, size))
    BY <1>1, <1>3, ReducedReconciles DEF Applied, Reduces
  <1>4. CASE ~Opens(Delta(side, size)) /\ ~Reduces(Delta(side, size))
    BY <1>4, TurnedReconciles DEF Applied
  <1> QED
    BY <1>2, <1>3, <1>4

LEMMA LedgerFills ==
  ASSUME LedgerInv, NEW side \in Side, NEW price \in Prices, NEW size \in Sizes,
         Fill(side, price, size)
  PROVE  LedgerInv'
  <1> DEFINE delta == Delta(side, size)
  <1>1. price \in Nat /\ size \in Nat \ {0}
    BY FillsAssumption
  <1>2. /\ amount \in Int /\ cash \in Int /\ fills \in 0..MaxFills
        /\ shadow \in Book /\ audit \in Book
        /\ amount = 0 => shadow.cost = 0 /\ audit.cost = 0
        /\ mark_price \in Prices \union {0} /\ unrealized \in Int /\ high_water_mark \in Int
        /\ reduced \in BOOLEAN
        /\ Reconciles(audit) /\ (~reduced => shadow = audit)
    BY DEF LedgerInv, LedgerTypeOK, LedgersReconcile
  <1>3. delta \in Int /\ price * delta \in Int
    BY <1>1 DEF Delta, Side
  <1>4. /\ Applied(audit, price, delta) \in Book
        /\ Applied(audit, price, delta).realized =
             (cash - price * delta) + Signed(amount + delta, Applied(audit, price, delta).cost)
        /\ amount + delta = 0 => Applied(audit, price, delta).cost = 0
    BY <1>1, <1>2, AppliedReconciles
  <1>5. /\ amount' = amount + delta
        /\ shadow' = AppliedInShadow(shadow, price, delta)
        /\ audit' = Applied(audit, price, delta)
        /\ cash' = cash - price * delta
        /\ reduced' = (reduced \/ Reduces(delta))
        /\ marked' = FALSE
        /\ fills' = fills + 1 /\ fills < MaxFills
        /\ UNCHANGED <<mark_price, unrealized, high_water_mark>>
    BY DEF Fill
  <1>6. ~Reduces(delta) => AppliedInShadow(audit, price, delta) = Applied(audit, price, delta)
    BY DEF AppliedInShadow, Applied
  <1>7. Reconciles(audit)'
    BY <1>4, <1>5 DEF Reconciles, Signed
  <1>8. LedgersReconcile'
    <2>1. CASE reduced \/ Reduces(delta)
      BY <1>5, <1>7, <2>1 DEF LedgersReconcile
    <2>2. CASE ~reduced /\ ~Reduces(delta)
      <3>1. shadow' = audit'
        BY <1>2, <1>5, <1>6, <2>2
      <3> QED
        BY <1>7, <3>1 DEF LedgersReconcile
    <2> QED
      BY <2>1, <2>2
  <1>9. shadow' \in Book /\ (amount' = 0 => shadow'.cost = 0)
    <2>1. CASE Reduces(delta)
      <3>1. size < Size(amount) /\ amount # 0 /\ ~Opens(delta)
        BY <1>1, <1>2, <2>1 DEF Reduces, Opens, Size, Delta, Side
      <3>2. Size(amount) \in Nat \ {0} /\ Size(delta) = size
        BY <1>1, <1>2, <3>1 DEF Size, Delta, Side
      <3>3. Share(shadow.cost, size) \in Int
        BY <1>1, <1>2, <3>2 DEF Share, Book
      <3>4. shadow' = ReducedInShadow(shadow, price, size)
        BY <1>5, <2>1, <3>1, <3>2 DEF AppliedInShadow
      <3>5. price * size \in Int /\ price * (Size(amount) - size) \in Int
        BY <1>1, <3>2
      <3>6. shadow' \in Book
        BY <1>2, <3>3, <3>4, <3>5 DEF ReducedInShadow, Signed, Book
      <3>7. amount' # 0
        BY <1>1, <1>2, <1>5, <3>1 DEF Size, Delta, Side
      <3> QED
        BY <3>6, <3>7
    <2>2. CASE Opens(delta)
      <3>1. Size(delta) = size /\ amount' # 0
        BY <1>1, <1>2, <1>5, <2>2 DEF Opens, Size, Delta, Side
      <3>2. shadow' = Opened(shadow, price, size)
        BY <1>5, <2>2, <3>1 DEF AppliedInShadow
      <3>3. price * size \in Int
        BY <1>1
      <3> QED
        BY <1>2, <3>1, <3>2, <3>3 DEF Opened, Book
    <2>3. CASE ~Opens(delta) /\ ~Reduces(delta)
      <3>1. shadow' = Turned(shadow, price, delta)
        BY <1>5, <2>3 DEF AppliedInShadow
      <3>2. Size(amount) \in Int /\ Size(amount + delta) \in Int
        BY <1>2, <1>3 DEF Size
      <3>3. price * Size(amount) \in Int /\ price * Size(amount + delta) \in Int
        BY <1>1, <3>2
      <3>4. shadow' \in Book
        BY <1>2, <3>1, <3>3 DEF Turned, Signed, Book
      <3>5. amount + delta = 0 => price * Size(amount + delta) = 0
        BY <1>1 DEF Size
      <3> QED
        BY <1>5, <3>1, <3>4, <3>5 DEF Turned
    <2> QED
      BY <2>1, <2>2, <2>3
  <1>10. LedgerTypeOK'
    <2>1. amount' \in Int /\ cash' \in Int
      BY <1>2, <1>3, <1>5
    <2>2. audit' \in Book /\ (amount' = 0 => audit'.cost = 0)
      BY <1>4, <1>5
    <2>3. fills' \in 0..MaxFills
      BY <1>2, <1>5, FillsAssumption
    <2>4. reduced' \in BOOLEAN /\ marked' \in BOOLEAN
      BY <1>5
    <2> QED
      BY <1>2, <1>5, <1>9, <2>1, <2>2, <2>3, <2>4 DEF LedgerTypeOK
  <1>11. EquityIsWorth'
    BY <1>5 DEF EquityIsWorth
  <1> QED
    BY <1>8, <1>10, <1>11 DEF LedgerInv

LEMMA LedgerMarks ==
  ASSUME LedgerInv, NEW price \in Prices, Mark(price)
  PROVE  LedgerInv'
  <1>1. price \in Nat
    BY FillsAssumption
  <1>2. /\ amount \in Int /\ cash \in Int /\ high_water_mark \in Int
        /\ shadow.cost \in Int /\ shadow.realized \in Int
        /\ ~reduced => Reconciles(shadow)
    BY DEF LedgerInv, LedgerTypeOK, Book, LedgersReconcile, Reconciles
  <1>3. price * amount \in Int /\ Signed(amount, shadow.cost) \in Int
    BY <1>1, <1>2 DEF Signed
  <1>4. Worth(shadow, price) \in Int
    BY <1>3 DEF Worth
  <1>5. LedgerTypeOK'
    BY <1>2, <1>4 DEF LedgerInv, LedgerTypeOK, Mark
  <1>6. LedgersReconcile'
    BY DEF LedgerInv, LedgersReconcile, Reconciles, Mark, Signed
  <1>7. EquityIsWorth'
    <2>1. Equity' = shadow.realized + Worth(shadow, price)
      BY DEF Mark, Equity
    <2>2. Equity' <= high_water_mark'
      BY <1>2, <1>4, <2>1 DEF Mark
    <2>3. ~reduced => shadow.realized = cash + Signed(amount, shadow.cost)
      BY <1>2 DEF Reconciles
    <2>4. ~reduced => Equity' = cash + price * amount
      BY <1>2, <1>3, <2>1, <2>3 DEF Worth
    <2> QED
      BY <2>2, <2>4 DEF EquityIsWorth, Mark
  <1> QED
    BY <1>5, <1>6, <1>7 DEF LedgerInv

LEMMA LedgerStutters == LedgerInv /\ UNCHANGED ledgerVars => LedgerInv'
  BY DEF LedgerInv, ledgerVars, LedgerTypeOK, LedgersReconcile, EquityIsWorth,
         Reconciles, Signed, Equity

LEMMA LedgerSteps == LedgerInv /\ [LedgerNext]_ledgerVars => LedgerInv'
  BY LedgerFills, LedgerMarks, LedgerStutters DEF LedgerNext

-----------------------------------------------------------------------------
\* Every reachable state of the two ledgers satisfies the inductive invariant,
\* for fills and marks of any prices and sizes (apply_fill, apply and mark).
THEOREM LedgerInvariant == LedgerSpec => []LedgerInv
  <1>1. LedgerInit => LedgerInv
    BY LedgerBegins
  <1>2. LedgerInv /\ [LedgerNext]_ledgerVars => LedgerInv'
    BY LedgerSteps
  <1> QED
    BY <1>1, <1>2, PTL DEF LedgerSpec

\* The ledgers' amounts, costs and PnL stay integers and a flat position keeps
\* no cost, whatever fills.
THEOREM LedgerTypeCorrect == LedgerSpec => []LedgerTypeOK
  <1>1. LedgerInv => LedgerTypeOK
    BY DEF LedgerInv
  <1> QED
    BY <1>1, LedgerInvariant, PTL

\* The audit's ledger (audit.PositionLedger.apply) makes and loses no money in
\* any fill: its realized PnL is the cash moved less the cost of what is held.
\* The shadow ledger (shadow.PositionLedger.apply_fill) agrees with it until a
\* fill closes a part of a position: additions, closes and turns are right.
THEOREM LedgersAlwaysReconcile == LedgerSpec => []LedgersReconcile
  <1>1. LedgerInv => LedgersReconcile
    BY DEF LedgerInv
  <1> QED
    BY <1>1, LedgerInvariant, PTL

\* Until then the paper equity after a mark is the cash moved and the position
\* at the mark, and the high-water mark is not below it.
THEOREM EquityReconciles == LedgerSpec => []EquityIsWorth
  <1>1. LedgerInv => EquityIsWorth
    BY DEF LedgerInv
  <1> QED
    BY <1>1, LedgerInvariant, PTL

-----------------------------------------------------------------------------
(* What a decision of the engine is made of. *)

EntryRecords == [phase : {"none", "resting", "filled"}, level : Levels \union {0}, price : Nat,
                 age : 0..MaxLifetime, stopping : {FALSE}]
ExitRecords == [status : {"none", "resting", "refused", "cancelled"}, price : Nat]

\* The places keep entries and exits, and what is due rests, in a cycle.
PlacesOK ==
    /\ entries \in [Slots -> EntryRecords] /\ exits \in [Slots -> ExitRecords]
    /\ \A e \in Slots : entries[e].level = 0 <=> e \in Free
    /\ \A e \in Slots : exits[e].status = "none" <=> e \notin Filled
    /\ due \subseteq Resting \union ExitsResting
    /\ pc # "filling" => due = {}
    /\ pc \in {"idle", "filling", "stopped"}
    /\ fill_model \in FillModels /\ market \in Quotes
    /\ completed_cycles \in Nat
    /\ amount \in Int /\ cash \in Int

\* The exit of an entry is at a profit, from the time the entry is created.
ExitsAtProfit ==
    \A e \in Slots \ Free : IF Buy(entries[e].level)
                            THEN exits[e].price >= entries[e].price + 1
                            ELSE exits[e].price <= entries[e].price - 1

\* A level has one entry.
OneEntryPerLevel ==
    \A e, f \in Resting \union Filled : entries[e].level = entries[f].level => e = f

ShadowInv == PlacesOK /\ EntriesBackThePosition /\ ExitsAtProfit /\ CyclesProfit

-----------------------------------------------------------------------------
LEMMA Parameters ==
    /\ Buys \in Nat /\ Sells \in Nat /\ MaxTotal \in Nat /\ MaxLifetime \in Nat \ {0}
    /\ \A q \in Quotes : q.bid \in Nat /\ q.ask \in Nat /\ 0 < q.bid /\ q.bid < q.ask
    /\ \A s \in Shapes : s.prices \in [Levels -> Nat] /\ s.center \in Nat
    /\ Buys + Sells \in Nat /\ 0 \notin Levels
<1>1. Buys \in Nat /\ Sells \in Nat /\ MaxTotal \in Nat /\ MaxLifetime \in Nat \ {0}
  BY SessionAssumption
<1>2. \A q \in Quotes : q.bid \in Nat /\ q.ask \in Nat /\ 0 < q.bid /\ q.bid < q.ask
  BY SessionAssumption
<1>3. \A s \in Shapes : s.prices \in [Levels -> Nat] /\ s.center \in Nat
  BY SessionAssumption
<1> QED BY <1>1, <1>2, <1>3 DEF Levels

\* The fields of an entry, and what makes one.
LEMMA EntryFields ==
  /\ \A x \in EntryRecords : /\ x.phase \in {"none", "resting", "filled"}
                             /\ x.level \in Levels \union {0} /\ x.price \in Nat
                             /\ x.age \in 0..MaxLifetime /\ x.stopping = FALSE
  /\ \A phase \in {"none", "resting", "filled"}, level \in Levels \union {0}, price \in Nat :
       Entry(phase, level, price, 0) \in EntryRecords
  /\ \A x \in EntryRecords : \A age \in 0..MaxLifetime :
       [x EXCEPT !.age = age] \in EntryRecords
<1>1. 0 \in 0..MaxLifetime
  BY Parameters
<1> QED BY <1>1 DEF EntryRecords, Entry

LEMMA PlacesFinite == \A S \in SUBSET Slots : IsFiniteSet(S) /\ Cardinality(S) \in Nat
  BY SessionAssumption, FS_Subset, FS_CardinalityType

LEMMA LevelsFinite == \A C \in SUBSET Levels : IsFiniteSet(C) /\ Cardinality(C) \in Nat
<1>1. IsFiniteSet(Levels)
  <2>1. 1 \in Int /\ Buys + Sells \in Int
    BY Parameters
  <2> QED BY <2>1, FS_Interval DEF Levels
<1> QED BY <1>1, FS_Subset, FS_CardinalityType

\* A set of levels that is not empty has a last one.
LEMMA LastLevel ==
  ASSUME NEW S \in SUBSET Levels, S # {}
  PROVE  \E l \in S : \A m \in S : m # l => m < l
<1> DEFINE n == Buys + Sells
           R == {ss \in Nat \X Nat : ss[1] < ss[2]}
           T == {n - m : m \in S}
<1>0. n \in Nat /\ \A m \in S : m \in Int /\ n - m \in Nat
  BY Parameters DEF Levels
<1> HIDE DEF n
<1>1. T \in SUBSET Nat /\ T # {}
  BY <1>0
<1>2. IsWellFoundedOn(R, Nat)
  BY NatLessThanWellFounded DEF OpToRel
<1>3. PICK x \in T : \A y \in T : ~(<<y, x>> \in R)
  <2> HIDE DEF R, T
  <2> QED BY <1>1, <1>2, WFMin
<1>4. PICK l \in S : x = n - l
  BY <1>3
<1>5. ASSUME NEW m \in S, m # l PROVE m < l
  <2>1. n - m \in T /\ n - m \in Nat /\ n - l \in Nat
    BY <1>0, <1>4
  <2>2. ~(<<n - m, n - l>> \in R)
    BY <1>3, <1>4, <2>1
  <2>3. ~(n - m < n - l)
    BY <2>1, <2>2
  <2> QED BY <1>0, <1>5, <2>3
<1> QED BY <1>5

\* The operators of the controller that a decision uses, in the engine's terms.
LEMMA ControllersTerms ==
  ASSUME PlacesOK, NEW plan
  PROVE  /\ \A S : Stage5(plan)!Cardinality(S) = Cardinality(S)
         /\ Stage5(plan)!Resting = Resting /\ Stage5(plan)!Active = Slots \ Free
         /\ Stage5(plan)!Missing
              = {l \in Levels : Stage5(plan)!DesiredPrice(l) # 0}
                  \ {entries[e].level : e \in Slots \ Free}
         /\ Stage5(plan)!Stops \subseteq Resting
<1>1. \A S : Stage5(plan)!Cardinality(S) = Cardinality(S)
  BY DEF Stage5!Cardinality, Cardinality
<1>2. Stage5(plan)!Resting = Resting
  BY DEF Stage5!Resting, Resting
<1>3. Stage5(plan)!Active = Slots \ Free
  BY DEF Stage5!Active, Free, PlacesOK, EntryRecords
<1>4. Stage5(plan)!Missing = {l \in Levels : Stage5(plan)!DesiredPrice(l) # 0}
                               \ {entries[e].level : e \in Slots \ Free}
  BY <1>3 DEF Stage5!Missing, Stage5!Levels, Levels, Stage5!LevelsOf
<1>5. Stage5(plan)!Stops \subseteq Resting
  BY <1>2 DEF Stage5!Stops
<1> QED BY <1>1, <1>2, <1>3, <1>4, <1>5

\* The desired price is at least a tick, and a sell's two.
LEMMA PriceOfLevel ==
  ASSUME PlacesOK, NEW plan, plan.prices \in [Levels -> Nat], NEW l \in Levels,
         Stage5(plan)!DesiredPrice(l) # 0
  PROVE  /\ Stage5(plan)!DesiredPrice(l) \in Nat
         /\ ~Buy(l) => Stage5(plan)!DesiredPrice(l) >= 2
<1>1. plan.prices[l] \in Nat /\ plan.prices[l] # 0
  BY DEF Stage5!DesiredPrice
<1>2. market.bid \in Nat /\ market.ask \in Nat /\ 0 < market.bid
  BY Parameters DEF PlacesOK
<1>3. Stage5(plan)!DesiredPrice(l) = Stage5(plan)!MakerPrice(l, plan.prices[l])
  BY <1>1 DEF Stage5!DesiredPrice
<1> QED BY <1>1, <1>2, <1>3 DEF Stage5!MakerPrice, Stage5!Buy, Buy

\* _adjacent_tp is at a profit.
LEMMA AdjacentIsProfit ==
  ASSUME NEW plan, plan.prices \in [Levels -> Nat], plan.center \in Nat, NEW l \in Levels,
         NEW price \in Nat, ~Buy(l) => price >= 2
  PROVE  /\ AdjacentTp(plan, l, price) \in Nat
         /\ IF Buy(l) THEN AdjacentTp(plan, l, price) >= price + 1
                      ELSE AdjacentTp(plan, l, price) <= price - 1
<1> DEFINE target == InnerPrice(plan, l)
<1>1. target \in Nat
  <2>1. l \notin {1, Buys + 1} => l - 1 \in Levels
    BY Parameters DEF Levels
  <2> QED BY <2>1 DEF InnerPrice
<1>2. AdjacentTp(plan, l, price) =
        IF target = 0 \/ (IF Buy(l) THEN target <= price ELSE target >= price)
        THEN (IF Buy(l) THEN price + 1 ELSE price - 1) ELSE target
  BY DEF AdjacentTp
<1> HIDE DEF target
<1> QED BY <1>1, <1>2

\* A place of a decision takes the entry of a level, with its take profit; or
\* its entry is stopped; or it stays as it is.
Takes(e, l, plan) ==
    /\ entries'[e] = Entry("resting", l, Stage5(plan)!DesiredPrice(l), 0)
    /\ exits'[e] = Exit("none", AdjacentTp(plan, l, Stage5(plan)!DesiredPrice(l)))
Loses(e) == e \in Resting /\ entries'[e] = NoEntry /\ exits'[e] = NoExit
Stays(e) == entries'[e] = entries[e] /\ exits'[e] = exits[e]

\* A decision, taken apart, that creates the entries of some levels at free places.
Creates(plan, C, at) ==
    /\ plan.prices \in [Levels -> Nat] /\ plan.center \in Nat
    /\ C \in SUBSET Levels /\ C \subseteq Stage5(plan)!Missing
    /\ C # {} => \E l \in C : Stage5(plan)!Admitted(l, C \ {l})
    /\ at \in [C -> Free] /\ \A l, m \in C : at[l] = at[m] => l = m
    /\ \A e \in Slots : (\E l \in C : at[l] = e /\ Takes(e, l, plan)) \/ Loses(e) \/ Stays(e)

LEMMA DecisionCreates ==
  ASSUME PlacesOK, Decide
  PROVE  \E plan, C, at : Creates(plan, C, at)
<1>1. PICK shape \in Shapes, allowed \in SUBSET Levels, C \in SUBSET Levels :
          LET plan == [ok |-> shape.ok, significant |-> shape.significant, soft |-> shape.soft,
                       age |-> 0, prices |-> shape.prices, center |-> shape.center]
              stops == Stage5(plan)!Stops
          IN  /\ Created(plan, allowed, C)
              /\ \E at \in [C -> Free] :
                    LET levelOf(e) == CHOOSE l \in C : at[l] = e
                        price(e) == Stage5(plan)!DesiredPrice(levelOf(e))
                        new == {at[l] : l \in C}
                    IN  /\ \A l, m \in C : at[l] = at[m] => l = m
                        /\ entries' = [e \in Slots |->
                              IF e \in new THEN Entry("resting", levelOf(e), price(e), 0)
                              ELSE EntriesWithout(stops)[e]]
                        /\ exits' = [e \in Slots |->
                              IF e \in new
                              THEN Exit("none", AdjacentTp(plan, levelOf(e), price(e)))
                              ELSE ExitsWithout(stops)[e]]
  BY DEF Decide
<1> DEFINE plan == [ok |-> shape.ok, significant |-> shape.significant, soft |-> shape.soft,
                    age |-> 0, prices |-> shape.prices, center |-> shape.center]
           stops == Stage5(plan)!Stops
<1>2. plan.prices \in [Levels -> Nat] /\ plan.center \in Nat
  BY Parameters
<1> HIDE DEF plan
<1>3. PICK at \in [C -> Free] :
        /\ \A l, m \in C : at[l] = at[m] => l = m
        /\ entries' = [e \in Slots |->
              IF e \in {at[l] : l \in C}
              THEN Entry("resting", CHOOSE l \in C : at[l] = e,
                         Stage5(plan)!DesiredPrice(CHOOSE l \in C : at[l] = e), 0)
              ELSE EntriesWithout(stops)[e]]
        /\ exits' = [e \in Slots |->
              IF e \in {at[l] : l \in C}
              THEN Exit("none", AdjacentTp(plan, CHOOSE l \in C : at[l] = e,
                                Stage5(plan)!DesiredPrice(CHOOSE l \in C : at[l] = e)))
              ELSE ExitsWithout(stops)[e]]
  BY <1>1 DEF plan
<1>4. Created(plan, allowed, C)
  BY <1>1 DEF plan
<1>5. ASSUME NEW e \in Slots
      PROVE  (\E l \in C : at[l] = e /\ Takes(e, l, plan)) \/ Loses(e) \/ Stays(e)
  <2>1. CASE e \in {at[l] : l \in C}
    <3>1. PICK l \in C : at[l] = e
      BY <2>1
    <3>2. (CHOOSE m \in C : at[m] = e) = l
      BY <1>3, <3>1
    <3> QED BY <1>3, <2>1, <3>1, <3>2 DEF Takes
  <2>2. CASE e \notin {at[l] : l \in C} /\ e \in stops
    <3>1. e \in Resting /\ e \notin Filled
      BY <2>2, ControllersTerms DEF Resting, Filled
    <3>2. entries'[e] = NoEntry /\ exits'[e] = NoExit
      BY <1>3, <2>2, <3>1 DEF EntriesWithout, ExitsWithout
    <3> QED BY <3>1, <3>2 DEF Loses
  <2>3. CASE e \notin {at[l] : l \in C} /\ e \notin stops
    BY <1>3, <2>3 DEF Stays, EntriesWithout, ExitsWithout
  <2> QED BY <2>1, <2>2, <2>3
<1>6. C \subseteq Stage5(plan)!Missing
  BY <1>4 DEF Created
<1>7. ASSUME C # {} PROVE \E l \in C : Stage5(plan)!Admitted(l, C \ {l})
  <2>1. PICK l \in C : \A m \in C : m # l => m < l
    BY <1>7, LastLevel
  <2>2. Stage5(plan)!Admitted(l, {m \in C : m < l})
    BY <1>4, <1>6, <1>7 DEF Created
  <2>3. {m \in C : m < l} = C \ {l}
    <3>1. ~(l < l)
      BY DEF Levels
    <3> QED BY <2>1, <3>1
  <2> QED BY <2>2, <2>3
<1> QED BY <1>2, <1>3, <1>5, <1>6, <1>7 DEF Creates

\* A decision leaves what has filled as it was, gives no level a second entry,
\* and gives each new entry an exit at a profit.
LEMMA DecideStep ==
  ASSUME PlacesOK, ExitsAtProfit, OneEntryPerLevel, Decide
  PROVE  /\ PlacesOK' /\ ExitsAtProfit' /\ OneEntryPerLevel'
         /\ Filled' = Filled /\ \A e \in Filled : entries'[e] = entries[e]
<1>1. PICK plan, C, at : Creates(plan, C, at)
  BY DecisionCreates
<1> DEFINE price(l) == Stage5(plan)!DesiredPrice(l)
<1>2. \A e \in Slots : (\E l \in C : at[l] = e /\ Takes(e, l, plan)) \/ Loses(e) \/ Stays(e)
  BY <1>1 DEF Creates
<1>3. \A l \in C : \A e \in Slots : Takes(e, l, plan) =>
         /\ entries'[e] = Entry("resting", l, price(l), 0)
         /\ exits'[e] = Exit("none", AdjacentTp(plan, l, price(l)))
  BY DEF Takes
<1>4. \A l \in C : /\ l \in Levels /\ price(l) \in Nat
                   /\ ~Buy(l) => price(l) >= 2
                   /\ \A e \in Slots \ Free : entries[e].level # l
  <2> TAKE l \in C
  <2>1. l \in Levels /\ price(l) # 0 /\ \A e \in Slots \ Free : entries[e].level # l
    BY <1>1, ControllersTerms DEF Creates
  <2> QED BY <1>1, <2>1, PriceOfLevel DEF Creates
<1> HIDE DEF price
<1>5. \A l \in C : /\ AdjacentTp(plan, l, price(l)) \in Nat
                   /\ IF Buy(l) THEN AdjacentTp(plan, l, price(l)) >= price(l) + 1
                                ELSE AdjacentTp(plan, l, price(l)) <= price(l) - 1
  <2> TAKE l \in C
  <2> QED BY <1>1, <1>4, AdjacentIsProfit DEF Creates
<1> DEFINE Profit(e) == IF Buy(entries'[e].level)
                        THEN exits'[e].price >= entries'[e].price + 1
                        ELSE exits'[e].price <= entries'[e].price - 1
           New(e) == \E l \in C : at[l] = e /\ entries'[e].level = l
           Old(e) == entries[e].phase # "none" /\ Stays(e)
<1>6. ASSUME NEW e \in Slots
      PROVE  /\ entries'[e] \in EntryRecords /\ exits'[e] \in ExitRecords
             /\ entries'[e].level = 0 <=> entries'[e].phase = "none"
             /\ exits'[e].status = "none" <=> entries'[e].phase # "filled"
             /\ entries'[e].phase = "filled" <=> entries[e].phase = "filled"
             /\ entries[e].phase = "filled" => Stays(e)
             /\ entries'[e].phase # "none" => Profit(e) /\ (New(e) \/ Old(e))
  <2>1. /\ entries[e] \in EntryRecords /\ exits[e] \in ExitRecords
        /\ entries[e].level = 0 <=> entries[e].phase = "none"
        /\ exits[e].status = "none" <=> entries[e].phase # "filled"
    BY DEF PlacesOK, Free, Filled
  <2>2. CASE \E l \in C : at[l] = e /\ Takes(e, l, plan)
    <3>1. PICK l \in C : at[l] = e /\ Takes(e, l, plan)
      BY <2>2
    <3> DEFINE tp == AdjacentTp(plan, l, price(l))
    <3>2. /\ entries'[e] = [phase |-> "resting", level |-> l, price |-> price(l), age |-> 0,
                            stopping |-> FALSE]
          /\ exits'[e] = [status |-> "none", price |-> tp]
      BY <1>3, <3>1 DEF Entry, Exit
    <3>3. /\ l \in Levels /\ l # 0 /\ price(l) \in Nat /\ tp \in Nat
          /\ IF Buy(l) THEN tp >= price(l) + 1 ELSE tp <= price(l) - 1
      BY <1>4, <1>5, Parameters
    <3> HIDE DEF tp
    <3>4. entries'[e] \in EntryRecords /\ exits'[e] \in ExitRecords
      BY <3>2, <3>3, Parameters DEF EntryRecords, ExitRecords
    <3>5. entries[e].phase = "none"
      BY <1>1, <3>1 DEF Creates, Free
    <3> QED BY <3>1, <3>2, <3>3, <3>4, <3>5
  <2>3. CASE Loses(e)
    <3>1. /\ entries'[e] = [phase |-> "none", level |-> 0, price |-> 0, age |-> 0,
                            stopping |-> FALSE]
          /\ exits'[e] = [status |-> "none", price |-> 0]
          /\ entries[e].phase = "resting"
      BY <2>3 DEF Loses, Entry, Exit, NoEntry, NoExit, Resting
    <3>2. entries'[e] \in EntryRecords /\ exits'[e] \in ExitRecords
      BY <3>1, Parameters DEF EntryRecords, ExitRecords
    <3> QED BY <3>1, <3>2
  <2>4. CASE Stays(e)
    <3>1. entries'[e] = entries[e] /\ exits'[e] = exits[e]
      BY <2>4 DEF Stays
    <3>2. entries[e].phase # "none" => Profit(e)
      BY <3>1 DEF ExitsAtProfit, Free
    <3> QED BY <2>1, <2>4, <3>1, <3>2
  <2> QED BY <1>2, <2>2, <2>3, <2>4
<1>7. /\ entries' = [e \in Slots |-> entries'[e]] /\ exits' = [e \in Slots |-> exits'[e]]
      /\ pc = "filling" /\ due = {} /\ pc' = "idle" /\ due' = {} /\ amount' = amount
      /\ cash' = cash /\ UNCHANGED <<fill_model, market, completed_cycles>>
  BY DEF Decide, Mark
<1>8. /\ Free' = {e \in Slots : entries'[e].phase = "none"}
      /\ Filled' = {e \in Slots : entries'[e].phase = "filled"}
      /\ Resting' = {e \in Slots : entries'[e].phase = "resting"}
  BY DEF Free, Filled, Resting
<1>9. Filled' = Filled /\ \A e \in Filled : entries'[e] = entries[e]
  BY <1>6, <1>8 DEF Filled, Stays
<1>10. PlacesOK'
  <2>1. entries' \in [Slots -> EntryRecords] /\ exits' \in [Slots -> ExitRecords]
    BY <1>6, <1>7
  <2>2. (\A e \in Slots : entries[e].level = 0 <=> e \in Free)'
    BY <1>6, <1>8
  <2>3. (\A e \in Slots : exits[e].status = "none" <=> e \notin Filled)'
    BY <1>6, <1>8
  <2> QED BY <1>7, <2>1, <2>2, <2>3 DEF PlacesOK
<1>11. ExitsAtProfit'
  BY <1>6, <1>8 DEF ExitsAtProfit, Buy
<1>12. ASSUME NEW e \in (Resting \union Filled)', NEW f \in (Resting \union Filled)',
              entries'[e].level = entries'[f].level
       PROVE  e = f
  <2>1. e \in Slots /\ f \in Slots /\ (New(e) \/ Old(e)) /\ (New(f) \/ Old(f))
    BY <1>6, <1>8
  <2>2. \A g \in Slots : Old(g) => /\ g \in Resting \union Filled /\ g \in Slots \ Free
                                   /\ entries'[g].level = entries[g].level
    BY DEF Stays, PlacesOK, EntryRecords, Resting, Filled, Free
  <2>3. CASE New(e) /\ New(f)
    BY <1>1, <1>12, <2>3 DEF Creates
  <2>4. CASE Old(e) /\ Old(f)
    BY <1>12, <2>1, <2>2, <2>4 DEF OneEntryPerLevel
  <2>5. CASE (New(e) /\ Old(f)) \/ (Old(e) /\ New(f))
    BY <1>4, <1>12, <2>1, <2>2, <2>5
  <2> QED BY <2>1, <2>3, <2>4, <2>5
<1> QED BY <1>9, <1>10, <1>11, <1>12 DEF OneEntryPerLevel

-----------------------------------------------------------------------------
(* What the entries that have filled come to: E keeps entries at the places. *)

TicksOf(E, S) == Cardinality(UNION {{e} \X (1..E[e].price) : e \in S})

NetOf(E, S) == Cardinality({e \in S : Buy(E[e].level)}) - Cardinality({e \in S : ~Buy(E[e].level)})
CostOf(E, S) == TicksOf(E, {e \in S : Buy(E[e].level)}) - TicksOf(E, {e \in S : ~Buy(E[e].level)})

\* The ticks of some entries and of one more.
LEMMA OneMoreTicks ==
  ASSUME NEW E \in [Slots -> EntryRecords], NEW S \in SUBSET Slots, NEW e \in Slots \ S
  PROVE  TicksOf(E, S) \in Nat /\ TicksOf(E, S \union {e}) = TicksOf(E, S) + E[e].price
<1> DEFINE coins(d) == {d} \X (1..E[d].price)
           all == {coins(d) : d \in S}
           g == [d \in S |-> coins(d)]
<1>1. \A d \in Slots : E[d].price \in Nat /\ IsFiniteSet(coins(d)) /\ Cardinality(coins(d)) = E[d].price
  <2> TAKE d \in Slots
  <2>0. E[d] \in EntryRecords
    OBVIOUS
  <2>1. 1 \in Int /\ E[d].price \in Int /\ E[d].price \in Nat
    BY <2>0 DEF EntryRecords
  <2>2. IsFiniteSet(1..E[d].price) /\ Cardinality(1..E[d].price) = E[d].price
    BY <2>1, FS_Interval
  <2>3. IsFiniteSet({d}) /\ Cardinality({d}) = 1
    BY FS_Singleton
  <2>4. IsFiniteSet(coins(d)) /\ Cardinality(coins(d)) = 1 * E[d].price
    BY <2>2, <2>3, FS_Product
  <2> QED BY <2>1, <2>4
<1>2. IsFiniteSet(all)
  <2>1. g \in Surjection(S, all)
    BY DEF Surjection
  <2> QED BY <2>1, PlacesFinite, FS_Surjection
<1>3. IsFiniteSet(UNION all)
  BY <1>1, <1>2, FS_UNION
<1>4. UNION {coins(d) : d \in S \union {e}} = (UNION all) \union coins(e)
  OBVIOUS
<1>5. (UNION all) \cap coins(e) = {}
  OBVIOUS
<1>6. TicksOf(E, S) = Cardinality(UNION all)
      /\ TicksOf(E, S \union {e}) = Cardinality((UNION all) \union coins(e))
  BY <1>4 DEF TicksOf
<1> HIDE DEF coins, all
<1>7. Cardinality((UNION all) \union coins(e))
        = Cardinality(UNION all) + Cardinality(coins(e)) - Cardinality({})
  BY <1>1, <1>3, <1>5, FS_Union
<1>8. /\ Cardinality(UNION all) \in Nat /\ Cardinality({}) = 0
      /\ Cardinality(coins(e)) = E[e].price /\ E[e].price \in Nat
  BY <1>1, <1>3, FS_CardinalityType, FS_EmptySet
<1> QED BY <1>6, <1>7, <1>8

\* One more entry that has filled.
LEMMA OneMoreFilled ==
  ASSUME NEW E \in [Slots -> EntryRecords], NEW S \in SUBSET Slots, NEW e \in Slots \ S
  PROVE  /\ NetOf(E, S) \in Int /\ CostOf(E, S) \in Int
         /\ NetOf(E, S \union {e}) = NetOf(E, S) + (IF Buy(E[e].level) THEN 1 ELSE -1)
         /\ CostOf(E, S \union {e})
              = CostOf(E, S) + (IF Buy(E[e].level) THEN E[e].price ELSE -E[e].price)
<1> DEFINE T == S \union {e}
           buys(U) == {d \in U : Buy(E[d].level)}
           sells(U) == {d \in U : ~Buy(E[d].level)}
<1>1. /\ buys(S) \in SUBSET Slots /\ sells(S) \in SUBSET Slots
      /\ e \in Slots \ buys(S) /\ e \in Slots \ sells(S) /\ E[e].price \in Nat
  BY DEF EntryRecords
<1>2. IF Buy(E[e].level) THEN buys(T) = buys(S) \union {e} /\ sells(T) = sells(S)
                         ELSE buys(T) = buys(S) /\ sells(T) = sells(S) \union {e}
  OBVIOUS
<1>3. /\ NetOf(E, S) = Cardinality(buys(S)) - Cardinality(sells(S))
      /\ NetOf(E, T) = Cardinality(buys(T)) - Cardinality(sells(T))
      /\ CostOf(E, S) = TicksOf(E, buys(S)) - TicksOf(E, sells(S))
      /\ CostOf(E, T) = TicksOf(E, buys(T)) - TicksOf(E, sells(T))
  BY DEF NetOf, CostOf
<1> HIDE DEF buys, sells, T
<1>4. /\ IsFiniteSet(buys(S)) /\ IsFiniteSet(sells(S))
      /\ Cardinality(buys(S)) \in Nat /\ Cardinality(sells(S)) \in Nat
  BY <1>1, PlacesFinite
<1>5. /\ Cardinality(buys(S) \union {e}) = Cardinality(buys(S)) + 1
      /\ Cardinality(sells(S) \union {e}) = Cardinality(sells(S)) + 1
  BY <1>1, <1>4, FS_AddElement
<1>6. /\ TicksOf(E, buys(S)) \in Nat /\ TicksOf(E, sells(S)) \in Nat
      /\ TicksOf(E, buys(S) \union {e}) = TicksOf(E, buys(S)) + E[e].price
      /\ TicksOf(E, sells(S) \union {e}) = TicksOf(E, sells(S)) + E[e].price
  BY <1>1, OneMoreTicks
<1>7. NetOf(E, S) \in Int /\ CostOf(E, S) \in Int
  BY <1>3, <1>4, <1>6
<1>8. CASE Buy(E[e].level)
  <2>1. buys(T) = buys(S) \union {e} /\ sells(T) = sells(S)
    BY <1>2, <1>8
  <2>2. NetOf(E, T) = NetOf(E, S) + 1
    BY <1>3, <1>4, <1>5, <2>1
  <2>3. CostOf(E, T) = CostOf(E, S) + E[e].price
    BY <1>1, <1>3, <1>6, <2>1
  <2> QED BY <1>8, <1>7, <2>2, <2>3 DEF T
<1>9. CASE ~Buy(E[e].level)
  <2>1. buys(T) = buys(S) /\ sells(T) = sells(S) \union {e}
    BY <1>2, <1>9
  <2>2. NetOf(E, T) = NetOf(E, S) + (-1)
    BY <1>3, <1>4, <1>5, <2>1
  <2>3. CostOf(E, T) = CostOf(E, S) + (-E[e].price)
    BY <1>1, <1>3, <1>6, <2>1
  <2> QED BY <1>9, <1>7, <2>2, <2>3 DEF T
<1> QED BY <1>8, <1>9

\* Entries of the same levels and prices come to the same.
LEMMA SameEntries ==
  ASSUME NEW E, NEW F, NEW S,
         \A e \in S : E[e].level = F[e].level /\ E[e].price = F[e].price
  PROVE  NetOf(E, S) = NetOf(F, S) /\ CostOf(E, S) = CostOf(F, S)
<1>1. /\ {e \in S : Buy(E[e].level)} = {e \in S : Buy(F[e].level)}
      /\ {e \in S : ~Buy(E[e].level)} = {e \in S : ~Buy(F[e].level)}
  OBVIOUS
<1>2. \A T \in SUBSET S : TicksOf(E, T) = TicksOf(F, T)
  <2> TAKE T \in SUBSET S
  <2>1. {{e} \X (1..E[e].price) : e \in T} = {{e} \X (1..F[e].price) : e \in T}
    OBVIOUS
  <2> QED BY <2>1 DEF TicksOf
<1> QED BY <1>1, <1>2 DEF NetOf, CostOf

\* A total of ticks is a number.
LEMMA TicksAreNat ==
  ASSUME NEW E \in [Slots -> EntryRecords], NEW S \in SUBSET Slots
  PROVE  TicksOf(E, S) \in Nat
<1>1. CASE S = Slots
  <2>1. CASE S = {}
    <3>1. UNION {{e} \X (1..E[e].price) : e \in S} = {}
      BY <2>1
    <3> QED BY <3>1, FS_EmptySet DEF TicksOf
  <2>2. CASE S # {}
    <3>1. PICK e \in S : TRUE
      BY <2>2
    <3>2. e \in Slots \ (S \ {e}) /\ S = (S \ {e}) \union {e} /\ E[e] \in EntryRecords
      BY <3>1
    <3>3. TicksOf(E, S \ {e}) \in Nat /\ TicksOf(E, S) = TicksOf(E, S \ {e}) + E[e].price
      BY <3>2, OneMoreTicks
    <3> QED BY <3>2, <3>3 DEF EntryRecords
  <2> QED BY <2>1, <2>2
<1>2. CASE S # Slots
  <2>1. PICK e \in Slots : e \notin S
    BY <1>2
  <2> QED BY <2>1, OneMoreTicks
<1> QED BY <1>1, <1>2

\* The two invariants in these terms.
TotalsOK ==
    /\ NetOf(entries, Filled) \in Int /\ CostOf(entries, Filled) \in Int
    /\ EntriesBackThePosition <=> amount = NetOf(entries, Filled) /\ OneEntryPerLevel
    /\ CyclesProfit <=> cash + CostOf(entries, Filled) >= completed_cycles

LEMMA Totals == PlacesOK => TotalsOK
<1> SUFFICES ASSUME PlacesOK PROVE TotalsOK
  OBVIOUS
<1> DEFINE buys == {e \in Filled : Buy(entries[e].level)}
           sells == {e \in Filled : ~Buy(entries[e].level)}
<1>1. /\ entries \in [Slots -> EntryRecords]
      /\ buys \in SUBSET Slots /\ sells \in SUBSET Slots
  BY DEF PlacesOK, Filled
<1>2. /\ NetOf(entries, Filled) = Cardinality(buys) - Cardinality(sells)
      /\ CostOf(entries, Filled) = Ticks(buys) - Ticks(sells)
  BY DEF NetOf, CostOf, Ticks, TicksOf
<1>3. EntriesBackThePosition <=> amount = NetOf(entries, Filled) /\ OneEntryPerLevel
  BY <1>2 DEF EntriesBackThePosition, OneEntryPerLevel
<1>4. CyclesProfit <=> cash + Ticks(buys) - Ticks(sells) >= completed_cycles
  BY DEF CyclesProfit
<1> HIDE DEF buys, sells
<1>5. Ticks(buys) \in Nat /\ Ticks(sells) \in Nat
  <2>1. Ticks(buys) = TicksOf(entries, buys) /\ Ticks(sells) = TicksOf(entries, sells)
    BY DEF Ticks, TicksOf
  <2> QED BY <1>1, <2>1, TicksAreNat
<1>6. Cardinality(buys) \in Nat /\ Cardinality(sells) \in Nat
  BY <1>1, PlacesFinite
<1>7. cash \in Int /\ completed_cycles \in Int
  BY DEF PlacesOK
<1> QED BY <1>2, <1>3, <1>4, <1>5, <1>6, <1>7 DEF TotalsOK

LEMMA TotalsAfter == PlacesOK' => TotalsOK'
  BY Totals, PTL

-----------------------------------------------------------------------------
(* The steps *)

\* A step that fills nothing keeps what has filled, and with it the totals.
LEMMA QuietStep ==
  ASSUME ShadowInv, PlacesOK', ExitsAtProfit', OneEntryPerLevel', Filled' = Filled,
         \A e \in Filled : entries'[e].level = entries[e].level /\ entries'[e].price = entries[e].price,
         UNCHANGED <<amount, cash, completed_cycles>>
  PROVE  ShadowInv'
<1>1. NetOf(entries', Filled') = NetOf(entries, Filled)
      /\ CostOf(entries', Filled') = CostOf(entries, Filled)
  BY SameEntries
<1> QED BY <1>1, Totals, TotalsAfter DEF ShadowInv, TotalsOK

LEMMA ReceiveStep ==
  ASSUME ShadowInv, Receive
  PROVE  ShadowInv'
<1>1. PICK quote \in Quotes : market' = quote
  BY DEF Receive
<1>2. /\ PlacesOK /\ ExitsAtProfit /\ OneEntryPerLevel
      /\ entries \in [Slots -> EntryRecords]
  BY DEF ShadowInv, EntriesBackThePosition, OneEntryPerLevel, PlacesOK
<1>3. ASSUME NEW e \in Slots
      PROVE  /\ entries'[e] \in EntryRecords
             /\ entries'[e].phase = entries[e].phase
             /\ entries'[e].level = entries[e].level
             /\ entries'[e].price = entries[e].price
  <2>1. entries'[e] = entries[e]
        \/ (entries[e].age < MaxLifetime
            /\ entries'[e] = [entries[e] EXCEPT !.age = entries[e].age + 1])
    BY DEF Receive
  <2>2. entries[e] \in EntryRecords
    BY <1>2
  <2>3. entries[e].age < MaxLifetime => entries[e].age + 1 \in 0..MaxLifetime
    BY <2>2, Parameters, EntryFields
  <2>4. entries'[e] \in EntryRecords
    BY <2>1, <2>2, <2>3, EntryFields
  <2>5. /\ entries'[e].phase = entries[e].phase
        /\ entries'[e].level = entries[e].level
        /\ entries'[e].price = entries[e].price
    BY <2>1, <2>2 DEF EntryRecords
  <2> QED BY <2>4, <2>5
<1>4. /\ entries' = [e \in Slots |-> entries'[e]]
      /\ pc' = "filling" /\ UNCHANGED <<fill_model, exits, completed_cycles, amount, cash>>
      /\ due' \subseteq Resting \union ExitsResting
  BY DEF Receive, ledgerVars
<1>5. Free' = Free /\ Filled' = Filled /\ Resting' = Resting /\ ExitsResting' = ExitsResting
  BY <1>3, <1>4 DEF Free, Filled, Resting, ExitsResting
<1>6. PlacesOK'
  <2>1. entries' \in [Slots -> EntryRecords]
    BY <1>3, <1>4
  <2>2. (\A e \in Slots : entries[e].level = 0 <=> e \in Free)'
    BY <1>2, <1>3, <1>5 DEF PlacesOK
  <2>3. (\A e \in Slots : exits[e].status = "none" <=> e \notin Filled)'
    BY <1>2, <1>4, <1>5 DEF PlacesOK
  <2> QED BY <1>1, <1>2, <1>4, <1>5, <2>1, <2>2, <2>3 DEF PlacesOK
<1>7. ExitsAtProfit'
  BY <1>2, <1>3, <1>4, <1>5 DEF ExitsAtProfit, Buy
<1>8. OneEntryPerLevel'
  BY <1>2, <1>3, <1>5 DEF OneEntryPerLevel, Resting, Filled
<1>9. \A e \in Filled : entries'[e].level = entries[e].level /\ entries'[e].price = entries[e].price
  BY <1>3 DEF Filled
<1> QED BY <1>4, <1>5, <1>6, <1>7, <1>8, <1>9, QuietStep

\* An order that is due is an entry, or the exit of one that has filled.
LEMMA DueOrders ==
  ASSUME PlacesOK, NEW e \in due
  PROVE  e \in Slots /\ (e \notin Filled => e \in Resting)
BY DEF PlacesOK, Resting, ExitsResting, Filled

\* An entry fills: the position and what was paid for it grow by the entry.
LEMMA FillEntryStep ==
  ASSUME ShadowInv, FillDue, NEW e \in due, due' = due \ {e}, e \notin Filled, FillEntry(e)
  PROVE  ShadowInv' /\ Resting' = Resting \ {e} /\ e \in Resting
<1>1. /\ PlacesOK /\ ExitsAtProfit /\ OneEntryPerLevel
      /\ amount = NetOf(entries, Filled) /\ cash + CostOf(entries, Filled) >= completed_cycles
  BY Totals DEF ShadowInv, TotalsOK
<1>2. e \in Slots /\ e \in Resting /\ entries[e].phase = "resting"
  BY <1>1, DueOrders DEF Resting
<1> DEFINE entry == Entry("filled", entries[e].level, entries[e].price, 0)
           status == CreatedAs(Opposite(EntrySide(e)), exits[e].price)
<1>3. /\ entries' = [entries EXCEPT ![e] = entry]
      /\ exits' = [exits EXCEPT ![e].status = status]
      /\ pc = "filling" /\ due' = due \ {e}
      /\ UNCHANGED <<fill_model, market, pc, completed_cycles>>
  BY DEF FillEntry, FillDue
<1>4. /\ entries \in [Slots -> EntryRecords] /\ exits \in [Slots -> ExitRecords]
      /\ entries[e] \in EntryRecords /\ exits[e] \in ExitRecords
  BY <1>1, <1>2 DEF PlacesOK
<1>5. status \in {"resting", "refused"}
  BY DEF CreatedAs
<1>6. entry \in EntryRecords /\ entry.phase = "filled" /\ entry.level = entries[e].level
      /\ entry.price = entries[e].price
  BY <1>4, EntryFields DEF Entry
<1> HIDE DEF entry, status
<1>7. /\ entries' \in [Slots -> EntryRecords]
      /\ \A d \in Slots : entries'[d] = IF d = e THEN entry ELSE entries[d]
  BY <1>2, <1>3, <1>4, <1>6
<1>8. /\ exits' \in [Slots -> ExitRecords]
      /\ \A d \in Slots : /\ exits'[d].price = exits[d].price
                          /\ exits'[d].status = IF d = e THEN status ELSE exits[d].status
  BY <1>2, <1>3, <1>4, <1>5 DEF ExitRecords
<1>9. Free' = Free /\ Filled' = Filled \union {e} /\ Resting' = Resting \ {e}
  BY <1>2, <1>6, <1>7 DEF Free, Filled, Resting
<1>10. amount' = amount + (IF Buy(entries[e].level) THEN 1 ELSE -1)
       /\ cash' = cash - (IF Buy(entries[e].level) THEN entries[e].price ELSE -entries[e].price)
  <2>1. entries[e].price \in Int
    BY <1>4, EntryFields
  <2>2. Delta(EntrySide(e), 1) = IF Buy(entries[e].level) THEN 1 ELSE -1
    BY DEF Delta, EntrySide
  <2>3. amount' = amount + Delta(EntrySide(e), 1)
        /\ cash' = cash - entries[e].price * Delta(EntrySide(e), 1)
    BY DEF FillEntry, Fill
  <2> QED BY <2>1, <2>2, <2>3
<1>11. PlacesOK'
  <2>1. due' \subseteq (Resting \union ExitsResting)'
    BY <1>1, <1>3, <1>8, <1>9 DEF PlacesOK, ExitsResting
  <2>2. (\A d \in Slots : entries[d].level = 0 <=> d \in Free)'
    BY <1>1, <1>6, <1>7, <1>9 DEF PlacesOK
  <2>3. (\A d \in Slots : exits[d].status = "none" <=> d \notin Filled)'
    BY <1>1, <1>5, <1>8, <1>9 DEF PlacesOK
  <2>4. amount' \in Int /\ cash' \in Int
    BY <1>1, <1>4, <1>10, EntryFields DEF PlacesOK
  <2> QED BY <1>1, <1>3, <1>7, <1>8, <2>1, <2>2, <2>3, <2>4 DEF PlacesOK
<1>12. ExitsAtProfit'
  BY <1>1, <1>6, <1>7, <1>8, <1>9 DEF ExitsAtProfit, Buy
<1>13. OneEntryPerLevel'
  BY <1>1, <1>2, <1>6, <1>7, <1>9 DEF OneEntryPerLevel, Resting, Filled
<1>14. /\ NetOf(entries', Filled') = NetOf(entries, Filled')
       /\ CostOf(entries', Filled') = CostOf(entries, Filled')
  <2>1. \A d \in Filled' : entries'[d].level = entries[d].level /\ entries'[d].price = entries[d].price
    BY <1>6, <1>7, <1>9 DEF Filled
  <2> QED BY <2>1, SameEntries
<1>15. /\ NetOf(entries, Filled) \in Int /\ CostOf(entries, Filled) \in Int
       /\ NetOf(entries, Filled') = NetOf(entries, Filled) + (IF Buy(entries[e].level) THEN 1 ELSE -1)
       /\ CostOf(entries, Filled') = CostOf(entries, Filled)
            + (IF Buy(entries[e].level) THEN entries[e].price ELSE -entries[e].price)
  <2>1. Filled \in SUBSET Slots /\ e \in Slots \ Filled
    BY <1>2 DEF Filled
  <2> QED BY <1>4, <1>9, <2>1, OneMoreFilled
<1>16. amount' = NetOf(entries', Filled')
  BY <1>1, <1>10, <1>14, <1>15
<1>17. cash' + CostOf(entries', Filled') = cash + CostOf(entries, Filled)
  <2>1. cash \in Int /\ entries[e].price \in Int
    BY <1>1, <1>4, EntryFields DEF PlacesOK
  <2> QED BY <1>10, <1>14, <1>15, <2>1
<1> QED BY <1>1, <1>2, <1>3, <1>9, <1>11, <1>12, <1>13, <1>16, <1>17, TotalsAfter DEF ShadowInv, TotalsOK

\* An exit fills: its entry goes out of the position, at a profit.
LEMMA FillExitStep ==
  ASSUME ShadowInv, FillDue, NEW e \in due, due' = due \ {e}, e \in Filled, FillExit(e)
  PROVE  ShadowInv' /\ entries'[e].phase = "none"
<1>1. /\ PlacesOK /\ ExitsAtProfit /\ OneEntryPerLevel
      /\ amount = NetOf(entries, Filled) /\ cash + CostOf(entries, Filled) >= completed_cycles
  BY Totals DEF ShadowInv, TotalsOK
<1>2. e \in Slots /\ e \in Slots \ Free
  BY DEF Filled, Free
<1>3. /\ entries' = [entries EXCEPT ![e] = NoEntry] /\ exits' = [exits EXCEPT ![e] = NoExit]
      /\ completed_cycles' = completed_cycles + 1
      /\ pc = "filling" /\ due' = due \ {e} /\ UNCHANGED <<fill_model, market, pc>>
  BY DEF FillExit, FillDue
<1>4. /\ entries \in [Slots -> EntryRecords] /\ exits \in [Slots -> ExitRecords]
      /\ entries[e] \in EntryRecords /\ exits[e] \in ExitRecords
  BY <1>1, <1>2 DEF PlacesOK
<1>5. /\ NoEntry \in EntryRecords /\ NoEntry.phase = "none" /\ NoEntry.level = 0
      /\ NoExit \in ExitRecords /\ NoExit.status = "none"
  BY EntryFields DEF NoEntry, NoExit, Entry, Exit, ExitRecords
<1>6. /\ entries' \in [Slots -> EntryRecords]
      /\ \A d \in Slots : entries'[d] = IF d = e THEN NoEntry ELSE entries[d]
  BY <1>2, <1>3, <1>4, <1>5
<1>7. /\ exits' \in [Slots -> ExitRecords]
      /\ \A d \in Slots : exits'[d] = IF d = e THEN NoExit ELSE exits[d]
  BY <1>2, <1>3, <1>4, <1>5
<1>8. Free' = Free \union {e} /\ Filled' = Filled \ {e} /\ Resting' = Resting
  <2>1. entries[e].phase = "filled"
    BY DEF Filled
  <2> QED BY <1>2, <1>5, <1>6, <2>1 DEF Free, Filled, Resting
<1>9. /\ entries[e].price \in Int /\ exits[e].price \in Int /\ amount \in Int /\ cash \in Int
      /\ completed_cycles \in Nat
  BY <1>1, <1>4, EntryFields DEF PlacesOK, ExitRecords
<1>10. /\ amount' = amount - (IF Buy(entries[e].level) THEN 1 ELSE -1)
       /\ cash' = cash + (IF Buy(entries[e].level) THEN exits[e].price ELSE -exits[e].price)
  <2>1. Delta(OrderSide(e), 1) = IF Buy(entries[e].level) THEN -1 ELSE 1
    BY DEF Delta, OrderSide, EntrySide, Opposite
  <2>2. amount' = amount + Delta(OrderSide(e), 1)
        /\ cash' = cash - exits[e].price * Delta(OrderSide(e), 1)
    BY DEF FillExit, Fill
  <2> QED BY <1>9, <2>1, <2>2
<1>11. PlacesOK'
  <2>1. due' \subseteq (Resting \union ExitsResting)'
    BY <1>1, <1>3, <1>7, <1>8 DEF PlacesOK, ExitsResting
  <2>2. (\A d \in Slots : entries[d].level = 0 <=> d \in Free)'
    BY <1>1, <1>5, <1>6, <1>8 DEF PlacesOK
  <2>3. (\A d \in Slots : exits[d].status = "none" <=> d \notin Filled)'
    BY <1>1, <1>5, <1>7, <1>8 DEF PlacesOK
  <2>4. amount' \in Int /\ cash' \in Int /\ completed_cycles' \in Nat
    BY <1>3, <1>9, <1>10
  <2> QED BY <1>1, <1>3, <1>6, <1>7, <2>1, <2>2, <2>3, <2>4 DEF PlacesOK
<1>12. ExitsAtProfit'
  BY <1>1, <1>6, <1>7, <1>8 DEF ExitsAtProfit, Buy
<1>13. OneEntryPerLevel'
  BY <1>1, <1>6, <1>8 DEF OneEntryPerLevel, Resting, Filled
<1>14. /\ NetOf(entries', Filled') = NetOf(entries, Filled')
       /\ CostOf(entries', Filled') = CostOf(entries, Filled')
  <2>1. \A d \in Filled' : entries'[d].level = entries[d].level /\ entries'[d].price = entries[d].price
    BY <1>6, <1>8 DEF Filled
  <2> QED BY <2>1, SameEntries
<1>15. /\ NetOf(entries, Filled') \in Int /\ CostOf(entries, Filled') \in Int
       /\ NetOf(entries, Filled) = NetOf(entries, Filled') + (IF Buy(entries[e].level) THEN 1 ELSE -1)
       /\ CostOf(entries, Filled) = CostOf(entries, Filled')
            + (IF Buy(entries[e].level) THEN entries[e].price ELSE -entries[e].price)
  <2> DEFINE rest == Filled \ {e}
  <2>1. rest \in SUBSET Slots /\ e \in Slots \ rest /\ Filled = rest \union {e}
    BY <1>2 DEF Filled
  <2> HIDE DEF rest
  <2>2. /\ NetOf(entries, rest) \in Int /\ CostOf(entries, rest) \in Int
        /\ NetOf(entries, Filled) = NetOf(entries, rest) + (IF Buy(entries[e].level) THEN 1 ELSE -1)
        /\ CostOf(entries, Filled) = CostOf(entries, rest)
             + (IF Buy(entries[e].level) THEN entries[e].price ELSE -entries[e].price)
    BY <1>4, <2>1, OneMoreFilled
  <2> QED BY <1>8, <2>2 DEF rest
<1>16. amount' = NetOf(entries', Filled')
  <2>1. CASE Buy(entries[e].level)
    BY <1>1, <1>10, <1>14, <1>15, <2>1
  <2>2. CASE ~Buy(entries[e].level)
    BY <1>1, <1>10, <1>14, <1>15, <2>2
  <2> QED BY <2>1, <2>2
<1>17. cash' + CostOf(entries', Filled') >= completed_cycles'
  <2>1. CASE Buy(entries[e].level)
    <3>1. exits[e].price >= entries[e].price + 1
      BY <1>1, <1>2, <2>1 DEF ExitsAtProfit
    <3> QED BY <1>1, <1>3, <1>9, <1>10, <1>14, <1>15, <2>1, <3>1
  <2>2. CASE ~Buy(entries[e].level)
    <3>1. exits[e].price <= entries[e].price - 1
      BY <1>1, <1>2, <2>2 DEF ExitsAtProfit
    <3> QED BY <1>1, <1>3, <1>9, <1>10, <1>14, <1>15, <2>2, <3>1
  <2> QED BY <2>1, <2>2
<1>18. entries'[e].phase = "none"
  BY <1>2, <1>5, <1>6
<1> QED BY <1>11, <1>12, <1>13, <1>16, <1>17, <1>18, TotalsAfter DEF ShadowInv, TotalsOK

LEMMA ShutdownStep ==
  ASSUME ShadowInv, Shutdown
  PROVE  ShadowInv' /\ Resting' = {} /\ amount' = amount
<1>1. /\ PlacesOK /\ ExitsAtProfit /\ OneEntryPerLevel
      /\ entries \in [Slots -> EntryRecords] /\ exits \in [Slots -> ExitRecords]
  BY DEF ShadowInv, EntriesBackThePosition, OneEntryPerLevel, PlacesOK
<1>2. ASSUME NEW e \in Slots
      PROVE  /\ entries'[e] = IF e \in Resting THEN NoEntry ELSE entries[e]
             /\ entries'[e] \in EntryRecords
             /\ exits'[e] \in ExitRecords
             /\ exits'[e].price = IF e \in Resting THEN 0 ELSE exits[e].price
             /\ exits'[e].status = "none" <=> e \notin Filled
  <2>1. entries'[e] = IF e \in Resting THEN NoEntry ELSE entries[e]
    BY DEF Shutdown, EntriesWithout
  <2>2. entries'[e] \in EntryRecords
    <3>1. NoEntry \in EntryRecords
      BY EntryFields DEF NoEntry
    <3> QED BY <1>1, <2>1, <3>1
  <2>3. exits'[e] = IF e \notin Resting \union ExitsResting THEN exits[e]
                    ELSE IF e \in Filled THEN [exits[e] EXCEPT !.status = "cancelled"]
                    ELSE NoExit
    BY DEF Shutdown, ExitsWithout
  <2>4. exits[e] \in ExitRecords /\ NoExit = [status |-> "none", price |-> 0]
        /\ (exits[e].status = "none" <=> e \notin Filled)
    BY <1>1 DEF PlacesOK, NoExit, Exit
  <2>5. (e \in Resting => e \notin Filled) /\ (e \in ExitsResting => e \in Filled)
    BY <1>1 DEF PlacesOK, Resting, Filled, ExitsResting
  <2> QED BY <2>1, <2>2, <2>3, <2>4, <2>5 DEF ExitRecords
<1>3. /\ entries' = [e \in Slots |-> entries'[e]] /\ exits' = [e \in Slots |-> exits'[e]]
      /\ pc = "idle" /\ pc' = "stopped" /\ due' = due
      /\ UNCHANGED <<fill_model, market, completed_cycles, amount, cash>>
  BY DEF Shutdown, EntriesWithout, ExitsWithout, ledgerVars
<1>4. Free' = Free \union Resting /\ Filled' = Filled /\ Resting' = {}
  <2>1. NoEntry.phase = "none"
    BY DEF NoEntry, Entry
  <2> QED BY <1>2, <2>1 DEF Free, Filled, Resting
<1>5. PlacesOK'
  <2>1. entries' \in [Slots -> EntryRecords] /\ exits' \in [Slots -> ExitRecords]
    BY <1>2, <1>3
  <2>2. (\A e \in Slots : entries[e].level = 0 <=> e \in Free)'
    BY <1>1, <1>2, <1>4 DEF PlacesOK, NoEntry, Entry
  <2>3. (\A e \in Slots : exits[e].status = "none" <=> e \notin Filled)'
    BY <1>2, <1>4
  <2>4. due' = {}
    BY <1>1, <1>3 DEF PlacesOK
  <2> QED BY <1>1, <1>3, <2>1, <2>2, <2>3, <2>4 DEF PlacesOK
<1>6. ExitsAtProfit'
  BY <1>1, <1>2, <1>4 DEF ExitsAtProfit, Buy
<1>7. OneEntryPerLevel'
  BY <1>1, <1>2, <1>4 DEF OneEntryPerLevel, Filled, Resting
<1>8. \A e \in Filled : entries'[e].level = entries[e].level /\ entries'[e].price = entries[e].price
  BY <1>2 DEF Filled, Resting
<1> QED BY <1>3, <1>4, <1>5, <1>6, <1>7, <1>8, QuietStep

LEMMA ShadowBegins == Init => ShadowInv
<1> SUFFICES ASSUME Init PROVE ShadowInv
  OBVIOUS
<1>1. /\ entries = [e \in Slots |-> NoEntry] /\ exits = [e \in Slots |-> NoExit]
      /\ NoEntry \in EntryRecords /\ NoEntry.phase = "none" /\ NoEntry.level = 0
      /\ NoExit \in ExitRecords /\ NoExit.status = "none"
      /\ amount = 0 /\ cash = 0 /\ completed_cycles = 0
  BY EntryFields DEF Init, LedgerInit, NoEntry, NoExit, Entry, Exit, ExitRecords
<1>2. Free = Slots /\ Filled = {} /\ Resting = {}
  BY <1>1 DEF Free, Filled, Resting
<1>3. PlacesOK
  BY <1>1, <1>2 DEF PlacesOK, Init
<1>4. ExitsAtProfit /\ OneEntryPerLevel
  BY <1>2 DEF ExitsAtProfit, OneEntryPerLevel
<1>5. NetOf(entries, Filled) = 0 /\ CostOf(entries, Filled) = 0
  <2>1. \A S \in SUBSET Filled : Cardinality(S) = 0 /\ TicksOf(entries, S) = 0
    <3>1. Cardinality({}) = 0
      BY FS_EmptySet
    <3>2. \A S \in SUBSET Filled : S = {} /\ UNION {{e} \X (1..entries[e].price) : e \in S} = {}
      BY <1>2
    <3> QED BY <3>1, <3>2 DEF TicksOf
  <2> QED BY <2>1 DEF NetOf, CostOf
<1> QED BY <1>1, <1>3, <1>4, <1>5, Totals DEF ShadowInv, TotalsOK

LEMMA ShadowStep == ShadowInv /\ [Next]_vars => ShadowInv'
<1> SUFFICES ASSUME ShadowInv, [Next]_vars PROVE ShadowInv'
  OBVIOUS
<1>1. CASE Receive
  BY <1>1, ReceiveStep
<1>2. CASE FillDue
  <2>1. PICK e \in due : /\ due' = due \ {e}
                         /\ IF e \in Filled THEN FillExit(e) ELSE FillEntry(e)
    BY <1>2 DEF FillDue
  <2> QED BY <1>2, <2>1, FillEntryStep, FillExitStep
<1>3. CASE Decide
  <2>1. PlacesOK /\ ExitsAtProfit /\ OneEntryPerLevel
    BY DEF ShadowInv, EntriesBackThePosition, OneEntryPerLevel
  <2>2. UNCHANGED <<amount, cash, completed_cycles>>
    BY <1>3 DEF Decide, Mark
  <2> QED BY <1>3, <2>1, <2>2, DecideStep, QuietStep
<1>4. CASE Shutdown
  BY <1>4, ShutdownStep
<1>5. CASE UNCHANGED vars
  <2>1. UNCHANGED <<fill_model, entries, exits, market, due, completed_cycles, pc, amount, cash>>
    BY <1>5 DEF vars, ledgerVars
  <2> QED BY <2>1 DEF ShadowInv, PlacesOK, EntriesBackThePosition, ExitsAtProfit, CyclesProfit,
              Free, Filled, Resting, ExitsResting, Ticks, Buy
<1> QED BY <1>1, <1>2, <1>3, <1>4, <1>5 DEF Next

\* Every reachable state of the engine satisfies the inductive invariant.
THEOREM ShadowInvariant == Spec => []ShadowInv
<1> QED BY ShadowBegins, ShadowStep, PTL DEF Spec

\* The places of the engine keep entries and exits, and what is due rests.
THEOREM ShadowTypeCorrect == Spec => []TypeOK
<1>1. ShadowInv => TypeOK
  BY EntryFields DEF ShadowInv, PlacesOK, TypeOK, ExitRecords
<1> QED BY <1>1, ShadowInvariant, PTL

\* Whatever frames fill and plans move, the position is that of the entries that
\* have filled and whose exits have not, and a level has one entry (_fill,
\* create_order, cancel_order, shutdown).
THEOREM EntriesAlwaysBack == Spec => []EntriesBackThePosition
<1>1. ShadowInv => EntriesBackThePosition
  BY DEF ShadowInv
<1> QED BY <1>1, ShadowInvariant, PTL

\* No cycle of an entry and its exit is completed at a loss, whatever quotes,
\* tapes and plans there are (_adjacent_tp).
THEOREM CyclesAlwaysProfit == Spec => []CyclesProfit
<1>1. ShadowInv => CyclesProfit
  BY DEF ShadowInv
<1> QED BY <1>1, ShadowInvariant, PTL

-----------------------------------------------------------------------------
(* The total exposure *)

\* A decision that takes back or keeps what rests, or creates within the limit.
LEMMA DecisionInTotal ==
  ASSUME PlacesOK, Decide
  PROVE  TotalExposure' <= TotalExposure \/ TotalExposure' <= MaxTotal
<1>1. PICK plan, C, at : Creates(plan, C, at)
  BY DecisionCreates
<1>2. /\ C \in SUBSET Levels /\ at \in [C -> Free]
      /\ \A e \in Slots : (\E l \in C : at[l] = e /\ Takes(e, l, plan)) \/ Loses(e) \/ Stays(e)
  BY <1>1 DEF Creates
<1> DEFINE new == {at[l] : l \in C}
           f == [l \in C |-> at[l]]
           after == Resting'
<1>3. IsFiniteSet(C) /\ Cardinality(C) \in Nat
  BY <1>2, LevelsFinite
<1>4. IsFiniteSet(new) /\ Cardinality(new) <= Cardinality(C) /\ Cardinality(new) \in Nat
  <2>1. f \in Surjection(C, new)
    BY DEF Surjection
  <2> HIDE DEF f, new
  <2> QED BY <1>3, <2>1, FS_Surjection, FS_CardinalityType
<1>5. after \in SUBSET (Resting \union new)
  BY <1>2 DEF Loses, Stays, NoEntry, Entry, Resting
<1>6. Resting \in SUBSET Slots /\ IsFiniteSet(Resting) /\ Cardinality(Resting) \in Nat
  BY PlacesFinite DEF Resting
<1> HIDE DEF new, after
<1>7. Cardinality(after) \in Nat /\ Cardinality(after) <= Cardinality(Resting) + Cardinality(new)
  <2>1. /\ IsFiniteSet(Resting \union new)
        /\ Cardinality(Resting \union new)
             = Cardinality(Resting) + Cardinality(new) - Cardinality(Resting \cap new)
    BY <1>4, <1>6, FS_Union
  <2>2. Cardinality(Resting \cap new) \in Nat
    BY <1>6, FS_Intersection, FS_CardinalityType
  <2>3. Cardinality(after) \in Nat /\ Cardinality(after) <= Cardinality(Resting \union new)
    BY <1>5, <2>1, FS_Subset, FS_CardinalityType
  <2> QED BY <1>4, <1>6, <2>1, <2>2, <2>3
<1>8. /\ Size(amount) \in Nat /\ Size(amount)' = Size(amount)
      /\ TotalExposure = Size(amount) + Cardinality(Resting)
      /\ TotalExposure' = Size(amount) + Cardinality(after)
  BY DEF PlacesOK, Size, Decide, Mark, TotalExposure, after
<1>9. CASE C = {}
  <2>1. Cardinality(C) = 0
    BY <1>9, FS_EmptySet
  <2> QED BY <1>4, <1>6, <1>7, <1>8, <2>1
<1>10. CASE C # {}
  <2>1. PICK l \in C : Stage5(plan)!Admitted(l, C \ {l})
    BY <1>1, <1>10 DEF Creates
  <2>2. Stage5(plan)!Distance(0, Size(amount)) + Cardinality(Resting)
          + Cardinality(C \ {l}) + 1 <= MaxTotal
    BY <2>1, ControllersTerms DEF Stage5!Admitted
  <2>3. Stage5(plan)!Distance(0, Size(amount)) = Size(amount)
    BY <1>8 DEF Stage5!Distance
  <2>4. Cardinality(C \ {l}) = Cardinality(C) - 1
    BY <1>3, FS_RemoveElement
  <2> QED BY <1>3, <1>4, <1>6, <1>7, <1>8, <2>2, <2>3, <2>4, Parameters
<1> QED BY <1>9, <1>10

\* A fill of an entry turns what rests into position.
LEMMA FillInTotal ==
  ASSUME ShadowInv, FillDue
  PROVE  EntriesStep
<1>1. PICK e \in due : due' = due \ {e} /\ IF e \in Filled THEN FillExit(e) ELSE FillEntry(e)
  BY DEF FillDue
<1>2. CASE e \in Filled
  <2>1. entries'[e].phase = "none"
    BY <1>1, <1>2, FillExitStep
  <2> QED BY <1>2, <2>1 DEF EntriesStep, ExitFills
<1>3. CASE e \notin Filled
  <2>1. Resting' = Resting \ {e} /\ e \in Resting
    BY <1>1, <1>3, FillEntryStep
  <2>2. IsFiniteSet(Resting) /\ Cardinality(Resting) \in Nat
    BY PlacesFinite DEF Resting
  <2>3. Cardinality(Resting') = Cardinality(Resting) - 1
    BY <2>1, <2>2, FS_RemoveElement
  <2>4. amount \in Int /\ (amount' = amount + 1 \/ amount' = amount - 1)
    BY <1>1, <1>3 DEF FillEntry, Fill, Delta, ShadowInv, PlacesOK
  <2>5. Size(amount)' <= Size(amount) + 1 /\ Size(amount) \in Nat /\ Size(amount)' \in Nat
    BY <2>4 DEF Size
  <2>6. TotalExposure' <= TotalExposure
    BY <2>2, <2>3, <2>5 DEF TotalExposure
  <2> QED BY <2>6 DEF EntriesStep
<1> QED BY <1>2, <1>3

\* Whatever the limits, quotes, tapes and plans are, the total of the position and
\* of the orders that rest passes its limit only when an exit fills, which may
\* have netted another entry (final_create_gate, reconcile_pair).
THEOREM EntriesKeepTotal == Spec => EntriesWithinTotal
<1>1. ShadowInv /\ [Next]_vars => [EntriesStep]_vars
  <2> SUFFICES ASSUME ShadowInv, Next PROVE EntriesStep
    OBVIOUS
  <2>1. CASE Receive
    <3>1. amount' = amount
      BY <2>1 DEF Receive, ledgerVars
    <3>2. Resting' = Resting
      <4>1. \A e \in Slots : entries'[e].phase = entries[e].phase
        BY <2>1 DEF Receive, ShadowInv, PlacesOK, EntryRecords
      <4> QED BY <4>1 DEF Resting
    <3>3. Size(amount) \in Nat /\ Cardinality(Resting) \in Nat
      BY PlacesFinite DEF ShadowInv, PlacesOK, Size, Resting
    <3>4. TotalExposure' = TotalExposure /\ TotalExposure \in Nat
      BY <3>1, <3>2, <3>3 DEF TotalExposure, Size
    <3> QED BY <3>4 DEF EntriesStep
  <2>2. CASE FillDue
    BY <2>2, FillInTotal
  <2>3. CASE Decide
    BY <2>3, DecisionInTotal DEF EntriesStep, ShadowInv
  <2>4. CASE Shutdown
    <3>1. Resting' = {} /\ amount' = amount
      BY <2>4, ShutdownStep
    <3>2. Size(amount) \in Nat /\ Cardinality(Resting) \in Nat /\ Cardinality({}) = 0
      BY PlacesFinite, FS_EmptySet DEF ShadowInv, PlacesOK, Size, Resting
    <3>3. TotalExposure' <= TotalExposure
      BY <3>1, <3>2 DEF TotalExposure, Size
    <3> QED BY <3>3 DEF EntriesStep
  <2> QED BY <2>1, <2>2, <2>3, <2>4 DEF Next
<1> QED BY <1>1, ShadowInvariant, PTL DEF Spec, EntriesWithinTotal
=============================================================================
