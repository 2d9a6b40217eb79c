---------------------------- MODULE PositionLedger ----------------------------
(***************************************************************************)
(* The two ledgers of the repository that turn fills into a position, a    *)
(* realized and an unrealized PnL by average cost, fed with the same fills *)
(* of one trading pair: the paper ledger of the shadow engine              *)
(* (shadow.PositionLedger), which keeps its unrealized PnL as of the last  *)
(* mark, and the one the accounting audit replays fills through            *)
(* (audit.PositionLedger).                                                 *)
(*                                                                         *)
(* Of a position the amount is kept and, in place of the average entry     *)
(* price, its cost: the average times the size.  What a close takes of the *)
(* cost is rounded down to the unit of money.  Fees are left out: both     *)
(* sides of every identity below lose the same.                            *)
(***************************************************************************)
EXTENDS Integers

CONSTANTS
    Prices,                      \* the prices of fills and marks
    Sizes,                       \* the amounts of fills
    MaxFills                     \* bound: how many fills there are

ASSUME FillsAssumption ==
    /\ Prices \subseteq Nat \ {0}
    /\ Sizes \subseteq Nat \ {0}
    /\ MaxFills \in Nat

VARIABLES
    amount,                      \* the signed amount, the same in both ledgers
    shadow,                      \* cost and realized_pnl of the shadow ledger
    audit,                       \* cost and realized_pnl of the audit's
    mark_price,                  \* mark_prices[pair], 0 before the first mark
    unrealized,                  \* unrealized_inventory_pnl, as of the last mark
    high_water_mark,             \* high_water_mark less starting_equity
    cash,                        \* history: what the sells brought less what the buys cost
    reduced,                     \* history: whether a fill has ever closed a part only
    marked,                      \* history: whether nothing has filled since the last mark
    fills                        \* the number of fills so far

ledgerVars == <<amount, shadow, audit, mark_price, unrealized, high_water_mark,
          cash, reduced, marked, fills>>

Side == {"buy", "sell"}

Book == [cost : Int, realized : Int]

Size(a) == IF a < 0 THEN -a ELSE a

\* What price times size comes to on the side of a position: what the position
\* would fetch, or what it cost.
Signed(a, value) == IF a < 0 THEN -value ELSE value

LedgerInit ==
    /\ amount = 0
    /\ shadow = [cost |-> 0, realized |-> 0]
    /\ audit = [cost |-> 0, realized |-> 0]
    /\ mark_price = 0
    /\ unrealized = 0
    /\ high_water_mark = 0
    /\ cash = 0
    /\ reduced = FALSE
    /\ marked = TRUE
    /\ fills = 0

Delta(side, size) == IF side = "buy" THEN size ELSE -size

Opens(delta) == amount = 0 \/ (amount > 0 /\ delta > 0) \/ (amount < 0 /\ delta < 0)

Reduces(delta) == ~Opens(delta) /\ Size(delta) < Size(amount)

\* What a close of `size` takes of the cost of the position.
Share(cost, size) == (cost * size) \div Size(amount)

\* The cost goes on top of the cost so far.
Opened(book, price, size) ==
    [cost |-> book.cost + price * size, realized |-> book.realized]

\* The whole position is closed, and what the fill leaves is a new one.
Turned(book, price, delta) ==
    [cost     |-> price * Size(amount + delta),
     realized |-> book.realized + Signed(amount, price * Size(amount) - book.cost)]

\* A plausible mistake: what is left of a position is valued at the fill.
RevaluedAtFill(book, price, size) ==
    [cost     |-> price * (Size(amount) - size),
     realized |-> book.realized + Signed(amount, price * size - Share(book.cost, size))]

\* A part is closed: the audit keeps the average entry price of the rest.
Reduced(book, price, size) ==
    [cost     |-> book.cost - Share(book.cost, size),
     realized |-> book.realized + Signed(amount, price * size - Share(book.cost, size))]

\* The shadow ledger takes the price of the fill for the average entry price
\* of whatever is left, be it of a close or of a turn.
ReducedInShadow(book, price, size) ==
    [cost     |-> price * (Size(amount) - size),
     realized |-> book.realized + Signed(amount, price * size - Share(book.cost, size))]

\* apply_fill and apply: the first for the paper, the second for the audit.
Applied(book, price, delta) ==
    IF Opens(delta) THEN Opened(book, price, Size(delta))
    ELSE IF Reduces(delta) THEN Reduced(book, price, Size(delta))
    ELSE Turned(book, price, delta)

AppliedInShadow(book, price, delta) ==
    IF Opens(delta) THEN Opened(book, price, Size(delta))
    ELSE IF Reduces(delta) THEN ReducedInShadow(book, price, Size(delta))
    ELSE Turned(book, price, delta)

\* A fill changes the position and the realized PnL of both; the unrealized
\* one stays as it was marked.
Fill(side, price, size) ==
    LET delta == Delta(side, size)
    IN  /\ fills < MaxFills
        /\ amount' = amount + delta
        /\ shadow' = AppliedInShadow(shadow, price, delta)
        /\ audit' = Applied(audit, price, delta)
        /\ cash' = cash - price * delta
        /\ reduced' = (reduced \/ Reduces(delta))
        /\ marked' = FALSE
        /\ fills' = fills + 1
        /\ UNCHANGED <<mark_price, unrealized, high_water_mark>>

\* A plausible mistake: a short position is marked like a long one.
WorthUnsigned(book, price) == price * amount - book.cost

\* What a position is worth at a price, over its cost.
Worth(book, price) == price * amount - Signed(amount, book.cost)

\* current_equity, less starting_equity.
Equity == shadow.realized + unrealized

\* mark: the unrealized PnL is computed anew, and the high-water mark follows.
Mark(price) ==
    LET equity == shadow.realized + Worth(shadow, price)
    IN  /\ mark_price' = price
        /\ unrealized' = Worth(shadow, price)
        /\ high_water_mark' = IF equity > high_water_mark THEN equity ELSE high_water_mark
        /\ marked' = TRUE
        /\ UNCHANGED <<amount, shadow, audit, cash, reduced, fills>>

LedgerNext ==
    \E price \in Prices :
        \/ \E side \in Side, size \in Sizes : Fill(side, price, size)
        \/ Mark(price)

LedgerSpec == LedgerInit /\ [][LedgerNext]_ledgerVars

-----------------------------------------------------------------------------
(* Properties *)

\* The variables stay in their domains; no position, no cost.
LedgerTypeOK ==
    /\ amount \in Int
    /\ shadow \in Book /\ audit \in Book
    /\ amount = 0 => shadow.cost = 0 /\ audit.cost = 0
    /\ mark_price \in Prices \union {0}
    /\ unrealized \in Int /\ high_water_mark \in Int /\ cash \in Int
    /\ reduced \in BOOLEAN /\ marked \in BOOLEAN
    /\ fills \in 0..MaxFills

\* The cash the fills moved is the realized PnL less the cost of what is held:
\* no fill makes or loses money.
Reconciles(book) == book.realized = cash + Signed(amount, book.cost)

\* The audit's ledger accounts for every cent of every fill, through additions,
\* closes and turns (audit.PositionLedger.apply, "Signed weighted-average
\* position ledger used by accounting audits"); the shadow ledger agrees with it
\* until a fill closes a part of a position for the first time, and a fill that
\* turns the position does no harm.
LedgersReconcile == Reconciles(audit) /\ (~reduced => shadow = audit)

\* Right after a mark, and until a part is closed, the paper equity is what the
\* account would hold if the position went at the mark, and no drawdown is
\* missed (the equity process_frame records, and the collateral reconcile_pair
\* goes by).
EquityIsWorth ==
    marked /\ ~reduced => /\ Equity = cash + mark_price * amount
                          /\ Equity <= high_water_mark

\* "Virtual positions and reconciled paper PnL": the same of the shadow ledger
\* whatever fills.
PaperPnlReconciled == Reconciles(shadow)
=============================================================================
