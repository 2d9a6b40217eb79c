--------------------------- MODULE EvaluationProofs ---------------------------
(***************************************************************************)
(* What the offline replays, the measurement of markets and the join of    *)
(* the evaluation are proved of.                                           *)
(*                                                                         *)
(* CompetitionReplay: what is held of a market, and what any entry that    *)
(* rests would make of it, is bounded, for an entry is let through when    *)
(* the market's limit has room for it or when it is against what is held.  *)
(* ReplayEngine: no entry rests beside a position of its level, both are   *)
(* at a profit, and the sums over the levels are kept.  MultiAssetState:   *)
(* what is remembered is in the order of its time, none of it of the       *)
(* future, and returns are of stretches that began together.               *)
(* EvaluationJoin: a record that is sorted has its rank, so that the last  *)
(* one up to an instant is found, and what is kept of a stream is counted. *)
(***************************************************************************)
EXTENDS CompetitionReplay, ReplayEngine, MultiAssetState, EvaluationJoin,
        SequenceTheorems, FiniteSetTheorems, WellFoundedInduction, TLAPS

\* What holds at 0, and passes from each number to the next, holds up to n.
LEMMA UpTo ==
  ASSUME NEW n \in Nat, NEW S, 0 \in S, \A i \in 0..(n - 1) : i \in S => i + 1 \in S
  PROVE 0..n \subseteq S
  <1> SUFFICES ASSUME NEW k \in 0..n, k \notin S PROVE FALSE
    OBVIOUS
  <1> DEFINE R == OpToRel(<, Nat)
             Bad == {i \in 0..n : i \notin S}
  <1>1. IsWellFoundedOn(R, Nat)
    BY NatLessThanWellFounded DEF OpToRel
  <1>2. PICK least \in Bad : \A i \in Bad : ~(<<i, least>> \in R)
    <2>1. Bad \subseteq Nat /\ k \in Bad
      OBVIOUS
    <2> QED BY <1>1, <2>1, WFMin
  <1>3. least \in 0..n /\ least \notin S
    OBVIOUS
  <1>4. least # 0
    BY <1>3
  <1>5. least - 1 \in 0..(n - 1) /\ least - 1 \in 0..n /\ least - 1 \in Nat /\ least \in Nat
    BY <1>3, <1>4
  <1>6. <<least - 1, least>> \in R
    BY <1>5 DEF OpToRel
  <1>7. least - 1 \in S
    BY <1>2, <1>5, <1>6
  <1>8. (least - 1) + 1 \in S
    BY <1>5, <1>7
  <1> QED BY <1>3, <1>8

\* A set of naturals that is not empty has a least.
LEMMA LeastIs ==
  ASSUME NEW S \in SUBSET Nat, S # {}
  PROVE Min(S) \in S /\ \A x \in S : Min(S) <= x
  <1> DEFINE R == OpToRel(<, Nat)
  <1>1. IsWellFoundedOn(R, Nat)
    BY NatLessThanWellFounded DEF OpToRel
  <1>2. PICK low \in S : \A x \in S : ~(<<x, low>> \in R)
    <2> HIDE DEF R
    <2>1. PICK any \in S : TRUE
      OBVIOUS
    <2> QED BY <1>1, <2>1, WFMin
  <1>3. \A x \in S : low <= x
    <2> SUFFICES ASSUME NEW x \in S, x < low PROVE FALSE
      OBVIOUS
    <2>1. <<x, low>> \in R
      BY DEF OpToRel
    <2> QED BY <1>2, <2>1
  <1> QED BY <1>3 DEF Min

-----------------------------------------------------------------------------
(* What the governor lets through *)

\* The lowest of the prices.
LEMMA LowestPrice ==
  /\ Min(Prices) \in Prices /\ Min(Prices) \in Nat \ {0}
  /\ \A price \in Prices : price \in Nat /\ Min(Prices) <= price
  <1>1. Prices \subseteq Nat \ {0} /\ Prices # {}
    BY CompetitionAssumption
  <1>2. Prices \in SUBSET Nat
    BY <1>1
  <1> QED BY <1>1, <1>2, LeastIs

LEMMA TimesMonotone ==
  ASSUME NEW a \in Int, NEW b \in Int, NEW c \in Nat, a <= b
  PROVE a * c <= b * c
  <1>1. (b - a) * c >= 0
    <2>1. b - a \in Nat
      OBVIOUS
    <2> QED BY <2>1
  <1>2. (b - a) * c = b * c - a * c
    OBVIOUS
  <1> QED BY <1>1, <1>2

\* What an account is: positions, costs, what rests, and the marks.
Account ==
    [position : [Pairs -> Int], cost : [Pairs -> Int], pending : [Places -> Prices \union {0}],
     mark : [Pairs -> Prices \union {0}]]

\* The units a market's limit allows.
Bounded(n) ==
    \/ Magnitude(n) * Min(Prices) <= MaxAsset
    \/ \E price \in Prices : (Magnitude(n) - 1) * Min(Prices) < price

LEMMA PlacesAre ==
  \A x \in Places : x[1] \in Pairs /\ x[2] \in {"buy", "sell"} /\ x = <<x[1], x[2]>>
  BY DEF Places

LEMMA FewerAreBounded ==
  ASSUME NEW m \in Int, NEW n \in Int, Bounded(n), Magnitude(m) <= Magnitude(n)
  PROVE Bounded(m)
  <1>1. Magnitude(m) \in Nat /\ Magnitude(n) \in Nat
    BY DEF Magnitude
  <1>2. Min(Prices) \in Nat
    BY LowestPrice
  <1>3. Magnitude(m) * Min(Prices) <= Magnitude(n) * Min(Prices)
    BY <1>1, <1>2, TimesMonotone
  <1>4. (Magnitude(m) - 1) * Min(Prices) <= (Magnitude(n) - 1) * Min(Prices)
    <2>1. Magnitude(m) - 1 \in Int /\ Magnitude(n) - 1 \in Int
          /\ Magnitude(m) - 1 <= Magnitude(n) - 1
      BY <1>1
    <2> QED BY <1>2, <2>1, TimesMonotone
  <1>5. {Magnitude(m) * Min(Prices), Magnitude(n) * Min(Prices),
         (Magnitude(m) - 1) * Min(Prices), (Magnitude(n) - 1) * Min(Prices)} \subseteq Int
    BY <1>1, <1>2
  <1>6. MaxAsset \in Int /\ Prices \subseteq Int
    BY CompetitionAssumption
  <1> QED BY <1>3, <1>4, <1>5, <1>6 DEF Bounded

\* An entry that reduces the risk of its market, once it fills.
LEMMA ReducingIsBounded ==
  ASSUME NEW account \in Account, NEW x \in Places, Bounded(account.position[x[1]]),
         account.mark[x[1]] # 0, IsRiskReducing(account, x)
  PROVE Bounded(account.position[x[1]] + SideSign(x[2]))
  <1> DEFINE p == x[1]
             n == account.position[p]
             mark == account.mark[p]
             buy == account.pending[<<p, "buy">>]
             sell == account.pending[<<p, "sell">>]
             low == Min(Prices)
  <1> HIDE DEF low
  <1>1. p \in Pairs /\ <<p, "buy">> \in Places /\ <<p, "sell">> \in Places
    BY PlacesAre DEF Places
  <1>2. n \in Int /\ mark \in Prices /\ buy \in Prices \union {0} /\ sell \in Prices \union {0}
    BY <1>1 DEF Account
  <1>3. mark \in Nat /\ buy \in Nat /\ sell \in Nat /\ low \in Nat /\ low <= mark
    BY <1>2, LowestPrice DEF low
  <1>4. (n * mark + buy - sell) * SideSign(x[2]) < 0
    BY DEF IsRiskReducing, Effective, Worth
  <1> HIDE DEF n, mark, buy, sell
  <1>n. n * mark \in Int
    BY <1>2, <1>3
  <1>5. CASE x[2] = "buy"
    <2>1. SideSign(x[2]) = 1
      BY <1>5 DEF SideSign
    <2>2. n * mark < sell
      BY <1>3, <1>4, <1>n, <2>1
    <2>3. CASE n < 0
      <3>1. Magnitude(n + 1) <= Magnitude(n)
        BY <1>2, <2>3 DEF Magnitude
      <3> QED BY <1>2, <2>1, <3>1, FewerAreBounded DEF n, p
    <2>4. CASE n >= 0
      <3>1. n * low <= n * mark
        <4>1. low * n <= mark * n
          BY <1>2, <1>3, <2>4, TimesMonotone
        <4> QED BY <1>2, <1>3, <4>1
      <3>2. n * low \in Int /\ n * low >= 0
        BY <1>2, <1>3, <2>4
      <3>3. n * low < sell /\ sell \in Prices
        BY <1>2, <1>3, <1>n, <2>2, <3>1, <3>2
      <3>4. Magnitude(n + 1) - 1 = n
        BY <1>2, <2>4 DEF Magnitude
      <3> QED BY <2>1, <3>3, <3>4 DEF Bounded, n, p, low
    <2> QED BY <1>2, <2>3, <2>4
  <1>6. CASE x[2] = "sell"
    <2>1. SideSign(x[2]) = -1
      BY <1>6 DEF SideSign
    <2>2. -(n * mark) < buy
      BY <1>3, <1>4, <1>n, <2>1
    <2>3. CASE n > 0
      <3>1. Magnitude(n + (-1)) <= Magnitude(n) /\ n + (-1) \in Int
        BY <1>2, <2>3 DEF Magnitude
      <3> QED BY <1>2, <2>1, <3>1, FewerAreBounded DEF n, p
    <2>4. CASE n <= 0
      <3>0. -n \in Nat
        BY <1>2, <2>4
      <3>1. (-n) * low <= (-n) * mark
        <4>1. low * (-n) <= mark * (-n)
          BY <1>3, <3>0, TimesMonotone
        <4> QED BY <1>3, <3>0, <4>1
      <3>2. (-n) * low \in Int /\ (-n) * low >= 0 /\ (-n) * mark = -(n * mark)
        BY <1>2, <1>3, <3>0
      <3>3. (-n) * low < buy /\ buy \in Prices
        BY <1>2, <1>3, <1>n, <2>2, <3>1, <3>2
      <3>4. Magnitude(n + (-1)) - 1 = -n
        BY <1>2, <2>4 DEF Magnitude
      <3> QED BY <2>1, <3>3, <3>4 DEF Bounded, n, p, low
    <2> QED BY <1>2, <2>3, <2>4
  <1> QED BY <1>5, <1>6, PlacesAre

\* An entry that its market's limit has room for, once it fills.
LEMMA RoomIsBounded ==
  ASSUME NEW account \in Account, NEW x \in Places, NEW quote \in Prices,
         account.mark[x[1]] # 0, AssetExposure(account, x[1]) + quote <= MaxAsset
  PROVE Bounded(account.position[x[1]] + SideSign(x[2]))
  <1> DEFINE p == x[1]
             n == account.position[p]
             mark == account.mark[p]
             buy == account.pending[<<p, "buy">>]
             sell == account.pending[<<p, "sell">>]
             low == Min(Prices)
  <1> HIDE DEF low
  <1>1. p \in Pairs /\ <<p, "buy">> \in Places /\ <<p, "sell">> \in Places
    BY PlacesAre DEF Places
  <1>2. n \in Int /\ mark \in Prices /\ buy \in Prices \union {0} /\ sell \in Prices \union {0}
    BY <1>1 DEF Account
  <1>3. /\ mark \in Nat /\ buy \in Nat /\ sell \in Nat /\ low \in Nat /\ low <= mark
        /\ quote \in Nat /\ low <= quote /\ MaxAsset \in Int
    <2>1. MaxAsset \in Int
      BY CompetitionAssumption
    <2> QED BY <1>2, <2>1, LowestPrice DEF low
  <1>4. Magnitude(n * mark) + (buy + sell) + quote <= MaxAsset
    BY DEF AssetExposure, Worth, PendingOf
  <1> HIDE DEF n, mark, buy, sell
  <1>5. Magnitude(n) \in Nat /\ Magnitude(n * mark) = Magnitude(n) * mark
    <2>1. CASE n >= 0
      <3>1. n * mark >= 0
        BY <1>2, <1>3, <2>1
      <3> QED BY <1>2, <1>3, <2>1, <3>1 DEF Magnitude
    <2>2. CASE n < 0
      <3>1. (-n) * mark = -(n * mark) /\ n * mark \in Int /\ -n \in Nat
        BY <1>2, <1>3, <2>2
      <3>2. (-n) * mark >= 0
        BY <1>3, <3>1
      <3>3. CASE n * mark < 0
        BY <1>2, <2>2, <3>1, <3>3 DEF Magnitude
      <3>4. CASE n * mark = 0
        BY <1>2, <2>2, <3>1, <3>4 DEF Magnitude
      <3> QED BY <3>1, <3>2, <3>3, <3>4
    <2> QED BY <1>2, <2>1, <2>2
  <1>6. Magnitude(n) * low <= Magnitude(n) * mark
    <2>1. low * Magnitude(n) <= mark * Magnitude(n)
      BY <1>3, <1>5, TimesMonotone
    <2> QED BY <1>3, <1>5, <2>1
  <1>7. (Magnitude(n) + 1) * low = Magnitude(n) * low + low
    BY <1>3, <1>5
  <1>8. {Magnitude(n) * low, Magnitude(n) * mark} \subseteq Int
    BY <1>3, <1>5
  <1>9. (Magnitude(n) + 1) * low <= MaxAsset
    BY <1>3, <1>4, <1>5, <1>6, <1>7, <1>8
  <1> DEFINE after == n + SideSign(x[2])
  <1>10. after \in Int /\ Magnitude(after) \in Nat /\ Magnitude(after) <= Magnitude(n) + 1
    BY <1>2 DEF Magnitude, SideSign
  <1> HIDE DEF after
  <1>11. Magnitude(after) * low <= (Magnitude(n) + 1) * low
    BY <1>3, <1>5, <1>10, TimesMonotone
  <1>12. Magnitude(after) * low \in Int /\ (Magnitude(n) + 1) * low \in Int
    BY <1>3, <1>5, <1>10
  <1> QED BY <1>3, <1>9, <1>11, <1>12 DEF Bounded, after, n, p, low

\* The governor after one more of the proposals.
Stepped(account, plans, beta, prior) ==
  LET next == Foremost(account, plans, beta, prior.left)
      x == CHOOSE y \in next : TRUE
  IN  IF next = {} THEN prior
      ELSE [work |-> Consider(account, prior.work, x, plans, beta),
            left |-> prior.left \ {x}]

SteppedTo(account, plans, beta, n, s) ==
  s = [k \in 0..n |-> IF k = 0
                      THEN [work |-> BaseExposure(account, beta), left |-> Proposed(plans)]
                      ELSE Stepped(account, plans, beta, s[k - 1])]

LEMMA EvaluatedExists ==
  ASSUME NEW account, NEW plans, NEW beta
  PROVE SteppedTo(account, plans, beta, 2 * Len(Markets), Evaluated(account, plans, beta))
  <1> DEFINE N == 2 * Len(Markets)
             S == {n \in Nat : \E s : SteppedTo(account, plans, beta, n, s)}
             base == [work |-> BaseExposure(account, beta), left |-> Proposed(plans)]
  <1>1. 0 \in S
    <2>1. SteppedTo(account, plans, beta, 0, [k \in 0..0 |-> base])
      BY DEF SteppedTo
    <2> QED BY <2>1
  <1>2. ASSUME NEW n \in Nat, n \in S PROVE n + 1 \in S
    <2>1. PICK s : SteppedTo(account, plans, beta, n, s)
      BY <1>2
    <2> DEFINE t == [k \in 0..(n + 1) |-> IF k = n + 1 THEN Stepped(account, plans, beta, s[n])
                                          ELSE s[k]]
    <2>2. \A k \in 0..n : s[k] = IF k = 0 THEN base
                                 ELSE Stepped(account, plans, beta, s[k - 1])
      BY <2>1 DEF SteppedTo
    <2> HIDE DEF base
    <2>3. \A k \in 0..(n + 1) : t[k] = IF k = 0 THEN base
                                       ELSE Stepped(account, plans, beta, t[k - 1])
      BY <2>2
    <2>4. SteppedTo(account, plans, beta, n + 1, t)
      BY <2>3 DEF SteppedTo, base
    <2> HIDE DEF t
    <2> QED BY <2>4
  <1>3. N \in Nat
    <2>1. Len(Markets) \in Nat
      BY CompetitionAssumption, LenProperties
    <2> QED BY <2>1
  <1>4. N \in S
    <2> HIDE DEF S, N
    <2>1. \A i \in 0..(N - 1) : i \in S => i + 1 \in S
      BY <1>2, <1>3
    <2>2. 0..N \subseteq S
      BY <1>1, <1>3, <2>1, UpTo
    <2> QED BY <1>3, <2>2
  <1>5. PICK s : SteppedTo(account, plans, beta, N, s)
    BY <1>4
  <1> QED BY <1>5 DEF SteppedTo, Stepped, Evaluated

\* What an exposure that is worked with has in it: all the exposure of the account, and
\* entries that reduce risk or that their market's limit has room for.
Kept(account, plans, work) ==
  /\ DOMAIN work = {"asset", "gross", "beta", "executors", "capacity", "stopped", "creates",
                    "allowed"}
  /\ work.asset \in [Pairs -> Int]
  /\ \A p \in Pairs : AssetExposure(account, p) <= work.asset[p]
  /\ \A x \in work.allowed :
        /\ x \in Proposed(plans)
        /\ \/ IsRiskReducing(account, x)
           \/ AssetExposure(account, x[1]) + plans[x] <= MaxAsset

LEMMA ExposureIsNumber ==
  ASSUME NEW account \in Account, NEW p \in Pairs
  PROVE AssetExposure(account, p) \in Nat
  <1>1. /\ account.position[p] \in Int /\ account.mark[p] \in Nat
        /\ account.pending[<<p, "buy">>] \in Nat /\ account.pending[<<p, "sell">>] \in Nat
    BY LowestPrice DEF Account, Places
  <1>2. account.position[p] * account.mark[p] \in Int
    BY <1>1
  <1> QED BY <1>1, <1>2 DEF AssetExposure, Worth, PendingOf, Magnitude

LEMMA ConsideredIsKept ==
  ASSUME NEW account \in Account, NEW plans \in [Places -> Prices \union {0}], NEW beta,
         NEW work, NEW x \in Proposed(plans), Kept(account, plans, work)
  PROVE Kept(account, plans, Consider(account, work, x, plans, beta))
  <1> DEFINE p == x[1]
             quote == plans[x]
             candidate == With(work, x, quote, beta)
  <1>1. x \in Places /\ p \in Pairs /\ quote \in Nat
    BY PlacesAre, LowestPrice DEF Proposed
  <1>2. CASE IsRiskReducing(account, x)
    <2> DEFINE taken == [work EXCEPT !.allowed = @ \union {x}]
    <2>1. Consider(account, work, x, plans, beta) = taken
      BY <1>2 DEF Consider
    <2>2. DOMAIN taken = DOMAIN work /\ taken.asset = work.asset
          /\ taken.allowed = work.allowed \union {x}
      BY DEF Kept
    <2> HIDE DEF taken
    <2> QED BY <1>2, <2>1, <2>2 DEF Kept
  <1>3. CASE ~IsRiskReducing(account, x) /\ Blocked(account, work, candidate, x, quote)
    BY <1>3 DEF Consider
  <1>4. CASE ~IsRiskReducing(account, x) /\ ~Blocked(account, work, candidate, x, quote)
    <2>1. Consider(account, work, x, plans, beta) = candidate
      BY <1>4 DEF Consider
    <2>2. /\ DOMAIN candidate = DOMAIN work
          /\ candidate.asset = [work.asset EXCEPT ![p] = @ + quote]
          /\ candidate.allowed = work.allowed \union {x}
      BY DEF Kept, With
    <2>3. candidate.asset[p] <= MaxAsset
      <3>1. ~(candidate.asset[p] > MaxAsset)
        BY <1>4 DEF Blocked
      <3>2. candidate.asset[p] \in Int /\ MaxAsset \in Int
        BY <1>1, <2>2, CompetitionAssumption DEF Kept
      <3> HIDE DEF candidate
      <3> QED BY <3>1, <3>2
    <2> HIDE DEF candidate, quote, p
    <2>4. candidate.asset \in [Pairs -> Int]
      BY <1>1, <2>2 DEF Kept
    <2>5. \A q \in Pairs : AssetExposure(account, q) <= candidate.asset[q]
      <3> SUFFICES ASSUME NEW q \in Pairs PROVE AssetExposure(account, q) <= candidate.asset[q]
        OBVIOUS
      <3>1. AssetExposure(account, q) \in Nat
        BY ExposureIsNumber
      <3>2. candidate.asset[q] = IF q = p THEN work.asset[q] + quote ELSE work.asset[q]
        BY <2>2 DEF Kept
      <3> QED BY <1>1, <3>1, <3>2 DEF Kept
    <2>6. AssetExposure(account, p) + quote <= MaxAsset
      <3>1. candidate.asset[p] = work.asset[p] + quote
        BY <1>1, <2>2 DEF Kept
      <3>2. AssetExposure(account, p) <= work.asset[p] /\ work.asset[p] \in Int
        BY <1>1 DEF Kept
      <3>3. AssetExposure(account, p) \in Nat /\ MaxAsset \in Int
        BY <1>1, ExposureIsNumber, CompetitionAssumption
      <3> QED BY <1>1, <2>3, <3>1, <3>2, <3>3
    <2> QED BY <2>1, <2>2, <2>4, <2>5, <2>6 DEF Kept, quote, p
  <1> QED BY <1>2, <1>3, <1>4

\* What the governor lets through stays within the limit of its market once it fills.
LEMMA AllowedIsBounded ==
  ASSUME NEW account \in Account, NEW plans \in [Places -> Prices \union {0}], NEW beta,
         \A p \in Pairs : Bounded(account.position[p]),
         \A x \in Proposed(plans) : account.mark[x[1]] # 0,
         NEW x \in Allowed(account, plans, beta)
  PROVE /\ x \in Places
        /\ Bounded(account.position[x[1]] + SideSign(x[2]))
  <1> DEFINE N == 2 * Len(Markets)
             s == Evaluated(account, plans, beta)
             S == {k \in 0..N : Kept(account, plans, s[k].work)
                                /\ s[k].left \subseteq Proposed(plans)}
  <1>1. N \in Nat
    <2>1. Len(Markets) \in Nat
      BY CompetitionAssumption, LenProperties
    <2> QED BY <2>1
  <1>2. \A k \in 0..N :
           s[k] = IF k = 0
                  THEN [work |-> BaseExposure(account, beta), left |-> Proposed(plans)]
                  ELSE Stepped(account, plans, beta, s[k - 1])
    BY EvaluatedExists DEF SteppedTo
  <1> HIDE DEF N, s
  <1>3. 0 \in S
    <2>1. s[0].work = BaseExposure(account, beta) /\ s[0].left = Proposed(plans) /\ 0 \in 0..N
      BY <1>1, <1>2
    <2>2. Kept(account, plans, BaseExposure(account, beta))
      <3>1. \A p \in Pairs : AssetExposure(account, p) \in Nat
        BY ExposureIsNumber
      <3> DEFINE asset == [p \in Pairs |-> AssetExposure(account, p)]
      <3>2. asset \in [Pairs -> Int] /\ \A p \in Pairs : AssetExposure(account, p) <= asset[p]
        BY <3>1
      <3>3. BaseExposure(account, beta).asset = asset
            /\ BaseExposure(account, beta).allowed = {}
            /\ DOMAIN BaseExposure(account, beta) =
                  {"asset", "gross", "beta", "executors", "capacity", "stopped", "creates",
                   "allowed"}
        BY DEF BaseExposure
      <3> HIDE DEF asset
      <3> QED BY <3>2, <3>3 DEF Kept
    <2> QED BY <2>1, <2>2
  <1>4. \A k \in 0..(N - 1) : k \in S => k + 1 \in S
    <2> SUFFICES ASSUME NEW k \in 0..(N - 1), Kept(account, plans, s[k].work),
                        s[k].left \subseteq Proposed(plans)
                 PROVE /\ k + 1 \in 0..N /\ Kept(account, plans, s[k + 1].work)
                       /\ s[k + 1].left \subseteq Proposed(plans)
      BY <1>1
    <2> DEFINE next == Foremost(account, plans, beta, s[k].left)
               y == CHOOSE z \in next : TRUE
    <2>1. k + 1 \in 0..N /\ s[k + 1] = Stepped(account, plans, beta, s[k])
      <3>1. k + 1 \in 0..N /\ k + 1 # 0 /\ (k + 1) - 1 = k
        BY <1>1
      <3> QED BY <1>2, <3>1
    <2>2. CASE next = {}
      <3>1. s[k + 1] = s[k]
        BY <2>1, <2>2 DEF Stepped
      <3> QED BY <2>1, <3>1
    <2>3. CASE next # {}
      <3>1. y \in Proposed(plans)
        BY <2>3 DEF Foremost
      <3>2. s[k + 1] = [work |-> Consider(account, s[k].work, y, plans, beta),
                        left |-> s[k].left \ {y}]
        BY <2>1, <2>3 DEF Stepped
      <3> HIDE DEF y
      <3>3. /\ s[k + 1].work = Consider(account, s[k].work, y, plans, beta)
            /\ s[k + 1].left = s[k].left \ {y}
        BY <3>2
      <3> QED BY <2>1, <3>1, <3>3, ConsideredIsKept
    <2> QED BY <2>2, <2>3
  <1>5. Kept(account, plans, s[N].work)
    <2> HIDE DEF S
    <2>1. 0..N \subseteq S
      BY <1>1, <1>3, <1>4, UpTo
    <2> USE DEF S
    <2> QED BY <1>1, <2>1
  <1>6. x \in s[N].work.allowed
    BY DEF Allowed, s, N
  <1>7. x \in Places /\ plans[x] \in Prices
    BY <1>5, <1>6 DEF Kept, Proposed
  <1>8. account.mark[x[1]] # 0 /\ x[1] \in Pairs
    BY <1>5, <1>6, <1>7, PlacesAre DEF Kept
  <1> QED BY <1>5, <1>6, <1>7, <1>8, ReducingIsBounded, RoomIsBounded DEF Kept

-----------------------------------------------------------------------------
(* What may rest, and so what may be held *)

\* What is held, and what any entry would make of it, is within the limit.
HoldingsInv ==
  /\ units \in [Pairs -> Int] /\ cost \in [Pairs -> Int]
  /\ pending \in [Places -> Prices \union {0}]
  /\ \A p \in Pairs : Bounded(units[p])
  /\ \A x \in Places : pending[x] # 0 => Bounded(units[x[1]] + SideSign(x[2]))

LEMMA HoldingsInit == CompetitionInit => HoldingsInv
  <1> SUFFICES ASSUME CompetitionInit PROVE HoldingsInv
    OBVIOUS
  <1>1. Bounded(0)
    BY LowestPrice, CompetitionAssumption DEF Bounded, Magnitude
  <1> QED BY <1>1, PlacesAre DEF CompetitionInit, HoldingsInv

LEMMA AccountIsOne ==
  ASSUME HoldingsInv, NEW mark \in [Pairs -> Prices \union {0}]
  PROVE /\ AccountAfter(mark) \in Account /\ AccountAfter(mark).mark = mark
        /\ \A p \in Pairs : Bounded(AccountAfter(mark).position[p])
  <1> DEFINE Units(x) == IF IsFilled(x, mark) THEN 1 ELSE 0
             Added(p) == Units(<<p, "buy">>) - Units(<<p, "sell">>)
             Paid(p) == Units(<<p, "buy">>) * pending[<<p, "buy">>]
                        - Units(<<p, "sell">>) * pending[<<p, "sell">>]
             account == AccountAfter(mark)
  <1>1. account = [position |-> [p \in Pairs |-> units[p] + Added(p)],
                   cost |-> [p \in Pairs |-> cost[p] + Paid(p)],
                   pending |-> [x \in Places |-> IF IsFilled(x, mark) THEN 0 ELSE pending[x]],
                   mark |-> mark]
    BY DEF AccountAfter
  <1>2. \A x : Units(x) \in {0, 1}
    OBVIOUS
  <1>3. \A x \in Places : Units(x) = 1 => pending[x] # 0
    <2> SUFFICES ASSUME NEW x \in Places, pending[x] = 0 PROVE Units(x) = 0
      OBVIOUS
    <2>1. ~IsFilled(x, mark)
      BY DEF IsFilled
    <2> QED BY <2>1
  <1> HIDE DEF Units, account
  <1>4. \A p \in Pairs : /\ <<p, "buy">> \in Places /\ <<p, "sell">> \in Places
                         /\ pending[<<p, "buy">>] \in Nat /\ pending[<<p, "sell">>] \in Nat
    BY LowestPrice DEF HoldingsInv, Places
  <1>5. \A p \in Pairs : Added(p) \in Int /\ Paid(p) \in Int
    <2> SUFFICES ASSUME NEW p \in Pairs PROVE Added(p) \in Int /\ Paid(p) \in Int
      OBVIOUS
    <2>1. Units(<<p, "buy">>) \in Int /\ Units(<<p, "sell">>) \in Int
      BY <1>2
    <2>2. pending[<<p, "buy">>] \in Int /\ pending[<<p, "sell">>] \in Int
      BY <1>4
    <2> QED BY <2>1, <2>2
  <1>6. \A p \in Pairs : Bounded(units[p] + Added(p))
    <2> SUFFICES ASSUME NEW p \in Pairs PROVE Bounded(units[p] + Added(p))
      OBVIOUS
    <2>1. units[p] \in Int /\ Bounded(units[p])
      BY DEF HoldingsInv
    <2>2. Units(<<p, "buy">>) = 1 => Bounded(units[p] + 1)
      <3>1. Units(<<p, "buy">>) = 1 => pending[<<p, "buy">>] # 0
        BY <1>3, <1>4
      <3>2. SideSign(<<p, "buy">>[2]) = 1 /\ <<p, "buy">>[1] = p
        BY DEF SideSign
      <3> QED BY <1>4, <3>1, <3>2 DEF HoldingsInv
    <2>3. Units(<<p, "sell">>) = 1 => Bounded(units[p] + (-1))
      <3>1. Units(<<p, "sell">>) = 1 => pending[<<p, "sell">>] # 0
        BY <1>3, <1>4
      <3>2. SideSign(<<p, "sell">>[2]) = -1 /\ <<p, "sell">>[1] = p
        BY DEF SideSign
      <3> QED BY <1>4, <3>1, <3>2 DEF HoldingsInv
    <2>4. \/ Added(p) = 0
          \/ Added(p) = 1 /\ Units(<<p, "buy">>) = 1
          \/ Added(p) = -1 /\ Units(<<p, "sell">>) = 1
      BY <1>2
    <2> HIDE DEF Added
    <2> QED BY <2>1, <2>2, <2>3, <2>4
  <1> HIDE DEF Added, Paid
  <1>7. account \in Account
    <2>1. account.position \in [Pairs -> Int]
      BY <1>1, <1>5 DEF HoldingsInv
    <2>2. account.cost \in [Pairs -> Int]
      BY <1>1, <1>5 DEF HoldingsInv
    <2>3. account.pending \in [Places -> Prices \union {0}]
      BY <1>1 DEF HoldingsInv
    <2> QED BY <1>1, <2>1, <2>2, <2>3 DEF Account
  <1> QED BY <1>1, <1>6, <1>7 DEF account

LEMMA HoldingsStep == HoldingsInv /\ [CompetitionTick]_competitionVars => HoldingsInv'
  <1> SUFFICES ASSUME HoldingsInv, [CompetitionTick]_competitionVars PROVE HoldingsInv'
    OBVIOUS
  <1>1. CASE UNCHANGED competitionVars
    BY <1>1 DEF HoldingsInv, competitionVars, Bounded
  <1>2. CASE CompetitionTick
    <2>1. PICK mark \in Marks, beta \in Betas :
             \E plans \in PlansOf(mark) :
                /\ units' = AccountAfter(mark).position
                /\ cost' = AccountAfter(mark).cost
                /\ pending' = [x \in Places |->
                                 IF x \in Allowed(AccountAfter(mark), plans, beta)
                                 THEN plans[x] ELSE 0]
      BY <1>2 DEF CompetitionTick
    <2> DEFINE account == AccountAfter(mark)
    <2>2. PICK plans \in PlansOf(mark) :
             /\ units' = account.position
             /\ cost' = account.cost
             /\ pending' = [x \in Places |-> IF x \in Allowed(account, plans, beta)
                                             THEN plans[x] ELSE 0]
      BY <2>1
    <2>3. mark \in [Pairs -> Prices \union {0}] /\ plans \in [Places -> Prices \union {0}]
      BY DEF Marks, PlansOf
    <2>4. \A x \in Proposed(plans) : mark[x[1]] # 0
      BY LowestPrice, <2>3 DEF PlansOf, Proposed
    <2>5. /\ account \in Account /\ account.mark = mark
          /\ \A p \in Pairs : Bounded(account.position[p])
      BY <2>3, AccountIsOne
    <2> HIDE DEF account
    <2>6. \A x \in Allowed(account, plans, beta) :
             Bounded(account.position[x[1]] + SideSign(x[2]))
      BY <2>3, <2>4, <2>5, AllowedIsBounded
    <2>7. units' \in [Pairs -> Int] /\ cost' \in [Pairs -> Int]
      BY <2>2, <2>5 DEF Account
    <2>8. pending' \in [Places -> Prices \union {0}]
      BY <2>2, <2>3
    <2>9. \A x \in Places : pending'[x] # 0 => Bounded(units'[x[1]] + SideSign(x[2]))
      BY <2>2, <2>6
    <2>10. \A p \in Pairs : Bounded(units'[p])
      BY <2>2, <2>5
    <2> QED BY <2>7, <2>8, <2>9, <2>10 DEF HoldingsInv, Bounded
  <1> QED BY <1>1, <1>2

\* Through whatever fills, falls of the mark, lost snapshots and replacements of what
\* rests, what is held of a market stays within what its limit buys, or is one more than
\* what is worth less than a single order (evaluate, and the replay that fills what it let
\* through a tick later).
THEOREM HoldingsStayBounded == CompetitionSpec => []HoldingsBounded
  <1>1. HoldingsInv => HoldingsBounded
    BY DEF HoldingsInv, HoldingsBounded, Bounded
  <1> QED BY <1>1, HoldingsInit, HoldingsStep, PTL DEF CompetitionSpec

-----------------------------------------------------------------------------
(* Sums over the levels *)

Rungs == BuyRungs + SellRungs

\* What a level has in a sum over some of them.
Part(S, number, l) == IF l \in S THEN number[l] ELSE 0

SummedTo(S, number, n, s) ==
  s = [k \in 0..n |-> IF k = 0 THEN 0 ELSE s[k - 1] + Part(S, number, k)]

LEMMA RungsAre == Rungs \in Nat /\ ReplayLevels = 1..Rungs
  BY ReplayAssumption DEF Rungs, ReplayLevels

LEMMA SumExists ==
  ASSUME NEW S, NEW number
  PROVE \E s : SummedTo(S, number, Rungs, s) /\ SumOver(S, number) = s[Rungs]
  <1> DEFINE Ns == {n \in Nat : \E s : SummedTo(S, number, n, s)}
  <1>1. 0 \in Ns
    <2>1. SummedTo(S, number, 0, [k \in 0..0 |-> 0])
      BY DEF SummedTo
    <2> QED BY <2>1
  <1>2. ASSUME NEW n \in Nat, n \in Ns PROVE n + 1 \in Ns
    <2>1. PICK s : SummedTo(S, number, n, s)
      BY <1>2
    <2> DEFINE t == [k \in 0..(n + 1) |-> IF k = n + 1 THEN s[n] + Part(S, number, n + 1)
                                          ELSE s[k]]
    <2>2. \A k \in 0..n : s[k] = IF k = 0 THEN 0 ELSE s[k - 1] + Part(S, number, k)
      BY <2>1 DEF SummedTo
    <2>3. \A k \in 0..(n + 1) : t[k] = IF k = 0 THEN 0 ELSE t[k - 1] + Part(S, number, k)
      BY <2>2
    <2>4. SummedTo(S, number, n + 1, t)
      BY <2>3 DEF SummedTo
    <2> QED BY <2>4
  <1>3. Rungs \in Ns
    <2> HIDE DEF Ns
    <2>1. \A i \in 0..(Rungs - 1) : i \in Ns => i + 1 \in Ns
      BY <1>2, RungsAre
    <2>2. 0..Rungs \subseteq Ns
      BY <1>1, <2>1, UpTo, RungsAre
    <2> QED BY <2>2, RungsAre
  <1>4. PICK s : SummedTo(S, number, Rungs, s)
    BY <1>3
  <1> DEFINE sum == CHOOSE f : SummedTo(S, number, Rungs, f)
  <1>5. SummedTo(S, number, Rungs, sum)
    BY <1>4
  <1>6. SumOver(S, number) = sum[Rungs]
    BY DEF SumOver, SummedTo, Part, Rungs
  <1> QED BY <1>5, <1>6

LEMMA SumIs ==
  ASSUME NEW S, NEW number, \A l \in ReplayLevels : Part(S, number, l) \in Int
  PROVE \E s : /\ s[0] = 0 /\ s[Rungs] = SumOver(S, number)
               /\ \A k \in 0..Rungs : s[k] \in Int
               /\ \A k \in 0..(Rungs - 1) : s[k + 1] = s[k] + Part(S, number, k + 1)
  <1>1. PICK s : SummedTo(S, number, Rungs, s) /\ SumOver(S, number) = s[Rungs]
    BY SumExists
  <1>2. \A k \in 0..Rungs : s[k] = IF k = 0 THEN 0 ELSE s[k - 1] + Part(S, number, k)
    BY <1>1 DEF SummedTo
  <1>3. s[0] = 0
    BY <1>2, RungsAre
  <1>4. \A k \in 0..(Rungs - 1) : s[k + 1] = s[k] + Part(S, number, k + 1)
    <2> SUFFICES ASSUME NEW k \in 0..(Rungs - 1) PROVE s[k + 1] = s[k] + Part(S, number, k + 1)
      OBVIOUS
    <2>1. k + 1 \in 0..Rungs /\ k + 1 # 0 /\ (k + 1) - 1 = k
      BY RungsAre
    <2> QED BY <1>2, <2>1
  <1> DEFINE Ns == {k \in 0..Rungs : s[k] \in Int}
  <1>5. 0 \in Ns
    BY <1>3, RungsAre
  <1>6. \A k \in 0..(Rungs - 1) : k \in Ns => k + 1 \in Ns
    BY <1>4, RungsAre
  <1>7. 0..Rungs \subseteq Ns
    <2> HIDE DEF Ns
    <2> QED BY <1>5, <1>6, UpTo, RungsAre
  <1>8. \A k \in 0..Rungs : s[k] \in Int
    BY <1>7
  <1> QED BY <1>1, <1>3, <1>4, <1>8

LEMMA SumIsNumber ==
  ASSUME NEW S, NEW number, \A l \in ReplayLevels : Part(S, number, l) \in Int
  PROVE SumOver(S, number) \in Int
  BY SumIs, RungsAre

LEMMA SumIsNatural ==
  ASSUME NEW S, NEW number, \A l \in ReplayLevels : Part(S, number, l) \in Nat
  PROVE SumOver(S, number) \in Nat
  <1>1. PICK s : /\ s[0] = 0 /\ s[Rungs] = SumOver(S, number)
                 /\ \A k \in 0..Rungs : s[k] \in Int
                 /\ \A k \in 0..(Rungs - 1) : s[k + 1] = s[k] + Part(S, number, k + 1)
    BY SumIs
  <1> DEFINE Ns == {k \in 0..Rungs : s[k] \in Nat}
  <1>2. 0 \in Ns
    BY <1>1, RungsAre
  <1>3. \A k \in 0..(Rungs - 1) : k \in Ns => k + 1 \in Ns
    BY <1>1, RungsAre
  <1>4. 0..Rungs \subseteq Ns
    <2> HIDE DEF Ns
    <2> QED BY <1>2, <1>3, UpTo, RungsAre
  <1> QED BY <1>1, <1>4, RungsAre

\* A sum that gains some, and loses some, at each level, does so in all.
LEMMA SumFollows ==
  ASSUME NEW A, NEW f, NEW B, NEW g, NEW C, NEW h, NEW D, NEW k,
         \A l \in ReplayLevels :
            /\ {Part(A, f, l), Part(B, g, l), Part(C, h, l), Part(D, k, l)} \subseteq Int
            /\ Part(D, k, l) = Part(A, f, l) + Part(B, g, l) - Part(C, h, l)
  PROVE SumOver(D, k) = SumOver(A, f) + SumOver(B, g) - SumOver(C, h)
  <1>1. PICK a : /\ a[0] = 0 /\ a[Rungs] = SumOver(A, f) /\ \A n \in 0..Rungs : a[n] \in Int
                 /\ \A n \in 0..(Rungs - 1) : a[n + 1] = a[n] + Part(A, f, n + 1)
    BY SumIs
  <1>2. PICK b : /\ b[0] = 0 /\ b[Rungs] = SumOver(B, g) /\ \A n \in 0..Rungs : b[n] \in Int
                 /\ \A n \in 0..(Rungs - 1) : b[n + 1] = b[n] + Part(B, g, n + 1)
    BY SumIs
  <1>3. PICK c : /\ c[0] = 0 /\ c[Rungs] = SumOver(C, h) /\ \A n \in 0..Rungs : c[n] \in Int
                 /\ \A n \in 0..(Rungs - 1) : c[n + 1] = c[n] + Part(C, h, n + 1)
    BY SumIs
  <1>4. PICK d : /\ d[0] = 0 /\ d[Rungs] = SumOver(D, k) /\ \A n \in 0..Rungs : d[n] \in Int
                 /\ \A n \in 0..(Rungs - 1) : d[n + 1] = d[n] + Part(D, k, n + 1)
    BY SumIs
  <1> DEFINE Ns == {n \in 0..Rungs : d[n] = a[n] + b[n] - c[n]}
  <1>5. 0 \in Ns
    BY <1>1, <1>2, <1>3, <1>4, RungsAre
  <1>6. \A n \in 0..(Rungs - 1) : n \in Ns => n + 1 \in Ns
    <2> SUFFICES ASSUME NEW n \in 0..(Rungs - 1), d[n] = a[n] + b[n] - c[n]
                 PROVE n + 1 \in 0..Rungs /\ d[n + 1] = a[n + 1] + b[n + 1] - c[n + 1]
      OBVIOUS
    <2>1. n + 1 \in 0..Rungs /\ n + 1 \in ReplayLevels /\ n \in 0..Rungs
      BY RungsAre
    <2>2. {a[n], b[n], c[n], d[n]} \subseteq Int
      BY <1>1, <1>2, <1>3, <1>4, <2>1
    <2>3. /\ {Part(A, f, n + 1), Part(B, g, n + 1), Part(C, h, n + 1)} \subseteq Int
          /\ Part(D, k, n + 1) = Part(A, f, n + 1) + Part(B, g, n + 1) - Part(C, h, n + 1)
      BY <2>1
    <2> QED BY <1>1, <1>2, <1>3, <1>4, <2>1, <2>2, <2>3
  <1>7. 0..Rungs \subseteq Ns
    <2> HIDE DEF Ns
    <2> QED BY <1>5, <1>6, UpTo, RungsAre
  <1> QED BY <1>1, <1>2, <1>3, <1>4, <1>7, RungsAre

LEMMA SumOfNone ==
  ASSUME NEW number
  PROVE SumOver({}, number) = 0
  <1>1. \A l \in ReplayLevels : Part({}, number, l) = 0
    BY DEF Part
  <1>2. \A l \in ReplayLevels : Part({}, number, l) \in Int
    BY <1>1
  <1>3. PICK s : /\ s[0] = 0 /\ s[Rungs] = SumOver({}, number)
                 /\ \A k \in 0..Rungs : s[k] \in Int
                 /\ \A k \in 0..(Rungs - 1) : s[k + 1] = s[k] + Part({}, number, k + 1)
    BY <1>2, SumIs
  <1> DEFINE Ns == {k \in 0..Rungs : s[k] = 0}
  <1>4. 0 \in Ns
    BY <1>3, RungsAre
  <1>5. \A k \in 0..(Rungs - 1) : k \in Ns => k + 1 \in Ns
    <2> SUFFICES ASSUME NEW k \in 0..(Rungs - 1), s[k] = 0
                 PROVE k + 1 \in 0..Rungs /\ s[k + 1] = 0
      OBVIOUS
    <2>1. k + 1 \in 0..Rungs /\ k + 1 \in ReplayLevels
      BY RungsAre
    <2>2. Part({}, number, k + 1) = 0
      BY <1>1, <2>1
    <2> QED BY <1>3, <2>1, <2>2
  <1>6. 0..Rungs \subseteq Ns
    <2> HIDE DEF Ns
    <2> QED BY <1>4, <1>5, UpTo, RungsAre
  <1> QED BY <1>3, <1>6, RungsAre

-----------------------------------------------------------------------------
(* The offline replay *)

AtProfit(book) == \A l \in Held(book) : Sign(l) * (book[l].tp - book[l].price) >= 0

Numbered(book) ==
  \A l \in ReplayLevels : book[l].price \in Int /\ book[l].size \in Nat /\ book[l].tp \in Int

\* An entry never rests beside a position of its level, both are at a profit, and the
\* sums are kept.
BalanceInv ==
  /\ seconds \in Nat
  /\ Numbered(resting) /\ Numbered(positions)
  /\ Held(resting) \cap Held(positions) = {}
  /\ AtProfit(resting) /\ AtProfit(positions)
  /\ {position_base, realized_gross, spent} \subseteq Int
  /\ position_base = SumOver(Held(positions), Bought(positions))
  /\ realized_gross = SumOver(Held(positions), Cost(positions)) - spent
  /\ realized_gross >= 0

\* What the numbers of a book are, at a level.
LEMMA PartsAre ==
  ASSUME NEW book, Numbered(book), NEW S, NEW l \in ReplayLevels
  PROVE /\ Part(S, Bought(book), l) = IF l \in S THEN Sign(l) * book[l].size ELSE 0
        /\ Part(S, Cost(book), l) = IF l \in S THEN Sign(l) * book[l].price * book[l].size ELSE 0
        /\ Part(S, Proceeds(book), l) = IF l \in S THEN Sign(l) * book[l].tp * book[l].size ELSE 0
        /\ Part(S, Gain(book), l) = IF l \in S THEN Sign(l) * (book[l].tp - book[l].price)
                                                     * book[l].size
                                               ELSE 0
        /\ {Part(S, Bought(book), l), Part(S, Cost(book), l), Part(S, Proceeds(book), l),
            Part(S, Gain(book), l)} \subseteq Int
        /\ Part(S, Gain(book), l) = Part(S, Proceeds(book), l) + 0 - Part(S, Cost(book), l)
  <1>1. Sign(l) \in {1, -1} /\ book[l].price \in Int /\ book[l].size \in Int /\ book[l].tp \in Int
    BY DEF Sign, Numbered
  <1> DEFINE price == book[l].price
             size == book[l].size
             tp == book[l].tp
             sign == Sign(l)
  <1>2. /\ Part(S, Bought(book), l) = IF l \in S THEN sign * size ELSE 0
        /\ Part(S, Cost(book), l) = IF l \in S THEN sign * price * size ELSE 0
        /\ Part(S, Proceeds(book), l) = IF l \in S THEN sign * tp * size ELSE 0
        /\ Part(S, Gain(book), l) = IF l \in S THEN sign * (tp - price) * size ELSE 0
    BY DEF Part, Bought, Cost, Proceeds, Gain
  <1> HIDE DEF price, size, tp, sign
  <1>3. sign \in {1, -1} /\ price \in Int /\ size \in Int /\ tp \in Int
    BY <1>1 DEF price, size, tp, sign
  <1>4. {sign * size, sign * price * size, sign * tp * size, sign * (tp - price) * size}
          \subseteq Int
    BY <1>3
  <1>5. sign * (tp - price) * size = sign * tp * size - sign * price * size
    <2>1. CASE sign = 1
      <3>1. (tp - price) * size = tp * size - price * size
        BY <1>3
      <3> QED BY <1>3, <2>1, <3>1
    <2>2. CASE sign = -1
      <3>1. (tp - price) * size = tp * size - price * size
        BY <1>3
      <3>2. /\ sign * (tp - price) * size = -((tp - price) * size)
            /\ sign * tp * size = -(tp * size) /\ sign * price * size = -(price * size)
        BY <1>3, <2>2
      <3>3. {tp * size, price * size} \subseteq Int
        BY <1>3
      <3> QED BY <3>1, <3>2, <3>3
    <2> QED BY <1>3, <2>1, <2>2
  <1> QED BY <1>2, <1>4, <1>5 DEF price, size, tp, sign

\* What a plan wants at a level is at a profit.
LEMMA DesiredIsSound ==
  ASSUME NEW plan \in Targets, NEW l \in ReplayLevels, NEW quote \in Snapshots, NEW time \in Nat,
         Desired(plan, l, quote, time) # NoOrder
  PROVE LET order == Desired(plan, l, quote, time)
        IN  /\ order.price \in Int /\ order.size \in Nat /\ order.tp \in Int
            /\ order.size # 0
            /\ Sign(l) * (order.tp - order.price) >= 0
  <1> DEFINE at == NudgedPrice(l, plan.levels[l].price, quote)
             tp == ReplayTp(plan, l, at)
  <1>1. /\ plan.center \in Nat
        /\ \A n \in ReplayLevels : plan.levels[n].price \in Nat /\ plan.levels[n].size \in Nat
    BY ReplayAssumption
  <1>2. quote.bid \in Int /\ quote.ask \in Int /\ Nudge \in Nat \ {0}
    BY ReplayAssumption
  <1>3. at \in Int
    BY <1>1, <1>2 DEF NudgedPrice, Quantized
  <1>4. /\ plan.levels[l].size # 0
        /\ Desired(plan, l, quote, time) =
              [price |-> at, size |-> plan.levels[l].size, created |-> time,
               mode |-> plan.mode, tp |-> tp]
    BY DEF Desired
  <1> HIDE DEF at
  <1>5. tp \in Int /\ Sign(l) * (tp - at) >= 0
    <2> DEFINE inner == IF l \notin {1, BuyRungs + 1} THEN plan.levels[l - 1].price ELSE 0
               target == IF inner # 0 THEN inner ELSE plan.center
    <2>1. inner \in Nat
      <3>1. CASE l \notin {1, BuyRungs + 1}
        <4>1. l - 1 \in ReplayLevels
          BY <3>1, RungsAre
        <4> QED BY <1>1, <3>1, <4>1
      <3>2. CASE l \in {1, BuyRungs + 1}
        BY <3>2
      <3> QED BY <3>1, <3>2
    <2> HIDE DEF inner
    <2>2. target \in Nat
      BY <1>1, <2>1
    <2> HIDE DEF target
    <2>3. tp = IF target = 0 \/ Sign(l) * (target - 2 * at) <= 0
               THEN at + Sign(l) * Nudge ELSE Quantized(target)
      BY DEF ReplayTp, inner, target
    <2> HIDE DEF tp
    <2>4. Sign(l) \in {1, -1}
      BY DEF Sign
    <2>5. CASE target = 0 \/ Sign(l) * (target - 2 * at) <= 0
      BY <1>2, <1>3, <2>3, <2>4, <2>5
    <2>6. CASE target # 0 /\ Sign(l) * (target - 2 * at) > 0
      <3>1. tp = (target + 1) \div 2
        BY <1>3, <2>2, <2>3, <2>4, <2>6 DEF Quantized
      <3> QED BY <1>3, <2>2, <2>4, <2>6, <3>1
    <2> QED BY <1>3, <2>2, <2>4, <2>5, <2>6
  <1> HIDE DEF tp
  <1> QED BY <1>1, <1>3, <1>4, <1>5

\* What is created was wanted, and has nothing at its level.
Newly(desired, occupied) == {l \in ReplayLevels : desired[l] # NoOrder /\ l \notin occupied}

LEMMA AdmittedAreNew ==
  ASSUME NEW desired, NEW occupied, NEW still, NEW open, NEW base, NEW mid
  PROVE AdmittedLevels(desired, occupied, still, open, base, mid)
          \subseteq Newly(desired, occupied)
  <1> DEFINE Notional == [l \in ReplayLevels |-> 2 * resting[l].price * resting[l].size]
             NewNotional == [l \in ReplayLevels |-> 2 * desired[l].price * desired[l].size]
             Pending(new) == SumOver(still, Notional) + SumOver(new, NewNotional)
             Exposure(new, l) == Difference(base, 0) * mid + Pending(new) + NewNotional[l]
             Add(new, l) ==
               IF \/ desired[l] = NoOrder \/ l \in occupied
                  \/ Cardinality(still) + Cardinality(new) + Cardinality(open) >= MaxActive
                  \/ Exposure(new, l) > MaxPositions \/ Exposure(new, l) > MaxSidePositions
               THEN new ELSE new \union {l}
             To(n, a) == a = [k \in 0..n |-> IF k = 0 THEN {} ELSE Add(a[k - 1], k)]
             Ns == {n \in Nat : \E a : To(n, a)}
             admitted == CHOOSE a : To(Rungs, a)
  <1>1. AdmittedLevels(desired, occupied, still, open, base, mid) = admitted[Rungs]
    BY DEF AdmittedLevels, Rungs
  <1>2. \A new, l : Add(new, l) = new \/ (/\ Add(new, l) = new \union {l}
                                          /\ desired[l] # NoOrder /\ l \notin occupied)
    OBVIOUS
  <1> HIDE DEF Add
  <1>3. 0 \in Ns
    <2>1. To(0, [k \in 0..0 |-> {}])
      OBVIOUS
    <2> QED BY <2>1
  <1>4. ASSUME NEW n \in Nat, n \in Ns PROVE n + 1 \in Ns
    <2>1. PICK a : To(n, a)
      BY <1>4
    <2> DEFINE b == [k \in 0..(n + 1) |-> IF k = n + 1 THEN Add(a[n], n + 1) ELSE a[k]]
    <2>2. \A k \in 0..n : a[k] = IF k = 0 THEN {} ELSE Add(a[k - 1], k)
      BY <2>1
    <2>3. \A k \in 0..(n + 1) : b[k] = IF k = 0 THEN {} ELSE Add(b[k - 1], k)
      BY <2>2
    <2>4. To(n + 1, b)
      BY <2>3
    <2> HIDE DEF b
    <2> QED BY <2>4
  <1>5. Rungs \in Ns
    <2> HIDE DEF Ns
    <2>1. \A i \in 0..(Rungs - 1) : i \in Ns => i + 1 \in Ns
      BY <1>4, RungsAre
    <2>2. 0..Rungs \subseteq Ns
      BY <1>3, <2>1, UpTo, RungsAre
    <2> QED BY <2>2, RungsAre
  <1>6. To(Rungs, admitted)
    BY <1>5
  <1>7. \A k \in 0..Rungs : admitted[k] = IF k = 0 THEN {} ELSE Add(admitted[k - 1], k)
    BY <1>6
  <1> HIDE DEF admitted
  <1> DEFINE Good == {k \in 0..Rungs : admitted[k] \subseteq Newly(desired, occupied)}
  <1>8. 0 \in Good
    BY <1>7, RungsAre
  <1>9. \A k \in 0..(Rungs - 1) : k \in Good => k + 1 \in Good
    <2> SUFFICES ASSUME NEW k \in 0..(Rungs - 1),
                        admitted[k] \subseteq Newly(desired, occupied)
                 PROVE k + 1 \in 0..Rungs /\ admitted[k + 1] \subseteq Newly(desired, occupied)
      OBVIOUS
    <2>1. k + 1 \in 0..Rungs /\ k + 1 \in ReplayLevels /\ k + 1 # 0 /\ (k + 1) - 1 = k
      BY RungsAre
    <2>2. admitted[k + 1] = Add(admitted[k], k + 1)
      BY <1>7, <2>1
    <2> QED BY <1>2, <2>1, <2>2 DEF Newly
  <1>10. 0..Rungs \subseteq Good
    <2> HIDE DEF Good
    <2> QED BY <1>8, <1>9, UpTo, RungsAre
  <1> QED BY <1>1, <1>10, RungsAre

LEMMA BalanceInit == ReplayInit => BalanceInv
  <1> SUFFICES ASSUME ReplayInit PROVE BalanceInv
    OBVIOUS
  <1>1. Held(positions) = {} /\ Held(resting) = {}
    BY DEF ReplayInit, Held, NoOrder, NoPosition
  <1>2. Numbered(resting) /\ Numbered(positions)
    BY DEF ReplayInit, Numbered, NoOrder, NoPosition
  <1>3. /\ SumOver(Held(positions), Bought(positions)) = 0
        /\ SumOver(Held(positions), Cost(positions)) = 0
    BY <1>1, SumOfNone
  <1> QED BY <1>1, <1>2, <1>3 DEF ReplayInit, BalanceInv, AtProfit

\* The positions after the fills and the exits of a snapshot.
LEMMA BookIsSound ==
  ASSUME BalanceInv, NEW filled, NEW closed, NEW time \in Nat, NEW book,
         filled \subseteq Held(resting), closed \subseteq Held(positions),
         book = Book(filled, closed, time)
  PROVE /\ Numbered(book) /\ AtProfit(book)
        /\ Held(book) = filled \union (Held(positions) \ closed)
        /\ SumOver(Held(book), Bought(book)) =
              SumOver(Held(positions), Bought(positions))
              + SumOver(filled, Bought(resting)) - SumOver(closed, Bought(positions))
        /\ SumOver(Held(book), Cost(book)) =
              SumOver(Held(positions), Cost(positions))
              + SumOver(filled, Cost(resting)) - SumOver(closed, Cost(positions))
  <1>1. filled \subseteq ReplayLevels /\ closed \subseteq ReplayLevels
    BY DEF Held
  <1>2. filled \cap Held(positions) = {}
    BY DEF BalanceInv
  <1>3. \A l \in ReplayLevels :
           book[l] = IF l \in filled
                     THEN [price |-> resting[l].price, size |-> resting[l].size, since |-> time,
                           tp |-> resting[l].tp]
                     ELSE IF l \in closed THEN NoPosition ELSE positions[l]
    BY DEF Book
  <1>4. \A l \in filled : /\ book[l].price = resting[l].price /\ book[l].size = resting[l].size
                          /\ book[l].tp = resting[l].tp /\ resting[l].size # 0
    <2> SUFFICES ASSUME NEW l \in filled
                 PROVE /\ book[l].price = resting[l].price /\ book[l].size = resting[l].size
                       /\ book[l].tp = resting[l].tp /\ resting[l].size # 0
      OBVIOUS
    <2>1. resting[l].size # 0
      BY DEF Held
    <2>2. book[l] = [price |-> resting[l].price, size |-> resting[l].size, since |-> time,
                     tp |-> resting[l].tp]
      BY <1>1, <1>3
    <2> QED BY <2>1, <2>2
  <1>5. \A l \in closed : book[l] = NoPosition
    BY <1>1, <1>2, <1>3
  <1>6. \A l \in ReplayLevels \ (filled \union closed) : book[l] = positions[l]
    BY <1>3
  <1>7. Numbered(book)
    BY <1>4, <1>5, <1>6 DEF BalanceInv, Numbered, NoPosition
  <1>8. Held(book) = filled \union (Held(positions) \ closed)
    BY <1>1, <1>2, <1>4, <1>5, <1>6 DEF Held, NoPosition
  <1>9. AtProfit(book)
    BY <1>1, <1>4, <1>6, <1>8 DEF BalanceInv, AtProfit, Held
  <1>10. ASSUME NEW l \in ReplayLevels
         PROVE /\ Part(Held(book), Bought(book), l) =
                     Part(Held(positions), Bought(positions), l)
                     + Part(filled, Bought(resting), l) - Part(closed, Bought(positions), l)
               /\ Part(Held(book), Cost(book), l) =
                     Part(Held(positions), Cost(positions), l)
                     + Part(filled, Cost(resting), l) - Part(closed, Cost(positions), l)
    <2>1. Numbered(resting) /\ Numbered(positions)
      BY DEF BalanceInv
    <2> DEFINE Size(b) == Sign(l) * b[l].size
               Price(b) == Sign(l) * b[l].price * b[l].size
    <2>2. /\ Part(Held(book), Bought(book), l) = IF l \in Held(book) THEN Size(book) ELSE 0
          /\ Part(Held(book), Cost(book), l) = IF l \in Held(book) THEN Price(book) ELSE 0
      BY <1>7, PartsAre
    <2>3. /\ Part(Held(positions), Bought(positions), l) =
                IF l \in Held(positions) THEN Size(positions) ELSE 0
          /\ Part(Held(positions), Cost(positions), l) =
                IF l \in Held(positions) THEN Price(positions) ELSE 0
          /\ Part(closed, Bought(positions), l) = IF l \in closed THEN Size(positions) ELSE 0
          /\ Part(closed, Cost(positions), l) = IF l \in closed THEN Price(positions) ELSE 0
          /\ {Part(Held(positions), Bought(positions), l),
              Part(Held(positions), Cost(positions), l)} \subseteq Int
      BY <2>1, PartsAre
    <2>4. /\ Part(filled, Bought(resting), l) = IF l \in filled THEN Size(resting) ELSE 0
          /\ Part(filled, Cost(resting), l) = IF l \in filled THEN Price(resting) ELSE 0
          /\ {Part(filled, Bought(resting), l), Part(filled, Cost(resting), l)} \subseteq Int
      BY <2>1, PartsAre
    <2>5. l \in filled => Size(book) = Size(resting) /\ Price(book) = Price(resting)
      BY <1>4
    <2>6. l \in Held(positions) \ closed => Size(book) = Size(positions)
                                            /\ Price(book) = Price(positions)
      BY <1>2, <1>6
    <2> HIDE DEF Size, Price
    <2>7. CASE l \in filled
      BY <1>2, <1>8, <2>2, <2>3, <2>4, <2>5, <2>7
    <2>8. CASE l \in closed
      BY <1>2, <1>8, <2>2, <2>3, <2>4, <2>8
    <2>9. CASE l \notin filled /\ l \notin closed
      BY <1>8, <2>2, <2>3, <2>4, <2>6, <2>9
    <2> QED BY <2>7, <2>8, <2>9
  <1>11. \A l \in ReplayLevels :
            {Part(Held(book), Bought(book), l), Part(Held(book), Cost(book), l),
             Part(Held(positions), Bought(positions), l),
             Part(Held(positions), Cost(positions), l),
             Part(filled, Bought(resting), l), Part(filled, Cost(resting), l),
             Part(closed, Bought(positions), l), Part(closed, Cost(positions), l)} \subseteq Int
    BY <1>7, PartsAre DEF BalanceInv
  <1>12. SumOver(Held(book), Bought(book)) =
            SumOver(Held(positions), Bought(positions))
            + SumOver(filled, Bought(resting)) - SumOver(closed, Bought(positions))
    BY <1>10, <1>11, SumFollows
  <1>13. SumOver(Held(book), Cost(book)) =
            SumOver(Held(positions), Cost(positions))
            + SumOver(filled, Cost(resting)) - SumOver(closed, Cost(positions))
    BY <1>10, <1>11, SumFollows
  <1> QED BY <1>7, <1>8, <1>9, <1>12, <1>13

LEMMA GainsAre ==
  ASSUME NEW book, Numbered(book), NEW closed \in SUBSET Held(book), AtProfit(book)
  PROVE /\ SumOver(closed, Gain(book)) = SumOver(closed, Proceeds(book))
                                         - SumOver(closed, Cost(book))
        /\ SumOver(closed, Gain(book)) \in Nat
        /\ {SumOver(closed, Proceeds(book)), SumOver(closed, Cost(book)),
            SumOver(closed, Bought(book))} \subseteq Int
  <1>1. \A l \in ReplayLevels :
           /\ {Part(closed, Gain(book), l), Part(closed, Proceeds(book), l),
               Part(closed, Cost(book), l), Part(closed, Bought(book), l),
               Part({}, Gain(book), l)} \subseteq Int
           /\ Part(closed, Gain(book), l) = Part(closed, Proceeds(book), l)
                                            + Part({}, Gain(book), l)
                                            - Part(closed, Cost(book), l)
    BY PartsAre
  <1>2. {SumOver(closed, Proceeds(book)), SumOver(closed, Cost(book)),
         SumOver(closed, Bought(book))} \subseteq Int
    BY <1>1, SumIsNumber
  <1>3. SumOver(closed, Gain(book)) = SumOver(closed, Proceeds(book))
                                      + SumOver({}, Gain(book)) - SumOver(closed, Cost(book))
    BY <1>1, SumFollows
  <1>4. SumOver({}, Gain(book)) = 0
    BY SumOfNone
  <1>5. \A l \in ReplayLevels : Part(closed, Gain(book), l) \in Nat
    <2> SUFFICES ASSUME NEW l \in ReplayLevels PROVE Part(closed, Gain(book), l) \in Nat
      OBVIOUS
    <2>1. CASE l \in closed
      <3> DEFINE profit == Sign(l) * (book[l].tp - book[l].price)
                 size == book[l].size
      <3>1. profit \in Int /\ profit >= 0 /\ size \in Nat
        BY <2>1 DEF AtProfit, Numbered, Sign
      <3>2. Part(closed, Gain(book), l) = profit * size
        BY <2>1, PartsAre
      <3> HIDE DEF profit, size
      <3> QED BY <3>1, <3>2
    <2>2. CASE l \notin closed
      BY <2>2 DEF Part
    <2> QED BY <2>1, <2>2
  <1>6. SumOver(closed, Gain(book)) \in Nat
    BY <1>5, SumIsNatural
  <1> QED BY <1>2, <1>3, <1>4, <1>6

LEMMA BalanceStep ==
  ASSUME BalanceInv, NEW quote \in Snapshots, NEW plan \in Targets, NEW gap \in Gaps,
         SnapshotStep(quote, plan, gap)
  PROVE BalanceInv'
  <1> DEFINE time == seconds + gap
             mid == quote.bid + quote.ask
             filled == FilledEntries(quote, time)
             closed == ClosedPositions(quote, time)
             book == Book(filled, closed, time)
             base == position_base + SumOver(filled, Bought(resting))
                     - SumOver(closed, Bought(positions))
             desired == [l \in ReplayLevels |-> Desired(plan, l, quote, time)]
             still == Held(resting) \ filled
             cancelled == {l \in still : Cancelled(plan, quote, desired[l], resting[l], l, time)}
             done == closed \union (IF gap = 0 THEN completed ELSE {})
             occupied == still \union Held(book) \union done
             created == IF cancelled # {} THEN {}
                        ELSE AdmittedLevels(desired, occupied, still, Held(book), base, mid)
  <1>1. /\ seconds' = time /\ positions' = book /\ position_base' = base
        /\ realized_gross' = realized_gross + SumOver(closed, Gain(positions))
        /\ spent' = spent + SumOver(filled, Cost(resting)) - SumOver(closed, Proceeds(positions))
        /\ resting' = [l \in ReplayLevels |->
                          IF l \in created THEN desired[l]
                          ELSE IF l \in still \ cancelled THEN resting[l] ELSE NoOrder]
    BY DEF SnapshotStep
  <1>2. time \in Nat
    BY ReplayAssumption DEF BalanceInv
  <1>3. filled \subseteq Held(resting) /\ closed \subseteq Held(positions)
    BY DEF FilledEntries, ClosedPositions
  <1>4. \A l \in ReplayLevels : desired[l] = Desired(plan, l, quote, time)
    OBVIOUS
  <1>5. created \subseteq Newly(desired, occupied)
    BY AdmittedAreNew
  <1>6. cancelled \subseteq still /\ still = Held(resting) \ filled /\ Held(book) \subseteq occupied
        /\ still \subseteq occupied /\ book = Book(filled, closed, time)
    OBVIOUS
  <1> HIDE DEF time, filled, closed, desired, still, cancelled, created, occupied, book
  <1>7. /\ Numbered(book) /\ AtProfit(book)
        /\ Held(book) = filled \union (Held(positions) \ closed)
        /\ SumOver(Held(book), Bought(book)) =
              SumOver(Held(positions), Bought(positions))
              + SumOver(filled, Bought(resting)) - SumOver(closed, Bought(positions))
        /\ SumOver(Held(book), Cost(book)) =
              SumOver(Held(positions), Cost(positions))
              + SumOver(filled, Cost(resting)) - SumOver(closed, Cost(positions))
    BY <1>2, <1>3, <1>6, BookIsSound
  <1>8. /\ SumOver(closed, Gain(positions)) = SumOver(closed, Proceeds(positions))
                                              - SumOver(closed, Cost(positions))
        /\ SumOver(closed, Gain(positions)) \in Nat
        /\ {SumOver(closed, Proceeds(positions)), SumOver(closed, Cost(positions)),
            SumOver(closed, Bought(positions))} \subseteq Int
    BY <1>3, GainsAre DEF BalanceInv
  <1>9. /\ {SumOver(filled, Bought(resting)), SumOver(filled, Cost(resting))} \subseteq Int
        /\ {SumOver(Held(positions), Cost(positions)),
            SumOver(Held(positions), Bought(positions))} \subseteq Int
    BY <1>3, GainsAre DEF BalanceInv
  <1>10. \A l \in ReplayLevels :
            \/ /\ l \in created /\ resting'[l] = Desired(plan, l, quote, time)
               /\ Desired(plan, l, quote, time) # NoOrder /\ l \notin occupied
            \/ l \in still \ cancelled /\ resting'[l] = resting[l]
            \/ resting'[l] = NoOrder
    BY <1>1, <1>4, <1>5 DEF Newly
  <1>11. Numbered(resting') /\ AtProfit(resting')
    <2> SUFFICES ASSUME NEW l \in ReplayLevels
                 PROVE /\ resting'[l].price \in Int /\ resting'[l].size \in Nat
                       /\ resting'[l].tp \in Int
                       /\ resting'[l].size # 0 =>
                             Sign(l) * (resting'[l].tp - resting'[l].price) >= 0
      BY DEF Numbered, AtProfit, Held
    <2>1. CASE /\ resting'[l] = Desired(plan, l, quote, time)
               /\ Desired(plan, l, quote, time) # NoOrder
      BY <1>2, <2>1, DesiredIsSound
    <2>2. CASE l \in still \ cancelled /\ resting'[l] = resting[l]
      BY <1>6, <2>2 DEF BalanceInv, Numbered, AtProfit
    <2>3. CASE resting'[l] = NoOrder
      BY <2>3 DEF NoOrder
    <2> QED BY <1>10, <2>1, <2>2, <2>3
  <1>12. Held(resting') \cap Held(book) = {}
    <2> SUFFICES ASSUME NEW l \in ReplayLevels, l \in Held(resting'), l \in Held(book)
                 PROVE FALSE
      BY DEF Held
    <2>1. CASE l \notin occupied
      BY <1>6, <2>1
    <2>2. CASE l \in still
      BY <1>3, <1>6, <1>7, <2>2 DEF BalanceInv
    <2>3. CASE resting'[l] = NoOrder
      BY <2>3 DEF Held, NoOrder
    <2> QED BY <1>10, <2>1, <2>2, <2>3
  <1>13. position_base' = SumOver(Held(book), Bought(book))
    BY <1>1, <1>7 DEF BalanceInv
  <1>14. realized_gross' = SumOver(Held(book), Cost(book)) - spent'
    BY <1>1, <1>7, <1>8, <1>9 DEF BalanceInv
  <1>15. realized_gross' >= 0 /\ {position_base', realized_gross', spent'} \subseteq Int
    BY <1>1, <1>8, <1>9 DEF BalanceInv
  <1>16. /\ Held(resting)' = Held(resting') /\ Held(positions)' = Held(book)
         /\ Bought(positions)' = Bought(book) /\ Cost(positions)' = Cost(book)
    BY <1>1 DEF Held, Bought, Cost
  <1>17. /\ Numbered(resting)' /\ Numbered(positions)' /\ AtProfit(resting)'
         /\ AtProfit(positions)'
    BY <1>1, <1>7, <1>11 DEF Numbered, AtProfit, Held
  <1> QED BY <1>1, <1>2, <1>12, <1>13, <1>14, <1>15, <1>16, <1>17 DEF BalanceInv, SumOver

\* The inventory that is fed to the next plan is that of the positions still open, every
\* tick of what the fills moved is in the realized profit or in their entry prices, and no
\* cycle closes at a loss, whatever the plans, the books and the numbers of levels
\* (run, _adjacent_tp).
THEOREM ReplayAlwaysBalances == ReplaySpec => []ReplayBalances
  <1>1. BalanceInv /\ [ReplayNext]_replayVars => BalanceInv'
    <2> SUFFICES ASSUME BalanceInv, [ReplayNext]_replayVars PROVE BalanceInv'
      OBVIOUS
    <2>1. CASE ReplayNext
      BY <2>1, BalanceStep DEF ReplayNext
    <2>2. CASE UNCHANGED replayVars
      BY <2>2 DEF replayVars, BalanceInv, Numbered, AtProfit, Held, Bought, Cost, SumOver
    <2> QED BY <2>1, <2>2
  <1>2. BalanceInv => ReplayBalances
    BY DEF BalanceInv, ReplayBalances, AtProfit
  <1> QED BY <1>1, <1>2, BalanceInit, PTL DEF ReplaySpec

-----------------------------------------------------------------------------
(* What one market tells the others *)

\* A set of indices that is not empty has a greatest.
LEMMA GreatestIs ==
  ASSUME NEW n \in Nat, NEW S \in SUBSET (1..n), S # {}
  PROVE Max(S) \in S /\ \A x \in S : x <= Max(S)
  <1> DEFINE T == {n - x : x \in S}
  <1>1. T \in SUBSET Nat /\ T # {}
    <2>1. \A x \in S : n - x \in Nat
      OBVIOUS
    <2>2. PICK x \in S : TRUE
      OBVIOUS
    <2>3. n - x \in T
      OBVIOUS
    <2> QED BY <2>1, <2>3
  <1>2. Min(T) \in T /\ \A y \in T : Min(T) <= y
    <2> HIDE DEF T
    <2> QED BY <1>1, LeastIs
  <1>3. PICK top \in S : Min(T) = n - top
    BY <1>2
  <1>4. \A x \in S : top >= x
    <2> SUFFICES ASSUME NEW x \in S PROVE top >= x
      OBVIOUS
    <2>1. n - top <= n - x
      BY <1>2, <1>3
    <2> QED BY <2>1
  <1>5. /\ Max(S) \in S
        /\ \A x \in S : Max(S) >= x
    BY <1>4 DEF Max
  <1> QED BY <1>5

LEMMA QuotientIs ==
  ASSUME NEW a \in Int, NEW b \in Nat, b # 0
  PROVE (a * b) \div b = a
  OBVIOUS

LEMMA MaxOfThree ==
  ASSUME NEW a \in Int, NEW b \in Int, NEW c \in Int
  PROVE Max({a, b, c}) \in Int /\ Max({a, b, c}) >= c
  <1>1. \E x \in {a, b, c} : \A y \in {a, b, c} : x >= y
    <2>1. CASE a >= b /\ a >= c
      BY <2>1
    <2>2. CASE b >= a /\ b >= c
      BY <2>2
    <2>3. CASE c >= a /\ c >= b
      BY <2>3
    <2> QED BY <2>1, <2>2, <2>3
  <1>2. Max({a, b, c}) \in {a, b, c} /\ \A y \in {a, b, c} : Max({a, b, c}) >= y
    BY <1>1 DEF Max
  <1> QED BY <1>2

Positive == Nat \ {0}

\* The highest of some values is there.
LEMMA HighestExists ==
  ASSUME NEW values \in Seq(Positive), values # <<>>
  PROVE \E j \in DOMAIN values : \A h \in DOMAIN values : values[h] <= values[j]
  <1> DEFINE n == Len(values)
             S == {m \in Nat : \/ m = 0
                               \/ \E j \in 1..m : \A h \in 1..m : values[h] <= values[j]}
  <1>1. n \in Nat /\ n # 0 /\ DOMAIN values = 1..n /\ \A h \in 1..n : values[h] \in Nat
    BY LenProperties, EmptySeq DEF Positive
  <1> HIDE DEF n
  <1>2. 0 \in S
    OBVIOUS
  <1>3. \A m \in 0..(n - 1) : m \in S => m + 1 \in S
    <2> SUFFICES ASSUME NEW m \in 0..(n - 1), m \in S
                 PROVE \E j \in 1..(m + 1) : \A h \in 1..(m + 1) : values[h] <= values[j]
      BY <1>1
    <2>1. \A h \in 1..(m + 1) : values[h] \in Nat
      BY <1>1
    <2>2. CASE m = 0
      BY <2>1, <2>2
    <2>3. CASE m # 0
      <3>1. PICK j \in 1..m : \A h \in 1..m : values[h] <= values[j]
        BY <2>3
      <3>2. CASE values[m + 1] <= values[j]
        <4>1. j \in 1..(m + 1) /\ \A h \in 1..(m + 1) : h \in 1..m \/ h = m + 1
          OBVIOUS
        <4> QED BY <3>1, <3>2, <4>1
      <3>3. CASE values[j] < values[m + 1]
        <4>1. /\ m + 1 \in 1..(m + 1) /\ j \in 1..(m + 1)
              /\ \A h \in 1..(m + 1) : h \in 1..m \/ h = m + 1
          OBVIOUS
        <4>2. \A h \in 1..(m + 1) : values[h] <= values[m + 1]
          BY <2>1, <3>1, <3>3, <4>1
        <4> QED BY <4>1, <4>2
      <3>4. values[m + 1] <= values[j] \/ values[j] < values[m + 1]
        <4>1. j \in 1..(m + 1) /\ m + 1 \in 1..(m + 1)
          OBVIOUS
        <4>2. values[j] \in Nat /\ values[m + 1] \in Nat
          BY <2>1, <4>1
        <4> QED BY <4>2
      <3> QED BY <3>2, <3>3, <3>4
    <2> QED BY <2>2, <2>3
  <1>4. n \in S
    <2> HIDE DEF S
    <2>1. 0..n \subseteq S
      BY <1>1, <1>2, <1>3, UpTo
    <2> QED BY <1>1, <2>1
  <1> QED BY <1>1, <1>4

LEMMA LowestIsPositive ==
  ASSUME NEW values \in Seq(Positive), NEW k \in 1..Len(values)
  PROVE Lowest(values, k) \in Positive
  <1> DEFINE n == Len(values)
             Below(j) == {h \in DOMAIN values : values[h] <= values[j]}
             Js == {j \in DOMAIN values : Cardinality(Below(j)) >= k}
             T == {values[i] : i \in Js}
  <1>1. n \in Nat /\ DOMAIN values = 1..n /\ \A h \in 1..n : values[h] \in Positive
    BY LenProperties
  <1>2. values # <<>>
    BY <1>1, EmptySeq
  <1>3. PICK j \in DOMAIN values : \A h \in DOMAIN values : values[h] <= values[j]
    BY <1>2, HighestExists
  <1>4. Below(j) = 1..n
    BY <1>1, <1>3
  <1>5. Cardinality(1..n) = n
    <2>1. Cardinality(1..n) = IF 1 > n THEN 0 ELSE n - 1 + 1
      BY <1>1, FS_Interval
    <2> QED BY <1>1, <2>1
  <1>6. j \in Js
    <2> HIDE DEF Below
    <2>1. Cardinality(Below(j)) = n
      BY <1>4, <1>5
    <2> QED BY <1>1, <2>1
  <1>7. T \in SUBSET Nat /\ T # {} /\ T \subseteq Positive
    BY <1>1, <1>6 DEF Positive
  <1>8. Lowest(values, k) = Min(T)
    BY DEF Lowest
  <1> HIDE DEF T
  <1>9. Min(T) \in T
    BY <1>7, LeastIs
  <1> QED BY <1>7, <1>8, <1>9

LEMMA MedianIsPositive ==
  ASSUME NEW values \in Seq(Positive), values # <<>>
  PROVE Median(values) \in Positive
  <1> DEFINE n == Len(values)
             low == Lowest(values, (n + 1) \div 2)
             high == Lowest(values, (n + 2) \div 2)
  <1>1. n \in Nat /\ n # 0
    BY LenProperties, EmptySeq
  <1>2. (n + 1) \div 2 \in 1..n /\ (n + 2) \div 2 \in 1..n
    BY <1>1
  <1>3. low \in Positive /\ high \in Positive
    BY <1>2, LowestIsPositive
  <1>4. Median(values) = (low + high) \div 2
    BY DEF Median
  <1> HIDE DEF low, high
  <1> QED BY <1>3, <1>4 DEF Positive

IvPoint == [at : Int, iv : Positive]

Return ==
  {r \in [at : Int, asset : Int, btc : Int, asset_since : Int, btc_since : Int] :
     r.asset_since - r.btc_since <= RelationGap /\ r.btc_since - r.asset_since <= RelationGap}

\* What is remembered is in the order of its time, none of it of the future, and a
\* return is of two stretches that began together.
MeasuredInv ==
  /\ timestamp \in Int
  /\ iv_history \in Seq(IvPoint)
  /\ \A i, j \in 1..Len(iv_history) : i <= j => iv_history[i].at <= iv_history[j].at
  /\ \A i \in 1..Len(iv_history) : iv_history[i].at <= timestamp
  /\ returns \in Seq(Return)
  /\ \A i \in 1..Len(returns) : returns[i].at <= timestamp
  /\ last_prices \in [{"BTC", "asset"} -> [at : Int, price : Int]]
  /\ MeasuredBeforeTold

LEMMA Measures ==
  /\ {IvStale, IvWindow, RelationWindow, RelationStale, RelationGap, LocalWeight, IvWeight}
       \subseteq Nat
  /\ IvSamples \in Positive /\ RelationObservations \in Positive /\ LocalWeight + IvWeight > 0
  /\ {Elevated, Extreme, VolatilityEnter, VolatilityExit, DefensiveScore} \subseteq Nat
  /\ VolatilityExit < VolatilityEnter /\ TickSteps \subseteq Nat
  BY MultiAssetAssumption DEF Positive

LEMMA TickIs ==
  ASSUME NEW t \in Ticks
  PROVE {t.btc, t.iv, t.iv_age, t.asset, t.rv} \subseteq Int
  BY MultiAssetAssumption

\* What is left of the history is of the window, and the rest as before.
LEMMA RecentIsFresh ==
  ASSUME MeasuredInv, NEW now \in Int
  PROVE /\ RecentIv(now) \in Seq(IvPoint)
        /\ \A i \in 1..Len(RecentIv(now)) : /\ now - IvWindow <= RecentIv(now)[i].at
                                            /\ RecentIv(now)[i].at <= timestamp
        /\ \A i, j \in 1..Len(RecentIv(now)) :
              i <= j => RecentIv(now)[i].at <= RecentIv(now)[j].at
  <1> DEFINE n == Len(iv_history)
             Firsts == {i \in 1..(n + 1) : i <= n => iv_history[i].at >= now - IvWindow}
             first == Min(Firsts)
             recent == RecentIv(now)
  <1>1. n \in Nat /\ \A i \in 1..n : iv_history[i] \in IvPoint
    BY LenProperties DEF MeasuredInv
  <1>2. \A i \in 1..n : iv_history[i].at \in Int
    BY <1>1 DEF IvPoint
  <1>3. first \in Firsts
    <2>1. Firsts \in SUBSET Nat /\ n + 1 \in Firsts
      BY <1>1
    <2> HIDE DEF Firsts
    <2> QED BY <2>1, LeastIs
  <1>4. first \in 1..(n + 1) /\ (first <= n => iv_history[first].at >= now - IvWindow)
    BY <1>3
  <1>5. recent = SubSeq(iv_history, first, n)
    BY DEF RecentIv
  <1> HIDE DEF first, recent
  <1>6. \A i \in first..n : iv_history[i] \in IvPoint
    BY <1>1, <1>4
  <1>7. /\ recent \in Seq(IvPoint)
        /\ Len(recent) = IF first <= n THEN n - first + 1 ELSE 0
        /\ \A i \in 1..(n - first + 1) : recent[i] = iv_history[first + i - 1]
    BY <1>1, <1>4, <1>5, <1>6, SubSeqProperties
  <1>8. \A i \in 1..Len(recent) : /\ first + i - 1 \in 1..n /\ first <= first + i - 1
                                  /\ first \in 1..n
                                  /\ recent[i] = iv_history[first + i - 1]
    BY <1>1, <1>4, <1>7
  <1>9. IvWindow \in Int
    BY Measures
  <1>10. \A i \in 1..Len(recent) : /\ now - IvWindow <= recent[i].at
                                   /\ recent[i].at <= timestamp
    <2> SUFFICES ASSUME NEW i \in 1..Len(recent)
                 PROVE now - IvWindow <= recent[i].at /\ recent[i].at <= timestamp
      OBVIOUS
    <2> DEFINE h == first + i - 1
    <2>1. h \in 1..n /\ first <= h /\ first \in 1..n /\ recent[i] = iv_history[h]
      BY <1>8
    <2> HIDE DEF h
    <2>2. iv_history[first].at <= iv_history[h].at /\ iv_history[h].at <= timestamp
      BY <2>1 DEF MeasuredInv
    <2>3. iv_history[first].at >= now - IvWindow
      BY <1>1, <1>4, <2>1
    <2> QED BY <1>2, <1>9, <2>1, <2>2, <2>3
  <1>11. \A i, j \in 1..Len(recent) : i <= j => recent[i].at <= recent[j].at
    <2> SUFFICES ASSUME NEW i \in 1..Len(recent), NEW j \in 1..Len(recent), i <= j
                 PROVE recent[i].at <= recent[j].at
      OBVIOUS
    <2>1. /\ first + i - 1 \in 1..n /\ first + j - 1 \in 1..n
          /\ recent[i] = iv_history[first + i - 1] /\ recent[j] = iv_history[first + j - 1]
      BY <1>8
    <2>2. first + i - 1 <= first + j - 1
      BY <1>1, <1>4, <1>7
    <2> QED BY <2>1, <2>2 DEF MeasuredInv
  <1> QED BY <1>7, <1>10, <1>11 DEF recent

\* A regime rests on an IV that is there, and on enough before it.
LEMMA RiskIsMeasured ==
  ASSUME MeasuredInv, NEW t \in Ticks, NEW now \in Int
  PROVE LET risk == GlobalRisk(t, now)
        IN  /\ risk.ratio \in Int
            /\ risk.available = IvAvailable(t)
            /\ risk.regime # "initializing" =>
                  risk.available /\ Len(RecentIv(now)) >= IvSamples
  <1> DEFINE recent == RecentIv(now)
             before == [i \in DOMAIN recent |-> recent[i].iv]
             ratio == IF IvAvailable(t) /\ Len(before) >= IvSamples
                      THEN (100 * t.iv) \div Median(before) ELSE NoNumber
             risk == GlobalRisk(t, now)
  <1>1. recent \in Seq(IvPoint)
    BY RecentIsFresh
  <1>2. risk = [available |-> IvAvailable(t), ratio |-> ratio,
                regime |-> CASE ratio = NoNumber -> "initializing"
                             [] ratio >= Extreme -> "extreme"
                             [] ratio >= Elevated /\ ratio < Extreme -> "elevated"
                             [] ratio # NoNumber /\ ratio < Elevated -> "normal"]
    BY DEF GlobalRisk
  <1> HIDE DEF recent, risk
  <1>3. before \in Seq(Positive) /\ Len(before) = Len(recent) /\ Len(recent) \in Nat
    <2>0. \A point \in IvPoint : point.iv \in Positive
      BY DEF IvPoint
    <2>1. /\ Len(recent) \in Nat /\ DOMAIN recent = 1..Len(recent)
          /\ \A i \in 1..Len(recent) : recent[i].iv \in Positive
      BY <1>1, <2>0, LenProperties
    <2>2. before \in [1..Len(recent) -> Positive]
      BY <2>1
    <2> HIDE DEF before
    <2>3. before \in Seq(Positive)
      BY <2>1, <2>2
    <2> QED BY <2>1, <2>2, <2>3, LenProperties
  <1> HIDE DEF before
  <1>4. IvSamples \in Nat /\ IvSamples # 0
    BY Measures DEF Positive
  <1>5. ratio \in Int
    <2>1. CASE IvAvailable(t) /\ Len(before) >= IvSamples
      <3>1. before # <<>>
        BY <1>3, <1>4, <2>1, EmptySeq
      <3>2. Median(before) \in Positive
        BY <1>3, <3>1, MedianIsPositive
      <3>3. t.iv \in Int
        BY TickIs
      <3>4. (100 * t.iv) \div Median(before) \in Int
        BY <3>2, <3>3 DEF Positive
      <3> QED BY <2>1, <3>4
    <2>2. CASE ~(IvAvailable(t) /\ Len(before) >= IvSamples)
      BY <2>2 DEF NoNumber
    <2> QED BY <2>1, <2>2
  <1>6. ratio # NoNumber => IvAvailable(t) /\ Len(recent) >= IvSamples
    BY <1>3
  <1> HIDE DEF ratio
  <1>7. risk.regime # "initializing" => ratio # NoNumber
    <2> SUFFICES ASSUME ratio = NoNumber PROVE risk.regime = "initializing"
      OBVIOUS
    <2>1. {Extreme, Elevated} \subseteq Nat
      BY Measures
    <2>2. ~(ratio >= Extreme) /\ ~(ratio >= Elevated)
      BY <2>1 DEF NoNumber
    <2> QED BY <1>2, <2>2
  <1>8. risk.ratio = ratio /\ risk.available = IvAvailable(t)
    BY <1>2
  <1> QED BY <1>5, <1>6, <1>7, <1>8 DEF risk, recent

\* The market's state, by its own volatility and by what it is told.
LEMMA StateIsMeasured ==
  ASSUME NEW t \in Ticks, NEW risk, NEW related, risk.ratio \in Int
  PROVE LET told == AssetState(t, risk, related)
        IN  /\ told.fallback => CASE MissingBehavior = "pause" -> ~told.valid
                                  [] MissingBehavior = "defensive" -> told.score >= DefensiveScore
                                  [] MissingBehavior = "rv_only" ->
                                        told.score = IF LocalWeight = 0 THEN NoNumber ELSE told.rv
            /\ told.volatility = "HIGH" => told.score >= VolatilityExit
            /\ told.volatility = "NORMAL" => told.score < VolatilityEnter
  <1> DEFINE fallback == ~risk.available \/ risk.ratio = NoNumber
             transmitted == CASE fallback \/ IvWeight = 0 -> NoNumber
                              [] OTHER -> IF related.transmission THEN risk.ratio ELSE 0
             combined == Combined(t.rv, transmitted)
             score == IF fallback /\ MissingBehavior = "defensive"
                      THEN Max({combined, 0, DefensiveScore}) ELSE combined
             told == AssetState(t, risk, related)
  <1>1. t.rv \in Int
    BY TickIs
  <1>2. /\ told.fallback = fallback /\ told.score = score /\ told.rv = t.rv
        /\ told.valid = (t.valid /\ ~(fallback /\ MissingBehavior = "pause"))
        /\ told.volatility = CASE score = NoNumber -> "INITIALIZING"
                               [] OTHER -> IF score >= (IF label = "HIGH" THEN VolatilityExit
                                                        ELSE VolatilityEnter)
                                           THEN "HIGH" ELSE "NORMAL"
    BY DEF AssetState
  <1> HIDE DEF told
  <1>3. transmitted \in Int /\ (fallback => transmitted = NoNumber)
    BY DEF NoNumber
  <1> HIDE DEF transmitted, fallback
  <1>4. combined \in Int /\ (transmitted = NoNumber =>
                                combined = IF LocalWeight = 0 THEN NoNumber ELSE t.rv)
    <2> DEFINE a == IF t.rv = NoNumber THEN 0 ELSE LocalWeight
               b == IF transmitted = NoNumber THEN 0 ELSE IvWeight
               sum == (IF a = 0 THEN 0 ELSE t.rv * a) + (IF b = 0 THEN 0 ELSE transmitted * b)
    <2>1. combined = IF a + b = 0 THEN NoNumber ELSE sum \div (a + b)
      BY DEF Combined
    <2>2. a \in Nat /\ b \in Nat
      BY Measures
    <2> HIDE DEF combined
    <2>3. sum \in Int
      BY <1>1, <1>3, <2>2
    <2>4. combined \in Int
      <3> HIDE DEF a, b, sum
      <3> QED BY <2>1, <2>2, <2>3 DEF NoNumber
    <2>5. ASSUME transmitted = NoNumber
          PROVE combined = IF LocalWeight = 0 THEN NoNumber ELSE t.rv
      <3>1. b = 0
        BY <2>5
      <3>2. CASE a = 0
        <4>1. combined = NoNumber
          <5> HIDE DEF a, b, sum
          <5> QED BY <2>1, <3>1, <3>2
        <4> QED BY <3>2, <4>1
      <3>3. CASE a # 0
        <4>1. combined = (t.rv * a) \div a
          <5> HIDE DEF a, b
          <5>1. sum = t.rv * a
            BY <1>1, <2>2, <3>1, <3>3
          <5> QED BY <2>1, <2>2, <3>1, <3>3, <5>1
        <4>2. (t.rv * a) \div a = t.rv
          BY <1>1, <2>2, <3>3, QuotientIs
        <4> QED BY <3>3, <4>1, <4>2
      <3> QED BY <3>2, <3>3
    <2> QED BY <2>4, <2>5
  <1> HIDE DEF combined
  <1>5. /\ score \in Int
        /\ fallback /\ MissingBehavior = "defensive" => score >= DefensiveScore
    <2>1. DefensiveScore \in Int
      BY Measures
    <2>2. Max({combined, 0, DefensiveScore}) \in Int
          /\ Max({combined, 0, DefensiveScore}) >= DefensiveScore
      BY <1>4, <2>1, MaxOfThree
    <2> QED BY <1>4, <2>2
  <1>6. fallback /\ MissingBehavior = "rv_only" =>
           score = IF LocalWeight = 0 THEN NoNumber ELSE t.rv
    BY <1>3, <1>4
  <1> HIDE DEF score
  <1>7. {VolatilityEnter, VolatilityExit} \subseteq Int /\ VolatilityExit < VolatilityEnter
    BY Measures
  <1>8. told.volatility = "HIGH" => told.score >= VolatilityExit
    BY <1>2, <1>5, <1>7
  <1>9. told.volatility = "NORMAL" => told.score < VolatilityEnter
    BY <1>2, <1>5, <1>7
  <1>10. told.fallback => CASE MissingBehavior = "pause" -> ~told.valid
                            [] MissingBehavior = "defensive" -> told.score >= DefensiveScore
                            [] MissingBehavior = "rv_only" ->
                                  told.score = IF LocalWeight = 0 THEN NoNumber ELSE told.rv
    <2>1. MissingBehavior \in {"rv_only", "defensive", "pause"}
      BY MultiAssetAssumption
    <2>2. CASE MissingBehavior = "pause"
      BY <1>2, <2>2
    <2>3. CASE MissingBehavior = "defensive"
      BY <1>2, <1>5, <2>3
    <2>4. CASE MissingBehavior = "rv_only"
      BY <1>2, <1>6, <2>4
    <2> QED BY <2>1, <2>2, <2>3, <2>4
  <1> QED BY <1>8, <1>9, <1>10 DEF told

\* A relationship that is valid rests on enough returns, the newest of them not old.
LEMMA RelationIsMeasured ==
  ASSUME NEW all \in Seq(Return), NEW now \in Int,
         \A i \in 1..Len(all) : all[i].at <= now, Relation(all, now).valid
  PROVE LET recent == {i \in DOMAIN all : all[i].at > now - RelationWindow}
        IN  /\ Cardinality(recent) >= RelationObservations
            /\ \E i \in recent : all[i].at >= now - RelationStale
  <1> DEFINE n == Len(all)
             rows == {i \in DOMAIN all : now - RelationWindow < all[i].at /\ all[i].at <= now}
             recent == {i \in DOMAIN all : all[i].at > now - RelationWindow}
  <1>1. n \in Nat /\ DOMAIN all = 1..n /\ \A i \in 1..n : all[i] \in Return
    BY LenProperties
  <1>2. \A i \in 1..n : all[i].at \in Int
    BY <1>1 DEF Return
  <1>3. RelationWindow \in Int /\ RelationStale \in Int
    BY Measures
  <1>4. rows = recent
    BY <1>1, <1>2, <1>3
  <1>5. /\ rows # {} /\ Cardinality(rows) >= RelationObservations
        /\ now - all[Max(rows)].at <= RelationStale
    BY DEF Relation
  <1>6. rows \in SUBSET (1..n)
    BY <1>1
  <1> HIDE DEF rows
  <1>7. Max(rows) \in rows /\ Max(rows) \in 1..n
    BY <1>1, <1>5, <1>6, GreatestIs
  <1>8. all[Max(rows)].at >= now - RelationStale
    BY <1>2, <1>3, <1>5, <1>7
  <1> HIDE DEF recent
  <1>9. \E i \in recent : all[i].at >= now - RelationStale
    BY <1>4, <1>7, <1>8
  <1> QED BY <1>4, <1>5, <1>9 DEF recent

\* A return is added of stretches that began together.
LEMMA ReturnsAreSynchronous ==
  ASSUME MeasuredInv, NEW t \in Ticks, NEW now \in Int, timestamp <= now
  PROVE /\ NewReturns(t, now) \in Seq(Return)
        /\ \A i \in 1..Len(NewReturns(t, now)) : NewReturns(t, now)[i].at <= now
        /\ NewPrices(t, now) \in [{"BTC", "asset"} -> [at : Int, price : Int]]
  <1> DEFINE btc == last_prices["BTC"]
             asset == last_prices["asset"]
             new == [at |-> now, asset |-> t.asset - asset.price, btc |-> t.btc - btc.price,
                     asset_since |-> asset.at, btc_since |-> btc.at]
             n == Len(returns)
  <1>1. {t.btc, t.asset} \subseteq Int
    BY TickIs
  <1>2. {btc.at, btc.price, asset.at, asset.price} \subseteq Int
    BY DEF MeasuredInv
  <1>3. /\ n \in Nat /\ \A i \in 1..n : returns[i] \in Return
        /\ \A i \in 1..n : returns[i].at <= now
    <2>1. n \in Nat /\ \A i \in 1..n : returns[i] \in Return
      BY LenProperties DEF MeasuredInv
    <2>2. \A i \in 1..n : returns[i].at \in Int /\ returns[i].at <= timestamp
      BY <2>1 DEF MeasuredInv, Return
    <2>3. timestamp \in Int
      BY DEF MeasuredInv
    <2> QED BY <2>1, <2>2, <2>3
  <1>5. NewPrices(t, now) \in [{"BTC", "asset"} -> [at : Int, price : Int]]
    <2>1. DOMAIN last_prices = {"BTC", "asset"}
          /\ \A m \in {"BTC", "asset"} : last_prices[m] \in [at : Int, price : Int]
      BY DEF MeasuredInv
    <2>2. \A price \in Int : [at |-> now, price |-> price] \in [at : Int, price : Int]
      OBVIOUS
    <2> QED BY <1>1, <2>1, <2>2 DEF NewPrices
  <1>4. CASE t.btc # NoNumber /\ t.asset # NoNumber /\ Together(asset, btc)
    <2>1. NewReturns(t, now) = Append(returns, new)
      BY <1>4 DEF NewReturns
    <2>2. asset.at - btc.at <= RelationGap /\ btc.at - asset.at <= RelationGap
      BY <1>4 DEF Together
    <2>3. new \in Return
      <3>1. /\ t.asset - asset.price \in Int /\ t.btc - btc.price \in Int
        BY <1>1, <1>2
      <3> QED BY <1>2, <2>2, <3>1 DEF Return
    <2> HIDE DEF new
    <2>4. /\ Append(returns, new) \in Seq(Return) /\ Len(Append(returns, new)) = n + 1
          /\ Append(returns, new)[n + 1] = new
          /\ \A i \in 1..n : Append(returns, new)[i] = returns[i]
      BY <2>3, AppendProperties DEF MeasuredInv
    <2>5. new.at = now
      BY DEF new
    <2>6. \A i \in 1..(n + 1) : Append(returns, new)[i].at <= now
      BY <1>3, <2>4, <2>5
    <2>7. NewReturns(t, now) \in Seq(Return)
          /\ \A i \in 1..Len(NewReturns(t, now)) : NewReturns(t, now)[i].at <= now
      BY <2>1, <2>4, <2>6
    <2> QED BY <1>5, <2>7
  <1>6. CASE ~(t.btc # NoNumber /\ t.asset # NoNumber /\ Together(asset, btc))
    <2>1. NewReturns(t, now) = returns
      BY <1>6 DEF NewReturns
    <2> QED BY <1>3, <1>5, <2>1 DEF MeasuredInv
  <1> QED BY <1>4, <1>6

LEMMA MeasuredInit == MultiAssetInit => MeasuredInv
  <1> SUFFICES ASSUME MultiAssetInit PROVE MeasuredInv
    OBVIOUS
  <1>1. iv_history \in Seq(IvPoint) /\ Len(iv_history) = 0
    BY EmptySeq DEF MultiAssetInit
  <1>2. returns \in Seq(Return) /\ Len(returns) = 0
    BY EmptySeq DEF MultiAssetInit
  <1>3. last_prices \in [{"BTC", "asset"} -> [at : Int, price : Int]]
    BY DEF MultiAssetInit, NoPrice, NoNumber
  <1>4. MeasuredBeforeTold
    BY DEF MultiAssetInit, MeasuredBeforeTold
  <1> QED BY <1>1, <1>2, <1>3, <1>4 DEF MultiAssetInit, MeasuredInv

LEMMA MeasuredStep ==
  ASSUME MeasuredInv, NEW t \in Ticks, NEW step \in TickSteps,
         timestamp' = timestamp + step,
         global_risk' = GlobalRisk(t, timestamp + step),
         iv_history' = IF GlobalRisk(t, timestamp + step).available
                       THEN Append(RecentIv(timestamp + step),
                                   [at |-> timestamp + step, iv |-> t.iv])
                       ELSE RecentIv(timestamp + step),
         returns' = NewReturns(t, timestamp + step),
         last_prices' = NewPrices(t, timestamp + step),
         relation' = Relation(NewReturns(t, timestamp + step), timestamp + step),
         state' = IF t.asset = NoNumber THEN MissingState
                  ELSE AssetState(t, GlobalRisk(t, timestamp + step),
                                  Relation(NewReturns(t, timestamp + step), timestamp + step))
  PROVE MeasuredInv'
  <1> DEFINE now == timestamp + step
             recent == RecentIv(now)
             risk == GlobalRisk(t, now)
             point == [at |-> now, iv |-> t.iv]
             n == Len(recent)
  <1>1. now \in Int /\ timestamp \in Int /\ timestamp <= now
    BY Measures DEF MeasuredInv
  <1>2. /\ recent \in Seq(IvPoint)
        /\ \A i \in 1..n : now - IvWindow <= recent[i].at /\ recent[i].at <= timestamp
        /\ \A i, j \in 1..n : i <= j => recent[i].at <= recent[j].at
    BY <1>1, RecentIsFresh
  <1>3. /\ risk.ratio \in Int /\ risk.available = IvAvailable(t)
        /\ risk.regime # "initializing" => risk.available /\ n >= IvSamples
    BY <1>1, RiskIsMeasured
  <1>4. /\ NewReturns(t, now) \in Seq(Return)
        /\ \A i \in 1..Len(NewReturns(t, now)) : NewReturns(t, now)[i].at <= now
        /\ NewPrices(t, now) \in [{"BTC", "asset"} -> [at : Int, price : Int]]
    BY <1>1, ReturnsAreSynchronous
  <1>5. /\ timestamp' = now /\ global_risk' = risk
        /\ iv_history' = IF risk.available THEN Append(recent, point) ELSE recent
        /\ returns' = NewReturns(t, now) /\ last_prices' = NewPrices(t, now)
        /\ relation' = Relation(NewReturns(t, now), now)
        /\ state' = IF t.asset = NoNumber THEN MissingState
                    ELSE AssetState(t, risk, Relation(NewReturns(t, now), now))
    OBVIOUS
  <1>6. n \in Nat /\ \A i \in 1..n : recent[i].at \in Int
    <2>1. n \in Nat /\ \A i \in 1..n : recent[i] \in IvPoint
      BY <1>2, LenProperties
    <2> QED BY <2>1 DEF IvPoint
  <1>w. IvWindow \in Nat /\ IvSamples \in Nat /\ RelationWindow \in Nat /\ RelationGap \in Int
    BY Measures DEF Positive
  <1> HIDE DEF now, recent, risk
  \* The history.
  <1>7. /\ iv_history' \in Seq(IvPoint)
        /\ \A i, j \in 1..Len(iv_history') : i <= j => iv_history'[i].at <= iv_history'[j].at
        /\ \A i \in 1..Len(iv_history') : /\ iv_history'[i].at <= now
                                          /\ iv_history'[i].at >= now - IvWindow
        /\ Len(iv_history') = IF risk.available THEN n + 1 ELSE n
    <2>1. CASE risk.available
      <3>1. t.iv \in Positive
        <4>1. IvAvailable(t)
          BY <1>3, <2>1
        <4>2. t.iv > 0
          BY <4>1 DEF IvAvailable
        <4>3. t.iv \in Int
          BY TickIs
        <4> QED BY <4>2, <4>3 DEF Positive
      <3>2. point \in IvPoint
        BY <1>1, <3>1 DEF IvPoint
      <3>3. point.at = now
        OBVIOUS
      <3> HIDE DEF point
      <3>4. /\ iv_history' \in Seq(IvPoint) /\ Len(iv_history') = n + 1
            /\ iv_history'[n + 1] = point /\ \A i \in 1..n : iv_history'[i] = recent[i]
        <4>1. iv_history' = Append(recent, point)
          BY <1>5, <2>1
        <4>2. /\ Append(recent, point) \in Seq(IvPoint) /\ Len(Append(recent, point)) = n + 1
              /\ Append(recent, point)[n + 1] = point
              /\ \A i \in 1..n : Append(recent, point)[i] = recent[i]
          BY <1>2, <3>2, AppendProperties
        <4> QED BY <4>1, <4>2
      <3>5. \A i \in 1..(n + 1) : i \in 1..n \/ i = n + 1
        BY <1>6
      <3>6. \A i \in 1..(n + 1) : /\ iv_history'[i].at <= now
                                  /\ iv_history'[i].at >= now - IvWindow
        BY <1>1, <1>2, <1>6, <1>w, <3>3, <3>4, <3>5
      <3>7. \A i, j \in 1..(n + 1) : i <= j => iv_history'[i].at <= iv_history'[j].at
        <4> SUFFICES ASSUME NEW i \in 1..(n + 1), NEW j \in 1..(n + 1), i <= j
                     PROVE iv_history'[i].at <= iv_history'[j].at
          OBVIOUS
        <4>1. CASE j = n + 1
          BY <3>3, <3>4, <3>6, <4>1
        <4>2. CASE j # n + 1
          <5>1. i \in 1..n /\ j \in 1..n
            BY <1>6, <4>2
          <5> QED BY <1>2, <3>4, <5>1
        <4> QED BY <4>1, <4>2
      <3> QED BY <2>1, <3>4, <3>6, <3>7
    <2>2. CASE ~risk.available
      <3>1. iv_history' = recent
        BY <1>5, <2>2
      <3>2. \A i \in 1..n : recent[i].at <= now /\ recent[i].at >= now - IvWindow
        BY <1>1, <1>2, <1>6, <1>w
      <3> QED BY <1>2, <2>2, <3>1, <3>2
    <2> QED BY <2>1, <2>2
  \* What is told.
  <1>8. global_risk'.regime # "initializing" =>
           /\ global_risk'.available /\ Len(iv_history') > IvSamples
           /\ \A i \in DOMAIN iv_history' : iv_history'[i].at >= timestamp' - IvWindow
    <2>1. DOMAIN iv_history' = 1..Len(iv_history')
      BY <1>7, LenProperties
    <2> QED BY <1>3, <1>5, <1>6, <1>7, <1>w, <2>1
  <1>9. relation'.valid =>
           LET recently == {i \in DOMAIN returns' : returns'[i].at > timestamp' - RelationWindow}
           IN  /\ Cardinality(recently) >= RelationObservations
               /\ \E i \in recently : returns'[i].at >= timestamp' - RelationStale
               /\ \A i \in recently :
                     LET apart == returns'[i].asset_since - returns'[i].btc_since
                     IN  apart <= RelationGap /\ -apart <= RelationGap
    <2> SUFFICES ASSUME relation'.valid
                 PROVE LET recently == {i \in DOMAIN returns' :
                                          returns'[i].at > timestamp' - RelationWindow}
                       IN  /\ Cardinality(recently) >= RelationObservations
                           /\ \E i \in recently : returns'[i].at >= timestamp' - RelationStale
                           /\ \A i \in recently :
                                 LET apart == returns'[i].asset_since - returns'[i].btc_since
                                 IN  apart <= RelationGap /\ -apart <= RelationGap
      OBVIOUS
    <2> DEFINE all == NewReturns(t, now)
    <2>1. Relation(all, now).valid
      BY <1>5
    <2>2. /\ Cardinality({i \in DOMAIN all : all[i].at > now - RelationWindow})
                >= RelationObservations
          /\ \E i \in {j \in DOMAIN all : all[j].at > now - RelationWindow} :
                all[i].at >= now - RelationStale
      BY <1>1, <1>4, <2>1, RelationIsMeasured
    <2>3. \A i \in DOMAIN all : LET apart == all[i].asset_since - all[i].btc_since
                                IN  apart <= RelationGap /\ -apart <= RelationGap
      <3> SUFFICES ASSUME NEW i \in DOMAIN all
                   PROVE LET apart == all[i].asset_since - all[i].btc_since
                         IN  apart <= RelationGap /\ -apart <= RelationGap
        OBVIOUS
      <3>1. all[i] \in Return
        <4>1. i \in 1..Len(all)
          BY <1>4, LenProperties
        <4> QED BY <1>4, <4>1, LenProperties
      <3> HIDE DEF all
      <3>2. /\ all[i].asset_since \in Int /\ all[i].btc_since \in Int
            /\ all[i].asset_since - all[i].btc_since <= RelationGap
            /\ all[i].btc_since - all[i].asset_since <= RelationGap
        BY <3>1 DEF Return
      <3> QED BY <1>w, <3>2
    <2>4. returns' = all /\ timestamp' = now
      BY <1>5
    <2> HIDE DEF all
    <2> QED BY <2>2, <2>3, <2>4
  <1>10. /\ state'.present /\ state'.fallback =>
               CASE MissingBehavior = "pause" -> ~state'.valid
                 [] MissingBehavior = "defensive" -> state'.score >= DefensiveScore
                 [] MissingBehavior = "rv_only" ->
                       state'.score = IF LocalWeight = 0 THEN NoNumber ELSE state'.rv
         /\ state'.volatility = "HIGH" => state'.score >= VolatilityExit
         /\ state'.volatility = "NORMAL" => state'.score < VolatilityEnter
    <2>1. CASE t.asset = NoNumber
      <3>1. state' = MissingState
        BY <1>5, <2>1
      <3>2. /\ state'.present = FALSE /\ state'.volatility = "INITIALIZING"
        BY <3>1 DEF MissingState
      <3> QED BY <3>2
    <2>2. CASE t.asset # NoNumber
      <3>1. state' = AssetState(t, risk, Relation(NewReturns(t, now), now))
        BY <1>5, <2>2
      <3> DEFINE told == AssetState(t, risk, Relation(NewReturns(t, now), now))
      <3>2. /\ told.fallback => CASE MissingBehavior = "pause" -> ~told.valid
                                [] MissingBehavior = "defensive" -> told.score >= DefensiveScore
                                [] MissingBehavior = "rv_only" ->
                                      told.score = IF LocalWeight = 0 THEN NoNumber ELSE told.rv
            /\ told.volatility = "HIGH" => told.score >= VolatilityExit
            /\ told.volatility = "NORMAL" => told.score < VolatilityEnter
        BY <1>3, StateIsMeasured
      <3> HIDE DEF told
      <3> QED BY <3>1, <3>2 DEF told
    <2> QED BY <2>1, <2>2
  <1>11. MeasuredBeforeTold'
    BY <1>8, <1>9, <1>10 DEF MeasuredBeforeTold
  <1> QED BY <1>1, <1>4, <1>5, <1>7, <1>11 DEF MeasuredInv

\* What reaches a market from BTC is fresh and measured: a regime rests on an IV that is
\* not stale and on enough before it within the window, a valid relationship on enough
\* returns whose stretches began together, and without IV the market is judged by its own
\* volatility alone, or as the configuration says of it, whatever the ticks tell and
\* however long it runs (GlobalRiskEngine.update, RollingBTCRelationshipEngine._state,
\* MultiAssetStateEngine.update).
THEOREM AlwaysMeasuredBeforeTold == MultiAssetSpec => []MeasuredBeforeTold
  <1>1. MeasuredInv /\ [MultiAssetTick]_multiVars => MeasuredInv'
    <2> SUFFICES ASSUME MeasuredInv, [MultiAssetTick]_multiVars PROVE MeasuredInv'
      OBVIOUS
    <2>1. CASE MultiAssetTick
      BY <2>1, MeasuredStep DEF MultiAssetTick
    <2>2. CASE UNCHANGED multiVars
      BY <2>2 DEF multiVars, MeasuredInv, MeasuredBeforeTold
    <2> QED BY <2>1, <2>2
  <1>2. MeasuredInv => MeasuredBeforeTold
    BY DEF MeasuredInv
  <1> QED BY <1>1, <1>2, MeasuredInit, PTL DEF MultiAssetSpec

-----------------------------------------------------------------------------
(* Ranks *)

\* R orders the places I, and each has its rank there: how many are before it.
Orders(R, I) ==
    /\ \A i \in I : <<i, i>> \notin R
    /\ \A i, j, k \in I : <<i, j>> \in R /\ <<j, k>> \in R => <<i, k>> \in R
    /\ \A i, j \in I : i # j => <<i, j>> \in R \/ <<j, i>> \in R

Before(R, I, i) == {j \in I : <<j, i>> \in R}
RankIn(R, I, i) == Cardinality(Before(R, I, i))

LEMMA RanksAre ==
  ASSUME NEW I, IsFiniteSet(I), NEW R, Orders(R, I)
  PROVE  /\ Cardinality(I) \in Nat
         /\ \A i \in I : RankIn(R, I, i) \in 0..(Cardinality(I) - 1)
         /\ \A i, j \in I : <<i, j>> \in R <=> RankIn(R, I, i) < RankIn(R, I, j)
         /\ \A n \in 0..(Cardinality(I) - 1) : \E i \in I : RankIn(R, I, i) = n
  <1> DEFINE N == Cardinality(I)
             f == [i \in I |-> RankIn(R, I, i)]
  <1>1. N \in Nat
    BY FS_CardinalityType
  <1>2. \A i \in I : /\ IsFiniteSet(Before(R, I, i)) /\ RankIn(R, I, i) \in Nat
                     /\ RankIn(R, I, i) < N
    <2> SUFFICES ASSUME NEW i \in I
                 PROVE  /\ IsFiniteSet(Before(R, I, i)) /\ RankIn(R, I, i) \in Nat
                        /\ RankIn(R, I, i) < N
      OBVIOUS
    <2>1. Before(R, I, i) \in SUBSET I /\ i \notin Before(R, I, i)
      BY DEF Before, Orders
    <2>2. /\ IsFiniteSet(Before(R, I, i)) /\ Cardinality(Before(R, I, i)) <= N
          /\ N = Cardinality(Before(R, I, i)) => I = Before(R, I, i)
      BY <2>1, FS_Subset
    <2>3. Cardinality(Before(R, I, i)) \in Nat
      BY <2>2, FS_CardinalityType
    <2> QED BY <1>1, <2>1, <2>2, <2>3 DEF RankIn
  <1>3. ASSUME NEW i \in I, NEW j \in I, <<i, j>> \in R
        PROVE  RankIn(R, I, i) < RankIn(R, I, j)
    <2>1. Before(R, I, i) \in SUBSET Before(R, I, j)
      BY <1>3 DEF Before, Orders
    <2>2. i \in Before(R, I, j) /\ i \notin Before(R, I, i)
      BY <1>3 DEF Before, Orders
    <2>3. /\ Cardinality(Before(R, I, i)) <= Cardinality(Before(R, I, j))
          /\ Cardinality(Before(R, I, j)) = Cardinality(Before(R, I, i))
                => Before(R, I, j) = Before(R, I, i)
      BY <1>2, <2>1, FS_Subset
    <2> QED BY <1>2, <2>2, <2>3 DEF RankIn
  <1>4. ASSUME NEW i \in I, NEW j \in I, RankIn(R, I, i) < RankIn(R, I, j)
        PROVE  <<i, j>> \in R
    <2>1. i # j
      BY <1>2, <1>4
    <2>2. CASE <<j, i>> \in R
      <3>1. RankIn(R, I, j) < RankIn(R, I, i)
        BY <1>3, <2>2
      <3> QED BY <1>2, <1>4, <3>1
    <2> QED BY <2>1, <2>2 DEF Orders
  <1>5. f \in Injection(I, 0..(N - 1))
    <2>1. f \in [I -> 0..(N - 1)]
      BY <1>1, <1>2
    <2>2. \A i, j \in I : f[i] = f[j] => i = j
      <3> SUFFICES ASSUME NEW i \in I, NEW j \in I, f[i] = f[j], i # j PROVE FALSE
        OBVIOUS
      <3>1. RankIn(R, I, i) < RankIn(R, I, j) \/ RankIn(R, I, j) < RankIn(R, I, i)
        BY <1>3 DEF Orders
      <3> QED BY <1>2, <3>1
    <2> HIDE DEF f
    <2> QED BY <2>1, <2>2 DEF Injection, IsInjective
  <1>6. IsFiniteSet(0..(N - 1)) /\ Cardinality(0..(N - 1)) = N
    BY <1>1, FS_Interval
  <1>7. f \in Surjection(I, 0..(N - 1))
    <2> HIDE DEF f, N
    <2>1. Cardinality(I) = Cardinality(0..(N - 1))
      BY <1>6 DEF N
    <2> QED BY <1>5, <1>6, <2>1, FS_Injection
  <1>8. \A n \in 0..(N - 1) : \E i \in I : f[i] = n
    BY <1>7 DEF Surjection
  <1> QED BY <1>1, <1>2, <1>3, <1>4, <1>8

\* p tells the places I in the order of R.
Tells(p, R, I) ==
    /\ p \in [1..Cardinality(I) -> I]
    /\ \A k, l \in 1..Cardinality(I) : k < l <=> <<p[k], p[l]>> \in R
    /\ \A i \in I : \E k \in 1..Cardinality(I) : p[k] = i

LEMMA RanksTell ==
  ASSUME NEW I, IsFiniteSet(I), NEW R, Orders(R, I)
  PROVE  Tells([k \in 1..Cardinality(I) |-> CHOOSE i \in I : RankIn(R, I, i) = k - 1], R, I)
  <1> DEFINE N == Cardinality(I)
             p == [k \in 1..N |-> CHOOSE i \in I : RankIn(R, I, i) = k - 1]
  <1>1. /\ N \in Nat
        /\ \A i \in I : RankIn(R, I, i) \in 0..(N - 1)
        /\ \A i, j \in I : <<i, j>> \in R <=> RankIn(R, I, i) < RankIn(R, I, j)
        /\ \A n \in 0..(N - 1) : \E i \in I : RankIn(R, I, i) = n
    BY RanksAre
  <1>2. \A k \in 1..N : p[k] \in I /\ RankIn(R, I, p[k]) = k - 1
    <2> SUFFICES ASSUME NEW k \in 1..N
                 PROVE  p[k] \in I /\ RankIn(R, I, p[k]) = k - 1
      OBVIOUS
    <2>1. k - 1 \in 0..(N - 1)
      BY <1>1
    <2>2. \E i \in I : RankIn(R, I, i) = k - 1
      BY <1>1, <2>1
    <2>3. p[k] = CHOOSE i \in I : RankIn(R, I, i) = k - 1
      OBVIOUS
    <2> QED BY <2>2, <2>3
  <1>3. p \in [1..N -> I]
    BY <1>2
  <1>4. \A i \in I : \E k \in 1..N : p[k] = i
    <2> SUFFICES ASSUME NEW i \in I PROVE \E k \in 1..N : p[k] = i
      OBVIOUS
    <2> DEFINE k == RankIn(R, I, i) + 1
    <2>1. k \in 1..N /\ k - 1 = RankIn(R, I, i)
      BY <1>1
    <2> HIDE DEF k
    <2>2. p[k] \in I /\ RankIn(R, I, p[k]) = RankIn(R, I, i)
      BY <1>2, <2>1
    <2>3. p[k] = i
      <3> HIDE DEF p
      <3> SUFFICES ASSUME p[k] # i PROVE FALSE
        OBVIOUS
      <3>1. <<p[k], i>> \in R \/ <<i, p[k]>> \in R
        BY <2>2 DEF Orders
      <3>2. RankIn(R, I, p[k]) < RankIn(R, I, i) \/ RankIn(R, I, i) < RankIn(R, I, p[k])
        BY <1>1, <2>2, <3>1
      <3> QED BY <1>1, <2>2, <3>2
    <2> QED BY <2>1, <2>3
  <1>5. \A k, l \in 1..N : k < l <=> <<p[k], p[l]>> \in R
    <2> HIDE DEF p
    <2> SUFFICES ASSUME NEW k \in 1..N, NEW l \in 1..N
                 PROVE  k < l <=> <<p[k], p[l]>> \in R
      OBVIOUS
    <2>1. <<p[k], p[l]>> \in R <=> RankIn(R, I, p[k]) < RankIn(R, I, p[l])
      BY <1>1, <1>2
    <2>2. RankIn(R, I, p[k]) = k - 1 /\ RankIn(R, I, p[l]) = l - 1
      BY <1>2
    <2> QED BY <1>1, <2>1, <2>2
  <1> QED BY <1>3, <1>4, <1>5 DEF Tells
-----------------------------------------------------------------------------
(* The order of a stream, and some of its records *)

\* p tells the places of s as they are sorted, and the places I as they come.
Sorts(p, s) ==
    /\ p \in [1..Len(s) -> 1..Len(s)]
    /\ \A k, l \in 1..Len(s) : k < l <=> Earlier(s, p[k], p[l])
    /\ \A i \in 1..Len(s) : \E k \in 1..Len(s) : p[k] = i

Keeps(p, I) ==
    /\ p \in [1..Cardinality(I) -> I]
    /\ \A k, l \in 1..Cardinality(I) : k < l <=> p[k] < p[l]
    /\ \A i \in I : \E k \in 1..Cardinality(I) : p[k] = i

LEMMA CountedTo ==
  ASSUME NEW n \in Nat
  PROVE  IsFiniteSet(1..n) /\ Cardinality(1..n) = n
  BY FS_Interval

LEMMA PlacesAreFinite ==
  ASSUME NEW n \in Nat, NEW I \in SUBSET (1..n)
  PROVE  IsFiniteSet(I) /\ Cardinality(I) \in 0..n
  <1>1. IsFiniteSet(1..n) /\ Cardinality(1..n) = n
    BY CountedTo
  <1>2. IsFiniteSet(I) /\ Cardinality(I) <= n
    BY <1>1, FS_Subset
  <1>3. Cardinality(I) \in Nat
    BY <1>2, FS_CardinalityType
  <1> QED BY <1>2, <1>3

LEMMA SortedIs ==
  ASSUME NEW S, \A r \in S : r.at \in Int, NEW s \in Seq(S)
  PROVE  /\ \E p : Sorts(p, s) /\ Sorted(s) = [k \in 1..Len(s) |-> s[p[k]]]
         /\ Sorted(s) \in Seq(S) /\ Len(Sorted(s)) = Len(s)
  <1> DEFINE I == 1..Len(s)
             R == {x \in I \X I : Earlier(s, x[1], x[2])}
             p == [k \in 1..Cardinality(I) |-> CHOOSE i \in I : RankIn(R, I, i) = k - 1]
  <1>1. Len(s) \in Nat /\ DOMAIN s = I /\ \A i \in I : s[i] \in S /\ s[i].at \in Int
    BY LenProperties, ElementOfSeq
  <1>2. IsFiniteSet(I) /\ Cardinality(I) = Len(s)
    BY <1>1, CountedTo
  <1>3. \A i, j \in I : <<i, j>> \in R <=> Earlier(s, i, j)
    OBVIOUS
  <1>4. Orders(R, I)
    <2>1. \A i \in I : ~Earlier(s, i, i)
      BY <1>1 DEF Earlier
    <2>2. \A i, j, k \in I : Earlier(s, i, j) /\ Earlier(s, j, k) => Earlier(s, i, k)
      <3> SUFFICES ASSUME NEW i \in I, NEW j \in I, NEW k \in I, Earlier(s, i, j), Earlier(s, j, k)
                   PROVE  Earlier(s, i, k)
        OBVIOUS
      <3>1. s[i].at \in Int /\ s[j].at \in Int /\ s[k].at \in Int /\ i \in Int /\ j \in Int /\ k \in Int
        BY <1>1
      <3> QED BY <3>1 DEF Earlier
    <2>3. \A i, j \in I : i # j => Earlier(s, i, j) \/ Earlier(s, j, i)
      BY <1>1 DEF Earlier
    <2> HIDE DEF R, I
    <2> QED BY <1>3, <2>1, <2>2, <2>3 DEF Orders
  <1>5. Tells(p, R, I)
    <2> HIDE DEF R, I
    <2> QED BY <1>2, <1>4, RanksTell
  <1>6. \A k \in 1..Len(s) : p[k] = CHOOSE i \in DOMAIN s :
                                  Cardinality({j \in DOMAIN s : Earlier(s, j, i)}) = k - 1
    <2>1. \A i \in I : {j \in I : <<j, i>> \in R} = {j \in I : Earlier(s, j, i)}
      BY <1>3
    <2>2. \A i \in I : RankIn(R, I, i) = Cardinality({j \in I : Earlier(s, j, i)})
      BY <2>1 DEF RankIn, Before
    <2> HIDE DEF R
    <2>3. \A k \in 1..Len(s) : p[k] = CHOOSE i \in I : RankIn(R, I, i) = k - 1
      BY <1>2
    <2> HIDE DEF p, I
    <2>4. \A k : (CHOOSE i \in I : RankIn(R, I, i) = k - 1)
                  = CHOOSE i \in I : Cardinality({j \in I : Earlier(s, j, i)}) = k - 1
      BY <2>2
    <2> QED BY <1>1, <2>3, <2>4
  <1>7. Sorted(s) = [k \in 1..Len(s) |-> s[p[k]]]
    <2> HIDE DEF p, R, I
    <2>1. \A k \in 1..Len(s) :
             s[CHOOSE i \in DOMAIN s : Cardinality({j \in DOMAIN s : Earlier(s, j, i)}) = k - 1]
                = s[p[k]]
      BY <1>6
    <2>2. Sorted(s) = [k \in 1..Len(s) |->
             s[CHOOSE i \in DOMAIN s : Cardinality({j \in DOMAIN s : Earlier(s, j, i)}) = k - 1]]
      BY DEF Sorted
    <2> QED BY <2>1, <2>2, Zenon
  <1>8. Sorts(p, s)
    <2> HIDE DEF p
    <2>1. /\ p \in [1..Len(s) -> I]
          /\ \A k, l \in 1..Len(s) : k < l <=> <<p[k], p[l]>> \in R
          /\ \A i \in I : \E k \in 1..Len(s) : p[k] = i
      <3> HIDE DEF R, I
      <3> QED BY <1>2, <1>5 DEF Tells
    <2>2. \A k, l \in 1..Len(s) : <<p[k], p[l]>> \in R <=> Earlier(s, p[k], p[l])
      <3>1. \A k \in 1..Len(s) : p[k] \in I
        BY <2>1
      <3> HIDE DEF R, I
      <3> QED BY <1>3, <3>1
    <2> QED BY <2>1, <2>2 DEF Sorts
  <1>9. Sorted(s) \in Seq(S) /\ Len(Sorted(s)) = Len(s)
    <2> HIDE DEF p
    <2>1. \A k \in 1..Len(s) : s[p[k]] \in S
      BY <1>1, <1>8 DEF Sorts
    <2>2. [k \in 1..Len(s) |-> s[p[k]]] \in Seq(S)
      BY <1>1, <2>1
    <2>3. Len([k \in 1..Len(s) |-> s[p[k]]]) = Len(s)
      BY <1>1
    <2> QED BY <1>7, <2>2, <2>3
  <1> HIDE DEF p
  <1> QED BY <1>7, <1>8, <1>9

LEMMA ThoseAre ==
  ASSUME NEW S, NEW s \in Seq(S), NEW I \in SUBSET (1..Len(s))
  PROVE  /\ \E p : Keeps(p, I) /\ Those(s, I) = [k \in 1..Cardinality(I) |-> s[p[k]]]
         /\ Those(s, I) \in Seq(S) /\ Len(Those(s, I)) = Cardinality(I)
         /\ Cardinality(I) \in Nat /\ IsFiniteSet(I)
  <1> DEFINE R == {x \in I \X I : x[1] < x[2]}
             p == [k \in 1..Cardinality(I) |-> CHOOSE i \in I : RankIn(R, I, i) = k - 1]
  <1>1. Len(s) \in Nat /\ \A i \in 1..Len(s) : s[i] \in S
    BY LenProperties, ElementOfSeq
  <1>2. IsFiniteSet(I) /\ Cardinality(I) \in Nat
    BY <1>1, PlacesAreFinite
  <1>3. \A i, j \in I : <<i, j>> \in R <=> i < j
    OBVIOUS
  <1>4. Orders(R, I)
    <2>1. \A i \in I : i \in Int
      BY <1>1
    <2> HIDE DEF R
    <2> QED BY <1>3, <2>1 DEF Orders
  <1>5. Tells(p, R, I)
    <2> HIDE DEF R
    <2> QED BY <1>2, <1>4, RanksTell
  <1>6. \A k \in 1..Cardinality(I) :
           p[k] = CHOOSE i \in I : Cardinality({j \in I : j < i}) = k - 1
    <2>1. \A i \in I : {j \in I : <<j, i>> \in R} = {j \in I : j < i}
      BY <1>3
    <2>2. \A i \in I : RankIn(R, I, i) = Cardinality({j \in I : j < i})
      BY <2>1 DEF RankIn, Before
    <2> HIDE DEF R
    <2>3. \A k \in 1..Cardinality(I) : p[k] = CHOOSE i \in I : RankIn(R, I, i) = k - 1
      OBVIOUS
    <2> HIDE DEF p
    <2>4. \A k : (CHOOSE i \in I : RankIn(R, I, i) = k - 1)
                  = CHOOSE i \in I : Cardinality({j \in I : j < i}) = k - 1
      BY <2>2
    <2> QED BY <2>3, <2>4
  <1>7. Those(s, I) = [k \in 1..Cardinality(I) |-> s[p[k]]]
    <2> HIDE DEF p
    <2>1. \A k \in 1..Cardinality(I) :
             s[CHOOSE i \in I : Cardinality({j \in I : j < i}) = k - 1] = s[p[k]]
      BY <1>6
    <2>2. Those(s, I) = [k \in 1..Cardinality(I) |->
                           s[CHOOSE i \in I : Cardinality({j \in I : j < i}) = k - 1]]
      BY DEF Those
    <2> QED BY <2>1, <2>2, Zenon
  <1>8. Keeps(p, I)
    <2> HIDE DEF p
    <2>1. /\ p \in [1..Cardinality(I) -> I]
          /\ \A k, l \in 1..Cardinality(I) : k < l <=> <<p[k], p[l]>> \in R
          /\ \A i \in I : \E k \in 1..Cardinality(I) : p[k] = i
      <3> HIDE DEF R
      <3> QED BY <1>5 DEF Tells
    <2> HIDE DEF R
    <2> QED BY <1>3, <2>1 DEF Keeps
  <1>9. Those(s, I) \in Seq(S) /\ Len(Those(s, I)) = Cardinality(I)
    <2> HIDE DEF p
    <2>1. \A k \in 1..Cardinality(I) : s[p[k]] \in S
      BY <1>1, <1>8 DEF Keeps
    <2>2. [k \in 1..Cardinality(I) |-> s[p[k]]] \in Seq(S)
      BY <1>2, <2>1
    <2>3. Len([k \in 1..Cardinality(I) |-> s[p[k]]]) = Cardinality(I)
      BY <1>2
    <2> QED BY <1>7, <2>2, <2>3
  <1> HIDE DEF p
  <1> QED BY <1>2, <1>7, <1>8, <1>9

LEMMA SameTelling ==
  ASSUME NEW n \in Nat, NEW I \in SUBSET (1..n), NEW p, Keeps(p, I), NEW q, Keeps(q, I)
  PROVE  p = q
  <1> DEFINE N == Cardinality(I)
             S == {m \in 0..N : \A k \in 1..m : p[k] = q[k]}
  <1>1. N \in Nat /\ \A i \in I : i \in Int
    BY PlacesAreFinite
  <1> HIDE DEF N
  <1>2. /\ p \in [1..N -> I] /\ q \in [1..N -> I]
        /\ \A k, l \in 1..N : (k < l <=> p[k] < p[l]) /\ (k < l <=> q[k] < q[l])
        /\ \A i \in I : (\E k \in 1..N : p[k] = i) /\ (\E k \in 1..N : q[k] = i)
    BY DEF Keeps, N
  <1>3. ASSUME NEW m \in 0..(N - 1), \A k \in 1..m : p[k] = q[k]
        PROVE  p[m + 1] = q[m + 1]
    <2> DEFINE n1 == m + 1
    <2>1. n1 \in 1..N /\ \A j \in 1..N : j < n1 => j \in 1..m
      BY <1>1
    <2> HIDE DEF n1, S
    <2>2. p[n1] \in I /\ q[n1] \in I /\ p[n1] \in Int /\ q[n1] \in Int
      BY <1>1, <1>2, <2>1
    <2>3. PICK i \in 1..N : q[i] = p[n1]
      BY <1>2, <2>2
    <2>4. PICK j \in 1..N : p[j] = q[n1]
      BY <1>2, <2>2
    <2>5. ~(p[n1] < q[n1])
      <3> SUFFICES ASSUME p[n1] < q[n1] PROVE FALSE
        OBVIOUS
      <3>1. i < n1
        BY <1>2, <2>1, <2>3
      <3>2. p[i] = p[n1]
        BY <1>3, <2>1, <2>3, <3>1
      <3>3. p[i] < p[n1]
        BY <1>2, <2>1, <3>1
      <3> QED BY <2>2, <3>2, <3>3
    <2>6. ~(q[n1] < p[n1])
      <3> SUFFICES ASSUME q[n1] < p[n1] PROVE FALSE
        OBVIOUS
      <3>1. j < n1
        BY <1>2, <2>1, <2>4
      <3>2. q[j] = q[n1]
        BY <1>3, <2>1, <2>4, <3>1
      <3>3. q[j] < q[n1]
        BY <1>2, <2>1, <3>1
      <3> QED BY <2>2, <3>2, <3>3
    <2>7. p[n1] = q[n1]
      BY <2>2, <2>5, <2>6
    <2> QED BY <2>7 DEF n1
  <1>4. N \in S
    <2>1. 0 \in S
      BY <1>1
    <2>2. \A m \in 0..(N - 1) : m \in S => m + 1 \in S
      <3> SUFFICES ASSUME NEW m \in 0..(N - 1), m \in S PROVE m + 1 \in S
        OBVIOUS
      <3>1. p[m + 1] = q[m + 1]
        BY <1>3
      <3>2. \A k \in 1..(m + 1) : k \in 1..m \/ k = m + 1
        OBVIOUS
      <3> QED BY <1>1, <3>1, <3>2
    <2> HIDE DEF S
    <2>3. 0..N \subseteq S
      BY <1>1, <2>1, <2>2, UpTo
    <2> QED BY <1>1, <2>3
  <1> QED BY <1>2, <1>4

\* What is sorted of a stream, without the records that bear no time.
TimedPlaces(s) == {i \in 1..Len(s) : s[i].at # NoInstant}
LEMMA TimedAre ==
  ASSUME NEW S, \A r \in S : r.at \in Int, NEW s \in Seq(S)
  PROVE  \E g \in [1..Len(Timed(Sorted(s))) -> TimedPlaces(s)] :
            /\ Timed(Sorted(s)) = [k \in 1..Len(Timed(Sorted(s))) |-> s[g[k]]]
            /\ \A k, l \in 1..Len(Timed(Sorted(s))) : k < l <=> Earlier(s, g[k], g[l])
            /\ \A i \in TimedPlaces(s) : \E k \in 1..Len(Timed(Sorted(s))) : g[k] = i
  <1> DEFINE sorted == Sorted(s)
             J == {i \in DOMAIN sorted : sorted[i].at # NoInstant}
             N == Cardinality(J)
  <1>1. Len(s) \in Nat /\ \A i \in 1..Len(s) : s[i] \in S
    BY LenProperties, ElementOfSeq
  <1>2. sorted \in Seq(S) /\ Len(sorted) = Len(s)
    BY SortedIs
  <1>3. PICK p : Sorts(p, s) /\ sorted = [k \in 1..Len(s) |-> s[p[k]]]
    BY SortedIs
  <1>4. J \in SUBSET (1..Len(sorted))
    BY <1>2
  <1> HIDE DEF sorted
  <1>5. PICK q : Keeps(q, J) /\ Those(sorted, J) = [k \in 1..N |-> sorted[q[k]]]
    BY <1>2, <1>4, ThoseAre
  <1>6. Timed(sorted) = Those(sorted, J) /\ Len(Those(sorted, J)) = N
    BY <1>2, <1>4, ThoseAre DEF Timed
  <1>7. \A k \in 1..Len(s) : k \in J <=> s[p[k]].at # NoInstant
    BY <1>3
  <1>8. J \subseteq 1..Len(s)
    BY <1>2, <1>4
  <1>9. /\ q \in [1..N -> J]
        /\ \A k, l \in 1..N : k < l <=> q[k] < q[l]
        /\ \A i \in J : \E k \in 1..N : q[k] = i
    BY <1>5 DEF Keeps
  <1>10. /\ p \in [1..Len(s) -> 1..Len(s)]
         /\ \A k, l \in 1..Len(s) : k < l <=> Earlier(s, p[k], p[l])
         /\ \A i \in 1..Len(s) : \E k \in 1..Len(s) : p[k] = i
    BY <1>3 DEF Sorts
  <1> HIDE DEF J, N
  <1> DEFINE g == [k \in 1..N |-> p[q[k]]]
  <1>11. g \in [1..N -> TimedPlaces(s)]
    <2>1. \A k \in 1..N : q[k] \in J /\ q[k] \in 1..Len(s)
      BY <1>8, <1>9
    <2>2. \A k \in 1..N : p[q[k]] \in 1..Len(s) /\ s[p[q[k]]].at # NoInstant
      BY <1>7, <1>10, <2>1
    <2> QED BY <2>2 DEF TimedPlaces
  <1>12. Timed(sorted) = [k \in 1..N |-> s[g[k]]]
    <2>1. \A k \in 1..N : q[k] \in 1..Len(s)
      BY <1>8, <1>9
    <2>2. \A k \in 1..N : sorted[q[k]] = s[g[k]]
      BY <1>3, <2>1
    <2> HIDE DEF g
    <2> QED BY <1>5, <1>6, <2>2
  <1>13. \A k, l \in 1..N : k < l <=> Earlier(s, g[k], g[l])
    <2>1. \A k \in 1..N : q[k] \in 1..Len(s)
      BY <1>8, <1>9
    <2>2. \A k, l \in 1..N : q[k] < q[l] <=> Earlier(s, p[q[k]], p[q[l]])
      BY <1>10, <2>1
    <2> QED BY <1>9, <2>2
  <1>14. \A i \in TimedPlaces(s) : \E k \in 1..N : g[k] = i
    <2> SUFFICES ASSUME NEW i \in TimedPlaces(s) PROVE \E k \in 1..N : g[k] = i
      OBVIOUS
    <2>1. PICK m \in 1..Len(s) : p[m] = i
      BY <1>10 DEF TimedPlaces
    <2>2. m \in J
      BY <1>7, <2>1 DEF TimedPlaces
    <2>3. PICK k \in 1..N : q[k] = m
      BY <1>9, <2>2
    <2> QED BY <2>1, <2>3
  <1>15. Len(Timed(sorted)) = N
    BY <1>6 DEF N
  <1> HIDE DEF g
  <1> QED BY <1>11, <1>12, <1>13, <1>14, <1>15 DEF sorted

\* The last record of each instant, and where it is in the file.
LastPlaces(s) ==
    {i \in TimedPlaces(s) : \A j \in 1..Len(s) : i < j => s[j].at # s[i].at}

Lasts(s) == LastOfEachInstant(Timed(Sorted(s)))

LEMMA LastsAre ==
  ASSUME NEW S, \A r \in S : r.at \in Int, NEW s \in Seq(S)
  PROVE  /\ Lasts(s) \in Seq(S)
         /\ \E g \in [1..Len(Lasts(s)) -> LastPlaces(s)] :
               /\ Lasts(s) = [k \in 1..Len(Lasts(s)) |-> s[g[k]]]
               /\ \A k, l \in 1..Len(Lasts(s)) : k < l <=> s[g[k]].at < s[g[l]].at
               /\ \A i \in LastPlaces(s) : \E k \in 1..Len(Lasts(s)) : g[k] = i
  <1> DEFINE u == Timed(Sorted(s))
             J == {i \in DOMAIN u : i = Len(u) \/ u[i + 1].at # u[i].at}
             N == Cardinality(J)
  <1>1. Len(s) \in Nat /\ \A i \in 1..Len(s) : s[i] \in S /\ s[i].at \in Int
    BY LenProperties, ElementOfSeq
  <1>2. u \in Seq(S)
    <2>1. Sorted(s) \in Seq(S)
      BY SortedIs
    <2>2. {i \in DOMAIN Sorted(s) : Sorted(s)[i].at # NoInstant} \in SUBSET (1..Len(Sorted(s)))
      BY <2>1
    <2> QED BY <2>1, <2>2, ThoseAre DEF Timed
  <1>3. PICK h \in [1..Len(u) -> TimedPlaces(s)] :
            /\ u = [k \in 1..Len(u) |-> s[h[k]]]
            /\ \A k, l \in 1..Len(u) : k < l <=> Earlier(s, h[k], h[l])
            /\ \A i \in TimedPlaces(s) : \E k \in 1..Len(u) : h[k] = i
    BY TimedAre
  <1> HIDE DEF u
  <1>4. Len(u) \in Nat /\ DOMAIN u = 1..Len(u)
    BY <1>2
  <1>4a. \A k \in 1..Len(u) : k # Len(u) => k + 1 \in 1..Len(u) /\ k < k + 1
    <2> DEFINE n == Len(u)
    <2>1. n \in Nat
      BY <1>4
    <2> HIDE DEF n, J
    <2>2. \A k \in 1..n : k # n => k + 1 \in 1..n /\ k < k + 1
      BY <2>1
    <2> QED BY <2>2 DEF n
  <1>5. J \in SUBSET (1..Len(u))
    BY <1>4
  <1>6. PICK q : Keeps(q, J) /\ Those(u, J) = [k \in 1..N |-> u[q[k]]]
    BY <1>2, <1>5, ThoseAre
  <1>7. Lasts(s) = Those(u, J) /\ Len(Those(u, J)) = N /\ Those(u, J) \in Seq(S) /\ N \in Nat
    BY <1>2, <1>5, ThoseAre DEF Lasts, LastOfEachInstant, u
  <1>8. \A k \in 1..Len(u) : /\ h[k] \in TimedPlaces(s) /\ h[k] \in 1..Len(s)
                             /\ u[k].at = s[h[k]].at /\ u[k].at \in Int
    BY <1>1, <1>3 DEF TimedPlaces
  <1>9. \A k, l \in 1..Len(u) : k <= l => u[k].at <= u[l].at
    <2> SUFFICES ASSUME NEW k \in 1..Len(u), NEW l \in 1..Len(u), k <= l PROVE u[k].at <= u[l].at
      OBVIOUS
    <2>1. CASE k = l
      BY <1>8, <2>1
    <2>2. CASE k < l
      BY <1>3, <1>8, <2>2 DEF Earlier
    <2> QED BY <2>1, <2>2
  <1>10. \A k \in 1..Len(u) : k \in J => h[k] \in LastPlaces(s)
    <2> SUFFICES ASSUME NEW k \in 1..Len(u), k \in J,
                        NEW j \in 1..Len(s), h[k] < j, s[j].at = s[h[k]].at
                 PROVE  FALSE
      BY <1>8 DEF LastPlaces
    <2>1. j \in TimedPlaces(s)
      BY <1>8 DEF TimedPlaces
    <2>2. PICK m \in 1..Len(u) : h[m] = j
      BY <1>3, <2>1
    <2>3. k < m
      BY <1>3, <2>2 DEF Earlier
    <2>4. k + 1 \in 1..Len(u) /\ k + 1 <= m /\ k <= k + 1 /\ k # Len(u)
      BY <1>4, <2>3
    <2>5. u[k].at <= u[k + 1].at /\ u[k + 1].at <= u[m].at
      BY <1>9, <2>4
    <2>6. u[k + 1].at # u[k].at
      BY <2>4
    <2>7. u[m].at = u[k].at
      BY <1>8, <2>2
    <2> QED BY <1>8, <2>4, <2>5, <2>6, <2>7
  <1>11. \A k \in 1..Len(u) : h[k] \in LastPlaces(s) => k \in J
    <2> SUFFICES ASSUME NEW k \in 1..Len(u), h[k] \in LastPlaces(s), k # Len(u),
                        u[k + 1].at = u[k].at
                 PROVE  FALSE
      BY <1>4
    <2>1. k + 1 \in 1..Len(u) /\ k < k + 1
      BY <1>4a
    <2>2. Earlier(s, h[k], h[k + 1])
      BY <1>3, <2>1
    <2>3. h[k + 1] \in 1..Len(s) /\ s[h[k + 1]].at = s[h[k]].at /\ s[h[k]].at \in Int
      BY <1>8, <2>1
    <2>4. h[k] < h[k + 1]
      BY <2>2, <2>3 DEF Earlier
    <2> QED BY <2>3, <2>4 DEF LastPlaces
  <1>12. /\ q \in [1..N -> J]
         /\ \A k, l \in 1..N : k < l <=> q[k] < q[l]
         /\ \A i \in J : \E k \in 1..N : q[k] = i
    BY <1>6 DEF Keeps
  <1> HIDE DEF J, N
  <1> DEFINE g == [k \in 1..N |-> h[q[k]]]
  <1>13. \A k \in 1..N : q[k] \in J /\ q[k] \in 1..Len(u)
    BY <1>5, <1>12
  <1>14. g \in [1..N -> LastPlaces(s)]
    BY <1>10, <1>13
  <1>15. Lasts(s) = [k \in 1..N |-> s[g[k]]]
    <2>1. \A k \in 1..N : u[q[k]] = s[g[k]]
      BY <1>3, <1>13
    <2> HIDE DEF g
    <2> QED BY <1>6, <1>7, <2>1
  <1>16. \A k, l \in 1..N : k < l <=> s[g[k]].at < s[g[l]].at
    <2> SUFFICES ASSUME NEW k \in 1..N, NEW l \in 1..N
                 PROVE  k < l <=> s[g[k]].at < s[g[l]].at
      OBVIOUS
    <2>1. k < l <=> Earlier(s, g[k], g[l])
      BY <1>3, <1>12, <1>13
    <2>2. g[k] \in LastPlaces(s) /\ g[l] \in LastPlaces(s)
      BY <1>14
    <2> HIDE DEF g
    <2>3. g[k] \in 1..Len(s) /\ g[l] \in 1..Len(s)
      BY <2>2 DEF LastPlaces, TimedPlaces
    <2>4. ~(s[g[k]].at = s[g[l]].at /\ g[k] < g[l])
      BY <2>2, <2>3 DEF LastPlaces
    <2> QED BY <2>1, <2>4 DEF Earlier
  <1>17. \A i \in LastPlaces(s) : \E k \in 1..N : g[k] = i
    <2> SUFFICES ASSUME NEW i \in LastPlaces(s) PROVE \E k \in 1..N : g[k] = i
      OBVIOUS
    <2>1. PICK m \in 1..Len(u) : h[m] = i
      BY <1>3 DEF LastPlaces
    <2>2. m \in J
      BY <1>11, <2>1
    <2>3. PICK k \in 1..N : q[k] = m
      BY <1>12, <2>2
    <2> QED BY <2>1, <2>3
  <1>18. Len(Lasts(s)) = N /\ Lasts(s) \in Seq(S)
    BY <1>7 DEF N
  <1> HIDE DEF g
  <1> QED BY <1>14, <1>15, <1>16, <1>17, <1>18

-----------------------------------------------------------------------------
(* The streams, and what is joined of them *)

Rows == SnapshotRow \union StampedRow \union VersionRow
Names == {"snapshots", "states", "modes", "plans"}

JoinTypeOK ==
    /\ streams \in [snapshots : Seq(SnapshotRow), states : Seq(StampedRow),
                    modes : Seq(StampedRow), plans : Seq(VersionRow)]
    /\ reading \in 1..5

LEMMA NamesAre == ToSet(StreamNames) = Names
  <1>1. DOMAIN StreamNames = {1, 2, 3, 4}
    BY DEF StreamNames
  <1> QED BY <1>1 DEF ToSet, StreamNames, Names

LEMMA RowsAre ==
  /\ NoInstant \in Nat
  /\ \A r \in Rows : r.at \in Int /\ 0 <= r.at /\ r.at <= NoInstant
  <1>1. NoInstant \in Nat
    BY JoinAssumption
  <1> QED BY <1>1 DEF Rows, SnapshotRow, StampedRow, VersionRow, Instant

LEMMA MoreRows ==
  ASSUME NEW S, NEW T, S \subseteq T, NEW s \in Seq(S)
  PROVE  s \in Seq(T)
  <1>1. Len(s) \in Nat /\ s = [i \in 1..Len(s) |-> s[i]] /\ \A i \in 1..Len(s) : s[i] \in S
    BY LenProperties, ElementOfSeq
  <1>2. \A i \in 1..Len(s) : s[i] \in T
    BY <1>1
  <1>3. [i \in 1..Len(s) |-> s[i]] \in Seq(T)
    BY <1>1, <1>2
  <1> QED BY <1>1, <1>3

LEMMA StreamsAre ==
  ASSUME JoinTypeOK
  PROVE  /\ \A n \in Names : streams[n] \in Seq(Rows)
         /\ streams["plans"] \in Seq(VersionRow)
  <1>1. /\ streams["snapshots"] \in Seq(SnapshotRow) /\ streams["states"] \in Seq(StampedRow)
        /\ streams["modes"] \in Seq(StampedRow) /\ streams["plans"] \in Seq(VersionRow)
    BY DEF JoinTypeOK
  <1>2. SnapshotRow \subseteq Rows /\ StampedRow \subseteq Rows /\ VersionRow \subseteq Rows
    BY DEF Rows
  <1>3. /\ streams["snapshots"] \in Seq(Rows) /\ streams["states"] \in Seq(Rows)
        /\ streams["modes"] \in Seq(Rows) /\ streams["plans"] \in Seq(Rows)
    BY <1>1, <1>2, MoreRows
  <1> QED BY <1>1, <1>3 DEF Names

\* Which record is the last up to an instant.
LatestAt(s, i, t) ==
    /\ i \in 1..Len(s) /\ s[i].at <= t
    /\ \A j \in 1..Len(s) : s[j].at <= t => s[j].at < s[i].at \/ (s[j].at = s[i].at /\ j <= i)

LEMMA AtOrBeforeIs ==
  ASSUME JoinTypeOK, NEW n \in Names, NEW t \in Int
  PROVE  /\ AtOrBefore(n, t) = <<>> => \A j \in 1..Len(streams[n]) : ~(streams[n][j].at <= t)
         /\ AtOrBefore(n, t) # <<>> =>
               \E i : LatestAt(streams[n], i, t) /\ AtOrBefore(n, t) = <<streams[n][i]>>
  <1> DEFINE s == streams[n]
             sorted == Sorted(s)
             past == {i \in DOMAIN sorted : sorted[i].at <= t}
  <1>1. s \in Seq(Rows) /\ \A r \in Rows : r.at \in Int
    BY StreamsAre, RowsAre
  <1>2. sorted \in Seq(Rows) /\ Len(sorted) = Len(s)
    BY <1>1, SortedIs
  <1>3. PICK p : Sorts(p, s) /\ sorted = [k \in 1..Len(s) |-> s[p[k]]]
    BY <1>1, SortedIs
  <1> HIDE DEF s
  <1>4. AtOrBefore(n, t) = IF past = {} THEN <<>> ELSE <<sorted[Max(past)]>>
    BY DEF AtOrBefore, s
  <1> HIDE DEF sorted
  <1>5. /\ p \in [1..Len(s) -> 1..Len(s)]
        /\ \A k, l \in 1..Len(s) : k < l <=> Earlier(s, p[k], p[l])
        /\ \A i \in 1..Len(s) : \E k \in 1..Len(s) : p[k] = i
    BY <1>3 DEF Sorts
  <1>6. past \in SUBSET (1..Len(s)) /\ Len(s) \in Nat /\ \A i \in 1..Len(s) : s[i].at \in Int
    <2>1. Len(s) \in Nat /\ \A i \in 1..Len(s) : s[i] \in Rows
      BY <1>1, LenProperties, ElementOfSeq
    <2>2. DOMAIN sorted = 1..Len(s)
      BY <1>2
    <2> QED BY <1>1, <2>1, <2>2
  <1>7. \A j \in 1..Len(s) : s[j].at <= t => \E k \in past : p[k] = j
    <2> SUFFICES ASSUME NEW j \in 1..Len(s), s[j].at <= t PROVE \E k \in past : p[k] = j
      OBVIOUS
    <2>1. PICK k \in 1..Len(s) : p[k] = j
      BY <1>5
    <2>2. k \in DOMAIN sorted /\ sorted[k] = s[j]
      BY <1>3, <2>1
    <2> QED BY <2>1, <2>2
  <1>8. CASE past = {}
    BY <1>4, <1>7, <1>8 DEF s
  <1>9. CASE past # {}
    <2> DEFINE m == Max(past)
    <2>1. m \in past /\ \A k \in past : k <= m
      <3> HIDE DEF past
      <3> QED BY <1>6, <1>9, GreatestIs
    <2>2. m \in 1..Len(s) /\ sorted[m].at <= t
      BY <1>6, <2>1
    <2> HIDE DEF m, past
    <2>3. p[m] \in 1..Len(s) /\ sorted[m] = s[p[m]] /\ s[p[m]].at <= t
      BY <1>3, <1>5, <2>2
    <2>4. LatestAt(s, p[m], t)
      <3> SUFFICES ASSUME NEW j \in 1..Len(s), s[j].at <= t
                   PROVE  s[j].at < s[p[m]].at \/ (s[j].at = s[p[m]].at /\ j <= p[m])
        BY <2>3 DEF LatestAt
      <3>1. PICK k \in past : p[k] = j
        BY <1>7
      <3>2. k <= m /\ k \in 1..Len(s)
        BY <1>6, <2>1
      <3>3. CASE k = m
        BY <1>6, <2>3, <3>1, <3>3
      <3>4. CASE k < m
        <4>1. Earlier(s, j, p[m])
          BY <1>5, <2>2, <3>1, <3>2, <3>4
        <4> QED BY <1>6, <2>3, <4>1 DEF Earlier
      <3> QED BY <1>6, <2>2, <3>2, <3>3, <3>4
    <2>5. AtOrBefore(n, t) = <<s[p[m]]>>
      BY <1>4, <1>9, <2>3 DEF m
    <2>6. AtOrBefore(n, t) # <<>>
      BY <2>5
    <2> QED BY <2>4, <2>5, <2>6 DEF s
  <1> QED BY <1>8, <1>9

\* A complete frame is causal.
LEMMA CompleteIsCausal ==
  ASSUME JoinTypeOK, NEW plan \in Rows, Complete(Frame(plan))
  PROVE  Causal(Frame(plan))
  <1> DEFINE f == Frame(plan)
  <1>1. f.plan = plan /\ \A n \in InputStreams : f.inputs[n] = AtOrBefore(n, plan.at)
    BY DEF Frame
  <1>2. \A n \in InputStreams : f.inputs[n] # <<>>
    BY DEF Complete
  <1>3. plan.at \in Int /\ InputStreams \subseteq Names
    BY RowsAre DEF InputStreams, Names
  <1> HIDE DEF f
  <1>4. ASSUME NEW n \in InputStreams
        PROVE  \E i \in 1..Len(streams[n]) :
                  /\ streams[n][i] = f.inputs[n][1] /\ f.inputs[n][1].at <= f.plan.at
                  /\ \A j \in 1..Len(streams[n]) :
                       streams[n][j].at <= f.plan.at
                       => \/ streams[n][j].at < f.inputs[n][1].at
                          \/ streams[n][j].at = f.inputs[n][1].at /\ j <= i
    <2>1. AtOrBefore(n, plan.at) # <<>>
      BY <1>1, <1>2
    <2>2. PICK i : /\ LatestAt(streams[n], i, plan.at)
                   /\ AtOrBefore(n, plan.at) = <<streams[n][i]>>
      BY <1>3, <2>1, AtOrBeforeIs
    <2>3. f.inputs[n][1] = streams[n][i] /\ f.plan.at = plan.at
      BY <1>1, <2>2
    <2> QED BY <2>2, <2>3 DEF LatestAt
  <1> QED BY <1>4 DEF Causal, f

\* What is joined are the complete frames of the plans, in their order.
LEMMA JoinedAre ==
  ASSUME NEW S, NEW plans \in Seq(S)
  PROVE  \E q \in [1..Len(Joined(plans)) -> {i \in 1..Len(plans) : Complete(Frame(plans[i]))}] :
            /\ Joined(plans) = [k \in 1..Len(Joined(plans)) |-> Frame(plans[q[k]])]
            /\ \A k, l \in 1..Len(Joined(plans)) : k < l <=> q[k] < q[l]
            /\ \A i \in 1..Len(plans) : Complete(Frame(plans[i])) =>
                  \E k \in 1..Len(Joined(plans)) : q[k] = i
  <1> DEFINE frames == [i \in 1..Len(plans) |-> Frame(plans[i])]
             J == {i \in DOMAIN frames : Complete(frames[i])}
             F == {Frame(plans[i]) : i \in 1..Len(plans)}
             N == Cardinality(J)
  <1>1. Len(plans) \in Nat
    BY LenProperties
  <1>2. frames \in Seq(F) /\ Len(frames) = Len(plans) /\ DOMAIN frames = 1..Len(plans)
    <2>1. \A i \in 1..Len(plans) : Frame(plans[i]) \in F
      OBVIOUS
    <2> HIDE DEF F
    <2> QED BY <1>1, <2>1
  <1>3. J = {i \in 1..Len(plans) : Complete(Frame(plans[i]))}
    OBVIOUS
  <1>4. J \in SUBSET (1..Len(frames))
    BY <1>2
  <1>5. PICK q : Keeps(q, J) /\ Those(frames, J) = [k \in 1..N |-> frames[q[k]]]
    <2> HIDE DEF frames, F, J
    <2> QED BY <1>2, <1>4, ThoseAre
  <1>6. Joined(plans) = Those(frames, J) /\ Len(Those(frames, J)) = N
    <2>1. Len(Those(frames, J)) = N
      <3> HIDE DEF frames, F, J
      <3> QED BY <1>2, <1>4, ThoseAre
    <2> QED BY <2>1 DEF Joined
  <1>7. \A i \in 1..Len(plans) : frames[i] = Frame(plans[i])
    OBVIOUS
  <1>8. \A i \in J : i \in 1..Len(plans)
    OBVIOUS
  <1> HIDE DEF frames, J, F
  <1>9. /\ q \in [1..N -> J]
        /\ \A k, l \in 1..N : k < l <=> q[k] < q[l]
        /\ \A i \in J : \E k \in 1..N : q[k] = i
    BY <1>5 DEF Keeps
  <1>10. Len(Joined(plans)) = N
    BY <1>6
  <1> HIDE DEF N
  <1>11. \A k \in 1..N : frames[q[k]] = Frame(plans[q[k]])
    BY <1>7, <1>8, <1>9
  <1>12. Joined(plans) = [k \in 1..N |-> Frame(plans[q[k]])]
    BY <1>5, <1>6, <1>11
  <1>13. \A i \in 1..Len(plans) : Complete(Frame(plans[i])) => \E k \in 1..N : q[k] = i
    BY <1>3, <1>9
  <1>14. q \in [1..N -> {i \in 1..Len(plans) : Complete(Frame(plans[i]))}]
    BY <1>3, <1>9
  <1> QED BY <1>9, <1>10, <1>12, <1>13, <1>14

LEMMA FramesOf ==
  ASSUME NEW S, NEW plans \in Seq(S), NEW f
  PROVE  f \in ToSet(Joined(plans)) <=>
            \E i \in 1..Len(plans) : f = Frame(plans[i]) /\ Complete(f)
  <1> DEFINE N == Len(Joined(plans))
  <1>1. PICK q \in [1..N -> {i \in 1..Len(plans) : Complete(Frame(plans[i]))}] :
            /\ Joined(plans) = [k \in 1..N |-> Frame(plans[q[k]])]
            /\ \A i \in 1..Len(plans) : Complete(Frame(plans[i])) => \E k \in 1..N : q[k] = i
    BY JoinedAre
  <1> HIDE DEF N
  <1>2. DOMAIN Joined(plans) = 1..N /\ \A k \in 1..N : Joined(plans)[k] = Frame(plans[q[k]])
    BY <1>1
  <1>3. ASSUME f \in ToSet(Joined(plans))
        PROVE  \E i \in 1..Len(plans) : f = Frame(plans[i]) /\ Complete(f)
    <2>1. PICK k \in 1..N : f = Joined(plans)[k]
      BY <1>2, <1>3 DEF ToSet
    <2>2. q[k] \in 1..Len(plans) /\ Complete(Frame(plans[q[k]]))
      BY <1>1
    <2> QED BY <1>2, <2>1, <2>2
  <1>4. ASSUME NEW i \in 1..Len(plans), f = Frame(plans[i]), Complete(f)
        PROVE  f \in ToSet(Joined(plans))
    <2>1. PICK k \in 1..N : q[k] = i
      BY <1>1, <1>4
    <2>2. Joined(plans)[k] = f
      BY <1>2, <1>4, <2>1
    <2> QED BY <1>2, <2>2 DEF ToSet
  <1> QED BY <1>3, <1>4

-----------------------------------------------------------------------------
(* One frame an instant *)

LEMMA PlacesOfTimed ==
  ASSUME NEW S, \A r \in S : r.at \in Int, NEW s \in Seq(S)
  PROVE  /\ Timed(Sorted(s)) \in Seq(S)
         /\ \A r : (\E k \in 1..Len(Timed(Sorted(s))) : Timed(Sorted(s))[k] = r)
                   <=> \E i \in TimedPlaces(s) : s[i] = r
  <1> DEFINE u == Timed(Sorted(s))
  <1>1. u \in Seq(S)
    <2>1. Sorted(s) \in Seq(S)
      BY SortedIs
    <2>2. {i \in DOMAIN Sorted(s) : Sorted(s)[i].at # NoInstant} \in SUBSET (1..Len(Sorted(s)))
      BY <2>1
    <2> QED BY <2>1, <2>2, ThoseAre DEF Timed
  <1>2. PICK g \in [1..Len(u) -> TimedPlaces(s)] :
            /\ u = [k \in 1..Len(u) |-> s[g[k]]]
            /\ \A i \in TimedPlaces(s) : \E k \in 1..Len(u) : g[k] = i
    BY TimedAre
  <1> HIDE DEF u
  <1>3. \A k \in 1..Len(u) : u[k] = s[g[k]] /\ g[k] \in TimedPlaces(s)
    BY <1>2
  <1>4. \A r : (\E k \in 1..Len(u) : u[k] = r) <=> \E i \in TimedPlaces(s) : s[i] = r
    BY <1>2, <1>3
  <1> QED BY <1>1, <1>4 DEF u

LEMMA PlacesOfLasts ==
  ASSUME NEW S, \A r \in S : r.at \in Int, NEW s \in Seq(S)
  PROVE  /\ Lasts(s) \in Seq(S)
         /\ \A r : (\E k \in 1..Len(Lasts(s)) : Lasts(s)[k] = r)
                   <=> \E i \in LastPlaces(s) : s[i] = r
  <1>1. PICK g \in [1..Len(Lasts(s)) -> LastPlaces(s)] :
            /\ Lasts(s) = [k \in 1..Len(Lasts(s)) |-> s[g[k]]]
            /\ \A i \in LastPlaces(s) : \E k \in 1..Len(Lasts(s)) : g[k] = i
    BY LastsAre
  <1>2. \A k \in 1..Len(Lasts(s)) : Lasts(s)[k] = s[g[k]] /\ g[k] \in LastPlaces(s)
    BY <1>1
  <1>3. \A r : (\E k \in 1..Len(Lasts(s)) : Lasts(s)[k] = r)
               <=> \E i \in LastPlaces(s) : s[i] = r
    BY <1>1, <1>2
  <1>4. Lasts(s) \in Seq(S)
    BY LastsAre
  <1> QED BY <1>3, <1>4

LEMMA PlansAre ==
  ASSUME JoinTypeOK
  PROVE  /\ streams["plans"] \in Seq(VersionRow) /\ Len(streams["plans"]) \in Nat
         /\ \A i \in 1..Len(streams["plans"]) : streams["plans"][i] \in VersionRow
         /\ \A r \in VersionRow : /\ r.at \in Int /\ 0 <= r.at /\ r.at <= NoInstant
                               /\ r \in Rows /\ r.controlled \in BOOLEAN
  <1>1. streams["plans"] \in Seq(VersionRow)
    BY StreamsAre
  <1>2. \A r \in VersionRow : r \in Rows /\ r.controlled \in BOOLEAN
    BY DEF Rows, VersionRow
  <1> QED BY <1>1, <1>2, RowsAre, LenProperties, ElementOfSeq

ProductionPlaces ==
    {i \in 1..Len(streams["plans"]) : ~streams["plans"][i].controlled}

LEMMA ProductionIs ==
  ASSUME JoinTypeOK
  PROVE  /\ Production \in Seq(VersionRow) /\ Len(Production) = Cardinality(ProductionPlaces)
         /\ \E q : /\ Keeps(q, ProductionPlaces)
                   /\ Production = [k \in 1..Len(Production) |-> streams["plans"][q[k]]]
  <1> DEFINE P == streams["plans"]
  <1>1. P \in Seq(VersionRow)
    BY PlansAre
  <1> HIDE DEF P
  <1>2. DOMAIN P = 1..Len(P)
    BY <1>1
  <1>3. ProductionPlaces \in SUBSET (1..Len(P))
    BY DEF ProductionPlaces, P
  <1>4. Production = Those(P, ProductionPlaces)
    BY <1>2 DEF Production, ProductionPlaces, P
  <1>5. PICK q : /\ Keeps(q, ProductionPlaces)
                 /\ Those(P, ProductionPlaces) = [k \in 1..Cardinality(ProductionPlaces) |-> P[q[k]]]
    BY <1>1, <1>3, ThoseAre
  <1>6. /\ Those(P, ProductionPlaces) \in Seq(VersionRow)
        /\ Len(Those(P, ProductionPlaces)) = Cardinality(ProductionPlaces)
    BY <1>1, <1>3, ThoseAre
  <1> QED BY <1>4, <1>5, <1>6 DEF P

LEMMA CanonicalIs ==
  ASSUME JoinTypeOK
  PROVE  /\ Canonical \in Seq(VersionRow)
         /\ \A r : (\E i \in TimedPlaces(Canonical) : Canonical[i] = r)
                   <=> \E i \in LastPlaces(Production) : Production[i] = r
         /\ Len(Canonical) = Len(Lasts(Production))
                + Cardinality({i \in 1..Len(Production) : Production[i].at = NoInstant})
  <1> DEFINE L == Lasts(Production)
             U == {i \in 1..Len(Production) : Production[i].at = NoInstant}
             R == Those(Production, U)
  <1>1. Production \in Seq(VersionRow) /\ \A r \in VersionRow : r.at \in Int
    BY ProductionIs, PlansAre
  <1>2. /\ L \in Seq(VersionRow)
        /\ \A r : (\E k \in 1..Len(L) : L[k] = r) <=> \E i \in LastPlaces(Production) : Production[i] = r
    BY <1>1, PlacesOfLasts
  <1>3. DOMAIN Production = 1..Len(Production)
    BY <1>1
  <1>4. Canonical = L \o R
    BY <1>3 DEF Canonical, Lasts
  <1>5. U \in SUBSET (1..Len(Production))
    OBVIOUS
  <1>6. PICK p : Keeps(p, U) /\ R = [k \in 1..Cardinality(U) |-> Production[p[k]]]
    <2> HIDE DEF U
    <2> QED BY <1>1, <1>5, ThoseAre
  <1>7. R \in Seq(VersionRow) /\ Len(R) = Cardinality(U) /\ Cardinality(U) \in Nat
    <2> HIDE DEF U
    <2> QED BY <1>1, <1>5, ThoseAre
  <1>8. \A k \in 1..Len(R) : R[k].at = NoInstant
    <2> SUFFICES ASSUME NEW k \in 1..Len(R) PROVE R[k].at = NoInstant
      OBVIOUS
    <2>1. k \in 1..Cardinality(U)
      BY <1>7
    <2>2. p[k] \in U
      <3> HIDE DEF U
      <3> QED BY <1>6, <2>1 DEF Keeps
    <2>3. R[k] = Production[p[k]]
      <3> HIDE DEF U, R
      <3> QED BY <1>6, <2>1
    <2>4. Production[p[k]].at = NoInstant
      BY <2>2
    <2> HIDE DEF R, U
    <2> QED BY <2>3, <2>4
  <1>9. \A k \in 1..Len(L) : L[k].at # NoInstant
    <2> SUFFICES ASSUME NEW k \in 1..Len(L) PROVE L[k].at # NoInstant
      OBVIOUS
    <2>1. PICK i \in LastPlaces(Production) : Production[i] = L[k]
      BY <1>2
    <2> QED BY <2>1 DEF LastPlaces, TimedPlaces
  <1> HIDE DEF L, R, U
  <1>10. /\ Canonical \in Seq(VersionRow) /\ Len(Canonical) = Len(L) + Len(R)
         /\ Len(L) \in Nat /\ Len(R) \in Nat
         /\ \A k \in 1..Len(L) : Canonical[k] = L[k]
         /\ \A k \in (Len(L) + 1)..(Len(L) + Len(R)) : Canonical[k] = R[k - Len(L)]
    <2>1. L \in Seq(VersionRow) /\ R \in Seq(VersionRow)
      BY <1>2, <1>7
    <2>2. /\ L \o R \in Seq(VersionRow) /\ Len(L \o R) = Len(L) + Len(R)
          /\ Len(L) \in Nat /\ Len(R) \in Nat
          /\ \A k \in 1..Len(L) : (L \o R)[k] = L[k]
          /\ \A k \in (Len(L) + 1)..(Len(L) + Len(R)) : (L \o R)[k] = R[k - Len(L)]
      BY <2>1, ConcatProperties
    <2> QED BY <1>4, <2>2
  <1>11. ASSUME NEW i \in TimedPlaces(Canonical)
         PROVE  i \in 1..Len(L)
    <2>1. i \in 1..(Len(L) + Len(R)) /\ Canonical[i].at # NoInstant
      BY <1>10 DEF TimedPlaces
    <2>2. CASE i \in (Len(L) + 1)..(Len(L) + Len(R))
      <3>1. i - Len(L) \in 1..Len(R)
        BY <1>10, <2>2
      <3> QED BY <1>8, <1>10, <2>1, <2>2, <3>1
    <2> QED BY <1>10, <2>1, <2>2
  <1>12. \A i \in 1..Len(L) : i \in TimedPlaces(Canonical)
    BY <1>9, <1>10 DEF TimedPlaces
  <1>13. \A r : (\E i \in TimedPlaces(Canonical) : Canonical[i] = r) <=> \E k \in 1..Len(L) : L[k] = r
    BY <1>10, <1>11, <1>12
  <1> QED BY <1>2, <1>7, <1>10, <1>13 DEF L, U

LEMMA WhatIsFramed ==
  ASSUME JoinTypeOK, NEW f
  PROVE  /\ f \in ToSet(Frames) <=>
               \E i \in LastPlaces(streams["plans"]) : f = Frame(streams["plans"][i]) /\ Complete(f)
         /\ f \in ToSet(CanonicalFrames) <=>
               \E i \in LastPlaces(Production) : f = Frame(Production[i]) /\ Complete(f)
  <1> DEFINE P == streams["plans"]
             L == Lasts(P)
             C == Timed(Sorted(Canonical))
  <1>1. P \in Seq(VersionRow) /\ \A r \in VersionRow : r.at \in Int
    BY PlansAre
  <1>2. Frames = Joined(L)
    BY DEF Frames, PlanFrames, Lasts
  <1>3. CanonicalFrames = Joined(C)
    BY DEF CanonicalFrames, FramesFromPlans
  <1>4. /\ L \in Seq(VersionRow)
        /\ \A r : (\E k \in 1..Len(L) : L[k] = r) <=> \E i \in LastPlaces(P) : P[i] = r
    <2> HIDE DEF P
    <2> QED BY <1>1, PlacesOfLasts
  <1>5. /\ C \in Seq(VersionRow)
        /\ \A r : (\E k \in 1..Len(C) : C[k] = r)
                  <=> \E i \in LastPlaces(Production) : Production[i] = r
    <2>1. Canonical \in Seq(VersionRow)
      BY CanonicalIs
    <2>2. /\ C \in Seq(VersionRow)
          /\ \A r : (\E k \in 1..Len(C) : C[k] = r)
                    <=> \E i \in TimedPlaces(Canonical) : Canonical[i] = r
      BY <1>1, <2>1, PlacesOfTimed
    <2>3. \A r : (\E i \in TimedPlaces(Canonical) : Canonical[i] = r)
                   <=> \E i \in LastPlaces(Production) : Production[i] = r
      BY CanonicalIs
    <2> HIDE DEF C
    <2> QED BY <2>2, <2>3
  <1> HIDE DEF L, C, P
  <1>6. f \in ToSet(Frames) <=> \E k \in 1..Len(L) : f = Frame(L[k]) /\ Complete(f)
    BY <1>2, <1>4, FramesOf
  <1>7. f \in ToSet(CanonicalFrames) <=> \E k \in 1..Len(C) : f = Frame(C[k]) /\ Complete(f)
    BY <1>3, <1>5, FramesOf
  <1>8. (\E k \in 1..Len(L) : f = Frame(L[k])) <=> \E i \in LastPlaces(P) : f = Frame(P[i])
    BY <1>4
  <1>9. (\E k \in 1..Len(C) : f = Frame(C[k]))
           <=> \E i \in LastPlaces(Production) : f = Frame(Production[i])
    BY <1>5
  <1> QED BY <1>6, <1>7, <1>8, <1>9 DEF P

LEMMA FramesLookBack ==
  ASSUME JoinTypeOK, NEW f \in ToSet(Frames) \union ToSet(CanonicalFrames)
  PROVE  Causal(f)
  <1>1. \A r \in VersionRow : r \in Rows
    BY PlansAre
  <1>2. CASE f \in ToSet(Frames)
    <2>1. PICK i \in LastPlaces(streams["plans"]) : f = Frame(streams["plans"][i]) /\ Complete(f)
      BY <1>2, WhatIsFramed
    <2>2. streams["plans"][i] \in VersionRow
      BY PlansAre DEF LastPlaces, TimedPlaces
    <2> QED BY <1>1, <2>1, <2>2, CompleteIsCausal
  <1>3. CASE f \in ToSet(CanonicalFrames)
    <2>1. PICK i \in LastPlaces(Production) : f = Frame(Production[i]) /\ Complete(f)
      BY <1>3, WhatIsFramed
    <2>2. Production \in Seq(VersionRow) /\ i \in 1..Len(Production)
      BY ProductionIs DEF LastPlaces, TimedPlaces
    <2>3. Production[i] \in VersionRow
      BY <2>2, ElementOfSeq
    <2> QED BY <1>1, <2>1, <2>3, CompleteIsCausal
  <1> QED BY <1>2, <1>3

LEMMA LastIsOne ==
  ASSUME NEW S, NEW s \in Seq(S), NEW i \in LastPlaces(s), NEW j \in LastPlaces(s), s[i].at = s[j].at
  PROVE  i = j
  <1>1. i \in 1..Len(s) /\ j \in 1..Len(s) /\ Len(s) \in Nat
    BY DEF LastPlaces, TimedPlaces
  <1>2. ~(i < j) /\ ~(j < i)
    BY <1>1 DEF LastPlaces
  <1> QED BY <1>1, <1>2

LEMMA LastPlanIs ==
  ASSUME JoinTypeOK, NEW t \in Instants
  PROVE  \E m \in LastPlaces(streams["plans"]) :
            LastPlanAt(t) = streams["plans"][m] /\ streams["plans"][m].at = t
  <1> DEFINE P == streams["plans"]
             T == {i \in DOMAIN P : P[i].at = t}
             m == Max(T)
  <1>1. P \in Seq(VersionRow) /\ Len(P) \in Nat /\ DOMAIN P = 1..Len(P)
    BY PlansAre
  <1>2. t # NoInstant /\ \E i \in 1..Len(P) : P[i].at = t
    BY DEF Instants
  <1> HIDE DEF P
  <1>3. T \in SUBSET (1..Len(P)) /\ T # {}
    BY <1>1, <1>2
  <1>4. m \in T /\ \A i \in T : i <= m
    <2> HIDE DEF T
    <2> QED BY <1>1, <1>3, GreatestIs
  <1>5. LastPlanAt(t) = P[m]
    BY DEF LastPlanAt, P
  <1> HIDE DEF m
  <1>6. m \in 1..Len(P) /\ P[m].at = t
    BY <1>1, <1>4
  <1>7. \A j \in 1..Len(P) : m < j => P[j].at # P[m].at
    <2> SUFFICES ASSUME NEW j \in 1..Len(P), m < j, P[j].at = P[m].at PROVE FALSE
      OBVIOUS
    <2>1. j \in T
      BY <1>1, <1>6
    <2>2. j <= m
      BY <1>4, <2>1
    <2> QED BY <1>6, <2>2
  <1>8. m \in LastPlaces(P)
    BY <1>2, <1>6, <1>7 DEF LastPlaces, TimedPlaces
  <1> QED BY <1>5, <1>6, <1>8 DEF P

LEMMA LastOfProduction ==
  ASSUME JoinTypeOK, NEW m \in LastPlaces(streams["plans"]), ~streams["plans"][m].controlled
  PROVE  \E n \in LastPlaces(Production) : Production[n] = streams["plans"][m]
  <1> DEFINE P == streams["plans"]
             N == Len(Production)
  <1>1. /\ Production \in Seq(VersionRow) /\ N \in Nat /\ N = Cardinality(ProductionPlaces)
    BY ProductionIs, LenProperties
  <1>2. PICK q : Keeps(q, ProductionPlaces) /\ Production = [k \in 1..N |-> P[q[k]]]
    BY ProductionIs
  <1> HIDE DEF N
  <1>3. /\ q \in [1..N -> ProductionPlaces]
        /\ \A k, l \in 1..N : k < l <=> q[k] < q[l]
        /\ \A i \in ProductionPlaces : \E k \in 1..N : q[k] = i
    BY <1>1, <1>2 DEF Keeps
  <1>4. m \in ProductionPlaces /\ P[m].at # NoInstant
    BY DEF LastPlaces, TimedPlaces, ProductionPlaces
  <1>5. PICK n \in 1..N : q[n] = m
    BY <1>3, <1>4
  <1>6. \A k \in 1..N : Production[k] = P[q[k]] /\ q[k] \in 1..Len(P)
    BY <1>2, <1>3 DEF ProductionPlaces
  <1>7. \A k \in 1..N : n < k => Production[k].at # Production[n].at
    <2> SUFFICES ASSUME NEW k \in 1..N, n < k PROVE Production[k].at # Production[n].at
      OBVIOUS
    <2>1. m < q[k] /\ q[k] \in 1..Len(P)
      BY <1>3, <1>5, <1>6
    <2>2. P[q[k]].at # P[m].at
      BY <2>1 DEF LastPlaces
    <2> QED BY <1>5, <1>6, <2>2
  <1>8. n \in LastPlaces(Production)
    BY <1>4, <1>5, <1>6, <1>7 DEF LastPlaces, TimedPlaces, N
  <1> QED BY <1>5, <1>6, <1>8

LEMMA OneFrameAnInstant == JoinTypeOK => OneAnInstant
  <1> SUFFICES ASSUME JoinTypeOK PROVE OneAnInstant
    OBVIOUS
  <1> DEFINE P == streams["plans"]
             L == Lasts(P)
             N == Len(L)
             F == Len(Joined(L))
  <1>1. P \in Seq(VersionRow) /\ \A r \in VersionRow : r.at \in Int
    BY PlansAre
  <1>2. L \in Seq(VersionRow) /\ Frames = Joined(L)
    BY <1>1, LastsAre DEF Frames, PlanFrames, Lasts
  <1>3. \A i, j \in 1..Len(Frames) : i < j => Frames[i].plan.at < Frames[j].plan.at
    <2>1. PICK g \in [1..N -> LastPlaces(P)] :
              /\ L = [k \in 1..N |-> P[g[k]]]
              /\ \A k, l \in 1..N : k < l <=> P[g[k]].at < P[g[l]].at
      <3> HIDE DEF P
      <3> QED BY <1>1, LastsAre
    <2> HIDE DEF L
    <2>2. PICK q \in [1..F -> {i \in 1..N : Complete(Frame(L[i]))}] :
              /\ Joined(L) = [k \in 1..F |-> Frame(L[q[k]])]
              /\ \A k, l \in 1..F : k < l <=> q[k] < q[l]
      BY <1>2, JoinedAre
    <2> HIDE DEF N, F
    <2>3. \A k \in 1..F : q[k] \in 1..N /\ Joined(L)[k] = Frame(L[q[k]])
      BY <2>2
    <2>4. \A k, l \in 1..N : k < l => L[k].at < L[l].at
      BY <2>1
    <2>5. \A k \in 1..F : Joined(L)[k].plan = L[q[k]]
      <3>1. \A r : Frame(r).plan = r
        BY DEF Frame
      <3> QED BY <2>3, <3>1
    <2>6. \A k, l \in 1..F : k < l => Joined(L)[k].plan.at < Joined(L)[l].plan.at
      BY <2>2, <2>3, <2>4, <2>5
    <2> QED BY <1>2, <2>6 DEF F
  <1>4. ASSUME NEW t \in Instants, ~LastPlanAt(t).controlled,
               NEW f \in ToSet(Frames) \union ToSet(CanonicalFrames), f.plan.at = t
        PROVE  f \in ToSet(Frames) \intersect ToSet(CanonicalFrames)
    <2>1. PICK m \in LastPlaces(P) : LastPlanAt(t) = P[m] /\ P[m].at = t
      BY LastPlanIs
    <2>2. PICK n \in LastPlaces(Production) : Production[n] = P[m]
      BY <1>4, <2>1, LastOfProduction
    <2>3. f = Frame(P[m]) /\ Complete(f)
      <3>1. \A r : Frame(r).plan = r
        BY DEF Frame
      <3>2. CASE f \in ToSet(Frames)
        <4>1. PICK i \in LastPlaces(P) : f = Frame(P[i]) /\ Complete(f)
          BY <3>2, WhatIsFramed
        <4>2. P[i].at = P[m].at
          BY <1>4, <2>1, <3>1, <4>1
        <4>3. i = m
          BY <1>1, <4>2, LastIsOne
        <4> QED BY <4>1, <4>3
      <3>3. CASE f \in ToSet(CanonicalFrames)
        <4>1. PICK i \in LastPlaces(Production) : f = Frame(Production[i]) /\ Complete(f)
          BY <3>3, WhatIsFramed
        <4>2. Production[i].at = Production[n].at
          BY <1>4, <2>1, <2>2, <3>1, <4>1
        <4>3. Production \in Seq(VersionRow)
          BY ProductionIs
        <4>4. i = n
          BY <4>2, <4>3, LastIsOne
        <4> QED BY <2>2, <4>1, <4>4
      <3> QED BY <3>2, <3>3
    <2>4. f \in ToSet(Frames)
      BY <2>3, WhatIsFramed
    <2>5. f \in ToSet(CanonicalFrames)
      BY <2>2, <2>3, WhatIsFramed
    <2> QED BY <2>4, <2>5
  <1> QED BY <1>3, <1>4 DEF OneAnInstant

-----------------------------------------------------------------------------
(* The common window *)

LEMMA LeastBound ==
  ASSUME NEW S \in SUBSET Nat, NEW n \in Nat, S \in SUBSET (0..n), NEW x \in S
  PROVE  Max(S) \in S /\ x <= Max(S) /\ Min(S) \in S /\ Min(S) <= x
  <1> DEFINE T == {n - y : y \in S}
  <1>1. T \in SUBSET Nat /\ T # {}
    OBVIOUS
  <1>2. Min(T) \in T /\ \A y \in T : Min(T) <= y
    BY <1>1, LeastIs
  <1>3. PICK high \in S : Min(T) = n - high
    BY <1>2
  <1>4. \A y \in S : y <= high
    <2> SUFFICES ASSUME NEW y \in S PROVE y <= high
      OBVIOUS
    <2>1. n - high <= n - y
      BY <1>2, <1>3
    <2> QED BY <2>1
  <1>5. \E y \in S : \A z \in S : z <= y
    BY <1>4
  <1>6. Max(S) \in S /\ \A y \in S : y <= Max(S)
    <2>1. Max(S) = CHOOSE y \in S : \A z \in S : y >= z
      BY DEF Max
    <2>2. \E y \in S : \A z \in S : y >= z
      BY <1>5
    <2>3. Max(S) \in S /\ \A z \in S : Max(S) >= z
      BY <2>1, <2>2
    <2> QED BY <2>3
  <1> QED BY <1>6, LeastIs

LEMMA TimedThemselves ==
  ASSUME NEW S, NEW s \in Seq(S)
  PROVE  /\ \E g \in [1..Len(Timed(s)) -> TimedPlaces(s)] :
               /\ Timed(s) = [k \in 1..Len(Timed(s)) |-> s[g[k]]]
               /\ \A k, l \in 1..Len(Timed(s)) : k < l <=> g[k] < g[l]
               /\ \A i \in TimedPlaces(s) : \E k \in 1..Len(Timed(s)) : g[k] = i
         /\ Timed(s) \in Seq(S) /\ Len(Timed(s)) = Cardinality(TimedPlaces(s))
  <1>1. DOMAIN s = 1..Len(s) /\ TimedPlaces(s) \in SUBSET (1..Len(s))
    BY DEF TimedPlaces
  <1>2. Timed(s) = Those(s, TimedPlaces(s))
    BY <1>1 DEF Timed, TimedPlaces
  <1>3. /\ \E p : /\ Keeps(p, TimedPlaces(s))
                  /\ Timed(s) = [k \in 1..Cardinality(TimedPlaces(s)) |-> s[p[k]]]
        /\ Timed(s) \in Seq(S) /\ Len(Timed(s)) = Cardinality(TimedPlaces(s))
    BY <1>1, <1>2, ThoseAre
  <1> QED BY <1>3 DEF Keeps

LEMMA TimesAre ==
  ASSUME NEW s \in Seq(Rows)
  PROVE  LET T == {s[i].at : i \in TimedPlaces(s)}
         IN  /\ T \in SUBSET (0..NoInstant) /\ NoInstant \notin T
             /\ Timed(s) = <<>> <=> T = {}
             /\ Quality(s).start = IF T = {} THEN NoInstant ELSE Min(T)
             /\ Quality(s).end = IF T = {} THEN NoInstant ELSE Max(T)
  <1> DEFINE T == {s[i].at : i \in TimedPlaces(s)}
             u == Timed(s)
             times == [i \in 1..Len(u) |-> u[i].at]
  <1>1. \A i \in 1..Len(s) : s[i].at \in 0..NoInstant
    BY RowsAre, ElementOfSeq
  <1>2. T \in SUBSET (0..NoInstant) /\ NoInstant \notin T
    BY <1>1 DEF TimedPlaces
  <1>3. PICK g \in [1..Len(u) -> TimedPlaces(s)] :
            /\ u = [k \in 1..Len(u) |-> s[g[k]]]
            /\ \A i \in TimedPlaces(s) : \E k \in 1..Len(u) : g[k] = i
    BY TimedThemselves
  <1>4. u \in Seq(Rows) /\ Len(u) \in Nat
    BY TimedThemselves, LenProperties
  <1>5. /\ Quality(s).start = IF times = <<>> THEN NoInstant ELSE Min(ToSet(times))
        /\ Quality(s).end = IF times = <<>> THEN NoInstant ELSE Max(ToSet(times))
    BY DEF Quality
  <1> HIDE DEF u
  <1>6. \A k \in 1..Len(u) : g[k] \in TimedPlaces(s) /\ u[k] = s[g[k]]
    BY <1>3
  <1>7. ToSet(times) = T
    <2>1. DOMAIN times = 1..Len(u) /\ \A k \in 1..Len(u) : times[k] = s[g[k]].at
      BY <1>6
    <2> HIDE DEF times
    <2>2. \A x : x \in ToSet(times) <=> \E k \in 1..Len(u) : x = s[g[k]].at
      BY <2>1 DEF ToSet
    <2>3. \A x : x \in T <=> \E k \in 1..Len(u) : x = s[g[k]].at
      BY <1>3, <1>6
    <2> QED BY <2>2, <2>3
  <1>8. (u = <<>> <=> Len(u) = 0) /\ (times = <<>> <=> Len(u) = 0)
    <2>1. u = <<>> <=> Len(u) = 0
      BY <1>4
    <2>2. times \in Seq(Int) /\ Len(times) = Len(u)
      <3>1. \A k \in 1..Len(u) : u[k].at \in Int
        BY <1>4, RowsAre, ElementOfSeq
      <3> QED BY <1>4, <3>1
    <2> HIDE DEF times
    <2>3. times = <<>> <=> Len(times) = 0
      BY <2>2
    <2> QED BY <2>1, <2>2, <2>3
  <1>9. T = {} <=> Len(u) = 0
    <2>1. T = {} <=> TimedPlaces(s) = {}
      OBVIOUS
    <2>2. 1..Len(u) = {} <=> TimedPlaces(s) = {}
      <3> HIDE DEF T, times
      <3> QED BY <1>3, <1>6
    <2>3. 1..Len(u) = {} <=> Len(u) = 0
      BY <1>4
    <2> QED BY <2>1, <2>2, <2>3
  <1> HIDE DEF times, T
  <1>10. /\ Quality(s).start = IF T = {} THEN NoInstant ELSE Min(T)
         /\ Quality(s).end = IF T = {} THEN NoInstant ELSE Max(T)
    BY <1>5, <1>7, <1>8, <1>9
  <1> QED BY <1>2, <1>8, <1>9, <1>10 DEF T, u

LEMMA WindowHasInputs == JoinTypeOK => WindowIsCovered
  <1> SUFFICES ASSUME JoinTypeOK, NEW t \in Instants, NEW n \in InputStreams,
                      InWindow(t), Timed(streams[n]) # <<>>
               PROVE  AtOrBefore(n, t) # <<>>
    BY DEF WindowIsCovered
  <1> DEFINE s == streams[n]
             T == {s[i].at : i \in TimedPlaces(s)}
  <1>1. n \in Names /\ \A x \in Names : streams[x] \in Seq(Rows)
    BY StreamsAre DEF Names, InputStreams
  <1>2. NoInstant \in Nat
    BY RowsAre
  <1>3. \A x \in Names : Quality(streams[x]).start \in 0..NoInstant
    <2> SUFFICES ASSUME NEW x \in Names PROVE Quality(streams[x]).start \in 0..NoInstant
      OBVIOUS
    <2> DEFINE Tx == {streams[x][i].at : i \in TimedPlaces(streams[x])}
    <2>1. /\ Tx \in SUBSET (0..NoInstant)
          /\ Quality(streams[x]).start = IF Tx = {} THEN NoInstant ELSE Min(Tx)
      BY <1>1, TimesAre
    <2> HIDE DEF Tx
    <2> DEFINE start == Quality(streams[x]).start
    <2>2. start = IF Tx = {} THEN NoInstant ELSE Min(Tx)
      BY <2>1
    <2> HIDE DEF T, s, start
    <2>3. Tx # {} => Min(Tx) \in Tx
      <3>1. Tx \in SUBSET Nat
        BY <1>2, <2>1
      <3> QED BY <3>1, LeastIs
    <2>4. CASE Tx = {}
      BY <1>2, <2>2, <2>4 DEF start
    <2>5. CASE Tx # {}
      <3>1. start \in Tx
        BY <2>2, <2>3, <2>5
      <3> QED BY <2>1, <3>1 DEF start
    <2> QED BY <2>4, <2>5
  <1>4. /\ T \in SUBSET (0..NoInstant) /\ NoInstant \notin T /\ T # {}
        /\ Quality(s).start = Min(T)
    BY <1>1, TimesAre
  <1>5. Min(T) \in T
    <2> HIDE DEF T
    <2>1. T \in SUBSET Nat
      BY <1>2, <1>4
    <2> QED BY <1>4, <2>1, LeastIs
  <1>6. PICK i \in TimedPlaces(s) : Min(T) = s[i].at
    BY <1>5
  <1> HIDE DEF T
  <1>7. Starts \in SUBSET (0..NoInstant) /\ Min(T) \in Starts
    BY <1>1, <1>3, <1>4, <1>5, NamesAre DEF Starts
  <1>8. Max(Starts) \in Starts /\ Min(T) <= Max(Starts)
    <2>1. Starts \in SUBSET Nat
      BY <1>2, <1>7
    <2> QED BY <1>2, <1>7, <2>1, LeastBound
  <1>9. Max(Starts) <= t
    BY DEF InWindow
  <1>10. t \in Int
    BY PlansAre DEF Instants
  <1>11. Min(T) \in Int /\ Max(Starts) \in Int
    <2>1. Min(T) \in 0..NoInstant /\ Max(Starts) \in 0..NoInstant
      BY <1>7, <1>8
    <2>2. \A x \in 0..NoInstant : x \in Int
      BY <1>2
    <2> QED BY <2>1, <2>2
  <1>12. s[i].at <= t /\ i \in 1..Len(s)
    BY <1>6, <1>8, <1>9, <1>10, <1>11 DEF TimedPlaces
  <1> QED BY <1>1, <1>10, <1>12, AtOrBeforeIs

-----------------------------------------------------------------------------
(* What is counted of the plans *)

LEMMA Onto ==
  ASSUME NEW S, NEW T, NEW f \in [S -> T], \A y \in T : \E x \in S : f[x] = y, IsFiniteSet(S)
  PROVE  /\ IsFiniteSet(T) /\ Cardinality(T) <= Cardinality(S)
         /\ (\A x, y \in S : f[x] = f[y] => x = y) => Cardinality(T) = Cardinality(S)
  <1>1. f \in Surjection(S, T)
    BY DEF Surjection
  <1>2. (\A x, y \in S : f[x] = f[y] => x = y) => f \in Injection(S, T)
    BY DEF Injection, IsInjective
  <1> QED BY <1>1, <1>2, FS_Surjection

LEMMA TimesOf ==
  ASSUME NEW s, NEW I, IsFiniteSet(I)
  PROVE  /\ IsFiniteSet({s[i].at : i \in I}) /\ Cardinality({s[i].at : i \in I}) <= Cardinality(I)
         /\ (\A i, j \in I : s[i].at = s[j].at => i = j)
               => Cardinality({s[i].at : i \in I}) = Cardinality(I)
  <1> DEFINE T == {s[i].at : i \in I}
             f == [i \in I |-> s[i].at]
  <1>1. f \in [I -> T] /\ \A y \in T : \E x \in I : f[x] = y
    OBVIOUS
  <1>2. \A i \in I : f[i] = s[i].at
    OBVIOUS
  <1> HIDE DEF f, T
  <1>3. /\ IsFiniteSet(T) /\ Cardinality(T) <= Cardinality(I)
        /\ (\A i, j \in I : f[i] = f[j] => i = j) => Cardinality(T) = Cardinality(I)
    BY <1>1, Onto
  <1>4. (\A i, j \in I : s[i].at = s[j].at => i = j) => Cardinality(T) = Cardinality(I)
    BY <1>2, <1>3
  <1> QED BY <1>3, <1>4 DEF T

\* The instants of a stream are as many as its last records of an instant.
LEMMA LastsCount ==
  ASSUME NEW S, \A r \in S : r.at \in Int, NEW s \in Seq(S)
  PROVE  /\ Len(Lasts(s)) = Cardinality({s[i].at : i \in TimedPlaces(s)})
         /\ Cardinality(LastPlaces(s)) = Cardinality({s[i].at : i \in TimedPlaces(s)})
         /\ IsFiniteSet({s[i].at : i \in TimedPlaces(s)})
  <1> DEFINE T == {s[i].at : i \in TimedPlaces(s)}
             N == Len(Lasts(s))
  <1>1. Len(s) \in Nat /\ \A i \in 1..Len(s) : s[i].at \in Int
    BY LenProperties, ElementOfSeq
  <1>2. T = {s[i].at : i \in LastPlaces(s)}
    <2>1. ASSUME NEW i \in TimedPlaces(s)
          PROVE  \E m \in LastPlaces(s) : s[m].at = s[i].at
      <3> DEFINE J == {j \in 1..Len(s) : s[j].at = s[i].at}
                 m == Max(J)
      <3>1. i \in 1..Len(s) /\ s[i].at # NoInstant
        BY DEF TimedPlaces
      <3>2. J \in SUBSET (1..Len(s)) /\ J # {}
        BY <3>1
      <3>3. m \in J /\ \A j \in J : j <= m
        <4> HIDE DEF J
        <4> QED BY <1>1, <3>2, GreatestIs
      <3> HIDE DEF m
      <3>4. m \in 1..Len(s) /\ s[m].at = s[i].at
        BY <3>3
      <3>5. \A j \in 1..Len(s) : m < j => s[j].at # s[m].at
        <4> SUFFICES ASSUME NEW j \in 1..Len(s), m < j, s[j].at = s[m].at PROVE FALSE
          OBVIOUS
        <4>1. j <= m
          BY <3>3, <3>4
        <4> QED BY <3>4, <4>1
      <3> QED BY <3>1, <3>4, <3>5 DEF LastPlaces, TimedPlaces
    <2>2. LastPlaces(s) \subseteq TimedPlaces(s)
      BY DEF LastPlaces
    <2> QED BY <2>1, <2>2
  <1>3. IsFiniteSet(LastPlaces(s))
    <2>1. LastPlaces(s) \in SUBSET (1..Len(s))
      BY DEF LastPlaces, TimedPlaces
    <2> QED BY <1>1, <2>1, PlacesAreFinite
  <1>4. \A i, j \in LastPlaces(s) : s[i].at = s[j].at => i = j
    BY LastIsOne
  <1>5. Cardinality(T) = Cardinality(LastPlaces(s)) /\ IsFiniteSet(T)
    <2> HIDE DEF T, N
    <2>1. /\ IsFiniteSet({s[i].at : i \in LastPlaces(s)})
          /\ Cardinality({s[i].at : i \in LastPlaces(s)}) = Cardinality(LastPlaces(s))
      BY <1>3, <1>4, TimesOf
    <2> QED BY <1>2, <2>1
  <1>6. N = Cardinality(LastPlaces(s))
    <2>1. PICK g \in [1..N -> LastPlaces(s)] :
              /\ \A k, l \in 1..N : k < l <=> s[g[k]].at < s[g[l]].at
              /\ \A i \in LastPlaces(s) : \E k \in 1..N : g[k] = i
      BY LastsAre
    <2>2. N \in Nat
      BY LastsAre, LenProperties
    <2> HIDE DEF N
    <2>3. \A k \in 1..N : s[g[k]].at \in Int
      BY <1>1, <2>1 DEF LastPlaces, TimedPlaces
    <2>4. \A k, l \in 1..N : g[k] = g[l] => k = l
      <3> SUFFICES ASSUME NEW k \in 1..N, NEW l \in 1..N, g[k] = g[l], k # l PROVE FALSE
        OBVIOUS
      <3>1. k < l \/ l < k
        BY <2>2
      <3>2. s[g[k]].at < s[g[l]].at \/ s[g[l]].at < s[g[k]].at
        BY <2>1, <3>1
      <3> QED BY <2>3, <3>2
    <2>5. IsFiniteSet(1..N) /\ Cardinality(1..N) = N
      BY <2>2, CountedTo
    <2> QED BY <2>1, <2>4, <2>5, Onto
  <1> QED BY <1>5, <1>6

\* As many of what is kept are of some kind as of all it is kept of.
OfAKind(q, N, J) == {k \in 1..N : q[k] \in J}
LEMMA KeptOfAKind ==
  ASSUME NEW n \in Nat, NEW I \in SUBSET (1..n), NEW q, Keeps(q, I), NEW J \in SUBSET I
  PROVE  Cardinality(OfAKind(q, Cardinality(I), J)) = Cardinality(J)
  <1> DEFINE N == Cardinality(I)
             K == {k \in 1..N : q[k] \in J}
             f == [k \in K |-> q[k]]
  <1>1. N \in Nat /\ \A i \in I : i \in Int
    BY PlacesAreFinite
  <1> HIDE DEF N
  <1>2. /\ q \in [1..N -> I]
        /\ \A k, l \in 1..N : k < l <=> q[k] < q[l]
        /\ \A i \in I : \E k \in 1..N : q[k] = i
    BY DEF Keeps, N
  <1>3. K \in SUBSET (1..N)
    OBVIOUS
  <1>4. IsFiniteSet(K)
    <2> HIDE DEF K
    <2> QED BY <1>1, <1>3, PlacesAreFinite
  <1>5. f \in [K -> J] /\ \A y \in J : \E k \in K : f[k] = y
    BY <1>2
  <1>6. \A k, l \in K : f[k] = f[l] => k = l
    <2> SUFFICES ASSUME NEW k \in K, NEW l \in K, f[k] = f[l], k # l PROVE FALSE
      OBVIOUS
    <2>1. k \in 1..N /\ l \in 1..N /\ q[k] = q[l]
      OBVIOUS
    <2>2. k < l \/ l < k
      BY <1>1, <2>1
    <2>3. q[k] < q[l] \/ q[l] < q[k]
      BY <1>2, <2>1, <2>2
    <2>4. q[k] \in Int
      BY <1>1, <1>2, <2>1
    <2> QED BY <2>1, <2>3, <2>4
  <1> HIDE DEF f, K
  <1>7. Cardinality(J) = Cardinality(K)
    BY <1>4, <1>5, <1>6, Onto
  <1> QED BY <1>7 DEF K, N, OfAKind

LEMMA TwoParts ==
  ASSUME NEW A, NEW B, IsFiniteSet(A \union B), A \intersect B = {}
  PROVE  /\ IsFiniteSet(A) /\ IsFiniteSet(B)
         /\ Cardinality(A) \in Nat /\ Cardinality(B) \in Nat
         /\ Cardinality(A \union B) = Cardinality(A) + Cardinality(B)
  <1>1. IsFiniteSet(A) /\ IsFiniteSet(B)
    <2>1. A \in SUBSET (A \union B) /\ B \in SUBSET (A \union B)
      OBVIOUS
    <2> QED BY <2>1, FS_Subset
  <1>2. Cardinality(A) \in Nat /\ Cardinality(B) \in Nat
    BY <1>1, FS_CardinalityType
  <1>3. Cardinality(A \union B) = Cardinality(A) + Cardinality(B) - Cardinality(A \intersect B)
    BY <1>1, FS_Union
  <1>4. Cardinality(A \intersect B) = 0
    BY FS_EmptySet
  <1> QED BY <1>1, <1>2, <1>3, <1>4

LEMMA TheRest ==
  ASSUME NEW S, IsFiniteSet(S), NEW A \in SUBSET S
  PROVE  /\ IsFiniteSet(A) /\ IsFiniteSet(S \ A)
         /\ Cardinality(A) \in Nat /\ Cardinality(S \ A) \in Nat
         /\ Cardinality(S) = Cardinality(A) + Cardinality(S \ A)
  <1> DEFINE B == S \ A
  <1>1. A \union B = S /\ A \intersect B = {}
    OBVIOUS
  <1> HIDE DEF B
  <1>2. IsFiniteSet(A \union B)
    BY <1>1
  <1>3. /\ IsFiniteSet(A) /\ IsFiniteSet(B)
        /\ Cardinality(A) \in Nat /\ Cardinality(B) \in Nat
        /\ Cardinality(A \union B) = Cardinality(A) + Cardinality(B)
    BY <1>1, <1>2, TwoParts
  <1> QED BY <1>1, <1>3 DEF B

LEMMA PlacesOfSequence ==
  ASSUME NEW S, NEW s \in Seq(S)
  PROVE  IsFiniteSet(ToSet(s))
  <1> DEFINE f == [i \in 1..Len(s) |-> s[i]]
  <1>1. Len(s) \in Nat /\ DOMAIN s = 1..Len(s)
    BY LenProperties
  <1>2. IsFiniteSet(1..Len(s))
    BY <1>1, CountedTo
  <1>3. f \in [1..Len(s) -> ToSet(s)] /\ \A y \in ToSet(s) : \E x \in 1..Len(s) : f[x] = y
    BY <1>1 DEF ToSet
  <1> QED BY <1>2, <1>3, Onto

LEMMA SeveralDiffer ==
  ASSUME NEW S, IsFiniteSet(S), Cardinality(S) > 1
  PROVE  \E a, b \in S : a # b
  <1>1. S # {}
    BY FS_EmptySet
  <1>2. PICK a \in S : TRUE
    BY <1>1
  <1>3. S # {a}
    BY FS_Singleton
  <1> QED BY <1>2, <1>3

\* The controlled places, and those that bear no time.
ControlledPlaces == {i \in 1..Len(streams["plans"]) : streams["plans"][i].controlled}
UntimedPlaces(s) == {i \in 1..Len(s) : s[i].at = NoInstant}
OnlyControlled ==
    {t \in Instants : \A i \in 1..Len(streams["plans"]) :
                        streams["plans"][i].at = t => streams["plans"][i].controlled}

LEMMA InstantsAre ==
  ASSUME JoinTypeOK
  PROVE  /\ Instants = {streams["plans"][i].at : i \in TimedPlaces(streams["plans"])}
         /\ IsFiniteSet(Instants) /\ Cardinality(Instants) \in Nat
         /\ Cardinality(LastPlaces(streams["plans"])) = Cardinality(Instants)
         /\ Instants \ OnlyControlled = {Production[i].at : i \in TimedPlaces(Production)}
  <1> DEFINE P == streams["plans"]
             N == Len(Production)
  <1>1. P \in Seq(VersionRow) /\ \A r \in VersionRow : r.at \in Int
    BY PlansAre
  <1>2. PICK q : Keeps(q, ProductionPlaces) /\ Production = [k \in 1..N |-> P[q[k]]]
    BY ProductionIs
  <1>3. /\ q \in [1..N -> ProductionPlaces]
        /\ \A i \in ProductionPlaces : \E k \in 1..N : q[k] = i
    BY <1>2, ProductionIs DEF Keeps
  <1> HIDE DEF N
  <1>4. \A k \in 1..N : Production[k] = P[q[k]] /\ q[k] \in ProductionPlaces
    BY <1>2, <1>3
  <1>5. Instants = {P[i].at : i \in TimedPlaces(P)}
    BY DEF Instants, TimedPlaces
  <1>6. /\ IsFiniteSet(Instants) /\ Cardinality(LastPlaces(P)) = Cardinality(Instants)
    <2> HIDE DEF P
    <2>1. /\ IsFiniteSet({P[i].at : i \in TimedPlaces(P)})
          /\ Cardinality(LastPlaces(P)) = Cardinality({P[i].at : i \in TimedPlaces(P)})
      BY <1>1, LastsCount
    <2> QED BY <1>5, <2>1
  <1>7. Cardinality(Instants) \in Nat
    BY <1>6, FS_CardinalityType
  <1>8. ASSUME NEW t \in Instants \ OnlyControlled
        PROVE  \E k \in TimedPlaces(Production) : t = Production[k].at
    <2>1. PICK i \in 1..Len(P) : P[i].at = t /\ ~P[i].controlled /\ t # NoInstant
      BY DEF OnlyControlled, Instants
    <2>2. i \in ProductionPlaces
      BY <2>1 DEF ProductionPlaces
    <2>3. PICK k \in 1..N : q[k] = i
      BY <1>3, <2>2
    <2>4. Production[k].at = t
      BY <1>4, <2>1, <2>3
    <2> QED BY <2>1, <2>4 DEF TimedPlaces, N
  <1>9. ASSUME NEW k \in TimedPlaces(Production)
        PROVE  Production[k].at \in Instants \ OnlyControlled
    <2>1. k \in 1..N /\ Production[k].at # NoInstant
      BY DEF TimedPlaces, N
    <2>2. Production[k] = P[q[k]] /\ q[k] \in 1..Len(P) /\ ~P[q[k]].controlled
      BY <1>4, <2>1 DEF ProductionPlaces
    <2> QED BY <2>1, <2>2 DEF Instants, OnlyControlled
  <1> QED BY <1>5, <1>6, <1>7, <1>8, <1>9

LEMMA PlansAddUp ==
  ASSUME JoinTypeOK
  PROVE  LET P == streams["plans"]
             untimed == UntimedPlaces(P) \intersect ControlledPlaces
             timed == TimedPlaces(P) \intersect ControlledPlaces
         IN  /\ Cardinality(TimedPlaces(P)) \in Nat /\ Cardinality(untimed) \in Nat
             /\ Cardinality(timed) \in Nat /\ IsFiniteSet(timed) /\ IsFiniteSet(TimedPlaces(P))
             /\ Len(P) = Cardinality(TimedPlaces(P)) + Cardinality(untimed)
                         + Cardinality({i \in 1..Len(Production) : Production[i].at = NoInstant})
             /\ Cardinality({i \in 1..Len(Production) : Production[i].at = NoInstant}) \in Nat
             /\ Len(P) = Len(Production) + Cardinality(untimed) + Cardinality(timed)
             /\ Len(Production) \in Nat
  <1> DEFINE P == streams["plans"]
             n == Len(P)
             C == ControlledPlaces
             T == TimedPlaces(P)
             U == UntimedPlaces(P)
             I == ProductionPlaces
             K == {k \in 1..Len(Production) : Production[k].at = NoInstant}
  <1>1. n \in Nat /\ P \in Seq(VersionRow)
    BY PlansAre
  <1>2. IsFiniteSet(1..n) /\ Cardinality(1..n) = n
    BY <1>1, CountedTo
  <1>3. /\ 1..n = C \union I /\ C \intersect I = {} /\ 1..n = T \union U /\ T \intersect U = {}
        /\ C \subseteq 1..n /\ I \subseteq 1..n /\ T \subseteq 1..n /\ U \subseteq 1..n
    BY DEF ControlledPlaces, ProductionPlaces, TimedPlaces, UntimedPlaces
  <1>4. Cardinality(K) = Cardinality(U \intersect I)
    <2>1. PICK q : Keeps(q, I) /\ Production = [k \in 1..Len(Production) |-> P[q[k]]]
      BY ProductionIs
    <2>2. Len(Production) = Cardinality(I)
      BY ProductionIs
    <2>3. \A k \in 1..Cardinality(I) : q[k] \in I
      BY <2>1 DEF Keeps
    <2>4. K = {k \in 1..Cardinality(I) : q[k] \in U \intersect I}
      <3> SUFFICES ASSUME NEW k \in 1..Cardinality(I)
                   PROVE  Production[k].at = NoInstant <=> q[k] \in U \intersect I
        BY <2>2
      <3>1. Production[k] = P[q[k]]
        BY <2>1, <2>2
      <3>2. q[k] \in 1..n
        BY <1>3, <2>3
      <3> QED BY <2>3, <3>1, <3>2 DEF UntimedPlaces
    <2>5. U \intersect I \in SUBSET I /\ I \in SUBSET (1..n)
      BY <1>3
    <2> DEFINE J == U \intersect I
    <2> HIDE DEF n, I, U, K, J
    <2>6. J \in SUBSET I /\ I \in SUBSET (1..n)
      BY <2>5 DEF J
    <2>7. Cardinality(OfAKind(q, Cardinality(I), J)) = Cardinality(J)
      BY <1>1, <2>1, <2>6, KeptOfAKind
    <2> QED BY <2>4, <2>7 DEF J, OfAKind
  <1> HIDE DEF n, C, T, U, I
  <1>5. /\ IsFiniteSet(T) /\ IsFiniteSet(U) /\ Cardinality(T) \in Nat /\ Cardinality(U) \in Nat
        /\ n = Cardinality(T) + Cardinality(U)
    <2>1. T \in SUBSET (1..n) /\ (1..n) \ T = U
      BY <1>3
    <2> QED BY <1>2, <2>1, TheRest
  <1>6. /\ IsFiniteSet(C) /\ IsFiniteSet(I) /\ Cardinality(C) \in Nat /\ Cardinality(I) \in Nat
        /\ n = Cardinality(C) + Cardinality(I)
    <2>1. C \in SUBSET (1..n) /\ (1..n) \ C = I
      BY <1>3
    <2> QED BY <1>2, <2>1, TheRest
  <1>7. /\ Cardinality(U \intersect C) \in Nat /\ Cardinality(U \intersect I) \in Nat
        /\ Cardinality(U) = Cardinality(U \intersect C) + Cardinality(U \intersect I)
    <2>1. U \intersect C \in SUBSET U /\ U \ (U \intersect C) = U \intersect I
      BY <1>3
    <2> QED BY <1>5, <2>1, TheRest
  <1>8. /\ Cardinality(T \intersect C) \in Nat /\ IsFiniteSet(T \intersect C)
        /\ Cardinality(C) = Cardinality(U \intersect C) + Cardinality(T \intersect C)
    <2>1. U \intersect C \in SUBSET C /\ C \ (U \intersect C) = T \intersect C
      BY <1>3
    <2> QED BY <1>6, <2>1, TheRest
  <1>9. Len(Production) = Cardinality(I)
    BY ProductionIs DEF I
  <1> QED BY <1>4, <1>5, <1>6, <1>7, <1>8, <1>9 DEF n, C, T, U, K

LEMMA ConflictsAre == JoinTypeOK => ConflictsAccounted
  <1> SUFFICES ASSUME JoinTypeOK PROVE ConflictsAccounted
    OBVIOUS
  <1> DEFINE P == streams["plans"]
             C == ControlledPlaces
             untimed == UntimedPlaces(P) \intersect C
             timed == TimedPlaces(P) \intersect C
             K == {i \in 1..Len(Production) : Production[i].at = NoInstant}
  <1>1. P \in Seq(VersionRow) /\ Len(P) \in Nat /\ \A r \in VersionRow : r.at \in Int
    BY PlansAre
  <1>2. /\ Instants = {P[i].at : i \in TimedPlaces(P)}
        /\ IsFiniteSet(Instants) /\ Cardinality(Instants) \in Nat
        /\ Cardinality(LastPlaces(P)) = Cardinality(Instants)
        /\ Instants \ OnlyControlled = {Production[i].at : i \in TimedPlaces(Production)}
    BY InstantsAre
  <1>3. /\ Cardinality(TimedPlaces(P)) \in Nat /\ Cardinality(untimed) \in Nat
        /\ Cardinality(timed) \in Nat /\ IsFiniteSet(timed) /\ IsFiniteSet(TimedPlaces(P))
        /\ Len(P) = Cardinality(TimedPlaces(P)) + Cardinality(untimed) + Cardinality(K)
        /\ Cardinality(K) \in Nat
        /\ Len(P) = Len(Production) + Cardinality(untimed) + Cardinality(timed)
        /\ Len(Production) \in Nat
    BY PlansAddUp
  <1>4. DuplicateTimestamps = Cardinality(TimedPlaces(P)) - Cardinality(Instants)
    <2>1. Len(Timed(P)) = Cardinality(TimedPlaces(P))
      BY <1>1, TimedThemselves
    <2> QED BY <2>1 DEF DuplicateTimestamps
  <1>5. Len(Canonical) = Cardinality(Instants) - Cardinality(OnlyControlled) + Cardinality(K)
        /\ Cardinality(OnlyControlled) \in Nat
    <2>1. Len(Canonical) = Len(Lasts(Production)) + Cardinality(K)
      BY CanonicalIs
    <2>2. Len(Lasts(Production)) = Cardinality({Production[i].at : i \in TimedPlaces(Production)})
      <3>1. Production \in Seq(VersionRow)
        BY ProductionIs
      <3> QED BY <1>1, <3>1, LastsCount
    <2>3. /\ Cardinality(Instants \ OnlyControlled) \in Nat /\ Cardinality(OnlyControlled) \in Nat
          /\ Cardinality(Instants) = Cardinality(Instants \ OnlyControlled)
                                     + Cardinality(OnlyControlled)
      <3>1. OnlyControlled \in SUBSET Instants
        BY DEF OnlyControlled
      <3>2. IsFiniteSet(Instants)
        BY <1>2
      <3> QED BY <3>1, <3>2, TheRest
    <2> DEFINE a == Cardinality(Instants)
               b == Cardinality(Instants \ OnlyControlled)
               c == Cardinality(OnlyControlled)
               d == Cardinality(K)
               e == Len(Canonical)
               f == Len(Lasts(Production))
    <2>4. e = f + d
      BY <2>1
    <2>5. f = b
      BY <1>2, <2>2
    <2>6. a \in Nat /\ b \in Nat /\ c \in Nat /\ a = b + c
      BY <1>2, <2>3
    <2>7. d \in Nat
      BY <1>3
    <2> HIDE DEF a, b, c, d, e, f
    <2>8. e = a - c + d
      BY <2>4, <2>5, <2>6, <2>7
    <2> QED BY <2>6, <2>8 DEF a, c, d, e
  <1>6. Cardinality(OnlyControlled) <= Cardinality(timed)
    <2> DEFINE X == {P[i].at : i \in timed}
    <2>1. IsFiniteSet(X) /\ Cardinality(X) <= Cardinality(timed)
      BY <1>3, TimesOf
    <2>2. OnlyControlled \in SUBSET X
      BY DEF OnlyControlled, Instants, TimedPlaces, ControlledPlaces
    <2> HIDE DEF X
    <2>3. Cardinality(OnlyControlled) <= Cardinality(X) /\ Cardinality(X) \in Nat
      BY <2>1, <2>2, FS_Subset, FS_CardinalityType
    <2> QED BY <1>3, <1>5, <2>1, <2>3
  <1>7. ExcludedControlled = Len(P) - Len(Production)
    BY DEF ExcludedControlled
  <1>8. Cardinality(Conflicting) <= DuplicateTimestamps
    <2> DEFINE D == TimedPlaces(P) \ LastPlaces(P)
               X == {P[i].at : i \in D}
    <2>1. /\ IsFiniteSet(D) /\ Cardinality(D) \in Nat
          /\ Cardinality(TimedPlaces(P)) = Cardinality(D) + Cardinality(LastPlaces(P))
      <3>1. LastPlaces(P) \in SUBSET TimedPlaces(P)
        BY DEF LastPlaces
      <3>2. IsFiniteSet(TimedPlaces(P)) /\ Cardinality(LastPlaces(P)) \in Nat
        BY <1>2, <1>3
      <3> HIDE DEF P
      <3>3. /\ IsFiniteSet(TimedPlaces(P) \ LastPlaces(P))
            /\ Cardinality(TimedPlaces(P) \ LastPlaces(P)) \in Nat
            /\ Cardinality(TimedPlaces(P))
               = Cardinality(LastPlaces(P)) + Cardinality(TimedPlaces(P) \ LastPlaces(P))
        BY <3>1, <3>2, TheRest
      <3> QED BY <3>2, <3>3
    <2>2. IsFiniteSet(X) /\ Cardinality(X) <= Cardinality(D) /\ Cardinality(X) \in Nat
      <3>1. IsFiniteSet(X) /\ Cardinality(X) <= Cardinality(D)
        <4> HIDE DEF D
        <4> QED BY <2>1, TimesOf
      <3> QED BY <3>1, FS_CardinalityType
    <2>3. Conflicting \in SUBSET X
      <3> SUFFICES ASSUME NEW t \in Instants,
                          Cardinality({p \in ToSet(Production) : p.at = t}) > 1
                   PROVE  t \in X
        BY DEF Conflicting
      <3> DEFINE S == {p \in ToSet(Production) : p.at = t}
      <3>0. IsFiniteSet(S)
        <4>1. IsFiniteSet(ToSet(Production))
          BY ProductionIs, PlacesOfSequence
        <4>2. S \in SUBSET ToSet(Production)
          OBVIOUS
        <4> QED BY <4>1, <4>2, FS_Subset
      <3>1. PICK a \in S, b \in S : a # b
        <4> HIDE DEF S
        <4>1. Cardinality(S) > 1
          BY DEF S
        <4> QED BY <3>0, <4>1, SeveralDiffer
      <3>2. ASSUME NEW p \in S
            PROVE  \E i \in TimedPlaces(P) : P[i] = p /\ P[i].at = t
        <4>1. DOMAIN Production = 1..Len(Production)
          BY ProductionIs
        <4>2. PICK k \in 1..Len(Production) : Production[k] = p
          BY <4>1 DEF ToSet
        <4>3. PICK q : Keeps(q, ProductionPlaces) /\ Production = [j \in 1..Len(Production) |-> P[q[j]]]
          BY ProductionIs
        <4>4. q[k] \in ProductionPlaces /\ Production[k] = P[q[k]]
          BY <4>2, <4>3, ProductionIs DEF Keeps
        <4>5. p.at = t /\ t # NoInstant
          BY DEF Instants
        <4> QED BY <4>2, <4>4, <4>5 DEF ProductionPlaces, TimedPlaces
      <3>3. PICK i \in TimedPlaces(P) : P[i] = a /\ P[i].at = t
        BY <3>1, <3>2
      <3>4. PICK j \in TimedPlaces(P) : P[j] = b /\ P[j].at = t
        BY <3>1, <3>2
      <3>5. i # j
        BY <3>1, <3>3, <3>4
      <3>6. ~(i \in LastPlaces(P) /\ j \in LastPlaces(P))
        BY <1>1, <3>3, <3>4, <3>5, LastIsOne
      <3> QED BY <3>3, <3>4, <3>6
    <2> HIDE DEF X, D
    <2>4. Cardinality(Conflicting) <= Cardinality(X) /\ Cardinality(Conflicting) \in Nat
      <3>1. Cardinality(Conflicting) <= Cardinality(X) /\ IsFiniteSet(Conflicting)
        BY <2>2, <2>3, FS_Subset
      <3> QED BY <3>1, FS_CardinalityType
    <2> QED BY <1>2, <1>3, <1>4, <2>1, <2>2, <2>4
  <1>9. {i \in 1..Len(P) : P[i].at = NoInstant /\ P[i].controlled} = untimed
    BY DEF UntimedPlaces, ControlledPlaces
  <1>10. Len(P) = Len(Canonical) + DuplicateTimestamps + Cardinality(OnlyControlled)
                  + Cardinality(untimed)
    <2> DEFINE a == Len(P)
               b == Cardinality(TimedPlaces(P))
               c == Cardinality(untimed)
               d == Cardinality(K)
               e == Cardinality(Instants)
               f == Cardinality(OnlyControlled)
               g == Len(Canonical)
               h == DuplicateTimestamps
    <2>1. a \in Nat /\ b \in Nat /\ c \in Nat /\ d \in Nat /\ e \in Nat /\ f \in Nat
      BY <1>1, <1>2, <1>3, <1>5
    <2>2. a = b + c + d
      BY <1>3
    <2>3. h = b - e
      BY <1>4
    <2>4. g = e - f + d
      BY <1>5
    <2> HIDE DEF a, b, c, d, e, f, g, h
    <2>5. a = g + h + f + c
      BY <2>1, <2>2, <2>3, <2>4
    <2> QED BY <2>5 DEF a, c, f, g, h
  <1>11. ExcludedControlled >= Cardinality(OnlyControlled) + Cardinality(untimed)
    <2> HIDE DEF P, untimed, timed
    <2> QED BY <1>3, <1>5, <1>6, <1>7
  <1> QED BY <1>8, <1>9, <1>10, <1>11 DEF ConflictsAccounted, OnlyControlled

-----------------------------------------------------------------------------
(* What the manifest says *)

\* A stream that is told in order is sorted as it is.
LEMMA InOrderAlready ==
  ASSUME NEW s \in Seq(Rows), Quality(s).out_of_order_count = 0
  PROVE  Timed(Sorted(s)) = Timed(s)
  <1> DEFINE T == Timed(s)
             n == Len(T)
             I == TimedPlaces(s)
             W == {i \in 1..n - 1 : T[i + 1].at < T[i].at}
  <1>1. /\ Len(s) \in Nat /\ \A i \in 1..Len(s) : s[i] \in Rows /\ s[i].at \in Int
        /\ \A r \in Rows : r.at \in Int
    BY LenProperties, ElementOfSeq, RowsAre
  <1>2. PICK g \in [1..n -> I] :
               /\ T = [k \in 1..n |-> s[g[k]]]
               /\ \A k, l \in 1..n : k < l <=> g[k] < g[l]
               /\ \A i \in I : \E k \in 1..n : g[k] = i
    BY TimedThemselves
  <1>3. T \in Seq(Rows) /\ n = Cardinality(I) /\ n \in Nat
    BY TimedThemselves, LenProperties
  <1>4. I \in SUBSET (1..Len(s))
    BY DEF TimedPlaces
  <1>5. Quality(s).out_of_order_count = Cardinality(W)
    <2> DEFINE times == [i \in 1..Len(Timed(s)) |-> Timed(s)[i].at]
    <2>1. Len(times) = n
      BY <1>3
    <2>2. \A i \in 1..n - 1 : times[i] = T[i].at /\ times[i + 1] = T[i + 1].at
      BY <1>3
    <2>3. {i \in 1..Len(times) - 1 : times[i + 1] < times[i]} = W
      BY <2>1, <2>2
    <2>4. Quality(s).out_of_order_count = Cardinality({i \in 1..Len(times) - 1 : times[i + 1] < times[i]})
      BY DEF Quality
    <2> QED BY <2>3, <2>4
  <1>6. \A i \in 1..n - 1 : ~(T[i + 1].at < T[i].at)
    <2>1. W \in SUBSET (1..n)
      BY <1>3
    <2>2. IsFiniteSet(W) /\ Cardinality(W) = 0
      <3> HIDE DEF W
      <3> QED BY <1>3, <1>5, <2>1, PlacesAreFinite
    <2>3. W = {}
      <3> HIDE DEF W
      <3> QED BY <2>2, FS_EmptySet
    <2> QED BY <2>3
  <1>7. \A i \in 1..n : T[i] \in Rows /\ T[i].at \in Int
    BY <1>1, <1>3, ElementOfSeq
  <1> HIDE DEF T, n, I, W
  <1>8. \A l \in 1..n : \A k \in 1..l : T[k].at <= T[l].at
    <2> DEFINE Ns == {l \in 0..n : \A k \in 1..l : T[k].at <= T[l].at}
    <2>1. 0 \in Ns
      BY <1>3
    <2>2. ASSUME NEW l \in 0..(n - 1), l \in Ns PROVE l + 1 \in Ns
      <3> SUFFICES ASSUME NEW k \in 1..(l + 1) PROVE T[k].at <= T[l + 1].at
        BY <1>3
      <3>1. CASE k = l + 1
        BY <1>3, <1>7, <3>1
      <3>2. CASE k \in 1..l
        <4>1. T[k].at <= T[l].at /\ l \in 1..n /\ l + 1 \in 1..n /\ k \in 1..n /\ l \in 1..n - 1
          BY <1>3, <2>2, <3>2
        <4>2. ~(T[l + 1].at < T[l].at)
          BY <1>6, <4>1
        <4> QED BY <1>7, <4>1, <4>2
      <3> QED BY <1>3, <3>1, <3>2
    <2> HIDE DEF Ns
    <2>3. 0..n \subseteq Ns
      BY <1>3, <2>1, <2>2, UpTo
    <2> QED BY <1>3, <2>3 DEF Ns
  <1>9. \A i, j \in I : Earlier(s, i, j) <=> i < j
    <2> SUFFICES ASSUME NEW i \in I, NEW j \in I PROVE Earlier(s, i, j) <=> i < j
      OBVIOUS
    <2>1. PICK k \in 1..n : g[k] = i
      BY <1>2
    <2>2. PICK l \in 1..n : g[l] = j
      BY <1>2
    <2>3. T[k] = s[i] /\ T[l] = s[j]
      BY <1>2, <2>1, <2>2
    <2>4. i \in Int /\ j \in Int /\ s[i].at \in Int /\ s[j].at \in Int
      BY <1>1, <1>4
    <2>5. i < j => s[i].at <= s[j].at
      <3> SUFFICES ASSUME i < j PROVE s[i].at <= s[j].at
        OBVIOUS
      <3>1. k < l
        BY <1>2, <2>1, <2>2
      <3>2. k \in 1..l
        BY <1>3, <3>1
      <3> QED BY <1>8, <2>3, <3>2
    <2>6. j < i => s[j].at <= s[i].at
      <3> SUFFICES ASSUME j < i PROVE s[j].at <= s[i].at
        OBVIOUS
      <3>1. l < k
        BY <1>2, <2>1, <2>2
      <3>2. l \in 1..k
        BY <1>3, <3>1
      <3> QED BY <1>8, <2>3, <3>2
    <2> QED BY <2>4, <2>5, <2>6 DEF Earlier
  <1> DEFINE m == Len(Timed(Sorted(s)))
  <1>10. PICK h \in [1..m -> I] :
            /\ Timed(Sorted(s)) = [k \in 1..m |-> s[h[k]]]
            /\ \A k, l \in 1..m : k < l <=> Earlier(s, h[k], h[l])
            /\ \A i \in I : \E k \in 1..m : h[k] = i
    <2>1. \A r \in Rows : r.at \in Int
      BY <1>1
    <2>2. \E h \in [1..Len(Timed(Sorted(s))) -> TimedPlaces(s)] :
            /\ Timed(Sorted(s)) = [k \in 1..Len(Timed(Sorted(s))) |-> s[h[k]]]
            /\ \A k, l \in 1..Len(Timed(Sorted(s))) : k < l <=> Earlier(s, h[k], h[l])
            /\ \A i \in TimedPlaces(s) : \E k \in 1..Len(Timed(Sorted(s))) : h[k] = i
      BY <2>1, TimedAre
    <2> QED BY <2>2 DEF I
  <1>11. m \in Nat
    <2>1. Timed(Sorted(s)) \in Seq(Rows)
      BY <1>1, PlacesOfTimed
    <2> QED BY <2>1, LenProperties
  <1> HIDE DEF m
  <1>12. \A k, l \in 1..m : k < l <=> h[k] < h[l]
    BY <1>9, <1>10
  <1>13. m = Cardinality(I)
    <2>1. \A i \in I : i \in Int
      BY <1>1, <1>4
    <2>2. \A k, l \in 1..m : h[k] = h[l] => k = l
      <3> SUFFICES ASSUME NEW k \in 1..m, NEW l \in 1..m, h[k] = h[l], k # l PROVE FALSE
        OBVIOUS
      <3>1. k < l \/ l < k
        BY <1>11
      <3>2. h[k] < h[l] \/ h[l] < h[k]
        BY <1>12, <3>1
      <3> QED BY <1>10, <2>1, <3>2
    <2>3. IsFiniteSet(1..m) /\ Cardinality(1..m) = m
      BY <1>11, CountedTo
    <2> QED BY <1>10, <2>2, <2>3, Onto
  <1>14. Keeps(g, I) /\ Keeps(h, I)
    BY <1>2, <1>3, <1>10, <1>12, <1>13 DEF Keeps
  <1>15. g = h
    BY <1>1, <1>4, <1>14, SameTelling
  <1>16. T = Timed(Sorted(s))
    BY <1>2, <1>3, <1>10, <1>13, <1>15
  <1> QED BY <1>16 DEF T

\* The last IV there was, at each place.
CarriedTo(u, n, last) ==
    last = [k \in 0..n |-> IF k = 0 THEN NoInstant ELSE IF u[k].iv THEN u[k].at ELSE last[k - 1]]

LEMMA CarriedExists ==
  ASSUME NEW u, NEW n \in Nat
  PROVE  \E last : CarriedTo(u, n, last)
  <1> DEFINE Ns == {k \in Nat : \E f : CarriedTo(u, k, f)}
  <1>1. 0 \in Ns
    <2>1. CarriedTo(u, 0, [k \in 0..0 |-> NoInstant])
      BY DEF CarriedTo
    <2> QED BY <2>1
  <1>2. ASSUME NEW m \in Nat, m \in Ns PROVE m + 1 \in Ns
    <2>1. PICK f : CarriedTo(u, m, f)
      BY <1>2
    <2> DEFINE t == [k \in 0..(m + 1) |-> IF k = m + 1 THEN (IF u[m + 1].iv THEN u[m + 1].at ELSE f[m])
                                          ELSE f[k]]
    <2>2. \A k \in 0..m : f[k] = IF k = 0 THEN NoInstant ELSE IF u[k].iv THEN u[k].at ELSE f[k - 1]
      BY <2>1 DEF CarriedTo
    <2>3. \A k \in 0..(m + 1) : t[k] = IF k = 0 THEN NoInstant ELSE IF u[k].iv THEN u[k].at ELSE t[k - 1]
      BY <2>2
    <2>4. CarriedTo(u, m + 1, t)
      BY <2>3 DEF CarriedTo
    <2> QED BY <2>4
  <1>3. n \in Ns
    <2> HIDE DEF Ns
    <2>1. \A i \in 0..(n - 1) : i \in Ns => i + 1 \in Ns
      BY <1>2
    <2>2. 0..n \subseteq Ns
      BY <1>1, <2>1, UpTo
    <2> QED BY <2>2
  <1> QED BY <1>3

\* At each place it is that of the last snapshot that had one.
LEMMA CarriedIs ==
  ASSUME NEW u, NEW n \in Nat, NEW last, CarriedTo(u, n, last), NEW k \in 0..n
  PROVE  \/ last[k] = NoInstant /\ \A m \in 1..k : ~u[m].iv
         \/ \E j \in 1..k : /\ u[j].iv /\ last[k] = u[j].at
                            /\ \A m \in 1..k : u[m].iv => m <= j
  <1> DEFINE NoneIn(l) == last[l] = NoInstant /\ \A m \in 1..l : ~u[m].iv
             OneIn(l) == \E j \in 1..l : /\ u[j].iv /\ last[l] = u[j].at
                                         /\ \A m \in 1..l : u[m].iv => m <= j
             Ns == {l \in 0..n : NoneIn(l) \/ OneIn(l)}
  <1>1. \A l \in 0..n : last[l] = IF l = 0 THEN NoInstant ELSE IF u[l].iv THEN u[l].at ELSE last[l - 1]
    BY DEF CarriedTo
  <1>2. 0 \in Ns
    <2>1. NoneIn(0)
      BY <1>1
    <2> QED BY <2>1
  <1>3. ASSUME NEW l \in 0..(n - 1), l \in Ns PROVE l + 1 \in Ns
    <2> DEFINE c == l + 1
    <2>1. c \in 0..n /\ c # 0 /\ c - 1 = l /\ c \in 1..c /\ l \in Nat
      OBVIOUS
    <2>2. \A m \in 1..c : m = c \/ m \in 1..l
      OBVIOUS
    <2>3. \A m \in 1..l : m \in 1..c /\ m <= c
      OBVIOUS
    <2>4. last[c] = IF u[c].iv THEN u[c].at ELSE last[l]
      <3> HIDE DEF c
      <3> QED BY <1>1, <2>1
    <2>5. NoneIn(l) \/ OneIn(l)
      BY <1>3
    <2> HIDE DEF c
    <2>6. CASE u[c].iv
      <3>1. OneIn(c)
        <4>1. \A m \in 1..c : m <= c
          BY <2>1
        <4> QED BY <2>1, <2>4, <2>6, <4>1
      <3> QED BY <2>1, <3>1 DEF c
    <2>7. CASE ~u[c].iv /\ NoneIn(l)
      <3>1. NoneIn(c)
        BY <2>2, <2>4, <2>7
      <3> QED BY <2>1, <3>1 DEF c
    <2>8. CASE ~u[c].iv /\ OneIn(l)
      <3>1. PICK j \in 1..l : /\ u[j].iv /\ last[l] = u[j].at
                              /\ \A m \in 1..l : u[m].iv => m <= j
        BY <2>8
      <3>2. last[c] = u[j].at /\ j \in 1..c
        BY <2>3, <2>4, <2>8, <3>1
      <3>3. \A m \in 1..c : u[m].iv => m <= j
        BY <2>2, <2>8, <3>1
      <3>4. OneIn(c)
        BY <3>1, <3>2, <3>3
      <3> QED BY <2>1, <3>4 DEF c
    <2> QED BY <2>5, <2>6, <2>7, <2>8
  <1>4. 0..n \subseteq Ns
    <2> HIDE DEF Ns
    <2> QED BY <1>2, <1>3, UpTo
  <1>5. NoneIn(k) \/ OneIn(k)
    BY <1>4
  <1> QED BY <1>5

LEMMA CarriesIv ==
  ASSUME JoinTypeOK
  PROVE  \A i \in 1..Len(CarriedIv) :
           CarriedIv[i].iv <=>
             /\ CarriedIv[i].at # NoInstant
             /\ \E j \in 1..i : /\ Sorted(streams["snapshots"])[j].iv
                                /\ CarriedIv[i].at - CarriedIv[j].at <= MaxCarriedAge
  <1> DEFINE u == Sorted(streams["snapshots"])
             n == Len(u)
             last == CHOOSE f : CarriedTo(u, n, f)
             Iv(k) == /\ last[k] # NoInstant /\ u[k].at # NoInstant
                      /\ u[k].at - last[k] <= MaxCarriedAge
  <1>1. /\ u \in Seq(Rows) /\ \A r \in Rows : r.at \in Int
        /\ \E p : Sorts(p, streams["snapshots"])
                 /\ u = [k \in 1..Len(streams["snapshots"]) |-> streams["snapshots"][p[k]]]
        /\ Len(u) = Len(streams["snapshots"]) /\ streams["snapshots"] \in Seq(Rows)
    <2>1. streams["snapshots"] \in Seq(Rows)
      BY StreamsAre DEF Names
    <2>2. \A r \in Rows : r.at \in Int
      BY RowsAre
    <2> QED BY <2>1, <2>2, SortedIs
  <1>2. n \in Nat /\ \A k \in 1..n : /\ u[k].at \in Int /\ 0 <= u[k].at
                                    /\ u[k].at <= NoInstant
    <2>1. \A k \in 1..n : u[k] \in Rows
      BY <1>1, ElementOfSeq
    <2> QED BY <1>1, <2>1, LenProperties, RowsAre
  <1>3. \A j, k \in 1..n : j <= k => u[j].at <= u[k].at
    <2> DEFINE s == streams["snapshots"]
    <2> SUFFICES ASSUME NEW j \in 1..n, NEW k \in 1..n, j <= k PROVE u[j].at <= u[k].at
      OBVIOUS
    <2>1. PICK p : Sorts(p, s) /\ u = [l \in 1..Len(s) |-> s[p[l]]]
      BY <1>1
    <2>2. n = Len(s)
      BY <1>1
    <2>3. u[j] = s[p[j]] /\ u[k] = s[p[k]]
      BY <2>1, <2>2
    <2> HIDE DEF u, n, s
    <2>4. CASE j < k
      <3>1. Earlier(s, p[j], p[k])
        BY <2>1, <2>2, <2>4 DEF Sorts
      <3> QED BY <1>2, <2>3, <3>1 DEF Earlier
    <2>5. CASE j = k
      BY <1>2, <2>5
    <2> QED BY <1>2, <2>4, <2>5
  <1>4. CarriedIv = [k \in 1..n |-> [at |-> u[k].at, iv |-> Iv(k)]]
    BY DEF CarriedIv, CarriedTo
  <1>5. CarriedTo(u, n, last)
    <2>1. \E f : CarriedTo(u, n, f)
      BY <1>2, CarriedExists
    <2> HIDE DEF n, u
    <2> QED BY <2>1
  <1>6. NoInstant \in Nat /\ MaxCarriedAge \in Nat
    BY JoinAssumption
  <1> HIDE DEF u, n, last
  <1>7. ASSUME NEW i \in 1..n
        PROVE  Iv(i) <=> /\ u[i].at # NoInstant
                         /\ \E j \in 1..i : u[j].iv /\ u[i].at - u[j].at <= MaxCarriedAge
    <2>1. i \in 0..n
      BY <1>2
    <2>2. \/ last[i] = NoInstant /\ \A m \in 1..i : ~u[m].iv
          \/ \E j \in 1..i : /\ u[j].iv /\ last[i] = u[j].at
                             /\ \A m \in 1..i : u[m].iv => m <= j
      BY <1>2, <1>5, <2>1, CarriedIs
    <2>3. CASE last[i] = NoInstant /\ \A m \in 1..i : ~u[m].iv
      BY <2>3
    <2>4. ASSUME NEW j \in 1..i, u[j].iv, last[i] = u[j].at, \A m \in 1..i : u[m].iv => m <= j
          PROVE  Iv(i) <=> /\ u[i].at # NoInstant
                           /\ \E l \in 1..i : u[l].iv /\ u[i].at - u[l].at <= MaxCarriedAge
      <3>1. \A l \in 1..i : l \in 1..n /\ l <= i
        BY <1>2
      <3>2. u[j].at <= u[i].at /\ u[j].at \in Int /\ u[i].at \in Int /\ u[i].at <= NoInstant
        BY <1>2, <1>3, <3>1
      <3>3. ASSUME NEW l \in 1..i, u[l].iv, u[i].at - u[l].at <= MaxCarriedAge
            PROVE  u[i].at - u[j].at <= MaxCarriedAge
        <4>1. l <= j
          BY <2>4, <3>3
        <4>2. u[l].at <= u[j].at /\ u[l].at \in Int
          BY <1>2, <1>3, <3>1, <4>1
        <4> QED BY <1>6, <3>2, <3>3, <4>2
      <3>4. u[i].at # NoInstant => u[j].at # NoInstant
        BY <1>6, <3>2
      <3> QED BY <2>4, <3>3, <3>4
    <2> QED BY <2>2, <2>3, <2>4
  <1>8. /\ Len(CarriedIv) = n
        /\ \A i \in 1..n : CarriedIv[i].at = u[i].at /\ CarriedIv[i].iv = Iv(i)
    <2> HIDE DEF Iv
    <2>1. \A i \in 1..n : CarriedIv[i] = [at |-> u[i].at, iv |-> Iv(i)]
      BY <1>4
    <2> QED BY <1>2, <1>4, <2>1
  <1> HIDE DEF Iv
  <1>9. ASSUME NEW i \in 1..n
        PROVE  CarriedIv[i].iv <=>
                 /\ CarriedIv[i].at # NoInstant
                 /\ \E j \in 1..i : u[j].iv /\ CarriedIv[i].at - CarriedIv[j].at <= MaxCarriedAge
    <2>1. \A j \in 1..i : CarriedIv[j].at = u[j].at
      BY <1>2, <1>8
    <2> QED BY <1>7, <1>8, <2>1
  <1> QED BY <1>8, <1>9 DEF u

LEMMA ReplayedAreRead ==
  ASSUME JoinTypeOK, NEW r \in ToSet(ReplaySnapshots)
  PROVE  r \in ToSet(streams["snapshots"])
  <1> DEFINE s == streams["snapshots"]
             u == Sorted(s)
             I == {i \in DOMAIN u : InWindow(u[i].at)}
  <1>1. s \in Seq(Rows) /\ Len(s) \in Nat /\ DOMAIN s = 1..Len(s)
    BY StreamsAre, LenProperties DEF Names
  <1>2. \A x \in Rows : x.at \in Int
    BY RowsAre
  <1>3. PICK p : Sorts(p, s) /\ u = [k \in 1..Len(s) |-> s[p[k]]]
    BY <1>1, <1>2, SortedIs
  <1>4. u \in Seq(Rows) /\ Len(u) = Len(s) /\ DOMAIN u = 1..Len(s)
    BY <1>1, <1>2, SortedIs, LenProperties
  <1>5. I \in SUBSET (1..Len(u))
    BY <1>4
  <1>6. ReplaySnapshots = Those(u, I)
    BY DEF ReplaySnapshots
  <1> HIDE DEF u, I
  <1>7. PICK q : Keeps(q, I) /\ Those(u, I) = [k \in 1..Cardinality(I) |-> u[q[k]]]
    BY <1>4, <1>5, ThoseAre
  <1>8. PICK k \in 1..Cardinality(I) : r = u[q[k]]
    BY <1>6, <1>7 DEF ToSet
  <1>9. q[k] \in 1..Len(s)
    BY <1>4, <1>5, <1>7 DEF Keeps
  <1>10. u[q[k]] = s[p[q[k]]] /\ p[q[k]] \in 1..Len(s)
    BY <1>3, <1>9 DEF Sorts
  <1> QED BY <1>1, <1>8, <1>10 DEF ToSet

\* The two instants that tell how old the IV of a canonical frame is.
LEMMA FramesAreDated ==
  ASSUME JoinTypeOK
  PROVE  \A i \in 1..Len(CanonicalFrames) :
           /\ CanonicalFrames[i].plan.at \in Int
           /\ CanonicalFrames[i].inputs["states"][1].at \in Int
  <1> SUFFICES ASSUME NEW i \in 1..Len(CanonicalFrames)
               PROVE  /\ CanonicalFrames[i].plan.at \in Int
                      /\ CanonicalFrames[i].inputs["states"][1].at \in Int
    OBVIOUS
  <1> DEFINE f == CanonicalFrames[i]
  <1>1. f \in ToSet(CanonicalFrames)
    <2> DEFINE u == Timed(Sorted(Canonical))
               F == CanonicalFrames
    <2>1. \A r \in VersionRow : r.at \in Int
      BY PlansAre
    <2>2. Canonical \in Seq(VersionRow)
      BY CanonicalIs
    <2>3. u \in Seq(VersionRow)
      BY <2>1, <2>2, PlacesOfTimed
    <2>4. F = Joined(u)
      BY DEF CanonicalFrames, FramesFromPlans
    <2> HIDE DEF u
    <2>5. PICK q : Joined(u) = [k \in 1..Len(Joined(u)) |-> Frame(u[q[k]])]
      BY <2>3, JoinedAre
    <2>6. DOMAIN F = 1..Len(F)
      BY <2>4, <2>5
    <2> QED BY <2>6 DEF ToSet
  <1>2. PICK j \in LastPlaces(Production) : f = Frame(Production[j]) /\ Complete(f)
    BY <1>1, WhatIsFramed
  <1>3. Production[j] \in VersionRow
    <2>1. Production \in Seq(VersionRow)
      BY ProductionIs
    <2> QED BY <2>1, ElementOfSeq DEF LastPlaces, TimedPlaces
  <1>4. Production[j].at \in Int
    BY <1>3, PlansAre
  <1> HIDE DEF f
  <1>5. f.plan = Production[j] /\ f.inputs["states"] = AtOrBefore("states", Production[j].at)
    BY <1>2 DEF Frame, InputStreams
  <1>6. f.inputs["states"] # <<>>
    BY <1>2 DEF Complete, InputStreams
  <1>7. PICK k : /\ LatestAt(streams["states"], k, Production[j].at)
                 /\ AtOrBefore("states", Production[j].at) = <<streams["states"][k]>>
    BY <1>4, <1>5, <1>6, AtOrBeforeIs DEF Names
  <1>8. streams["states"][k].at \in Int
    <2>1. streams["states"] \in Seq(Rows) /\ k \in 1..Len(streams["states"])
      BY <1>7, StreamsAre DEF Names, LatestAt
    <2> QED BY <2>1, ElementOfSeq, RowsAre
  <1> QED BY <1>4, <1>5, <1>7, <1>8 DEF f

\* The IV that is fresh stays so as the threshold grows.
LEMMA FreshStaysFresh ==
  ASSUME JoinTypeOK, NEW i \in 1..Len(CanonicalFrames),
         IvSource(CanonicalFrames[i], 0) = "fresh"
  PROVE  IvSource(CanonicalFrames[i], MaxCarriedAge) = "fresh"
  <1> DEFINE f == CanonicalFrames[i]
             read == f.inputs["states"][1]
  <1>1. f.plan.at \in Int /\ read.at \in Int
    BY FramesAreDated
  <1>2. MaxCarriedAge \in Nat
    BY JoinAssumption
  <1> HIDE DEF f
  <1>3. \A threshold : IvSource(f, threshold) =
                          IF ~read.iv THEN "missing"
                          ELSE IF f.plan.at - read.at <= threshold THEN "fresh" ELSE "stale"
    BY DEF IvSource
  <1> HIDE DEF read
  <1>4. read.iv /\ f.plan.at - read.at <= 0
    BY <1>3 DEF f
  <1>5. f.plan.at - read.at <= MaxCarriedAge
    BY <1>1, <1>2, <1>4
  <1> QED BY <1>3, <1>4, <1>5 DEF f

LEMMA ManifestIs == JoinTypeOK => ManifestHolds
  <1> SUFFICES ASSUME JoinTypeOK PROVE ManifestHolds
    OBVIOUS
  <1>1. \A n \in ToSet(StreamNames) :
           Quality(streams[n]).out_of_order_count = 0 => Timed(Sorted(streams[n])) = Timed(streams[n])
    <2> SUFFICES ASSUME NEW n \in Names, Quality(streams[n]).out_of_order_count = 0
                 PROVE  Timed(Sorted(streams[n])) = Timed(streams[n])
      BY NamesAre
    <2>1. streams[n] \in Seq(Rows)
      BY StreamsAre
    <2> QED BY <2>1, InOrderAlready
  <1>2. Told(CanonicalFrames, "fresh", 0) \subseteq Told(CanonicalFrames, "fresh", MaxCarriedAge)
    BY FreshStaysFresh DEF Told
  <1>3. RvFallback(CanonicalFrames, MaxCarriedAge) \subseteq RvFallback(CanonicalFrames, 0)
    BY FreshStaysFresh DEF RvFallback
  <1> QED BY <1>1, <1>2, <1>3, CarriesIv, ReplayedAreRead DEF ManifestHolds

LEMMA JoinTypeInvariant == JoinSpec => []JoinTypeOK
  <1>1. JoinInit => JoinTypeOK
    <2> SUFFICES ASSUME JoinInit PROVE JoinTypeOK
      OBVIOUS
    <2>1. streams \in [snapshots : Seq(SnapshotRow), states : Seq(StampedRow),
                       modes : Seq(StampedRow), plans : Seq(VersionRow)]
      BY JoinAssumption DEF JoinInit
    <2> QED BY <2>1 DEF JoinInit, JoinTypeOK
  <1>2. JoinTypeOK /\ [JoinNext]_joinVars => JoinTypeOK'
    <2> SUFFICES ASSUME JoinTypeOK, [JoinNext]_joinVars PROVE JoinTypeOK'
      OBVIOUS
    <2> DEFINE RowsOf == [snapshots |-> SnapshotRow, states |-> StampedRow,
                          modes |-> StampedRow, plans |-> VersionRow]
               Typed(s) == /\ s = [n \in Names |-> s[n]]
                           /\ \A n \in Names : s[n] \in Seq(RowsOf[n])
    <2>1. \A k \in 1..4 : StreamNames[k] \in Names
      BY DEF StreamNames, Names
    <2>2. \A s : Typed(s) <=> s \in [snapshots : Seq(SnapshotRow), states : Seq(StampedRow),
                                     modes : Seq(StampedRow), plans : Seq(VersionRow)]
      BY DEF Names
    <2>3. \A n \in Names : Stages[n] \subseteq RowsOf[n]
      BY JoinAssumption DEF Names
    <2>4. Typed(streams) /\ reading \in 1..5
      BY <2>2 DEF JoinTypeOK
    <2>5. CASE Write
      <3>0. PICK k \in 1..4 : \E r \in Stages[StreamNames[k]] :
               streams' = [streams EXCEPT ![StreamNames[k]] = Append(@, r)]
        BY <2>5 DEF Write
      <3>1. PICK r \in Stages[StreamNames[k]] :
               streams' = [streams EXCEPT ![StreamNames[k]] = Append(@, r)]
        BY <3>0
      <3> DEFINE name == StreamNames[k]
      <3>2. name \in Names /\ r \in RowsOf[name]
        BY <2>1, <2>3
      <3> HIDE DEF name, RowsOf
      <3>3. Append(streams[name], r) \in Seq(RowsOf[name])
        BY <2>4, <3>2, AppendProperties
      <3>4. Typed(streams')
        BY <2>4, <3>1, <3>2, <3>3 DEF name
      <3> QED BY <2>2, <2>4, <2>5, <3>4 DEF Write, JoinTypeOK
    <2>6. CASE Load
      <3> DEFINE name == StreamNames[reading]
                 s == streams[name]
      <3>1. PICK torn \in {0, 1} :
              /\ torn <= Len(s)
              /\ streams' = [streams EXCEPT ![name] = SubSeq(s, 1, Len(s) - torn)]
        BY <2>6 DEF Load
      <3>2. reading \in 1..4 /\ reading' = reading + 1
        BY <2>4, <2>6 DEF Load
      <3>3. name \in Names
        BY <2>1, <3>2
      <3> HIDE DEF name, RowsOf
      <3>4. s \in Seq(RowsOf[name])
        BY <2>4, <3>3
      <3>5. SubSeq(s, 1, Len(s) - torn) \in Seq(RowsOf[name])
        <4> DEFINE T == RowsOf[name]
                   m == Len(s) - torn
        <4> HIDE DEF s, T
        <4>1. s \in Seq(T) /\ Len(s) \in Nat
          BY <3>4, LenProperties DEF T
        <4>2. m \in Int /\ m <= Len(s) /\ 0 <= m
          BY <3>1, <4>1
        <4> HIDE DEF m
        <4>3. SubSeq(s, 1, m) \in Seq(T)
          BY <4>1, <4>2, SubSeqProperties
        <4> QED BY <4>3 DEF T, m
      <3>6. Typed(streams')
        BY <2>4, <3>1, <3>3, <3>5
      <3> QED BY <2>2, <3>2, <3>6 DEF JoinTypeOK
    <2>7. CASE UNCHANGED joinVars
      BY <2>7 DEF joinVars, JoinTypeOK
    <2> QED BY <2>5, <2>6, <2>7 DEF JoinNext
  <1> QED BY <1>1, <1>2, PTL DEF JoinSpec

\* Nothing the evaluation counts has looked ahead.  Whatever the stages append
\* while their streams are loaded, and wherever a stream is torn: what a frame
\* joins was stamped no later than its plan and is the last of what was read; an
\* instant has one frame, and both ways to it differ only where its last plan is
\* controlled; a plan of the common window misses no input; every plan is
\* canonical, excluded or one too many; and what the manifest says of order and
\* IV is so.
THEOREM NoFrameLooksAhead == JoinSpec => []FramesAreCausal
  <1>1. JoinTypeOK => FramesAreCausal
    BY FramesLookBack, OneFrameAnInstant, WindowHasInputs, ConflictsAre, ManifestIs
    DEF FramesAreCausal
  <1> QED BY <1>1, JoinTypeInvariant, PTL
===============================================================================
