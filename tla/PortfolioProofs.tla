--------------------------- MODULE PortfolioProofs ---------------------------
(***************************************************************************)
(* The gates of shared limits: that what the portfolio governor lets       *)
(* through, and what the portfolio controller creates, keeps the limits of *)
(* all markets together, however many of them propose at once.             *)
(*                                                                         *)
(* Sums over the markets are recursive functions along their order; what   *)
(* is said of them holds up to the least index at which it would not.      *)
(* Judged and Weighed say what the exposure that each gate works with has  *)
(* in it, after any number of the proposals.                               *)
(***************************************************************************)
EXTENDS PortfolioRisk, PortfolioController, SequenceTheorems, WellFoundedInduction, TLAPS

-----------------------------------------------------------------------------
(* Sums over the markets *)

\* What holds at 0, and passes from each number to the next, holds up to n.
LEMMA UpTo ==
  ASSUME NEW n \in Nat, NEW S, 0 \in S, \A i \in 0..(n - 1) : i \in S => i + 1 \in S
  PROVE 0..n \subseteq S
  <1> SUFFICES ASSUME NEW k \in 0..n, k \notin S PROVE FALSE
    OBVIOUS
  <1> DEFINE R == OpToRel(<, Nat)
             Bad == {i \in 0..n : i \notin S}
  <1>1. IsWellFoundedOn(R, Nat)
    BY NatLessThanWellFounded DEF OpToRel
  <1>2. PICK least \in Bad : \A i \in Bad : ~(<<i, least>> \in R)
    <2>1. Bad \subseteq Nat /\ k \in Bad
      OBVIOUS
    <2> QED BY <1>1, <2>1, WFMin
  <1>3. least \in 0..n /\ least \notin S
    OBVIOUS
  <1>4. least # 0
    BY <1>3
  <1>5. least - 1 \in 0..(n - 1) /\ least - 1 \in 0..n /\ least - 1 \in Nat /\ least \in Nat
    BY <1>3, <1>4
  <1>6. <<least - 1, least>> \in R
    BY <1>5 DEF OpToRel
  <1>7. least - 1 \in S
    BY <1>2, <1>5, <1>6
  <1>8. (least - 1) + 1 \in S
    BY <1>5, <1>7
  <1> QED BY <1>3, <1>8

N == Len(Markets)

LEMMA MarketsAre ==
  /\ N \in Nat
  /\ \A i \in 1..N : Markets[i] \in Pairs
  /\ \A i, j \in 1..N : i # j => Markets[i] # Markets[j]
  /\ \A p \in Pairs : \E i \in 1..N : Markets[i] = p
  BY MarketsAssumption, LenProperties DEF N, Pairs, ToSet

\* The sums are what their definition says.
SumsTo(number, n, s) ==
  s = [i \in 0..n |-> IF i = 0 THEN 0 ELSE s[i - 1] + number[Markets[i]]]

LEMMA SumsExist ==
  ASSUME NEW number
  PROVE SumsTo(number, N, Sums(number))
  <1> DEFINE S == {n \in Nat : \E s : SumsTo(number, n, s)}
  <1>1. 0 \in S
    <2>1. SumsTo(number, 0, [i \in 0..0 |-> 0])
      BY DEF SumsTo
    <2> QED BY <2>1
  <1>2. ASSUME NEW n \in Nat, n \in S PROVE n + 1 \in S
    <2>1. PICK s : SumsTo(number, n, s)
      BY <1>2
    <2> DEFINE t == [i \in 0..(n + 1) |-> IF i = n + 1 THEN s[n] + number[Markets[n + 1]]
                                          ELSE s[i]]
    <2>2. \A i \in 0..n : s[i] = IF i = 0 THEN 0 ELSE s[i - 1] + number[Markets[i]]
      BY <2>1 DEF SumsTo
    <2>3. \A i \in 0..(n + 1) : t[i] = IF i = 0 THEN 0 ELSE t[i - 1] + number[Markets[i]]
      BY <2>2
    <2>4. SumsTo(number, n + 1, t)
      BY <2>3 DEF SumsTo
    <2> QED BY <2>4
  <1>3. N \in S
    <2>1. \A i \in 0..(N - 1) : i \in S => i + 1 \in S
      BY <1>2, MarketsAre
    <2> HIDE DEF S
    <2>2. 0..N \subseteq S
      BY <1>1, <2>1, UpTo, MarketsAre
    <2> QED BY <2>2, MarketsAre
  <1>4. PICK s : SumsTo(number, N, s)
    BY <1>3
  <1> QED BY <1>4 DEF SumsTo, Sums, N

LEMMA SumsAre ==
  ASSUME NEW number \in [Pairs -> Int]
  PROVE /\ \A i \in 0..N : Sums(number)[i] \in Int
        /\ Sums(number)[0] = 0
        /\ \A i \in 1..N : Sums(number)[i] = Sums(number)[i - 1] + number[Markets[i]]
  <1>1. \A i \in 0..N : Sums(number)[i] = IF i = 0 THEN 0
                                          ELSE Sums(number)[i - 1] + number[Markets[i]]
    BY SumsExist DEF SumsTo
  <1> DEFINE S == {i \in 0..N : Sums(number)[i] \in Int}
  <1>2. 0 \in S
    BY <1>1, MarketsAre
  <1>3. \A i \in 0..(N - 1) : i \in S => i + 1 \in S
    BY <1>1, MarketsAre
  <1>4. 0..N \subseteq S
    <2> HIDE DEF S
    <2> QED BY <1>2, <1>3, UpTo, MarketsAre
  <1> QED BY <1>1, <1>4, MarketsAre

\* Sums are monotone, add up, and follow the change of one of their numbers.
LEMMA SumsMonotone ==
  ASSUME NEW f \in [Pairs -> Int], NEW g \in [Pairs -> Int], \A p \in Pairs : f[p] <= g[p]
  PROVE Total(f) <= Total(g)
  <1> DEFINE S == {i \in 0..N : Sums(f)[i] <= Sums(g)[i]}
  <1>1. 0 \in S
    BY SumsAre, MarketsAre
  <1>2. \A i \in 0..(N - 1) : i \in S => i + 1 \in S
    <2> SUFFICES ASSUME NEW i \in 0..(N - 1), i \in S PROVE i + 1 \in S
      OBVIOUS
    <2>1. i + 1 \in 1..N /\ i + 1 \in 0..N /\ (i + 1) - 1 = i
      BY MarketsAre
    <2>2. Sums(f)[i + 1] = Sums(f)[i] + f[Markets[i + 1]]
      BY <2>1, SumsAre
    <2>3. Sums(g)[i + 1] = Sums(g)[i] + g[Markets[i + 1]]
      BY <2>1, SumsAre
    <2>4. {Sums(f)[i], Sums(g)[i], f[Markets[i + 1]], g[Markets[i + 1]]} \subseteq Int
      BY <2>1, SumsAre, MarketsAre
    <2> QED BY <2>1, <2>2, <2>3, <2>4, MarketsAre
  <1>3. N \in S
    <2> HIDE DEF S
    <2>1. N \in Nat
      BY MarketsAre
    <2>2. 0..N \subseteq S
      BY <1>1, <1>2, <2>1, UpTo
    <2> QED BY <2>1, <2>2
  <1> QED BY <1>3 DEF Total, N

LEMMA SumsAdd ==
  ASSUME NEW f \in [Pairs -> Int], NEW g \in [Pairs -> Int], NEW h \in [Pairs -> Int],
         \A p \in Pairs : h[p] = f[p] + g[p]
  PROVE Total(h) = Total(f) + Total(g)
  <1> DEFINE S == {i \in 0..N : Sums(h)[i] = Sums(f)[i] + Sums(g)[i]}
  <1>1. 0 \in S
    BY SumsAre, MarketsAre
  <1>2. \A i \in 0..(N - 1) : i \in S => i + 1 \in S
    <2> SUFFICES ASSUME NEW i \in 0..(N - 1), i \in S PROVE i + 1 \in S
      OBVIOUS
    <2>1. i + 1 \in 1..N /\ i + 1 \in 0..N /\ (i + 1) - 1 = i
      BY MarketsAre
    <2>2. /\ Sums(f)[i + 1] = Sums(f)[i] + f[Markets[i + 1]]
          /\ Sums(g)[i + 1] = Sums(g)[i] + g[Markets[i + 1]]
          /\ Sums(h)[i + 1] = Sums(h)[i] + h[Markets[i + 1]]
      BY <2>1, SumsAre
    <2>3. /\ {Sums(f)[i], Sums(g)[i], f[Markets[i + 1]], g[Markets[i + 1]]} \subseteq Int
          /\ h[Markets[i + 1]] = f[Markets[i + 1]] + g[Markets[i + 1]]
      BY <2>1, SumsAre, MarketsAre
    <2> QED BY <2>1, <2>2, <2>3, MarketsAre
  <1>3. N \in S
    <2> HIDE DEF S
    <2>1. N \in Nat
      BY MarketsAre
    <2>2. 0..N \subseteq S
      BY <1>1, <1>2, <2>1, UpTo
    <2> QED BY <2>1, <2>2
  <1> QED BY <1>3 DEF Total, N

LEMMA SumsBound ==
  ASSUME NEW f \in [Pairs -> Int], NEW g \in [Pairs -> Int], NEW h \in [Pairs -> Int],
         NEW k \in [Pairs -> Int], \A p \in Pairs : k[p] <= f[p] + g[p] + h[p]
  PROVE Total(k) <= Total(f) + Total(g) + Total(h)
  <1> DEFINE fg == [p \in Pairs |-> f[p] + g[p]]
             fgh == [p \in Pairs |-> fg[p] + h[p]]
  <1>1. fg \in [Pairs -> Int] /\ fgh \in [Pairs -> Int]
    OBVIOUS
  <1>2. /\ \A p \in Pairs : fg[p] = f[p] + g[p]
        /\ \A p \in Pairs : fgh[p] = fg[p] + h[p]
        /\ \A p \in Pairs : k[p] <= fgh[p]
    OBVIOUS
  <1> HIDE DEF fg, fgh
  <1>3. Total(fg) = Total(f) + Total(g)
    BY <1>1, <1>2, SumsAdd
  <1>4. Total(fgh) = Total(fg) + Total(h)
    BY <1>1, <1>2, SumsAdd
  <1>5. Total(k) <= Total(fgh)
    BY <1>1, <1>2, SumsMonotone
  <1> QED BY <1>3, <1>4, <1>5

LEMMA SumsChange ==
  ASSUME NEW f \in [Pairs -> Int], NEW p \in Pairs, NEW d \in Int
  PROVE Total([f EXCEPT ![p] = @ + d]) = Total(f) + d
  <1> DEFINE g == [f EXCEPT ![p] = @ + d]
  <1>1. g \in [Pairs -> Int]
    OBVIOUS
  <1>2. PICK k \in 1..N : Markets[k] = p
    BY MarketsAre
  <1> DEFINE S == {i \in 0..N : Sums(g)[i] = Sums(f)[i] + (IF i >= k THEN d ELSE 0)}
  <1>3. 0 \in S
    <2>1. Sums(g)[0] = 0 /\ Sums(f)[0] = 0
      BY <1>1, SumsAre
    <2>2. 0 \in 0..N /\ ~(0 >= k)
      BY <1>2, MarketsAre
    <2> HIDE DEF g
    <2> QED BY <2>1, <2>2
  <1>4. \A i \in 0..(N - 1) : i \in S => i + 1 \in S
    <2> SUFFICES ASSUME NEW i \in 0..(N - 1), i \in S PROVE i + 1 \in S
      OBVIOUS
    <2>1. i + 1 \in 1..N /\ i + 1 \in 0..N /\ (i + 1) - 1 = i
      BY MarketsAre
    <2>2. Sums(f)[i + 1] = Sums(f)[i] + f[Markets[i + 1]]
      BY <2>1, SumsAre
    <2>3. Sums(g)[i + 1] = Sums(g)[i] + g[Markets[i + 1]]
      BY <1>1, <2>1, SumsAre
    <2>4. g[Markets[i + 1]] = f[Markets[i + 1]] + (IF i + 1 = k THEN d ELSE 0)
      BY <1>2, <2>1, MarketsAre
    <2>5. {Sums(f)[i], f[Markets[i + 1]]} \subseteq Int
      BY <2>1, SumsAre, MarketsAre
    <2>6. Sums(g)[i] = Sums(f)[i] + (IF i >= k THEN d ELSE 0)
      OBVIOUS
    <2> HIDE DEF g
    <2> QED BY <2>1, <2>2, <2>3, <2>4, <2>5, <2>6, MarketsAre
  <1>5. N \in S
    <2> HIDE DEF S
    <2>1. N \in Nat
      BY MarketsAre
    <2>2. 0..N \subseteq S
      BY <1>3, <1>4, <2>1, UpTo
    <2> QED BY <2>1, <2>2
  <1>6. Sums(g)[N] = Sums(f)[N] + d
    BY <1>5, <1>2, MarketsAre
  <1> QED BY <1>6 DEF Total, N

LEMMA TotalIs == \A f \in [Pairs -> Int] : Total(f) \in Int
  BY SumsAre, MarketsAre DEF Total, N

-----------------------------------------------------------------------------
(* What places have, by market *)

LEMMA PlacesAre ==
  /\ \A p \in Pairs : Buy(p) \in Places /\ Sell(p) \in Places
  /\ \A p \in Pairs : Buy(p)[1] = p /\ Sell(p)[1] = p /\ Buy(p) # Sell(p)
  /\ \A x \in Places : x[1] \in Pairs /\ Sign(x[2]) \in {1, -1}
  /\ \A x \in Places : x = Buy(x[1]) \/ x = Sell(x[1])
  BY DEF Places, Buy, Sell, Sign

LEMMA OnesAre == Ones \in [Places -> Nat] /\ \A x \in Places : Ones[x] = 1
  BY DEF Ones

LEMMA ByMarketIs ==
  ASSUME NEW places, NEW number \in [Places -> Int]
  PROVE /\ ByMarket(places, number) \in [Pairs -> Int]
        /\ \A p \in Pairs : ByMarket(places, number)[p] =
              AmountAt(places, number, Buy(p)) + AmountAt(places, number, Sell(p))
        /\ \A x \in Places : AmountAt(places, number, x) \in Int
  BY PlacesAre DEF ByMarket, AmountAt

\* One place more has its number more.
LEMMA OnePlaceMore ==
  ASSUME NEW places, NEW number \in [Places -> Int], NEW x \in Places, x \notin places
  PROVE /\ ByMarket(places \union {x}, number)
             = [ByMarket(places, number) EXCEPT ![x[1]] = @ + number[x]]
        /\ Total(ByMarket(places \union {x}, number)) = Total(ByMarket(places, number)) + number[x]
  <1> DEFINE old == ByMarket(places, number)
             new == ByMarket(places \union {x}, number)
             Was(y) == AmountAt(places, number, y)
             Is(y) == AmountAt(places \union {x}, number, y)
             d == number[x]
  <1>1. /\ \A y \in Places : y # x => Is(y) = Was(y)
        /\ Is(x) = d /\ Was(x) = 0 /\ d \in Int
    BY DEF AmountAt
  <1>2. /\ old \in [Pairs -> Int] /\ new \in [Pairs -> Int]
        /\ \A p \in Pairs : old[p] = Was(Buy(p)) + Was(Sell(p))
        /\ \A p \in Pairs : new[p] = Is(Buy(p)) + Is(Sell(p))
        /\ \A y \in Places : Was(y) \in Int
    BY ByMarketIs
  <1> HIDE DEF old, new, Was, Is, d
  <1>3. \A p \in Pairs : new[p] = old[p] + (IF p = x[1] THEN d ELSE 0)
    <2> SUFFICES ASSUME NEW p \in Pairs PROVE new[p] = old[p] + (IF p = x[1] THEN d ELSE 0)
      OBVIOUS
    <2>1. /\ Buy(p) \in Places /\ Sell(p) \in Places /\ Buy(p) # Sell(p)
          /\ Buy(p)[1] = p /\ Sell(p)[1] = p /\ Was(Buy(p)) \in Int /\ Was(Sell(p)) \in Int
          /\ new[p] = Is(Buy(p)) + Is(Sell(p)) /\ old[p] = Was(Buy(p)) + Was(Sell(p))
      BY <1>2, PlacesAre
    <2>2. CASE p # x[1]
      <3>1. Is(Buy(p)) = Was(Buy(p)) /\ Is(Sell(p)) = Was(Sell(p))
        BY <1>1, <2>1, <2>2
      <3> QED BY <2>1, <2>2, <3>1
    <2>3. CASE x = Buy(p)
      <3>1. Is(Buy(p)) = d /\ Was(Buy(p)) = 0 /\ Is(Sell(p)) = Was(Sell(p)) /\ p = x[1]
        BY <1>1, <2>1, <2>3
      <3> QED BY <1>1, <2>1, <3>1
    <2>4. CASE x = Sell(p)
      <3>1. Is(Sell(p)) = d /\ Was(Sell(p)) = 0 /\ Is(Buy(p)) = Was(Buy(p)) /\ p = x[1]
        BY <1>1, <2>1, <2>4
      <3> QED BY <1>1, <2>1, <3>1
    <2> QED BY <2>2, <2>3, <2>4, PlacesAre
  <1>4. new = [old EXCEPT ![x[1]] = @ + d]
    BY <1>1, <1>2, <1>3
  <1>5. Total(new) = Total(old) + d
    <2>1. x[1] \in Pairs
      BY PlacesAre
    <2>2. Total([old EXCEPT ![x[1]] = @ + d]) = Total(old) + d
      BY <1>1, <1>2, <2>1, SumsChange
    <2> QED BY <1>4, <2>2
  <1> QED BY <1>4, <1>5 DEF old, new, d

\* What no place has.
LEMMA NoPlaces ==
  ASSUME NEW number \in [Places -> Int]
  PROVE /\ \A p \in Pairs : ByMarket({}, number)[p] = 0
        /\ Total(ByMarket({}, number)) = 0
  <1> DEFINE zero == ByMarket({}, number)
  <1>1. zero \in [Pairs -> Int] /\ \A p \in Pairs : zero[p] = 0
    BY DEF ByMarket, AmountAt
  <1>2. \A p \in Pairs : zero[p] = zero[p] + zero[p]
    BY <1>1
  <1> HIDE DEF zero
  <1>3. Total(zero) = Total(zero) + Total(zero) /\ Total(zero) \in Int
    BY <1>1, <1>2, SumsAdd, TotalIs
  <1>4. Total(zero) = 0
    BY <1>3
  <1> QED BY <1>1, <1>4 DEF zero

\* What is at most that of two others in each place, is so by market.
LEMMA AtMostThree ==
  ASSUME NEW A, NEW B, NEW C, NEW D, NEW f \in [Places -> Int], NEW g \in [Places -> Int],
         NEW h \in [Places -> Int], NEW k \in [Places -> Int],
         \A x \in Places : AmountAt(D, k, x)
            <= AmountAt(A, f, x) + AmountAt(B, g, x) + AmountAt(C, h, x)
  PROVE \A p \in Pairs : ByMarket(D, k)[p] <= ByMarket(A, f)[p] + ByMarket(B, g)[p] + ByMarket(C, h)[p]
  <1> SUFFICES ASSUME NEW p \in Pairs
               PROVE ByMarket(D, k)[p] <= ByMarket(A, f)[p] + ByMarket(B, g)[p] + ByMarket(C, h)[p]
    OBVIOUS
  <1> DEFINE a(x) == AmountAt(A, f, x)
             b(x) == AmountAt(B, g, x)
             c(x) == AmountAt(C, h, x)
             d(x) == AmountAt(D, k, x)
  <1>1. /\ \A x \in Places : a(x) \in Int /\ b(x) \in Int /\ c(x) \in Int /\ d(x) \in Int
        /\ \A x \in Places : d(x) <= a(x) + b(x) + c(x)
        /\ ByMarket(A, f)[p] = a(Buy(p)) + a(Sell(p)) /\ ByMarket(B, g)[p] = b(Buy(p)) + b(Sell(p))
        /\ ByMarket(C, h)[p] = c(Buy(p)) + c(Sell(p)) /\ ByMarket(D, k)[p] = d(Buy(p)) + d(Sell(p))
    BY ByMarketIs
  <1>2. Buy(p) \in Places /\ Sell(p) \in Places
    BY PlacesAre
  <1> HIDE DEF a, b, c, d
  <1> QED BY <1>1, <1>2

-----------------------------------------------------------------------------
(* A gate of shared limits *)

\* The working exposure has in it e by market, c executors, and the amounts q of
\* the places that are let through.
Has(work, e, c, through, q) ==
  /\ work.asset \in [Pairs -> Int] /\ work.gross \in Int /\ work.executors \in [Pairs -> Int]
  /\ work.gross >= Total(e) + Total(ByMarket(through, q))
  /\ Total(work.executors) >= Total(c) + Total(Count(through))
  /\ \A p \in Pairs : /\ work.asset[p] >= e[p] + ByMarket(through, q)[p]
                      /\ work.executors[p] >= c[p] + Count(through)[p]

\* Where something is let through, it keeps limits with that.
Keeps(e, c, through, q, gross, pair, one, all) ==
  \A x \in through :
    /\ Total(e) + Total(ByMarket(through, q)) <= gross
    /\ Total(c) + Total(Count(through)) <= all
    /\ e[x[1]] + ByMarket(through, q)[x[1]] <= pair
    /\ c[x[1]] + Count(through)[x[1]] <= one

Adds(new, work, x, d, n) ==
  /\ new.asset = [work.asset EXCEPT ![x[1]] = @ + d]
  /\ new.gross = work.gross + d
  /\ new.executors = [work.executors EXCEPT ![x[1]] = @ + n]

LEMMA GateNumbers ==
  ASSUME NEW through, NEW q \in [Places -> Nat]
  PROVE /\ ByMarket(through, q) \in [Pairs -> Int] /\ Count(through) \in [Pairs -> Int]
        /\ Total(ByMarket(through, q)) \in Int /\ Total(Count(through)) \in Int
  <1>1. q \in [Places -> Int] /\ Ones \in [Places -> Int]
    BY OnesAre
  <1>2. ByMarket(through, q) \in [Pairs -> Int] /\ Count(through) \in [Pairs -> Int]
    BY <1>1, ByMarketIs DEF Count
  <1> QED BY <1>2, TotalIs

LEMMA NothingThrough ==
  ASSUME NEW e \in [Pairs -> Int], NEW c \in [Pairs -> Int], NEW q \in [Places -> Nat],
         NEW work, work.asset = e, work.gross = Total(e), work.executors = c
  PROVE Has(work, e, c, {}, q)
  <1>1. q \in [Places -> Int] /\ Ones \in [Places -> Int] /\ Total(e) \in Int /\ Total(c) \in Int
    BY OnesAre, TotalIs
  <1>2. /\ \A p \in Pairs : ByMarket({}, q)[p] = 0 /\ Count({})[p] = 0
        /\ Total(ByMarket({}, q)) = 0 /\ Total(Count({})) = 0
    BY <1>1, NoPlaces DEF Count
  <1> QED BY <1>1, <1>2 DEF Has

\* What is added stays, whatever it is for.
LEMMA HasStill ==
  ASSUME NEW e \in [Pairs -> Int], NEW c \in [Pairs -> Int], NEW through,
         NEW q \in [Places -> Nat], NEW x \in Places, NEW d \in Nat, NEW n \in {0, 1},
         NEW work, NEW new, Has(work, e, c, through, q), Adds(new, work, x, d, n)
  PROVE Has(new, e, c, through, q)
  <1> DEFINE taken == ByMarket(through, q)
             orders == Count(through)
  <1>1. /\ taken \in [Pairs -> Int] /\ orders \in [Pairs -> Int]
        /\ Total(taken) \in Int /\ Total(orders) \in Int /\ Total(e) \in Int /\ Total(c) \in Int
    BY GateNumbers, TotalIs
  <1>2. /\ work.asset \in [Pairs -> Int] /\ work.gross \in Int /\ work.executors \in [Pairs -> Int]
        /\ work.gross >= Total(e) + Total(taken)
        /\ Total(work.executors) >= Total(c) + Total(orders)
        /\ \A p \in Pairs : /\ work.asset[p] >= e[p] + taken[p]
                            /\ work.executors[p] >= c[p] + orders[p]
    BY DEF Has
  <1>3. x[1] \in Pairs /\ n \in Int /\ d \in Int
    BY PlacesAre
  <1>4. /\ new.asset = [work.asset EXCEPT ![x[1]] = @ + d]
        /\ new.gross = work.gross + d
        /\ new.executors = [work.executors EXCEPT ![x[1]] = @ + n]
    BY DEF Adds
  <1> HIDE DEF taken, orders
  <1>5. Total(new.executors) = Total(work.executors) + n /\ Total(work.executors) \in Int
    <2>1. Total([work.executors EXCEPT ![x[1]] = @ + n]) = Total(work.executors) + n
      BY <1>2, <1>3, SumsChange
    <2> QED BY <1>2, <1>4, <2>1, TotalIs
  <1>6. new.asset \in [Pairs -> Int] /\ new.gross \in Int /\ new.executors \in [Pairs -> Int]
    BY <1>2, <1>3, <1>4
  <1>7. /\ new.gross >= Total(e) + Total(taken)
        /\ Total(new.executors) >= Total(c) + Total(orders)
    BY <1>1, <1>2, <1>4, <1>5
  <1>8. \A p \in Pairs : new.asset[p] >= e[p] + taken[p]
    BY <1>1, <1>2, <1>3, <1>4
  <1>9. \A p \in Pairs : new.executors[p] >= c[p] + orders[p]
    BY <1>1, <1>2, <1>3, <1>4
  <1> QED BY <1>6, <1>7, <1>8, <1>9 DEF Has, taken, orders

\* One place more that was judged by the limits.
LEMMA HasOneMore ==
  ASSUME NEW e \in [Pairs -> Int], NEW c \in [Pairs -> Int], NEW through,
         NEW q \in [Places -> Nat], NEW x \in Places, x \notin through,
         NEW work, NEW new, Has(work, e, c, through, q), Adds(new, work, x, q[x], 1),
         NEW gross \in Int, NEW pair \in Int, NEW one \in Int, NEW all \in Int,
         new.gross <= gross, new.asset[x[1]] <= pair,
         work.executors[x[1]] < one, Total(work.executors) < all,
         Keeps(e, c, through, q, gross, pair, one, all), through \subseteq Places
  PROVE /\ Has(new, e, c, through \union {x}, q)
        /\ Keeps(e, c, through \union {x}, q, gross, pair, one, all)
  <1> DEFINE old == ByMarket(through, q)
             count == Count(through)
             taken == ByMarket(through \union {x}, q)
             orders == Count(through \union {x})
             d == q[x]
  <1>1. /\ old \in [Pairs -> Int] /\ count \in [Pairs -> Int]
        /\ Total(old) \in Int /\ Total(count) \in Int /\ Total(e) \in Int /\ Total(c) \in Int
        /\ taken \in [Pairs -> Int] /\ orders \in [Pairs -> Int]
        /\ Total(taken) \in Int /\ Total(orders) \in Int
    BY GateNumbers, TotalIs
  <1>2. /\ work.asset \in [Pairs -> Int] /\ work.gross \in Int /\ work.executors \in [Pairs -> Int]
        /\ work.gross >= Total(e) + Total(old)
        /\ Total(work.executors) >= Total(c) + Total(count)
        /\ \A p \in Pairs : /\ work.asset[p] >= e[p] + old[p]
                            /\ work.executors[p] >= c[p] + count[p]
    BY DEF Has
  <1>3. x[1] \in Pairs /\ d \in Int /\ \A y \in Places : y[1] \in Pairs
    BY PlacesAre
  <1>4. /\ new.asset = [work.asset EXCEPT ![x[1]] = @ + d]
        /\ new.gross = work.gross + d
        /\ new.executors = [work.executors EXCEPT ![x[1]] = @ + 1]
    BY DEF Adds
  <1>5. taken = [old EXCEPT ![x[1]] = @ + d] /\ Total(taken) = Total(old) + d
    BY OnePlaceMore
  <1>6. orders = [count EXCEPT ![x[1]] = @ + 1] /\ Total(orders) = Total(count) + 1
    <2>1. Ones \in [Places -> Int] /\ Ones[x] = 1
      BY OnesAre
    <2>2. /\ ByMarket(through \union {x}, Ones)
                = [ByMarket(through, Ones) EXCEPT ![x[1]] = @ + Ones[x]]
          /\ Total(ByMarket(through \union {x}, Ones)) = Total(ByMarket(through, Ones)) + Ones[x]
      BY <2>1, OnePlaceMore
    <2> QED BY <2>1, <2>2 DEF Count
  <1>7. \A y \in through :
          /\ e[y[1]] + old[y[1]] <= pair
          /\ c[y[1]] + count[y[1]] <= one
    BY DEF Keeps
  <1> HIDE DEF old, count, taken, orders, d
  <1>8. Total(new.executors) = Total(work.executors) + 1 /\ Total(work.executors) \in Int
    <2>1. Total([work.executors EXCEPT ![x[1]] = @ + 1]) = Total(work.executors) + 1
      BY <1>2, <1>3, SumsChange
    <2> QED BY <1>2, <1>4, <2>1, TotalIs
  <1>9. new.asset \in [Pairs -> Int] /\ new.gross \in Int /\ new.executors \in [Pairs -> Int]
    BY <1>2, <1>3, <1>4
  <1>10. new.gross >= Total(e) + Total(taken)
    BY <1>1, <1>2, <1>3, <1>4, <1>5
  <1>11. Total(new.executors) >= Total(c) + Total(orders)
    BY <1>1, <1>2, <1>6, <1>8
  <1>12. \A p \in Pairs : new.asset[p] >= e[p] + taken[p]
    BY <1>1, <1>2, <1>3, <1>4, <1>5
  <1>13. \A p \in Pairs : new.executors[p] >= c[p] + orders[p]
    BY <1>1, <1>2, <1>3, <1>4, <1>6
  <1>14. /\ Total(e) + Total(taken) <= gross
         /\ Total(c) + Total(orders) <= all
    <2>1. Total(e) + Total(taken) <= gross
      BY <1>1, <1>9, <1>10
    <2>2. Total(c) + Total(orders) <= all
      BY <1>1, <1>2, <1>6, <1>8
    <2> QED BY <2>1, <2>2
  <1>15. e[x[1]] + taken[x[1]] <= pair
    <2>1. /\ e[x[1]] \in Int /\ taken[x[1]] \in Int /\ new.asset[x[1]] \in Int
          /\ new.asset[x[1]] >= e[x[1]] + taken[x[1]]
      BY <1>1, <1>3, <1>9, <1>12
    <2> QED BY <2>1
  <1>16. c[x[1]] + orders[x[1]] <= one
    <2>1. /\ c[x[1]] \in Int /\ orders[x[1]] = count[x[1]] + 1 /\ count[x[1]] \in Int
          /\ work.executors[x[1]] \in Int /\ work.executors[x[1]] >= c[x[1]] + count[x[1]]
      BY <1>1, <1>2, <1>3, <1>6
    <2> QED BY <2>1
  <1>17. ASSUME NEW y \in through \union {x}
         PROVE e[y[1]] + taken[y[1]] <= pair /\ c[y[1]] + orders[y[1]] <= one
    <2>1. CASE y[1] = x[1]
      BY <1>15, <1>16, <2>1
    <2>2. CASE y[1] # x[1]
      <3>1. y \in through /\ y[1] \in Pairs
        BY <1>3, <1>17, <2>2
      <3>2. taken[y[1]] = old[y[1]] /\ orders[y[1]] = count[y[1]]
        BY <1>1, <1>5, <1>6, <2>2, <3>1
      <3> QED BY <1>7, <3>1, <3>2
    <2> QED BY <2>1, <2>2
  <1>18. Has(new, e, c, through \union {x}, q)
    BY <1>9, <1>10, <1>11, <1>12, <1>13 DEF Has, taken, orders
  <1>19. Keeps(e, c, through \union {x}, q, gross, pair, one, all)
    BY <1>14, <1>17 DEF Keeps, taken, orders
  <1> QED BY <1>18, <1>19

\* What has grown by what was let through, and by something besides.
Grows(e, c, e2, c2, through, q, besides, more) ==
  \A p \in Pairs : /\ e2[p] <= e[p] + ByMarket(through, q)[p] + besides[p]
                   /\ c2[p] <= c[p] + Count(through)[p] + more[p]

Within(e2, c2, through, besides, more, gross, pair, one, all) ==
  /\ Total(e2) - Total(besides) <= gross
  /\ Total(c2) - Total(more) <= all
  /\ \A x \in through : /\ e2[x[1]] - besides[x[1]] <= pair
                        /\ c2[x[1]] - more[x[1]] <= one

LEMMA GrownWithin ==
  ASSUME NEW e \in [Pairs -> Int], NEW c \in [Pairs -> Int], NEW through \in SUBSET Places,
         NEW q \in [Places -> Nat], NEW e2 \in [Pairs -> Int], NEW c2 \in [Pairs -> Int],
         NEW besides \in [Pairs -> Int], NEW more \in [Pairs -> Int],
         NEW gross \in Int, NEW pair \in Int, NEW one \in Int, NEW all \in Int,
         Keeps(e, c, through, q, gross, pair, one, all), through # {},
         Grows(e, c, e2, c2, through, q, besides, more)
  PROVE Within(e2, c2, through, besides, more, gross, pair, one, all)
  <1> DEFINE taken == ByMarket(through, q)
             orders == Count(through)
  <1>1. /\ taken \in [Pairs -> Int] /\ orders \in [Pairs -> Int]
        /\ {Total(taken), Total(orders), Total(e), Total(c), Total(e2), Total(c2),
            Total(besides), Total(more)} \subseteq Int
    BY GateNumbers, TotalIs
  <1>2. /\ Total(e) + Total(taken) <= gross
        /\ Total(c) + Total(orders) <= all
        /\ \A x \in through : /\ e[x[1]] + taken[x[1]] <= pair
                              /\ c[x[1]] + orders[x[1]] <= one
    BY DEF Keeps
  <1> HIDE DEF taken, orders
  <1>3. /\ Total(e2) <= Total(e) + Total(taken) + Total(besides)
        /\ Total(c2) <= Total(c) + Total(orders) + Total(more)
    <2>1. \A p \in Pairs : e2[p] <= e[p] + taken[p] + besides[p]
      BY DEF taken, Grows
    <2>2. \A p \in Pairs : c2[p] <= c[p] + orders[p] + more[p]
      BY DEF orders, Grows
    <2> QED BY <1>1, <2>1, <2>2, SumsBound
  <1>4. /\ Total(e2) - Total(besides) <= gross
        /\ Total(c2) - Total(more) <= all
    BY <1>1, <1>2, <1>3
  <1>5. ASSUME NEW x \in through
        PROVE e2[x[1]] - besides[x[1]] <= pair /\ c2[x[1]] - more[x[1]] <= one
    <2> DEFINE p == x[1]
    <2>1. p \in Pairs
      BY PlacesAre
    <2>2. e[p] + taken[p] <= pair /\ c[p] + orders[p] <= one
      BY <1>2
    <2> HIDE DEF p
    <2>3. /\ e2[p] <= e[p] + taken[p] + besides[p] /\ c2[p] <= c[p] + orders[p] + more[p]
          /\ {e[p], c[p], e2[p], c2[p], taken[p], orders[p], besides[p], more[p]} \subseteq Int
      BY <1>1, <2>1 DEF taken, orders, Grows
    <2>4. e2[p] - besides[p] <= pair /\ c2[p] - more[p] <= one
      BY <2>2, <2>3
    <2> QED BY <2>4 DEF p
  <1> QED BY <1>4, <1>5 DEF Within

-----------------------------------------------------------------------------
(* The portfolio governor: what it lets through *)

RiskTypeOK == resting \in [Places -> Nat] /\ open \in [Places -> Nat]

\* The entries that would add to the exposure, of places that are free.
NewRisks == {x \in Vacant : Position(x[1]) * Sign(x[2]) >= 0}

Work == [asset : [Pairs -> Int], gross : Int, beta : Int, executors : [Pairs -> Int],
         allowed : SUBSET Places]

\* The working exposure has all in it that rests, is held or has been let through;
\* and where it let new risk through, that is within the limits.
Judged(work, plans) ==
  /\ work \in Work
  /\ Has(work, Exposures, Executors, work.allowed \intersect NewRisks, plans)
  /\ Keeps(Exposures, Executors, work.allowed \intersect NewRisks, plans,
           MaxGross, MaxAsset, AssetExecutors, PortfolioExecutors)

LEMMA NumbersAre ==
  ASSUME RiskTypeOK
  PROVE /\ \A p \in Pairs : Position(p) \in Int /\ Exposures[p] \in Int
        /\ Exposures \in [Pairs -> Int] /\ Executors \in [Pairs -> Int]
        /\ Gross \in Int /\ AllExecutors \in Int
  <1>1. \A p \in Pairs : Position(p) \in Int /\ AssetExposure(p) \in Int
    BY PlacesAre DEF RiskTypeOK, Position, AssetExposure, Absolute
  <1>2. Exposures \in [Pairs -> Int]
    BY <1>1 DEF Exposures
  <1>3. Executors \in [Pairs -> Int]
    BY OnesAre, ByMarketIs DEF Executors, Count
  <1> QED BY <1>1, <1>2, <1>3, TotalIs DEF Gross, AllExecutors

LEMMA NumbersNext ==
  ASSUME RiskTypeOK'
  PROVE Exposures' \in [Pairs -> Int] /\ Executors' \in [Pairs -> Int]
  <1>1. \A p \in Pairs : AssetExposure(p)' \in Int
    BY PlacesAre DEF RiskTypeOK, Position, AssetExposure, Absolute
  <1>2. Executors' = ByMarket(Occupied', Ones)
    BY DEF Executors, Count
  <1> QED BY <1>1, <1>2, OnesAre, ByMarketIs DEF Exposures

LEMMA PlansAre == \A plans \in Plans : plans \in [Places -> Nat]
  <1>1. Notionals \union {0} \subseteq Nat
    BY RiskAssumption
  <1> QED BY <1>1 DEF Plans

\* What an entry that is let through changes.
Through(work, x, delta, n, beta) ==
  [Changed(work, x, delta, n, beta) EXCEPT !.allowed = @ \union {x}]

IsThrough(candidate, new, work, x, delta, n) ==
  /\ new \in Work
  /\ Adds(new, work, x, delta, n)
  /\ new.allowed = work.allowed \union {x}
  /\ candidate.gross = new.gross
  /\ candidate.asset = new.asset

LEMMA ChangedIs ==
  ASSUME NEW work \in Work, NEW x \in Places, NEW delta \in Int, NEW n \in Int,
         NEW beta \in [Pairs -> Int]
  PROVE IsThrough(Changed(work, x, delta, n, beta), Through(work, x, delta, n, beta),
                  work, x, delta, n)
  <1> DEFINE candidate == Changed(work, x, delta, n, beta)
             new == Through(work, x, delta, n, beta)
  <1>1. delta * beta[x[1]] * Sign(x[2]) \in Int
    <2>1. beta[x[1]] \in Int /\ Sign(x[2]) \in Int
      BY PlacesAre
    <2>2. \A a, b \in Int : a * b \in Int
      OBVIOUS
    <2> QED BY <2>1, <2>2
  <1> DEFINE b == delta * beta[x[1]] * Sign(x[2])
  <1> HIDE DEF b
  <1>2. b \in Int
    BY <1>1 DEF b
  <1>3. candidate = [work EXCEPT !.asset[x[1]] = @ + delta, !.gross = @ + delta, !.beta = @ + b,
                                 !.executors[x[1]] = @ + n]
    BY DEF Changed, b
  <1>4. /\ x[1] \in Pairs
        /\ work = [asset |-> work.asset, gross |-> work.gross, beta |-> work.beta,
                   executors |-> work.executors, allowed |-> work.allowed]
        /\ work.asset \in [Pairs -> Int] /\ work.executors \in [Pairs -> Int]
        /\ work.gross \in Int /\ work.beta \in Int /\ work.allowed \subseteq Places
    BY PlacesAre DEF Work
  <1>5. candidate = [asset |-> [work.asset EXCEPT ![x[1]] = @ + delta],
                     gross |-> work.gross + delta, beta |-> work.beta + b,
                     executors |-> [work.executors EXCEPT ![x[1]] = @ + n],
                     allowed |-> work.allowed]
    BY <1>3, <1>4
  <1> DEFINE assets == [work.asset EXCEPT ![x[1]] = @ + delta]
             counts == [work.executors EXCEPT ![x[1]] = @ + n]
             places == work.allowed \union {x}
  <1>6. /\ assets \in [Pairs -> Int] /\ counts \in [Pairs -> Int] /\ places \subseteq Places
        /\ work.gross + delta \in Int /\ work.beta + b \in Int
    BY <1>2, <1>4
  <1>7. /\ candidate = [asset |-> assets, gross |-> work.gross + delta, beta |-> work.beta + b,
                        executors |-> counts, allowed |-> work.allowed]
        /\ new = [candidate EXCEPT !.allowed = places]
    <2>1. new = [candidate EXCEPT !.allowed = candidate.allowed \union {x}]
      BY DEF Through
    <2> HIDE DEF assets, counts
    <2>2. candidate = [asset |-> assets, gross |-> work.gross + delta, beta |-> work.beta + b,
                       executors |-> counts, allowed |-> work.allowed]
      BY <1>5 DEF assets, counts
    <2>3. candidate.allowed = work.allowed
      BY <2>2
    <2> QED BY <2>1, <2>2, <2>3
  <1> HIDE DEF assets, counts, places, candidate, new
  <1>8. new = [asset |-> assets, gross |-> work.gross + delta, beta |-> work.beta + b,
               executors |-> counts, allowed |-> places]
    BY <1>7
  <1>9. new \in Work
    BY <1>6, <1>8 DEF Work
  <1>10. IsThrough(candidate, new, work, x, delta, n)
    BY <1>7, <1>8, <1>9 DEF IsThrough, Adds, assets, counts, places
  <1> QED BY <1>10 DEF candidate, new

LEMMA ConsiderJudged ==
  ASSUME RiskTypeOK, ~Incremental, NEW plans \in Plans, NEW beta \in [Pairs -> Int],
         NEW work, Judged(work, plans), NEW x \in Places
  PROVE Judged(Consider(work, x, plans, beta), plans)
  <1> DEFINE n == IF resting[x] = 0 THEN 1 ELSE 0
             candidate == Changed(work, x, plans[x], n, beta)
             new == Through(work, x, plans[x], n, beta)
             risk == work.allowed \intersect NewRisks
  <1>1. NotionalDelta(x, plans) = plans[x]
    BY DEF NotionalDelta
  <1>2. \/ Consider(work, x, plans, beta) = work
        \/ /\ Consider(work, x, plans, beta) = new
           /\ plans[x] # 0
           /\ RiskReducing(x, plans) \/ ~Blocked(work, candidate, x)
    BY <1>1 DEF Consider, Through
  <1> SUFFICES ASSUME plans[x] # 0, RiskReducing(x, plans) \/ ~Blocked(work, candidate, x)
               PROVE Judged(new, plans)
    BY <1>2
  <1>3. /\ work \in Work /\ plans \in [Places -> Nat] /\ plans[x] \in Nat /\ x[1] \in Pairs
        /\ n \in {0, 1} /\ n \in Int /\ plans[x] \in Int
        /\ Exposures \in [Pairs -> Int] /\ Executors \in [Pairs -> Int]
    BY PlansAre, PlacesAre, NumbersAre DEF Judged
  <1>4. IsThrough(candidate, new, work, x, plans[x], n)
    BY <1>3, ChangedIs
  <1>5. /\ new \in Work /\ Adds(new, work, x, plans[x], n)
        /\ new.allowed = work.allowed \union {x}
        /\ candidate.gross = new.gross /\ candidate.asset = new.asset
    BY <1>4 DEF IsThrough
  <1>6. /\ Has(work, Exposures, Executors, risk, plans)
        /\ Keeps(Exposures, Executors, risk, plans,
                 MaxGross, MaxAsset, AssetExecutors, PortfolioExecutors)
    BY DEF Judged
  <1> HIDE DEF n, candidate, new
  <1>7. CASE x \notin NewRisks \/ x \in work.allowed
    <2>1. new.allowed \intersect NewRisks = risk
      BY <1>5, <1>7
    <2>2. Has(new, Exposures, Executors, risk, plans)
      BY <1>3, <1>5, <1>6, HasStill
    <2> QED BY <1>5, <1>6, <2>1, <2>2 DEF Judged
  <1>8. CASE x \in NewRisks /\ x \notin work.allowed
    <2>1. new.allowed \intersect NewRisks = risk \union {x} /\ x \notin risk /\ risk \subseteq Places
      BY <1>5, <1>8 DEF Judged, Work
    <2>2. ~RiskReducing(x, plans) /\ n = 1
      BY <1>1, <1>3, <1>8, NumbersAre, PlacesAre DEF RiskReducing, NewRisks, Vacant, n
    <2>3. /\ ~(new.asset[x[1]] > MaxAsset) /\ ~(new.gross > MaxGross)
          /\ ~(work.executors[x[1]] >= AssetExecutors)
          /\ ~(Total(work.executors) >= PortfolioExecutors)
      BY <1>5, <2>2 DEF Blocked
    <2>4. /\ {MaxGross, MaxAsset, AssetExecutors, PortfolioExecutors} \subseteq Int
          /\ new.gross \in Int /\ new.asset[x[1]] \in Int /\ work.executors[x[1]] \in Int
          /\ Total(work.executors) \in Int
      BY <1>3, <1>5, TotalIs, RiskAssumption DEF Work
    <2>5. /\ new.gross <= MaxGross /\ new.asset[x[1]] <= MaxAsset
          /\ work.executors[x[1]] < AssetExecutors /\ Total(work.executors) < PortfolioExecutors
      BY <2>3, <2>4
    <2>6. Adds(new, work, x, plans[x], 1)
      BY <1>5, <2>2
    <2> HIDE DEF risk
    <2>7. /\ Has(new, Exposures, Executors, risk \union {x}, plans)
          /\ Keeps(Exposures, Executors, risk \union {x}, plans,
                   MaxGross, MaxAsset, AssetExecutors, PortfolioExecutors)
      BY <1>3, <1>6, <2>1, <2>4, <2>5, <2>6, HasOneMore
    <2> QED BY <1>5, <2>1, <2>7 DEF Judged
  <1> QED BY <1>7, <1>8

\* What has been considered after each market is what its definition says.
ConsideredTo(plans, beta, n, w) ==
  w = [i \in 0..n |-> IF i = 0 THEN BeforeProposals(plans, beta)
                      ELSE Consider(Consider(w[i - 1], Buy(Markets[i]), plans, beta),
                                    Sell(Markets[i]), plans, beta)]

LEMMA ConsideredExists ==
  ASSUME NEW plans, NEW beta
  PROVE ConsideredTo(plans, beta, N, Considered(plans, beta))
  <1> DEFINE Step(w, i) == Consider(Consider(w, Buy(Markets[i]), plans, beta),
                                    Sell(Markets[i]), plans, beta)
             S == {n \in Nat : \E w : ConsideredTo(plans, beta, n, w)}
  <1>1. 0 \in S
    <2>1. ConsideredTo(plans, beta, 0, [i \in 0..0 |-> BeforeProposals(plans, beta)])
      BY DEF ConsideredTo
    <2> QED BY <2>1
  <1>2. ASSUME NEW n \in Nat, n \in S PROVE n + 1 \in S
    <2>1. PICK w : ConsideredTo(plans, beta, n, w)
      BY <1>2
    <2> DEFINE t == [i \in 0..(n + 1) |-> IF i = n + 1 THEN Step(w[n], n + 1) ELSE w[i]]
    <2>2. \A i \in 0..n : w[i] = IF i = 0 THEN BeforeProposals(plans, beta) ELSE Step(w[i - 1], i)
      BY <2>1 DEF ConsideredTo
    <2> HIDE DEF Step
    <2>3. \A i \in 0..(n + 1) : t[i] = IF i = 0 THEN BeforeProposals(plans, beta)
                                       ELSE Step(t[i - 1], i)
      BY <2>2
    <2>4. ConsideredTo(plans, beta, n + 1, t)
      BY <2>3 DEF ConsideredTo, Step
    <2> QED BY <2>4
  <1>3. N \in S
    <2> HIDE DEF S
    <2>1. \A i \in 0..(N - 1) : i \in S => i + 1 \in S
      BY <1>2, MarketsAre
    <2>2. N \in Nat
      BY MarketsAre
    <2>3. 0..N \subseteq S
      BY <1>1, <2>1, <2>2, UpTo
    <2> QED BY <2>2, <2>3
  <1>4. PICK w : ConsideredTo(plans, beta, N, w)
    BY <1>3
  <1> QED BY <1>4 DEF ConsideredTo, Considered, N

\* Nothing is let through at first.
LEMMA BaseJudged ==
  ASSUME RiskTypeOK, NEW plans \in Plans, NEW beta \in [Pairs -> Int]
  PROVE Judged(BaseExposure(beta), plans)
  <1> DEFINE base == BaseExposure(beta)
             value == [p \in Pairs |-> beta[p] * (Position(p) + resting[Buy(p)] - resting[Sell(p)])]
  <1>1. value \in [Pairs -> Int]
    <2> SUFFICES ASSUME NEW p \in Pairs
                 PROVE beta[p] * (Position(p) + resting[Buy(p)] - resting[Sell(p)]) \in Int
      OBVIOUS
    <2>1. /\ beta[p] \in Int
          /\ Position(p) + resting[Buy(p)] - resting[Sell(p)] \in Int
      BY NumbersAre, PlacesAre DEF RiskTypeOK
    <2>2. \A a, b \in Int : a * b \in Int
      OBVIOUS
    <2> QED BY <2>1, <2>2
  <1>2. base = [asset |-> Exposures, gross |-> Gross, beta |-> Total(value),
                executors |-> Executors, allowed |-> {}]
    BY DEF BaseExposure
  <1> HIDE DEF base, value
  <1>3. Total(value) \in Int
    BY <1>1, TotalIs
  <1>4. base \in Work
    BY <1>2, <1>3, NumbersAre DEF Work
  <1>5. /\ base.gross = Total(Exposures) /\ base.executors = Executors /\ base.asset = Exposures
        /\ base.allowed \intersect NewRisks = {}
    BY <1>2 DEF Gross
  <1>6. Has(base, Exposures, Executors, {}, plans)
    <2>1. plans \in [Places -> Nat]
      BY PlansAre
    <2>2. Exposures \in [Pairs -> Int] /\ Executors \in [Pairs -> Int]
      BY NumbersAre
    <2> QED BY <1>5, <2>1, <2>2, NothingThrough
  <1>7. Keeps(Exposures, Executors, {}, plans, MaxGross, MaxAsset, AssetExecutors, PortfolioExecutors)
    BY DEF Keeps
  <1>8. Judged(base, plans)
    BY <1>4, <1>5, <1>6, <1>7 DEF Judged
  <1> QED BY <1>8 DEF base

\* What has been considered in the end.
LEMMA AllJudged ==
  ASSUME RiskTypeOK, ~Incremental, NEW plans \in Plans, NEW beta \in [Pairs -> Int]
  PROVE Judged(Considered(plans, beta)[N], plans)
  <1> DEFINE w == Considered(plans, beta)
             S == {i \in 0..N : Judged(w[i], plans)}
  <1>1. \A i \in 0..N : w[i] = IF i = 0 THEN BeforeProposals(plans, beta)
                               ELSE Consider(Consider(w[i - 1], Buy(Markets[i]), plans, beta),
                                             Sell(Markets[i]), plans, beta)
    <2>1. ConsideredTo(plans, beta, N, w)
      BY ConsideredExists
    <2> HIDE DEF w
    <2> QED BY <2>1 DEF ConsideredTo
  <1> HIDE DEF w
  <1>2. N \in Nat
    BY MarketsAre
  <1>3. 0 \in S
    <2>1. 0 \in 0..N /\ w[0] = BaseExposure(beta)
      BY <1>1, <1>2 DEF BeforeProposals
    <2> QED BY <2>1, BaseJudged
  <1>4. \A i \in 0..(N - 1) : i \in S => i + 1 \in S
    <2> SUFFICES ASSUME NEW i \in 0..(N - 1), i \in S PROVE i + 1 \in S
      OBVIOUS
    <2>1. i + 1 \in 0..N /\ i + 1 # 0 /\ (i + 1) - 1 = i /\ Markets[i + 1] \in Pairs
      BY <1>2, MarketsAre
    <2> DEFINE p == Markets[i + 1]
               once == Consider(w[i], Buy(p), plans, beta)
    <2>2. Buy(p) \in Places /\ Sell(p) \in Places
      BY <2>1, PlacesAre
    <2>3. Judged(w[i], plans)
      OBVIOUS
    <2> HIDE DEF p
    <2>4. Judged(once, plans)
      BY <2>2, <2>3, ConsiderJudged
    <2> HIDE DEF once
    <2>5. Judged(Consider(once, Sell(p), plans, beta), plans)
      BY <2>2, <2>4, ConsiderJudged
    <2>6. w[i + 1] = Consider(once, Sell(p), plans, beta)
      BY <1>1, <2>1 DEF once, p
    <2> QED BY <2>1, <2>5, <2>6
  <1>5. N \in S
    <2> HIDE DEF S
    <2>1. 0..N \subseteq S
      BY <1>2, <1>3, <1>4, UpTo
    <2> QED BY <1>2, <2>1
  <1> QED BY <1>5 DEF w

-----------------------------------------------------------------------------
(* The portfolio governor: a cycle *)

LEMMA RiskTypeKept == RiskTypeOK /\ [RiskNext]_riskVars => RiskTypeOK'
  <1> SUFFICES ASSUME RiskTypeOK, [RiskNext]_riskVars PROVE RiskTypeOK'
    OBVIOUS
  <1>1. CASE Cycle
    <2>1. PICK plans \in Plans :
            \E stops, creates :
               resting' = [x \in Places |-> IF x \in stops THEN 0
                                            ELSE IF x \in creates THEN plans[x] ELSE resting[x]]
      BY <1>1 DEF Cycle
    <2>2. plans \in [Places -> Nat]
      BY PlansAre
    <2> QED BY <1>1, <2>1, <2>2 DEF RiskTypeOK, Cycle
  <1>2. ASSUME NEW x \in Places, EntryFills(x) PROVE RiskTypeOK'
    BY <1>2 DEF EntryFills, RiskTypeOK
  <1>3. ASSUME NEW x \in Places, ExitFills(x) PROVE RiskTypeOK'
    BY <1>3 DEF ExitFills, RiskTypeOK
  <1>4. CASE UNCHANGED riskVars
    BY <1>4 DEF riskVars, RiskTypeOK
  <1> QED BY <1>1, <1>2, <1>3, <1>4 DEF RiskNext

\* What a cycle adds: what was let through, and the hedges.
LEMMA CycleAdds ==
  ASSUME RiskTypeOK, NEW plans \in Plans, NEW routed \in SUBSET Places, NEW stops,
         NEW creates \in SUBSET (routed \intersect Vacant), stops \subseteq Resting,
         resting' = [x \in Places |-> IF x \in stops THEN 0
                                      ELSE IF x \in creates THEN plans[x] ELSE resting[x]],
         open' = open
  PROVE LET risk == routed \intersect NewRisks
        IN  \A x \in Places :
              /\ x \in Increasing => x \in risk
              /\ AmountAt(Places, resting', x) <= AmountAt(Places, resting, x)
                    + AmountAt(risk, plans, x) + AmountAt(Hedges, resting', x)
              /\ AmountAt(Occupied', Ones, x) <= AmountAt(Occupied, Ones, x)
                    + AmountAt(risk, Ones, x) + AmountAt(Hedges, Ones, x)
  <1> DEFINE risk == routed \intersect NewRisks
  <1> SUFFICES ASSUME NEW x \in Places
               PROVE /\ x \in Increasing => x \in risk
                     /\ AmountAt(Places, resting', x) <= AmountAt(Places, resting, x)
                           + AmountAt(risk, plans, x) + AmountAt(Hedges, resting', x)
                     /\ AmountAt(Occupied', Ones, x) <= AmountAt(Occupied, Ones, x)
                           + AmountAt(risk, Ones, x) + AmountAt(Hedges, Ones, x)
    OBVIOUS
  <1>1. plans[x] \in Nat /\ resting[x] \in Nat /\ open[x] \in Nat /\ open'[x] = open[x]
    BY PlansAre DEF RiskTypeOK
  <1>2. resting'[x] = IF x \in stops THEN 0 ELSE IF x \in creates THEN plans[x] ELSE resting[x]
    OBVIOUS
  <1>3. resting'[x] \in Nat
    BY <1>1, <1>2
  <1>4. x \in creates => x \in routed /\ x \in Vacant /\ resting[x] = 0 /\ open[x] = 0
    BY DEF Vacant
  <1>5. x \in Created => /\ x \in creates /\ resting'[x] = plans[x]
                         /\ x \in Increasing <=> x \in NewRisks
    BY <1>2, <1>4 DEF Created, Resting, Increasing, NewRisks
  <1>6. x \in Increasing => x \in Created /\ x \in risk
    BY <1>4, <1>5 DEF Increasing
  <1>7. /\ AmountAt(Places, resting', x) = resting'[x]
        /\ AmountAt(Places, resting, x) = resting[x]
        /\ AmountAt(risk, plans, x) = IF x \in risk THEN plans[x] ELSE 0
        /\ AmountAt(Hedges, resting', x)
              = IF x \in Created /\ x \notin Increasing THEN resting'[x] ELSE 0
        /\ AmountAt(Occupied', Ones, x) = IF resting'[x] > 0 \/ open[x] > 0 THEN 1 ELSE 0
        /\ AmountAt(Occupied, Ones, x) = IF resting[x] > 0 \/ open[x] > 0 THEN 1 ELSE 0
        /\ AmountAt(risk, Ones, x) = IF x \in risk THEN 1 ELSE 0
        /\ AmountAt(Hedges, Ones, x) = IF x \in Created /\ x \notin Increasing THEN 1 ELSE 0
    BY <1>1, OnesAre DEF AmountAt, Hedges, Occupied
  <1>8. x \notin Created => resting'[x] <= resting[x]
    BY <1>1, <1>2, <1>3, <1>4 DEF Created
  <1> HIDE DEF risk
  <1> QED BY <1>1, <1>3, <1>5, <1>6, <1>7, <1>8

\* A cycle keeps the limits.
LEMMA CycleKeepsLimits ==
  ASSUME RiskTypeOK, RiskTypeOK', ~Incremental, Cycle, Increasing # {}
  PROVE GrowthStep
  <1>1. PICK plans \in Plans, beta \in Betas, stops \in SUBSET Resting,
               creates \in SUBSET Vacant :
          /\ creates \subseteq Allowed(plans, beta)
          /\ resting' = [x \in Places |-> IF x \in stops THEN 0
                                          ELSE IF x \in creates THEN plans[x] ELSE resting[x]]
    <2>1. PICK plans \in Plans, beta \in Betas :
            \E stops \in SUBSET Resting, creates \in SUBSET (Allowed(plans, beta) \intersect Vacant) :
               resting' = [x \in Places |-> IF x \in stops THEN 0
                                            ELSE IF x \in creates THEN plans[x] ELSE resting[x]]
      BY DEF Cycle
    <2> QED BY <2>1
  <1> DEFINE work == Considered(plans, beta)[N]
             routed == work.allowed
             risk == routed \intersect NewRisks
             besides == ByMarket(Hedges, resting')
             more == Count(Hedges)
  <1>2. Judged(work, plans)
    BY AllJudged, RiskAssumption
  <1>3. routed = Allowed(plans, beta)
    BY DEF Allowed, N
  <1> HIDE DEF work
  <1>4. /\ routed \in SUBSET Places /\ risk \in SUBSET Places
        /\ Keeps(Exposures, Executors, risk, plans,
                 MaxGross, MaxAsset, AssetExecutors, PortfolioExecutors)
    BY <1>2 DEF Judged, Work
  <1>5. open' = open
    BY DEF Cycle
  <1> HIDE DEF routed
  <1>6. \A x \in Places :
          /\ x \in Increasing => x \in risk
          /\ AmountAt(Places, resting', x) <= AmountAt(Places, resting, x)
                + AmountAt(risk, plans, x) + AmountAt(Hedges, resting', x)
          /\ AmountAt(Occupied', Ones, x) <= AmountAt(Occupied, Ones, x)
                + AmountAt(risk, Ones, x) + AmountAt(Hedges, Ones, x)
    BY <1>1, <1>3, <1>4, <1>5, CycleAdds
  <1> HIDE DEF risk
  <1>7. Increasing \subseteq risk /\ risk # {}
    BY <1>6 DEF Increasing, Created
  <1>8. /\ plans \in [Places -> Nat] /\ plans \in [Places -> Int] /\ Ones \in [Places -> Int]
        /\ resting \in [Places -> Int] /\ resting' \in [Places -> Int]
    BY PlansAre, OnesAre DEF RiskTypeOK
  <1>9. \A p \in Pairs : ByMarket(Places, resting')[p]
          <= ByMarket(Places, resting)[p] + ByMarket(risk, plans)[p] + besides[p]
    BY <1>6, <1>8, AtMostThree
  <1>10. \A p \in Pairs : Executors'[p] <= Executors[p] + Count(risk)[p] + more[p]
    <2>1. \A p \in Pairs : ByMarket(Occupied', Ones)[p]
            <= ByMarket(Occupied, Ones)[p] + ByMarket(risk, Ones)[p] + ByMarket(Hedges, Ones)[p]
      BY <1>6, <1>8, AtMostThree
    <2> QED BY <2>1 DEF Executors, Count
  <1>11. /\ besides \in [Pairs -> Int] /\ more \in [Pairs -> Int]
         /\ Exposures \in [Pairs -> Int] /\ Executors \in [Pairs -> Int]
         /\ Exposures' \in [Pairs -> Int] /\ Executors' \in [Pairs -> Int]
    <2>1. besides \in [Pairs -> Int] /\ more \in [Pairs -> Int]
      BY <1>8, ByMarketIs DEF Count
    <2>2. Exposures' \in [Pairs -> Int] /\ Executors' \in [Pairs -> Int]
      BY NumbersNext
    <2> QED BY <2>1, <2>2, NumbersAre
  <1>12. \A p \in Pairs : Exposures'[p] <= Exposures[p] + ByMarket(risk, plans)[p] + besides[p]
    <2> SUFFICES ASSUME NEW p \in Pairs
                 PROVE Exposures'[p] <= Exposures[p] + ByMarket(risk, plans)[p] + besides[p]
      OBVIOUS
    <2>1. Buy(p) \in Places /\ Sell(p) \in Places
      BY PlacesAre
    <2>2. /\ ByMarket(Places, resting)[p] = resting[Buy(p)] + resting[Sell(p)]
          /\ ByMarket(Places, resting')[p] = resting'[Buy(p)] + resting'[Sell(p)]
      BY <2>1 DEF ByMarket, AmountAt
    <2>3. Position(p)' = Position(p)
      BY <1>5 DEF Position
    <2>4. Absolute(Position(p)) \in Int
      BY NumbersAre DEF Absolute
    <2>5. /\ Exposures[p] = Absolute(Position(p)) + (resting[Buy(p)] + resting[Sell(p)])
          /\ Exposures'[p] = Absolute(Position(p)) + (resting'[Buy(p)] + resting'[Sell(p)])
      <3>1. {resting[Buy(p)], resting[Sell(p)], resting'[Buy(p)], resting'[Sell(p)]} \subseteq Int
        BY <1>8, <2>1
      <3> QED BY <2>3, <2>4, <3>1 DEF Exposures, AssetExposure, Absolute
    <2>6. /\ ByMarket(risk, plans)[p] \in Int /\ besides[p] \in Int
          /\ {resting[Buy(p)], resting[Sell(p)], resting'[Buy(p)], resting'[Sell(p)]} \subseteq Int
      BY <1>8, <1>11, <2>1, ByMarketIs
    <2> HIDE DEF besides
    <2> QED BY <1>9, <2>2, <2>4, <2>5, <2>6
  <1>13. {MaxGross, MaxAsset, AssetExecutors, PortfolioExecutors} \subseteq Int
    BY RiskAssumption
  <1> HIDE DEF besides, more
  <1>14. /\ Total(Exposures') - Total(besides) <= MaxGross
         /\ Total(Executors') - Total(more) <= PortfolioExecutors
         /\ \A x \in risk : /\ Exposures'[x[1]] - besides[x[1]] <= MaxAsset
                            /\ Executors'[x[1]] - more[x[1]] <= AssetExecutors
    <2> DEFINE e2 == Exposures'
               c2 == Executors'
    <2>1. /\ e2 \in [Pairs -> Int] /\ c2 \in [Pairs -> Int]
          /\ Grows(Exposures, Executors, e2, c2, risk, plans, besides, more)
      BY <1>10, <1>11, <1>12 DEF Grows
    <2>2. /\ {MaxGross, MaxAsset, AssetExecutors, PortfolioExecutors} \subseteq Int
          /\ Exposures \in [Pairs -> Int] /\ Executors \in [Pairs -> Int]
          /\ risk \in SUBSET Places /\ plans \in [Places -> Nat]
      BY <1>4, <1>8, <1>11, <1>13
    <2> HIDE DEF e2, c2
    <2>3. Within(e2, c2, risk, besides, more, MaxGross, MaxAsset, AssetExecutors, PortfolioExecutors)
      BY <1>4, <1>7, <1>11, <2>1, <2>2, GrownWithin
    <2> QED BY <2>3 DEF e2, c2, Within
  <1>15. Gross' = Total(Exposures') /\ AllExecutors' = Total(Executors')
    BY DEF Gross, AllExecutors
  <1> QED BY <1>7, <1>14, <1>15 DEF GrowthStep, besides, more

-----------------------------------------------------------------------------
\* PortfolioRiskGovernor.evaluate in ShadowSession.run_cycle: where pending exposure
\* is not incremental (the default), whatever fills, exits and is taken back between
\* the cycles, a cycle that creates an entry which is no hedge leaves the gross
\* exposure, that of its market and the numbers of executors within their limits,
\* but for the hedges created with it.
THEOREM GrowthIsLimited == ~Incremental => (RiskSpec => GrowthWithinLimits)
  <1> SUFFICES ASSUME ~Incremental PROVE RiskSpec => GrowthWithinLimits
    OBVIOUS
  <1>1. RiskInit => RiskTypeOK
    BY DEF RiskInit, RiskTypeOK
  <1>2. RiskTypeOK /\ [RiskNext]_riskVars => GrowthStep
    <2> SUFFICES ASSUME RiskTypeOK, [RiskNext]_riskVars, Increasing # {} PROVE GrowthStep
      BY DEF GrowthStep
    <2>1. PICK y \in Places : resting[y] = 0 /\ resting'[y] > 0
      BY DEF Increasing, Created
    <2>2. CASE Cycle
      BY <2>2, RiskTypeKept, CycleKeepsLimits DEF GrowthStep
    <2>3. ASSUME NEW x \in Places, EntryFills(x) PROVE FALSE
      BY <2>1, <2>3 DEF EntryFills, RiskTypeOK
    <2>4. ASSUME NEW x \in Places, ExitFills(x) PROVE FALSE
      BY <2>1, <2>4 DEF ExitFills, RiskTypeOK
    <2>5. CASE UNCHANGED riskVars
      BY <2>1, <2>5 DEF riskVars, RiskTypeOK
    <2> QED BY <2>2, <2>3, <2>4, <2>5 DEF RiskNext
  <1> QED BY <1>1, <1>2, RiskTypeKept, PTL DEF RiskSpec, GrowthWithinLimits

-----------------------------------------------------------------------------
(* The portfolio controller: what passes its gate *)

ControllerTypeOK ==
  /\ executors \in [Places -> [phase : {"none", "resting", "filled"}, notional : Nat,
                               stopping : BOOLEAN]]
  /\ position \in [Pairs -> Int]
  /\ last_health \in [Pairs -> Healths]

\* The places where an entry would be no hedge, and the exposure, for what is
\* read of the positions.
Unhedged(positions) == {x \in Places : Effective(positions, x[1]) * Sign(x[2]) >= 0}
ExposedBy(positions) == [p \in Pairs |-> Absolute(positions[p]) + Pending[p]]

Weight == [asset : [Pairs -> Int], gross : Int, beta : Int, pending : Int,
           executors : [Pairs -> Int], allowed : SUBSET Places]

\* The working exposure has all in it that is held, waits or has passed; and where
\* it let an entry pass that is no hedge, that is within the limits.
Weighed(positions, work, proposed) ==
  LET through == work.allowed \intersect Unhedged(positions)
      taken == ByMarket(through, proposed)
  IN  /\ work \in Weight
      /\ \A x \in work.allowed : proposed[x] # 0
      /\ Has(work, ExposedBy(positions), Count(Active), through, proposed)
      /\ Keeps(ExposedBy(positions), Count(Active), through, proposed,
               GrossLimit, PairLimit, PairExecutors, AllowedExecutors)
      /\ work.pending >= Total(Pending) + Total(taken)
      /\ through # {} => Total(Pending) + Total(taken) <= Collateral

LEMMA HoldingsAre ==
  ASSUME ControllerTypeOK
  PROVE /\ QuoteOf \in [Places -> Int]
        /\ Pending \in [Pairs -> Int] /\ Total(Pending) \in Int
        /\ Count(Active) \in [Pairs -> Int]
        /\ ReadPositions \in [Pairs -> Int] /\ Exposed \in [Pairs -> Int]
  <1>1. QuoteOf \in [Places -> Int]
    BY DEF ControllerTypeOK, QuoteOf
  <1>2. Pending \in [Pairs -> Int]
    BY <1>1, ByMarketIs DEF Pending
  <1>3. ReadPositions \in [Pairs -> Int]
    BY DEF ControllerTypeOK, ReadPositions
  <1>4. Exposed \in [Pairs -> Int]
    <2>1. \A p \in Pairs : Absolute(ReadPositions[p]) \in Int
      BY <1>3 DEF Absolute
    <2> QED BY <1>2, <2>1 DEF Exposed
  <1>5. Count(Active) \in [Pairs -> Int]
    BY OnesAre, ByMarketIs DEF Count
  <1> QED BY <1>1, <1>2, <1>3, <1>4, <1>5, TotalIs

LEMMA ExposedByIs ==
  ASSUME ControllerTypeOK, NEW positions \in [Pairs -> Int]
  PROVE /\ ExposedBy(positions) \in [Pairs -> Int]
        /\ \A p \in Pairs : Effective(positions, p) \in Int
  <1>1. QuoteOf \in [Places -> Int] /\ Pending \in [Pairs -> Int]
    BY HoldingsAre
  <1>2. \A p \in Pairs : Absolute(positions[p]) \in Int
    BY DEF Absolute
  <1>3. ASSUME NEW p \in Pairs PROVE Effective(positions, p) \in Int
    <2>1. /\ AmountAt(Waiting, QuoteOf, Buy(p)) \in Int
          /\ AmountAt(Waiting, QuoteOf, Sell(p)) \in Int
      BY <1>1, ByMarketIs, PlacesAre
    <2> QED BY <2>1 DEF Effective
  <1> QED BY <1>1, <1>2, <1>3 DEF ExposedBy

LEMMA HoldingsNext ==
  ASSUME ControllerTypeOK'
  PROVE /\ QuoteOf' \in [Places -> Int] /\ Pending' \in [Pairs -> Int]
        /\ ReadPositions' \in [Pairs -> Int] /\ Exposed' \in [Pairs -> Int]
  <1>1. QuoteOf' \in [Places -> Int]
    BY DEF ControllerTypeOK, QuoteOf
  <1>2. Pending' = ByMarket(Waiting', QuoteOf')
    BY DEF Pending
  <1>3. Pending' \in [Pairs -> Int]
    BY <1>1, <1>2, ByMarketIs
  <1>4. ReadPositions' \in [Pairs -> Int]
    BY DEF ControllerTypeOK, ReadPositions
  <1>5. \A p \in Pairs : Absolute(ReadPositions'[p]) \in Int
    BY <1>4 DEF Absolute
  <1> QED BY <1>1, <1>3, <1>4, <1>5 DEF Exposed

\* What an entry that passes changes.
LEMMA WithIs ==
  ASSUME NEW work \in Weight, NEW x \in Places, NEW quote \in Int
  PROVE /\ With(work, x, quote) \in Weight
        /\ Adds(With(work, x, quote), work, x, quote, 1)
        /\ With(work, x, quote).pending = work.pending + quote
        /\ With(work, x, quote).allowed = work.allowed \union {x}
  <1> DEFINE new == With(work, x, quote)
             b == quote * Beta[x[1]] * Sign(x[2])
             assets == [work.asset EXCEPT ![x[1]] = @ + quote]
             counts == [work.executors EXCEPT ![x[1]] = @ + 1]
             places == work.allowed \union {x}
  <1>1. b \in Int
    <2>1. Beta[x[1]] \in Int /\ Sign(x[2]) \in Int
      BY PlacesAre, ControllerAssumption
    <2>2. \A i, j \in Int : i * j \in Int
      OBVIOUS
    <2> QED BY <2>1, <2>2
  <1>2. /\ x[1] \in Pairs
        /\ work = [asset |-> work.asset, gross |-> work.gross, beta |-> work.beta,
                   pending |-> work.pending, executors |-> work.executors,
                   allowed |-> work.allowed]
        /\ work.asset \in [Pairs -> Int] /\ work.executors \in [Pairs -> Int]
        /\ work.gross \in Int /\ work.beta \in Int /\ work.pending \in Int
        /\ work.allowed \subseteq Places
    BY PlacesAre DEF Weight
  <1>3. new = [work EXCEPT !.asset[x[1]] = @ + quote, !.gross = @ + quote,
                           !.pending = @ + quote, !.beta = @ + b,
                           !.executors[x[1]] = @ + 1, !.allowed = @ \union {x}]
    BY DEF With
  <1> HIDE DEF b, new
  <1>4. new = [asset |-> assets, gross |-> work.gross + quote, beta |-> work.beta + b,
               pending |-> work.pending + quote, executors |-> counts, allowed |-> places]
    BY <1>2, <1>3
  <1>5. /\ assets \in [Pairs -> Int] /\ counts \in [Pairs -> Int] /\ places \subseteq Places
        /\ work.gross + quote \in Int /\ work.beta + b \in Int /\ work.pending + quote \in Int
    BY <1>1, <1>2
  <1> HIDE DEF assets, counts, places
  <1>6. new \in Weight
    BY <1>4, <1>5 DEF Weight
  <1>7. /\ new.asset = assets /\ new.gross = work.gross + quote /\ new.executors = counts
        /\ new.pending = work.pending + quote /\ new.allowed = places
    BY <1>4
  <1>8. Adds(new, work, x, quote, 1)
    BY <1>7 DEF Adds, assets, counts
  <1> QED BY <1>6, <1>7, <1>8 DEF new, places

LEMMA EvaluateWeighed ==
  ASSUME ControllerTypeOK, NEW positions \in [Pairs -> Int], NEW proposed \in [Places -> Nat],
         NEW work, Weighed(positions, work, proposed), NEW x \in Places
  PROVE Weighed(positions, Evaluate(positions, work, x, proposed), proposed)
  <1> DEFINE new == With(work, x, proposed[x])
             through == work.allowed \intersect Unhedged(positions)
             count == Count(Active)
  <1>1. \/ Evaluate(positions, work, x, proposed) = work
        \/ /\ Evaluate(positions, work, x, proposed) = new
           /\ proposed[x] # 0
           /\ Reducing(positions, x) \/ ~OverLimit(work, new, x)
    BY DEF Evaluate
  <1> SUFFICES ASSUME proposed[x] # 0, Reducing(positions, x) \/ ~OverLimit(work, new, x)
               PROVE Weighed(positions, new, proposed)
    BY <1>1
  <1>2. /\ work \in Weight /\ proposed[x] \in Nat /\ proposed[x] \in Int /\ x[1] \in Pairs
        /\ ExposedBy(positions) \in [Pairs -> Int] /\ count \in [Pairs -> Int]
        /\ Total(Pending) \in Int
        /\ Effective(positions, x[1]) \in Int
    BY PlacesAre, HoldingsAre, ExposedByIs DEF Weighed
  <1>3. /\ new \in Weight /\ Adds(new, work, x, proposed[x], 1)
        /\ new.pending = work.pending + proposed[x]
        /\ new.allowed = work.allowed \union {x}
    BY <1>2, WithIs
  <1>4. /\ \A y \in work.allowed : proposed[y] # 0
        /\ Has(work, ExposedBy(positions), count, through, proposed)
        /\ Keeps(ExposedBy(positions), count, through, proposed,
                 GrossLimit, PairLimit, PairExecutors, AllowedExecutors)
        /\ work.pending >= Total(Pending) + Total(ByMarket(through, proposed))
        /\ through # {} => Total(Pending) + Total(ByMarket(through, proposed)) <= Collateral
    BY DEF Weighed
  <1> HIDE DEF new
  <1>5. \A y \in new.allowed : proposed[y] # 0
    BY <1>3, <1>4
  <1>6. Total(ByMarket(through, proposed)) \in Int /\ work.pending \in Int /\ new.pending \in Int
    BY <1>2, <1>3, GateNumbers DEF Weight
  <1>7. CASE x \notin Unhedged(positions) \/ x \in work.allowed
    <2>1. new.allowed \intersect Unhedged(positions) = through
      BY <1>3, <1>7
    <2> HIDE DEF through, count
    <2>2. Has(new, ExposedBy(positions), count, through, proposed)
      BY <1>2, <1>3, <1>4, HasStill
    <2>3. new.pending >= Total(Pending) + Total(ByMarket(through, proposed))
      BY <1>2, <1>3, <1>4, <1>6
    <2> QED BY <1>3, <1>4, <1>5, <2>1, <2>2, <2>3 DEF Weighed, count
  <1>8. CASE x \in Unhedged(positions) /\ x \notin work.allowed
    <2>1. /\ new.allowed \intersect Unhedged(positions) = through \union {x} /\ x \notin through
          /\ through \subseteq Places
      BY <1>2, <1>3, <1>8 DEF Weight
    <2>2. ~Reducing(positions, x)
      <3>1. Effective(positions, x[1]) * Sign(x[2]) >= 0
        BY <1>8 DEF Unhedged
      <3>2. Effective(positions, x[1]) * Sign(x[2]) \in Int
        BY <1>2, PlacesAre
      <3> QED BY <3>1, <3>2 DEF Reducing
    <2>3. /\ ~(new.asset[x[1]] > PairLimit) /\ ~(new.gross > GrossLimit)
          /\ ~(new.pending > Collateral)
          /\ ~(work.executors[x[1]] >= PairExecutors)
          /\ ~(Total(work.executors) >= AllowedExecutors)
      BY <2>2 DEF OverLimit
    <2>4. /\ {GrossLimit, PairLimit, PairExecutors, AllowedExecutors, Collateral} \subseteq Int
          /\ new.gross \in Int /\ new.asset[x[1]] \in Int /\ work.executors[x[1]] \in Int
          /\ Total(work.executors) \in Int
      <3>1. {GrossLimit, PairLimit, PairExecutors, AllowedExecutors, Collateral} \subseteq Nat
        BY ControllerAssumption
      <3>2. /\ new.gross \in Int /\ new.asset[x[1]] \in Int
            /\ work.executors \in [Pairs -> Int] /\ work.executors[x[1]] \in Int
        BY <1>2, <1>3 DEF Weight
      <3> QED BY <3>1, <3>2, TotalIs
    <2>5. /\ new.gross <= GrossLimit /\ new.asset[x[1]] <= PairLimit
          /\ work.executors[x[1]] < PairExecutors /\ Total(work.executors) < AllowedExecutors
          /\ new.pending <= Collateral
      BY <1>6, <2>3, <2>4
    <2> HIDE DEF through, count
    <2>6. /\ Has(new, ExposedBy(positions), count, through \union {x}, proposed)
          /\ Keeps(ExposedBy(positions), count, through \union {x}, proposed,
                   GrossLimit, PairLimit, PairExecutors, AllowedExecutors)
      BY <1>2, <1>3, <1>4, <2>1, <2>4, <2>5, HasOneMore
    <2>7. Total(ByMarket(through \union {x}, proposed))
            = Total(ByMarket(through, proposed)) + proposed[x]
      <3>1. proposed \in [Places -> Int]
        OBVIOUS
      <3> QED BY <2>1, <3>1, OnePlaceMore
    <2>8. /\ new.pending >= Total(Pending) + Total(ByMarket(through \union {x}, proposed))
          /\ Total(Pending) + Total(ByMarket(through \union {x}, proposed)) <= Collateral
      BY <1>2, <1>3, <1>4, <1>6, <2>4, <2>5, <2>7
    <2> QED BY <1>3, <1>5, <2>1, <2>6, <2>8 DEF Weighed, count
  <1> QED BY <1>7, <1>8

\* What has been evaluated after each market is what its definition says.
EvaluatedTo(positions, proposed, n, w) ==
  w = [i \in 0..n |-> IF i = 0 THEN BaseRisk(positions)
                      ELSE Evaluate(positions,
                                    Evaluate(positions, w[i - 1], Buy(Markets[i]), proposed),
                                    Sell(Markets[i]), proposed)]

LEMMA EvaluatedExists ==
  ASSUME NEW positions, NEW proposed
  PROVE EvaluatedTo(positions, proposed, N, Evaluated(positions, proposed))
  <1> DEFINE Step(w, i) == Evaluate(positions, Evaluate(positions, w, Buy(Markets[i]), proposed),
                                    Sell(Markets[i]), proposed)
             S == {n \in Nat : \E w : EvaluatedTo(positions, proposed, n, w)}
  <1>1. 0 \in S
    <2>1. EvaluatedTo(positions, proposed, 0, [i \in 0..0 |-> BaseRisk(positions)])
      BY DEF EvaluatedTo
    <2> QED BY <2>1
  <1>2. ASSUME NEW n \in Nat, n \in S PROVE n + 1 \in S
    <2>1. PICK w : EvaluatedTo(positions, proposed, n, w)
      BY <1>2
    <2> DEFINE t == [i \in 0..(n + 1) |-> IF i = n + 1 THEN Step(w[n], n + 1) ELSE w[i]]
    <2>2. \A i \in 0..n : w[i] = IF i = 0 THEN BaseRisk(positions) ELSE Step(w[i - 1], i)
      BY <2>1 DEF EvaluatedTo
    <2> HIDE DEF Step
    <2>3. \A i \in 0..(n + 1) : t[i] = IF i = 0 THEN BaseRisk(positions) ELSE Step(t[i - 1], i)
      BY <2>2
    <2>4. EvaluatedTo(positions, proposed, n + 1, t)
      BY <2>3 DEF EvaluatedTo, Step
    <2> QED BY <2>4
  <1>3. N \in S
    <2> HIDE DEF S
    <2>1. \A i \in 0..(N - 1) : i \in S => i + 1 \in S
      BY <1>2, MarketsAre
    <2>2. N \in Nat
      BY MarketsAre
    <2>3. 0..N \subseteq S
      BY <1>1, <2>1, <2>2, UpTo
    <2> QED BY <2>2, <2>3
  <1>4. PICK w : EvaluatedTo(positions, proposed, N, w)
    BY <1>3
  <1> QED BY <1>4 DEF EvaluatedTo, Evaluated, N

\* Nothing has passed at first.
LEMMA BaseWeighed ==
  ASSUME ControllerTypeOK, NEW positions \in [Pairs -> Int], NEW proposed \in [Places -> Nat]
  PROVE Weighed(positions, BaseRisk(positions), proposed)
  <1> DEFINE base == BaseRisk(positions)
             value == [p \in Pairs |-> Effective(positions, p) * Beta[p]]
  <1>1. value \in [Pairs -> Int]
    <2> SUFFICES ASSUME NEW p \in Pairs PROVE Effective(positions, p) * Beta[p] \in Int
      OBVIOUS
    <2>1. Effective(positions, p) \in Int /\ Beta[p] \in Int
      BY ExposedByIs, ControllerAssumption
    <2>2. \A i, j \in Int : i * j \in Int
      OBVIOUS
    <2> QED BY <2>1, <2>2
  <1>3. base = [asset |-> ExposedBy(positions), gross |-> Total(ExposedBy(positions)),
                beta |-> Total(value), pending |-> Total(Pending), executors |-> Count(Active),
                allowed |-> {}]
    BY DEF BaseRisk, ExposedBy
  <1> HIDE DEF base, value
  <1>4. /\ ExposedBy(positions) \in [Pairs -> Int] /\ Count(Active) \in [Pairs -> Int]
        /\ Total(Pending) \in Int /\ Total(ExposedBy(positions)) \in Int /\ Total(value) \in Int
    BY <1>1, HoldingsAre, ExposedByIs, TotalIs
  <1>5. base \in Weight
    BY <1>3, <1>4 DEF Weight
  <1>6. /\ base.gross = Total(ExposedBy(positions)) /\ base.executors = Count(Active)
        /\ base.asset = ExposedBy(positions) /\ base.pending = Total(Pending) /\ base.allowed = {}
    BY <1>3
  <1>7. Has(base, ExposedBy(positions), Count(Active), {}, proposed)
    BY <1>4, <1>6, NothingThrough
  <1>8. Keeps(ExposedBy(positions), Count(Active), {}, proposed,
              GrossLimit, PairLimit, PairExecutors, AllowedExecutors)
    BY DEF Keeps
  <1>9. Total(ByMarket({}, proposed)) = 0
    <2>1. proposed \in [Places -> Int]
      OBVIOUS
    <2> QED BY <2>1, NoPlaces
  <1>10. base.allowed \intersect Unhedged(positions) = {}
    BY <1>6
  <1>11. base.pending >= Total(Pending) + Total(ByMarket({}, proposed))
    BY <1>4, <1>6, <1>9
  <1>12. Weighed(positions, base, proposed)
    BY <1>5, <1>6, <1>7, <1>8, <1>10, <1>11 DEF Weighed
  <1> QED BY <1>12 DEF base

\* What has been evaluated in the end.
LEMMA AllWeighed ==
  ASSUME ControllerTypeOK, NEW positions \in [Pairs -> Int], NEW proposed \in [Places -> Nat]
  PROVE Weighed(positions, Evaluated(positions, proposed)[N], proposed)
  <1> DEFINE w == Evaluated(positions, proposed)
             S == {i \in 0..N : Weighed(positions, w[i], proposed)}
  <1>1. \A i \in 0..N : w[i] = IF i = 0 THEN BaseRisk(positions)
                               ELSE Evaluate(positions,
                                             Evaluate(positions, w[i - 1], Buy(Markets[i]),
                                                      proposed),
                                             Sell(Markets[i]), proposed)
    <2>1. EvaluatedTo(positions, proposed, N, w)
      BY EvaluatedExists
    <2> HIDE DEF w
    <2> QED BY <2>1 DEF EvaluatedTo
  <1> HIDE DEF w
  <1>2. N \in Nat
    BY MarketsAre
  <1>3. 0 \in S
    <2>1. 0 \in 0..N /\ w[0] = BaseRisk(positions)
      BY <1>1, <1>2
    <2> QED BY <2>1, BaseWeighed
  <1>4. \A i \in 0..(N - 1) : i \in S => i + 1 \in S
    <2> SUFFICES ASSUME NEW i \in 0..(N - 1), i \in S PROVE i + 1 \in S
      OBVIOUS
    <2>1. i + 1 \in 0..N /\ i + 1 # 0 /\ (i + 1) - 1 = i /\ Markets[i + 1] \in Pairs
      BY <1>2, MarketsAre
    <2> DEFINE p == Markets[i + 1]
               once == Evaluate(positions, w[i], Buy(p), proposed)
    <2>2. Buy(p) \in Places /\ Sell(p) \in Places
      BY <2>1, PlacesAre
    <2>3. Weighed(positions, w[i], proposed)
      OBVIOUS
    <2> HIDE DEF p
    <2>4. Weighed(positions, once, proposed)
      BY <2>2, <2>3, EvaluateWeighed
    <2> HIDE DEF once
    <2>5. Weighed(positions, Evaluate(positions, once, Sell(p), proposed), proposed)
      BY <2>2, <2>4, EvaluateWeighed
    <2>6. w[i + 1] = Evaluate(positions, once, Sell(p), proposed)
      BY <1>1, <2>1 DEF once, p
    <2> QED BY <2>1, <2>5, <2>6
  <1>5. N \in S
    <2> HIDE DEF S
    <2>1. 0..N \subseteq S
      BY <1>2, <1>3, <1>4, UpTo
    <2> QED BY <1>2, <2>1
  <1> QED BY <1>5 DEF w

-----------------------------------------------------------------------------
(* The portfolio controller: a tick *)

LEMMA ProposedIs ==
  ASSUME NEW stops, NEW paused, NEW proposed \in Proposals(stops, paused)
  PROVE /\ proposed \in [Places -> Nat]
        /\ \A x \in Places : proposed[x] # 0 => x \notin Active
  <1>1. LevelNotionals \union {0} \subseteq Nat
    BY ControllerAssumption
  <1>2. proposed \in [Places -> Nat]
    BY <1>1 DEF Proposals
  <1>3. \A x \in Places : x \notin MissingLevels(stops, paused) => proposed[x] = 0
    BY DEF Proposals
  <1> QED BY <1>2, <1>3 DEF MissingLevels

LEMMA ControllerTypeKept ==
  ControllerTypeOK /\ [ControllerNext]_controllerVars => ControllerTypeOK'
  <1> SUFFICES ASSUME ControllerTypeOK, [ControllerNext]_controllerVars PROVE ControllerTypeOK'
    OBVIOUS
  <1> DEFINE Kinds == [phase : {"none", "resting", "filled"}, notional : Nat, stopping : BOOLEAN]
  <1>1. /\ executors \in [Places -> Kinds] /\ position \in [Pairs -> Int]
        /\ last_health \in [Pairs -> Healths] /\ NoExecutor \in Kinds
    BY DEF ControllerTypeOK, NoExecutor, Executor
  <1>2. CASE ControllerTick
    <2>1. PICK stops, paused, proposed :
            proposed \in Proposals(stops, paused) /\ Carried(stops, proposed)
      BY <1>2 DEF ControllerTick
    <2>2. PICK passed :
            executors' = [x \in Places |->
              IF x \in stops THEN [executors[x] EXCEPT !.stopping = TRUE]
              ELSE IF x \in passed THEN Executor("resting", proposed[x], FALSE)
              ELSE executors[x]]
      BY <2>1 DEF Carried
    <2>3. proposed \in [Places -> Nat]
      BY <2>1, ProposedIs
    <2>4. \A x \in Places : /\ [executors[x] EXCEPT !.stopping = TRUE] \in Kinds
                            /\ Executor("resting", proposed[x], FALSE) \in Kinds
      BY <1>1, <2>3 DEF Executor
    <2>5. executors' \in [Places -> Kinds]
      BY <1>1, <2>2, <2>4
    <2> QED BY <1>1, <1>2, <2>5 DEF ControllerTypeOK, ControllerTick
  <1>3. ASSUME NEW x \in Places, OrderFills(x) PROVE ControllerTypeOK'
    <2>1. /\ executors[x] \in Kinds /\ x[1] \in Pairs
          /\ Sign(x[2]) * executors[x].notional \in Int
      BY <1>1, PlacesAre
    <2>2. [executors[x] EXCEPT !.phase = "filled"] \in Kinds
      BY <2>1
    <2>3. executors' \in [Places -> Kinds]
      BY <1>1, <1>3, <2>2 DEF OrderFills
    <2>4. position' \in [Pairs -> Int]
      BY <1>1, <1>3, <2>1 DEF OrderFills, Moved
    <2> QED BY <1>1, <1>3, <2>3, <2>4 DEF ControllerTypeOK, OrderFills
  <1>4. ASSUME NEW x \in Places, ExecutorExits(x) PROVE ControllerTypeOK'
    <2>1. /\ executors[x] \in Kinds /\ x[1] \in Pairs
          /\ -Sign(x[2]) * executors[x].notional \in Int
      BY <1>1, PlacesAre
    <2>2. executors' \in [Places -> Kinds]
      BY <1>1, <1>4 DEF ExecutorExits
    <2>3. position' \in [Pairs -> Int]
      BY <1>1, <1>4, <2>1 DEF ExecutorExits, Moved
    <2> QED BY <1>1, <1>4, <2>2, <2>3 DEF ControllerTypeOK, ExecutorExits
  <1>5. ASSUME NEW x \in Places, ExecutorCloses(x) PROVE ControllerTypeOK'
    BY <1>1, <1>5 DEF ExecutorCloses, ControllerTypeOK
  <1>6. CASE UNCHANGED controllerVars
    BY <1>6 DEF controllerVars, ControllerTypeOK
  <1> QED BY <1>2, <1>3, <1>4, <1>5, <1>6 DEF ControllerNext

\* What a tick adds: what has passed and is no hedge, and the hedges.
LEMMA TickAdds ==
  ASSUME ControllerTypeOK, NEW positions \in [Pairs -> Int], positions = ReadPositions',
         NEW passed \in SUBSET Places, NEW proposed \in [Places -> Nat], \A x \in passed : x \notin Active,
         executors' = [x \in Places |-> IF x \in passed THEN Executor("resting", proposed[x], FALSE)
                                        ELSE executors[x]]
  PROVE LET through == passed \intersect Unhedged(positions)
        IN  /\ Enlarging = through
            /\ \A x \in Places :
                /\ AmountAt(Waiting', QuoteOf', x) <= AmountAt(Waiting, QuoteOf, x)
                      + AmountAt(through, proposed, x) + AmountAt(Offsetting, QuoteOf', x)
                /\ AmountAt(Active', Ones, x) <= AmountAt(Active, Ones, x)
                      + AmountAt(through, Ones, x) + AmountAt(Offsetting, Ones, x)
  <1> DEFINE through == passed \intersect Unhedged(positions)
  <1>1. \A x \in Places : executors'[x] = IF x \in passed THEN Executor("resting", proposed[x], FALSE)
                                          ELSE executors[x]
    OBVIOUS
  <1>2. NewOrders = passed
    BY <1>1 DEF NewOrders, Executor, Active
  <1>3. \A x \in Places : Effective(positions, x[1]) * Sign(x[2]) \in Int
    <2> SUFFICES ASSUME NEW x \in Places PROVE Effective(positions, x[1]) * Sign(x[2]) \in Int
      OBVIOUS
    <2>1. Effective(positions, x[1]) \in Int
      BY PlacesAre, ExposedByIs
    <2> QED BY <2>1, PlacesAre
  <1>4. Enlarging = through
    <2>1. \A x \in Places : Reducing(ReadPositions', x) <=> Effective(positions, x[1]) * Sign(x[2]) < 0
      BY DEF Reducing, Effective
    <2> QED BY <1>2, <1>3, <2>1 DEF Enlarging, Unhedged
  <1>5. ASSUME NEW x \in Places
        PROVE /\ AmountAt(Waiting', QuoteOf', x) <= AmountAt(Waiting, QuoteOf, x)
                    + AmountAt(through, proposed, x) + AmountAt(Offsetting, QuoteOf', x)
              /\ AmountAt(Active', Ones, x) <= AmountAt(Active, Ones, x)
                    + AmountAt(through, Ones, x) + AmountAt(Offsetting, Ones, x)
    <2>1. /\ QuoteOf[x] = executors[x].notional /\ QuoteOf'[x] = executors'[x].notional
          /\ executors[x].notional \in Int /\ proposed[x] \in Int /\ Ones[x] = 1
      BY OnesAre DEF QuoteOf, ControllerTypeOK
    <2>2. /\ x \in Waiting <=> executors[x].phase = "resting"
          /\ x \in Waiting' <=> executors'[x].phase = "resting"
          /\ x \in Active <=> executors[x].phase # "none"
          /\ x \in Active' <=> executors'[x].phase # "none"
      BY DEF Waiting, Active
    <2>3. CASE x \in passed
      <3>1. executors'[x].phase = "resting" /\ executors'[x].notional = proposed[x]
        BY <1>1, <2>3 DEF Executor
      <3>2. x \notin Active /\ x \notin Waiting
        BY <2>2, <2>3
      <3>3. x \in through \/ x \in Offsetting
        BY <1>2, <1>4, <2>3 DEF Offsetting
      <3>4. /\ AmountAt(Waiting', QuoteOf', x) = proposed[x] /\ AmountAt(Waiting, QuoteOf, x) = 0
            /\ AmountAt(Active', Ones, x) = 1 /\ AmountAt(Active, Ones, x) = 0
        BY <2>1, <2>2, <3>1, <3>2 DEF AmountAt
      <3>5. /\ AmountAt(through, proposed, x) \in {0, proposed[x]}
            /\ AmountAt(Offsetting, QuoteOf', x) \in {0, proposed[x]}
            /\ AmountAt(through, Ones, x) \in {0, 1} /\ AmountAt(Offsetting, Ones, x) \in {0, 1}
        BY <2>1, <3>1 DEF AmountAt
      <3>6. \/ AmountAt(through, proposed, x) = proposed[x] /\ AmountAt(through, Ones, x) = 1
            \/ AmountAt(Offsetting, QuoteOf', x) = proposed[x] /\ AmountAt(Offsetting, Ones, x) = 1
        BY <2>1, <3>1, <3>3 DEF AmountAt
      <3>7. proposed[x] \in Nat
        OBVIOUS
      <3> HIDE DEF through
      <3> QED BY <3>4, <3>5, <3>6, <3>7
    <2>4. CASE x \notin passed
      <3>1. executors'[x] = executors[x]
        BY <1>1, <2>4
      <3>2. x \notin through /\ x \notin Offsetting
        BY <1>2, <2>4 DEF Offsetting
      <3>3. /\ AmountAt(Waiting', QuoteOf', x) = AmountAt(Waiting, QuoteOf, x)
            /\ AmountAt(Active', Ones, x) = AmountAt(Active, Ones, x)
        BY <2>1, <2>2, <3>1 DEF AmountAt
      <3>4. /\ AmountAt(through, proposed, x) = 0 /\ AmountAt(Offsetting, QuoteOf', x) = 0
            /\ AmountAt(through, Ones, x) = 0 /\ AmountAt(Offsetting, Ones, x) = 0
        BY <3>2 DEF AmountAt
      <3>5. AmountAt(Waiting, QuoteOf, x) \in Int /\ AmountAt(Active, Ones, x) \in Int
        BY <2>1 DEF AmountAt
      <3> HIDE DEF through
      <3> QED BY <3>3, <3>4, <3>5
    <2> QED BY <2>3, <2>4
  <1> QED BY <1>4, <1>5

\* A tick keeps the limits.
LEMMA TickKeepsLimits ==
  ASSUME ControllerTypeOK, ControllerTypeOK', ControllerTick, Enlarging # {}
  PROVE SharedStep
  <1>1. PICK stops \in SUBSET Waiting, paused \in SUBSET Pairs :
          /\ IsWithdrawn(stops, paused, last_health')
          /\ \E proposed \in Proposals(stops, paused) : Carried(stops, proposed)
    BY DEF ControllerTick
  <1>2. PICK proposed \in Proposals(stops, paused) : Carried(stops, proposed)
    BY <1>1
  <1>0. PICK positions \in [Pairs -> Int] : positions = ReadPositions'
    BY HoldingsNext
  <1>3. /\ proposed \in [Places -> Nat] /\ proposed \in [Places -> Int]
        /\ \A x \in Places : proposed[x] # 0 => x \notin Active
    BY ProposedIs
  <1>4. stops = {}
    <2> SUFFICES ASSUME stops # {} PROVE FALSE
      OBVIOUS
    <2>1. PICK x \in Places : x \notin Active /\ executors'[x].phase = "resting"
      BY DEF Enlarging, NewOrders
    <2>2. executors'[x] = IF x \in stops THEN [executors[x] EXCEPT !.stopping = TRUE]
                          ELSE executors[x]
      BY <1>2 DEF Carried
    <2>3. x \notin stops
      BY <2>1 DEF Waiting, Active
    <2> QED BY <2>1, <2>2, <2>3 DEF Active
  <1> DEFINE work == Evaluated(positions, proposed)[N]
             passed == work.allowed
             through == passed \intersect Unhedged(positions)
             judged == ExposedBy(positions)
             besides == OffsettingQuotes
             more == Count(Offsetting)
             count == Count(Active)
             taken == ByMarket(through, proposed)
  <1>5. Weighed(positions, work, proposed)
    BY <1>3, AllWeighed
  <1>6. passed = Passed(positions, proposed)
    BY DEF Passed, N
  <1> HIDE DEF work
  <1>7. /\ passed \in SUBSET Places /\ through \in SUBSET Places
        /\ \A x \in passed : proposed[x] # 0
        /\ Keeps(judged, count, through, proposed,
                 GrossLimit, PairLimit, PairExecutors, AllowedExecutors)
        /\ through # {} => Total(Pending) + Total(taken) <= Collateral
    BY <1>5 DEF Weighed, Weight
  <1> HIDE DEF passed
  <1>8. executors' = [x \in Places |-> IF x \in passed THEN Executor("resting", proposed[x], FALSE)
                                       ELSE executors[x]]
    BY <1>0, <1>2, <1>4, <1>6 DEF Carried
  <1>9. \A x \in passed : x \notin Active
    BY <1>3, <1>7
  <1>10. /\ Enlarging = through
        /\ \A x \in Places :
            /\ AmountAt(Waiting', QuoteOf', x) <= AmountAt(Waiting, QuoteOf, x)
                  + AmountAt(through, proposed, x) + AmountAt(Offsetting, QuoteOf', x)
            /\ AmountAt(Active', Ones, x) <= AmountAt(Active, Ones, x)
                  + AmountAt(through, Ones, x) + AmountAt(Offsetting, Ones, x)
    BY <1>0, <1>3, <1>7, <1>8, <1>9, TickAdds
  <1> HIDE DEF through
  <1>11. /\ QuoteOf \in [Places -> Int] /\ QuoteOf' \in [Places -> Int] /\ Ones \in [Places -> Int]
         /\ judged \in [Pairs -> Int] /\ count \in [Pairs -> Int] /\ Pending \in [Pairs -> Int]
         /\ Exposed' \in [Pairs -> Int] /\ Pending' \in [Pairs -> Int]
    BY HoldingsAre, ExposedByIs, HoldingsNext, OnesAre
  <1>12. /\ besides \in [Pairs -> Int] /\ more \in [Pairs -> Int]
         /\ Count(Active') \in [Pairs -> Int] /\ taken \in [Pairs -> Int]
    BY <1>3, <1>11, ByMarketIs DEF Count, OffsettingQuotes
  <1>13. \A p \in Pairs : Pending'[p] <= Pending[p] + taken[p] + besides[p]
    <2>1. \A p \in Pairs : ByMarket(Waiting', QuoteOf')[p] <= ByMarket(Waiting, QuoteOf)[p]
             + ByMarket(through, proposed)[p] + ByMarket(Offsetting, QuoteOf')[p]
      BY <1>3, <1>10, <1>11, AtMostThree
    <2> QED BY <2>1 DEF Pending, OffsettingQuotes
  <1>14. \A p \in Pairs : Count(Active')[p] <= count[p] + Count(through)[p] + more[p]
    <2>1. \A p \in Pairs : ByMarket(Active', Ones)[p] <= ByMarket(Active, Ones)[p]
             + ByMarket(through, Ones)[p] + ByMarket(Offsetting, Ones)[p]
      BY <1>10, <1>11, AtMostThree
    <2> QED BY <2>1 DEF Count
  <1>15. \A p \in Pairs : Exposed'[p] <= judged[p] + taken[p] + besides[p]
    <2> SUFFICES ASSUME NEW p \in Pairs PROVE Exposed'[p] <= judged[p] + taken[p] + besides[p]
      OBVIOUS
    <2>1. Absolute(positions[p]) \in Int
      BY DEF Absolute
    <2>2. judged[p] = Absolute(positions[p]) + Pending[p]
      BY DEF ExposedBy
    <2>3. Exposed'[p] = Absolute(positions[p]) + Pending'[p]
      BY <1>0 DEF Exposed
    <2> HIDE DEF besides, taken, judged
    <2>4. {Pending[p], Pending'[p], taken[p], besides[p]} \subseteq Int
      BY <1>11, <1>12
    <2> QED BY <1>13, <2>1, <2>2, <2>3, <2>4
  <1>16. {GrossLimit, PairLimit, PairExecutors, AllowedExecutors, Collateral} \subseteq Int
    BY ControllerAssumption
  <1>17. Within(Exposed', Count(Active'), through, besides, more,
                GrossLimit, PairLimit, PairExecutors, AllowedExecutors)
    <2> DEFINE e2 == Exposed'
               c2 == Count(Active')
    <2>1. /\ e2 \in [Pairs -> Int] /\ c2 \in [Pairs -> Int]
          /\ Grows(judged, count, e2, c2, through, proposed, besides, more)
      BY <1>11, <1>12, <1>14, <1>15 DEF Grows
    <2> HIDE DEF e2, c2, besides, more, count, taken, judged
    <2>2. Within(e2, c2, through, besides, more,
                 GrossLimit, PairLimit, PairExecutors, AllowedExecutors)
      BY <1>3, <1>7, <1>10, <1>11, <1>12, <1>16, <2>1, GrownWithin
    <2> QED BY <2>2 DEF e2, c2
  <1>18. Total(Pending') - Total(besides) <= Collateral
    <2> DEFINE was == Pending
               is == Pending'
    <2>1. was \in [Pairs -> Int] /\ is \in [Pairs -> Int]
          /\ \A p \in Pairs : is[p] <= was[p] + taken[p] + besides[p]
      BY <1>11, <1>13
    <2>2. Total(was) + Total(taken) <= Collateral
      BY <1>7, <1>10
    <2> HIDE DEF was, is, besides, taken
    <2>3. Total(is) <= Total(was) + Total(taken) + Total(besides)
      BY <1>12, <2>1, SumsBound
    <2>4. {Total(is), Total(was), Total(taken), Total(besides)} \subseteq Int
      BY <1>12, <2>1, TotalIs
    <2>5. Total(is) - Total(besides) <= Collateral
      BY <1>16, <2>2, <2>3, <2>4
    <2> QED BY <2>5 DEF is
  <1>19. \A x \in Enlarging : Exposed'[x[1]] = Absolute(position[x[1]]) + Pending'[x[1]]
    <2> SUFFICES ASSUME NEW x \in Enlarging
                 PROVE Exposed'[x[1]] = Absolute(position[x[1]]) + Pending'[x[1]]
      OBVIOUS
    <2>1. x \in Places /\ x \in passed /\ x[1] \in Pairs
      BY <1>7, <1>10, PlacesAre DEF through
    <2>2. x \in MissingLevels(stops, paused)
      BY <1>7, <2>1 DEF Proposals
    <2>3. x[1] \notin paused
      BY <2>2 DEF MissingLevels
    <2>4. last_health'[x[1]] = "read"
      BY <1>1, <2>1, <2>3 DEF IsWithdrawn
    <2>5. position' = position
      BY DEF ControllerTick
    <2> QED BY <2>1, <2>4, <2>5 DEF Exposed, ReadPositions
  <1>20. ASSUME NEW p \in {x[1] : x \in Enlarging}
         PROVE  /\ Absolute(position[p]) + Pending'[p] - besides[p] <= PairLimit
                /\ Count(Active')[p] - more[p] <= PairExecutors
    <2>1. PICK x \in Enlarging : p = x[1]
      OBVIOUS
    <2> HIDE DEF besides, more
    <2>2. Exposed'[p] - besides[p] <= PairLimit /\ Count(Active')[p] - more[p] <= PairExecutors
      BY <1>10, <1>17, <2>1 DEF Within
    <2>3. Exposed'[p] = Absolute(position[p]) + Pending'[p]
      BY <1>19, <2>1
    <2>4. p \in Pairs /\ {Pending'[p], besides[p]} \subseteq Int
      BY <1>7, <1>10, <1>11, <1>12, <2>1, PlacesAre
    <2>5. Absolute(position[p]) \in Int
      BY <2>4 DEF Absolute, ControllerTypeOK
    <2> QED BY <1>16, <2>2, <2>3, <2>4, <2>5
  <1>21. /\ Total(Exposed') - Total(besides) <= GrossLimit
         /\ Total(Count(Active')) - Total(more) <= AllowedExecutors
    BY <1>17 DEF Within
  <1> QED BY <1>18, <1>20, <1>21 DEF SharedStep

-----------------------------------------------------------------------------
\* evaluate_portfolio_risk in DeriveAdaptiveGridPortfolio: whatever fills, exits and
\* fails between the ticks, and whatever a tick cannot read, one that creates an entry
\* which is no hedge leaves the gross exposure, as far as it was read, and the orders
\* that rest and the executors of all markets together within their limits, but for
\* the hedges created with it; and the exposure and the executors of the entry's market,
\* whose position is read then.
THEOREM SharedLimitsAreKept == ControllerSpec => SharedLimitsWhenSeen
  <1>1. ControllerInit => ControllerTypeOK
    BY DEF ControllerInit, ControllerTypeOK, NoExecutor, Executor, Healths
  <1>2. ControllerTypeOK /\ [ControllerNext]_controllerVars => SharedStep
    <2> SUFFICES ASSUME ControllerTypeOK, [ControllerNext]_controllerVars,
                        Enlarging # {}
                 PROVE SharedStep
      BY DEF SharedStep
    <2>1. PICK y \in Places : executors[y].phase = "none" /\ executors'[y].phase = "resting"
      BY DEF Enlarging, NewOrders, Active
    <2>2. CASE ControllerTick
      BY <2>2, ControllerTypeKept, TickKeepsLimits
    <2>3. ASSUME NEW x \in Places, OrderFills(x) PROVE FALSE
      BY <2>1, <2>3 DEF OrderFills, ControllerTypeOK
    <2>4. ASSUME NEW x \in Places, ExecutorExits(x) PROVE FALSE
      BY <2>1, <2>4 DEF ExecutorExits, ControllerTypeOK, NoExecutor, Executor
    <2>5. ASSUME NEW x \in Places, ExecutorCloses(x) PROVE FALSE
      BY <2>1, <2>5 DEF ExecutorCloses, ControllerTypeOK, NoExecutor, Executor
    <2>6. CASE UNCHANGED controllerVars
      BY <2>1, <2>6 DEF controllerVars
    <2> QED BY <2>2, <2>3, <2>4, <2>5, <2>6 DEF ControllerNext
  <1> QED BY <1>1, <1>2, ControllerTypeKept, PTL DEF ControllerSpec, SharedLimitsWhenSeen
=============================================================================
