----------------------------- MODULE OptionsChain -----------------------------
(***************************************************************************)
(* The options IV provider (DeriveOptionsProvider): the list of contracts, *)
(* which is fetched and kept for a while, the expiry and the strike that   *)
(* are selected from it for the reference price, and the IV that the       *)
(* tickers of the two contracts there give, or the error that is told.     *)
(*                                                                         *)
(* A contract is its expiry, strike and type ("C", "P"); a ticker the IVs  *)
(* it quotes, where 0 is none, and its age, which is negative when its     *)
(* clock is ahead.  The exchange lists and delists meanwhile.              *)
(***************************************************************************)
EXTENDS Integers, FiniteSets, FiniteSetsExt

CONSTANTS
    Listings,                    \* the chains the exchange may list
    Tickers,                     \* what it may say of a contract
    References,                  \* reference prices; 0: there is none
    MinDte, TargetDte, MaxDte,   \* min_, target_, max_days_to_expiry
    MaxDistance,                 \* max_atm_distance_pct, in per cent
    MaxDataAge, MaxSkew,         \* max_option_data_age_seconds, and the 60 of the future
    MaxIv,                       \* max_iv
    RefreshInterval,             \* metadata_refresh_interval_seconds
    MaxNow                       \* bound: the time

\* The bounds of the configuration (DeriveOptionsConfig), and what can be told.
ASSUME DteAssumption == 0 <= MinDte /\ MinDte <= TargetDte /\ TargetDte <= MaxDte

ASSUME ChainAssumption ==
    /\ {MinDte, TargetDte, MaxDte} \subseteq Int /\ References \subseteq Int
    /\ {MaxDataAge, MaxSkew, MaxIv} \subseteq Nat /\ RefreshInterval \in Nat \ {0}
    /\ \A chain \in Listings : \A c \in chain :
         c \in [expiry : Int, strike : Int, type : {"C", "P"}]
    /\ \A t \in Tickers : t \in [mark : Int, bid : Int, ask : Int, age : Int, told : BOOLEAN]

NotFetched == -1                 \* _metadata_fetched_at is None
NoIv == 0
NoTicker == [mark |-> NoIv, bid |-> NoIv, ask |-> NoIv, age |-> 0, told |-> FALSE]

VARIABLES
    today,                       \* the time
    listed,                      \* what the exchange lists
    contracts,                   \* _contracts
    fetched_at,                  \* _metadata_fetched_at
    quote                        \* the last snapshot, and what it was asked for

chainVars == <<today, listed, contracts, fetched_at, quote>>

Unavailable(ref) == [available |-> FALSE, at |-> today, reference |-> ref]
Abs(n) == IF n < 0 THEN -n ELSE n

-----------------------------------------------------------------------------
(* Selection *)

\* parse_active_option_contracts: what is active and not expired.
Future(chain) == {c \in chain : c.expiry > today}

\* _get_contracts: kept ones while they are young, without those that expired.
Kept == fetched_at # NotFetched /\ today - fetched_at < RefreshInterval

InRange(expiry) == MinDte <= expiry - today /\ expiry - today <= MaxDte

Expiries(pool) == {c.expiry : c \in pool}
OfExpiry(pool, expiry) == {c \in pool : c.expiry = expiry}

\* A plausible mistake: an expiry with calls or puts.
EligibleEither(pool) == {e \in Expiries(pool) : InRange(e)}

Eligible(pool) ==
    {e \in Expiries(pool) :
       InRange(e) /\ {"C", "P"} \subseteq {c.type : c \in OfExpiry(pool, e)}}

\* select_expiry: nearest the target, the earlier of two.
SelectExpiry(pool) ==
    LET Off(e) == Abs(e - today - TargetDte)
    IN  CHOOSE e \in Eligible(pool) :
          \A f \in Eligible(pool) : Off(e) < Off(f) \/ (Off(e) = Off(f) /\ e <= f)

\* select_atm_strike: nearest the reference, the lower of two.
SelectStrike(rows, ref) ==
    LET strikes == {c.strike : c \in rows}
        Off(k) == Abs(k - ref)
    IN  CHOOSE k \in strikes :
          \A m \in strikes : Off(k) < Off(m) \/ (Off(k) = Off(m) /\ k <= m)

NearEnough(strike, ref) == 100 * Abs(strike - ref) <= MaxDistance * ref

-----------------------------------------------------------------------------
(* Tickers *)

\* _read_iv, parse_option_ticker: the mark, or the middle, or the one side.
ReadIv(iv) == IF 0 < iv /\ iv <= MaxIv THEN iv ELSE NoIv
TickerIv(t) ==
    LET bid == ReadIv(t.bid)
        ask == ReadIv(t.ask)
    IN  CASE ReadIv(t.mark) # NoIv -> ReadIv(t.mark)
          [] ReadIv(t.mark) = NoIv /\ bid # NoIv /\ ask # NoIv -> (bid + ask) \div 2
          [] OTHER -> Max({bid, ask})

\* build_options_snapshot: a ticker that is there, not old, not far ahead.  (Of the
\* confidence only what the sides make of it.)
Usable(t) == t.told /\ t.age >= -MaxSkew /\ t.age <= MaxDataAge /\ TickerIv(t) # NoIv

Built(ref, expiry, strike, legs, tickers) ==
    LET used == {c \in legs : Usable(tickers[c])}
        ivs == {TickerIv(tickers[c]) : c \in used}
    IN  IF used = {} THEN Unavailable(ref)
        ELSE [available |-> TRUE, at |-> today, reference |-> ref,
              expiry |-> expiry, strike |-> strike, used |-> used,
              iv |-> (Min(ivs) + Max(ivs)) \div 2,
              age |-> Max({0, Min({tickers[c].age : c \in used})}),
              confidence |-> IF Cardinality(used) = 2 THEN 100 ELSE 75]

\* _snapshot_sync once the contracts are there: an error of any step is told as
\* an unavailable snapshot, as is a ticker request that fails.
Observed(pool, ref, answers, tickers) ==
    IF Eligible(pool) = {} \/ ~answers THEN Unavailable(ref)
    ELSE LET expiry == SelectExpiry(pool)
             rows == OfExpiry(pool, expiry)
             strike == SelectStrike(rows, ref)
         IN  IF NearEnough(strike, ref)
             THEN Built(ref, expiry, strike, {c \in rows : c.strike = strike}, tickers)
             ELSE Unavailable(ref)

\* The tickers of the contracts that are still listed.
TickerMaps(pool) ==
    {[c \in pool |-> IF c \notin listed THEN NoTicker ELSE IF c.type = "C" THEN call ELSE put] :
       call \in Tickers, put \in Tickers}

\* snapshot(): without a price nothing is asked for.
AskedWithoutPrice ==
    /\ quote' = Unavailable(0)
    /\ UNCHANGED <<today, listed, contracts, fetched_at>>

AskedOfKept ==
    /\ Kept
    /\ \E ref \in References \ {0}, answers \in BOOLEAN :
         \E tickers \in TickerMaps(Future(contracts)) :
           quote' = Observed(Future(contracts), ref, answers, tickers)
    /\ UNCHANGED <<today, listed, contracts, fetched_at>>

\* The list is fetched; nothing is kept of an empty one, or of an answer that
\* fails, and what was kept before is not used then.
AskedOfFetched ==
    /\ ~Kept
    /\ IF Future(listed) = {}
       THEN quote' = Unavailable(1) /\ UNCHANGED <<contracts, fetched_at>>
       ELSE /\ contracts' = Future(listed) /\ fetched_at' = today
            /\ \E ref \in References \ {0}, answers \in BOOLEAN :
                 \E tickers \in TickerMaps(Future(listed)) :
                   quote' = Observed(Future(listed), ref, answers, tickers)
    /\ UNCHANGED <<today, listed>>

ListingFails ==
    /\ ~Kept /\ quote' = Unavailable(1)
    /\ UNCHANGED <<today, listed, contracts, fetched_at>>

Relisted ==
    /\ listed' \in Listings /\ listed' # listed
    /\ UNCHANGED <<today, contracts, fetched_at, quote>>

TimePasses ==
    /\ today < MaxNow /\ today' = today + 1
    /\ UNCHANGED <<listed, contracts, fetched_at, quote>>

ChainInit ==
    /\ today = 0 /\ listed \in Listings
    /\ contracts = {} /\ fetched_at = NotFetched
    /\ quote = Unavailable(0)

ChainNext ==
    \/ AskedWithoutPrice \/ AskedOfKept \/ AskedOfFetched \/ ListingFails
    \/ Relisted \/ TimePasses

ChainSpec == ChainInit /\ [][ChainNext]_chainVars

-----------------------------------------------------------------------------
\* IV that is told was quoted at the money: for the expiry nearest the target of
\* those in range with calls and puts, at the strike nearest the price and near
\* enough to it, by tickers young enough, from a list that was no older than its
\* interval, whatever has been listed, delisted or has expired since; and full
\* confidence needs both sides (options_iv.py:184-448).
IvIsAtTheMoney ==
    quote.available =>
      LET pool == {c \in contracts : c.expiry > quote.at}
          Dte(e) == e - quote.at
          fit == {e \in Expiries(pool) :
                    /\ MinDte <= Dte(e) /\ Dte(e) <= MaxDte
                    /\ \E c, p \in pool : c.expiry = e /\ p.expiry = e
                                          /\ c.type = "C" /\ p.type = "P"}
      IN  /\ quote.expiry \in fit
          /\ \A e \in fit : Abs(Dte(quote.expiry) - TargetDte) <= Abs(Dte(e) - TargetDte)
          /\ \A c \in pool : c.expiry = quote.expiry
               => Abs(quote.strike - quote.reference) <= Abs(c.strike - quote.reference)
          /\ NearEnough(quote.strike, quote.reference)
          /\ \A c \in quote.used :
               c \in pool /\ c.expiry = quote.expiry /\ c.strike = quote.strike
          /\ quote.at - fetched_at < RefreshInterval
          /\ 0 < quote.iv /\ quote.iv <= MaxIv /\ quote.age <= MaxDataAge
          /\ quote.confidence = 100 => {c.type : c \in quote.used} = {"C", "P"}
================================================================================
