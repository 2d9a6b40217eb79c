---------------------------- MODULE MarketCollector ----------------------------
(***************************************************************************)
(* The Stage 1 collector (integrations/condor/derive_market_snapshot.py):  *)
(* a routine that polls for market snapshots and appends each to a file.   *)
(* A tick makes one request after another, and while it waits the order    *)
(* book, the option tickers and the stream of public trades move on; a     *)
(* reader task counts the trades, and each tick drains what was counted.   *)
(*                                                                         *)
(* Time is kept as ages, in units of which a request takes at most         *)
(* Timeout.  Prices and sizes are left out: a snapshot is what its book    *)
(* and its IV were read from, whether it is valid, and the trades it tells.*)
(***************************************************************************)
EXTENDS Integers

CONSTANTS
    Timeout,                     \* request_timeout_seconds
    Interval,                    \* snapshot_interval_seconds
    MaxAge,                      \* max_data_age_seconds
    MaxOptionAge,                \* max_option_data_age_seconds
    Refresh,                     \* options_metadata_refresh_interval_seconds
    Oldest,                      \* bound: ages are not told apart from here on
    MaxTrades                    \* bound: the trades that are counted and not yet told

NoAge == -1
Requests == {"client", "stream", "diagnostics", "book", "chain", "tickers", "account"}

VARIABLES
    at,                          \* what the tick waits for
    waited,                      \* for how long
    elapsed,                     \* the time since snapshot_now was taken
    tracker, ticker,             \* the ages of the newest order book and option ticker
    chain,                       \* the time since _metadata_fetched_at
    book, iv,                    \* the ages of what the snapshot holds
    valid,                       \* the snapshot has no errors so far
    stream,                      \* RecentTradeCollector: "new", "available" or "unavailable"
    tallied,                     \* _buy_volume and _sell_volume
    window,                      \* the trades drained into the snapshot
    untold,                      \* the trades received that no snapshot on file tells of
    disturbed                    \* the stream ended, or a drained window was not kept

ages == <<elapsed, tracker, ticker, chain, book, iv>>
tradeVars == <<stream, tallied, window, untold, disturbed>>
collectorVars == <<at, waited, ages, valid, tradeVars>>

CollectorInit ==
    /\ at = "client" /\ waited = 0 /\ elapsed = 0
    /\ tracker \in 0..Oldest /\ ticker \in 0..Oldest
    /\ chain = NoAge /\ book = NoAge /\ iv = NoAge
    /\ valid = TRUE
    /\ stream = "new" /\ tallied = 0 /\ window = 0 /\ untold = 0
    /\ disturbed = FALSE

-----------------------------------------------------------------------------
(* Time, the exchange, and the reader task *)

Older(age) == IF age \in {NoAge, Oldest} THEN age ELSE age + 1

Patience == IF at = "sleep" THEN Interval ELSE Timeout

Pass ==
    /\ at \in Requests \union {"sleep"} /\ waited < Patience
    /\ waited' = waited + 1
    /\ elapsed' = Older(elapsed)
    /\ tracker' = Older(tracker) /\ ticker' = Older(ticker) /\ chain' = Older(chain)
    /\ book' = Older(book) /\ iv' = Older(iv)
    /\ UNCHANGED <<at, valid, tradeVars>>

\* The order book tracker or the options market is updated.
Update ==
    /\ at # "stopped"
    /\ \/ tracker' = 0 /\ UNCHANGED ticker
       \/ ticker' = 0 /\ UNCHANGED tracker
    /\ UNCHANGED <<at, waited, elapsed, chain, book, iv, valid, tradeVars>>

\* _reader: a trade is counted.
Trade ==
    /\ stream = "available" /\ at # "stopped" /\ untold < MaxTrades
    /\ tallied' = tallied + 1 /\ untold' = untold + 1
    /\ UNCHANGED <<at, waited, ages, valid, stream, window, disturbed>>

\* _reader: the stream ends; nothing starts it again, or tells of what it counted.
StreamEnds ==
    /\ stream = "available" /\ at # "stopped"
    /\ stream' = "unavailable" /\ disturbed' = TRUE
    /\ UNCHANGED <<at, waited, ages, valid, tallied, window, untold>>

-----------------------------------------------------------------------------
(* run, and collect_snapshot_once *)

Ask(request) == at' = request /\ waited' = 0

\* drain
Drained ==
    IF stream = "available" THEN window' = tallied /\ tallied' = 0
    ELSE window' = 0 /\ UNCHANGED tallied

\* A tick that fails tells of no market, but of the trades since the last drain;
\* those it had drained itself are gone.
TickFails ==
    /\ at \in {"client", "stream", "account"}
    /\ Ask("persist")
    /\ Drained
    /\ disturbed' = (disturbed \/ window > 0)
    /\ valid' = FALSE /\ book' = NoAge /\ iv' = NoAge
    /\ UNCHANGED <<elapsed, tracker, ticker, chain, stream, untold>>

\* snapshot_now = time.time(), and the first request of the snapshot.
Begun ==
    /\ Ask("diagnostics")
    /\ elapsed' = 0 /\ valid' = TRUE
    /\ UNCHANGED <<tracker, ticker, chain, book, iv>>

\* The API client is there; the stream is started once.
GetClient ==
    /\ at = "client"
    /\ IF stream = "new" THEN Ask("stream") /\ UNCHANGED <<ages, valid>> ELSE Begun
    /\ UNCHANGED tradeVars

StartStream ==
    /\ at = "stream"
    /\ stream' \in {"available", "unavailable"}
    /\ Begun
    /\ UNCHANGED <<tallied, window, untold, disturbed>>

\* A plausible mistake: the age of the answer instead of that of the tracker.
AnswerIsRecent == TRUE

\* _diagnostic_errors: the age of the tracker's book, of the time of the answer.
TrackerIsRecent == tracker <= MaxAge

Diagnose ==
    /\ at = "diagnostics"
    /\ valid' \in {FALSE, TrackerIsRecent}
    /\ Ask("book")
    /\ UNCHANGED <<ages, tradeVars>>

\* The book is read, or is missing or crossed; the trades are drained; and the
\* options are asked for, if there is a price to look for a strike with.
ReadBook ==
    /\ at = "book"
    /\ \/ book' = tracker /\ UNCHANGED valid
          /\ Ask(IF chain = NoAge \/ chain - elapsed >= Refresh THEN "chain" ELSE "tickers")
       \/ book' = NoAge /\ valid' = FALSE /\ Ask("account")
    /\ Drained
    /\ UNCHANGED <<elapsed, tracker, ticker, chain, iv, stream, untold, disturbed>>

\* _get_contracts: the option chain is listed anew, as of snapshot_now, or there
\* is no IV, whatever chain there was.
ListChain ==
    /\ at = "chain"
    /\ \/ chain' = elapsed /\ Ask("tickers")
       \/ UNCHANGED chain /\ Ask("account")
    /\ UNCHANGED <<elapsed, tracker, ticker, book, iv, valid, tradeVars>>

\* build_options_snapshot: tickers that were not too old at snapshot_now.
ReadTickers ==
    /\ at = "tickers"
    /\ iv' \in {NoAge} \union {age \in {ticker} : age - elapsed <= MaxOptionAge}
    /\ Ask("account")
    /\ UNCHANGED <<elapsed, tracker, ticker, chain, book, valid, tradeVars>>

\* _collect_account_data: reads that fail leave their fields empty.
ReadAccount ==
    /\ at = "account"
    /\ Ask("persist")
    /\ UNCHANGED <<ages, valid, tradeVars>>

\* append_snapshot; a snapshot that cannot be written is dropped.
Persist ==
    /\ at = "persist"
    /\ \/ untold' = untold - window /\ UNCHANGED disturbed
       \/ disturbed' = (disturbed \/ window > 0) /\ UNCHANGED untold
    /\ window' = 0 /\ book' = NoAge /\ iv' = NoAge
    /\ Ask("sleep")
    /\ UNCHANGED <<elapsed, tracker, ticker, chain, valid, stream, tallied>>

NextTick ==
    /\ at = "sleep"
    /\ Ask("client")
    /\ UNCHANGED <<ages, valid, tradeVars>>

\* Condor cancels the routine where it awaits.
Stop ==
    /\ at \in Requests \union {"sleep"}
    /\ at' = "stopped"
    /\ UNCHANGED <<waited, ages, valid, tradeVars>>

CollectorNext ==
    \/ Pass \/ Update \/ Trade \/ StreamEnds
    \/ GetClient \/ StartStream \/ Diagnose \/ ReadBook
    \/ ListChain \/ ReadTickers \/ ReadAccount \/ TickFails
    \/ Persist \/ NextTick \/ Stop

CollectorSpec == CollectorInit /\ [][CollectorNext]_collectorVars

-----------------------------------------------------------------------------
(* Properties *)

\* However long each request takes and whatever stalls meanwhile: when a valid
\* snapshot is written its book is older than max_data_age_seconds by no more
\* than the requests made since the tracker was asked, its IV by no more than
\* the tick has taken, and so for the chain the strike was chosen from.
WrittenIsFresh ==
    at = "persist" =>
        /\ valid => book # NoAge /\ book <= MaxAge + 4 * Timeout
        /\ iv # NoAge => /\ iv <= MaxOptionAge + 5 * Timeout
                         /\ chain < Refresh + 5 * Timeout

\* Through failed ticks, failed writes and the end of the stream: no trade is
\* told of twice, and as long as none of those happens every trade is told of
\* once or is still to be told of.
TradesToldOnce ==
    /\ tallied + window <= untold
    /\ ~disturbed => untold = tallied + window

\* What a snapshot tells when it is written is as fresh as the requests allow,
\* and none of the trades it tells of was told before (collect_snapshot_once, drain).
WrittenFreshAndOnce == WrittenIsFresh /\ TradesToldOnce
=============================================================================
