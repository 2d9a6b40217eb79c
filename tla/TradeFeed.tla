----------------------------- MODULE TradeFeed -----------------------------
(* The public trades of a shadow session: the websocket task that collects   *)
(* them (DerivePublicTradeWebSocket) and the data source that hands them to  *)
(* the session frame by frame, with a REST window when the socket is down, a *)
(* REST backfill after a reconnection and a REST cross-check at intervals    *)
(* (MainnetPublicDataSource._trades, shadow.py).                             *)
(*                                                                           *)
(* One currency.  The market trades at most once a second, so a trade is the *)
(* second it happened in, which is also its id.  The task runs on the event  *)
(* loop and fetch_frame in a thread of its own, and time passes between the  *)
(* steps of both: a fetch has its "now" before it waits for the task and for *)
(* the instrument and the ticker, and a connection is told as such before it *)
(* is subscribed.  A fetch that raises ends the session.  Left out: the hour *)
(* after which the task forgets a trade, and rows that do not parse.         *)
EXTENDS Integers, FiniteSets

CONSTANTS
    Window,          \* trade_window_seconds
    Overlap,         \* trade_safety_overlap_seconds
    CheckInterval,   \* trade_crosscheck_interval_seconds
    Warmup,          \* max(1, trade_sample_interval_seconds)
    Latency,         \* a trade is received within this time of happening
    Poll,            \* from the "now" of a fetch to its end, and to that of the next
    FaultSets,       \* sets of "clean_end" and "rest_error"
    MaxTime,         \* bound: seconds
    MaxBreaks        \* bound: connections that end and attempts that fail, and the
                     \* kinds of disturbance among them

ASSUME FeedAssumption == {Window, Overlap, CheckInterval, Warmup, Latency, Poll} \subseteq Nat

VARIABLES
    now, trades,     \* the clock, and the trades that have happened
    socket, wire,    \* the connection itself: down, open or subscribed; what is under way
    connection_status, connected_since, reconnect_count,
    received,        \* _trades of the task
    request_end,     \* _last_request_end_epoch, None before the first fetch
    counted,         \* _last_reconnect_count, None before it is first set
    checked,         \* _last_crosscheck_epoch
    fetching,        \* the fetch under way and how far it is, or NoFetch
    frame,           \* the last frame, if it was checked
    breaks,
    disturbances,    \* what may go wrong besides connections that break
    began,           \* history variable: the "now" of the first fetch that read the socket
    delivered,       \* history variable: every trade some frame had
    unheard          \* history variable: trades of the moments no fetch makes up for

feed == <<socket, wire, connection_status, connected_since, reconnect_count, received>>
source == <<request_end, counted, checked, fetching, frame>>
feedVars == <<now, trades, feed, source, breaks, disturbances, began, delivered, unheard>>

None == -1
NoFetch == [phase |-> "none", at |-> None]

NoFrame == [trades |-> {}, check |-> "NONE", check_start |-> None, at |-> None]

Larger(a, b) == IF a >= b THEN a ELSE b
Within(set, first, last) == {t \in set : first <= t /\ t <= last}

-----------------------------------------------------------------------------
(* The market and the task.                                                  *)

\* A fetch has its "now" and has not yet read what the task received.
HasNow == fetching.phase \in {"begun", "connected"}

\* What happens while nothing is subscribed is made up for by the next fetch,
\* but not if one has its "now" already, or the reconnection counts as handled.
Silent == socket # "subscribed" /\ (HasNow \/ reconnect_count = counted)

\* The "now" of the fetch under way, or of the last.
LastNow == IF fetching = NoFetch THEN request_end ELSE fetching.at

\* A second passes.  What is under way arrives in time, a fetch ends and begins
\* in time.
Tick ==
    /\ now < MaxTime
    /\ \A t \in wire : now - t < Latency
    /\ LastNow # None => now - LastNow < Poll
    /\ now' = now + 1
    /\ \E happened \in SUBSET {now + 1} :
         /\ trades' = trades \cup happened
         /\ wire' = IF socket = "subscribed" THEN wire \cup happened ELSE wire
         /\ unheard' = IF Silent THEN unheard \cup happened ELSE unheard
    /\ UNCHANGED <<socket, connection_status, connected_since, reconnect_count, received,
                   source, breaks, disturbances, began, delivered>>

\* ensure() makes the task, in the first fetch.
TaskStarted == fetching # NoFetch \/ request_end # None

\* The body of the loop: the connection is told as such, and then subscribed.
Connect ==
    /\ socket = "down" /\ TaskStarted
    /\ socket' = "open" /\ connection_status' = "CONNECTED" /\ connected_since' = now
    /\ UNCHANGED <<now, trades, wire, reconnect_count, received, source, breaks, disturbances,
                   began, delivered, unheard>>

Subscribe ==
    /\ socket = "open" /\ socket' = "subscribed"
    /\ UNCHANGED <<now, trades, wire, connection_status, connected_since, reconnect_count,
                   received, source, breaks, disturbances, began, delivered, unheard>>

MayBreak == breaks + Cardinality(disturbances) < MaxBreaks

\* The exception handler: a connection that breaks, or one that is not made.
Break ==
    /\ MayBreak /\ TaskStarted
    /\ breaks' = breaks + 1
    /\ socket' = "down" /\ wire' = {}
    /\ connection_status' = "DISCONNECTED" /\ connected_since' = None
    /\ reconnect_count' = reconnect_count + 1
    /\ unheard' = IF HasNow THEN unheard \cup {t \in wire : t > fetching.at} ELSE unheard
    /\ UNCHANGED <<now, trades, received, source, disturbances, began, delivered>>

\* The server closes the connection: the loop over its messages ends without
\* an exception and the outer loop connects again.
CleanEnd ==
    /\ socket # "down" /\ "clean_end" \in disturbances /\ MayBreak
    /\ breaks' = breaks + 1
    /\ socket' = "down" /\ wire' = {}
    /\ UNCHANGED <<now, trades, connection_status, connected_since, reconnect_count,
                   received, source, disturbances, began, delivered, unheard>>

\* A message of the channel: rows whose id has been seen are not taken again.
ReceiveTrades ==
    /\ \E t \in wire : wire' = wire \ {t} /\ received' = received \cup {t}
    /\ UNCHANGED <<now, trades, socket, connection_status, connected_since, reconnect_count,
                   source, breaks, disturbances, began, delivered, unheard>>

-----------------------------------------------------------------------------
(* The data source.                                                          *)

\* _rest_trades: the history of the exchange from start to the request, in
\* pages; the answer is either all of it or an error and nothing.
RestAnswers == IF "rest_error" \in disturbances THEN {"ok", "error"} ELSE {"ok"}
RestTrades(answer, start, end) == IF answer = "ok" THEN Within(trades, start, end) ELSE {}

Verified == {"PASS", "REPAIRED"}

\* Of a frame that is delivered, what it was verified to hold is kept.
Deliver(new) ==
    /\ frame' = IF new.check \in Verified THEN [new EXCEPT !.at = request_end'] ELSE NoFrame
    /\ delivered' = delivered \cup new.trades
    /\ fetching' = NoFetch

\* fetch_bundle: "now", and then the task is waited for, for three quarters of a
\* second at most, and the instrument and the ticker are asked for.
FetchBegin ==
    /\ fetching = NoFetch /\ request_end < now
    /\ fetching' = [phase |-> "begun", at |-> now]
    /\ UNCHANGED <<now, trades, feed, request_end, counted, checked, frame, breaks,
                   disturbances, began, delivered, unheard>>

\* _trades without a connected socket: the whole window by REST.
FetchByRest ==
    /\ fetching.phase = "begun" /\ connection_status # "CONNECTED"
    /\ request_end' = fetching.at
    /\ \E answer \in RestAnswers :
         LET start == Larger(0, fetching.at - Window)
         IN  Deliver([NoFrame EXCEPT !.trades = RestTrades(answer, start, fetching.at)])
    /\ UNCHANGED <<now, trades, feed, counted, checked, breaks, disturbances, began, unheard>>

\* _trades with a socket that is told to be connected ...
FetchLook ==
    /\ fetching.phase = "begun" /\ connection_status = "CONNECTED"
    /\ fetching' = [phase |-> "connected", at |-> fetching.at]
    /\ UNCHANGED <<now, trades, feed, request_end, counted, checked, frame, breaks,
                   disturbances, began, delivered, unheard>>

ReconnectChanged == counted # None /\ reconnect_count > counted

\* ... and then read: what was received up to "now", and the reconnections so far.
FetchRead ==
    /\ fetching.phase = "connected"
    /\ request_end' = fetching.at /\ counted' = reconnect_count
    /\ LET start == Larger(0, fetching.at - Window)
       IN fetching' = [phase |-> "read", at |-> fetching.at, start |-> start,
                       previous |-> request_end, reconnected |-> ReconnectChanged,
                       trades |-> Within(received, start, fetching.at)]
    /\ began' = IF began = None THEN fetching.at ELSE began
    /\ UNCHANGED <<now, trades, feed, checked, frame, breaks, disturbances, delivered, unheard>>

RecoveryStart(f) ==
    Larger(f.start, (IF f.previous = None THEN f.start ELSE f.previous) - Overlap)

\* The backfill after a reconnection that was counted.
Backfilled(f, answer) ==
    [NoFrame EXCEPT
        !.trades = IF f.reconnected
                   THEN f.trades \cup RestTrades(answer, RecoveryStart(f), f.at)
                   ELSE f.trades]

CheckStart(f) == Larger(f.start, IF connected_since = None THEN f.start ELSE connected_since)
CheckDue(f) == f.at - checked >= CheckInterval
TooShort(f) == f.at - CheckStart(f) < Warmup

\* A plausible mistake: what was missed is added only where the collector has rows.
CrossCheckedByCount(f, filled, answer) ==
    LET start == CheckStart(f)
        rest == RestTrades(answer, start, f.at)
        mine == Within(filled.trades, start, f.at)
    IN IF TooShort(f) THEN [filled EXCEPT !.check = "WARMUP"]
       ELSE IF answer = "error" THEN [filled EXCEPT !.check = "ERROR", !.check_start = start]
       ELSE [filled EXCEPT !.check = "REPAIRED", !.check_start = start,
                           !.trades = IF mine = {} THEN @ ELSE @ \cup rest]

\* The cross-check: where it differs, the REST rows replace the checked slice.
CrossChecked(f, filled, answer) ==
    LET start == CheckStart(f)
        rest == RestTrades(answer, start, f.at)
        mine == Within(filled.trades, start, f.at)
    IN IF TooShort(f) THEN [filled EXCEPT !.check = "WARMUP"]
       ELSE IF answer = "error" THEN [filled EXCEPT !.check = "ERROR", !.check_start = start]
       ELSE IF rest = mine THEN [filled EXCEPT !.check = "PASS", !.check_start = start]
       ELSE [filled EXCEPT !.check = "REPAIRED", !.check_start = start,
                           !.trades = {t \in filled.trades : t < start} \cup rest]

FetchEnd ==
    /\ fetching.phase = "read"
    /\ request_end' = request_end
    /\ \E backfill, check \in RestAnswers :
         LET filled == Backfilled(fetching, backfill)
         IN Deliver(IF CheckDue(fetching) THEN CrossChecked(fetching, filled, check)
                                          ELSE filled)
    /\ checked' = IF CheckDue(fetching) THEN fetching.at ELSE checked
    /\ UNCHANGED <<now, trades, feed, counted, breaks, disturbances, began, unheard>>

-----------------------------------------------------------------------------
FeedInit ==
    /\ now = 0 /\ trades = {}
    /\ socket = "down" /\ wire = {} /\ received = {}
    /\ connection_status = "DISCONNECTED" /\ connected_since = None /\ reconnect_count = 0
    /\ request_end = None /\ counted = None /\ checked = -CheckInterval
    /\ fetching = NoFetch /\ frame = NoFrame
    /\ breaks = 0 /\ disturbances \in FaultSets
    /\ began = None /\ delivered = {} /\ unheard = {}

FeedNext ==
    \/ Tick \/ Connect \/ Subscribe \/ Break \/ CleanEnd \/ ReceiveTrades
    \/ FetchBegin \/ FetchByRest \/ FetchLook \/ FetchRead \/ FetchEnd

FeedSpec == FeedInit /\ [][FeedNext]_feedVars

-----------------------------------------------------------------------------
\* Sockets that break and are counted, whenever they do, cost no trade, but those
\* of the moments no fetch makes up for (unheard): when nothing is subscribed and
\* a fetch has its "now" already, or has handled the reconnection, and what such
\* a fetch loses on the wire.  Every other trade since the first fetch that read
\* the socket is in some frame once a request was made more than Latency after
\* it, by the socket, by the REST window or by the backfill and its overlap
\* (shadow.py:4197-4279).
NoTradeMissed ==
    disturbances = {} /\ fetching = NoFetch /\ began # None =>
      \A t \in trades : began < t /\ t < request_end - Latency => t \in delivered \cup unheard

\* A frame whose cross-check passed or was repaired holds the trades of the
\* exchange in the checked interval, no more and no less, whatever the socket,
\* the backfill and the requests before it did (shadow.py:4281-4423).
CheckedFramesExact ==
    frame.check \in Verified =>
      Within(frame.trades, frame.check_start, frame.at)
        = Within(trades, frame.check_start, frame.at)

\* The frames miss no trade that a counted break hid, and those that were
\* checked hold the trades of the exchange (MainnetPublicDataSource._trades).
FramesHoldTheTrades == NoTradeMissed /\ CheckedFramesExact
=============================================================================
