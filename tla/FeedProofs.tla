----------------------------- MODULE FeedProofs -----------------------------
(***************************************************************************)
(* Proofs about what is read of the exchange, and of what is written: the  *)
(* trade feed of a shadow session, the copies the baseline runner takes of *)
(* the files of a session, the snapshots of Stage 1 and the options IV     *)
(* they carry.                                                             *)
(*                                                                         *)
(* FeedInv and LossInv say where a fetch is and what a frame cannot have   *)
(* lost; BaselineInv what of each file is on disk; CollectorInv how old    *)
(* what a tick holds may be at each of its requests; ChainInv that the     *)
(* last quote was of the list that is kept.                                *)
(***************************************************************************)
EXTENDS TradeFeed, ShadowBaseline, MarketCollector, OptionsChain,
        FiniteSetTheorems, WellFoundedInduction, TLAPS

-----------------------------------------------------------------------------
(* The trade feed *)

\* Where a fetch is, and what the last frame that was checked holds.
FeedInv ==
    /\ now \in Nat /\ trades \subseteq 1..now
    /\ wire \subseteq trades /\ received \subseteq trades
    /\ connected_since \in Nat \union {None}
    /\ request_end \in Nat \union {None} /\ request_end <= now
    /\ fetching.phase \in {"none", "begun", "connected", "read"}
    /\ fetching.phase = "none" => fetching = NoFetch
    /\ fetching.phase # "none" =>
          fetching.at \in Nat /\ fetching.at <= now /\ request_end <= fetching.at
    /\ fetching.phase = "read" =>
          /\ request_end = fetching.at
          /\ fetching.start = Larger(0, fetching.at - Window)
          /\ fetching.previous \in Nat \union {None}
          /\ fetching.trades \subseteq trades
          /\ \A t \in fetching.trades : t <= fetching.at
    /\ frame.at \in Int /\ frame.at <= now /\ frame.check_start \in Int
    /\ CheckedFramesExact

\* A trade that is on its way, was received, or was lost to a break that no
\* backfill has been made for.
Coming(t) == t \in wire \union received \/ reconnect_count > counted

\* What a trade that no frame had yet is waiting for: the fetch under way has it
\* or will ask for it again, or it is too late for the newest request and coming.
Awaited(t) ==
    \/ fetching.phase = "read" /\ t \in fetching.trades
    \/ /\ fetching.phase = "read" /\ fetching.reconnected /\ t <= fetching.at
       /\ fetching.previous # None /\ t >= fetching.previous - Latency
    \/ t >= request_end - Latency /\ Coming(t)

\* Of a feed whose connections are told to break when they do.
Accounted ==
    /\ reconnect_count \in Nat /\ counted \in Nat \union {None} /\ counted <= reconnect_count
    /\ began \in Nat \union {None}
    /\ \A t \in wire : now - t <= Latency
    /\ LastNow # None => now - LastNow <= Poll
    /\ HasNow /\ request_end # None => fetching.at - request_end <= Poll
    /\ fetching.phase = "read" /\ fetching.previous # None =>
          fetching.at - fetching.previous <= Poll
    /\ began # None => counted # None /\ request_end # None
    /\ HasNow => \A t \in trades : t > fetching.at => t \in wire \union received \union unheard
    /\ began # None =>
          \A t \in trades : began < t => t \in delivered \union unheard \/ Awaited(t)

LossInv == disturbances = {} => Accounted

LEMMA NowhereYet ==
  /\ NoFrame.at = None /\ NoFrame.check = "NONE" /\ NoFrame.check_start = None /\ None = -1
  /\ NoFetch.phase = "none" /\ NoFetch.at = None
  BY DEF NoFrame, NoFetch, None

\* What the backfill makes of what was read: it may add trades of the exchange,
\* and has nothing checked.
LEMMA FilledFrame ==
  ASSUME NEW f, NEW answer \in {"ok", "error"}, f.trades \subseteq trades
  PROVE  LET filled == Backfilled(f, answer)
         IN  /\ f.trades \subseteq filled.trades /\ filled.trades \subseteq trades
             /\ (\A t \in f.trades : t <= f.at) => \A t \in filled.trades : t <= f.at
             /\ filled.check = "NONE" /\ filled.check_start = None
             /\ f.reconnected /\ answer = "ok" =>
                   Within(trades, RecoveryStart(f), f.at) \subseteq filled.trades
  BY DEF Backfilled, RestTrades, NoFrame, Within

\* What the cross-check makes of it: if it tells that it passed or was repaired,
\* the trades of its interval are those of the exchange; and none is taken away
\* unless there was an error.
LEMMA CheckedFrame ==
  ASSUME FeedInv, NEW f, f.at \in Nat, f.start \in Nat,
         NEW filled, filled.trades \subseteq trades, NEW answer \in {"ok", "error"},
         \E a \in {"ok", "error"} : filled = Backfilled(f, a), f.trades \subseteq trades,
         \A t \in filled.trades : t <= f.at
  PROVE  LET new == CrossChecked(f, filled, answer)
         IN  /\ new.check_start \in Int
             /\ new.check \in Verified =>
                   Within(new.trades, new.check_start, f.at)
                      = Within(trades, new.check_start, f.at)
             /\ answer = "ok" => filled.trades \subseteq new.trades
<1>. DEFINE start == CheckStart(f)
            rest == RestTrades(answer, start, f.at)
            mine == Within(filled.trades, start, f.at)
            new == CrossChecked(f, filled, answer)
<1>1. start \in Int
  BY DEF CheckStart, Larger, FeedInv, None
<1>2. filled.check = "NONE" /\ filled.check_start = None
  BY FilledFrame
<1>3. filled = [trades |-> filled.trades, check |-> filled.check,
                check_start |-> filled.check_start, at |-> filled.at]
  BY DEF Backfilled, NoFrame
<1>4. \A t \in trades : t \in Int
  BY DEF FeedInv
<1>5. CASE TooShort(f)
  <2>1. new = [filled EXCEPT !.check = "WARMUP"]
    BY <1>5 DEF CrossChecked
  <2>. QED BY <2>1, <1>2, <1>3 DEF None, Verified
<1>6. CASE ~TooShort(f) /\ answer = "error"
  <2>1. new = [filled EXCEPT !.check = "ERROR", !.check_start = start]
    BY <1>6 DEF CrossChecked
  <2>. QED BY <2>1, <1>1, <1>3, <1>6 DEF Verified
<1>7. CASE ~TooShort(f) /\ answer = "ok" /\ rest = mine
  <2>1. new = [filled EXCEPT !.check = "PASS", !.check_start = start]
    BY <1>7 DEF CrossChecked
  <2>2. rest = Within(trades, start, f.at)
    BY <1>7 DEF RestTrades
  <2>. QED BY <2>1, <2>2, <1>1, <1>3, <1>7
<1>8. CASE ~TooShort(f) /\ answer = "ok" /\ rest # mine
  <2>. DEFINE repaired == {t \in filled.trades : t < start} \union rest
  <2>1. new = [filled EXCEPT !.check = "REPAIRED", !.check_start = start,
                             !.trades = repaired]
    BY <1>8 DEF CrossChecked
  <2>2. rest = Within(trades, start, f.at)
    BY <1>8 DEF RestTrades
  <2>3. new.trades = repaired /\ new.check_start = start
    BY <2>1, <1>3
  <2>4. /\ Within(repaired, start, f.at) = Within(trades, start, f.at)
        /\ filled.trades \subseteq repaired
    <3>. HIDE DEF start, rest
    <3>. QED BY <2>2, <1>1, <1>4 DEF Within
  <2>. HIDE DEF repaired
  <2>. QED BY <2>3, <2>4, <1>1
<1>. QED BY <1>5, <1>6, <1>7, <1>8

LEMMA InitFeed == FeedInit => FeedInv /\ LossInv
  BY FeedAssumption, NowhereYet
     DEF FeedInit, FeedInv, LossInv, Accounted, LastNow, HasNow, CheckedFramesExact, Verified, None

\* A second that passes adds a trade after the last frame, and after the "now"
\* of a fetch.
LEMMA TickStep == FeedInv /\ Tick => FeedInv'
<1>. SUFFICES ASSUME FeedInv, Tick PROVE FeedInv'
  OBVIOUS
<1>1. /\ fetching' = fetching /\ frame' = frame /\ received' = received
      /\ request_end' = request_end /\ connected_since' = connected_since
      /\ now' = now + 1 /\ now \in Nat
      /\ trades \subseteq trades' /\ trades' \subseteq trades \union {now + 1}
      /\ wire' \subseteq wire \union {now + 1} /\ (now + 1 \in wire' => now + 1 \in trades')
  BY DEF Tick, FeedInv, source
<1>2. trades \subseteq 1..now
  BY DEF FeedInv
<1>3. Within(trades', frame.check_start, frame.at) = Within(trades, frame.check_start, frame.at)
  <2>1. frame.at \in Int /\ frame.at <= now
    BY DEF FeedInv
  <2>2. \A t \in trades' : t <= frame.at => t \in trades
    BY <1>1, <2>1
  <2>. QED BY <1>1, <2>2 DEF Within
<1>4. CheckedFramesExact'
  BY <1>1, <1>3 DEF FeedInv, CheckedFramesExact, Within
<1>5. trades' \subseteq 1..now' /\ wire' \subseteq trades' /\ received' \subseteq trades'
  BY <1>1, <1>2 DEF FeedInv
<1>6. fetching.phase = "read" => fetching.trades \subseteq trades'
  BY <1>1 DEF FeedInv
<1>7. /\ connected_since' \in Nat \union {None} /\ request_end' \in Nat \union {None}
      /\ request_end' <= now' /\ frame'.at <= now'
      /\ fetching.phase # "none" => fetching.at \in Nat /\ fetching.at <= now'
  BY <1>1 DEF FeedInv, None
<1>. QED
  BY <1>1, <1>4, <1>5, <1>6, <1>7 DEF FeedInv

\* The steps of the task move neither the market nor the frames.
TaskSteps == Connect \/ Subscribe \/ Break \/ CleanEnd \/ ReceiveTrades

LEMMA TaskStep == FeedInv /\ TaskSteps => FeedInv'
<1>. SUFFICES ASSUME FeedInv, TaskSteps PROVE FeedInv'
  OBVIOUS
<1>1. /\ now' = now /\ trades' = trades /\ frame' = frame /\ fetching' = fetching
      /\ request_end' = request_end
      /\ connected_since' \in {now, None, connected_since}
      /\ wire' \subseteq wire /\ received' \subseteq received \union wire
  BY DEF TaskSteps, Connect, Subscribe, Break, CleanEnd, ReceiveTrades, source
<1>2. CheckedFramesExact'
  BY <1>1 DEF FeedInv, CheckedFramesExact, Within
<1>. QED
  BY <1>1, <1>2 DEF FeedInv, None, Larger

\* A fetch that takes its "now", and one that finds the socket connected.
LEMMA WaitStep == FeedInv /\ (FetchBegin \/ FetchLook) => FeedInv'
<1>. SUFFICES ASSUME FeedInv, FetchBegin \/ FetchLook PROVE FeedInv'
  OBVIOUS
<1>1. /\ now' = now /\ trades' = trades /\ feed' = feed /\ frame' = frame
      /\ request_end' = request_end
      /\ fetching'.phase \in {"begun", "connected"}
      /\ fetching'.at \in Nat /\ fetching'.at <= now /\ request_end <= fetching'.at
  BY DEF FetchBegin, FetchLook, FeedInv
<1>2. CheckedFramesExact'
  BY <1>1 DEF FeedInv, CheckedFramesExact, Within
<1>. QED
  BY <1>1, <1>2 DEF FeedInv, feed

\* A frame by REST alone is not checked.
LEMMA RestStep == FeedInv /\ FetchByRest => FeedInv'
<1>. SUFFICES ASSUME FeedInv, FetchByRest PROVE FeedInv'
  OBVIOUS
<1>1. PICK answer \in RestAnswers :
        Deliver([NoFrame EXCEPT
          !.trades = RestTrades(answer, Larger(0, fetching.at - Window), fetching.at)])
  BY DEF FetchByRest
<1>2. /\ now' = now /\ trades' = trades /\ feed' = feed /\ request_end' = fetching.at
      /\ fetching.at \in Nat /\ fetching.at <= now
      /\ fetching' = NoFetch /\ frame' = NoFrame
  BY <1>1, NowhereYet DEF FetchByRest, Deliver, NoFrame, FeedInv, Verified
<1>3. CheckedFramesExact'
  BY <1>2, NowhereYet DEF CheckedFramesExact, Verified
<1>. QED
  BY <1>2, <1>3, NowhereYet DEF FeedInv, feed

\* A fetch reads what was received, which has happened.
LEMMA ReadStep == FeedInv /\ FetchRead => FeedInv'
<1>. SUFFICES ASSUME FeedInv, FetchRead PROVE FeedInv'
  OBVIOUS
<1>. DEFINE start == Larger(0, fetching.at - Window)
<1>1. /\ now' = now /\ trades' = trades /\ feed' = feed /\ request_end' = fetching.at
      /\ frame' = frame /\ fetching.at \in Nat /\ fetching.at <= now
      /\ fetching' = [phase |-> "read", at |-> fetching.at, start |-> start,
                      previous |-> request_end, reconnected |-> ReconnectChanged,
                      trades |-> Within(received, start, fetching.at)]
  BY DEF FetchRead, FeedInv
<1>. HIDE DEF start
<1>2. /\ fetching'.phase = "read" /\ fetching'.at = fetching.at /\ fetching'.start = start
      /\ fetching'.previous = request_end /\ fetching'.trades \subseteq trades
      /\ \A t \in fetching'.trades : t <= fetching.at
  BY <1>1 DEF FeedInv, Within
<1>3. CheckedFramesExact'
  BY <1>1 DEF CheckedFramesExact, FeedInv, Within
<1>. QED
  BY <1>1, <1>2, <1>3 DEF FeedInv, feed, start, Larger

\* What a fetch ends with.
LEMMA FetchEndFrame ==
  ASSUME FeedInv, FetchEnd
  PROVE  \E backfill, check \in RestAnswers :
           LET filled == Backfilled(fetching, backfill)
               new == IF CheckDue(fetching) THEN CrossChecked(fetching, filled, check)
                                            ELSE filled
           IN  /\ IF new.check \in Verified
                  THEN /\ frame'.at = fetching.at /\ frame'.check = new.check
                       /\ frame'.check_start = new.check_start /\ frame'.trades = new.trades
                  ELSE frame' = NoFrame
               /\ delivered' = delivered \union new.trades
<1>1. PICK backfill, check \in RestAnswers :
        LET filled == Backfilled(fetching, backfill)
        IN  Deliver(IF CheckDue(fetching) THEN CrossChecked(fetching, filled, check) ELSE filled)
  BY DEF FetchEnd
<1>. DEFINE filled == Backfilled(fetching, backfill)
            new == IF CheckDue(fetching) THEN CrossChecked(fetching, filled, check) ELSE filled
<1>2. Deliver(new) /\ request_end' = fetching.at
  BY <1>1 DEF FetchEnd, FeedInv
<1>3. filled = [trades |-> filled.trades, check |-> filled.check,
                check_start |-> filled.check_start, at |-> filled.at]
  BY DEF Backfilled, NoFrame
<1>4. new = [trades |-> new.trades, check |-> new.check, check_start |-> new.check_start,
             at |-> new.at]
  <2>. HIDE DEF filled
  <2>. QED BY <1>3 DEF CrossChecked
<1>. HIDE DEF new
<1>5. /\ IF new.check \in Verified
         THEN /\ frame'.at = fetching.at /\ frame'.check = new.check
              /\ frame'.check_start = new.check_start /\ frame'.trades = new.trades
         ELSE frame' = NoFrame
      /\ delivered' = delivered \union new.trades
  BY <1>2, <1>4 DEF Deliver
<1>. QED BY <1>5 DEF new

\* The end of a fetch: a frame that was checked is exact.
LEMMA FetchEndStep == FeedInv /\ FetchEnd => FeedInv'
<1>. SUFFICES ASSUME FeedInv, FetchEnd PROVE FeedInv'
  OBVIOUS
<1>1. PICK backfill, check \in RestAnswers :
        LET filled == Backfilled(fetching, backfill)
            new == IF CheckDue(fetching) THEN CrossChecked(fetching, filled, check) ELSE filled
        IN  IF new.check \in Verified
            THEN /\ frame'.at = fetching.at /\ frame'.check = new.check
                 /\ frame'.check_start = new.check_start /\ frame'.trades = new.trades
            ELSE frame' = NoFrame
  BY FetchEndFrame
<1>. DEFINE filled == Backfilled(fetching, backfill)
            new == IF CheckDue(fetching) THEN CrossChecked(fetching, filled, check) ELSE filled
<1>2. /\ now' = now /\ trades' = trades /\ feed' = feed /\ request_end' = request_end
      /\ fetching' = NoFetch /\ fetching.phase = "read"
  BY DEF FetchEnd, Deliver
<1>3. /\ fetching.at \in Nat /\ fetching.at <= now /\ fetching.start \in Nat
      /\ fetching.trades \subseteq trades /\ \A t \in fetching.trades : t <= fetching.at
  BY <1>2, FeedAssumption DEF FeedInv, Larger
<1>4. backfill \in {"ok", "error"} /\ check \in {"ok", "error"}
  BY DEF RestAnswers
<1>5. /\ filled.trades \subseteq trades /\ \A t \in filled.trades : t <= fetching.at
      /\ filled.check = "NONE"
  BY <1>3, <1>4, FilledFrame
<1>6. \E a \in {"ok", "error"} : filled = Backfilled(fetching, a)
  BY <1>4
<1>. HIDE DEF filled
<1>7. new.check \in Verified =>
        /\ new.check_start \in Int
        /\ Within(new.trades, new.check_start, fetching.at)
             = Within(trades, new.check_start, fetching.at)
  <2>1. CASE CheckDue(fetching)
    BY <2>1, <1>3, <1>4, <1>5, <1>6, CheckedFrame
  <2>2. CASE ~CheckDue(fetching)
    BY <2>2, <1>5 DEF Verified
  <2>. QED BY <2>1, <2>2
<1>8. IF new.check \in Verified
      THEN /\ frame'.at = fetching.at /\ frame'.check = new.check
           /\ frame'.check_start = new.check_start /\ frame'.trades = new.trades
      ELSE frame' = NoFrame
  BY <1>1 DEF filled
<1>. HIDE DEF new
<1>9. CheckedFramesExact'
  BY <1>2, <1>7, <1>8, NowhereYet DEF CheckedFramesExact, Verified
<1>. QED
  BY <1>2, <1>3, <1>7, <1>8, <1>9, NowhereYet DEF FeedInv, feed

LEMMA FeedStep == FeedInv /\ [FeedNext]_feedVars => FeedInv'
<1>1. FeedInv /\ UNCHANGED feedVars => FeedInv'
  BY DEF FeedInv, CheckedFramesExact, feedVars, feed, source, Within, Larger
<1>. QED
  BY <1>1, TickStep, TaskStep, WaitStep, RestStep, ReadStep, FetchEndStep DEF FeedNext, TaskSteps

\* Whatever the socket, the backfill and the requests before it did, a frame
\* whose cross-check passed or was repaired holds the trades of the exchange in
\* its interval (shadow.py:4281-4423).
THEOREM FramesAreExact == FeedSpec => []CheckedFramesExact
<1>1. FeedInv => CheckedFramesExact
  BY DEF FeedInv
<1>. QED
  BY <1>1, InitFeed, FeedStep, PTL DEF FeedSpec

-----------------------------------------------------------------------------
(* No trade is missed *)

LEMMA OnlyAnswer == disturbances = {} => RestAnswers = {"ok"}
  BY DEF RestAnswers

\* The numbers of a feed.
LEMMA FeedNumbers ==
  FeedInv =>
    /\ now \in Nat /\ \A t \in trades : t \in Nat /\ t <= now
    /\ wire \subseteq trades /\ received \subseteq trades
    /\ request_end \in Int /\ request_end <= now /\ (request_end # None => request_end \in Nat)
    /\ Window \in Nat /\ Latency \in Nat /\ Poll \in Nat /\ Overlap \in Nat
    /\ None = -1
  BY FeedAssumption DEF FeedInv, None

\* A break leaves what is awaited to the next backfill; what a fetch that has
\* its "now" loses on the wire after it is not heard.
LEMMA BreakAccounted == FeedInv /\ Accounted /\ Break => Accounted'
<1>. SUFFICES ASSUME FeedInv, Accounted, Break PROVE Accounted'
  OBVIOUS
<1>1. /\ UNCHANGED <<now, trades, received, request_end, counted, fetching, began, delivered>>
      /\ wire' = {} /\ reconnect_count' = reconnect_count + 1
      /\ unheard' = IF HasNow THEN unheard \union {t \in wire : t > fetching.at} ELSE unheard
      /\ (HasNow <=> HasNow') /\ LastNow' = LastNow
  BY DEF Break, source, HasNow, LastNow
<1>2. reconnect_count' > counted' /\ reconnect_count' \in Nat /\ counted <= reconnect_count'
  BY <1>1 DEF Accounted, None
<1>3. \A t \in trades : Awaited(t) => Awaited(t)'
  BY <1>1, <1>2 DEF Awaited, Coming
<1>4. HasNow => \A t \in trades : t > fetching.at => t \in wire' \union received' \union unheard'
  BY <1>1 DEF Accounted
<1>5. unheard \subseteq unheard'
  BY <1>1
<1>6. began # None => \A t \in trades : began < t => t \in delivered \union unheard' \/ Awaited(t)'
  BY <1>3, <1>5 DEF Accounted
<1>. QED
  BY <1>1, <1>2, <1>4, <1>6 DEF Accounted

\* What the other steps of the task leave of the trades that are awaited.
LEMMA TaskAccounted == FeedInv /\ LossInv /\ TaskSteps => LossInv'
<1>. SUFFICES ASSUME FeedInv, LossInv, TaskSteps, disturbances' = {}
              PROVE  Accounted'
  BY DEF LossInv
<1>1. disturbances = {} /\ Accounted
  BY DEF LossInv, TaskSteps, Connect, Subscribe, Break, CleanEnd, ReceiveTrades
<1>2. CASE Break
  BY <1>1, <1>2, BreakAccounted
<1>3. CASE CleanEnd
  BY <1>1, <1>3 DEF CleanEnd
<1>4. CASE Connect \/ Subscribe \/ ReceiveTrades
  <2>1. /\ UNCHANGED <<now, trades, reconnect_count, source, began, delivered, unheard>>
        /\ wire' \union received' = wire \union received /\ wire' \subseteq wire
    BY <1>4 DEF Connect, Subscribe, ReceiveTrades
  <2>2. (HasNow <=> HasNow') /\ LastNow' = LastNow
    BY <2>1 DEF source, HasNow, LastNow
  <2>3. \A t \in trades : Awaited(t) => Awaited(t)'
    BY <2>1 DEF Awaited, Coming, source
  <2>. QED BY <2>1, <2>2, <2>3, <1>1 DEF Accounted, source
<1>. QED BY <1>2, <1>3, <1>4 DEF TaskSteps

\* A trade that happens is awaited: by the wire, or by the backfill after the
\* break that closed the socket; or it is not heard.
LEMMA TickAccounted == FeedInv /\ LossInv /\ Tick => LossInv'
<1>. SUFFICES ASSUME FeedInv, LossInv, Tick, disturbances' = {} PROVE Accounted'
  BY DEF LossInv
<1>1. Accounted
  BY DEF LossInv, Tick
<1>2. /\ fetching' = fetching /\ now' = now + 1 /\ request_end' = request_end
      /\ UNCHANGED <<reconnect_count, received, counted, began, delivered>>
      /\ trades \subseteq trades' /\ trades' \subseteq trades \union {now + 1}
      /\ wire \subseteq wire' /\ wire' \subseteq wire \union {now + 1}
      /\ unheard \subseteq unheard'
      /\ now + 1 \in trades' /\ socket = "subscribed" => now + 1 \in wire'
      /\ now + 1 \in trades' /\ Silent => now + 1 \in unheard'
      /\ (HasNow <=> HasNow') /\ LastNow' = LastNow
  <2>1. ~(now + 1 \in trades)
    BY FeedNumbers
  <2>2. PICK happened \in SUBSET {now + 1} :
          /\ trades' = trades \union happened
          /\ wire' = IF socket = "subscribed" THEN wire \union happened ELSE wire
          /\ unheard' = IF Silent THEN unheard \union happened ELSE unheard
    BY DEF Tick
  <2>3. /\ fetching' = fetching /\ now' = now + 1 /\ request_end' = request_end
        /\ UNCHANGED <<reconnect_count, received, counted, began, delivered>>
    BY DEF Tick, source
  <2>. QED BY <2>1, <2>2, <2>3 DEF HasNow, LastNow
<1>3. \A t \in wire' : now' - t <= Latency
  <2>1. \A t \in wire : t \in Int /\ now - t < Latency
    BY FeedNumbers DEF Tick
  <2>2. \A t \in wire' : t \in wire \/ t = now + 1
    BY <1>2
  <2>. QED BY <1>2, <2>1, <2>2, FeedNumbers
<1>4. LastNow' # None => now' - LastNow' <= Poll
  <2>1. LastNow \in Int
    BY FeedNumbers DEF FeedInv, LastNow, NoFetch
  <2>. QED BY <1>2, <2>1, FeedNumbers DEF Tick
<1>5. \A t \in trades : Awaited(t) => Awaited(t)'
  BY <1>2 DEF Awaited, Coming
<1>6. \A t \in trades' : t = now + 1 => t \in unheard' \/ Awaited(t)'
  <2>1. ~Silent /\ socket # "subscribed" => reconnect_count > counted
    BY <1>1 DEF Silent, Accounted, None
  <2>. QED BY <1>2, <2>1, FeedNumbers DEF Awaited, Coming
<1>7. began # None =>
        \A t \in trades' : began < t => t \in delivered \union unheard' \/ Awaited(t)'
  BY <1>1, <1>2, <1>5, <1>6 DEF Accounted
<1>8. HasNow => \A t \in trades' : t > fetching.at => t \in wire' \union received \union unheard'
  <2>1. HasNow /\ socket # "subscribed" => Silent
    BY DEF Silent
  <2>. QED BY <1>1, <1>2, <2>1 DEF Accounted
<1>. QED
  BY <1>1, <1>2, <1>3, <1>4, <1>7, <1>8 DEF Accounted

\* A fetch begins after all that has happened.
LEMMA WaitAccounted == FeedInv /\ LossInv /\ (FetchBegin \/ FetchLook) => LossInv'
<1>. SUFFICES ASSUME FeedInv, LossInv, FetchBegin \/ FetchLook, disturbances' = {} PROVE Accounted'
  BY DEF LossInv
<1>1. Accounted
  BY DEF LossInv, FetchBegin, FetchLook
<1>2. UNCHANGED <<now, trades, wire, received, reconnect_count, request_end, counted, began,
                  delivered, unheard>>
  BY DEF FetchBegin, FetchLook, feed
<1>3. CASE FetchBegin
  <2>1. fetching' = [phase |-> "begun", at |-> now] /\ fetching = NoFetch
    BY <1>3 DEF FetchBegin
  <2>2. HasNow' /\ LastNow' = now /\ fetching'.at = now /\ fetching'.phase = "begun"
    BY <2>1, <1>2, FeedNumbers DEF HasNow, LastNow, NoFetch
  <2>3. request_end # None => now - request_end <= Poll
    BY <1>1, <2>1 DEF Accounted, LastNow
  <2>4. \A t \in trades : Awaited(t) => Awaited(t)'
    BY <1>2, <2>1, <2>2 DEF Awaited, Coming, NoFetch
  <2>. QED BY <1>1, <1>2, <2>2, <2>3, <2>4, FeedNumbers DEF Accounted
<1>4. CASE FetchLook
  <2>1. fetching' = [phase |-> "connected", at |-> fetching.at] /\ fetching.phase = "begun"
    BY <1>4 DEF FetchLook
  <2>2. /\ HasNow' /\ HasNow /\ LastNow' = LastNow
        /\ fetching'.at = fetching.at /\ fetching'.phase = "connected"
    BY <2>1, <1>2 DEF HasNow, LastNow, NoFetch
  <2>3. \A t \in trades : Awaited(t) => Awaited(t)'
    BY <1>2, <2>1, <2>2 DEF Awaited, Coming
  <2>. QED BY <1>1, <1>2, <2>2, <2>3 DEF Accounted
<1>. QED BY <1>3, <1>4

\* The window by REST holds all that is awaited and happened before its "now".
LEMMA RestAccounted ==
  ASSUME Latency <= Overlap, Poll + Latency <= Window,
         FeedInv, LossInv, FetchByRest
  PROVE  LossInv'
<1>. SUFFICES ASSUME disturbances' = {} PROVE Accounted'
  BY DEF LossInv
<1>1. disturbances = {} /\ Accounted
  BY DEF LossInv, FetchByRest
<1>. DEFINE end == fetching.at
            start == Larger(0, end - Window)
<1>2. /\ fetching.phase = "begun" /\ fetching' = NoFetch
      /\ UNCHANGED <<now, trades, feed, counted, began, unheard>> /\ request_end' = end
      /\ delivered' = delivered \union Within(trades, start, end)
  <2>1. PICK answer \in RestAnswers :
          Deliver([NoFrame EXCEPT !.trades = RestTrades(answer, start, end)])
    BY DEF FetchByRest
  <2>2. answer = "ok"
    BY <1>1, <2>1, OnlyAnswer
  <2>. QED BY <1>1, <2>1, <2>2 DEF FetchByRest, Deliver, RestTrades, NoFrame
<1>3. /\ HasNow /\ end \in Nat /\ end <= now /\ fetching # NoFetch /\ now - end <= Poll
      /\ ~HasNow' /\ LastNow' = end
  <2>1. HasNow /\ end \in Nat /\ end <= now /\ fetching # NoFetch
    BY <1>2 DEF HasNow, FeedInv, NoFetch
  <2>2. end # None
    BY <2>1, FeedNumbers
  <2>. QED BY <1>1, <1>2, <2>1, <2>2 DEF HasNow, LastNow, NoFetch, Accounted
<1>4. \A t \in trades : began # None /\ Awaited(t) => t \in delivered' \union unheard \/ Awaited(t)'
  <2>. SUFFICES ASSUME NEW t \in trades, began # None, Awaited(t)
                PROVE  t \in delivered' \union unheard \/ Awaited(t)'
    OBVIOUS
  <2>1. t >= request_end - Latency /\ end - request_end <= Poll
    BY <1>1, <1>2, <1>3 DEF Awaited, Accounted
  <2>2. t \in Nat
    BY FeedNumbers
  <2>3. CASE t <= end
    <3>1. t >= start
      BY <2>1, <2>2, <1>3, FeedNumbers DEF Larger
    <3>. QED BY <1>2, <2>3, <3>1 DEF Within
  <2>4. CASE t > end
    <3>1. t \in wire \union received \union unheard
      BY <1>1, <1>3, <2>4 DEF Accounted
    <3>2. t >= end - Latency
      BY <2>4, <2>2, <1>3, FeedNumbers
    <3>. QED BY <1>2, <3>1, <3>2 DEF Awaited, Coming, feed
  <2>. QED BY <2>2, <2>3, <2>4, <1>3
<1>5. began # None =>
        \A t \in trades : began < t => t \in delivered' \union unheard \/ Awaited(t)'
  BY <1>1, <1>2, <1>4 DEF Accounted
<1>6. fetching'.phase = "none" /\ request_end' # None
  BY <1>2, <1>3, FeedNumbers DEF NoFetch
<1>. HIDE DEF start, end
<1>. QED
  BY <1>1, <1>2, <1>3, <1>5, <1>6 DEF Accounted, feed

\* What is read holds what was received and is awaited; what it lacks has just
\* happened, or is left to the backfill.
LEMMA ReadAccounted ==
  ASSUME Latency <= Overlap, Poll + Latency <= Window,
         FeedInv, LossInv, FetchRead
  PROVE  LossInv'
<1>. SUFFICES ASSUME disturbances' = {} PROVE Accounted'
  BY DEF LossInv
<1>1. disturbances = {} /\ Accounted
  BY DEF LossInv, FetchRead
<1>. DEFINE end == fetching.at
            start == Larger(0, end - Window)
<1>2. /\ fetching.phase = "connected" /\ request_end' = end /\ counted' = reconnect_count
      /\ UNCHANGED <<now, trades, feed, delivered, unheard>>
      /\ fetching' = [phase |-> "read", at |-> end, start |-> start, previous |-> request_end,
                      reconnected |-> ReconnectChanged, trades |-> Within(received, start, end)]
      /\ began' = IF began = None THEN end ELSE began
  BY DEF FetchRead
<1>3. /\ fetching'.phase = "read" /\ fetching'.at = end /\ fetching'.previous = request_end
      /\ fetching'.trades = Within(received, start, end)
      /\ fetching'.reconnected = ReconnectChanged
  BY <1>2
<1>4. /\ HasNow /\ end \in Nat /\ end <= now /\ now - end <= Poll
      /\ ~HasNow' /\ LastNow' = end
  <2>1. HasNow /\ end \in Nat /\ end <= now /\ fetching # NoFetch
    BY <1>2 DEF HasNow, FeedInv, NoFetch
  <2>2. end # None
    BY <2>1, FeedNumbers
  <2>3. fetching' # NoFetch
    BY <1>3 DEF NoFetch
  <2>. QED BY <1>1, <1>3, <2>1, <2>2, <2>3 DEF HasNow, LastNow, Accounted
<1>5. \A t \in trades : t > end => t \in unheard \/ Awaited(t)'
  <2>. SUFFICES ASSUME NEW t \in trades, t > end PROVE t \in unheard \/ Awaited(t)'
    OBVIOUS
  <2>1. t \in wire \union received \union unheard
    BY <1>1, <1>4 DEF Accounted
  <2>2. t >= end - Latency
    BY <1>4, FeedNumbers
  <2>. QED BY <1>2, <2>1, <2>2 DEF Awaited, Coming, feed
<1>6. \A t \in trades : began # None /\ Awaited(t) => t \in unheard \/ Awaited(t)'
  <2>. SUFFICES ASSUME NEW t \in trades, began # None, Awaited(t), t <= end PROVE Awaited(t)'
    BY <1>4, <1>5, FeedNumbers
  <2>1. /\ t >= request_end - Latency /\ Coming(t)
        /\ request_end # None /\ counted # None /\ end - request_end <= Poll
    BY <1>1, <1>2, <1>4 DEF Awaited, Accounted
  <2>2. t \in Nat /\ t >= start
    BY <2>1, <1>4, FeedNumbers DEF Larger
  <2>3. CASE t \in received
    BY <1>3, <2>2, <2>3 DEF Within, Awaited
  <2>4. CASE t \in wire
    <3>1. t >= end - Latency
      BY <1>1, <1>4, <2>2, <2>4, FeedNumbers DEF Accounted
    <3>. QED BY <1>2, <2>4, <3>1 DEF Awaited, Coming, feed
  <2>5. CASE reconnect_count > counted
    BY <1>3, <2>1, <2>5 DEF Awaited, ReconnectChanged
  <2>. QED BY <2>1, <2>3, <2>4, <2>5 DEF Coming
<1>7. \A t \in trades : began' < t => t \in delivered \union unheard \/ Awaited(t)'
  BY <1>1, <1>2, <1>5, <1>6 DEF Accounted
<1>8. began' # None /\ began' \in Nat /\ counted' \in Nat /\ counted' # None /\ request_end' # None
  BY <1>1, <1>2, <1>4, FeedNumbers DEF Accounted
<1>9. request_end # None => end - request_end <= Poll
  BY <1>1, <1>4 DEF Accounted
<1>10. counted' <= reconnect_count
  BY <1>1, <1>2 DEF Accounted
<1>. HIDE DEF start, end
<1>. QED
  BY <1>1, <1>2, <1>3, <1>4, <1>7, <1>8, <1>9, <1>10 DEF Accounted, feed

\* What is awaited of what was read is in it, is added by the backfill, or is
\* still on its way; the cross-check takes nothing of it away.
LEMMA FetchEndAccounted ==
  ASSUME Latency <= Overlap, Poll + Latency <= Window,
         FeedInv, LossInv, FetchEnd
  PROVE  LossInv'
<1>. SUFFICES ASSUME disturbances' = {} PROVE Accounted'
  BY DEF LossInv
<1>1. disturbances = {} /\ Accounted
  BY DEF LossInv, FetchEnd
<1>2. PICK backfill, check \in RestAnswers :
        LET filled == Backfilled(fetching, backfill)
            new == IF CheckDue(fetching) THEN CrossChecked(fetching, filled, check) ELSE filled
        IN  delivered' = delivered \union new.trades
  BY FetchEndFrame
<1>. DEFINE filled == Backfilled(fetching, backfill)
            new == IF CheckDue(fetching) THEN CrossChecked(fetching, filled, check) ELSE filled
<1>3. /\ UNCHANGED <<now, trades, feed, counted, began, unheard>> /\ request_end' = request_end
      /\ fetching' = NoFetch /\ fetching.phase = "read"
  BY DEF FetchEnd, Deliver
<1>4. /\ request_end = fetching.at /\ fetching.at \in Nat /\ fetching.at <= now
      /\ fetching.start = Larger(0, fetching.at - Window)
      /\ fetching.previous \in Nat \union {None}
      /\ fetching.trades \subseteq trades /\ \A t \in fetching.trades : t <= fetching.at
  BY <1>3 DEF FeedInv
<1>5. backfill = "ok" /\ check = "ok"
  BY <1>1, OnlyAnswer
<1>6. /\ fetching.trades \subseteq filled.trades /\ filled.trades \subseteq trades
      /\ \A t \in filled.trades : t <= fetching.at
      /\ fetching.reconnected =>
            Within(trades, RecoveryStart(fetching), fetching.at) \subseteq filled.trades
  BY <1>4, <1>5, FilledFrame
<1>7. filled.trades \subseteq new.trades
  <2>1. \E a \in {"ok", "error"} : filled = Backfilled(fetching, a)
    BY <1>5
  <2>. HIDE DEF filled
  <2>2. fetching.start \in Nat
    BY <1>4, FeedNumbers DEF Larger
  <2>3. CASE CheckDue(fetching)
    BY <2>1, <2>2, <2>3, <1>4, <1>5, <1>6, CheckedFrame
  <2>4. CASE ~CheckDue(fetching)
    BY <2>4
  <2>. QED BY <2>3, <2>4
<1>8. delivered' = delivered \union new.trades
  BY <1>2
<1>. HIDE DEF filled, new
<1>9. \A t \in trades : Awaited(t) => t \in delivered' \/ Awaited(t)'
  <2>. SUFFICES ASSUME NEW t \in trades, Awaited(t)
                PROVE  t \in delivered' \/ Awaited(t)'
    OBVIOUS
  <2>1. CASE t \in fetching.trades
    BY <2>1, <1>6, <1>7, <1>8
  <2>2. CASE t >= request_end - Latency /\ Coming(t)
    BY <2>2, <1>3 DEF Awaited, Coming, feed
  <2>3. CASE /\ fetching.reconnected /\ t <= fetching.at
             /\ fetching.previous # None /\ t >= fetching.previous - Latency
    <3>1. fetching.previous \in Nat /\ fetching.at - fetching.previous <= Poll /\ t \in Nat
      BY <1>1, <1>3, <1>4, <2>3, FeedNumbers DEF Accounted
    <3>2. t >= fetching.start /\ t >= fetching.previous - Overlap
      BY <2>3, <3>1, <1>4, FeedNumbers DEF Larger
    <3>3. t >= RecoveryStart(fetching)
      BY <2>3, <3>1, <3>2, <1>4, FeedNumbers DEF RecoveryStart, Larger
    <3>4. t \in filled.trades
      BY <2>3, <3>3, <1>6 DEF Within
    <3>. QED BY <3>4, <1>7, <1>8
  <2>. QED BY <2>1, <2>2, <2>3 DEF Awaited
<1>10. began # None =>
         \A t \in trades : began < t => t \in delivered' \union unheard \/ Awaited(t)'
  BY <1>1, <1>8, <1>9 DEF Accounted
<1>11. ~HasNow' /\ LastNow' = LastNow /\ fetching'.phase = "none"
  BY <1>3, <1>4 DEF HasNow, LastNow, NoFetch
<1>. QED
  BY <1>1, <1>3, <1>10, <1>11 DEF Accounted, feed

LEMMA LossStep ==
  ASSUME Latency <= Overlap, Poll + Latency <= Window
  PROVE  FeedInv /\ LossInv /\ [FeedNext]_feedVars => LossInv'
<1>1. FeedInv /\ LossInv /\ UNCHANGED feedVars => LossInv'
  BY DEF LossInv, Accounted, Awaited, Coming, HasNow, LastNow, feedVars, feed, source
<1>. QED
  BY <1>1, TickAccounted, TaskAccounted, WaitAccounted, RestAccounted, ReadAccounted,
     FetchEndAccounted DEF FeedNext, TaskSteps

\* Sockets that break and are counted cost no trade, whenever they break, but
\* those of the moments no fetch makes up for (unheard), if what arrives late is
\* still within the overlap of a backfill, and what comes after the "now" of one
\* fetch within the window of the next (shadow.py:4197-4279).
THEOREM NoTradeIsMissed ==
  ASSUME Latency <= Overlap, Poll + Latency <= Window
  PROVE  FeedSpec => []NoTradeMissed
<1>1. FeedInv /\ LossInv => NoTradeMissed
  <2>. SUFFICES ASSUME FeedInv, Accounted, fetching = NoFetch, began # None,
                       NEW t \in trades, began < t, t < request_end - Latency
                PROVE  t \in delivered \union unheard
    BY DEF LossInv, NoTradeMissed
  <2>1. fetching.phase # "read"
    BY NowhereYet
  <2>. QED BY <2>1, FeedNumbers DEF Accounted, Awaited
<1>2. FeedInv /\ LossInv /\ [FeedNext]_feedVars => LossInv'
  BY LossStep
<1>. QED
  BY <1>1, <1>2, InitFeed, FeedStep, PTL DEF FeedSpec

\* Both together.
THEOREM FramesHoldAllTrades ==
  ASSUME Latency <= Overlap, Poll + Latency <= Window
  PROVE  FeedSpec => []FramesHoldTheTrades
<1>1. NoTradeMissed /\ CheckedFramesExact => FramesHoldTheTrades
  BY DEF FramesHoldTheTrades
<1>. QED
  BY <1>1, FramesAreExact, NoTradeIsMissed, PTL

-----------------------------------------------------------------------------
(* The baseline session *)

\* What is in the log and in the table.
Copied == ToSet(log) \intersect ToSet(rows)
CopiedUpTo(m, n) == \A k \in 1..n : <<FillModel[m], k>> \in Copied

StopEvent == <<"BASELINE_STOP", 0>>

\* The session is stopped model after model; what was copied of a model that
\* was stopped is all that it told.
StopsAt(m) == stopping /\ step \in {"stop", "persist", "record"} /\ m < model
AfterStop == step \in {"stopped", "report", "close", "ended"}

Kinds == {"BASELINE_START", "CONFIG_CHANGE", "CHECKPOINT", "BASELINE_STOP",
          "conservative", "touch"}

BaselineInv ==
    /\ model \in Models /\ saving \in Nat /\ stopping \in BOOLEAN
    /\ events \in [Models -> Nat] /\ persisted \in [Models -> Nat]
    /\ log \in Seq(Kinds \X Nat) /\ rows \in Seq(Kinds \X Nat)
    /\ stopping => step \in {"stop", "persist", "record", "stopped", "report", "close"} \union Over
    /\ step \in {"stop", "stopped", "report", "close", "ended"} => stopping
    /\ step = "start" => ~stopping /\ events = [m \in Models |-> 0]
    /\ \A m \in Models : persisted[m] <= events[m] /\ CopiedUpTo(m, persisted[m])
    /\ step = "persist" => saving <= events[model] /\ CopiedUpTo(model, saving)
    /\ \A m \in Models : StopsAt(m) \/ AfterStop => persisted[m] = events[m]
    /\ stopping /\ step = "record" => persisted[model] = events[model]
    /\ StopEvent \in ToSet(log) =>
          /\ step \in {"report", "close"} \union Over
          /\ \A m \in Models : persisted[m] = events[m]

Counted == cycles \in Nat

\* A step that may write, but not the end of the session.
Grows ==
    /\ log' \in Seq(Kinds \X Nat) /\ rows' \in Seq(Kinds \X Nat)
    /\ Copied \subseteq Copied'
    /\ StopEvent \in ToSet(log') => StopEvent \in ToSet(log)

Reasons == {"COMPLETE", "MANUAL_STOP", "DATA_FAILURE", "ENVIRONMENT_INCONSISTENCY"}
Running == {"fetch", "check", "engine", "record", "persist", "count", "sleep"}

\* Events of another kind are not the event of the end.
LEMMA OtherEvents ==
  ASSUME NEW kind \in Kinds, kind # "BASELINE_STOP", NEW n \in Nat
  PROVE  <<kind, n>> \in Kinds \X Nat /\ <<kind, n>> # StopEvent
<1>1. <<kind, n>>[1] = kind /\ StopEvent[1] = "BASELINE_STOP"
  BY DEF StopEvent
<1>. QED BY <1>1

LEMMA AppendsElement ==
  ASSUME NEW S, NEW s \in Seq(S), NEW e \in S
  PROVE  /\ Append(s, e) \in Seq(S)
         /\ ToSet(Append(s, e)) = ToSet(s) \union {e}
<1>1. /\ Append(s, e) \in Seq(S) /\ Len(Append(s, e)) = Len(s) + 1
      /\ \A i \in 1..Len(s) : Append(s, e)[i] = s[i]
      /\ Append(s, e)[Len(s) + 1] = e
      /\ DOMAIN s = 1..Len(s) /\ DOMAIN Append(s, e) = 1..(Len(s) + 1) /\ Len(s) \in Nat
  OBVIOUS
<1>2. \A i \in 1..(Len(s) + 1) : i \in 1..Len(s) \/ i = Len(s) + 1
  BY <1>1
<1>3. 1..Len(s) \subseteq 1..(Len(s) + 1) /\ Len(s) + 1 \in 1..(Len(s) + 1)
  BY <1>1
<1>4. ToSet(Append(s, e)) \subseteq ToSet(s) \union {e}
  BY <1>1, <1>2 DEF ToSet
<1>5. ToSet(s) \union {e} \subseteq ToSet(Append(s, e))
  BY <1>1, <1>3 DEF ToSet
<1>. QED BY <1>1, <1>4, <1>5

\* The line is written first, and what counts as written is in both.
LEMMA AppendGrows ==
  ASSUME BaselineInv, NEW event \in Kinds \X Nat, NEW outcome \in Outcomes,
         AppendEvent(event, outcome)
  PROVE  /\ log' \in Seq(Kinds \X Nat) /\ rows' \in Seq(Kinds \X Nat)
         /\ Copied \subseteq Copied' /\ ToSet(log') \subseteq ToSet(log) \union {event}
         /\ outcome = "written" => event \in Copied'
         /\ event # StopEvent => Grows
<1>1. log' \in {log, Append(log, event)} /\ rows' \in {rows, Append(rows, event)}
      /\ (outcome = "written" => log' = Append(log, event) /\ rows' = Append(rows, event))
  BY DEF AppendEvent, Outcomes
<1>2. /\ log \in Seq(Kinds \X Nat) /\ rows \in Seq(Kinds \X Nat)
  BY DEF BaselineInv
<1>3. /\ Append(log, event) \in Seq(Kinds \X Nat)
      /\ ToSet(Append(log, event)) = ToSet(log) \union {event}
  BY <1>2, AppendsElement
<1>4. /\ Append(rows, event) \in Seq(Kinds \X Nat)
      /\ ToSet(Append(rows, event)) = ToSet(rows) \union {event}
  BY <1>2, AppendsElement
<1>. QED BY <1>1, <1>2, <1>3, <1>4 DEF Copied, Grows

\* A session that goes on: nothing it copied is lost.
LEMMA GoesOn ==
  ASSUME BaselineInv, Grows, ~stopping, ~stopping', stopping' \in BOOLEAN,
         step \in Running \union {"start"},
         step' \in Running \ {"persist"}, model' \in Models, saving' \in Nat,
         events' \in [Models -> Nat], \A m \in Models : events[m] <= events'[m],
         persisted' = persisted
  PROVE  BaselineInv'
<1>1. StopEvent \notin ToSet(log) /\ StopEvent \notin ToSet(log')
  BY DEF BaselineInv, Grows, Running, Over
<1>2. \A m \in Models : persisted[m] <= events'[m]
  BY DEF BaselineInv
<1>3. \A m \in Models : CopiedUpTo(m, persisted[m])'
  BY DEF BaselineInv, CopiedUpTo, Grows
<1>. QED
  BY <1>1, <1>2, <1>3 DEF BaselineInv, Grows, Running, StopsAt, AfterStop

\* One that a step in an exception ends: it is stopped, or was being stopped and
\* is aborted.
LEMMA IsStopped ==
  ASSUME BaselineInv, Grows, step \in Running \union {"start"}, NEW why, Raise(why),
         saving' \in Nat, persisted' = persisted,
         events' \in [Models -> Nat], \A m \in Models : events[m] <= events'[m]
  PROVE  BaselineInv'
<1>1. StopEvent \notin ToSet(log) /\ StopEvent \notin ToSet(log')
  BY DEF BaselineInv, Grows, Running, Over
<1>2. \A m \in Models : persisted[m] <= events'[m]
  BY DEF BaselineInv
<1>3. \A m \in Models : CopiedUpTo(m, persisted[m])'
  BY DEF BaselineInv, CopiedUpTo, Grows
<1>4. CASE step = "start" \/ stopping
  BY <1>1, <1>2, <1>3, <1>4
     DEF BaselineInv, Grows, Raise, StopsAt, AfterStop, Over
<1>5. CASE ~(step = "start" \/ stopping)
  <2>1. step' = "stop" /\ model' = 1 /\ stopping' = TRUE
    BY <1>5 DEF Raise
  <2>2. \A m \in Models : ~StopsAt(m)' /\ ~AfterStop'
    BY <2>1 DEF StopsAt, AfterStop, Models
  <2>. QED
    BY <2>1, <2>2, <1>1, <1>2, <1>3 DEF BaselineInv, Grows, Models
<1>. QED BY <1>4, <1>5

LEMMA NothingGrows == BaselineInv /\ UNCHANGED store => Grows
  BY DEF BaselineInv, Grows, store, Copied

LEMMA InitBaseline == BaselineInit => BaselineInv
<1>. SUFFICES ASSUME BaselineInit PROVE BaselineInv
  OBVIOUS
<1>1. ToSet(log) = {} /\ log \in Seq(Kinds \X Nat) /\ rows \in Seq(Kinds \X Nat)
  BY DEF BaselineInit, ToSet
<1>2. /\ events \in [Models -> Nat] /\ persisted \in [Models -> Nat]
      /\ \A m \in Models : events[m] = 0 /\ persisted[m] = 0
  BY DEF BaselineInit
<1>3. \A m \in Models : CopiedUpTo(m, persisted[m])
  BY <1>2 DEF CopiedUpTo
<1>4. /\ step = "start" /\ model = 1 /\ stopping = FALSE /\ saving = 0
      /\ events = [m \in Models |-> 0]
  BY DEF BaselineInit
<1>5. \A m \in Models : ~StopsAt(m) /\ ~AfterStop
  BY <1>4 DEF StopsAt, AfterStop
<1>6. model \in Models /\ saving \in Nat /\ stopping \in BOOLEAN
  <2>1. 1 \in Models /\ 0 \in Nat /\ FALSE \in BOOLEAN
    BY DEF Models
  <2>. QED BY <2>1, <1>4, Zenon
<1>8. \A m \in Models : persisted[m] <= events[m] /\ persisted[m] = events[m]
  BY <1>2
<1>7. StopEvent \notin ToSet(log)
  BY <1>1
<1>. QED
  BY <1>1, <1>2, <1>3, <1>4, <1>5, <1>6, <1>7, <1>8 DEF BaselineInv

LEMMA EngineEvents ==
  ASSUME NEW m \in Models, NEW n \in Nat
  PROVE  <<FillModel[m], n>> \in Kinds \X Nat /\ <<FillModel[m], n>> # StopEvent
<1>1. FillModel[m] \in {"conservative", "touch"}
  BY DEF Models, FillModel
<1>2. FillModel[m] \in Kinds /\ FillModel[m] # "BASELINE_STOP"
  BY <1>1 DEF Kinds
<1>. QED BY <1>2, OtherEvents

LEMMA StartStep == BaselineInv /\ Start => BaselineInv'
<1>. SUFFICES ASSUME BaselineInv, Start PROVE BaselineInv'
  OBVIOUS
<1>1. PICK outcome \in Outcomes :
        /\ AppendEvent(<<"BASELINE_START", 0>>, outcome)
        /\ IF outcome = "written"
           THEN step' = "fetch" /\ UNCHANGED <<reason, model, stopping>>
           ELSE Raise("none")
  BY DEF Start
<1>2. Grows
  BY <1>1, AppendGrows, OtherEvents DEF Kinds
<1>3. /\ step = "start" /\ events' = [m \in Models |-> 1] /\ persisted' = persisted
      /\ saving' = saving /\ saving \in Nat /\ model \in Models /\ ~stopping
      /\ stopping \in BOOLEAN
  BY DEF Start, BaselineInv
<1>4. events' \in [Models -> Nat] /\ \A m \in Models : events[m] <= events'[m]
  BY <1>3 DEF BaselineInv
<1>5. CASE outcome = "written"
  BY <1>1, <1>2, <1>3, <1>4, <1>5, GoesOn DEF Running
<1>6. CASE outcome # "written"
  BY <1>1, <1>2, <1>3, <1>4, <1>6, IsStopped
<1>. QED BY <1>5, <1>6

LEMMA FetchStep == BaselineInv /\ Fetch => BaselineInv'
<1>. SUFFICES ASSUME BaselineInv, Fetch PROVE BaselineInv'
  OBVIOUS
<1>1. /\ step = "fetch" /\ UNCHANGED <<events, persisted, saving, store>>
      /\ ~stopping /\ stopping \in BOOLEAN /\ saving \in Nat /\ model \in Models
      /\ events \in [Models -> Nat]
  BY DEF Fetch, BaselineInv, Over
<1>2. Grows
  BY <1>1, NothingGrows
<1>3. \/ \E why \in Reasons : Raise(why)
      \/ step' = "check" /\ UNCHANGED <<model, stopping>>
  BY DEF Fetch, Reasons
<1>4. ASSUME NEW why, Raise(why) PROVE BaselineInv'
  BY <1>1, <1>2, <1>4, IsStopped DEF Running
<1>5. CASE step' = "check" /\ UNCHANGED <<model, stopping>>
  BY <1>1, <1>2, <1>5, GoesOn DEF Running
<1>. QED BY <1>3, <1>4, <1>5

LEMMA CheckStep == BaselineInv /\ CheckConfigFrozen => BaselineInv'
<1>. SUFFICES ASSUME BaselineInv, CheckConfigFrozen PROVE BaselineInv'
  OBVIOUS
<1>1. /\ step = "check" /\ UNCHANGED <<events, persisted, saving>>
      /\ ~stopping /\ stopping \in BOOLEAN /\ saving \in Nat /\ events \in [Models -> Nat]
  BY DEF CheckConfigFrozen, BaselineInv, Over
<1>2. CASE profile = frozen
  <2>1. step' = "engine" /\ model' = 1 /\ UNCHANGED <<stopping, store>>
    BY <1>2 DEF CheckConfigFrozen
  <2>. QED BY <2>1, <1>1, NothingGrows, GoesOn DEF Running, Models
<1>3. CASE profile # frozen
  <2>1. PICK outcome \in Outcomes :
          /\ AppendEvent(<<"CONFIG_CHANGE", 0>>, outcome)
          /\ Raise(IF outcome = "written" THEN "CONFIG_CHANGE" ELSE "DATA_FAILURE")
    BY <1>3 DEF CheckConfigFrozen
  <2>2. Grows
    BY <2>1, AppendGrows, OtherEvents DEF Kinds
  <2>. QED BY <2>1, <2>2, <1>1, IsStopped DEF Running
<1>. QED BY <1>2, <1>3

LEMMA RunStep == BaselineInv /\ RunModel => BaselineInv'
<1>. SUFFICES ASSUME BaselineInv, RunModel PROVE BaselineInv'
  OBVIOUS
<1>1. PICK told \in 0..2, failed \in BOOLEAN :
        /\ events' = [events EXCEPT ![model] = @ + told]
        /\ IF failed THEN Raise("DATA_FAILURE")
           ELSE step' = "record" /\ UNCHANGED <<model, stopping>>
  BY DEF RunModel
<1>2. /\ step = "engine" /\ UNCHANGED <<persisted, saving, store>>
      /\ ~stopping /\ stopping \in BOOLEAN /\ saving \in Nat /\ model \in Models
      /\ events \in [Models -> Nat]
  BY DEF RunModel, BaselineInv, Over
<1>3. events' \in [Models -> Nat] /\ \A m \in Models : events[m] <= events'[m]
  BY <1>1, <1>2
<1>4. Grows
  BY <1>2, NothingGrows
<1>5. CASE failed
  BY <1>1, <1>2, <1>3, <1>4, <1>5, IsStopped DEF Running
<1>6. CASE ~failed
  BY <1>1, <1>2, <1>3, <1>4, <1>6, GoesOn DEF Running
<1>. QED BY <1>5, <1>6

LEMMA CountStep == BaselineInv /\ Count => BaselineInv'
<1>. SUFFICES ASSUME BaselineInv, Count PROVE BaselineInv'
  OBVIOUS
<1>1. /\ step = "count" /\ UNCHANGED <<events, persisted, saving>>
      /\ ~stopping /\ stopping \in BOOLEAN /\ saving \in Nat /\ model \in Models
      /\ events \in [Models -> Nat]
  BY DEF Count, BaselineInv, Over
<1>2. CASE UNCHANGED store /\ step' = "sleep" /\ UNCHANGED <<model, stopping>>
  BY <1>1, <1>2, NothingGrows, GoesOn DEF Running
<1>3. ASSUME NEW outcome \in Outcomes, AppendEvent(<<"CHECKPOINT", 0>>, outcome),
             IF outcome = "written" THEN step' = "sleep" /\ UNCHANGED <<model, stopping>>
             ELSE Raise("DATA_FAILURE")
      PROVE  BaselineInv'
  <2>1. Grows
    BY <1>3, AppendGrows, OtherEvents DEF Kinds
  <2>2. CASE outcome = "written"
    BY <2>1, <2>2, <1>1, <1>3, GoesOn DEF Running
  <2>3. CASE outcome # "written"
    BY <2>1, <2>3, <1>1, <1>3, IsStopped DEF Running
  <2>. QED BY <2>2, <2>3
<1>. QED BY <1>2, <1>3 DEF Count

LEMMA SleepStep == BaselineInv /\ Sleep => BaselineInv'
<1>. SUFFICES ASSUME BaselineInv, Sleep PROVE BaselineInv'
  OBVIOUS
<1>1. /\ step = "sleep" /\ UNCHANGED <<events, persisted, saving, store>>
      /\ ~stopping /\ stopping \in BOOLEAN /\ saving \in Nat /\ model \in Models
      /\ events \in [Models -> Nat]
  BY DEF Sleep, BaselineInv, Over
<1>2. Grows
  BY <1>1, NothingGrows
<1>3. \/ \E why \in Reasons : Raise(why)
      \/ step' = "fetch" /\ UNCHANGED <<model, stopping>>
  BY DEF Sleep, Reasons
<1>4. ASSUME NEW why, Raise(why) PROVE BaselineInv'
  BY <1>1, <1>2, <1>4, IsStopped DEF Running
<1>5. CASE step' = "fetch" /\ UNCHANGED <<model, stopping>>
  BY <1>1, <1>2, <1>5, GoesOn DEF Running
<1>. QED BY <1>3, <1>4, <1>5

\* The next model is stopped when all that the last told is copied, or the session
\* is marked.
LEMMA StopsNext ==
  ASSUME BaselineInv, stopping, step \in {"record", "persist"}, stopping' = stopping,
         NextModel("stop", "stopped"), UNCHANGED <<events, log, rows>>, saving' \in Nat,
         persisted' \in [Models -> Nat], persisted'[model] = events[model],
         \A m \in Models \ {model} : persisted'[m] = persisted[m],
         CopiedUpTo(model, events[model])
  PROVE  BaselineInv'
<1>1. /\ model \in Models /\ StopEvent \notin ToSet(log) /\ events \in [Models -> Nat]
      /\ \A m \in Models : m < model => persisted[m] = events[m]
  BY DEF BaselineInv, StopsAt, Over
<1>2. \A m, n : CopiedUpTo(m, n)' <=> CopiedUpTo(m, n)
  BY DEF CopiedUpTo, Copied
<1>3. \A m \in Models : persisted'[m] <= events'[m] /\ CopiedUpTo(m, persisted[m])'
  <2>. SUFFICES ASSUME NEW m \in Models
                PROVE  persisted'[m] <= events[m] /\ CopiedUpTo(m, persisted'[m])
    BY <1>2
  <2>1. CASE m = model
    BY <2>1, <1>1
  <2>2. CASE m # model
    BY <2>2 DEF BaselineInv
  <2>. QED BY <2>1, <2>2
<1>4. \/ model = 1 /\ model' = 2 /\ step' = "stop"
      \/ model = 2 /\ model' = 1 /\ step' = "stopped"
  BY <1>1 DEF NextModel, Models
<1>5. \A m \in Models : StopsAt(m)' \/ AfterStop' => persisted'[m] = events'[m]
  BY <1>1, <1>4 DEF StopsAt, AfterStop, Models
<1>6. model' \in Models /\ log \in Seq(Kinds \X Nat) /\ rows \in Seq(Kinds \X Nat)
  BY <1>4 DEF Models, BaselineInv
<1>. QED
  BY <1>1, <1>3, <1>4, <1>5, <1>6 DEF BaselineInv

LEMMA RecordStep == BaselineInv /\ RecordModelState => BaselineInv'
<1>. SUFFICES ASSUME BaselineInv, RecordModelState PROVE BaselineInv'
  OBVIOUS
<1>1. /\ step = "record" /\ UNCHANGED <<events, persisted, store>> /\ saving' = persisted[model]
      /\ stopping \in BOOLEAN /\ model \in Models
      /\ events \in [Models -> Nat] /\ persisted \in [Models -> Nat]
      /\ StopEvent \notin ToSet(log)
  BY DEF RecordModelState, BaselineInv, Over
<1>2. Grows /\ saving' \in Nat /\ UNCHANGED <<log, rows>>
  BY <1>1, NothingGrows DEF store
<1>3. \A m, n : CopiedUpTo(m, n)' <=> CopiedUpTo(m, n)
  BY <1>2 DEF CopiedUpTo, Copied
<1>4. \/ Raise("DATA_FAILURE")
      \/ stopping /\ UNCHANGED stopping /\ NextModel("stop", "stopped")
      \/ ~stopping /\ step' = "persist" /\ UNCHANGED <<model, stopping>>
  BY DEF RecordModelState
<1>5. CASE Raise("DATA_FAILURE")
  BY <1>1, <1>2, <1>5, IsStopped DEF Running
<1>6. CASE stopping /\ UNCHANGED stopping /\ NextModel("stop", "stopped")
  <2>1. persisted[model] = events[model] /\ CopiedUpTo(model, events[model])
    BY <1>1, <1>6 DEF BaselineInv
  <2>. QED BY <2>1, <1>1, <1>2, <1>6, StopsNext
<1>7. CASE ~stopping /\ step' = "persist" /\ UNCHANGED <<model, stopping>>
  <2>1. \A m \in Models : ~StopsAt(m)' /\ ~AfterStop'
    BY <1>7 DEF StopsAt, AfterStop
  <2>2. saving' <= events'[model'] /\ CopiedUpTo(model, saving)'
    BY <1>1, <1>3, <1>7 DEF BaselineInv
  <2>3. \A m \in Models : persisted'[m] <= events'[m] /\ CopiedUpTo(m, persisted[m])'
    BY <1>1, <1>3 DEF BaselineInv
  <2>. QED BY <2>1, <2>2, <2>3, <1>1, <1>2, <1>7 DEF BaselineInv, Over
<1>. QED BY <1>4, <1>5, <1>6, <1>7

LEMMA PersistStep == BaselineInv /\ PersistEvent => BaselineInv'
<1>. SUFFICES ASSUME BaselineInv, PersistEvent PROVE BaselineInv'
  OBVIOUS
<1>. DEFINE event == <<FillModel[model], saving + 1>>
<1>1. PICK outcome \in Outcomes :
        /\ AppendEvent(event, outcome)
        /\ IF outcome = "written" THEN UNCHANGED <<step, reason, model, stopping>>
           ELSE Raise("DATA_FAILURE")
  BY DEF PersistEvent
<1>2. /\ step = "persist" /\ saving < events[model] /\ saving' = saving + 1
      /\ UNCHANGED <<events, persisted>> /\ model \in Models /\ saving \in Nat
      /\ events \in [Models -> Nat] /\ persisted \in [Models -> Nat]
      /\ StopEvent \notin ToSet(log)
  BY DEF PersistEvent, BaselineInv, Over
<1>3. Grows /\ (outcome = "written" => event \in Copied')
  BY <1>1, <1>2, AppendGrows, EngineEvents
<1>4. CASE outcome # "written"
  BY <1>1, <1>2, <1>3, <1>4, IsStopped DEF Running
<1>5. CASE outcome = "written"
  <2>1. step' = step /\ model' = model /\ stopping' = stopping
    BY <1>1, <1>5
  <2>2. \A m \in Models : CopiedUpTo(m, persisted[m])'
    BY <1>2, <1>3 DEF BaselineInv, CopiedUpTo, Grows
  <2>3. \A k \in 1..saving' : <<FillModel[model], k>> \in Copied'
    <3>. SUFFICES ASSUME NEW k \in 1..saving' PROVE <<FillModel[model], k>> \in Copied'
      OBVIOUS
    <3>1. CASE k = saving + 1
      BY <3>1, <1>3, <1>5
    <3>2. CASE k # saving + 1
      BY <3>2, <1>2, <1>3 DEF BaselineInv, CopiedUpTo, Grows
    <3>. QED BY <3>1, <3>2
  <2>4. CopiedUpTo(model, saving)' /\ saving' <= events'[model']
    BY <2>1, <2>3, <1>2 DEF CopiedUpTo
  <2>5. \A m \in Models : persisted'[m] <= events'[m]
    BY <1>2 DEF BaselineInv
  <2>6. \A m \in Models : (StopsAt(m) <=> StopsAt(m)') /\ (AfterStop <=> AfterStop')
    BY <2>1 DEF StopsAt, AfterStop
  <2>. QED
    BY <2>1, <2>2, <2>4, <2>5, <2>6, <1>2, <1>3 DEF BaselineInv, Grows
<1>. QED BY <1>4, <1>5

LEMMA PersistedStep == BaselineInv /\ cycles \in Nat /\ PersistedAll => BaselineInv'
<1>. SUFFICES ASSUME BaselineInv, cycles \in Nat, PersistedAll PROVE BaselineInv'
  OBVIOUS
<1>1. /\ step = "persist" /\ saving = events[model] /\ UNCHANGED <<events, saving, store>>
      /\ persisted' = [persisted EXCEPT ![model] = events[model]]
      /\ model \in Models /\ stopping \in BOOLEAN /\ saving \in Nat
      /\ events \in [Models -> Nat] /\ persisted \in [Models -> Nat]
      /\ StopEvent \notin ToSet(log) /\ log \in Seq(Kinds \X Nat) /\ rows \in Seq(Kinds \X Nat)
      /\ CopiedUpTo(model, events[model])
  BY DEF PersistedAll, BaselineInv, Over
<1>2. /\ persisted' \in [Models -> Nat] /\ persisted'[model] = events[model]
      /\ \A m \in Models \ {model} : persisted'[m] = persisted[m]
      /\ UNCHANGED <<log, rows>>
  BY <1>1 DEF store
<1>3. \A m, n : CopiedUpTo(m, n)' <=> CopiedUpTo(m, n)
  BY <1>2 DEF CopiedUpTo, Copied
<1>4. \A m \in Models : persisted'[m] <= events'[m] /\ CopiedUpTo(m, persisted[m])'
  <2>. SUFFICES ASSUME NEW m \in Models
                PROVE  persisted'[m] <= events[m] /\ CopiedUpTo(m, persisted'[m])
    BY <1>1, <1>3
  <2>1. CASE m = model
    BY <2>1, <1>1, <1>2
  <2>2. CASE m # model
    BY <2>2, <1>2 DEF BaselineInv
  <2>. QED BY <2>1, <2>2
<1>5. \/ Raise("DATA_FAILURE")
      \/ stopping /\ UNCHANGED <<model, stopping>> /\ step' = "record"
      \/ stopping /\ UNCHANGED stopping /\ NextModel("stop", "stopped")
      \/ ~stopping /\ UNCHANGED stopping /\ NextModel("engine", "count")
  <2>1. PICK failed \in BOOLEAN :
          CASE failed -> Raise("DATA_FAILURE")
            [] ~failed /\ stopping /\ cycles > 0 ->
                  step' = "record" /\ UNCHANGED <<reason, model, stopping>>
            [] ~failed /\ stopping /\ cycles = 0 ->
                  NextModel("stop", "stopped") /\ UNCHANGED <<reason, stopping>>
            [] OTHER -> NextModel("engine", "count") /\ UNCHANGED <<reason, stopping>>
    BY DEF PersistedAll
  <2>2. cycles > 0 \/ cycles = 0
    OBVIOUS
  <2>3. CASE failed
    BY <2>1, <2>3, Zenon
  <2>4. CASE ~failed /\ stopping
    BY <2>1, <2>2, <2>4
  <2>5. CASE ~failed /\ ~stopping
    BY <2>1, <2>5
  <2>. QED BY <2>3, <2>4, <2>5
<1>6. CASE Raise("DATA_FAILURE")
  <2>1. \/ stopping /\ step' = "aborted" /\ UNCHANGED <<model, stopping>>
        \/ step' = "stop" /\ model' = 1 /\ stopping' = TRUE
    BY <1>1, <1>6 DEF Raise
  <2>2. \A m \in Models : ~StopsAt(m)' /\ ~AfterStop'
    BY <2>1 DEF StopsAt, AfterStop, Models
  <2>3. model' \in Models /\ stopping' \in BOOLEAN
    <3>1. 1 \in Models /\ TRUE \in BOOLEAN
      BY DEF Models
    <3>. QED BY <3>1, <2>1, <1>1, Zenon
  <2>. QED BY <2>1, <2>2, <2>3, <1>1, <1>2, <1>4 DEF BaselineInv, Over
<1>7. CASE stopping /\ UNCHANGED <<model, stopping>> /\ step' = "record"
  <2>1. \A m \in Models : StopsAt(m)' \/ AfterStop' => persisted'[m] = events'[m]
    BY <1>1, <1>2, <1>7 DEF StopsAt, AfterStop, BaselineInv, Models
  <2>. QED BY <2>1, <1>1, <1>2, <1>4, <1>7 DEF BaselineInv
<1>8. CASE stopping /\ UNCHANGED stopping /\ NextModel("stop", "stopped")
  BY <1>1, <1>2, <1>8, StopsNext
<1>9. CASE ~stopping /\ UNCHANGED stopping /\ NextModel("engine", "count")
  <2>1. step' \in {"engine", "count"} /\ model' \in Models
    BY <1>1, <1>9 DEF NextModel, Models
  <2>2. \A m \in Models : ~StopsAt(m)' /\ ~AfterStop'
    BY <2>1, <1>9 DEF StopsAt, AfterStop
  <2>. QED BY <2>1, <2>2, <1>1, <1>2, <1>4, <1>9 DEF BaselineInv
<1>. QED BY <1>5, <1>6, <1>7, <1>8, <1>9

LEMMA ShutdownStep == BaselineInv /\ ShutDownEngine => BaselineInv'
<1>. SUFFICES ASSUME BaselineInv, ShutDownEngine PROVE BaselineInv'
  OBVIOUS
<1>1. /\ step = "stop" /\ step' = "persist" /\ saving' = persisted[model]
      /\ events' = [events EXCEPT ![model] = @ + 1]
      /\ UNCHANGED <<model, stopping, persisted, log, rows>>
      /\ stopping /\ stopping \in BOOLEAN /\ model \in Models
      /\ events \in [Models -> Nat] /\ persisted \in [Models -> Nat]
      /\ StopEvent \notin ToSet(log)
  BY DEF ShutDownEngine, BaselineInv, store, Over
<1>2. \A m, n : CopiedUpTo(m, n)' <=> CopiedUpTo(m, n)
  BY <1>1 DEF CopiedUpTo, Copied
<1>3. events' \in [Models -> Nat] /\ \A m \in Models : persisted[m] <= events'[m]
  BY <1>1 DEF BaselineInv
<1>4. \A m \in Models : StopsAt(m)' \/ AfterStop' => persisted'[m] = events'[m]
  BY <1>1 DEF StopsAt, AfterStop, BaselineInv, Models
<1>5. saving' \in Nat /\ saving' <= events'[model'] /\ CopiedUpTo(model, saving)'
  BY <1>1, <1>2, <1>3 DEF BaselineInv
<1>6. \A m \in Models : CopiedUpTo(m, persisted[m])'
  BY <1>1, <1>2 DEF BaselineInv
<1>. QED
  BY <1>1, <1>3, <1>4, <1>5, <1>6 DEF BaselineInv

\* The end is told when every model has been stopped.
LEMMA MarkStep == BaselineInv /\ MarkStopped => BaselineInv'
<1>. SUFFICES ASSUME BaselineInv, MarkStopped PROVE BaselineInv'
  OBVIOUS
<1>1. PICK outcome \in Outcomes :
        AppendEvent(StopEvent, outcome) /\ step' \in {"report", "aborted"}
  BY DEF MarkStopped, StopEvent
<1>2. /\ step = "stopped" /\ UNCHANGED <<model, stopping, events, persisted, saving>>
  BY DEF MarkStopped, session
<1>3. StopEvent \in Kinds \X Nat
  BY DEF StopEvent, Kinds
<1>4. /\ log' \in Seq(Kinds \X Nat) /\ rows' \in Seq(Kinds \X Nat) /\ Copied \subseteq Copied'
  BY <1>1, <1>3, AppendGrows
<1>5. \A m \in Models : persisted'[m] = events'[m] /\ CopiedUpTo(m, persisted[m])'
  BY <1>2, <1>4 DEF BaselineInv, CopiedUpTo, AfterStop
<1>6. \A m \in Models : persisted'[m] <= events'[m]
  BY <1>2 DEF BaselineInv
<1>. QED
  BY <1>1, <1>2, <1>4, <1>5, <1>6 DEF BaselineInv, Over

\* What is left to do, the edits and the kill change nothing that is copied.
LEMMA LeaveStep ==
  BaselineInv /\ (WriteReport \/ Close \/ EditProfile \/ Kill) => BaselineInv'
<1>. SUFFICES ASSUME BaselineInv, WriteReport \/ Close \/ EditProfile \/ Kill
              PROVE  BaselineInv'
  OBVIOUS
<1>1. /\ UNCHANGED <<model, stopping, events, persisted, saving, log, rows>>
      /\ \/ step = "report" /\ step' \in {"aborted", "close"}
         \/ step = "close" /\ step' \in {"aborted", "ended"}
         \/ step' = step
         \/ step' = "killed"
  BY DEF WriteReport, Close, EditProfile, Kill, session, store
<1>2. \A m, n : CopiedUpTo(m, n)' <=> CopiedUpTo(m, n)
  BY <1>1 DEF CopiedUpTo, Copied
<1>3. \A m \in Models : StopsAt(m)' \/ AfterStop' => StopsAt(m) \/ AfterStop
  BY <1>1 DEF StopsAt, AfterStop
<1>4. \A m \in Models : CopiedUpTo(m, persisted[m])'
  BY <1>1, <1>2 DEF BaselineInv
<1>5. step' = "persist" => saving <= events[model] /\ CopiedUpTo(model, saving)'
  BY <1>1, <1>2 DEF BaselineInv
<1>. QED
  BY <1>1, <1>3, <1>4, <1>5 DEF BaselineInv, Over

LEMMA CyclesCounted == Counted /\ [BaselineNext]_baselineVars => Counted'
<1>1. CASE Count
  BY <1>1 DEF Count, Counted
<1>2. ASSUME [BaselineNext]_baselineVars, ~Count PROVE cycles' = cycles
  BY <1>2 DEF BaselineNext, baselineVars, report, Start, Fetch, CheckConfigFrozen, RunModel,
              RecordModelState, PersistEvent, PersistedAll, Sleep, ShutDownEngine, MarkStopped,
              WriteReport, Close, EditProfile, Kill
<1>. QED BY <1>1, <1>2 DEF Counted

LEMMA BaselineStep ==
  BaselineInv /\ Counted /\ [BaselineNext]_baselineVars => BaselineInv'
<1>1. BaselineInv /\ UNCHANGED baselineVars => BaselineInv'
  BY DEF BaselineInv, baselineVars, session, store, Copied, CopiedUpTo, StopsAt, AfterStop
<1>. QED
  BY <1>1, StartStep, FetchStep, CheckStep, RunStep, RecordStep, PersistStep, PersistedStep,
     CountStep, SleepStep, ShutdownStep, MarkStep, LeaveStep DEF BaselineNext, Counted

\* Nothing the engines told is missing from the log or the table of a session
\* that says it was stopped, whatever failed before (stop, _persist_engine_delta).
THEOREM StoppedSessionsAreComplete == BaselineSpec => []StoppedIsComplete
<1>1. BaselineInv => StoppedIsComplete
  BY DEF BaselineInv, StoppedIsComplete, CopiedUpTo, Copied, Told, StopEvent
<1>2. BaselineInit => Counted
  BY DEF BaselineInit, Counted
<1>. QED
  BY <1>1, <1>2, InitBaseline, BaselineStep, CyclesCounted, PTL DEF BaselineSpec

-----------------------------------------------------------------------------
(* The collector *)

\* request_timeout_seconds and the ages and intervals of the configuration, all
\* of which are positive.
CollectorConfigured ==
    /\ Timeout \in Nat /\ Oldest \in Nat /\ MaxAge \in Nat /\ MaxOptionAge \in Nat
    /\ Refresh \in Nat \ {0}

Age == Nat \union {NoAge}

CollectorTypes ==
    /\ at \in Requests \union {"sleep", "persist", "stopped"}
    /\ waited \in Nat /\ (at \in Requests => waited <= Timeout)
    /\ elapsed \in Nat /\ tracker \in Nat /\ ticker \in Nat
    /\ chain \in Age /\ book \in Age /\ iv \in Age

\* What the snapshot holds was young enough when it was asked for, and each
\* request since then has taken its time.
SnapshotIsYoung ==
    /\ at = "diagnostics" => elapsed <= waited
    /\ at = "book" =>
         elapsed <= Timeout + waited /\ (valid => tracker <= MaxAge + waited)
    /\ at = "chain" =>
         /\ elapsed <= 2 * Timeout + waited
         /\ valid => book # NoAge /\ book <= MaxAge + Timeout + waited
    /\ at = "tickers" =>
         /\ elapsed <= 3 * Timeout + waited
         /\ valid => book # NoAge /\ book <= MaxAge + 2 * Timeout + waited
         /\ chain < Refresh + 3 * Timeout + waited
    /\ at = "account" =>
         /\ valid => book # NoAge /\ book <= MaxAge + 3 * Timeout + waited
         /\ iv # NoAge => /\ iv <= MaxOptionAge + 4 * Timeout + waited
                          /\ chain < Refresh + 4 * Timeout + waited
    /\ WrittenIsFresh
    /\ at \notin {"account", "persist", "stopped"} => iv = NoAge

\* A window is drained only when the last one is on file or gone, and only a
\* stream that has ended leaves trades uncounted.
WindowIsKept ==
    /\ tallied \in Nat /\ window \in Nat /\ untold \in Nat
    /\ stream \in {"new", "available", "unavailable"}
    /\ window # 0 => at \in {"chain", "tickers", "account", "persist", "stopped"}
    /\ at = "stream" => stream = "new"
    /\ ~disturbed /\ stream # "available" => tallied = 0 /\ window = 0
    /\ TradesToldOnce

CollectorInv == CollectorTypes /\ SnapshotIsYoung /\ WindowIsKept

LEMMA OlderIs ==
  ASSUME NEW age \in Age, Oldest \in Nat
  PROVE  /\ Older(age) \in Age /\ Older(age) <= age + 1
         /\ Older(age) = NoAge <=> age = NoAge
         /\ age \in Nat => Older(age) \in Nat
  BY DEF Older, NoAge, Age

LEMMA CollectorTimePasses ==
  ASSUME CollectorConfigured, CollectorInv, Pass
  PROVE  CollectorInv'
  <1>1. /\ at' = at /\ valid' = valid /\ waited' = waited + 1
        /\ at \in Requests \union {"sleep"} /\ (at \in Requests => waited < Timeout)
        /\ UNCHANGED <<stream, tallied, window, untold, disturbed>>
    <2>1. "sleep" \notin Requests
      BY DEF Requests
    <2> QED
      BY <2>1 DEF Pass, Patience, tradeVars
  <1>2. /\ waited \in Nat /\ elapsed \in Nat /\ tracker \in Nat /\ ticker \in Nat
        /\ chain \in Age /\ book \in Age /\ iv \in Age
    BY DEF CollectorInv, CollectorTypes
  <1>3. /\ elapsed' = Older(elapsed) /\ tracker' = Older(tracker) /\ ticker' = Older(ticker)
        /\ chain' = Older(chain) /\ book' = Older(book) /\ iv' = Older(iv)
    BY DEF Pass
  <1>4. /\ elapsed' \in Nat /\ tracker' \in Nat /\ ticker' \in Nat
        /\ elapsed' <= elapsed + 1 /\ tracker' <= tracker + 1
    BY <1>2, <1>3, OlderIs DEF CollectorConfigured, Age
  <1>5. /\ chain' \in Age /\ book' \in Age /\ iv' \in Age
        /\ chain' <= chain + 1 /\ book' <= book + 1 /\ iv' <= iv + 1
        /\ (book' = NoAge <=> book = NoAge) /\ (iv' = NoAge <=> iv = NoAge)
    BY <1>2, <1>3, OlderIs DEF CollectorConfigured
  <1>6. CollectorTypes'
    <2>1. at' \in Requests => waited' <= Timeout
      BY <1>1, <1>2 DEF CollectorConfigured
    <2> QED
      BY <1>1, <1>2, <1>4, <1>5, <2>1 DEF CollectorTypes
  <1>7. SnapshotIsYoung'
    <2>1. SnapshotIsYoung /\ at # "persist" /\ at' # "persist"
      BY <1>1 DEF CollectorInv, Requests
    <2> QED
      BY <1>1, <1>2, <1>4, <1>5, <2>1
      DEF SnapshotIsYoung, WrittenIsFresh, CollectorConfigured, NoAge, Age
  <1>8. WindowIsKept'
    BY <1>1 DEF CollectorInv, WindowIsKept, TradesToldOnce
  <1> QED
    BY <1>6, <1>7, <1>8 DEF CollectorInv

LEMMA CollectorIsTold ==
  ASSUME CollectorConfigured, CollectorInv, Update \/ Trade \/ StreamEnds
  PROVE  CollectorInv'
  <1>1. CASE Update
    <2>1. /\ UNCHANGED <<at, waited, elapsed, chain, book, iv, valid>>
          /\ UNCHANGED <<stream, tallied, window, untold, disturbed>>
          /\ tracker' \in {0, tracker} /\ ticker' \in {0, ticker}
      BY <1>1 DEF Update, tradeVars
    <2>2. CollectorTypes'
      BY <2>1 DEF CollectorInv, CollectorTypes
    <2>3. waited \in Nat /\ MaxAge \in Nat
      BY DEF CollectorInv, CollectorTypes, CollectorConfigured
    <2>4. at' = "book" /\ valid' => tracker' <= MaxAge + waited'
      BY <2>1, <2>3 DEF CollectorInv, SnapshotIsYoung
    <2>5. SnapshotIsYoung'
      BY <2>1, <2>4 DEF CollectorInv, SnapshotIsYoung, WrittenIsFresh
    <2>6. WindowIsKept'
      BY <2>1 DEF CollectorInv, WindowIsKept, TradesToldOnce
    <2> QED
      BY <2>2, <2>5, <2>6 DEF CollectorInv
  <1>2. CASE Trade \/ StreamEnds
    <2>1. UNCHANGED <<at, waited, elapsed, tracker, ticker, chain, book, iv, valid, window>>
      BY <1>2 DEF Trade, StreamEnds, ages
    <2>2. CollectorTypes'
      BY <2>1 DEF CollectorInv, CollectorTypes
    <2>3. SnapshotIsYoung'
      BY <2>1 DEF CollectorInv, SnapshotIsYoung, WrittenIsFresh
    <2>4. CASE Trade
      <3>1. /\ stream = "available" /\ stream' = stream /\ disturbed' = disturbed
            /\ tallied' = tallied + 1 /\ untold' = untold + 1
        BY <2>4 DEF Trade
      <3>2. WindowIsKept'
        BY <2>1, <3>1 DEF CollectorInv, WindowIsKept, TradesToldOnce
      <3> QED
        BY <2>2, <2>3, <3>2 DEF CollectorInv
    <2>5. CASE StreamEnds
      <3>1. /\ stream = "available" /\ stream' = "unavailable" /\ disturbed' = TRUE
            /\ tallied' = tallied /\ untold' = untold
        BY <2>5 DEF StreamEnds
      <3>2. at # "stream"
        BY <3>1 DEF CollectorInv, WindowIsKept
      <3>3. WindowIsKept'
        BY <2>1, <3>1, <3>2 DEF CollectorInv, WindowIsKept, TradesToldOnce
      <3> QED
        BY <2>2, <2>3, <3>3 DEF CollectorInv
    <2> QED
      BY <1>2, <2>4, <2>5
  <1> QED
    BY <1>1, <1>2

\* One request of a tick after another, each of which waits anew.
LEMMA RequestsKeepTypes ==
  ASSUME CollectorConfigured, CollectorTypes,
         \/ GetClient \/ StartStream \/ Diagnose \/ ReadBook
         \/ ListChain \/ ReadTickers \/ ReadAccount
         \/ TickFails \/ Persist \/ NextTick \/ Stop
  PROVE  CollectorTypes'
  <1>1. CASE GetClient \/ StartStream
    BY <1>1 DEF GetClient, StartStream, Begun, Ask, ages, CollectorTypes,
       CollectorConfigured, Requests
  <1>2. CASE Diagnose
    BY <1>2 DEF Diagnose, TrackerIsRecent, Ask, ages, CollectorTypes, CollectorConfigured,
       Requests
  <1>3. CASE ReadBook
    BY <1>3 DEF ReadBook, Ask, CollectorTypes, CollectorConfigured, Requests, Age
  <1>4. CASE ListChain \/ ReadAccount \/ NextTick
    BY <1>4 DEF ListChain, ReadAccount, NextTick, Ask, ages, CollectorTypes,
       CollectorConfigured, Requests, Age
  <1>5. CASE ReadTickers
    BY <1>5 DEF ReadTickers, Ask, CollectorTypes, CollectorConfigured, Requests, Age
  <1>6. CASE TickFails \/ Persist
    BY <1>6 DEF TickFails, Persist, Ask, CollectorTypes, CollectorConfigured, Requests, Age
  <1>7. CASE Stop
    BY <1>7 DEF Stop, ages, CollectorTypes, CollectorConfigured, Requests
  <1> QED
    BY <1>1, <1>2, <1>3, <1>4, <1>5, <1>6, <1>7

LEMMA RequestsKeepYoung ==
  ASSUME CollectorConfigured, CollectorTypes, SnapshotIsYoung,
         \/ GetClient \/ StartStream \/ Diagnose \/ ReadBook
         \/ ListChain \/ ReadTickers \/ ReadAccount
         \/ TickFails \/ Persist \/ NextTick \/ Stop
  PROVE  SnapshotIsYoung'
  <1>1. /\ Timeout \in Nat /\ MaxAge \in Nat /\ MaxOptionAge \in Nat /\ Refresh \in Nat \ {0}
        /\ waited \in Nat /\ elapsed \in Nat /\ tracker \in Nat /\ ticker \in Nat
        /\ chain \in Int /\ book \in Int /\ iv \in Int
        /\ at \in Requests => waited <= Timeout
    BY DEF CollectorConfigured, CollectorTypes, Age, NoAge
  <1>2. CASE GetClient \/ StartStream
    <2>1. iv = NoAge /\ iv' = iv
      BY <1>2 DEF GetClient, StartStream, Begun, ages, SnapshotIsYoung
    <2>2. at' = "stream" \/ (at' = "diagnostics" /\ elapsed' = 0 /\ waited' = 0)
      BY <1>2 DEF GetClient, StartStream, Begun, Ask
    <2> QED
      BY <2>1, <2>2 DEF SnapshotIsYoung, WrittenIsFresh
  <1>3. CASE Diagnose
    <2>1. /\ at = "diagnostics" /\ at' = "book" /\ waited' = 0
          /\ elapsed' = elapsed /\ tracker' = tracker /\ iv' = iv
          /\ valid' => tracker <= MaxAge
      BY <1>3 DEF Diagnose, TrackerIsRecent, Ask, ages
    <2>2. iv = NoAge /\ elapsed <= waited /\ waited <= Timeout
      BY <1>1, <2>1 DEF SnapshotIsYoung, Requests
    <2> QED
      BY <1>1, <2>1, <2>2 DEF SnapshotIsYoung, WrittenIsFresh
  <1>4. CASE ReadBook
    <2>1. /\ at = "book" /\ waited' = 0 /\ iv = NoAge /\ iv' = iv
          /\ elapsed' = elapsed /\ chain' = chain
          /\ elapsed <= Timeout + waited /\ waited <= Timeout
          /\ valid => tracker <= MaxAge + waited
      BY <1>1, <1>4 DEF ReadBook, Ask, SnapshotIsYoung, Requests
    <2>2. CASE /\ book' = tracker /\ valid' = valid
               /\ at' = IF chain = NoAge \/ chain - elapsed >= Refresh
                        THEN "chain" ELSE "tickers"
      BY <1>1, <2>1, <2>2 DEF SnapshotIsYoung, WrittenIsFresh, NoAge
    <2>3. CASE book' = NoAge /\ valid' = FALSE /\ at' = "account"
      BY <2>1, <2>3 DEF SnapshotIsYoung, WrittenIsFresh
    <2> QED
      BY <1>4, <2>2, <2>3 DEF ReadBook, Ask
  <1>5. CASE ListChain
    <2>1. /\ at = "chain" /\ waited' = 0 /\ iv = NoAge /\ iv' = iv
          /\ elapsed' = elapsed /\ book' = book /\ valid' = valid
          /\ elapsed <= 2 * Timeout + waited /\ waited <= Timeout
          /\ valid => book # NoAge /\ book <= MaxAge + Timeout + waited
          /\ (chain' = elapsed /\ at' = "tickers") \/ at' = "account"
      BY <1>1, <1>5 DEF ListChain, Ask, SnapshotIsYoung, Requests
    <2> QED
      BY <1>1, <2>1 DEF SnapshotIsYoung, WrittenIsFresh
  <1>6. CASE ReadTickers
    <2>1. /\ at = "tickers" /\ at' = "account" /\ waited' = 0
          /\ chain' = chain /\ book' = book /\ valid' = valid
          /\ iv' = NoAge \/ (iv' = ticker /\ ticker - elapsed <= MaxOptionAge)
          /\ elapsed <= 3 * Timeout + waited /\ waited <= Timeout
          /\ valid => book # NoAge /\ book <= MaxAge + 2 * Timeout + waited
          /\ chain < Refresh + 3 * Timeout + waited
      BY <1>1, <1>6 DEF ReadTickers, Ask, SnapshotIsYoung, Requests
    <2> QED
      BY <1>1, <2>1 DEF SnapshotIsYoung, WrittenIsFresh
  <1>7. CASE ReadAccount
    <2>1. /\ at = "account" /\ at' = "persist" /\ waited' = 0
          /\ chain' = chain /\ book' = book /\ valid' = valid /\ iv' = iv
          /\ waited <= Timeout
      BY <1>1, <1>7 DEF ReadAccount, Ask, ages, Requests
    <2> QED
      BY <1>1, <2>1 DEF SnapshotIsYoung, WrittenIsFresh
  <1>8. CASE TickFails
    BY <1>8 DEF TickFails, Ask, SnapshotIsYoung, WrittenIsFresh
  <1>9. CASE Persist \/ NextTick
    BY <1>9 DEF Persist, NextTick, Ask, ages, SnapshotIsYoung, WrittenIsFresh
  <1>10. CASE Stop
    BY <1>10 DEF Stop, SnapshotIsYoung, WrittenIsFresh
  <1> QED
    BY <1>2, <1>3, <1>4, <1>5, <1>6, <1>7, <1>8, <1>9, <1>10

LEMMA RequestsKeepWindow ==
  ASSUME WindowIsKept,
         \/ GetClient \/ StartStream \/ Diagnose \/ ReadBook
         \/ ListChain \/ ReadTickers \/ ReadAccount
         \/ TickFails \/ Persist \/ NextTick \/ Stop
  PROVE  WindowIsKept'
  <1>1. CASE GetClient
    BY <1>1 DEF GetClient, Begun, Ask, tradeVars, WindowIsKept, TradesToldOnce
  <1>2. CASE StartStream
    BY <1>2 DEF StartStream, Begun, Ask, WindowIsKept, TradesToldOnce
  <1>3. CASE Diagnose \/ NextTick
    BY <1>3 DEF Diagnose, NextTick, Ask, tradeVars, WindowIsKept, TradesToldOnce
  <1>4. CASE ReadBook
    <2>1. /\ at = "book" /\ window = 0 /\ Drained
          /\ UNCHANGED <<stream, untold, disturbed>>
          /\ at' \in {"chain", "tickers", "account"}
      BY <1>4 DEF ReadBook, Ask, WindowIsKept
    <2> QED
      BY <2>1 DEF Drained, WindowIsKept, TradesToldOnce
  <1>5. CASE ListChain \/ ReadTickers \/ ReadAccount
    <2>1. /\ UNCHANGED <<stream, tallied, window, untold, disturbed>>
          /\ at' \in {"tickers", "account", "persist"}
      BY <1>5 DEF ListChain, ReadTickers, ReadAccount, Ask, tradeVars
    <2> QED
      BY <2>1 DEF WindowIsKept, TradesToldOnce
  <1>6. CASE TickFails
    <2>1. /\ at' = "persist" /\ Drained /\ UNCHANGED <<stream, untold>>
          /\ disturbed' = (disturbed \/ window > 0)
      BY <1>6 DEF TickFails, Ask
    <2>2. /\ tallied \in Nat /\ window \in Nat /\ untold \in Nat
          /\ tallied + window <= untold
      BY DEF WindowIsKept, TradesToldOnce
    <2>3. ~disturbed' => ~disturbed /\ ~(window > 0)
      BY <2>1, Zenon
    <2> QED
      BY <2>1, <2>2, <2>3 DEF Drained, WindowIsKept, TradesToldOnce
  <1>7. CASE Persist
    <2>1. /\ at' = "sleep" /\ window' = 0 /\ UNCHANGED <<stream, tallied>>
          /\ \/ untold' = untold - window /\ disturbed' = disturbed
             \/ disturbed' = (disturbed \/ window > 0) /\ untold' = untold
      BY <1>7 DEF Persist, Ask
    <2>2. /\ tallied \in Nat /\ window \in Nat /\ untold \in Nat
          /\ tallied + window <= untold
      BY DEF WindowIsKept, TradesToldOnce
    <2>3. CASE untold' = untold - window /\ disturbed' = disturbed
      BY <2>1, <2>2, <2>3 DEF WindowIsKept, TradesToldOnce
    <2>4. CASE disturbed' = (disturbed \/ window > 0) /\ untold' = untold
      <3>1. ~disturbed' => ~disturbed /\ ~(window > 0)
        BY <2>4, Zenon
      <3> QED
        BY <2>1, <2>2, <2>4, <3>1 DEF WindowIsKept, TradesToldOnce
    <2> QED
      BY <2>1, <2>3, <2>4
  <1>8. CASE Stop
    BY <1>8 DEF Stop, tradeVars, WindowIsKept, TradesToldOnce
  <1> QED
    BY <1>1, <1>2, <1>3, <1>4, <1>5, <1>6, <1>7, <1>8

\* However long the requests take, what a valid snapshot tells when it is written
\* is as fresh as they allow, and no trade is told twice or, but for a stream that
\* ends and a write that fails, left out (collect_snapshot_once, drain).
THEOREM SnapshotsAreFresh ==
    ASSUME CollectorConfigured
    PROVE  CollectorSpec => []WrittenFreshAndOnce
  <1>1. CollectorInit => CollectorInv
    <2> SUFFICES ASSUME CollectorInit PROVE CollectorInv
      OBVIOUS
    <2>1. CollectorTypes
      BY DEF CollectorInit, CollectorTypes, CollectorConfigured, Requests, Age
    <2>2. SnapshotIsYoung
      BY DEF CollectorInit, SnapshotIsYoung, WrittenIsFresh
    <2>3. WindowIsKept
      BY DEF CollectorInit, WindowIsKept, TradesToldOnce
    <2> QED
      BY <2>1, <2>2, <2>3 DEF CollectorInv
  <1>2. CollectorInv /\ [CollectorNext]_collectorVars => CollectorInv'
    <2> SUFFICES ASSUME CollectorInv, [CollectorNext]_collectorVars PROVE CollectorInv'
      OBVIOUS
    <2>1. CASE UNCHANGED collectorVars
      BY <2>1 DEF collectorVars, ages, tradeVars, CollectorInv, CollectorTypes,
         SnapshotIsYoung, WrittenIsFresh, WindowIsKept, TradesToldOnce
    <2>2. CASE \/ GetClient \/ StartStream \/ Diagnose \/ ReadBook
               \/ ListChain \/ ReadTickers \/ ReadAccount
               \/ TickFails \/ Persist \/ NextTick \/ Stop
      <3>1. CollectorTypes'
        BY <2>2, RequestsKeepTypes DEF CollectorInv
      <3>2. SnapshotIsYoung'
        BY <2>2, RequestsKeepYoung DEF CollectorInv
      <3>3. WindowIsKept'
        BY <2>2, RequestsKeepWindow DEF CollectorInv
      <3> QED
        BY <3>1, <3>2, <3>3 DEF CollectorInv
    <2> QED
      BY <2>1, <2>2, CollectorTimePasses, CollectorIsTold DEF CollectorNext
  <1>3. CollectorInv => WrittenFreshAndOnce
    BY DEF CollectorInv, SnapshotIsYoung, WindowIsKept, WrittenFreshAndOnce
  <1> QED
    BY <1>1, <1>2, <1>3, PTL DEF CollectorSpec

-----------------------------------------------------------------------------
(* The options IV provider *)

Contract == [expiry : Int, strike : Int, type : {"C", "P"}]
Ticker == [mark : Int, bid : Int, ask : Int, age : Int, told : BOOLEAN]

\* A set of naturals that is not empty has a least element.
LEMMA LeastNatural ==
  ASSUME NEW T \in SUBSET Nat, T # {}
  PROVE  \E x \in T : \A y \in T : x <= y
  <1> DEFINE R == {ss \in Nat \X Nat : ss[1] < ss[2]}
  <1>1. IsWellFoundedOn(R, Nat)
    BY NatLessThanWellFounded DEF OpToRel
  <1>2. PICK x \in T : \A y \in T : ~(<<y, x>> \in R)
    <2> HIDE DEF R
    <2> QED
      BY <1>1, WFMin
  <1>3. ASSUME NEW y \in T PROVE x <= y
    <2>1. <<y, x>> \notin R
      BY <1>2
    <2>2. x \in Nat /\ y \in Nat
      OBVIOUS
    <2> QED
      BY <2>1, <2>2
  <1> QED
    BY <1>3

\* Of whole numbers one is nearest a target, and is the lower of two that are.
LEMMA NearestExists ==
  ASSUME NEW S \in SUBSET Int, S # {}, NEW target \in Int
  PROVE  \E e \in S : \A f \in S :
            \/ Abs(e - target) < Abs(f - target)
            \/ Abs(e - target) = Abs(f - target) /\ e <= f
  <1> DEFINE T == {Abs(e - target) : e \in S}
  <1>1. T \in SUBSET Nat /\ T # {}
    <2>1. \A e \in S : Abs(e - target) \in Nat
      BY DEF Abs
    <2>2. \E e \in S : TRUE
      OBVIOUS
    <2> QED
      BY <2>1, <2>2
  <1>2. PICK d \in T : \A y \in T : d <= y
    <2> HIDE DEF T
    <2> QED
      BY <1>1, LeastNatural
  <1>3. PICK far \in S : Abs(far - target) = d
    BY <1>2
  <1>4. \A f \in S : d <= Abs(f - target)
    BY <1>2
  <1>5. d \in Nat
    BY <1>1
  <1> HIDE DEF T
  <1>6. CASE target - d \in S
    <2>1. Abs((target - d) - target) = d
      BY <1>5 DEF Abs
    <2>2. ASSUME NEW f \in S, Abs(f - target) = d PROVE target - d <= f
      BY <2>2, <1>5 DEF Abs
    <2>3. \A f \in S : \/ Abs((target - d) - target) < Abs(f - target)
                       \/ Abs((target - d) - target) = Abs(f - target) /\ target - d <= f
      <3> SUFFICES ASSUME NEW f \in S
                   PROVE  d < Abs(f - target) \/ (d = Abs(f - target) /\ target - d <= f)
        BY <2>1
      <3>1. Abs(f - target) \in Int /\ d <= Abs(f - target)
        BY <1>4 DEF Abs
      <3> QED
        BY <3>1, <2>2, <1>5
    <2> QED
      BY <2>3, <1>6
  <1>7. CASE target - d \notin S
    <2>1. ASSUME NEW f \in S, Abs(f - target) = d PROVE f = target + d
      <3>1. f = target - d \/ f = target + d
        BY <2>1, <1>5 DEF Abs
      <3> QED
        BY <3>1, <1>7
    <2>2. \A f \in S : \/ Abs(far - target) < Abs(f - target)
                       \/ Abs(far - target) = Abs(f - target) /\ far <= f
      <3> SUFFICES ASSUME NEW f \in S
                   PROVE  d < Abs(f - target) \/ (d = Abs(f - target) /\ far <= f)
        BY <1>3
      <3>1. Abs(f - target) \in Int /\ d <= Abs(f - target)
        BY <1>4 DEF Abs
      <3>2. CASE d = Abs(f - target)
        <4>1. f = target + d /\ far = target + d
          BY <3>2, <2>1, <1>3
        <4> QED
          BY <4>1, <3>2, <1>5
      <3> QED
        BY <3>1, <3>2, <1>5
    <2> QED
      BY <2>2
  <1> QED
    BY <1>6, <1>7

\* The least and the greatest of two whole numbers.
LEMMA ExtremesOfTwo ==
  ASSUME NEW x \in Int, NEW y \in Int
  PROVE  /\ Min({x, y}) \in {x, y} /\ Min({x, y}) <= x /\ Min({x, y}) <= y
         /\ Max({x, y}) \in {x, y} /\ x <= Max({x, y}) /\ y <= Max({x, y})
  <1>1. \E a \in {x, y} : \A b \in {x, y} : a <= b
    <2>1. CASE x <= y
      BY <2>1
    <2>2. CASE y <= x
      BY <2>2
    <2> QED
      BY <2>1, <2>2
  <1>2. \E a \in {x, y} : \A b \in {x, y} : a >= b
    <2>1. CASE x <= y
      BY <2>1
    <2>2. CASE y <= x
      BY <2>2
    <2> QED
      BY <2>1, <2>2
  <1>3. Min({x, y}) \in {x, y} /\ \A b \in {x, y} : Min({x, y}) <= b
    BY <1>1 DEF Min
  <1>4. Max({x, y}) \in {x, y} /\ \A b \in {x, y} : Max({x, y}) >= b
    BY <1>2 DEF Max
  <1> QED
    BY <1>3, <1>4

\* The IV of a ticker that is used is within the bound of the configuration.
LEMMA TickerIvBounded ==
  ASSUME NEW t \in Ticker
  PROVE  TickerIv(t) \in 0..MaxIv
  <1> DEFINE mark == ReadIv(t.mark)
             bid == ReadIv(t.bid)
             ask == ReadIv(t.ask)
  <1>1. MaxIv \in Nat
    BY ChainAssumption
  <1>2. t.mark \in Int /\ t.bid \in Int /\ t.ask \in Int
    BY DEF Ticker
  <1>3. mark \in 0..MaxIv /\ bid \in 0..MaxIv /\ ask \in 0..MaxIv
    BY <1>1, <1>2 DEF ReadIv, NoIv
  <1>4. TickerIv(t) = CASE mark # NoIv -> mark
                        [] mark = NoIv /\ bid # NoIv /\ ask # NoIv -> (bid + ask) \div 2
                        [] OTHER -> Max({bid, ask})
    BY DEF TickerIv
  <1> HIDE DEF mark, bid, ask
  <1>5. Max({bid, ask}) \in {bid, ask}
    BY <1>3, ExtremesOfTwo
  <1>6. (bid + ask) \div 2 \in 0..MaxIv
    BY <1>1, <1>3
  <1>7. CASE mark # NoIv
    BY <1>3, <1>4, <1>7
  <1>8. CASE mark = NoIv /\ bid # NoIv /\ ask # NoIv
    BY <1>4, <1>6, <1>8
  <1>9. CASE mark = NoIv /\ ~(bid # NoIv /\ ask # NoIv)
    BY <1>3, <1>4, <1>5, <1>9
  <1> QED
    BY <1>7, <1>8, <1>9

\* What IvIsAtTheMoney says of a quote, but for the age of the list.
AtTheMoney(q, pool) ==
    LET Dte(e) == e - q.at
        fit == {e \in Expiries(pool) :
                  /\ MinDte <= Dte(e) /\ Dte(e) <= MaxDte
                  /\ \E c, p \in pool : c.expiry = e /\ p.expiry = e
                                        /\ c.type = "C" /\ p.type = "P"}
    IN  /\ q.expiry \in fit
        /\ \A e \in fit : Abs(Dte(q.expiry) - TargetDte) <= Abs(Dte(e) - TargetDte)
        /\ \A c \in pool : c.expiry = q.expiry
             => Abs(q.strike - q.reference) <= Abs(c.strike - q.reference)
        /\ NearEnough(q.strike, q.reference)
        /\ \A c \in q.used : c \in pool /\ c.expiry = q.expiry /\ c.strike = q.strike
        /\ 0 < q.iv /\ q.iv <= MaxIv /\ q.age <= MaxDataAge
        /\ q.confidence = 100 => {c.type : c \in q.used} = {"C", "P"}

\* A quote of legs of the strike, within the bounds of the configuration.
QuoteOf(q, ref, expiry, strike, legs) ==
    /\ q.at = today /\ q.reference = ref
    /\ q.expiry = expiry /\ q.strike = strike /\ q.used \subseteq legs
    /\ 0 < q.iv /\ q.iv <= MaxIv /\ q.age <= MaxDataAge
    /\ q.confidence = 100 => \A leg \in {"C", "P"} : \E c \in q.used : c.type = leg

\* Such is what is built of the legs of one strike that have usable tickers.
LEMMA BuiltWithinBounds ==
  ASSUME today \in Int,
         NEW ref \in Int, NEW expiry \in Int, NEW strike \in Int,
         NEW legs, \A c \in legs : c \in Contract /\ c.expiry = expiry /\ c.strike = strike,
         NEW tickers, \A c \in legs : tickers[c] \in Ticker,
         NEW q, q = Built(ref, expiry, strike, legs, tickers), q.available
  PROVE  QuoteOf(q, ref, expiry, strike, legs)
  <1> DEFINE used == {c \in legs : Usable(tickers[c])}
             Iv(c) == TickerIv(tickers[c])
             AgeOf(c) == tickers[c].age
             ivs == {Iv(c) : c \in used}
             told == {AgeOf(c) : c \in used}
  <1>1. used # {}
    BY DEF Built, Unavailable
  <1>2. /\ q.at = today /\ q.reference = ref /\ q.expiry = expiry /\ q.strike = strike
        /\ q.used = used /\ q.iv = (Min(ivs) + Max(ivs)) \div 2
        /\ q.age = Max({0, Min(told)})
        /\ q.confidence = IF Cardinality(used) = 2 THEN 100 ELSE 75
    BY <1>1 DEF Built
  <1>3. \A c \in used : Iv(c) \in 1..MaxIv /\ AgeOf(c) \in Int /\ AgeOf(c) <= MaxDataAge
    <2> SUFFICES ASSUME NEW c \in used
                 PROVE  Iv(c) \in 1..MaxIv /\ AgeOf(c) \in Int /\ AgeOf(c) <= MaxDataAge
      OBVIOUS
    <2>1. tickers[c] \in Ticker /\ Usable(tickers[c])
      OBVIOUS
    <2>2. Iv(c) \in 0..MaxIv /\ Iv(c) # 0 /\ AgeOf(c) <= MaxDataAge
      BY <2>1, TickerIvBounded DEF Usable, NoIv
    <2>3. AgeOf(c) \in Int
      BY <2>1 DEF Ticker
    <2> QED
      BY <2>2, <2>3, ChainAssumption
  <1>4. used \subseteq legs
    OBVIOUS
  <1>5. \E u, v \in used : used = {u, v}
    <2>1. PICK u \in used : TRUE
      BY <1>1
    <2>2. CASE used = {u}
      BY <2>2
    <2>3. CASE \E v \in used : v # u
      <3>1. PICK v \in used : v # u
        BY <2>3
      <3>2. ASSUME NEW w \in used PROVE w = u \/ w = v
        <4>1. /\ u \in Contract /\ u.expiry = expiry /\ u.strike = strike
              /\ v \in Contract /\ v.expiry = expiry /\ v.strike = strike
              /\ w \in Contract /\ w.expiry = expiry /\ w.strike = strike
          BY <3>2, <3>1, <2>1
        <4>2. u.type # v.type
          BY <4>1, <3>1 DEF Contract
        <4>3. w.type = u.type \/ w.type = v.type
          BY <4>1, <4>2 DEF Contract
        <4> QED
          BY <4>1, <4>3 DEF Contract
      <3> QED
        BY <3>1, <3>2
    <2> QED
      BY <2>2, <2>3
  <1> HIDE DEF used
  <1>6. PICK u \in used, v \in used : used = {u, v}
    BY <1>5
  <1>7. ivs = {Iv(u), Iv(v)} /\ told = {AgeOf(u), AgeOf(v)}
    BY <1>6
  <1>8. /\ Iv(u) \in Int /\ Iv(v) \in Int /\ 1 <= Iv(u) /\ 1 <= Iv(v)
        /\ Iv(u) <= MaxIv /\ Iv(v) <= MaxIv /\ AgeOf(u) \in Int /\ AgeOf(v) \in Int
        /\ AgeOf(u) <= MaxDataAge /\ AgeOf(v) <= MaxDataAge
        /\ MaxIv \in Nat /\ MaxDataAge \in Nat
    BY <1>3, ChainAssumption
  <1>9. q.confidence = 100 => u # v
    <2> SUFFICES ASSUME u = v PROVE q.confidence # 100
      OBVIOUS
    <2>1. used = {u}
      BY <1>6
    <2>2. Cardinality(used) = 1
      BY <2>1, FS_Singleton
    <2> QED
      BY <2>2, <1>2
  <1>10. u # v => \A leg \in {"C", "P"} : \E c \in used : c.type = leg
    <2> SUFFICES ASSUME u # v, NEW leg \in {"C", "P"} PROVE \E c \in used : c.type = leg
      OBVIOUS
    <2>1. /\ u \in Contract /\ u.expiry = expiry /\ u.strike = strike
          /\ v \in Contract /\ v.expiry = expiry /\ v.strike = strike
      BY <1>4
    <2>2. u.type # v.type /\ u.type \in {"C", "P"} /\ v.type \in {"C", "P"}
      BY <2>1 DEF Contract
    <2> QED
      BY <2>2
  <1> HIDE DEF Iv, AgeOf, ivs, told
  <1>11. /\ Min(ivs) \in {Iv(u), Iv(v)} /\ Max(ivs) \in {Iv(u), Iv(v)}
         /\ Min(told) \in {AgeOf(u), AgeOf(v)}
    BY <1>7, <1>8, ExtremesOfTwo
  <1>12. 0 < q.iv /\ q.iv <= MaxIv
    BY <1>2, <1>8, <1>11
  <1>13. q.age <= MaxDataAge
    <2>1. Min(told) \in Int /\ Min(told) <= MaxDataAge
      BY <1>8, <1>11
    <2> DEFINE low == Min(told)
    <2>2. q.age = Max({0, low}) /\ low \in Int /\ low <= MaxDataAge
      BY <2>1, <1>2
    <2> HIDE DEF low
    <2>3. Max({0, low}) \in {0, low}
      BY <2>2, ExtremesOfTwo
    <2> QED
      BY <2>2, <2>3, <1>8
  <1> QED
    BY <1>2, <1>4, <1>9, <1>10, <1>12, <1>13 DEF QuoteOf

\* What an answer tells of a list of contracts that have not expired is at the money.
LEMMA ObservedAtTheMoney ==
  ASSUME today \in Int,
         NEW pool, \A c \in pool : c \in Contract,
         NEW ref \in Int, NEW answers,
         NEW tickers, \A c \in pool : tickers[c] \in Ticker,
         Observed(pool, ref, answers, tickers).available
  PROVE  /\ AtTheMoney(Observed(pool, ref, answers, tickers), pool)
         /\ Observed(pool, ref, answers, tickers).at = today
  <1> DEFINE expiry == SelectExpiry(pool)
             atExpiry == OfExpiry(pool, expiry)
             strike == SelectStrike(atExpiry, ref)
             legs == {c \in atExpiry : c.strike = strike}
             q == Observed(pool, ref, answers, tickers)
             E == Eligible(pool)
             strikes == {c.strike : c \in atExpiry}
  <1>1. E # {} /\ NearEnough(strike, ref) /\ q = Built(ref, expiry, strike, legs, tickers)
    BY DEF Observed, Unavailable
  <1>2. E \in SUBSET Int
    BY DEF Eligible, Expiries, Contract
  <1>3. today + TargetDte \in Int
    BY ChainAssumption
  <1>4. /\ expiry \in E
        /\ \A f \in E : \/ Abs(expiry - today - TargetDte) < Abs(f - today - TargetDte)
                        \/ /\ Abs(expiry - today - TargetDte) = Abs(f - today - TargetDte)
                           /\ expiry <= f
    <2>1. \E e \in E : \A f \in E :
             \/ Abs(e - (today + TargetDte)) < Abs(f - (today + TargetDte))
             \/ Abs(e - (today + TargetDte)) = Abs(f - (today + TargetDte)) /\ e <= f
      <3> HIDE DEF E
      <3> QED
        BY <1>1, <1>2, <1>3, NearestExists
    <2>2. \A e \in Int : e - (today + TargetDte) = e - today - TargetDte
      BY ChainAssumption
    <2>3. \E e \in E : \A f \in E :
             \/ Abs(e - today - TargetDte) < Abs(f - today - TargetDte)
             \/ Abs(e - today - TargetDte) = Abs(f - today - TargetDte) /\ e <= f
      <3>1. PICK e \in E : \A f \in E :
               \/ Abs(e - (today + TargetDte)) < Abs(f - (today + TargetDte))
               \/ Abs(e - (today + TargetDte)) = Abs(f - (today + TargetDte)) /\ e <= f
        BY <2>1
      <3> HIDE DEF E
      <3>2. e - (today + TargetDte) = e - today - TargetDte
        BY <2>2, <1>2
      <3>3. \A f \in E : f - (today + TargetDte) = f - today - TargetDte
        BY <2>2, <1>2
      <3> QED
        BY <3>1, <3>2, <3>3
    <2> QED
      BY <2>3 DEF SelectExpiry
  <1>5. expiry \in Int
    BY <1>2, <1>4
  <1>6. /\ expiry \in Expiries(pool) /\ MinDte <= expiry - today /\ expiry - today <= MaxDte
        /\ {"C", "P"} \subseteq {c.type : c \in atExpiry}
    BY <1>4 DEF Eligible, InRange
  <1>7. strikes # {} /\ strikes \in SUBSET Int
    BY <1>6 DEF OfExpiry, Contract
  <1>8. /\ strike \in strikes
        /\ \A m \in strikes : \/ Abs(strike - ref) < Abs(m - ref)
                              \/ Abs(strike - ref) = Abs(m - ref) /\ strike <= m
    <2>1. \E k \in strikes : \A m \in strikes :
             \/ Abs(k - ref) < Abs(m - ref)
             \/ Abs(k - ref) = Abs(m - ref) /\ k <= m
      <3> HIDE DEF strikes
      <3> QED
        BY <1>7, NearestExists
    <2> QED
      BY <2>1 DEF SelectStrike
  <1>9. strike \in Int
    BY <1>7, <1>8
  <1>10. \A c \in legs : /\ c \in pool /\ c \in Contract
                         /\ c.expiry = expiry /\ c.strike = strike
    BY DEF OfExpiry
  <1>11. \A c \in legs : tickers[c] \in Ticker
    BY <1>10
  <1> HIDE DEF expiry, strike, legs
  <1>12. /\ q.at = today /\ q.reference = ref
         /\ q.expiry = expiry /\ q.strike = strike /\ q.used \subseteq legs
         /\ 0 < q.iv /\ q.iv <= MaxIv /\ q.age <= MaxDataAge
         /\ q.confidence = 100 => \A leg \in {"C", "P"} : \E c \in q.used : c.type = leg
    <2>1. q.available
      OBVIOUS
    <2>2. \A c \in legs : c \in Contract /\ c.expiry = expiry /\ c.strike = strike
      BY <1>10
    <2> HIDE DEF atExpiry, strikes, E, q
    <2>3. QuoteOf(q, ref, expiry, strike, legs)
      BY <1>1, <2>1, <2>2, <1>5, <1>9, <1>11, BuiltWithinBounds
    <2> QED
      BY <2>3 DEF QuoteOf
  <1> HIDE DEF q
  <1> DEFINE fit == {e \in Expiries(pool) :
                       /\ MinDte <= e - q.at /\ e - q.at <= MaxDte
                       /\ \E c, p \in pool : c.expiry = e /\ p.expiry = e
                                             /\ c.type = "C" /\ p.type = "P"}
  <1>13. fit \subseteq E
    BY <1>12 DEF Eligible, InRange, OfExpiry
  <1>14. q.expiry \in fit
    <2>1. \E c \in atExpiry : c.type = "C"
      BY <1>6
    <2>2. \E p \in atExpiry : p.type = "P"
      BY <1>6
    <2>3. \E c, p \in pool : c.expiry = expiry /\ p.expiry = expiry
                             /\ c.type = "C" /\ p.type = "P"
      BY <2>1, <2>2 DEF OfExpiry
    <2> QED
      BY <2>3, <1>6, <1>12
  <1>15. \A e \in fit : Abs(q.expiry - q.at - TargetDte) <= Abs(e - q.at - TargetDte)
    <2> SUFFICES ASSUME NEW e \in fit
                 PROVE  Abs(expiry - today - TargetDte) <= Abs(e - today - TargetDte)
      BY <1>12
    <2>1. e \in E
      BY <1>13
    <2>2. e \in Int /\ TargetDte \in Int
      BY <2>1, <1>2, ChainAssumption
    <2>3. Abs(expiry - today - TargetDte) \in Int /\ Abs(e - today - TargetDte) \in Int
      BY <2>2, <1>5 DEF Abs
    <2> HIDE DEF E
    <2> QED
      BY <2>1, <2>3, <1>4
  <1>16. \A c \in pool : c.expiry = q.expiry
            => Abs(q.strike - q.reference) <= Abs(c.strike - q.reference)
    <2> SUFFICES ASSUME NEW c \in pool, c.expiry = expiry
                 PROVE  Abs(strike - ref) <= Abs(c.strike - ref)
      BY <1>12
    <2>1. c.strike \in strikes
      BY DEF OfExpiry
    <2> HIDE DEF strikes
    <2>2. c.strike \in Int
      BY <2>1, <1>7
    <2>3. Abs(strike - ref) \in Int /\ Abs(c.strike - ref) \in Int
      BY <2>2, <1>9 DEF Abs
    <2> QED
      BY <2>1, <2>3, <1>8
  <1>17. NearEnough(q.strike, q.reference)
    BY <1>1, <1>12
  <1>18. \A c \in q.used : c \in pool /\ c.expiry = q.expiry /\ c.strike = q.strike
    BY <1>10, <1>12
  <1>19. q.confidence = 100 => {c.type : c \in q.used} = {"C", "P"}
    <2> SUFFICES ASSUME q.confidence = 100 PROVE {c.type : c \in q.used} = {"C", "P"}
      OBVIOUS
    <2>1. \A c \in q.used : c.type \in {"C", "P"}
      BY <1>10, <1>12 DEF Contract
    <2>2. \A leg \in {"C", "P"} : \E c \in q.used : c.type = leg
      BY <1>12
    <2> QED
      BY <2>1, <2>2
  <1>20. AtTheMoney(q, pool)
    <2>1. /\ q.expiry \in fit
          /\ \A e \in fit : Abs(q.expiry - q.at - TargetDte) <= Abs(e - q.at - TargetDte)
      BY <1>14, <1>15
    <2> QED
      BY <2>1, <1>12, <1>16, <1>17, <1>18, <1>19 DEF AtTheMoney
  <1> QED
    BY <1>12, <1>20 DEF q

\* The list was fetched before now, and what the last quote tells was in it.
ChainInv ==
    /\ today \in Int /\ fetched_at \in Int
    /\ listed \in Listings
    /\ \A c \in contracts : c \in Contract
    /\ IvIsAtTheMoney

LEMMA ChainInvInit == ChainInit => ChainInv
  BY DEF ChainInit, ChainInv, IvIsAtTheMoney, Unavailable, NotFetched

\* The tickers of a list are tickers.
LEMMA MapsTell ==
  ASSUME NEW pool, NEW tickers \in TickerMaps(pool), NEW c \in pool
  PROVE  tickers[c] \in Ticker
  <1>1. PICK call \in Tickers, put \in Tickers :
          tickers = [d \in pool |-> IF d \notin listed THEN NoTicker
                                    ELSE IF d.type = "C" THEN call ELSE put]
    BY DEF TickerMaps
  <1>2. tickers[c] \in {NoTicker, call, put}
    BY <1>1
  <1>3. NoTicker \in Ticker
    BY DEF NoTicker, Ticker, NoIv
  <1>4. call \in Ticker /\ put \in Ticker
    BY ChainAssumption DEF Ticker
  <1> QED
    BY <1>2, <1>3, <1>4

LEMMA ChainInvStep == ChainInv /\ [ChainNext]_chainVars => ChainInv'
  <1> SUFFICES ASSUME ChainInv, [ChainNext]_chainVars PROVE ChainInv'
    OBVIOUS
  <1>1. /\ today \in Int /\ fetched_at \in Int /\ listed \in Listings
        /\ \A c \in contracts : c \in Contract
        /\ IvIsAtTheMoney
    BY DEF ChainInv
  <1>2. RefreshInterval \in Nat \ {0} /\ References \subseteq Int
    BY ChainAssumption
  <1>3. ASSUME UNCHANGED <<contracts, fetched_at>>, ~quote'.available PROVE IvIsAtTheMoney'
    BY <1>3 DEF IvIsAtTheMoney
  <1>4. ASSUME UNCHANGED <<contracts, fetched_at, quote>> PROVE IvIsAtTheMoney'
    BY <1>4, <1>1 DEF IvIsAtTheMoney, Expiries, NearEnough
  <1>5. \A ref : ~Unavailable(ref).available
    BY DEF Unavailable
  <1>6. ASSUME NEW pool, pool = Future(contracts'), \A c \in pool : c \in Contract,
               NEW ref \in References, NEW answers, NEW tickers \in TickerMaps(pool),
               quote' = Observed(pool, ref, answers, tickers),
               fetched_at' \in Int, today - fetched_at' < RefreshInterval
        PROVE  IvIsAtTheMoney'
    <2> SUFFICES ASSUME quote'.available PROVE IvIsAtTheMoney'
      BY DEF IvIsAtTheMoney
    <2>1. \A c \in pool : tickers[c] \in Ticker
      BY MapsTell
    <2>2. AtTheMoney(quote', pool) /\ quote'.at = today
      BY <1>1, <1>2, <1>6, <2>1, ObservedAtTheMoney
    <2> DEFINE unexpired == {c \in contracts' : c.expiry > quote'.at}
    <2>3. pool = unexpired
      BY <1>6, <2>2 DEF Future
    <2>4. AtTheMoney(quote', unexpired)
      BY <2>2, <2>3
    <2>5. quote'.at - fetched_at' < RefreshInterval
      BY <1>6, <2>2
    <2> QED
      BY <2>4, <2>5 DEF AtTheMoney, IvIsAtTheMoney, Expiries, NearEnough
  <1>7. CASE AskedWithoutPrice
    BY <1>1, <1>3, <1>5, <1>7 DEF AskedWithoutPrice, ChainInv
  <1>8. CASE AskedOfKept
    <2>1. /\ fetched_at' = fetched_at /\ contracts' = contracts /\ today' = today
          /\ listed' = listed /\ today - fetched_at < RefreshInterval
      BY <1>8 DEF AskedOfKept, Kept
    <2>2. PICK ref \in References \ {0}, answers \in BOOLEAN,
               tickers \in TickerMaps(Future(contracts)) :
            quote' = Observed(Future(contracts), ref, answers, tickers)
      BY <1>8 DEF AskedOfKept
    <2>3. \A c \in Future(contracts) : c \in Contract
      BY <1>1 DEF Future
    <2>4. IvIsAtTheMoney'
      BY <1>1, <1>6, <2>1, <2>2, <2>3
    <2> QED
      BY <1>1, <2>1, <2>4 DEF ChainInv
  <1>9. CASE AskedOfFetched
    <2>1. today' = today /\ listed' = listed
      BY <1>9 DEF AskedOfFetched
    <2>2. CASE Future(listed) = {}
      BY <1>1, <1>3, <1>5, <1>9, <2>2 DEF AskedOfFetched, ChainInv
    <2>3. CASE Future(listed) # {}
      <3>1. contracts' = Future(listed) /\ fetched_at' = today
        BY <1>9, <2>3 DEF AskedOfFetched
      <3>2. PICK ref \in References \ {0}, answers \in BOOLEAN,
                 tickers \in TickerMaps(Future(listed)) :
              quote' = Observed(Future(listed), ref, answers, tickers)
        BY <1>9, <2>3 DEF AskedOfFetched
      <3>3. \A c \in Future(listed) : c \in Contract
        BY <1>1, ChainAssumption DEF Future, Contract
      <3>4. Future(listed) = Future(contracts')
        BY <3>1 DEF Future
      <3>5. today - fetched_at' < RefreshInterval
        BY <1>1, <1>2, <3>1
      <3>6. IvIsAtTheMoney'
        BY <1>1, <1>6, <3>1, <3>2, <3>3, <3>4, <3>5
      <3> QED
        BY <1>1, <2>1, <3>1, <3>3, <3>6 DEF ChainInv
    <2> QED
      BY <2>2, <2>3
  <1>10. CASE ListingFails
    BY <1>1, <1>3, <1>5, <1>10 DEF ListingFails, ChainInv
  <1>11. CASE Relisted
    BY <1>1, <1>4, <1>11 DEF Relisted, ChainInv
  <1>12. CASE TimePasses
    BY <1>1, <1>4, <1>12 DEF TimePasses, ChainInv
  <1>13. CASE UNCHANGED chainVars
    BY <1>1, <1>4, <1>13 DEF chainVars, ChainInv
  <1> QED
    BY <1>7, <1>8, <1>9, <1>10, <1>11, <1>12, <1>13 DEF ChainNext

\* IV that is told was quoted at the money of a list no older than its interval:
\* the expiry and the strike are the nearest of those the list had, whatever has
\* been delisted or has expired since (options_iv.py:184-448).
THEOREM QuotesAreAtTheMoney == ChainSpec => []IvIsAtTheMoney
  <1>1. ChainInv => IvIsAtTheMoney
    BY DEF ChainInv
  <1> QED
    BY ChainInvInit, ChainInvStep, <1>1, PTL DEF ChainSpec
=============================================================================
