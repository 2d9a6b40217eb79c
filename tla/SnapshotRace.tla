------------------------------ MODULE SnapshotRace ------------------------------
(***************************************************************************)
(* The first snapshot of an order book (orderbook_snapshot_compat.py).     *)
(* The connector, which is not under src/, has two consumers of one queue: *)
(* the listener, which keeps what it takes in a cache, and the request of  *)
(* the initializer, which waits for a message of its own.  The patch lets  *)
(* the initializer look into the cache while the request waits.            *)
(***************************************************************************)
EXTENDS Naturals, Sequences

CONSTANT MaxMessages             \* bound: the snapshots that arrive

VARIABLES
    arrived,                     \* the snapshots that have arrived so far
    queue,                       \* the queue of the data source
    cached,                      \* _snapshot_messages of the pair, 0 for none
    request,                     \* request_task: where it is, and what it took
    initializer                  \* _request_with_cache_fallback: where it is, and what it returned

raceVars == <<arrived, queue, cached, request, initializer>>

RaceInit ==
    /\ arrived = 0 /\ queue = <<>> /\ cached = 0
    /\ request = [at |-> "none", took |-> 0]
    /\ initializer = [at |-> "starts", returned |-> 0]

Arrives ==
    /\ arrived < MaxMessages
    /\ arrived' = arrived + 1 /\ queue' = Append(queue, arrived + 1)
    /\ UNCHANGED <<cached, request, initializer>>

ListenerTakes ==
    /\ queue # <<>>
    /\ queue' = Tail(queue) /\ cached' = Head(queue)
    /\ UNCHANGED <<arrived, request, initializer>>

RequestTakes ==
    /\ request.at = "waits" /\ queue # <<>>
    /\ queue' = Tail(queue) /\ request' = [at |-> "done", took |-> Head(queue)]
    /\ UNCHANGED <<arrived, cached, initializer>>

\* Its attempts run out (TimeoutError, which the wait catches), or it fails.
RequestFails ==
    /\ request.at = "waits"
    /\ \E end \in {"timed_out", "failed"} : request' = [request EXCEPT !.at = end]
    /\ UNCHANGED <<arrived, queue, cached, initializer>>

Returns(n) == initializer' = [at |-> "returned", returned |-> n]
Raises == initializer' = [initializer EXCEPT !.at = "raised"]

\* The request is cancelled when it still waits: it takes nothing any more.
Cancelled == request' = IF request.at = "waits" THEN [request EXCEPT !.at = "cancelled"] ELSE request

\* The cache is looked at before anything is asked for.
Starts ==
    /\ initializer.at = "starts"
    /\ IF cached # 0 THEN Returns(cached) /\ UNCHANGED request
       ELSE /\ initializer' = [initializer EXCEPT !.at = "waits"]
            /\ request' = [request EXCEPT !.at = "waits"]
    /\ UNCHANGED <<arrived, queue, cached>>

\* Every tenth of a second, and when the request is done: the cache goes before
\* what the request has taken; a failure may be met before the cache is.
Looks ==
    /\ initializer.at = "waits"
    /\ \/ request.at = "failed" /\ Raises /\ UNCHANGED request
       \/ cached # 0 /\ Returns(cached) /\ Cancelled
       \/ request.at = "done" /\ cached = 0 /\ Returns(request.took) /\ UNCHANGED request
       \/ request.at = "timed_out" /\ cached = 0 /\ Raises /\ UNCHANGED request
    /\ UNCHANGED <<arrived, queue, cached>>

RaceNext == Arrives \/ ListenerTakes \/ RequestTakes \/ RequestFails \/ Starts \/ Looks

\* The event loop runs the listener and the initializer.
RaceSpec ==
    /\ RaceInit /\ [][RaceNext]_raceVars
    /\ WF_raceVars(ListenerTakes) /\ WF_raceVars(Starts \/ Looks)

-----------------------------------------------------------------------------
Served ==
    arrived > 0 =>
        \/ initializer.at = "returned" /\ initializer.returned \in 1..arrived
        \/ initializer.at = "raised" /\ request.at \in {"timed_out", "failed"}

\* Whoever wins the race for a snapshot, the initializer ends with one, without
\* waiting for the request to run out of attempts ("allowing the initializer to
\* use the snapshot as soon as the listener has cached it",
\* orderbook_snapshot_compat.py:7-8), and it raises only when the request did.
InitializerIsServed == <>[]Served
===============================================================================
