----------------------------- MODULE RequestHandler -----------------------------
(***************************************************************************)
(* RequestHandler (src/src/connector/fetcher.rs), the book-keeping a chart *)
(* does about what it asked the network for, as functions from a handler   *)
(* to a handler.                                                           *)
(*                                                                         *)
(* Abstractions.  A request does not carry its timestamps but its age: how *)
(* many of the deadlines of its status have passed.  Pending, Completed    *)
(* and Superseded have one (PENDING_TIMEOUT_MS, COMPLETED_RETENTION_MS,    *)
(* SUPERSEDED_RETENTION_MS), Failed has two (retry_at, and then            *)
(* FAILED_RETENTION_MS).  Attempts only feed the length of the retry delay *)
(* and are left out.  `empty` holds the ranges of empty_trade_fetches that *)
(* EMPTY_TRADE_FETCH_TTL has not dropped yet.                              *)
(***************************************************************************)
EXTENDS Integers, FiniteSets

CONSTANTS Id,   \* request ids (UUIDs)
          NoId  \* no request

ASSUME NoIdAssumption == NoId \notin Id

\* FetchRange.  Settings are the fields of BubbleSummary beside its timeframe.
Trades(from, to) ==
    [kind |-> "Trades", from |-> from, to |-> to, timeframe |-> 0, settings |-> 0]

IsValid(fetch) == fetch.from < fetch.to

NewHandler == [generation |-> 0, requests |-> [id \in {} |-> NoId], empty |-> {}]

\* FetchRequest::new
NewRequest(fetch, generation) ==
    [fetch |-> fetch, status |-> "Pending", generation |-> generation, age |-> 0]

MaxAge(status) == IF status = "Failed" THEN 2 ELSE 1

Turn(request, status) == [request EXCEPT !.status = status, !.age = 0]

Status(h, id) == IF id \in DOMAIN h.requests THEN h.requests[id].status ELSE "None"

Put(h, id, request) ==
    [h EXCEPT !.requests = [i \in DOMAIN @ \cup {id} |-> IF i = id THEN request ELSE @[i]]]

--------------------------------------------------------------------------------
\* Mutation of Cleanup: a pending request is waited for for ever.
CleanupForgetsPending(h) ==
    LET late(r) == r.age = MaxAge(r.status) /\ r.status # "Pending"
    IN [h EXCEPT !.requests = [i \in {i \in DOMAIN @ : ~late(@[i])} |-> @[i]]]

\* cleanup_stale_at: what is pending too long has failed, what is settled long ago goes.
Cleanup(h) ==
    LET late(r) == r.age = MaxAge(r.status)
        kept == {i \in DOMAIN h.requests :
                    h.requests[i].status = "Pending" \/ ~late(h.requests[i])}
    IN [h EXCEPT !.requests =
           [i \in kept |-> IF late(@[i]) THEN Turn(@[i], "Failed") ELSE @[i]]]

\* has_pending_trade_requests
HasPendingTrades(h) ==
    \E i \in DOMAIN h.requests :
       h.requests[i].status = "Pending" /\ h.requests[i].fetch.kind = "Trades"

\* supersede_all_pending
Supersede(h) ==
    [h EXCEPT !.generation = @ + 1,
              !.requests = [i \in DOMAIN @ |-> IF @[i].status = "Pending"
                                               THEN Turn(@[i], "Superseded") ELSE @[i]]]

\* is_stale_generation
IsStale(h, id) ==
    \/ id \notin DOMAIN h.requests
    \/ /\ h.requests[id].status \in {"Pending", "Superseded"}
       /\ h.requests[id].generation # h.generation

\* Mutation of MarkCompleted: a result settles a superseded request too.
MarkCompletedAlways(h, id) ==
    IF id \in DOMAIN h.requests THEN Put(h, id, Turn(h.requests[id], "Completed")) ELSE h

\* mark_completed
MarkCompleted(h, id) ==
    IF Status(h, id) = "Pending" THEN Put(h, id, Turn(h.requests[id], "Completed")) ELSE h

\* mark_failed
MarkFailed(h, id) ==
    IF Status(h, id) \in {"Pending", "Failed"}
    THEN Put(h, id, Turn(h.requests[id], "Failed")) ELSE h

\* mark_empty_trade_range
MarkEmpty(h, from, to) == [h EXCEPT !.empty = @ \cup {<<from, to>>}]

--------------------------------------------------------------------------------
(* add_request_with_id *)

\* The comparison of the loops: a BubbleSummary's settings are not looked at.
SameBounds(a, b) == [a EXCEPT !.settings = b.settings] = b

\* trades_contained, for the kinds that are compared with it.
Contained(new, old) ==
    /\ new.kind \in {"Trades", "BubbleSummary"} /\ old.kind = new.kind
    /\ old.timeframe = new.timeframe
    /\ old.from <= new.from /\ new.to <= old.to

\* The requests that keep `fetch` from being asked now: the same or a larger range is
\* pending or was completed just now, or the same one failed just now.
Suppressors(h, fetch) ==
    {i \in DOMAIN h.requests :
       LET r == h.requests[i]
       IN \/ r.status \in {"Pending", "Completed"}
             /\ (SameBounds(fetch, r.fetch) \/ Contained(fetch, r.fetch))
          \/ r.status = "Failed" /\ r.age = 0 /\ SameBounds(fetch, r.fetch)}

\* A failed request for exactly this range whose retry is due makes room.
DropRetryable(h, fetch) ==
    [h EXCEPT !.requests =
       [i \in {i \in DOMAIN @ : ~(@[i].status = "Failed" /\ @[i].fetch = fetch /\ @[i].age > 0)}
          |-> @[i]]]

Superseded(h, fetch) ==
    {i \in DOMAIN h.requests : h.requests[i].fetch = fetch /\ h.requests[i].status = "Superseded"}

\* Mutations of Queue: the superseded request is left where it is; it keeps its generation.
QueueBeside(h, id, fetch) ==
    [handler |-> Put(h, id, NewRequest(fetch, h.generation)), id |-> id]

QueueOldGeneration(h, id, fetch) ==
    IF Superseded(h, fetch) = {}
    THEN [handler |-> Put(h, id, NewRequest(fetch, h.generation)), id |-> id]
    ELSE LET old == CHOOSE i \in Superseded(h, fetch) : TRUE
         IN [handler |-> Put(h, old, Turn(h.requests[old], "Pending")), id |-> old]

\* A superseded request for the same range is revived under its old id.
Queue(h, id, fetch) ==
    IF Superseded(h, fetch) = {}
    THEN [handler |-> Put(h, id, NewRequest(fetch, h.generation)), id |-> id]
    ELSE LET old == CHOOSE i \in Superseded(h, fetch) : TRUE
         IN [handler |-> Put(h, old, NewRequest(fetch, h.generation)), id |-> old]

\* The handler after the call, and the id to dispatch (NoId: nothing to dispatch).
AddRequest(h, id, fetch) ==
    LET h1 == Cleanup(h)
        h2 == DropRetryable(h1, fetch)
    IN IF ~IsValid(fetch) \/ (fetch.kind = "Trades" /\ <<fetch.from, fetch.to>> \in h.empty)
       THEN [handler |-> h1, id |-> NoId]
       ELSE IF Suppressors(h2, fetch) # {} THEN [handler |-> h2, id |-> NoId]
       ELSE Queue(h2, id, fetch)
================================================================================
