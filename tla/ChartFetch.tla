------------------------------- MODULE ChartFetch -------------------------------
(***************************************************************************)
(* The historical trades of a candlestick chart with a session profile or  *)
(* VWAP: the chart asks for the part of its session it does not hold yet,  *)
(* newest part first, a worker fetches it from the persistent cache and    *)
(* the exchange, and its results come back through the message queue of    *)
(* the user interface (src/src/chart/kline.rs,                             *)
(* src/src/connector/fetcher.rs and src/src/screen/dashboard.rs).          *)
(*                                                                         *)
(* Abstractions.  Time is a line of points 0..End; the trades of a point   *)
(* come and go together.  A covered range [a, b] of the chart is the set   *)
(* of the unit steps t..t+1 it consists of, so that merging ranges is set  *)
(* union; the trades of a covered range are those at its points, both ends *)
(* included.  Deadlines pass in almost any order (see RequestHandler), but *)
(* a message does not wait in the queue as long as the shortest one.       *)
(***************************************************************************)
EXTENDS RequestHandler, Sequences, FiniteSetsExt

CONSTANTS End,        \* the last point of time
          Markets,    \* the sets of points with trades to explore
          Candle,     \* length of a candle
          Chunk,      \* the largest range one worker is asked for
          TailDefer,  \* LIVE_TAIL_DEFER_MS
          Bridge,     \* TRADE_GAP_COALESCE_BRIDGE_MS
          Epsilon,    \* NO_PROGRESS_REMAINING_EPSILON_MS
          PageSize,   \* points in one answer of the exchange
          MaxTroubles \* bound on what may go wrong or be changed: failures and slow
                      \* answers, new settings, invalidations of the cache

ASSUME TimeAssumption == {End, Candle, Chunk, Epsilon} \subseteq Nat \ {0}
ASSUME LimitAssumption == {TailDefer, Bridge, MaxTroubles} \subseteq Nat
ASSUME MarketAssumption == Markets \subseteq SUBSET (0..End)
ASSUME ChunkAssumption == Chunk % Candle = 0
ASSUME PageAssumption == PageSize \in Nat \ {0, 1}  \* no two answers in a row without progress

VARIABLES
    traded,   \* exchange: the points with trades
    now,      \* the present
    chart,    \* KlineChart: handler, covered_trade_ranges, the trades held, fetching_trades.0
    worker,   \* the task behind fetching_trades.1
    queue,    \* FetchUpdates on their way to the dashboard
    cache,    \* MarketDataCache: the points whose trades are stored
    spent     \* failures, resets and clears so far

vars == <<traded, now, chart, worker, queue, cache, spent>>

NoWorker == [phase |-> "none"]

NewWorker(id, fetch) == [phase |-> "start", req |-> id, from |-> fetch.from, to |-> fetch.to]

Init ==
    /\ traded \in Markets
    /\ now = 0
    /\ chart = [handler |-> NewHandler, covered |-> {}, held |-> {}, fetching |-> FALSE]
    /\ worker = NoWorker
    /\ queue = <<>>
    /\ cache = {}
    /\ spent = [faults |-> 0, resets |-> 0, clears |-> 0]

Trouble(kind) ==
    /\ spent.faults + spent.resets + spent.clears < MaxTroubles
    /\ spent' = [spent EXCEPT ![kind] = @ + 1]

\* Time passes.
Tick == now < End /\ now' = now + 1
        /\ UNCHANGED <<traded, chart, worker, queue, cache, spent>>

--------------------------------------------------------------------------------
(* Choosing what to ask for. *)

\* historical_trade_target_to: the open candle is left to the live stream.
Edge == now - (now % Candle)

Gaps(covered, to) == {t \in 0..(to - 1) : t \notin covered}

\* The maximal uncovered ranges.
GapRanges(covered, to) ==
    {g \in [from : 0..to, to : 0..to] :
       /\ g.from < g.to /\ (g.from .. (g.to - 1)) \cap covered = {}
       /\ g.from = 0 \/ g.from - 1 \in covered
       /\ g.to = to \/ g.to \in covered}

\* subtract_covered_ranges_latest and subtract_covered_ranges: none if all is covered.
LatestGap(gaps) == {g \in gaps : \A other \in gaps : other.to <= g.to}

OldestGap(gaps) == {g \in gaps : \A other \in gaps : g.to <= other.to}

\* select_trade_fetch_gap: a short live tail lets an older gap go first.
SelectGap(gaps, to) ==
    IF \E latest \in LatestGap(gaps) : latest.to = to /\ latest.to - latest.from <= TailDefer
    THEN OldestGap(gaps) ELSE LatestGap(gaps)

\* The range to ask for, if any.
NextFetch(covered, to) ==
    {Trades(Max({gap.from, gap.to - Chunk}), gap.to) :
       gap \in SelectGap(GapRanges(covered, to), to)}

\* The ids nothing refers to any more; UUIDs are never used twice.
Fresh(h) ==
    LET used == DOMAIN h.requests \cup {queue[i].req : i \in DOMAIN queue}
                  \cup (IF worker = NoWorker THEN {} ELSE {worker.req})
    IN Id \ used

\* The chart waits, has all it wants, or asks for a range.  The dispatch itself fails when
\* there is no trade stream or no server to ask.
AskNext(h, busy, dispatched) ==
    LET wanted == IF busy THEN {} ELSE NextFetch(chart.covered, Edge)
        idle == [chart EXCEPT !.handler = h, !.fetching = busy]
    IN \/ /\ wanted = {} /\ dispatched
          /\ chart' = idle
          /\ worker' = IF busy THEN worker ELSE NoWorker
          /\ UNCHANGED <<queue, spent>>
       \/ /\ Fresh(h) # {}
          /\ \E fetch \in wanted : \E added \in {AddRequest(h, CHOOSE id \in Fresh(h) : TRUE, fetch)} :
             \/ /\ added.id = NoId /\ dispatched
                /\ chart' = [idle EXCEPT !.handler = added.handler]
                /\ worker' = NoWorker
                /\ UNCHANGED <<queue, spent>>
             \/ /\ added.id # NoId
                /\ chart' = [idle EXCEPT !.handler = added.handler, !.fetching = TRUE]
                /\ IF dispatched
                   THEN worker' = NewWorker(added.id, fetch) /\ UNCHANGED <<queue, spent>>
                   ELSE /\ worker' = NoWorker /\ Trouble("faults")
                        /\ queue' = Append(queue, [type |-> "Failed", req |-> added.id])

\* fetch_missing_data, the tick of the chart, and the dispatch of what it returns.
FetchMissing(dispatched) ==
    /\ \E h \in {Cleanup(chart.handler)} : \E busy \in {chart.fetching /\ HasPendingTrades(h)} :
          AskNext(h, busy, dispatched)
    /\ UNCHANGED <<traded, now, cache>>

--------------------------------------------------------------------------------
(* The worker: fetch_trades_batched. *)

Data(w, points) == [type |-> "Data", req |-> w.req, points |-> points, until |-> w.to]

Completed(w, tail, empty) ==
    [type |-> "Completed", req |-> w.req, from |-> w.from, to |-> w.to,
     tail |-> tail, empty |-> empty]

Send(s, w, points) == IF points = {} THEN s ELSE Append(s, Data(w, points))

\* coalesce_trade_fetch_gaps
Coalesce(gaps) == UNION {IF b - (a + 1) <= Bridge THEN a..b ELSE {} : a \in gaps, b \in gaps}

\* The cached trades are sent at once.
WorkerStart ==
    /\ worker.phase = "start"
    /\ LET asked == worker.from .. worker.to
           gaps == asked \ cache
       IN /\ queue' = Send(queue, worker, asked \cap cache \cap traded)
          /\ worker' = [phase |-> "run", req |-> worker.req, from |-> worker.from,
                        to |-> worker.to, gaps |-> gaps, todo |-> gaps \cup Coalesce(gaps)]
    /\ UNCHANGED <<traded, now, chart, cache, spent>>

Cursor == Min(worker.todo)

Target == Min({p \in worker.todo : p + 1 \notin worker.todo})

\* fetch_trades: the first trades from `cursor` on.
Page(cursor) ==
    LET after == {p \in traded : cursor <= p /\ p <= now}
    IN {p \in after : Cardinality({q \in after : q <= p}) <= PageSize}

\* One answer of the exchange.
WorkerPage ==
    /\ worker.phase = "run" /\ worker.todo # {}
    /\ LET page == Page(Cursor)
           last == Max(page)
           batch == page \cap worker.gaps \cap (Cursor..Target)
           stored == cache \cup Cursor .. Min({last, Target})
           ends(tail, empty) == worker' = NoWorker /\
                 queue' = Append(Send(queue, worker, IF empty THEN {} ELSE batch),
                                 Completed(worker, tail, empty))
       IN \/ page = {} /\ ends({Cursor}, TRUE) /\ UNCHANGED cache
          \/ /\ page # {} /\ last = Cursor /\ Target - last <= Epsilon
             /\ ends({last + 1}, FALSE) /\ cache' = stored
          \/ /\ page # {} /\ (last = Cursor => Target - last > Epsilon)
             /\ queue' = Send(queue, worker, batch)
             /\ worker' = [worker EXCEPT !.todo =
                             {p \in @ : IF last = Cursor THEN p > last
                                        ELSE IF last >= Target THEN p > Target ELSE p >= last}]
             /\ cache' = stored
    /\ UNCHANGED <<traded, now, chart, spent>>

WorkerDone ==
    /\ worker.phase = "run" /\ worker.todo = {}
    /\ worker' = NoWorker
    /\ queue' = Append(queue, Completed(worker, {}, FALSE))
    /\ UNCHANGED <<traded, now, chart, cache, spent>>

\* interrupted_trade_fetch: a request or the worker took too long.  Or the exchange
\* answers with an error.
WorkerFails(interrupted) ==
    /\ worker.phase = "run" /\ worker.todo # {} /\ Trouble("faults")
    /\ worker' = NoWorker
    /\ queue' = Append(queue, IF interrupted /\ Cursor > worker.from
                              THEN Completed(worker, {Cursor}, FALSE)
                              ELSE [type |-> "Failed", req |-> worker.req])
    /\ UNCHANGED <<traded, now, chart, cache>>

--------------------------------------------------------------------------------
(* The messages, as the dashboard handles them. *)

\* Mutation of StopFetching: the flag falls, the handle stays.
StopFetchingFlag(c) == chart' = [c EXCEPT !.fetching = FALSE] /\ UNCHANGED worker

\* fetching_trades = (false, None): the handle aborts its worker when it is dropped.
StopFetching(c) == chart' = [c EXCEPT !.fetching = FALSE] /\ worker' = NoWorker

\* distribute_fetched_data and insert_raw_trades.
OnData(m) ==
    LET inserted == [chart EXCEPT !.held = @ \cup {p \in m.points : p <= m.until}]
    IN IF IsStale(chart.handler, m.req)
       THEN chart' = [chart EXCEPT !.handler = MarkCompleted(@, m.req)] /\ UNCHANGED worker
       ELSE IF Max(m.points) >= m.until THEN StopFetching(inserted)
       ELSE chart' = inserted /\ UNCHANGED worker

\* Mutation of VerifiedTo: the whole range is taken as traversed.
VerifiedToEnd(m) == m.to

\* mark_verified_trade_fetch_prefix
VerifiedTo(m) == Min({m.to} \cup {t - 1 : t \in m.tail})

\* complete_fetch and complete_trade_fetch.
OnCompleted(m) ==
    LET h == MarkCompleted(chart.handler, m.req)
        tail == Min(m.tail \cup {m.to})
    IN StopFetching([chart EXCEPT !.handler = IF m.empty THEN MarkEmpty(h, tail, m.to) ELSE h,
                                  !.covered = @ \cup m.from .. (VerifiedTo(m) - 1)])

\* FetchFailed and mark_request_failed.
OnFailed(m) ==
    LET c == [chart EXCEPT !.handler = MarkFailed(@, m.req)]
    IN IF m.req \in DOMAIN chart.handler.requests THEN StopFetching(c)
       ELSE chart' = c /\ UNCHANGED worker

Deliver ==
    /\ queue # <<>> /\ queue' = Tail(queue)
    /\ LET m == Head(queue)
       IN \/ m.type = "Data" /\ OnData(m)
          \/ m.type = "Completed" /\ OnCompleted(m)
          \/ m.type = "Failed" /\ OnFailed(m)
    /\ UNCHANGED <<traded, now, cache, spent>>

--------------------------------------------------------------------------------
(* Deadlines and the user. *)

Requests == {chart.handler.requests[id] : id \in DOMAIN chart.handler.requests}

Works(id) == worker # NoWorker /\ worker.req = id

Ages(id) ==
    /\ queue = <<>>
    /\ id \in DOMAIN chart.handler.requests
    /\ chart.handler.requests[id].age < MaxAge(chart.handler.requests[id].status)
    /\ chart' = [chart EXCEPT !.handler.requests[id].age = @ + 1]
    /\ UNCHANGED <<traded, now, worker, queue, cache>>

\* A deadline of a request passes.
Age(id) == ~Works(id) /\ Ages(id) /\ UNCHANGED spent

\* A worker is still at its request when the deadline of the request passes: a trouble, as
\* TRADE_WORKER_TIMEOUT is shorter than PENDING_TIMEOUT_MS.  The request was asked last, so
\* that the deadlines of all others that are pending have passed before.
AgeAtWork(id) ==
    /\ Works(id) /\ Ages(id) /\ Trouble("faults")
    /\ \A r \in Requests : r.status = "Pending" /\ r.age = 0 => r = chart.handler.requests[id]

\* EMPTY_TRADE_FETCH_TTL has passed for a range.
ForgetEmpty ==
    /\ queue = <<>>
    /\ \E range \in chart.handler.empty :
          chart' = [chart EXCEPT !.handler.empty = @ \ {range}]
    /\ UNCHANGED <<traded, now, worker, queue, cache, spent>>

\* reset_request_handler, after a change of tick size or basis; a change from a tick to a
\* time basis drops the trades first.
Reset(keeps) ==
    /\ StopFetching([chart EXCEPT !.handler = Supersede(@), !.covered = {},
                                  !.held = IF keeps THEN @ ELSE {}])
    /\ Trouble("resets")
    /\ UNCHANGED <<traded, now, queue, cache>>

\* InvalidateMarketDataCache: clear_all, then every chart's invalidate_market_data_cache.
ClearCache ==
    /\ chart' = [chart EXCEPT !.handler = NewHandler, !.held = {}]
    /\ cache' = {}
    /\ Trouble("clears")
    /\ UNCHANGED <<traded, now, worker, queue>>

Next ==
    \/ Tick
    \/ \E dispatched \in BOOLEAN : FetchMissing(dispatched)
    \/ WorkerStart \/ WorkerPage \/ WorkerDone
    \/ \E interrupted \in BOOLEAN : WorkerFails(interrupted)
    \/ Deliver
    \/ \E id \in Id : Age(id) \/ AgeAtWork(id)
    \/ ForgetEmpty
    \/ \E keeps \in BOOLEAN : Reset(keeps)
    \/ ClearCache

\* Time, the user interface and the deadlines go on; the exchange answers.  The end of a
\* worker is only delayed, never forever overtaken, by the handling of what it sent.
Fairness ==
    /\ WF_vars(Tick) /\ WF_vars(FetchMissing(TRUE)) /\ WF_vars(Deliver)
    /\ WF_vars(WorkerStart) /\ WF_vars(WorkerPage) /\ SF_vars(WorkerDone)
    /\ WF_vars(ForgetEmpty) /\ \A id \in Id : SF_vars(Age(id))

Spec == Init /\ [][Next]_vars /\ Fairness

--------------------------------------------------------------------------------
(* Properties. *)

IsRange(from, to) == from \in 0..End /\ to \in 0..End /\ from <= to

\* Requests, messages and the worker are about ranges of the line, and a worker runs only
\* while the chart believes that it fetches (fetching_trades.0 and fetching_trades.1 agree),
\* so that no second worker is started beside a first one.
TypeOK ==
    /\ traded \in Markets /\ now \in 0..End /\ cache \subseteq 0..End
    /\ chart.covered \subseteq 0..(End - 1) /\ chart.held \subseteq traded
    /\ chart.fetching \in BOOLEAN /\ DOMAIN chart.handler.requests \subseteq Id
    /\ \A r \in Requests :
          /\ r.status \in {"Pending", "Completed", "Failed", "Superseded"}
          /\ r.age \in 0..MaxAge(r.status) /\ r.generation \in 0..chart.handler.generation
          /\ r.fetch.kind = "Trades" /\ IsRange(r.fetch.from, r.fetch.to) /\ IsValid(r.fetch)
    /\ \A i \in DOMAIN queue :
          /\ queue[i].req \in Id
          /\ queue[i].type = "Data" => queue[i].points \subseteq traded \cap 0..now
          /\ queue[i].type = "Completed" => IsRange(queue[i].from, queue[i].to)
    /\ worker # NoWorker => worker.req \in Id /\ IsRange(worker.from, worker.to) /\ chart.fetching

\* add_request_with_id never holds two requests for one range, whatever was superseded,
\* retried or dropped in between: a range is not fetched twice at a time.
OneRequestPerRange ==
    \A i, j \in DOMAIN chart.handler.requests :
       chart.handler.requests[i].fetch = chart.handler.requests[j].fetch => i = j

\* A pending request belongs to the present generation: supersede_all_pending leaves none
\* behind and a revived request gets a new generation, so the results of what the chart
\* waits for are never discarded as stale (is_stale_generation).
PendingIsCurrent ==
    \A r \in Requests : r.status = "Pending" => r.generation = chart.handler.generation

\* Late results settle nothing: until its retention has passed, what was completed or has
\* failed stays so, and what was superseded is at most asked again, under the present
\* generation.
SettledStaysSettled ==
    [][\A id \in DOMAIN chart.handler.requests \cap DOMAIN chart'.handler.requests :
          LET old == chart.handler.requests[id]
              new == chart'.handler.requests[id]
              settled == old.status # "Pending" /\ old.age < MaxAge(old.status)
          IN settled /\ new.status # old.status =>
                /\ old.status = "Superseded"
                /\ new.status = "Pending" /\ new.generation = chart.handler.generation]_vars

HoldsWhatItCovers ==
    \A t \in chart.covered : {t, t + 1} \cap traded \subseteq chart.held

\* As long as the user neither changes the settings nor clears the cache, the chart holds
\* every trade of the ranges it has marked covered, which it will not ask for again:
\* mark_verified_trade_fetch_prefix credits no more than what was delivered, whatever
\* timed out, failed or stopped early.
CoverageIsHeld == spent.resets = 0 /\ spent.clears = 0 => HoldsWhatItCovers

\* The same after changes of the settings (reset_request_handler).
CoverageIsHeldAfterReset == spent.clears = 0 => HoldsWhatItCovers

\* The same after invalidations of the market-data cache (invalidate_market_data_cache).
CoverageIsHeldAfterClear == spent.resets = 0 => HoldsWhatItCovers

\* In the end the session is covered from its beginning to the open candle.
BackfillCompletes == <>[](Gaps(chart.covered, Edge) = {})

\* In a market that never falls silent, and in which no trade happens at the very start of
\* a candle, the backfill completes: lost results, superseded requests, throttled ranges
\* and empty tails only delay it.
BackfillCompletesOffBoundary ==
    (\A p \in traded : p % Candle # 0) /\ (\E p \in traded : p > End - (End % Candle))
       => BackfillCompletes
================================================================================
