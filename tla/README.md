# A specification of Orderflow Studio

TLA+ modules for the parts of Orderflow Studio whose correctness depends on the
order in which things happen: the market-data streams, what is derived from
them, and the machinery that fetches history for the charts. TLC checks the
modules on small instances; of every part TLAPS proves safety properties for all
instances: the depth stream, the iceberg detector with its feed, a chart's fetch of its
history, the session, the backfill after an outage, the persistent cache, the options
data, the rate limiters, the candles and the bubbles.

Paths below are relative to the repository; the application crate is `src/`, the
exchange adapters are `exchange/`, the data crate is `data/`. In `PROJECT.json`
the same paths start with `src/`, the root of the checkout.

## 1. The system

| Component | State it keeps | Operations | Talks to |
|---|---|---|---|
| Depth synchronisation, `exchange/src/adapter/hub/binance/stream.rs` (`DepthSyncMachine`) | waiting/live, snapshot receiver, buffered diffs, local book, last id, gap flag | connect, text frame, poll of the REST snapshot, live diff, resync | socket, REST client, order-flow events to the application |
| Local book, `exchange/src/depth.rs` | last update id, price levels | replace by a snapshot, apply a diff | depth synchronisation |
| Order-flow contract, `exchange/src/orderflow.rs` | none: the events | boundary, delta with continuity, quality change, trade | every consumer |
| Trade stream, same adapter | batch of trades, ids | flush, disconnect | application |
| WebSocket session, `exchange/src/adapter/ws.rs` | backoff, heartbeat, bounded channel, stability timer | connect, select loop, disconnect, drop of an event | adapters, application |
| Iceberg detector, `data/src/orderflow/iceberg.rs` | reorder buffer, quality, levels, episodes, published events, seen ids | ingest, advance, expire, invalidate | registry |
| Detector registry, `src/connector/iceberg.rs` | one engine per market key, consumers, release time | sync requirements, ingest, collect garbage | dashboard tick, market events |
| Request handler, `src/connector/fetcher.rs` (`RequestHandler`) | requests with status, generation and deadlines; ranges found empty | add, clean up, supersede, mark completed/failed/empty | charts |
| Fetch workers, same file | cursor, gaps, pages | cached part, page, end, failure | persistent cache, exchange, message queue |
| Candlestick chart's history, `src/chart/kline.rs` | covered ranges, trades held, `fetching_trades` flag and abort handle | fetch missing data, insert, complete, fail, reset, invalidate | request handler, dashboard |
| Dashboard, `src/screen/dashboard.rs` | panes, pending backfills | tick, dispatch, distribute data, complete, fail | charts, workers |
| Live and historical trades of a candle, `src/chart/kline.rs`, `data/src/aggr/time.rs`, `data/src/chart/kline.rs` | raw trades (capped), footprints, buckets touched live | live trades, batch of history, candle, change of basis, clearing | chart, workers |
| Volume bubbles, same chart and `fetcher.rs` | covered ranges, summaries shown and cached | ask for a chunk, deliver a summary, change of settings | chart, workers, persistent cache |
| Persistent cache, `src/connector/persistent_cache.rs` | checksummed buckets with covered intervals | read, store, invalidate, quarantine, clear | workers |
| GEX coordinator, `src/connector/gex.rs`, with `exchange/src/options/` | consumers, due fetches, option chain, maker trades, history, retry times | tick, result, failure, reconnect | options clients, persistent cache, files |
| Rate limiters and REST worker, `exchange/src/adapter/limiter.rs`, `http.rs` | window, tokens, used weight; command queue | prepare, update from a response, exit | callers, exchange |
| Connectivity and outage backfill, `src/market_service.rs`, `src/main.rs`, `src/screen/dashboard.rs` | connections expected and made, phase, last data of each stream, pending chunks | connected, lost, restored, backfill | streams, charts |
| Aggregation, `data/src/aggr`, `data/src/orderflow` | time and tick bars, CVD, time at price | insert, rebuild | charts |

What is hard, and the property that makes each part correct:

* **Depth synchronisation.** A socket of diffs races a REST snapshot that may be
  older or newer than they are; buffers overflow, gaps appear, connections drop,
  an abandoned request may still answer. The local book must be a book the
  exchange had at the id it claims, and a consumer must be told of each
  discontinuity before it sees another delta.
* **Iceberg detector.** Trades and deltas arrive over two sockets, possibly late,
  twice or never. Liquidity that was visible must not be counted as a refill,
  nor an execution twice, and the levels must be those of the exchange.
* **Registry.** A detector is shared, released and required again; while nobody
  needs it, it is fed nothing.
* **Request handler.** Requests are superseded, revived, retried and forgotten
  while workers still run. A range is asked for once at a time, and a late result
  decides nothing.
* **History of a chart.** A range is marked covered by one message and its trades
  come with others. What is covered must be held, because it is never asked for
  again; and in the end everything must be covered.
* **WebSocket session.** Two tasks, a timer and a bounded channel that drops: the
  trades an adapter accepted reach the application once, in order, before it hears
  of the disconnect; and a peer that fell silent is noticed.
* **Outage.** Streams fail and return one by one while the configuration changes.
  What each of them missed is asked for, up to the plan's stated exceptions.
* **Persistent cache.** A read takes two transactions, other workers store, clear
  and find corruption between them. What is covered is there.
* **Limiters and worker.** The weight sent in a period stays within the limit, and
  a command is answered although those before it wait, fail or are abandoned.
* **Options.** Requests overlap, settle late, fail, and survive a restart: no maker
  trade is lost behind the watermark, the chain never goes back in time, and its
  history is one line.
* **Candles and bubbles.** The same execution comes live and from history, and a
  chunk's summary replaces another's. Nothing counts twice, what is held is shown,
  what is covered is accounted for.

## 2. Modules

```
BookMirror         what a depth stream promises (abstract)
DepthSync          the depth stream                 --implements--> BookMirror
  MCDepthSync      its instance for TLC
  NatSets          induction and greatest elements of natural numbers, stated with sets
  DepthSyncProofs  theorems about DepthSync
IcebergDetector    the detector as functions on detectors
IcebergFeed        market, two sockets, channel, registry around the detector
  MCIcebergFeed    its instances
  IcebergProofs    theorems about the detector and its feed
RequestHandler     the request handler as functions on handlers
ChartFetch         chart, worker, cache, exchange, message queue around the handler
  MCChartFetch     its instances
  ChartFetchProofs theorems about the handler in its chart, and what is covered
WsSession          one connection: I/O task, session task, adapter, channel
MarketOutage       connectivity tracker and recovery of what was missed
MarketCache        the persistent cache and the workers that share it
  MarketProofs     theorems about MarketOutage and MarketCache
DeriveTrades       maker trades of the Derive exchange
GexChain           the Deribit option chain and its history
RestWorker         command queue, REST worker, rate limiters
  RestWorkerProofs
ChartTrades        live and historical trades in the candles of a chart
BubbleSummaries    volume bubbles: chunks, workers, cached summaries
  MCStudio         one instance of each module from WsSession on
  StudioProofs     theorems about WsSession, DeriveTrades, GexChain, ChartTrades and
                   BubbleSummaries
  MCStudioProofs   that MCStudio is an instance of every part, and its types
```

`MCStudio` puts eight parts that share no state into one run: `part` says which of
them a behaviour exercises, and the others stay as they start. It asks of each part
what its own run would ask.

### BookMirror

The contract of `orderflow.rs` from a consumer's point of view: it either knows
that it has no book (`Lost`) or holds the image of one update id of the exchange's
history. `Sync` is a `SnapshotBoundary`, `Advance` a `Continuous` delta or a later
boundary, `Lose` a quality event or a reconnect.

### DepthSync

| State | Code |
|---|---|
| `market`, `now`, `sent`, `Book` | market kind; matching engine; diff stream; history |
| `wire`, `connected` | frames on the socket, `WsSession`'s transport |
| `sync` | `DepthSyncMachine`: state with its snapshot receiver, `prev_id`, `pending`, `current`, `gap_detected` |
| `shown` | the book of the last `Event::DepthReceived` |
| `mirror` | what a consumer rebuilds from the order-flow events |

`OnText` is the whole of `DepthAdapter::on_text`: the poll of the snapshot, the
replay or the live diff, the events in the order they are pushed, the gap taken at
the end. `OnUndecodedText` is the path on which the frame is not decoded after the
poll has already changed the state, `OnTextFails` the one on which the poll fails
and the session drops the connection. `Answer` is a REST answer, also one that
lags behind what the socket has delivered, an error, or a dead task.

Abstractions: a diff is the ids it covers; the levels it carries are those that
changed over the ids, with the exchange's quantities at its final id. Times and
rounding are left out. `QueuePendingDiff` drops the oldest diff at the limit as the
code does; in the instance the limit is 2 instead of 2048.

### IcebergDetector and IcebergFeed

`IcebergDetector` is `BinanceIcebergDetector` as functions: `Ingest` with the
reorder buffer and its watermark, `process_trade`, the application of a level with
the refill accounting, opening, confirming and ending of episodes, publication,
`invalidate_all`. Scores and percentiles are compared and nothing else, so they are
a parameter `sense` that the runs leave free. Of the samples only the times are
kept, which is what the warm-up reads. The branch for `BookContinuity::GapDetected`
(`iceberg.rs:509-512`) is left out: the Binance adapter announces a gap as a quality
event (`DepthGap`) and never sends such a delta.

Two fields are history and change nothing the detector does: `at` of a level is the time
of the latest event taken for it, `late` of a key the quantity executed there and taken
no later than what was taken for its level before. Only `RefillIsExplained` and
`HiddenIsExplained` read them.

`IcebergFeed` puts it to work: `Execute`, `Requote` and `EmitDelta` are the market
and its 100 ms deltas; `DepthConnect`, `DepthBoundary`, `DepthGap`, `DepthLost`,
`TradeConnect`, `TradeLost` the two sockets; `DeliverDepth` and `DeliverTrade` the
application routing an event to the registry (`sync_requirements`, then `ingest`);
`Require` the panes' settings; `CollectGarbage` the registry's clean-up;
`DropDepth` and `DropTrade` the bounded channel of `WsSession`, which drops
silently when it is full. The depth socket is taken from its contract, `BookMirror`.

### RequestHandler and ChartFetch

`RequestHandler` translates every operation of the code's `RequestHandler` as a
function. Timestamps are ages: a request counts the deadlines of its status that
have passed (one, and two for `Failed`: the retry, then the retention).

| State of ChartFetch | Code |
|---|---|
| `traded`, `now` | the exchange's trades; the present |
| `chart.handler`, `.covered`, `.held`, `.fetching` | `request_handler`, `covered_trade_ranges`, `raw_trades`, `fetching_trades.0` |
| `worker` | the task behind the abort handle `fetching_trades.1` |
| `queue` | `FetchUpdate` messages the dashboard has not handled yet |
| `cache` | coverage of the persistent cache |
| `spent` | the troubles there have been so far |

`FetchMissing` is the tick: clean-up, the cleared flag when nothing is pending, the
choice of a gap (`select_trade_fetch_gap` with its deferred live tail), the chunk at
the new end of the gap, `add_request_with_id`, the dispatch, which may fail.
`WorkerStart`, `WorkerPage`, `WorkerDone` and `WorkerFails` are
`fetch_trades_batched`: the cached part sent first, gaps joined over a short bridge,
pages, the empty page, the page without progress near the target, the end by error
or timeout. `Deliver` handles `Data` (the stale check, insertion, the end of fetching
when the batch reaches `until_time`), `Completed` and `Failed`. Dropping the abort
handle stops the worker (`StopFetching`) but not the messages it has already sent.
`Age` and `AgeAtWork` let a deadline pass, `ForgetEmpty` the time an empty range is
remembered. `Reset` is `reset_request_handler`, `ClearCache` the command that
invalidates the market-data cache.

Abstractions: time is a line of points, the trades of a point come and go together,
a covered range is a set of unit steps. Deadlines pass in any order but one: the
worker's request is the one asked last, so that its deadline is the last of those
that are pending. A message does not wait in the queue as long as the shortest
deadline (2.5 s). The cap on raw trades is not reached; live trades are in
`ChartTrades`.

### WsSession

| State | Code (`adapter/ws.rs`) |
|---|---|
| `adapter` | the trade adapter: `TradeBuffer` and `orderflow_trades`, or an adapter that returns its events at once |
| `link` | the session task: connecting, up or sleeping; backoff; `data_received`; events not sent yet |
| `io` | the I/O task: the peer and the heartbeats without activity |
| `frames`, `events` | the channel between the tasks; the bounded channel to the application |
| `shown`, `lost` | what the application has seen, and what a full channel dropped |

`Connects` and `ConnectFails` are one attempt, `Wake` the end of the delay,
`Round` the select loop's turn on a frame and what is drained with it, `FlushTick` the
adapter's timer, `BecomesStable` the stability timer that resets the backoff,
`SendNext` one `try_send`, `Heartbeat` one ping interval. Trades are numbered as
`on_text` accepts them; TLS, framing and the proxy are a failing attempt or a frame.

### MarketOutage

`tracker` is `MarketConnectivity`, `dash` what the dashboard keeps (`lastLive`,
`lastSeen` of a stream that was cut, `pending` chunks, `covered` trade ranges), `missed`
the points a stream did not get, `skipped` those a plan left out. `Connected`,
`Disconnected`, `Reconfigure` and `AppTick` are the events of `main.rs` with the whole
reaction: the tracker's evaluation, on a restoration the backfill of every stream
(`Outage`, `Missing`, `ChunkRanges`, `AlreadyPending`). `ChunkEnds` is the end of a
chunk, complete, partial or failed. Every stream has its own connection and one chart.

### MarketCache

`disk` is the coverage record and the buckets of one dataset, `job` a worker at one of
its transactions (`ReadCoverage`, `ReadBuckets`), pages and stores (`Page`). Each step
is one transaction; the process may stop before any of them (`Stop`), a blob may go bad
(`Corrupt`), the user may clear everything (`ClearAll`). `torn` are the trades the
cache covers but lost for one of three reasons that the code has: a page ended inside a
millisecond and its coverage includes the whole of it; a bucket that did not decode was
replaced by the new records alone; a clearing came between two pages of one worker.

### DeriveTrades and GexChain

`desk` is the coordinator's state for one underlying at Derive, `stored` the trades in
the persistent cache; `DeskTick` is `Message::Tick`, `DeskReconnect` the forced refresh,
`OptionsAnswered` and `TradesAnswered` the two completions with their failure branch,
backoff, retention and persistence. A trade has a time and a time of settlement; requests
reach back by the overlap. The client drops the trades of options that are not in its
list (`derive.rs:166-168`), and the watermark may pass them: options listed since the last
refresh, and options that are inactive or expired when the list is made
(`derive.rs:279-289`), as after a restart across an expiry. So an option of the model has a
moment it is listed and one it expires (`Listing`, `Expiry`), the list that arrives is any
non-empty part of those listed and not expired, and `dropped` is the history of the trades
thrown away and not held. They are the exception of `MakerTradesAreHeld`; a later answer
that brings a trade takes it out of the exception.

`chain` is the coordinator's Deribit chain (instruments, raw snapshot, derived flag,
history), `asked` the requests in flight, `kept` the snapshot file and the persisted
history. `SnapshotArrives` derives, inserts into the history, writes the file (which may
fail, also after the old one was removed) and the cache. `ChainRestarts` and
`ChainCleared` bring back or drop what is on disk. A snapshot is its time of observation.

### RestWorker

`queue` is the command channel with the callers behind its bound, `worker` the task of
`spawn_fetch_worker` at its command, `limiter` one of the two limiters with the time as
ages in the aligned period, `sent` the weight the exchange counted in the period and told
of in a header, and of the request that is out, `untold` what it counted besides. `Prepare`,
`WakeUp`, `SendOut`, `Answered` and `RequestFails` are one request; `GiveUp` is a caller
whose timeout passes, which does not take its command out of the queue. What the model
shows as the code's behaviour, and the properties allow: a fixed window is refilled
throughout the first second of each period; its requests pay when they are prepared and
again when they are answered; one that slept pays only afterwards; and a trade fetch gives
up (35 s) before the longest wait for a header limit (60 s).

An answer need not say what was used: the header is missing, not a number or 0
(`limiter.rs:262-271`, `96-101`; `/futures/data/openInterestHist` of
`binance/fetch.rs:500-569`, or an error of a gateway). Such an answer, like a request that
fails, leaves the limiter as it is (`Answered`, `Learned`). While an older header is recent
nothing then limits the requests, and the exchange may count more than the limit;
`RequestsStayWithinBudget` excepts the requests `untold`, until the next header counts
them.

### ChartTrades

`plot` has the basis, `raw_trades`, the candles with the trades counted in each (a bag)
and `live_trade_buckets`. `TickPasses` is the next execution coming live or not at all,
`HistoryArrives` a batch of history with the exclusion of what came live, `CandleArrives`
a kline with the trades in memory, `BasisChanges` and `PlotCleared` the two resets.
On Binance's linear futures live trades and history have different ids (`linear`), which
is why the exclusion exists. What the code does and the properties except or do not ask:

* after a change from one timeframe to another the raw trades and the live buckets of
  the old one stay, so that history joins live trades in a bucket (counted twice on
  linear futures; the test at `src/chart/kline.rs:6974` intends otherwise);
* in a candle the live stream has touched all history is dropped, also of the time
  before the stream began, while the range counts as covered;
* after a clearing, or a change to ticks and back, the live buckets stay;
* at `MAX_LIVE_TRADE_BUCKETS` the oldest live buckets are forgotten (`kline.rs:1901-1907`;
  `LiveKept`, with `LiveCap` for the limit). History that comes for a forgotten candle then
  joins its live trades, and on linear futures its executions count twice. The test at
  `src/chart/kline.rs:6974` intends otherwise; `NothingCountsTwice` excepts such executions
  (`past`).

### BubbleSummaries

`panel` is the chart's setting, covered ranges and bubbles, `jobs` the workers under way,
`store` the cached coverage and summaries of each setting. `Ask` chooses a chunk,
`AskRaw` answers one from the trades in memory, `AnswerArrives` merges, stores and
delivers, `KeepChanges`, `PanelReset` and `BubblesCleared` are the resets. `doubt` and
`torn` are the executions that the chart and the cache do lose:

* a worker ended early, and the chart covers its whole chunk (`Missed`);
* a worker found an execution and stored no coverage for it, because it is the only one of
  its gap and stands at the gap's first instant (`verified` is empty);
* an answer of before a change of settings, a summary of raw trades that replaces that of a
  longer candle, a clearing (the coverage stays);
* a summary replaced one that it does not continue (`Replaced`): another worker wrote
  between the read and the store, or nothing of the chunk was covered, so that nothing was
  read, and the chunk's inclusive end is the first instant of the next candle: the one
  execution there takes the place of that candle's whole summary.

Clustering, the session window and pages are left out.

## 3. Runs

| Run | Question | Result |
|---|---|---|
| `depth_sync` | Every race of diffs, lagging or failed snapshots, gaps and reconnects over six updates, for the three market kinds | `TypeOK`, `BookFaithful`, `PendingIsOrdered`, `MirrorIsCurrent`, `ShownNeverRewinds`, and the refinement `ImplementsBookMirror` hold |
| `iceberg_delays` | Two sides, three prices, events of the two sockets delayed against each other within the reorder window | `ExpectedAgrees`, `RefillIsReal`, `HiddenIsReal` hold |
| `iceberg_faults` | One level over a long time with delays, trades received late, a reorder buffer that fills, and one fault of any kind | `TypeOK`, `LevelsTrue`, `RefillIsExplained`, `HiddenIsExplained`, `ExecutionsCountedOnce`, `EventsAreStable` hold |
| `iceberg_resume` | Does detection resume only on a whole book? | `DetectsOnWholeBook` is violated |
| `iceberg_skew` | The accounting when the local clock is ahead | `RefillIsReal` is violated |
| `chart_fetch` | A backfill of several chunks with any two of failures, timeouts, new settings and cache invalidations | `TypeOK`, `OneRequestPerRange`, `PendingIsCurrent`, `CoverageIsHeld`, `SettledStaysSettled` hold |
| `chart_completes` | Does the backfill end, with one such trouble, when no trade falls on a chunk's boundary? | `BackfillCompletesOffBoundary` holds |
| `chart_reset` | Coverage after a change of settings | `CoverageIsHeldAfterReset` is violated |
| `chart_clear` | Coverage after the cache is invalidated | `CoverageIsHeldAfterClear` is violated |
| `chart_boundary` | Does the backfill end when a trade falls on a boundary? | `BackfillCompletes` is violated |
| `studio`, session | Frames, drops, disconnects and a silent peer around one adapter | `TradesAreAccounted`, `DataOnlyWhileUp`, `SilentPeerIsNoticed` hold |
| `studio`, outage | Two streams that fail, return and are configured in any order | `NoOutageIsForgotten` holds |
| `studio`, cache | Two workers, one corruption, clearing, and stops between any two transactions | `CoverageIsBacked`, `AnswerIsWhole` hold |
| `studio`, derive, chain | Late settlement, options that are listed late or expire, failures, a restart or clearing | `MakerTradesAreHeld`, `HistoryIsOneLine`, `ChainNeverRewinds` hold |
| `studio`, rest | Two callers that give up, failing requests, answers without a header, both limiters | `RequestsStayWithinBudget`, `CommandsAreServed` hold |
| `studio`, plot, bubbles | Live and historical trades in any order, with live candles forgotten; chunks, settings and workers | `NothingCountsTwice`, `HeldTradesAreShown`, `CoveredBubblesAreShown`, `SummariesAreHeld` hold |
| `outage_plan` | Does the plan recover the complete interval, as its comment says? | `CompleteIntervalRecovered` is violated |

`studio` is one run (`MCStudio.cfg`); its `TypeOK` is that of all parts. Every property
of a passing run has a mutation of the code (an `as` definition next to the definition it
replaces) that violates it: a dropped guard, a swapped order, a missing reset, an
off-by-one.

### Bounds

* `depth_sync`: six updates, one of which changes nothing, two levels with
  quantities 0..2. A lost prefix, a gap, a buffer overflow (three diffs, two
  places) and a second synchronisation fit into six updates. Two frames may be in
  flight. The proofs remove all these bounds.
* `iceberg_*`: quantities up to 2, at most five changes of the book, times up to 5 (6
  and 7 for the traces of the violations) with a window of 1 or 2. An episode needs a
  warm-up trade, an execution, a refill, a second execution and a timeout; each fits. Two instances separate what grows together. `iceberg_delays` has many levels, a
  window longer than the delays, and trades stamped when they are executed (`TradeLag` =
  0): the conditions under which a refill is real. `iceberg_faults` has one level, a delay
  as long as the window, trades received late (`TradeLag` = 1), a buffer of three places
  and one fault. `RefillIsReal` does fail there, so that what `RefillIsExplained` excepts
  happens. The proofs remove the bounds, and put all faults together; section 5 says what
  is proved without these conditions.
* `chart_*`: candles and chunks of two points, pages of two, four or five points of
  time, so that the history consists of two chunks and their boundary. Three request
  ids: the ids of requests that are gone are used again, and the fresh id is chosen
  deterministically, as ids are never compared but for equality. `MaxTroubles` is 2
  for safety and 1 for liveness. The proofs remove the bounds for safety.
* `studio`: a channel of two with a batch of one, so that the third event is dropped; two
  trades and a heartbeat limit of two. Two streams (one of trades), four points of time, an
  outage longer than the smallest gap and one shorter, two chunks. Two workers, two
  buckets, a page that ends inside an instant. Four maker trades, one settled late, of
  options of which one is listed late and one expires; one restart. Two callers, one slot of
  the queue, a period of three seconds and a limit of two, two requests the limiter is not
  told of (`MaxUntold`). Four executions, two timeframes, two trades in memory, one live
  candle beside the latest (`LiveCap`), one reset.
  Six executions in two candles whose chunks are half as long, one of them where a chunk
  ends and a candle begins, two workers, two settings. In each, every action fires and each
  mutation is found within these bounds. The proofs remove them for the safety properties
  of all eight parts.

No symmetry is used. The runs do not check for deadlock: histories are finite, and a
behaviour ends when its clock does.

### Fairness

In `ChartFetch` (`Fairness`) the clock and the dashboard's tick go
on (`WF` of `Tick`, `FetchMissing(TRUE)`: a dispatch that keeps failing is a trouble
without fairness). The runtime handles queued messages (`WF` of `Deliver`) and polls
workers; the exchange answers or the 35 s request timeout does (`WF` of `WorkerStart`,
`WorkerPage`; a timeout is a trouble). `WorkerDone` follows a worker's last page
without waiting for anything, yet competes with a message that may abort it: `SF`
says that it is not aborted for ever. Deadlines pass while others are renewed (`SF`
of `Age`), and remembered empty ranges are forgotten (`WF` of `ForgetEmpty`). Nothing
is assumed of failures, resets and invalidations. The hypothesis of
`BackfillCompletesOffBoundary` that the market trades in the open candle is needed
because the model's history is finite: a worker verifies the end of a range by the
trade after it.

In `MCStudio` the session task takes its turns and sends (`WF` of `Round`, `SendNext`: a
tokio task that is ready is polled), the ping interval elapses (`Heartbeat`), the REST
worker runs (`WorkerRuns`), an unanswered request fails at the client's timeout
(`RequestFails`), and seconds pass (`SecondTicks`). Each holds of the part that is exercised. Nothing
is assumed of what an exchange sends, of reconnection attempts or of callers that give up.

## 4. Findings

1. **`iceberg_resume`**: `docs/binance-iceberg-detector.md:15` has detection resume
   only after a valid boundary. A reconnect of the trade socket clears the levels, and
   the next continuous delta makes the detector healthy with the levels of that delta
   alone (`iceberg.rs:546`).
2. **`iceberg_skew`**: quality events carry the local clock and move the watermark. With
   a clock ahead of the exchange's, a delta is processed before the trade that explains
   it, and visible liquidity counts as a refill, against line 31 of the same document.
3. **`chart_reset`**: the comment in `reset_request_handler` says that late results of
   superseded requests are detected as stale. Data is; the completion is not, and marks
   a range covered whose data was just discarded.
4. **`chart_clear`**: `invalidate_market_data_cache` is documented to make charts rebuild
   their history. It drops the trades and keeps `covered_trade_ranges`, so that they are
   not fetched again.
5. **`chart_boundary`**: ranges include both ends. A cached trade in the first
   millisecond of the newer chunk is the first batch of the older chunk's worker and
   reaches its `until_time`; the dashboard takes it for the last batch, the abort handle
   is dropped, and the worker never asks for the rest. The counterexample repeats for
   ever.

6. **`outage_plan`**: the plan of a backfill is documented to recover the complete offline
   interval and never to drop older data silently. The run
   plans the backfill of a first gap up to the present, which is later than the stream's
   newest live data, and loses the stream again while that chunk is pending. The second
   gap starts after the newest live data, later than the first gap but before the end of
   the pending chunk; its chunk overlaps the pending one at that end alone and is skipped
   as a whole (`src/screen/dashboard.rs:3139`), with the points of the second outage
   behind the overlap. The remembered disconnect has been taken, and nothing asks for them
   again. A chart's
   `missing_trade_range` has the same effect with several uncovered parts: only the oldest
   is planned.

Other deviations met while modelling are named in section 2 and are exceptions of the
properties they touch: the torn trades of the cache, the executions a bubble worker misses or
replaces, the live buckets that outlive a change of basis.

## 5. Proofs

`DepthSyncProofs` proves, for every history `Book`, set of levels and quantities, every
`MaxId`, `MaxPending` and `MaxWire`, and every set of market kinds:

* `TypeCorrect`: `Spec => []TypeOK`
* `Faithfulness`: `Spec => []BookFaithful`
* `MirrorCorrect`: `Spec => []MirrorIsCurrent`
* `NoRewind`: `Spec => ShownNeverRewinds`
* `BufferCorrect`: `Spec => []PendingIsOrdered`
* `Implementation`: `Spec => ImplementsBookMirror`

The assumptions are the named `ASSUME`s of `DepthSync`: `MaxId`, `MaxPending` and
`MaxWire` are positive, `Book` is a history, 0 is a quantity, `Market` holds only kinds of
market, `Lost` is no book. TLC
evaluates them in `depth_sync`.

`BookFaithful` alone is not inductive. That a diff leads from the exchange's book at
one id to its book at another holds only if the book was current up to where the diff
begins. The inductive invariant is

    Inv == TypeOK /\ WireValid /\ GoodMachine(sync) /\ Faithful(shown) /\ MirrorIsCurrent

`WireValid` and the second conjunct of `GoodMachine` say that every diff on the wire
or in the buffer is one the exchange sent: it begins after its `pu`, ends no earlier
than it begins and no later than what was sent, and on Spot begins right after `pu`.
The rest of `GoodMachine` says that `prev_id` is 0 or the id of the local book, that an
answered snapshot has an id the exchange has reached, that the local book is not ahead
of the exchange, and that it is faithful. The order of the buffered diffs is not part
of `Inv`: the continuity check refuses a diff that does not continue the book, so
faithfulness does not rest on it. It is proved apart, in `BufferCorrect`: the inductive
`BufferInv` says that the buffer is in order and that each diff in it ends before each
frame still on the wire begins, which with `Ordered` (below) places the frame that is
read next behind the whole buffer.

The central lemmas are `ApplyIsFaithful` (a diff that the check accepts turns a
faithful book into a faithful book) and `ReplayIsFaithful`, an induction over the
buffered diffs with `NatSets!UpToInduction`: the library's induction theorems take an
operator as a parameter, this lemma takes the set of the numbers that satisfy the
claim. `NextInv` rests on one lemma per action. The refinement maps `mirror`, while
healthy on a linear perpetual, to an image, and everything else to `Lost`;
`AbstractStep` shows each action to be a step of `BookMirror` or a stutter. `NoRewind`
needs `Ordered` in addition, shown to be kept in `OrderedStep`: the diffs on the wire
follow one another in id order, and the book that is shown is older than each of them
and no newer than what was sent.

`IcebergProofs` proves of the detector, its registry and the two sockets, for all sides and
prices, every first book, window, limit and reorder buffer, any delays, skew of the clocks,
number of changes and of faults:

* `Invariance`: `Spec => []IInv`
* `TypeCorrect`: `Spec => []TypeOK`
* `ExpectedAlwaysAgrees`: `Spec => []ExpectedAgrees`
* `LevelsAreTrue`: `Spec => []LevelsTrue`
* `ExecutionsAreCountedOnce`: `Spec => []ExecutionsCountedOnce`
* `EventsStayStable`: `Spec => EventsAreStable`
* `RefillsAreExplained`: `Spec => []RefillIsExplained`
* `HiddenStaysExplained`: `Spec => []HiddenIsExplained`

None of them is inductive: they speak of what the detector has processed, and what it will
process is in its reorder buffer and in two channels, out of order and possibly twice.
`IInv` therefore puts together the market (`MarketOK`), the channels (`SocketsOK`,
`SharedOK`) and the engine (`EngineOK`), and says that there is a ledger: a function of
the trade ids, which the model does not have, with what had been executed at each level up
to that trade (`LedgerOK`). A trade on its way is `Paid`: the ledger grows at its id by
its quantity. An episode or an event counts no more than the ledger's entry at the last
trade the detector has seen (`Counted`). Trades are processed in the order of their ids,
and a repetition is refused by its id, so each that counts pays for itself. For the
levels, the deltas in the buffer and on their way are `Linked`: each names every level
that changed since one before it, and `Resumes` says that the first of them continues what
the detector has. The proof goes one event at a time: `Good` holds of a detector, its
buffer and the channels behind it; the first half of the module shows that each operation
of the detector keeps `Good`, the second half that the market, the sockets and the
registry do.

The last two theorems compare what the detector counts with what the market did at the
time: an episode's `replenished` must have been added to its level, and so must what was
executed beyond its `peak`, except for what was `late`. The ledger does not say when. `RInv`
therefore says that there is a *timeline*: for every time, the book and what had been
executed and added at each level, of which executions and cancellations only lower the book
(`Falls`). Every event on its way or in the buffer is `Dated` by it, a trade at the time it
was executed and a delta at the time it shows. Deltas are taken in the order of their times,
whatever the clocks, the delays and the buffer do, because they share one socket: `D` is the
time of the last, and no delta the detector has not seen is older. A level is then the
timeline's book of a time `n` up to `D`, and its `pending` was executed between `n` and the
time of the last event taken for it, or is the part `spare` of what was late
(`LevelBacked`). What an episode counts was added up to `n`, or is the other part, `paid`
(`EpisodeBacked`). A trade is either later than all that was taken for its level, and is an
execution of the timeline since, or is late and adds to `spare`. A delta that shows more
than `visible - pending` shows an addition, or pays with `spare`. The timeline grows with
each step of the market at the present time alone, which no event on its way can tell from
before.

`RefillIsReal` and `HiddenIsReal` say the same with nothing excepted. They hold in
`iceberg_delays` and are model-checked there only, because the code guarantees neither of
the conditions they need. TLC shows how `RefillIsReal` fails without each:

* no skew: in `iceberg_skew` a local clock ahead of the exchange's closes the window before
  the executions that a delta shows, and the next delta looks like a refill;
* no lag: events of equal exchange time go in the order they were received
  (`iceberg.rs:776`), and a trade received after the delta of its own instant is processed
  after it, however long the window (`reorder_window_ms` is 150, settable from 50 to 500);
* room: when the buffer is full (`MAX_REORDER_EVENTS` is 8192), the oldest event is
  processed before its window ends, and a trade executed before it may still come.

In each case what is counted wrongly is `late`, and the theorems bound it.

`ChartFetchProofs` proves of a chart's handler, for every line of time, market, sizes of
pages, chunks and candles, and any number of troubles:

* `RangesAreAskedOnce`: `Spec => []OneRequestPerRange`
* `PendingCorrect`: `Spec => []PendingIsCurrent`
* `SettledCorrect`: `Spec => SettledStaysSettled`
* `ChartTypeCorrect`: `Spec => []TypeOK`
* `CoverageStaysHeld`: `Spec => []CoverageIsHeld`

`ChartInv` says that the handler is well formed, holds no two requests for one range, and
that what is pending is of the present generation. `OneRequestPerRange` is inductive only
with the order of the steps of `add_request_with_id`: `DropRetryableIs` leaves no failed
request for the range whose retry is due, an empty set of `Suppressors` then leaves none
but a superseded one, which `QueueIs` reuses. One lemma per operation of the handler says
that it keeps `Good` and what it may do to a settled request (`KeepsSettled`); one lemma
per action of the chart applies them.

`CoverageIsHeld` relates the last message of a fetch to trades that came with earlier
ones. The inductive `CoverInv` follows them from the worker to the chart, as long as
nothing was reset or cleared: what a worker has done with is held or in the queue
(`WorksThrough`), and a completion stands in the queue behind the trades it credits
(`Follows`). That none of those is dropped on arrival needs more: a message of trades is
of a request that is pending or was settled just now (`QueueKnown`), so it is not stale,
and the worker's own request is pending (`WorkerKnown`). When its deadline passes, those
of all others have passed, so the clean-up leaves nothing pending, and `FetchMissing`
drops the worker. `PageIsWhole`, from the cardinality of finite sets, says that a page has
every trade up to its last one; `StopsAtCursor` that a worker that ends early verifies no
more than it brought. The theorem rests on the two assumptions about deadlines of section
2, which are the guards of `Age` and `AgeAtWork`: the worker's deadline is the last, and
no message waits as long as one.

`MarketProofs!NeverForgotten`: `OutageSpec => []NoOutageIsForgotten`, for every set of
streams, grace, smallest gap and chunk. The inductive `OutageInv` adds that the tracker
waits for each stream that was cut (`CutIsAwaited`: no restoration is announced without
it) and that its last data is remembered (`CutIsRemembered`), so that what it goes on to
miss lies behind it. `BackfillForgetsNothing` shows that a plan turns what is behind the
last data into chunks, apart from what is skipped. `OutageTypeCorrect` adds that a plan
asks for points of the line of time only: what is missing has a first point, and a last
one before a gap (`MissingIsPast`), by the least and greatest elements of `NatSets`.

`MarketProofs!CoverageCorrect` and `AnswersCorrect`: `CacheSpec => []CoverageIsBacked` and
`CacheSpec => AnswerIsWhole`, for every market of finitely many trades in an instant, any
number of workers, bucket and page sizes, and any number of mishaps. `CoverageIsBacked` is
not inductive: an absent bucket satisfies it until a store fills the bucket with later
trades alone, and a coverage a worker has read must still be true when it reads the
buckets. `CacheInv` therefore says that the buckets of covered instants exist and hold
their trades or will be rejected (`Backed`), the same of a coverage a worker has read and
nobody dropped since (`SeenIsBacked`), and that a worker's cursor is in its gap. That a
page has all trades up to its last one follows from its order (`PageIsInOrder`).
`CacheTypeCorrect` adds that a bucket has only trades of its own instants.

`RestWorkerProofs!BudgetKept`: `RestSpec => []RequestsStayWithinBudget`, for every period,
limit and set of weights. With a header, what was sent and told of is at most what the
last header said plus the request that is out (`HeaderInv`); `untold` is counted apart.
With a fixed window a potential is needed: `n` tokens are good for `(n + 1) \div 2`
requests, because each pays twice, so that a refill in mid-period cannot add more than
half a limit (`FixedInv`). Venues with fixed windows send requests of weight 1; `RestInit`
says so, and the theorem rests on it.

`StudioProofs` proves of five parts, each from its own inductive invariant:

* **Derive** (`MakerTradesKept`, `DeriveTypeCorrect`). `DeriveInv` says where a request in
  flight begins: at the present watermark less the overlap, unless it is the first
  (`RequestFits`), and that nothing before the watermark by more than the overlap is
  missing, on the desk (`HeldUpTo`) or, up to its latest trade, on disk (`GoodStore`), apart
  from what the client dropped.
* **Chain** (`HistoryStaysOneLine`, `ChainGoesForward`, `ChainTypeCorrect`). `ChainInv`
  says that one request of a kind is in flight, and that of a snapshot was sent no earlier
  than the chain on display was observed (`InTurn`), that the history rises (`GoodChain`),
  and that what is on disk is a part of it once loaded (`Backs`). That a set of seconds
  can be put in order (`InOrder`) is an induction with `UpToInduction`.
* **Session** (`TradesStayAccounted`, `DataComeWhileUp`, `SessionTypeCorrect`). What the
  application will see depends on everything in the outbox and the channel. `Leads` says
  that the events on the way lead from one value to another, by a trace with a value
  before each: from what is shown to what the link is (`StatusOnTheWay`), and from the
  last trade shown to the last accepted (`TradesOnTheWay`), short of the buffer. Traces
  are joined, cut and, for what a full channel drops, thinned.
* **Candles** (`NothingEverCountsTwice`, `HeldTradesStayShown`, `PlotTypeCorrect`).
  `PlotInv` says that a footprint has each trade once and in its candle (`GoodPlot`), that
  on the linear market what came live has touched its bucket and the same execution is not
  held under both ids, in memory or in any footprint, unless it is `past`: its candle is
  not among the live ones any more (`Apart`), and that memory is shown (`Shows`).
* **Bubbles** (`CoveredBubblesStayShown`, `SummariesStayHeld`, `BubbleTypeCorrect`).
  `BubbleInv` carries the claim through the worker: what it read is still covered by the
  cache, and what it read accounts for it (`JobIsRight`); what the chart covers the cache
  covers, too, but for `doubt` (`PanelIsRight`). `LargestAccounts` is the fact about the
  data: the `n` largest of a set account for whatever its parts accounted for. The first
  attempt at this proof failed for a good reason: the replacement of the next candle's
  summary by the one execution at its first instant (section 2) was excepted too narrowly,
  and the finite instance did not contain it. The exception is now stated by execution,
  and the instance has one at a boundary.

The assumptions are the named `ASSUME`s of the modules: constants are natural numbers, or
positive where the code's are; maker trades settle within the overlap (`DeriveAssumption`);
executions are finitely many and no two have one instant or size (`BubbleAssumption`); a page
has room for two trades (`PageAssumption`). TLC evaluates each in a run: `depth_sync`,
`iceberg_faults`, `chart_fetch`, `studio`.

`MCStudioProofs` proves `PartsKeepToThemselves`: `Spec` of `MCStudio` implies the
specification of each of its eight parts. A step of the run is a step of one part and leaves
the variables of the others alone (`StepsAreOfTheParts`). So every theorem about a part
holds in the run, and the joint type invariant is one of them: `StudioTypeCorrect`, `Spec =>
[]TypeOK`, from the eight theorems of the parts (`RestTypeCorrect` and those named
above).

Every invariant of a passing run and every action property is stated by a theorem, but for
`RefillIsReal` and `HiddenIsReal` (above). Also only model-checked are the liveness
properties `SilentPeerIsNoticed`, `CommandsAreServed` and `BackfillCompletesOffBoundary`:
fairness and `ENABLED` are outside the prover. No module uses a `RECURSIVE` operator.
Where the code loops, the definition is a choice (`FromFirst`, `InOrder`), a function of
the first elements (`ProcessFirst`) or a union over the elements, so that no proof needs
an induction over a fold.

## 6. Not modelled

The map covers only a few percent of the implementation's lines, and most of the rest has
no behaviour to check here: rendering and interaction of charts, panes, panels, modals and
layouts; parsing of the venues' frames; fixed-point arithmetic, statistics, scores and the mathematics of
gamma exposure; configuration, notifications, audio. What has a protocol and is left out:

* the footprint and fixed-range fetch paths of a chart, klines and open interest, the
  indicators' own fetches; they use the handler and the cache that are modelled;
* candles of ticks, CVD, liquidity events, time at price, the heatmap's history;
* the other venues' books: Bybit, OKX and Hyperliquid take snapshots in band, MEXC
  synchronises against REST without the continuity check of Binance;
* the GEX monitor and its proxy history, resolution of streams for panes that wait, the
  proxy and TLS under a session.

In what is modelled, section 2 names the abstractions. Details of two modules meet only in
their contracts: `MarketOutage` takes a session's events as ordered (`WsSession`), and the
workers of `ChartFetch` see a cache without failures (`MarketCache`).

## 7. Plan

Done, in this order: depth stream and contract with proofs; iceberg detector with its feed;
request handler with the chart's backfill; session; outage; cache; options; limiters;
candles; bubbles; proofs of outage, cache, limiters and request handler; proofs of the
iceberg detector, the session, the options, candles, bubbles, and the chart's coverage;
proofs of the detector's refills, and of the types of all parts together.

| Next | Modules | Properties |
|---|---|---|
| 1 | `VenueDepth`: in-band and REST snapshots | a book is never composed of two snapshots' levels |
| 2 | `MarketOutage` composed with `ChartFetch` | what an outage hid is asked for once, in every chart |
| 3 | `TickCandles` | incremental equals rebuilt |
