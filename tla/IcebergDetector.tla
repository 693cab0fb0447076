---------------------------- MODULE IcebergDetector ----------------------------
(***************************************************************************)
(* BinanceIcebergDetector (src/data/src/orderflow/iceberg.rs) as functions *)
(* from a detector to a detector: the reorder buffer, the quality of the   *)
(* feed, the levels of the book as the detector rebuilds them, and the     *)
(* episodes of aggression and refill it follows on them.                   *)
(*                                                                         *)
(* Abstractions.  The statistics of the rolling baselines and the score    *)
(* are numbers the control only compares: the opening threshold and the    *)
(* set of episodes whose score is high enough are the parameter `sense`,   *)
(* [minimum, scored], of the events that use them.  Of the baseline        *)
(* samples only the times of the last Warmup are kept, which is what       *)
(* warmed_up reads.  Fields of an episode that only feed the score or the  *)
(* display are left out.                                                   *)
(*                                                                         *)
(* Two fields are history: `at`, of a level, is the time of the last event *)
(* that was taken for it, and `late` counts what was executed at a level   *)
(* and taken out of turn.  BookContinuity::GapDetected, which the Binance  *)
(* adapter never sends, is left out.                                       *)
(***************************************************************************)
EXTENDS Integers, SequencesExt

CONSTANTS Side,               \* sides of the book, "Bid" and "Ask"
          Price,              \* prices, in ticks
          ReorderWindow,      \* reorder_window_ms
          MaxReorderEvents,   \* MAX_REORDER_EVENTS
          DedupWindow,        \* TRADE_DEDUP_WINDOW and DEPTH_DEDUP_WINDOW
          Warmup,             \* WARMUP_TRADES and WARMUP_TOUCH_DEPTHS
          RollingWindow,      \* ROLLING_WINDOW_MS
          MaxEpisodes,        \* MAX_EPISODES
          MaxDistance,        \* max_distance_from_touch_ticks
          MaxAdverse,         \* maximum_adverse_ticks
          IdleTimeout,        \* episode_idle_timeout_ms
          MaxDuration,        \* episode_max_duration_ms
          Retention,          \* retention_seconds
          MinLots,            \* five times the ticker's min_qty
          MinRefills,         \* minimum_refill_count
          MinExecuted,        \* minimum_executed_to_displayed, in percent
          MinRefilled,        \* minimum_refill_ratio, in percent
          ShowWeak            \* show_weak_candidates

ASSUME SideAssumption == Side \subseteq {"Bid", "Ask"} /\ Price \subseteq Nat
ASSUME LimitAssumption ==
    /\ {ReorderWindow, MaxDistance, MaxAdverse, IdleTimeout, MaxDuration, Retention,
        RollingWindow, MinRefills, MinExecuted, MinRefilled} \subseteq Nat
    /\ {MaxReorderEvents, DedupWindow, Warmup, MaxEpisodes, MinLots} \subseteq Nat \ {0}
    /\ ShowWeak \in BOOLEAN

Key == Side \X Price

NoLevels == [k \in {} |-> 0]

\* BinanceIcebergDetector::new.  Times of samples are the baselines, seen ids are kept
\* in the order they came in, and events are the ones retained for the display.  Nothing is
\* late.
NewDetector ==
    [quality |-> "Synchronizing", buffer |-> <<>>, latest |-> 0,
     levels |-> NoLevels, episodes |-> NoLevels, events |-> <<>>,
     trades |-> <<>>, touches |-> <<>>,
     seenTrades |-> <<>>, seenDepth |-> <<>>, nextId |-> 1,
     late |-> [k \in Key |-> 0]]

--------------------------------------------------------------------------------
(* Helpers. *)

Floor(n) == IF n < 0 THEN 0 ELSE n

Later(a, b) == IF a < b THEN b ELSE a

Newest(s, n) == IF Len(s) > n THEN SubSeq(s, Len(s) - n + 1, Len(s)) ELSE s

\* Mutation of Remember: the id is not kept.
RememberNothing(seen, id) == seen

\* dedup, for an id that is not in `seen`.
Remember(seen, id) == Newest(Append(seen, id), DedupWindow)

\* pop_front, until the front is one of those to keep.
FromFirst(s, keep) == IF keep = {} THEN <<>> ELSE SubSeq(s, Min(keep), Len(s))

\* expire_samples
Recent(samples, at) ==
    FromFirst(samples, {i \in 1..Len(samples) : at - samples[i] <= RollingWindow})

\* push_sample and expire
AddSample(samples, at) == Newest(Recent(Append(samples, at), at), Warmup)

WarmedUp(d) == Len(d.trades) >= Warmup /\ Len(d.touches) >= Warmup

Visible(d, key) == key \in DOMAIN d.levels /\ d.levels[key].visible > 0

\* recompute_touch: the prices among which the touch of a side is the best.
VisiblePrices(d, side) == {p \in Price : Visible(d, <<side, p>>)}

Touch(d, side) == IF side = "Bid" THEN Max(VisiblePrices(d, side))
                                  ELSE Min(VisiblePrices(d, side))

\* within_touch
WithinTouch(d, key) ==
    /\ VisiblePrices(d, key[1]) # {}
    /\ LET away == key[2] - Touch(d, key[1])
       IN away <= MaxDistance /\ -away <= MaxDistance

\* update_adverse_ticks, for one episode: how far the touch has gone through its price.
Adverse(d, key) ==
    IF VisiblePrices(d, key[1]) = {} THEN 0
    ELSE Floor(IF key[1] = "Bid" THEN key[2] - Touch(d, "Bid") ELSE Touch(d, "Ask") - key[2])

\* retain on the open episodes
KeepEpisodes(d, Keep(_)) ==
    [d EXCEPT !.episodes = [k \in {k \in DOMAIN d.episodes : Keep(k)} |-> d.episodes[k]]]

NoEpisodes(d) == [d EXCEPT !.episodes = NoLevels]

\* expire
Expire(d, now) ==
    LET alive(k) == /\ now - d.episodes[k].last <= IdleTimeout
                    /\ now - d.episodes[k].started <= MaxDuration
        fresh == {i \in 1..Len(d.events) : now - d.events[i].updated <= Retention}
    IN [KeepEpisodes(d, alive) EXCEPT !.events = FromFirst(@, fresh)]

\* Mutation of InvalidateAll: everything starts over, the ids of events too.
InvalidateAllAndIds(d, quality) ==
    [d EXCEPT !.buffer = <<>>, !.episodes = NoLevels, !.levels = NoLevels, !.nextId = 1,
              !.trades = <<>>, !.touches = <<>>, !.quality = quality]

\* invalidate_all.  What was seen, the retained events and the next id survive.
InvalidateAll(d, quality) ==
    [d EXCEPT !.buffer = <<>>, !.episodes = NoLevels, !.levels = NoLevels,
              !.trades = <<>>, !.touches = <<>>, !.quality = quality]

--------------------------------------------------------------------------------
(* process_trade *)

\* Mutations of Deplete: the executions before this one are forgotten; the execution is
\* taken from the visible quantity at once.
DepleteFromVisible(d, key, qty, at) ==
    [d EXCEPT !.levels[key] = [visible |-> @.visible, pending |-> @.pending + qty,
                               expected |-> Floor(@.visible - qty), at |-> Later(@.at, at)],
              !.late[key] = IF at <= d.levels[key].at THEN @ + qty ELSE @]

DepleteVisible(d, key, qty, at) ==
    [d EXCEPT !.levels[key] = [visible |-> Floor(@.visible - qty), pending |-> @.pending + qty,
                               expected |-> Floor(@.expected - qty), at |-> Later(@.at, at)],
              !.late[key] = IF at <= d.levels[key].at THEN @ + qty ELSE @]

\* The execution is expected to deplete the visible quantity.  It is late when it is no later
\* than what was taken for the level before.
Deplete(d, key, qty, at) ==
    [d EXCEPT !.levels[key] = [visible |-> @.visible, pending |-> @.pending + qty,
                               expected |-> Floor(@.expected - qty), at |-> Later(@.at, at)],
              !.late[key] = IF at <= d.levels[key].at THEN @ + qty ELSE @]

\* Mutation of Opened: what is displayed at the start does not count for the peak.
OpenedFlat(d, key, at) ==
    [id |-> d.nextId, started |-> at, last |-> at, peak |-> 0,
     executed |-> 0, replenished |-> 0, cancelled |-> 0, refills |-> 0,
     adverse |-> 0, confirmed |-> 0]

Opened(d, key, at) ==
    [id |-> d.nextId, started |-> at, last |-> at, peak |-> d.levels[key].visible,
     executed |-> 0, replenished |-> 0, cancelled |-> 0, refills |-> 0,
     adverse |-> 0, confirmed |-> 0]

OpenEpisode(d, key, at) ==
    [d EXCEPT !.nextId = @ + 1,
              !.episodes = [k \in DOMAIN @ \cup {key} |->
                              IF k = key THEN Opened(d, key, at) ELSE @[k]]]

HitEpisode(d, key, qty, at) ==
    LET x == d.episodes[key]
    IN [d EXCEPT !.episodes[key] = [x EXCEPT !.executed = @ + qty, !.last = at]]

ProcessTrade(d, e, sense) ==
    LET key == e.key
        known == e.id \in Range(d.seenTrades)
        d1 == [d EXCEPT !.seenTrades = Remember(@, e.id),
                        !.trades = AddSample(@, e.time), !.touches = Recent(@, e.time)]
        accepted == /\ d1.quality = "Healthy" /\ WarmedUp(d1)
                    /\ Visible(d1, key) /\ WithinTouch(d1, key)
                    /\ e.qty >= sense.minimum \/ key \in DOMAIN d1.episodes
        d2 == Deplete(d1, key, e.qty, e.time)
        full == Cardinality(DOMAIN d2.episodes) >= MaxEpisodes
        d3 == IF key \in DOMAIN d2.episodes THEN d2 ELSE OpenEpisode(d2, key, e.time)
    IN CASE known -> d
         [] ~known /\ ~accepted -> d1
         [] ~known /\ accepted /\ full /\ key \notin DOMAIN d2.episodes -> d2
         [] OTHER -> HitEpisode(d3, key, e.qty, e.time)

--------------------------------------------------------------------------------
(* process_depth *)

NoLevel == [visible |-> 0, pending |-> 0, expected |-> 0, at |-> 0]

Level(d, key) == IF key \in DOMAIN d.levels THEN d.levels[key] ELSE NoLevel

\* Mutation of Replenished: the executions are taken from the expected quantity, which has
\* paid for them already.
ReplenishedTwice(level, qty) == Floor(qty - Floor(level.expected - level.pending))

\* apply_level: the quantity that was not there once the pending executions are paid for.
Replenished(level, qty) == Floor(qty - Floor(level.visible - level.pending))

\* apply_level: the decrease the pending executions do not explain.
Unexplained(level, qty) ==
    Floor(level.visible - (IF level.visible < level.pending THEN level.visible
                                                            ELSE level.pending) - qty)

\* A refill counts when there was an execution before it and it is not microscopic.
IsRefill(level, qty, sense) ==
    /\ level.pending > 0
    /\ Replenished(level, qty) >= MinLots
    /\ Replenished(level, qty) >= sense.minimum \div 4

Refill(episode, level, qty, at, sense) ==
    LET counts == IsRefill(level, qty, sense)
    IN [episode EXCEPT
          !.last = at,
          !.peak = IF @ < qty THEN qty ELSE @,
          !.cancelled = @ + Unexplained(level, qty),
          !.replenished = IF counts THEN @ + Replenished(level, qty) ELSE @,
          !.refills = IF counts THEN @ + 1 ELSE @]

\* Mutation of Gone: a level goes though an episode is open on it.
GoneAnyway(d, e) == {k \in DOMAIN e.levels : e.levels[k] = 0}

\* apply_level: the levels that are removed.
Gone(d, e) == {k \in DOMAIN e.levels : e.levels[k] = 0 /\ k \notin DOMAIN d.episodes}

\* apply_level, for every level the delta e names.  What is pending on a level is late when
\* the delta is older than what was taken for the level before.
ApplyLevels(d, e, sense) ==
    LET named == DOMAIN e.levels
    IN [d EXCEPT
          !.levels = [k \in (DOMAIN @ \cup named) \ Gone(d, e) |->
                        IF k \in named
                        THEN [visible |-> e.levels[k], pending |-> 0, expected |-> e.levels[k],
                              at |-> e.time]
                        ELSE @[k]],
          !.late = [k \in Key |->
                      IF k \in named /\ e.time < Level(d, k).at THEN @[k] + Level(d, k).pending
                      ELSE @[k]],
          !.episodes = [k \in DOMAIN @ |->
                          IF k \in named
                          THEN Refill(@[k], Level(d, k), e.levels[k], e.time, sense)
                          ELSE @[k]]]

\* The touch quantities go into the baselines, one sample a side.
SampleTouch(d, at) ==
    LET once(x) == [x EXCEPT !.touches = AddSample(@, at), !.trades = Recent(@, at)]
        sides == {side \in Side : VisiblePrices(d, side) # {}}
    IN CASE Cardinality(sides) = 0 -> d
         [] Cardinality(sides) = 1 -> once(d)
         [] OTHER -> once(once(d))

\* update_adverse_ticks: an episode whose price was broken ends.
UpdateAdverse(d) ==
    LET seen == [d EXCEPT !.episodes = [k \in DOMAIN @ |->
                    [d.episodes[k] EXCEPT !.adverse = IF @ < Adverse(d, k) THEN Adverse(d, k) ELSE @]]]
        holds(k) == Adverse(d, k) <= MaxAdverse
    IN KeepEpisodes(seen, holds)

PassesEvidence(x) ==
    /\ x.refills >= MinRefills
    /\ 100 * x.executed >= MinExecuted * x.peak
    /\ 100 * x.replenished >= MinRefilled * x.executed
    /\ x.adverse <= MaxAdverse

\* publish_if_visible: the event of the episode on key.
Report(d, key, at) ==
    LET x == d.episodes[key]
    IN [id |-> x.id, key |-> key, started |-> x.started,
        confirmed |-> IF x.confirmed = 0 THEN at ELSE x.confirmed,
        updated |-> at, executed |-> x.executed, peak |-> x.peak,
        replenished |-> x.replenished, refills |-> x.refills]

\* publish_if_visible, for every episode: its event takes the place of the one with its id,
\* or joins the others.
PublishVisible(d, at, sense) ==
    LET visible == {k \in DOMAIN d.episodes :
                       /\ k \in sense.scored
                       /\ PassesEvidence(d.episodes[k]) \/ ShowWeak
                       /\ d.quality = "Healthy"}
        reports == {Report(d, k, at) : k \in visible}
        known == {r \in reports : \E i \in 1..Len(d.events) : d.events[i].id = r.id}
        current(event) == {r \in reports : r.id = event.id}
    IN [d EXCEPT
          !.episodes = [k \in DOMAIN @ |->
                          IF k \in visible
                          THEN [d.episodes[k] EXCEPT !.confirmed = Report(d, k, at).confirmed]
                          ELSE @[k]],
          !.events = [i \in 1..Len(@) |-> IF current(@[i]) = {} THEN @[i]
                                          ELSE CHOOSE r \in current(@[i]) : TRUE]
                     \o SetToSeq(reports \ known)]

\* After the levels: quality is restored by a boundary, and after a reconnect of the
\* trade stream (Degraded) by the next delta.
Restore(d, e) ==
    IF e.boundary \/ d.quality = "Degraded" THEN [d EXCEPT !.quality = "Healthy"] ELSE d

ProcessDepth(d, e, sense) ==
    LET d1 == [d EXCEPT !.seenDepth = Remember(@, e.id)]
        d2 == IF e.boundary
              THEN [d1 EXCEPT !.levels = NoLevels, !.episodes = NoLevels,
                              !.quality = "Synchronizing"]
              ELSE d1
        d3 == SampleTouch(ApplyLevels(d2, e, sense), e.time)
    IN IF e.id \in Range(d.seenDepth) THEN d
       ELSE PublishVisible(UpdateAdverse(Restore(d3, e)), e.time, sense)

--------------------------------------------------------------------------------
(* ingest *)

\* process, for OrderFlowEvent::Quality
ProcessQuality(d, e) ==
    [d EXCEPT !.quality = e.quality,
              !.episodes = IF e.quality = "Healthy" THEN @ ELSE NoLevels]

Process(d, e, sense) ==
    LET x == Expire(d, e.time)
    IN CASE e.type = "Trade" -> ProcessTrade(x, e, sense)
         [] e.type = "BookDelta" -> ProcessDepth(x, e, sense)
         [] e.type = "Quality" -> ProcessQuality(x, e)

TypeOrder(e) == CASE e.type = "Trade" -> 0 [] e.type = "BookDelta" -> 1
                  [] e.type = "Quality" -> 2

\* buffer_cmp: is a not after b?
NotAfter(a, b) ==
    \/ a.time < b.time
    \/ a.time = b.time /\ a.recv < b.recv
    \/ a.time = b.time /\ a.recv = b.recv /\ TypeOrder(a) < TypeOrder(b)
    \/ a.time = b.time /\ a.recv = b.recv /\ TypeOrder(a) = TypeOrder(b) /\ a.id <= b.id

\* Pushed at the end of the sorted buffer and stably sorted: behind all it is not before.
InsertSorted(buffer, e) ==
    InsertAt(buffer, 1 + Max({0} \cup {i \in 1..Len(buffer) : NotAfter(buffer[i], e)}), e)

\* The buffer is full: the oldest is processed, and the feed counts as degraded.
MakeRoom(d, sense) ==
    IF Len(d.buffer) < MaxReorderEvents THEN d
    ELSE [Process([d EXCEPT !.buffer = Tail(@)], Head(d.buffer), sense)
            EXCEPT !.quality = "Degraded"]

\* What the first n of the buffer make of the detector, in order.
ProcessFirst(d, n, sense) ==
    LET after[i \in 0..n] ==
          IF i = 0 THEN [d EXCEPT !.buffer = SubSeq(@, n + 1, Len(@))]
          ELSE Process(after[i - 1], d.buffer[i], sense)
    IN after[n]

\* Mutation of Drain: nothing waits for late events.
DrainAtOnce(d, sense) == ProcessFirst(d, Len(d.buffer), sense)

\* drain_watermark
Drain(d, sense) ==
    LET watermark == Floor(d.latest - ReorderWindow)
        ready == {i \in 1..Len(d.buffer) : d.buffer[i].time <= watermark}
    IN ProcessFirst(d, Max({0} \cup ready), sense)

\* The events that do not go through the buffer.
Interrupts(e) == e.type = "Reconnect" \/ (e.type = "Quality" /\ e.quality = "Gap")

Ingest(d, e, sense) ==
    IF Interrupts(e)
    THEN InvalidateAll(d, IF e.type = "Reconnect" THEN "Degraded" ELSE "Gap")
    ELSE LET d1 == MakeRoom([d EXCEPT !.latest = IF @ < e.time THEN e.time ELSE @], sense)
           IN Drain([d1 EXCEPT !.buffer = InsertSorted(@, e)], sense)
================================================================================
