------------------------------- MODULE DepthSync -------------------------------
(***************************************************************************)
(* The Binance depth stream: the socket that delivers diff updates, the    *)
(* REST snapshot fetched beside it, and DepthSyncMachine, which puts the   *)
(* two together into a local order book                                    *)
(* (src/exchange/src/adapter/hub/binance/stream.rs).                       *)
(*                                                                         *)
(* A diff carries absolute quantities of the levels it names, so its       *)
(* payload is determined by the ids it covers: the levels whose quantity   *)
(* changed since the update before it, with the quantities the exchange    *)
(* has at its final id.  Diffs are therefore records of ids, and the       *)
(* quantities come from the exchange's history Book, a constant: what is   *)
(* proved holds for every history.                                         *)
(***************************************************************************)
EXTENDS Integers, Sequences, FiniteSetsExt

CONSTANTS Level,       \* price levels
          Qty,         \* quantities; 0 stands for an absent level
          MaxId,       \* bound on the exchange's update ids
          Book,        \* Book[i][l]: quantity of level l after update i
          MaxPending,  \* MAX_PENDING_DEPTH_EVENTS
          MaxWire,     \* bound on the frames in flight on the socket
          Market       \* the MarketKinds to explore

ASSUME MaxIdAssumption == MaxId \in Nat \ {0}
ASSUME BookAssumption == Book \in [0..MaxId -> [Level -> Qty]]
ASSUME QtyAssumption == 0 \in Qty
ASSUME BoundsAssumption == MaxPending \in Nat \ {0} /\ MaxWire \in Nat \ {0}
ASSUME MarketAssumption == Market \subseteq {"Spot", "LinearPerps", "InversePerps"}

VARIABLES
    market,     \* market kind of the ticker, fixed for the stream
    now,        \* exchange: last update id of the matching engine
    sent,       \* exchange: final id of the last diff it emitted
    wire,       \* socket: diffs sent and not yet read
    connected,  \* WsSession: the transport is up
    sync,       \* DepthSyncMachine: state, prev_id, pending, current, gap_detected
    shown,      \* the book of the last Event::DepthReceived
    mirror      \* the book an order-flow consumer rebuilds from the events

vars == <<market, now, sent, wire, connected, sync, shown, mirror>>

--------------------------------------------------------------------------------
Ids == 0..MaxId

Diff == [pu : Ids, first : Ids, final : Ids]

Depth == [Level -> Qty]

LocalDepthCache == [id : Ids, depth : Depth]

EmptyCache == [id |-> 0, depth |-> [l \in Level |-> 0]]

\* The receiver held by DepthSyncState::WaitingSnapshot, with what was sent.
SnapshotRx == [status : {"none", "empty", "ok", "err", "closed"}, id : Ids]

Rx(status) == [status |-> status, id |-> 0]

Machine == [state : {"WaitingSnapshot", "Live"}, rx : SnapshotRx, prev_id : Ids,
            pending : Seq(Diff), current : LocalDepthCache, gap_detected : BOOLEAN]

Quality == {"None", "Synchronizing", "Healthy", "Gap", "Reconnect"}

Mirror == [quality : Quality, id : Ids, depth : Depth]

\* DepthSyncMachine::new
NewMachine == [state |-> "Live", rx |-> Rx("none"), prev_id |-> 0, pending |-> <<>>,
               current |-> EmptyCache, gap_detected |-> FALSE]

--------------------------------------------------------------------------------
(* The local book. *)

\* The levels diff d names: those that changed since the update before it.
Touched(d) == {l \in Level : \E i \in d.pu .. d.final : Book[i][l] # Book[d.final][l]}

\* LocalDepthCache::update with DepthUpdate::Diff.
ApplyDiff(cache, d) ==
    [id |-> d.final,
     depth |-> [l \in Level |-> IF l \in Touched(d) THEN Book[d.final][l]
                                                    ELSE cache.depth[l]]]

\* Mutation of Continues: the chain is checked on the first diff only.
ContinuesOnceOnly(d, last, prev) == prev # 0 \/ (d.first <= last + 1 /\ last + 1 <= d.final)

\* Is d the diff that may follow a book at update id `last`?  prev is 0 until
\* a diff has been applied on top of the snapshot.
Continues(d, last, prev) ==
    IF prev = 0 THEN d.first <= last + 1 /\ last + 1 <= d.final
    ELSE IF market = "Spot" THEN prev = d.first - 1
    ELSE prev = d.pu

\* SonicDepth::apply_depth_diff: what happens to d.
Verdict(d, last, prev) ==
    IF last = 0 \/ d.final <= last THEN "Skipped"
    ELSE IF Continues(d, last, prev) THEN "Applied"
    ELSE "NeedsResync"

--------------------------------------------------------------------------------
(* The replay of the buffered diffs p over a snapshot taken at update id s. *)

\* last_update_id and prev_id once the first k diffs have been replayed.
LastAfter(p, s, k) == Max({s} \cup {p[i].final : i \in 1..k})

PrevAfter(p, s, k) == IF LastAfter(p, s, k) = s THEN 0 ELSE LastAfter(p, s, k)

ReplayVerdict(p, s, k) == Verdict(p[k], LastAfter(p, s, k - 1), PrevAfter(p, s, k - 1))

\* The replayed diffs that wrote level l; the last of them wins.
Writers(p, s, k, l) ==
    {i \in 1..k : ReplayVerdict(p, s, i) = "Applied" /\ l \in Touched(p[i])}

CacheAfter(p, s, k) ==
    [id |-> LastAfter(p, s, k),
     depth |-> [l \in Level |->
                  IF Writers(p, s, k, l) = {} THEN Book[s][l]
                  ELSE Book[p[Max(Writers(p, s, k, l))].final][l]]]

\* The diffs that do not continue the book; the replay stops at the first.
Breaks(p, s) == {k \in 1..Len(p) : ReplayVerdict(p, s, k) = "NeedsResync"}

--------------------------------------------------------------------------------
(* DepthSyncMachine, as functions from a machine to a machine. *)

\* begin_resync: a new fetch is spawned; the receiver of an older one is dropped.
BeginResync(m) == [m EXCEPT !.state = "WaitingSnapshot", !.rx = Rx("empty")]

\* handle_snapshot_result for Ok(snapshot).
HandleSnapshot(m) ==
    LET s == m.rx.id
        p == m.pending
    IN IF Breaks(p, s) = {}
       THEN [m EXCEPT !.state = "Live", !.rx = Rx("none"), !.pending = <<>>,
                      !.prev_id = PrevAfter(p, s, Len(p)),
                      !.current = CacheAfter(p, s, Len(p))]
       ELSE LET k == Min(Breaks(p, s))
            IN BeginResync([m EXCEPT !.pending = SubSeq(p, k + 1, Len(p)),
                                     !.prev_id = PrevAfter(p, s, k - 1),
                                     !.current = CacheAfter(p, s, k - 1),
                                     !.gap_detected = TRUE])

\* poll_snapshot_if_ready where it returns Ok: the session outlives the poll.
PollSnapshot(m) ==
    IF m.state = "WaitingSnapshot" /\ m.rx.status = "ok" THEN HandleSnapshot(m) ELSE m

\* poll_snapshot_if_ready where it returns Err: the session is torn down.
PollFails(m) == m.state = "WaitingSnapshot" /\ m.rx.status \in {"err", "closed"}

\* Mutation of QueuePendingDiff: off by one at the limit.
QueuePendingDiffLate(m, d) ==
    [m EXCEPT !.pending = IF Len(@) > MaxPending THEN Append(Tail(@), d) ELSE Append(@, d)]

\* queue_pending_diff
QueuePendingDiff(m, d) ==
    [m EXCEPT !.pending = IF Len(@) = MaxPending THEN Append(Tail(@), d) ELSE Append(@, d)]

LiveVerdict(m, d) == Verdict(d, m.current.id, m.prev_id)

\* Mutation of OnLiveDiff: the gap is not remembered.
OnLiveDiffSilent(m, d) ==
    CASE LiveVerdict(m, d) = "Skipped" -> m
      [] LiveVerdict(m, d) = "Applied" ->
           [m EXCEPT !.current = ApplyDiff(@, d), !.prev_id = d.final]
      [] LiveVerdict(m, d) = "NeedsResync" ->
           BeginResync([m EXCEPT !.pending = <<d>>, !.prev_id = 0])

\* Mutation of OnLiveDiff: remembers the id it expects next.
OnLiveDiffExpected(m, d) ==
    CASE LiveVerdict(m, d) = "Skipped" -> m
      [] LiveVerdict(m, d) = "Applied" ->
           [m EXCEPT !.current = ApplyDiff(@, d), !.prev_id = d.final + 1]
      [] LiveVerdict(m, d) = "NeedsResync" ->
           BeginResync([m EXCEPT !.gap_detected = TRUE, !.pending = <<d>>, !.prev_id = 0])

\* on_live_diff
OnLiveDiff(m, d) ==
    CASE LiveVerdict(m, d) = "Skipped" -> m
      [] LiveVerdict(m, d) = "Applied" ->
           [m EXCEPT !.current = ApplyDiff(@, d), !.prev_id = d.final]
      [] LiveVerdict(m, d) = "NeedsResync" ->
           BeginResync([m EXCEPT !.gap_detected = TRUE, !.pending = <<d>>, !.prev_id = 0])

\* handle_depth_update
HandleDepthUpdate(m, d) ==
    IF m.state = "WaitingSnapshot" THEN QueuePendingDiff(m, d) ELSE OnLiveDiff(m, d)

--------------------------------------------------------------------------------
(* The events of one on_text, as their consumers take them. *)

\* Mutation of AfterPoll: Healthy is sent although the replay broke off.
AfterPollAlways(v, m, m1) ==
    IF m.state = "WaitingSnapshot" /\ m.rx.status = "ok"
    THEN [quality |-> "Healthy", id |-> m1.current.id, depth |-> m1.current.depth]
    ELSE v

\* m was polled into m1: a boundary and Quality::Healthy are out if that ended a wait.
AfterPoll(v, m, m1) ==
    IF m.state = "WaitingSnapshot" /\ m1.state = "Live"
    THEN [quality |-> "Healthy", id |-> m1.current.id, depth |-> m1.current.depth]
    ELSE v

\* The BookDelta of an applied live diff.
AfterDelta(v, d, applied) ==
    IF applied /\ market = "LinearPerps"
    THEN [v EXCEPT !.id = d.final, !.depth = ApplyDiff([id |-> v.id, depth |-> v.depth], d).depth]
    ELSE v

AfterGap(v, gap) == IF gap THEN [v EXCEPT !.quality = "Gap"] ELSE v

--------------------------------------------------------------------------------
Init ==
    /\ market \in Market
    /\ now = 1 /\ sent = 0
    /\ wire = <<>>
    /\ connected = FALSE
    /\ sync = NewMachine
    /\ shown = EmptyCache
    /\ mirror = [quality |-> "None", id |-> 0, depth |-> EmptyCache.depth]

\* The matching engine changes the book.
Tick ==
    /\ now < MaxId
    /\ now' = now + 1
    /\ UNCHANGED <<market, sent, wire, connected, sync, shown, mirror>>

\* The exchange emits the diff of everything since its last one.  Ids between
\* the last diff and `first` changed nothing (only perpetuals skip such ids).
Emit(first) ==
    /\ sent < now /\ Len(wire) < MaxWire
    /\ market = "Spot" => first = sent + 1
    /\ \A i \in sent .. first - 1 : Book[i] = Book[sent]
    /\ sent' = now
    /\ wire' = IF connected
               THEN Append(wire, [pu |-> sent, first |-> first, final |-> now]) ELSE wire
    /\ UNCHANGED <<market, now, connected, sync, shown, mirror>>

\* The spawned fetch_depth_snapshot ends: with the book of any id the exchange has
\* had (a REST answer may lag behind the socket), with an error, or by dying.
Answer(rx) ==
    /\ sync.rx.status = "empty"
    /\ rx.status = "ok" <=> rx.id \in 1..now
    /\ rx.status \in {"ok", "err", "closed"}
    /\ sync' = [sync EXCEPT !.rx = rx]
    /\ UNCHANGED <<market, now, sent, wire, connected, shown, mirror>>

\* DepthAdapter::connect and on_connected.
Connect ==
    /\ ~connected
    /\ connected' = TRUE
    /\ sync' = BeginResync(NewMachine)
    /\ mirror' = IF market = "LinearPerps"
                 THEN [mirror EXCEPT !.quality = "Synchronizing"] ELSE mirror
    /\ UNCHANGED <<market, now, sent, wire, shown>>

\* DepthAdapter::on_disconnected.
Disconnected ==
    /\ connected' = FALSE
    /\ wire' = <<>>
    /\ mirror' = IF market = "LinearPerps"
                 THEN [mirror EXCEPT !.quality = "Reconnect"] ELSE mirror
    /\ UNCHANGED <<market, now, sent, shown>>

\* The socket fails, closes or times out.
SocketLost == connected /\ Disconnected /\ UNCHANGED sync

\* Mutation of OnText: the polled book is published, before the frame.
OnTextEarly ==
    /\ connected /\ wire # <<>> /\ ~PollFails(sync)
    /\ LET d == Head(wire)
           m1 == PollSnapshot(sync)
           m2 == HandleDepthUpdate(m1, d)
       IN /\ sync' = m2
          /\ shown' = IF m1.state = "Live" THEN m1.current ELSE shown
          /\ mirror' = AfterPoll(mirror, sync, m1)
    /\ wire' = Tail(wire)
    /\ UNCHANGED <<market, now, sent, connected>>

\* DepthAdapter::on_text with a depth frame.
OnText ==
    /\ connected /\ wire # <<>> /\ ~PollFails(sync)
    /\ LET d == Head(wire)
           m1 == PollSnapshot(sync)
           m2 == HandleDepthUpdate(m1, d)
           applied == m1.state = "Live" /\ LiveVerdict(m1, d) = "Applied"
           gap == market = "LinearPerps" /\ m2.gap_detected
       IN /\ sync' = [m2 EXCEPT !.gap_detected = @ /\ ~gap]
          /\ shown' = IF applied THEN m2.current ELSE shown
          /\ mirror' = AfterGap(AfterDelta(AfterPoll(mirror, sync, m1), d, applied), gap)
    /\ wire' = Tail(wire)
    /\ UNCHANGED <<market, now, sent, connected>>

\* DepthAdapter::on_text with a frame feed_de cannot decode: the error is ignored,
\* only the poll has an effect, and a gap it found is not announced yet.
OnUndecodedText ==
    /\ connected /\ wire # <<>> /\ ~PollFails(sync)
    /\ sync' = PollSnapshot(sync)
    /\ mirror' = AfterPoll(mirror, sync, sync')
    /\ wire' = Tail(wire)
    /\ UNCHANGED <<market, now, sent, connected, shown>>

\* DepthAdapter::on_text fails in the poll and WsSession drops the connection.
OnTextFails ==
    /\ connected /\ wire # <<>> /\ PollFails(sync)
    /\ Disconnected
    /\ sync' = [sync EXCEPT !.rx = Rx("none")]

Next ==
    \/ Tick
    \/ \E first \in (sent + 1)..now : Emit(first)
    \/ \E rx \in SnapshotRx : Answer(rx)
    \/ Connect
    \/ SocketLost
    \/ OnText
    \/ OnUndecodedText
    \/ OnTextFails

Spec == Init /\ [][Next]_vars

--------------------------------------------------------------------------------
TypeOK ==
    /\ market \in Market
    /\ now \in 1..MaxId /\ sent \in 0..now
    /\ wire \in Seq(Diff) /\ Len(wire) <= MaxWire
    /\ connected \in BOOLEAN
    /\ sync \in Machine
    /\ shown \in LocalDepthCache
    /\ mirror \in Mirror

Faithful(cache) == cache.id # 0 => cache.depth = Book[cache.id]

(***************************************************************************)
(* Whatever was lost, reordered by the race between snapshot and diffs, or *)
(* dropped from the full buffer: the local book is exactly the exchange's  *)
(* book at the update id it claims, and so is the book handed to charts    *)
(* and panels with DepthReceived.                                          *)
(***************************************************************************)
BookFaithful == Faithful(sync.current) /\ Faithful(shown)

(***************************************************************************)
(* The diffs kept while the snapshot is awaited are at most                *)
(* MAX_PENDING_DEPTH_EVENTS and in stream order, no diff twice, whatever   *)
(* was dropped as the oldest, replayed halfway or read meanwhile.          *)
(***************************************************************************)
PendingIsOrdered ==
    /\ Len(sync.pending) <= MaxPending
    /\ \A i, j \in 1..Len(sync.pending) : i < j => sync.pending[i].final <= sync.pending[j].pu

(***************************************************************************)
(* On linear perpetuals (the only market whose deltas, gaps and reconnects *)
(* are published) a consumer that was last told Healthy and rebuilds the   *)
(* book from the boundary and the deltas has the machine's own book: no    *)
(* diff was applied silently, no gap went unannounced.                     *)
(***************************************************************************)
MirrorIsCurrent ==
    market = "LinearPerps" /\ mirror.quality = "Healthy" =>
        /\ sync.state = "Live" /\ mirror.id # 0
        /\ mirror.id = sync.current.id /\ mirror.depth = sync.current.depth

(***************************************************************************)
(* The book handed to charts and panels never moves back in time, across   *)
(* gaps, lagging snapshots and reconnects.                                 *)
(***************************************************************************)
ShownNeverRewinds == [][shown'.id >= shown.id]_vars

CONSTANT Lost  \* the view of a consumer that has been told it has no book

ASSUME LostAssumption == Lost \notin LocalDepthCache

(***************************************************************************)
(* The stream implements BookMirror: what a consumer of the order-flow     *)
(* events of a linear perpetual believes to be a healthy book is an image  *)
(* of the exchange's history, and only moves forward until the consumer is *)
(* told otherwise.                                                         *)
(***************************************************************************)
View == IF market = "LinearPerps" /\ mirror.quality = "Healthy"
        THEN [id |-> mirror.id, depth |-> mirror.depth] ELSE Lost

Abstract == INSTANCE BookMirror WITH view <- View

ImplementsBookMirror == Abstract!Spec
================================================================================
