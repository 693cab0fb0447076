------------------------------ MODULE MarketOutage ------------------------------
(***************************************************************************)
(* Outages of the market streams: the tracker that joins the connections   *)
(* into one state of the application (src/src/market_service.rs), what the *)
(* application does on a transition (src/src/main.rs) and the backfill of  *)
(* what was missed (src/src/screen/dashboard.rs).                          *)
(*                                                                         *)
(* Abstractions.  Every stream has a connection of its own, whose events   *)
(* reach the application in order (module WsSession).  Streams of depth,   *)
(* which need no backfill, are left out; one chart shows each stream.      *)
(* Time is a line of points; the data of a point arrives while it lasts,   *)
(* on a stream that is up, or not at all on a quiet one.                   *)
(***************************************************************************)
EXTENDS Naturals, FiniteSets, FiniteSetsExt

CONSTANTS Streams,       \* trade and kline streams
          TradeStreams,  \* those of trades
          LastPoint,     \* the end of time
          Grace,         \* OFFLINE_GRACE
          MinGap,        \* MIN_BACKFILL_GAP_MS
          ChunkSpan,     \* TRADE_BACKFILL_CHUNK_MS, or 900 candles
          MaxChanges     \* bound on the changes of the configured streams

ASSUME OutageAssumption ==
    /\ TradeStreams \subseteq Streams /\ IsFiniteSet(Streams)
    /\ {LastPoint, Grace, ChunkSpan} \subseteq Nat \ {0}
    /\ {MinGap, MaxChanges} \subseteq Nat

VARIABLES
    time,         \* the present point
    configured,   \* configured_market_streams of the active dashboard
    up,           \* the streams whose connection is established
    cut,          \* those that lost theirs
    tracker,      \* MarketConnectivity: expected, connected, phase, since, hadOnline
    dash,         \* Dashboard: lastLive, lastSeen (pending_disconnect), pending, covered
    missed,       \* the points an outage of a stream swallowed, until they are recovered or
                  \* given up: too small a gap, a fetch that failed or found nothing
    skipped,      \* those of them an execution of the backfill left out
    changes       \* of the configuration so far

outageVars == <<time, configured, up, cut, tracker, dash, missed, skipped, changes>>

Point == 1..LastPoint

None == 0   \* no time: points start at 1

Never == [s \in Streams |-> None]

Nothing == [s \in Streams |-> {}]

OutageInit ==
    /\ time = 1
    /\ configured \in (SUBSET Streams) \ {{}}
    /\ up = {} /\ cut = {}
    /\ tracker = [expected |-> {}, connected |-> {}, phase |-> "connecting",
                  since |-> None, hadOnline |-> FALSE]
    /\ dash = [lastLive |-> Never, lastSeen |-> Never, pending |-> {}, covered |-> Nothing]
    /\ missed = Nothing
    /\ skipped = Nothing
    /\ changes = 0

--------------------------------------------------------------------------------
(* MarketConnectivity. *)

Complete(t) == t.expected \subseteq t.connected

\* evaluate: the tracker after it, and whether it reports Restored.
Evaluate(t) ==
    LET since == IF t.since = None THEN time ELSE t.since
    IN IF Complete(t)
       THEN [t EXCEPT !.since = None, !.phase = "online", !.hadOnline = FALSE]
       ELSE [t EXCEPT !.since = since,
                      !.phase = IF t.phase = "offline" \/ time - since >= Grace
                                THEN "offline" ELSE "connecting"]

Restored(t) == Complete(t) /\ (t.phase = "offline" \/ t.hadOnline)

--------------------------------------------------------------------------------
(* backfill_disconnected_streams. *)

Stretch(s, from, to) == [stream |-> s, from |-> from, to |-> to]

Points(r) == r.from .. r.to

\* The outage of a stream since its last live data, unless it is too small.
Small(s) == time < dash.lastSeen[s] + 1 + MinGap

Outage(s) == IF dash.lastSeen[s] = None THEN {} ELSE dash.lastSeen[s] + 1 .. time

\* missing_trade_range: the oldest part of it the chart does not hold; candles are asked for
\* whatever the chart holds.
Missing(s) ==
    LET open == IF s \in TradeStreams THEN Outage(s) \ dash.covered[s] ELSE Outage(s)
        end(p) == Max({q \in p..time : p..q \subseteq open})
    IN IF open = {} \/ Small(s) \/ s \notin configured THEN {} ELSE {Stretch(s, Min(open), end(Min(open)))}

ChunkRanges(r) ==
    {Stretch(r.stream, from, Min({from + ChunkSpan - 1, r.to})) :
       from \in {p \in Points(r) : (p - r.from) % ChunkSpan = 0}}

AlreadyPending(chunk) ==
    \E other \in dash.pending :
       other.stream = chunk.stream /\ Points(other) \cap Points(chunk) # {}

PointsOf(chunks, s) == UNION {Points(c) : c \in {d \in chunks : d.stream = s}}

\* execute_reconnect_backfill takes the pending disconnect and queues the chunks of every
\* outage that do not overlap a pending one.
Backfill ==
    LET chunks == UNION {ChunkRanges(r) : r \in UNION {Missing(s) : s \in Streams}}
        pending == dash.pending \cup {c \in chunks : ~AlreadyPending(c)}
    IN /\ dash' = [dash EXCEPT !.lastSeen = Never, !.pending = pending]
       /\ missed' = [s \in Streams |-> IF Small(s) THEN missed[s] \ Outage(s) ELSE missed[s]]
       /\ skipped' = [s \in Streams |->
            skipped[s] \cup (IF Small(s) THEN {}
                             ELSE (missed[s] \cap Outage(s)) \ PointsOf(pending, s))]

\* apply_connectivity_transition.
Transition(t) ==
    /\ tracker' = Evaluate(t)
    /\ IF Restored(t) THEN Backfill ELSE UNCHANGED <<dash, missed, skipped>>

--------------------------------------------------------------------------------
(* The application. *)

\* Mutation of Connected: the stream is not added to the expected ones.
ConnectedUnexpected(s) ==
    /\ s \in configured \ up
    /\ up' = up \cup {s} /\ cut' = cut \ {s}
    /\ Transition([tracker EXCEPT !.connected = @ \cup {s}])
    /\ UNCHANGED <<time, configured, changes>>

\* Event::Connected.
Connected(s) ==
    /\ s \in configured \ up
    /\ up' = up \cup {s} /\ cut' = cut \ {s}
    /\ Transition([tracker EXCEPT !.expected = @ \cup {s}, !.connected = @ \cup {s}])
    /\ UNCHANGED <<time, configured, changes>>

\* Mutation of Remembered: the newest last seen replaces that of an outage not yet recovered.
RememberedNewest(s) == [dash EXCEPT !.lastSeen[s] = dash.lastLive[s]]

\* record_pending_disconnect_gaps: the oldest last seen of an outage stays.
Remembered(s) ==
    [dash EXCEPT !.lastSeen[s] =
       IF @ = None THEN dash.lastLive[s]
       ELSE IF dash.lastLive[s] = None THEN @ ELSE Min({@, dash.lastLive[s]})]

\* Event::Disconnected, of a connection that was up or of an attempt that failed.
Disconnected(s) ==
    /\ s \in configured
    /\ up' = up \ {s} /\ cut' = cut \cup (up \cap {s})
    /\ LET t == [tracker EXCEPT !.hadOnline = @ \/ tracker.phase = "online",
                                !.expected = @ \cup {s}, !.connected = @ \ {s}]
       IN tracker' = Evaluate(t)   \* incomplete: never Restored
    /\ dash' = Remembered(s)
    /\ UNCHANGED <<time, configured, missed, skipped, changes>>

\* Message::Tick: sync_expected, or the timer alone.
AppTick ==
    /\ Transition([tracker EXCEPT !.expected = configured, !.connected = @ \cap configured])
    /\ UNCHANGED <<time, configured, up, cut, changes>>

\* Panes come and go: a stream that is no longer needed is dropped without an event, and
\* its chart with it.
Reconfigure(s) ==
    /\ changes < MaxChanges
    /\ configured' \in {configured \cup {s}, configured \ {s}} \ {configured, {}}
    /\ up' = up \cap configured' /\ cut' = cut \cap configured'
    /\ dash' = [dash EXCEPT !.covered[s] = {}]
    /\ missed' = [missed EXCEPT ![s] = {}]
    /\ skipped' = [skipped EXCEPT ![s] = {}]
    /\ changes' = changes + 1
    /\ UNCHANGED <<time, tracker>>

\* A point passes.  Live data comes on some of the streams that are up
\* (update_latest_klines, ingest_trades); a stream that is down misses what it has.
Pass ==
    /\ time < LastPoint
    /\ time' = time + 1
    /\ \E live \in SUBSET up :
       dash' = [dash EXCEPT !.lastLive = [s \in Streams |-> IF s \in live THEN time' ELSE @[s]]]
    /\ missed' = [s \in Streams |->
         IF s \in cut /\ dash.lastLive[s] # None THEN missed[s] \cup {time'}
         ELSE missed[s]]
    /\ UNCHANGED <<configured, up, cut, tracker, skipped, changes>>

\* apply_backfill_update: a chunk is complete up to a point, or has failed.  Its rest is not
\* asked for again.  The chunks of a plan run in order.
ChunkEnds ==
    \E chunk \in dash.pending : \E upto \in (chunk.from - 1) .. chunk.to :
       /\ \A other \in dash.pending : other.stream = chunk.stream => chunk.from <= other.from
       /\ dash' = [dash EXCEPT !.pending = @ \ {chunk},
                     !.covered[chunk.stream] =
                        IF chunk.stream \in TradeStreams THEN @ \cup chunk.from .. upto ELSE @]
       /\ missed' = [missed EXCEPT ![chunk.stream] = @ \ Points(chunk)]
       /\ skipped' = [skipped EXCEPT ![chunk.stream] = @ \ Points(chunk)]
       /\ UNCHANGED <<time, configured, up, cut, tracker, changes>>

OutageNext ==
    \/ \E s \in Streams : Connected(s) \/ Disconnected(s) \/ Reconfigure(s)
    \/ AppTick \/ Pass \/ ChunkEnds

OutageSpec == OutageInit /\ [][OutageNext]_outageVars

--------------------------------------------------------------------------------

OutageTypeOK ==
    /\ time \in Point
    /\ configured \subseteq Streams /\ up \subseteq configured
    /\ tracker.expected \subseteq Streams /\ tracker.connected \subseteq tracker.expected
    /\ tracker.phase \in {"connecting", "online", "offline"}
    /\ tracker.since \in 0..LastPoint /\ tracker.hadOnline \in BOOLEAN
    /\ dash.lastLive \in [Streams -> 0..LastPoint] /\ dash.lastSeen \in [Streams -> 0..LastPoint]
    /\ dash.covered \in [Streams -> SUBSET Point]
    /\ \A c \in dash.pending : c.stream \in Streams /\ {c.from, c.to} \subseteq Point
    /\ {missed, skipped} \subseteq [Streams -> SUBSET Point]
    /\ changes \in 0..MaxChanges

\* What the dashboard means to ask for: pending, or behind the data it remembers.
Planned(s) ==
    PointsOf(dash.pending, s)
      \cup (IF dash.lastSeen[s] = None THEN {} ELSE dash.lastSeen[s] + 1 .. LastPoint)

\* No outage is forgotten, however those of several streams overlap and whatever connects or
\* is configured in between: what a stream missed is asked for, or is behind the last data
\* remembered for the next recovery.  What the plan of a recovery leaves out is excepted.
NoOutageIsForgotten ==
    \A s \in Streams : missed[s] \subseteq Planned(s) \cup skipped[s]

\* The stated purpose of the plan: it recovers the complete offline interval, and never drops
\* older data silently.
CompleteIntervalRecovered ==
    \A s \in Streams : missed[s] \subseteq Planned(s)
================================================================================
