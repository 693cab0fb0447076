------------------------------- MODULE WsSession -------------------------------
(***************************************************************************)
(* One market-data connection (exchange/src/adapter/ws.rs): an I/O task    *)
(* reads the socket and keeps the heartbeat, the session task feeds the    *)
(* frames to its adapter and the events to the bounded channel of the      *)
(* application, reconnecting for ever.  A "batch" adapter is the Binance   *)
(* trade adapter, which buffers in on_text and flushes on a timer; a       *)
(* "push" adapter returns its events from on_text.                         *)
(*                                                                         *)
(* Abstractions.  Trades are numbered in the order on_text accepts them.   *)
(* A frame that yields nothing (a ping marker, a discarded or unparsable   *)
(* message) is activity only; one that on_text refuses ends the connection *)
(* like a close frame does.  Heartbeat time runs in ping intervals.        *)
(***************************************************************************)
EXTENDS Naturals, Sequences, SequencesExt, FiniteSetsExt

CONSTANTS ChannelCap,   \* slots of the application channel
          RawCap,       \* MAX_PENDING_ORDERFLOW_TRADES
          DrainMax,     \* MAX_DRAIN_PER_TICK
          IdleLimit,    \* DEFAULT_HEARTBEAT_TIMEOUT, in ping intervals
          MaxDelay,     \* doublings that bring the delay from INITIAL to MAX
          MaxFrames,    \* bound on the frames waiting
          MaxTrades     \* bound on the trades of a behaviour

ASSUME SessionAssumption ==
    {ChannelCap, RawCap, IdleLimit, MaxDelay, MaxFrames, MaxTrades} \subseteq Nat \ {0}
    /\ DrainMax \in Nat

VARIABLES
    adapter,   \* [kind, buffer, raw]: TradeBuffer and orderflow_trades
    link,      \* [phase, delay, data, outbox]: the session task
    io,        \* [peer, quiet]: the I/O task; quiet counts the heartbeats without activity
    frames,    \* the unbounded channel between the two tasks
    events,    \* the channel to the application
    shown,     \* the application: [up, last trade of a batch]
    lost,      \* what a full channel dropped: statuses, batches of trades
    accepted   \* trades accepted so far

sessionVars == <<adapter, link, io, frames, events, shown, lost, accepted>>

Silence == [peer |-> "none", quiet |-> 0]

SessionInit ==
    /\ adapter \in [kind : {"batch", "push"}, buffer : {<<>>}, raw : {<<>>}]
    /\ link = [phase |-> "connecting", delay |-> 0, data |-> FALSE, outbox |-> <<>>]
    /\ io = Silence
    /\ frames = <<>> /\ events = <<>>
    /\ shown = [up |-> FALSE, last |-> 0]
    /\ lost = {} /\ accepted = 0

--------------------------------------------------------------------------------
(* Events. *)

Status(up) == [type |-> "status", up |-> up]

Batch(ids) == [type |-> "trades", ids |-> ids]

Raw(ids) == [type |-> "orderflow", ids |-> ids]

\* flush_trade_events: the batches of the charts first, then the detector's trades.
FlushOf(a) == (IF a.buffer = <<>> THEN <<>> ELSE <<Batch(a.buffer)>>)
              \o (IF a.raw = <<>> THEN <<>> ELSE <<Raw(a.raw)>>)

Flushed == FlushOf(adapter)

\* Mutation of Emptied: the batch for the charts is copied, not taken.
EmptiedRaw == [adapter EXCEPT !.raw = <<>>]

Emptied == [adapter EXCEPT !.buffer = <<>>, !.raw = <<>>]

\* AnySender::send on the bounded channel: what does not fit is dropped.
SendNext ==
    /\ link.outbox # <<>>
    /\ link' = [link EXCEPT !.outbox = Tail(@)]
    /\ LET event == Head(link.outbox)
       IN IF Len(events) < ChannelCap
          THEN events' = Append(events, event) /\ UNCHANGED lost
          ELSE lost' = lost \cup ({event.type} \cap {"status", "trades"}) /\ UNCHANGED events
    /\ UNCHANGED <<adapter, io, frames, shown, accepted>>

\* The application takes an event.
Consume ==
    /\ events # <<>>
    /\ events' = Tail(events)
    /\ LET event == Head(events)
       IN shown' = CASE event.type = "status" -> [shown EXCEPT !.up = event.up]
                     [] event.type = "trades" -> [shown EXCEPT !.last = Last(event.ids)]
                     [] OTHER -> shown
    /\ UNCHANGED <<adapter, link, io, frames, lost, accepted>>

--------------------------------------------------------------------------------
(* The session task.  It goes on once it has sent what it returned. *)

Delay(failed) == Min({link.delay + failed, MaxDelay})   \* record_failure

Free(phase) == link.phase = phase /\ link.outbox = <<>>

ConnectFails ==
    /\ Free("connecting")
    /\ link' = [link EXCEPT !.phase = "sleeping", !.data = FALSE, !.delay = Delay(1),
                            !.outbox = <<Status(FALSE)>>]
    /\ UNCHANGED <<adapter, io, frames, events, shown, lost, accepted>>

\* Mutation of Connects: the adapter's events alone are sent.
ConnectsQuietly ==
    /\ Free("connecting")
    /\ link' = [link EXCEPT !.phase = "up", !.data = FALSE, !.outbox = Flushed]
    /\ adapter' = Emptied
    /\ io' = [peer |-> "live", quiet |-> 0]
    /\ frames' = <<>>
    /\ UNCHANGED <<events, shown, lost, accepted>>

Connects ==
    /\ Free("connecting")
    /\ link' = [link EXCEPT !.phase = "up", !.data = FALSE,
                            !.outbox = Flushed \o <<Status(TRUE)>>]
    /\ adapter' = Emptied
    /\ io' = [peer |-> "live", quiet |-> 0]
    /\ frames' = <<>>
    /\ UNCHANGED <<events, shown, lost, accepted>>

\* The sleep between two attempts.
Wake ==
    /\ Free("sleeping")
    /\ link' = [link EXCEPT !.phase = "connecting"]
    /\ UNCHANGED <<adapter, io, frames, events, shown, lost, accepted>>

\* tick_sleep: on_tick.
FlushTick ==
    /\ Free("up") /\ Flushed # <<>>
    /\ link' = [link EXCEPT !.outbox = Flushed]
    /\ adapter' = Emptied
    /\ UNCHANGED <<io, frames, events, shown, lost, accepted>>

\* stability_timer, and record_success.  It fires once, but could not do anything twice.
BecomesStable ==
    /\ Free("up")
    /\ link' = [link EXCEPT !.delay = 0]
    /\ UNCHANGED <<adapter, io, frames, events, shown, lost, accepted>>

\* on_text on n trades: kept for the next flush, or returned.
OnText(n) ==
    LET ids == [i \in 1..n |-> accepted + i]
        room == RawCap - Len(adapter.raw)
    IN IF adapter.kind = "batch"
       THEN [adapter |-> [adapter EXCEPT !.buffer = @ \o ids,
                                         !.raw = @ \o SubSeq(ids, 1, Min({n, room}))],
             events |-> <<>>]
       ELSE [adapter |-> adapter, events |-> [i \in 1..n |-> Batch(<<ids[i]>>)]]

\* on_disconnected: flush, and a Reconnect boundary for the detectors.
Closing(a) ==
    IF a.kind = "push" THEN <<>> ELSE FlushOf(a) \o <<[type |-> "reconnect"]>>

\* The frames of a round, up to DrainMax behind the first; which of them end the
\* connection; how many trades come before the first that does.
Waiting == SubSeq(frames, 1, Min({Len(frames), 1 + DrainMax}))

EndFrames == {i \in DOMAIN Waiting : Waiting[i] = "end"}

TradesRead ==
    LET upto == IF EndFrames = {} THEN Len(Waiting) ELSE Min(EndFrames) - 1
    IN Cardinality({i \in 1..upto : Waiting[i] = "trade"})

\* data_received, and record_success: events that on_text returned make the connection good.
DataSeen(text) == link.data \/ text.events # <<>>

DelayAfter(text) == IF text.events # <<>> THEN 0 ELSE link.delay

GoesOn(text) ==
    /\ link' = [link EXCEPT !.data = DataSeen(text), !.delay = DelayAfter(text),
                            !.outbox = text.events]
    /\ adapter' = text.adapter
    /\ frames' = SubSeq(frames, Len(Waiting) + 1, Len(frames))
    /\ UNCHANGED io

Breaks(text) ==
    /\ link' = [link EXCEPT !.phase = "sleeping", !.data = FALSE,
                    !.delay = IF DataSeen(text) THEN DelayAfter(text) ELSE Delay(1),
                    !.outbox = text.events \o Closing(text.adapter) \o <<Status(FALSE)>>]
    /\ adapter' = [text.adapter EXCEPT !.buffer = <<>>, !.raw = <<>>]
    /\ frames' = <<>>
    /\ io' = Silence

Round ==
    /\ Free("up") /\ frames # <<>>
    /\ accepted' = accepted + TradesRead
    /\ IF EndFrames = {} THEN GoesOn(OnText(TradesRead)) ELSE Breaks(OnText(TradesRead))
    /\ UNCHANGED <<events, shown, lost>>

--------------------------------------------------------------------------------
(* The I/O task: read_frame and WsHeartbeat. *)

TradeFrames(f) == {i \in DOMAIN f : f[i] = "trade"}

Awaited == MaxTrades - accepted - Cardinality(TradeFrames(frames))

\* A message arrives: any of them is activity; one that ends the stream ends the task.
Receive ==
    /\ io.peer = "live"
    /\ \/ /\ Len(frames) < MaxFrames
          /\ \E frame \in {"trade", "end"} :
             /\ frame = "trade" => Awaited > 0
             /\ frames' = Append(frames, frame)
             /\ io' = IF frame = "end" THEN Silence ELSE [io EXCEPT !.quiet = 0]
       \/ io' = [io EXCEPT !.quiet = 0] /\ UNCHANGED frames   \* a ping, a pong
    /\ UNCHANGED <<adapter, link, events, shown, lost, accepted>>

\* The other side of the connection is gone and nothing says so.
PeerFallsSilent ==
    /\ io.peer = "live"
    /\ io' = [io EXCEPT !.peer = "silent"]
    /\ UNCHANGED <<adapter, link, frames, events, shown, lost, accepted>>

\* Mutation of Heartbeat: sending a ping counts as activity.
HeartbeatIsActivity ==
    /\ io.peer # "none"
    /\ io' = [io EXCEPT !.quiet = 0]
    /\ UNCHANGED <<adapter, link, frames, events, shown, lost, accepted>>

\* The read times out when a ping is due.  The quiet-th heartbeat since the last activity
\* comes quiet - 1 to quiet intervals after it.
Heartbeat ==
    /\ io.peer # "none"
    /\ \/ /\ io.quiet < IdleLimit
          /\ io' = [io EXCEPT !.quiet = @ + 1]      \* record_ping_sent
          /\ UNCHANGED frames
       \/ /\ io.quiet + 1 >= IdleLimit                \* timed_out
          /\ frames' = Append(frames, "end")
          /\ io' = Silence
    /\ UNCHANGED <<adapter, link, events, shown, lost, accepted>>

SessionNext ==
    \/ SendNext \/ Consume \/ ConnectFails \/ Connects \/ Wake \/ FlushTick
    \/ BecomesStable \/ Round \/ Receive \/ PeerFallsSilent \/ Heartbeat

SessionSpec == SessionInit /\ [][SessionNext]_sessionVars

--------------------------------------------------------------------------------

Ids == 1..MaxTrades

SessionTypeOK ==
    /\ adapter \in [kind : {"batch", "push"}, buffer : Seq(Ids), raw : Seq(Ids)]
    /\ Len(adapter.raw) <= RawCap
    /\ link.phase \in {"connecting", "up", "sleeping"}
    /\ link.delay \in 0..MaxDelay
    /\ link.data \in BOOLEAN
    /\ io \in [peer : {"none", "live", "silent"}, quiet : 0..IdleLimit]
    /\ frames \in Seq({"trade", "end"})
    /\ Len(events) <= ChannelCap
    /\ shown \in [up : BOOLEAN, last : 0..MaxTrades]
    /\ accepted \in 0..MaxTrades

\* The events between the session and what the application has seen of it.
Pipeline == events \o link.outbox

\* Where in it the last event of a type before the i-th is; 0, if there is none.
LastOf(type, i) == Max({0} \cup {j \in 1..(i - 1) : Pipeline[j].type = type})

\* What the application knows before it takes the i-th event: the status, the last trade.
UpBefore(i) == LET j == LastOf("status", i) IN IF j = 0 THEN shown.up ELSE Pipeline[j].up

ReachedBefore(i) ==
    LET j == LastOf("trades", i) IN IF j = 0 THEN shown.last ELSE Last(Pipeline[j].ids)

Follow(ids, last) == ids = [i \in 1..Len(ids) |-> last + i]

\* Every trade on_text accepted reaches the charts once and in order, as long as no batch
\* meets a full channel: each batch on the way, and then the buffer, goes on where the one
\* before it ends, up to what is accepted, across flushes, lost connections and reconnections.
TradesAreAccounted ==
    LET end == Len(Pipeline) + 1
    IN "trades" \notin lost =>
         /\ \A i \in DOMAIN Pipeline : Pipeline[i].type = "trades" =>
               Pipeline[i].ids # <<>> /\ Follow(Pipeline[i].ids, ReachedBefore(i))
         /\ Follow(adapter.buffer, ReachedBefore(end))
         /\ accepted = ReachedBefore(end) + Len(adapter.buffer)

\* The application never gets data of a connection it was told is down, and once everything
\* is delivered it knows whether the connection is up: unless a status met a full channel.
DataOnlyWhileUp ==
    "status" \notin lost =>
       /\ \A i \in DOMAIN Pipeline :
             Pipeline[i].type \in {"trades", "orderflow"} => UpBefore(i)
       /\ UpBefore(Len(Pipeline) + 1) <=> link.phase = "up"

\* A connection whose other side has gone silently is given up: a half-open socket does not
\* look connected for ever.
SilentPeerIsNoticed == (io.peer = "silent") ~> (link.phase # "up")
================================================================================
