------------------------------ MODULE IcebergFeed ------------------------------
(***************************************************************************)
(* The iceberg detector of one Binance linear perpetual at work: a market, *)
(* the trade socket and the depth socket that report it independently of   *)
(* each other, the bounded channel their events go through, and the        *)
(* registry that shares the detector between panes                         *)
(* (src/src/connector/iceberg.rs, src/src/main.rs).                        *)
(*                                                                         *)
(* The depth socket is taken from its promise, BookMirror: a boundary is   *)
(* the book of an update id, the deltas after it leave nothing out, and a  *)
(* gap is announced.  Times are those of the exchange; the local clock is  *)
(* Skew ahead of it, and an event arrives at most MaxDelay after its time. *)
(***************************************************************************)
EXTENDS IcebergDetector

CONSTANTS MaxTime,      \* bound on the time of the model
          MaxOps,       \* bound on the changes of the book
          InitialBook,  \* the exchange's book at the start
          Changes,      \* quantities a level may be set to
          TradeSizes,   \* quantities of executions
          Minimum,      \* values of minimum_executed
          Scored,       \* sets of levels whose episode may have a high enough score
          MaxDelay,     \* bound on the delay of both sockets
          TradeLag,     \* how much later than its time a trade may be received
          Skew,         \* local clock minus exchange clock
          MaxFaults,    \* bound on what goes wrong: see Fault
          Panes,        \* numbers of panes that may require the detector
          ReleaseGrace  \* RELEASE_GRACE_MS

ASSUME FeedAssumption ==
    /\ {MaxOps, MaxDelay, TradeLag, Skew, MaxFaults, ReleaseGrace} \subseteq Nat
    /\ MaxTime \in Nat \ {0}
    /\ InitialBook \in [Key -> Nat] /\ Changes \subseteq Nat
    /\ Panes \subseteq Nat
    /\ TradeSizes \cup Minimum \subseteq Nat \ {0} /\ Scored \subseteq SUBSET Key

VARIABLES
    clock,      \* exchange: time
    phase,      \* exchange: what this instant may still bring
    hist,       \* exchange: hist[i] is the book after i - 1 changes
    touched,    \* exchange: levels changed since the last delta
    moved,      \* exchange: per level, what was executed, added and cancelled
    depth,      \* depth socket: "down", "waiting" or "live"
    depthCh,    \* depth socket to application: events on their way
    tradeUp,    \* trade socket is connected
    tradeId,    \* last trade id
    tradeCh,    \* trade socket to application: events on their way
    panes,      \* number of panes whose settings require the detector
    shared,     \* registry: consumers, released_at and engine of the market's key
    missed,     \* the engine was not given some event since it was last interrupted
    faults      \* disconnections, gaps, lost and repeated events, detectors let go

market == <<clock, phase, hist, touched, moved, tradeId>>
sockets == <<depth, depthCh, tradeUp, tradeCh>>
registry == <<shared, missed>>
vars == <<market, sockets, registry, panes, faults>>

--------------------------------------------------------------------------------
Changed == Len(hist) - 1

Book == hist[Len(hist)]

WholeBook == [k \in {k \in Key : Book[k] > 0} |-> Book[k]]

Local == clock + Skew

Quality(quality) ==
    [type |-> "Quality", quality |-> quality, time |-> Local, recv |-> Local, id |-> 0]

Reconnect == [type |-> "Reconnect", time |-> Local, recv |-> Local, id |-> 0]

Delta(levels, boundary) ==
    [type |-> "BookDelta", time |-> clock, recv |-> 0, id |-> Changed, levels |-> levels,
     boundary |-> boundary]

Trade(key, qty) ==
    [type |-> "Trade", time |-> clock, recv |-> 0, id |-> tradeId + 1, key |-> key, qty |-> qty]

NoDetector == [consumers |-> 0, released |-> 0, engine |-> NewDetector]

Init ==
    /\ clock = 1 /\ phase = "open"
    /\ hist = <<InitialBook>> /\ touched = {} /\ tradeId = 0
    /\ moved = [k \in Key |-> [executed |-> 0, added |-> 0, cancelled |-> 0]]
    /\ depth = "down" /\ depthCh = <<>> /\ tradeUp = TRUE /\ tradeCh = <<>>
    /\ panes = 1 /\ shared = NoDetector /\ missed = FALSE
    /\ faults = 0

--------------------------------------------------------------------------------
(* The market.  An instant brings at most one change of the book, and a    *)
(* delta, whose time is that of the last change in it, ends the instant.   *)

\* No event may be older than MaxDelay when it arrives.
Tick ==
    /\ clock < MaxTime
    /\ \A e \in Range(depthCh) \cup Range(tradeCh) : clock < e.time + MaxDelay
    /\ clock' = clock + 1 /\ phase' = "open"
    /\ UNCHANGED <<hist, touched, moved, tradeId, sockets, registry, panes, faults>>

Uncrossed(book) ==
    \A b, a \in {k \in Key : book[k] > 0} : b[1] = "Bid" /\ a[1] = "Ask" => b[2] < a[2]

SetLevel(key, qty) ==
    /\ phase = "open" /\ Changed < MaxOps
    /\ Uncrossed([Book EXCEPT ![key] = qty])
    /\ phase' = "changed"
    /\ hist' = Append(hist, [Book EXCEPT ![key] = qty])
    /\ touched' = touched \cup {key}

Execute(key, qty) ==
    /\ qty <= Book[key]
    /\ SetLevel(key, Book[key] - qty)
    /\ tradeId' = tradeId + 1
    /\ moved' = [moved EXCEPT ![key].executed = @ + qty]
    /\ tradeCh' = IF tradeUp THEN Append(tradeCh, Trade(key, qty)) ELSE tradeCh
    /\ UNCHANGED <<clock, depth, depthCh, tradeUp, registry, panes, faults>>

Requote(key, qty) ==
    /\ qty # Book[key]
    /\ SetLevel(key, qty)
    /\ moved' = IF qty > Book[key] THEN [moved EXCEPT ![key].added = @ + qty - Book[key]]
                ELSE [moved EXCEPT ![key].cancelled = @ + Book[key] - qty]
    /\ UNCHANGED <<clock, tradeId, sockets, registry, panes, faults>>

\* The exchange sends the depth delta of everything since the last one.
EmitDelta ==
    /\ phase = "changed"
    /\ phase' = "closed" /\ touched' = {}
    /\ depthCh' = IF depth = "live"
                  THEN Append(depthCh, Delta([k \in touched |-> Book[k]], FALSE))
                  ELSE depthCh
    /\ UNCHANGED <<clock, hist, moved, tradeId, depth, tradeUp, tradeCh, registry, panes, faults>>

--------------------------------------------------------------------------------
(* The sockets. *)

Fault == faults < MaxFaults /\ faults' = faults + 1

\* DepthAdapter::on_connected
DepthConnect ==
    /\ depth = "down" /\ depth' = "waiting"
    /\ depthCh' = Append(depthCh, Quality("Synchronizing"))
    /\ UNCHANGED <<market, tradeUp, tradeCh, registry, panes, faults>>

\* The snapshot has been replayed: a boundary, and Healthy.
DepthBoundary ==
    /\ depth = "waiting" /\ depth' = "live"
    /\ phase # "changed" /\ phase' = "closed"
    /\ depthCh' = depthCh \o <<Delta(WholeBook, TRUE), Quality("Healthy")>>
    /\ UNCHANGED <<clock, hist, touched, moved, tradeId, tradeUp, tradeCh, registry, panes, faults>>

\* A delta did not reach the socket, and the next one reveals it.
DepthGap ==
    /\ depth = "live" /\ phase = "changed" /\ Fault
    /\ depth' = "waiting"
    /\ phase' = "closed" /\ touched' = {}
    /\ depthCh' = Append(depthCh, Quality("Gap"))
    /\ UNCHANGED <<clock, hist, moved, tradeId, tradeUp, tradeCh, registry, panes>>

\* DepthAdapter::on_disconnected; n events had been received.
DepthLost(n) ==
    /\ depth # "down" /\ depth' = "down" /\ Fault
    /\ depthCh' = Append(SubSeq(depthCh, 1, n), Reconnect)
    /\ UNCHANGED <<market, tradeUp, tradeCh, registry, panes>>

\* TradeAdapter::on_disconnected; n trades had been received.
TradeLost(n) ==
    /\ tradeUp /\ tradeUp' = FALSE /\ Fault
    /\ tradeCh' = Append(SubSeq(tradeCh, 1, n), Reconnect)
    /\ UNCHANGED <<market, depth, depthCh, registry, panes>>

TradeConnect ==
    /\ ~tradeUp /\ tradeUp' = TRUE
    /\ UNCHANGED <<market, depth, depthCh, tradeCh, registry, panes, faults>>

--------------------------------------------------------------------------------
(* The registry, and the application that feeds it. *)

\* A pane's detector is switched on or off.
Require(n) ==
    /\ n # panes /\ panes' = n
    /\ IF n = 0 THEN Fault ELSE UNCHANGED faults
    /\ UNCHANGED <<market, sockets, registry>>

Alive(s) == s.consumers > 0 \/ s.released > 0

\* sync_requirements
SyncRequirements(s) ==
    IF panes > 0 THEN [s EXCEPT !.consumers = panes, !.released = 0]
    ELSE IF s.consumers > 0 THEN [s EXCEPT !.consumers = 0, !.released = Local]
    ELSE s

\* collect_garbage
CollectGarbage ==
    /\ shared.consumers = 0 /\ shared.released > 0
    /\ Local - shared.released >= ReleaseGrace
    /\ shared' = NoDetector /\ missed' = FALSE
    /\ UNCHANGED <<market, sockets, panes, faults>>

\* sync_requirements and ingest, which skips a detector without consumers.
Give(e, sense) ==
    LET s == SyncRequirements(shared)
    IN IF s.consumers > 0
       THEN /\ shared' = [s EXCEPT !.engine = Ingest(@, e, sense)]
            /\ missed' = (missed /\ ~Interrupts(e))
       ELSE shared' = s /\ missed' = Alive(s)

DeliverDepth(sense) ==
    /\ depthCh # <<>> /\ depthCh' = Tail(depthCh)
    /\ LET e == Head(depthCh)
       IN Give(IF e.type = "BookDelta" THEN [e EXCEPT !.recv = Local] ELSE e, sense)
    /\ UNCHANGED <<market, depth, tradeUp, tradeCh, panes, faults>>

\* The receive time of a trade is stamped before its batch is flushed.
TradeTimes(e) == {t \in 1..Local : e.time + Skew <= t /\ t <= e.time + Skew + TradeLag}

\* A trade may be delivered twice.
DeliverTrade(recv, twice, sense) ==
    /\ tradeCh # <<>>
    /\ IF twice THEN Fault /\ UNCHANGED tradeCh ELSE tradeCh' = Tail(tradeCh) /\ UNCHANGED faults
    /\ LET e == Head(tradeCh)
       IN Give(IF e.type = "Trade" THEN [e EXCEPT !.recv = recv] ELSE e, sense)
    /\ UNCHANGED <<market, depth, depthCh, tradeUp, panes>>

\* The bounded event channel is full: WsSession drops the event silently.
DropDepth ==
    /\ depthCh # <<>> /\ depthCh' = Tail(depthCh) /\ Fault
    /\ missed' = Alive(shared)
    /\ UNCHANGED <<market, depth, tradeUp, tradeCh, shared, panes>>

DropTrade ==
    /\ tradeCh # <<>> /\ tradeCh' = Tail(tradeCh) /\ Fault
    /\ missed' = Alive(shared)
    /\ UNCHANGED <<market, depth, depthCh, tradeUp, shared, panes>>

Sense == [minimum : Minimum, scored : Scored]

Next ==
    \/ Tick
    \/ \E k \in Key, q \in TradeSizes : Execute(k, q)
    \/ \E k \in Key, q \in Changes : Requote(k, q)
    \/ EmitDelta
    \/ DepthConnect \/ DepthBoundary \/ DepthGap
    \/ \E n \in 0..Len(depthCh) : DepthLost(n)
    \/ \E n \in 0..Len(tradeCh) : TradeLost(n)
    \/ TradeConnect
    \/ \E n \in Panes : Require(n)
    \/ CollectGarbage
    \/ \E sense \in Sense : DeliverDepth(sense)
    \/ tradeCh # <<>> /\ \E recv \in TradeTimes(Head(tradeCh)), twice \in BOOLEAN,
                            sense \in Sense : DeliverTrade(recv, twice, sense)
    \/ DropDepth \/ DropTrade

Spec == Init /\ [][Next]_vars

--------------------------------------------------------------------------------
Engine == shared.engine

LastDelta == IF Engine.seenDepth = <<>> THEN 0 ELSE Last(Engine.seenDepth)

TypeOK ==
    /\ Engine.quality \in {"Synchronizing", "Healthy", "Degraded", "Gap"}
    /\ Len(Engine.buffer) <= MaxReorderEvents
    /\ DOMAIN Engine.episodes \subseteq DOMAIN Engine.levels
    /\ DOMAIN Engine.levels \subseteq Key
    /\ shared.consumers \in {0, 1} \cup Panes /\ shared.released \in 0..(MaxTime + Skew)
    /\ missed \in BOOLEAN

(***************************************************************************)
(* Unless an event was dropped or skipped since the detector was last      *)
(* interrupted, every level the detector knows has the quantity the        *)
(* exchange had after the last delta the detector processed, whatever      *)
(* reconnects, gaps and reordering came before.                            *)
(***************************************************************************)
LevelsTrue ==
    ~missed => \A k \in DOMAIN Engine.levels :
                  Engine.levels[k].visible = hist[LastDelta + 1][k]

(***************************************************************************)
(* The quantity expected after the pending executions is kept incremental  *)
(* by process_trade and recomputed by apply_level: the two agree.          *)
(***************************************************************************)
ExpectedAgrees ==
    \A k \in DOMAIN Engine.levels :
       LET level == Engine.levels[k]
       IN level.expected = Floor(level.visible - level.pending)

\* What episodes and events say was executed, displayed and replenished at a level.
Claim(key, x) ==
    [key |-> key, executed |-> x.executed, peak |-> x.peak, replenished |-> x.replenished]

Evidence ==
    {Claim(k, Engine.episodes[k]) : k \in DOMAIN Engine.episodes}
        \cup {Claim(x.key, x) : x \in Range(Engine.events)}

(***************************************************************************)
(* Already visible liquidity is never counted as a refill: what an episode *)
(* or a published event calls replenished was really added to the level.   *)
(***************************************************************************)
RefillIsReal == \A x \in Evidence : x.replenished <= moved[x.key].added

(***************************************************************************)
(* hidden_lower_bound_qty is a lower bound: what was executed beyond the   *)
(* largest displayed quantity was really added to the level.               *)
(***************************************************************************)
HiddenIsReal == \A x \in Evidence : x.executed - x.peak <= moved[x.key].added

(***************************************************************************)
(* Whatever the delays, the clocks and the room in the reorder buffer,     *)
(* what is wrongly counted as a refill, or as hidden, was executed and     *)
(* taken out of turn: after a later event of its level, or before a delta  *)
(* that is older than it.                                                  *)
(***************************************************************************)
RefillIsExplained ==
    \A x \in Evidence : x.replenished <= moved[x.key].added + Engine.late[x.key]

HiddenIsExplained ==
    \A x \in Evidence : x.executed - x.peak <= moved[x.key].added + Engine.late[x.key]

(***************************************************************************)
(* No execution is counted twice, though trades may be delivered twice.    *)
(***************************************************************************)
ExecutionsCountedOnce == \A x \in Evidence : x.executed <= moved[x.key].executed

(***************************************************************************)
(* An id names one episode for ever: an event published again under its id *)
(* is the same level and start, keeps its confirmation, and its evidence   *)
(* only grows.                                                             *)
(***************************************************************************)
EventsAreStable ==
    [][\A x \in Range(Engine.events), y \in Range(Engine'.events) :
          x.id = y.id => /\ x.key = y.key /\ x.started = y.started
                         /\ x.confirmed = y.confirmed
                         /\ x.executed <= y.executed /\ x.refills <= y.refills]_vars

(***************************************************************************)
(* "A sequence gap, reconnect, bootstrap, or resync invalidates open       *)
(* episodes.  Detection resumes only after a valid snapshot boundary and   *)
(* continuous sequence" (docs/binance-iceberg-detector.md): while an       *)
(* episode is open, and no event was lost, the detector knows every level  *)
(* of the book.                                                            *)
(***************************************************************************)
DetectsOnWholeBook ==
    Engine.episodes # NoLevels /\ ~missed =>
        \A k \in Key : hist[LastDelta + 1][k] > 0 => k \in DOMAIN Engine.levels
================================================================================
