------------------------------ MODULE MarketProofs ------------------------------
(***************************************************************************)
(* The data of the market, when connections and programs end (MarketOutage *)
(* and MarketCache).  No outage is forgotten: for every set of streams,    *)
(* every length of time, grace period, smallest gap and span of chunks,    *)
(* and however often the configuration changes.  What the persistent cache *)
(* covers is there, and what a worker takes from it is whole: for any      *)
(* number of workers, every market, span of time, bucket size and page     *)
(* size, and however often the cache is cleared or damaged.                *)
(***************************************************************************)
EXTENDS MarketOutage, MarketCache, NatSets, FiniteSetTheorems

--------------------------------------------------------------------------------
(* MarketOutage: the inductive invariant. *)

(* What the proof needs of the types. *)
Shapes ==
    /\ time \in Point
    /\ cut \subseteq configured /\ configured \subseteq Streams /\ up \subseteq configured
    /\ tracker = [expected |-> tracker.expected, connected |-> tracker.connected,
                  phase |-> tracker.phase, since |-> tracker.since,
                  hadOnline |-> tracker.hadOnline]
    /\ dash = [lastLive |-> dash.lastLive, lastSeen |-> dash.lastSeen,
               pending |-> dash.pending, covered |-> dash.covered]
    /\ dash.lastLive \in [Streams -> 0..time] /\ dash.lastSeen \in [Streams -> 0..time]
    /\ missed \in [Streams -> SUBSET (1..time)]
    /\ skipped \in [Streams -> SUBSET Point]

(* The tracker waits for a stream that lost its connection ... *)
CutIsAwaited == cut \subseteq tracker.expected /\ cut \cap (tracker.connected \cup up) = {}

(* ... and the dashboard remembers its last data, if there was any. *)
CutIsRemembered == \A s \in cut : dash.lastLive[s] # None => dash.lastSeen[s] # None

OutageInv == Shapes /\ CutIsAwaited /\ CutIsRemembered /\ NoOutageIsForgotten

--------------------------------------------------------------------------------

LEMMA OutageInvInitially == OutageInit => OutageInv
<1> SUFFICES ASSUME OutageInit PROVE OutageInv
  OBVIOUS
<1>1. Shapes
  BY OutageAssumption DEF OutageInit, Shapes, Point, Never, Nothing, None
<1>2. CutIsAwaited /\ CutIsRemembered
  BY DEF OutageInit, CutIsAwaited, CutIsRemembered
<1>3. NoOutageIsForgotten
  BY DEF OutageInit, NoOutageIsForgotten, Nothing
<1> QED BY <1>1, <1>2, <1>3 DEF OutageInv

(* A recovery takes the remembered data, and what was missed behind it is pending, given *)
(* up as too small, or skipped.                                                          *)
LEMMA BackfillForgetsNothing ==
  ASSUME Shapes, NoOutageIsForgotten, Backfill, UNCHANGED time
  PROVE  /\ dash' = [lastLive |-> dash.lastLive, lastSeen |-> Never,
                     pending |-> dash.pending', covered |-> dash.covered]
         /\ missed' \in [Streams -> SUBSET (1..time)]
         /\ skipped' \in [Streams -> SUBSET Point]
         /\ NoOutageIsForgotten'
<1> DEFINE chunks == UNION {ChunkRanges(r) : r \in UNION {Missing(s) : s \in Streams}}
           pending == dash.pending \cup {c \in chunks : ~AlreadyPending(c)}
<1>1. /\ dash' = [dash EXCEPT !.lastSeen = Never, !.pending = pending]
      /\ missed' = [s \in Streams |-> IF Small(s) THEN missed[s] \ Outage(s) ELSE missed[s]]
      /\ skipped' = [s \in Streams |->
           skipped[s] \cup (IF Small(s) THEN {}
                            ELSE (missed[s] \cap Outage(s)) \ PointsOf(pending, s))]
  BY DEF Backfill
<1>2. dash.pending \subseteq pending
  OBVIOUS
<1> HIDE DEF chunks, pending
<1>3. dash' = [lastLive |-> dash.lastLive, lastSeen |-> Never,
               pending |-> pending, covered |-> dash.covered]
  BY <1>1 DEF Shapes
<1>4. missed' \in [Streams -> SUBSET (1..time)]
  BY <1>1 DEF Shapes
<1>5. skipped' \in [Streams -> SUBSET Point]
  <2>1. \A s \in Streams : skipped[s] \subseteq Point /\ missed[s] \subseteq Point
    BY OutageAssumption DEF Shapes, Point
  <2> QED BY <1>1, <2>1
<1>6. ASSUME NEW s \in Streams, NEW p \in missed'[s]
      PROVE  p \in PointsOf(pending, s) \cup skipped'[s]
  <2>1. p \in missed[s] /\ p \in 1..time /\ (Small(s) => p \notin Outage(s))
    BY <1>1, <1>6 DEF Shapes
  <2>2. p \in PointsOf(dash.pending, s) => p \in PointsOf(pending, s)
    BY <1>2 DEF PointsOf
  <2>3. CASE p \in skipped[s]
    BY <1>1, <2>3
  <2>4. CASE p \in Planned(s)
    <3>1. p \in PointsOf(dash.pending, s) \/ p \in Outage(s)
      BY <2>1, <2>4, OutageAssumption DEF Planned, Outage, Shapes, Point, None
    <3>2. p \in Outage(s) /\ ~Small(s) => p \in PointsOf(pending, s) \cup skipped'[s]
      BY <1>1, <2>1
    <3> QED BY <2>1, <2>2, <3>1, <3>2
  <2> QED BY <2>1, <2>3, <2>4 DEF NoOutageIsForgotten
<1>7. NoOutageIsForgotten'
  <2>1. dash'.pending = pending
    BY <1>3
  <2> QED BY <1>6, <2>1 DEF NoOutageIsForgotten, Planned
<1> QED BY <1>3, <1>4, <1>5, <1>7

(* A transition of the tracker, with or without a recovery. *)
LEMMA TransitionKeepsInv ==
  ASSUME OutageInv, NEW t, Transition(t),
         t = [expected |-> t.expected, connected |-> t.connected, phase |-> t.phase,
              since |-> t.since, hadOnline |-> t.hadOnline],
         cut' \subseteq cut, cut' \subseteq t.expected,
         cut' \cap (t.connected \cup up') = {},
         up' \subseteq configured, UNCHANGED <<time, configured>>
  PROVE  OutageInv'
<1>1. /\ tracker' = [expected |-> t.expected, connected |-> t.connected,
                     phase |-> tracker'.phase, since |-> tracker'.since,
                     hadOnline |-> tracker'.hadOnline]
      /\ tracker'.expected = t.expected /\ tracker'.connected = t.connected
  BY DEF Transition, Evaluate
<1>2. CutIsAwaited'
  BY <1>1 DEF CutIsAwaited
<1>3. CASE Restored(t)
  <2>1. cut' = {}
    BY <1>3 DEF Restored, Complete
  <2>2. CutIsRemembered'
    BY <2>1 DEF CutIsRemembered
  <2>3. Backfill
    BY <1>3 DEF Transition
  <2>4. /\ dash' = [lastLive |-> dash.lastLive, lastSeen |-> Never,
                    pending |-> dash.pending', covered |-> dash.covered]
        /\ missed' \in [Streams -> SUBSET (1..time)]
        /\ skipped' \in [Streams -> SUBSET Point]
        /\ NoOutageIsForgotten'
    BY <2>3, BackfillForgetsNothing DEF OutageInv
  <2>5. Never \in [Streams -> 0..time]
    BY OutageAssumption DEF Never, None, OutageInv, Shapes, Point
  <2>6. Shapes'
    BY <1>1, <2>4, <2>5 DEF OutageInv, Shapes
  <2> QED BY <1>2, <2>2, <2>4, <2>6 DEF OutageInv
<1>4. CASE ~Restored(t)
  <2>1. UNCHANGED <<dash, missed, skipped>>
    BY <1>4 DEF Transition
  <2>2. Shapes'
    BY <1>1, <2>1 DEF OutageInv, Shapes
  <2>3. CutIsRemembered' /\ NoOutageIsForgotten'
    BY <2>1 DEF OutageInv, CutIsRemembered, NoOutageIsForgotten, Planned
  <2> QED BY <1>2, <2>2, <2>3 DEF OutageInv
<1> QED BY <1>3, <1>4

--------------------------------------------------------------------------------
(* One lemma per action. *)

(* A record of the tracker's fields, updated in two and in three of them. *)
LEMMA TrackerUpdated ==
  ASSUME NEW r, NEW e, NEW c, NEW h,
         r = [expected |-> r.expected, connected |-> r.connected, phase |-> r.phase,
              since |-> r.since, hadOnline |-> r.hadOnline]
  PROVE  /\ [r EXCEPT !.expected = e, !.connected = c] =
              [expected |-> e, connected |-> c, phase |-> r.phase,
               since |-> r.since, hadOnline |-> r.hadOnline]
         /\ [r EXCEPT !.hadOnline = h, !.expected = e, !.connected = c] =
              [expected |-> e, connected |-> c, phase |-> r.phase,
               since |-> r.since, hadOnline |-> h]
<1> DEFINE r1 == [r EXCEPT !.expected = e]
           h1 == [r EXCEPT !.hadOnline = h]
           h2 == [h1 EXCEPT !.expected = e]
<1>1. r1 = [expected |-> e, connected |-> r.connected, phase |-> r.phase,
            since |-> r.since, hadOnline |-> r.hadOnline]
  OBVIOUS
<1>2. h1 = [expected |-> r.expected, connected |-> r.connected, phase |-> r.phase,
            since |-> r.since, hadOnline |-> h]
  OBVIOUS
<1>3. h2 = [expected |-> e, connected |-> r.connected, phase |-> r.phase,
            since |-> r.since, hadOnline |-> h]
  <2> HIDE DEF h1
  <2> QED BY <1>2
<1>4. [r1 EXCEPT !.connected = c] =
        [expected |-> e, connected |-> c, phase |-> r.phase,
         since |-> r.since, hadOnline |-> r.hadOnline]
  <2> HIDE DEF r1
  <2> QED BY <1>1
<1>5. [h2 EXCEPT !.connected = c] =
        [expected |-> e, connected |-> c, phase |-> r.phase,
         since |-> r.since, hadOnline |-> h]
  <2> HIDE DEF h2
  <2> QED BY <1>3
<1> QED BY <1>4, <1>5

LEMMA ConnectedKeepsInv ==
  ASSUME OutageInv, NEW s \in Streams, Connected(s)
  PROVE  OutageInv'
<1> DEFINE t == [tracker EXCEPT !.expected = @ \cup {s}, !.connected = @ \cup {s}]
<1>1. /\ s \in configured \ up /\ up' = up \cup {s} /\ cut' = cut \ {s}
      /\ Transition(t) /\ UNCHANGED <<time, configured, changes>>
  BY DEF Connected
<1>2. t = [expected |-> tracker.expected \cup {s}, connected |-> tracker.connected \cup {s},
           phase |-> tracker.phase, since |-> tracker.since, hadOnline |-> tracker.hadOnline]
  BY TrackerUpdated DEF OutageInv, Shapes
<1> HIDE DEF t
<1>3. t.expected = tracker.expected \cup {s} /\ t.connected = tracker.connected \cup {s}
  BY <1>2
<1>4. t = [expected |-> t.expected, connected |-> t.connected, phase |-> t.phase,
           since |-> t.since, hadOnline |-> t.hadOnline]
  BY <1>2
<1>5. up' \subseteq configured
  BY <1>1 DEF OutageInv, Shapes
<1>6. cut' \subseteq cut /\ cut' \subseteq t.expected /\ cut' \cap (t.connected \cup up') = {}
  BY <1>1, <1>3 DEF OutageInv, CutIsAwaited
<1> QED BY <1>1, <1>4, <1>5, <1>6, TransitionKeepsInv

LEMMA AppTickKeepsInv ==
  ASSUME OutageInv, AppTick
  PROVE  OutageInv'
<1> DEFINE t == [tracker EXCEPT !.expected = configured, !.connected = @ \cap configured]
<1>1. Transition(t) /\ UNCHANGED <<time, configured, up, cut, changes>>
  BY DEF AppTick
<1>2. t = [expected |-> configured, connected |-> tracker.connected \cap configured,
           phase |-> tracker.phase, since |-> tracker.since, hadOnline |-> tracker.hadOnline]
  BY TrackerUpdated DEF OutageInv, Shapes
<1> HIDE DEF t
<1>3. t.expected = configured /\ t.connected = tracker.connected \cap configured
  BY <1>2
<1>4. t = [expected |-> t.expected, connected |-> t.connected, phase |-> t.phase,
           since |-> t.since, hadOnline |-> t.hadOnline]
  BY <1>2
<1>5. up' \subseteq configured /\ cut' \subseteq t.expected
  BY <1>1, <1>3 DEF OutageInv, Shapes
<1>6. cut' \subseteq cut /\ cut' \cap (t.connected \cup up') = {}
  BY <1>1, <1>3 DEF OutageInv, CutIsAwaited
<1> QED BY <1>1, <1>4, <1>5, <1>6, TransitionKeepsInv

(* The last data remembered is never newer than before. *)
LEMMA RememberedIsOldest ==
  ASSUME Shapes, NEW s \in Streams
  PROVE  LET d == Remembered(s)
         IN /\ d = [lastLive |-> dash.lastLive, lastSeen |-> d.lastSeen,
                    pending |-> dash.pending, covered |-> dash.covered]
            /\ d.lastSeen \in [Streams -> 0..time]
            /\ \A o \in Streams : o # s => d.lastSeen[o] = dash.lastSeen[o]
            /\ dash.lastLive[s] # None => d.lastSeen[s] # None
            /\ dash.lastSeen[s] # None => d.lastSeen[s] # None /\ d.lastSeen[s] <= dash.lastSeen[s]
<1> DEFINE seen == dash.lastSeen[s]
           live == dash.lastLive[s]
           oldest == IF seen = None THEN live
                     ELSE IF live = None THEN seen ELSE Min({seen, live})
<1>1. seen \in 0..time /\ live \in 0..time /\ time \in Nat
  BY OutageAssumption DEF Shapes, Point
<1>2. Remembered(s) = [lastLive |-> dash.lastLive,
                       lastSeen |-> [dash.lastSeen EXCEPT ![s] = oldest],
                       pending |-> dash.pending, covered |-> dash.covered]
  BY DEF Remembered, Shapes
<1>3. dash.lastSeen \in [Streams -> 0..time]
  BY DEF Shapes
<1> HIDE DEF seen, live
<1>4. Min({seen, live}) = IF seen <= live THEN seen ELSE live
  BY <1>1 DEF Min
<1>5. /\ oldest \in 0..time /\ (live # None => oldest # None)
      /\ (seen # None => oldest # None /\ oldest <= seen)
  BY <1>1, <1>4 DEF None
<1> HIDE DEF oldest
<1> QED BY <1>2, <1>3, <1>5 DEF seen, live

LEMMA DisconnectedKeepsInv ==
  ASSUME OutageInv, NEW s \in Streams, Disconnected(s)
  PROVE  OutageInv'
<1> DEFINE t == [tracker EXCEPT !.hadOnline = @ \/ tracker.phase = "online",
                                !.expected = @ \cup {s}, !.connected = @ \ {s}]
           online == tracker.hadOnline \/ tracker.phase = "online"
<1>1. /\ s \in configured /\ up' = up \ {s} /\ cut' = cut \cup (up \cap {s})
      /\ tracker' = Evaluate(t) /\ dash' = Remembered(s)
      /\ UNCHANGED <<time, configured, missed, skipped, changes>>
  BY DEF Disconnected
<1>2. t = [expected |-> tracker.expected \cup {s}, connected |-> tracker.connected \ {s},
           phase |-> tracker.phase, since |-> tracker.since,
           hadOnline |-> online]
  <2>1. t = [tracker EXCEPT !.hadOnline = online, !.expected = tracker.expected \cup {s},
                            !.connected = tracker.connected \ {s}]
    OBVIOUS
  <2> HIDE DEF t, online
  <2> QED BY <2>1, TrackerUpdated DEF OutageInv, Shapes
<1> HIDE DEF t, online
<1>3. /\ tracker' = [expected |-> tracker.expected \cup {s}, connected |-> tracker.connected \ {s},
                     phase |-> tracker'.phase, since |-> tracker'.since,
                     hadOnline |-> tracker'.hadOnline]
  BY <1>1, <1>2 DEF Evaluate
<1>4. /\ tracker'.expected = tracker.expected \cup {s}
      /\ tracker'.connected = tracker.connected \ {s}
  BY <1>3
<1> DEFINE d == Remembered(s)
<1>5. /\ d = [lastLive |-> dash.lastLive, lastSeen |-> d.lastSeen,
              pending |-> dash.pending, covered |-> dash.covered]
      /\ d.lastSeen \in [Streams -> 0..time]
      /\ \A o \in Streams : o # s => d.lastSeen[o] = dash.lastSeen[o]
      /\ dash.lastLive[s] # None => d.lastSeen[s] # None
      /\ dash.lastSeen[s] # None => d.lastSeen[s] # None /\ d.lastSeen[s] <= dash.lastSeen[s]
  BY RememberedIsOldest DEF OutageInv
<1> HIDE DEF d
<1>6. /\ dash' = [lastLive |-> dash.lastLive, lastSeen |-> d.lastSeen,
                  pending |-> dash.pending, covered |-> dash.covered]
      /\ dash'.lastSeen = d.lastSeen /\ dash'.lastLive = dash.lastLive
      /\ dash'.pending = dash.pending
  BY <1>1, <1>5 DEF d
<1>7. Shapes'
  <2>1. /\ cut' \subseteq configured' /\ up' \subseteq configured' /\ configured' \subseteq Streams
    BY <1>1 DEF OutageInv, Shapes
  <2>2. /\ tracker' = [expected |-> tracker'.expected, connected |-> tracker'.connected,
                       phase |-> tracker'.phase, since |-> tracker'.since,
                       hadOnline |-> tracker'.hadOnline]
    BY <1>3, <1>4
  <2>3. dash' = [lastLive |-> dash'.lastLive, lastSeen |-> dash'.lastSeen,
                 pending |-> dash'.pending, covered |-> dash'.covered]
    BY <1>6
  <2> QED BY <1>1, <1>5, <1>6, <2>1, <2>2, <2>3 DEF OutageInv, Shapes
<1>8. CutIsAwaited'
  BY <1>1, <1>4 DEF OutageInv, CutIsAwaited
<1>9. CutIsRemembered'
  <2>1. ASSUME NEW o \in cut', dash.lastLive[o] # None PROVE d.lastSeen[o] # None
    <3>1. o \in Streams
      BY <1>7 DEF Shapes
    <3>2. CASE o = s
      BY <1>5, <2>1, <3>2
    <3>3. CASE o # s
      BY <1>1, <1>5, <2>1, <3>1, <3>3 DEF OutageInv, CutIsRemembered
    <3> QED BY <3>2, <3>3
  <2> QED BY <2>1, <1>6 DEF CutIsRemembered
<1>10. NoOutageIsForgotten'
  <2>1. ASSUME NEW o \in Streams PROVE Planned(o) \subseteq Planned(o)'
    <3>1. PointsOf(dash.pending, o) = PointsOf(dash'.pending, o)
      BY <1>6
    <3>2. dash.lastSeen[o] # None =>
            d.lastSeen[o] # None /\ d.lastSeen[o] <= dash.lastSeen[o]
      <4>1. dash.lastSeen[o] \in 0..time /\ time \in Nat
        BY OutageAssumption DEF OutageInv, Shapes, Point
      <4> QED BY <1>5, <4>1
    <3>3. dash.lastSeen[o] \in Nat /\ d.lastSeen[o] \in Nat
      BY <1>5, OutageAssumption DEF OutageInv, Shapes, Point
    <3>4. dash.lastSeen[o] # None =>
            dash.lastSeen[o] + 1 .. LastPoint \subseteq d.lastSeen[o] + 1 .. LastPoint
      BY <3>2, <3>3, OutageAssumption
    <3> QED BY <1>6, <3>1, <3>2, <3>4 DEF Planned
  <2>2. \A o \in Streams : missed[o] \subseteq Planned(o)' \cup skipped[o]
    BY <2>1 DEF OutageInv, NoOutageIsForgotten
  <2>3. missed' = missed /\ skipped' = skipped
    BY <1>1
  <2> QED BY <2>2, <2>3 DEF NoOutageIsForgotten
<1> QED BY <1>7, <1>8, <1>9, <1>10 DEF OutageInv

LEMMA ReconfigureKeepsInv ==
  ASSUME OutageInv, NEW s \in Streams, Reconfigure(s)
  PROVE  OutageInv'
<1>1. /\ configured' \subseteq configured \cup {s}
      /\ up' = up \cap configured' /\ cut' = cut \cap configured'
      /\ dash' = [dash EXCEPT !.covered[s] = {}]
      /\ missed' = [missed EXCEPT ![s] = {}] /\ skipped' = [skipped EXCEPT ![s] = {}]
      /\ UNCHANGED <<time, tracker>>
  BY DEF Reconfigure
<1>2. /\ dash' = [lastLive |-> dash.lastLive, lastSeen |-> dash.lastSeen,
                  pending |-> dash.pending, covered |-> dash'.covered]
  BY <1>1 DEF OutageInv, Shapes
<1>3. /\ dash'.lastSeen = dash.lastSeen /\ dash'.lastLive = dash.lastLive
      /\ dash'.pending = dash.pending
  BY <1>2
<1>4. Shapes'
  <2>1. /\ missed' \in [Streams -> SUBSET (1..time)] /\ skipped' \in [Streams -> SUBSET Point]
    BY <1>1 DEF OutageInv, Shapes
  <2>2. /\ cut' \subseteq configured' /\ up' \subseteq configured' /\ configured' \subseteq Streams
    BY <1>1 DEF OutageInv, Shapes
  <2> QED BY <1>1, <1>2, <1>3, <2>1, <2>2 DEF OutageInv, Shapes
<1>5. CutIsAwaited' /\ CutIsRemembered'
  BY <1>1, <1>3 DEF OutageInv, CutIsAwaited, CutIsRemembered
<1>6. NoOutageIsForgotten'
  <2>1. ASSUME NEW o \in Streams PROVE missed'[o] \subseteq Planned(o) \cup skipped'[o]
    <3>1. CASE o = s
      BY <1>1, <3>1 DEF OutageInv, Shapes
    <3>2. CASE o # s
      BY <1>1, <3>2 DEF OutageInv, Shapes, NoOutageIsForgotten
    <3> QED BY <3>1, <3>2
  <2> QED BY <1>3, <2>1 DEF NoOutageIsForgotten, Planned
<1> QED BY <1>4, <1>5, <1>6 DEF OutageInv

LEMMA PassKeepsInv ==
  ASSUME OutageInv, Pass
  PROVE  OutageInv'
<1> DEFINE lived(live) == [o \in Streams |-> IF o \in live THEN time' ELSE dash.lastLive[o]]
<1>1. PICK live \in SUBSET up :
        dash' = [dash EXCEPT !.lastLive = [o \in Streams |-> IF o \in live THEN time' ELSE @[o]]]
  BY DEF Pass
<1>2. /\ time < LastPoint /\ time' = time + 1 /\ time \in Point /\ time' \in Point
      /\ missed' = [o \in Streams |-> IF o \in cut /\ dash.lastLive[o] # None
                                      THEN missed[o] \cup {time'} ELSE missed[o]]
      /\ UNCHANGED <<configured, up, cut, tracker, skipped, changes>>
  BY OutageAssumption DEF Pass, OutageInv, Shapes, Point
<1>3. dash' = [lastLive |-> lived(live), lastSeen |-> dash.lastSeen,
               pending |-> dash.pending, covered |-> dash.covered]
  BY <1>1 DEF OutageInv, Shapes
<1>4. /\ dash'.lastSeen = dash.lastSeen /\ dash'.lastLive = lived(live)
      /\ dash'.pending = dash.pending
  BY <1>3
<1>5. time \in Nat /\ 0..time \subseteq 0..time' /\ 1..time \subseteq 1..time' /\ time' \in 1..time'
  BY <1>2, OutageAssumption DEF Point
<1>6. Shapes'
  <2>1. lived(live) \in [Streams -> 0..time']
    BY <1>5 DEF OutageInv, Shapes
  <2>2. dash.lastSeen \in [Streams -> 0..time']
    BY <1>5 DEF OutageInv, Shapes
  <2>3. missed' \in [Streams -> SUBSET (1..time')]
    BY <1>2, <1>5 DEF OutageInv, Shapes
  <2> QED BY <1>2, <1>3, <1>4, <2>1, <2>2, <2>3 DEF OutageInv, Shapes
<1>7. CutIsAwaited'
  BY <1>2 DEF OutageInv, CutIsAwaited
<1>8. CutIsRemembered'
  <2>1. ASSUME NEW o \in cut PROVE lived(live)[o] = dash.lastLive[o]
    BY DEF OutageInv, Shapes, CutIsAwaited
  <2> QED BY <1>2, <1>4, <2>1 DEF OutageInv, CutIsRemembered
<1>9. NoOutageIsForgotten'
  <2>1. ASSUME NEW o \in Streams, NEW p \in missed'[o] PROVE p \in Planned(o) \cup skipped[o]
    <3>1. CASE p \in missed[o]
      BY <3>1 DEF OutageInv, NoOutageIsForgotten
    <3>2. CASE p \notin missed[o]
      <4>1. o \in cut /\ dash.lastLive[o] # None /\ p = time'
        BY <1>2, <2>1, <3>2
      <4>2. dash.lastSeen[o] # None /\ dash.lastSeen[o] \in 0..time
        BY <4>1 DEF OutageInv, Shapes, CutIsRemembered
      <4>3. p \in dash.lastSeen[o] + 1 .. LastPoint
        BY <1>2, <1>5, <4>1, <4>2, OutageAssumption DEF Point
      <4> QED BY <4>2, <4>3 DEF Planned
    <3> QED BY <3>1, <3>2
  <2> QED BY <1>2, <1>4, <2>1 DEF NoOutageIsForgotten, Planned
<1> QED BY <1>6, <1>7, <1>8, <1>9 DEF OutageInv

(* Points are taken from one of the sets of a function. *)
LEMMA SmallerSets ==
  ASSUME NEW S, NEW T, NEW f \in [S -> SUBSET T], NEW x, NEW P
  PROVE  [f EXCEPT ![x] = @ \ P] \in [S -> SUBSET T]
<1> QED OBVIOUS

(* What a chunk asked for is recovered or given up when it ends; the others stay asked for. *)
LEMMA ChunkEndsKeepsInv ==
  ASSUME OutageInv, ChunkEnds
  PROVE  OutageInv'
<1>1. PICK chunk \in dash.pending : \E upto \in (chunk.from - 1) .. chunk.to :
       /\ dash' = [dash EXCEPT !.pending = @ \ {chunk},
                     !.covered[chunk.stream] =
                        IF chunk.stream \in TradeStreams THEN @ \cup chunk.from .. upto ELSE @]
       /\ missed' = [missed EXCEPT ![chunk.stream] = @ \ Points(chunk)]
       /\ skipped' = [skipped EXCEPT ![chunk.stream] = @ \ Points(chunk)]
       /\ UNCHANGED <<time, configured, up, cut, tracker, changes>>
  BY DEF ChunkEnds
<1>2. dash' = [lastLive |-> dash.lastLive, lastSeen |-> dash.lastSeen,
               pending |-> dash.pending \ {chunk}, covered |-> dash'.covered]
  BY <1>1 DEF OutageInv, Shapes
<1>3. /\ dash'.lastSeen = dash.lastSeen /\ dash'.lastLive = dash.lastLive
      /\ dash'.pending = dash.pending \ {chunk}
  BY <1>2
<1>4. Shapes'
  <2>0. /\ missed' = [missed EXCEPT ![chunk.stream] = @ \ Points(chunk)]
        /\ skipped' = [skipped EXCEPT ![chunk.stream] = @ \ Points(chunk)]
    BY <1>1
  <2>1. missed' \in [Streams -> SUBSET (1..time)]
    BY <2>0, SmallerSets DEF OutageInv, Shapes
  <2>2. skipped' \in [Streams -> SUBSET Point]
    BY <2>0, SmallerSets DEF OutageInv, Shapes
  <2> QED BY <1>1, <1>2, <1>3, <2>1, <2>2 DEF OutageInv, Shapes
<1>5. CutIsAwaited' /\ CutIsRemembered'
  BY <1>1, <1>3 DEF OutageInv, CutIsAwaited, CutIsRemembered
<1>6. ASSUME NEW o \in Streams, NEW p \in missed'[o]
      PROVE  p \in PointsOf(dash.pending \ {chunk}, o) \/ p \in skipped'[o]
               \/ (dash.lastSeen[o] # None /\ p \in dash.lastSeen[o] + 1 .. LastPoint)
  <2>1. p \in missed[o] /\ (o = chunk.stream => p \notin Points(chunk))
    BY <1>1, <1>6 DEF OutageInv, Shapes
  <2>2. CASE p \in skipped[o]
    BY <1>1, <2>1, <2>2 DEF OutageInv, Shapes
  <2>3. CASE p \in PointsOf(dash.pending, o)
    BY <2>1, <2>3 DEF PointsOf
  <2>4. CASE dash.lastSeen[o] # None /\ p \in dash.lastSeen[o] + 1 .. LastPoint
    BY <2>4
  <2> QED BY <2>1, <2>2, <2>3, <2>4 DEF OutageInv, NoOutageIsForgotten, Planned
<1>7. NoOutageIsForgotten'
  BY <1>3, <1>6 DEF NoOutageIsForgotten, Planned
<1> QED BY <1>4, <1>5, <1>7 DEF OutageInv

--------------------------------------------------------------------------------

LEMMA OutageInvIsInductive == OutageInv /\ [OutageNext]_outageVars => OutageInv'
<1> SUFFICES ASSUME OutageInv, [OutageNext]_outageVars PROVE OutageInv'
  OBVIOUS
<1>1. CASE \E s \in Streams : Connected(s)
  BY <1>1, ConnectedKeepsInv
<1>2. CASE \E s \in Streams : Disconnected(s)
  BY <1>2, DisconnectedKeepsInv
<1>3. CASE \E s \in Streams : Reconfigure(s)
  BY <1>3, ReconfigureKeepsInv
<1>4. CASE AppTick
  BY <1>4, AppTickKeepsInv
<1>5. CASE Pass
  BY <1>5, PassKeepsInv
<1>6. CASE ChunkEnds
  BY <1>6, ChunkEndsKeepsInv
<1>7. CASE UNCHANGED outageVars
  BY <1>7 DEF outageVars, OutageInv, Shapes, CutIsAwaited, CutIsRemembered,
              NoOutageIsForgotten, Planned
<1> QED BY <1>1, <1>2, <1>3, <1>4, <1>5, <1>6, <1>7 DEF OutageNext

(* Whatever streams there are and however their outages overlap, what a stream missed is  *)
(* asked for, or is behind the data record_pending_disconnect_gaps remembers for the next *)
(* recovery, or was left out by execute_reconnect_backfill (the exception the property    *)
(* states).                                                                               *)
THEOREM NeverForgotten == OutageSpec => []NoOutageIsForgotten
<1>1. OutageInv => NoOutageIsForgotten
  BY DEF OutageInv
<1> QED BY <1>1, OutageInvInitially, OutageInvIsInductive, PTL DEF OutageSpec

--------------------------------------------------------------------------------
(* The types of the outage, beyond what the invariant above needs of them. *)

TrackerOK(t) ==
    /\ t.expected \subseteq Streams /\ t.connected \subseteq t.expected
    /\ t.phase \in {"connecting", "online", "offline"}
    /\ t.since \in 0..LastPoint /\ t.hadOnline \in BOOLEAN

ChunksOK(chunks) == \A c \in chunks : c.stream \in Streams /\ {c.from, c.to} \subseteq Point

OutageTypes ==
    /\ TrackerOK(tracker) /\ ChunksOK(dash.pending)
    /\ dash.covered \in [Streams -> SUBSET Point]
    /\ changes \in 0..MaxChanges

LEMMA MinOfPoints ==
  ASSUME NEW S, S \subseteq Nat, S # {}
  PROVE  Min(S) \in S /\ \A p \in S : Min(S) <= p
<1>1. \E x \in S : \A y \in S : x <= y
  BY LeastNat
<1> QED BY <1>1 DEF Min

LEMMA MaxOfPoints ==
  ASSUME NEW N \in Nat, NEW S, S \subseteq 0..N, S # {}
  PROVE  Max(S) \in S /\ \A p \in S : Max(S) >= p
<1>1. \E x \in S : \A y \in S : x >= y
  BY GreatestNat
<1> QED BY <1>1 DEF Max

(* A range of missing trades is one of points that have passed. *)
LEMMA MissingIsPast ==
  ASSUME Shapes, NEW s \in Streams, NEW r \in Missing(s)
  PROVE  r.stream = s /\ r.from \in Point /\ r.to \in Point
<1> DEFINE open == IF s \in TradeStreams THEN Outage(s) \ dash.covered[s] ELSE Outage(s)
           end(p) == Max({q \in p..time : p..q \subseteq open})
           first == Min(open)
<1>1. /\ time \in Nat /\ time <= LastPoint /\ LastPoint \in Nat
      /\ dash.lastSeen[s] \in Nat
  BY OutageAssumption DEF Shapes, Point
<1>2. open \subseteq 1..time
  BY <1>1 DEF Outage
<1>3. open # {} /\ r = Stretch(s, first, end(first))
  BY DEF Missing
<1> HIDE DEF open
<1>4. first \in open
  <2>1. open \subseteq Nat
    BY <1>1, <1>2
  <2> QED BY <1>3, <2>1, MinOfPoints
<1>5. first \in 1..time
  BY <1>2, <1>4
<1> HIDE DEF first
<1> DEFINE T == {q \in first..time : first..q \subseteq open}
<1>6. end(first) \in T
  <2>1. first \in T
    BY <1>1, <1>4, <1>5
  <2>2. T \subseteq 0..time
    BY <1>1, <1>5
  <2> HIDE DEF T
  <2>3. Max(T) \in T
    BY <1>1, <2>1, <2>2, MaxOfPoints
  <2> QED BY <2>3 DEF T
<1>7. end(first) \in 1..time
  BY <1>1, <1>5, <1>6
<1> HIDE DEF end, T
<1>8. r.stream = s /\ r.from = first /\ r.to = end(first)
  BY <1>3 DEF Stretch
<1> QED BY <1>1, <1>5, <1>7, <1>8 DEF Point

(* So are its chunks. *)
LEMMA ChunksArePast ==
  ASSUME NEW r, r.stream \in Streams, r.from \in Point, r.to \in Point
  PROVE  ChunksOK(ChunkRanges(r))
<1> SUFFICES ASSUME NEW from \in Points(r),
                    NEW c, c = Stretch(r.stream, from, Min({from + ChunkSpan - 1, r.to}))
             PROVE  c.stream \in Streams /\ {c.from, c.to} \subseteq Point
  BY DEF ChunksOK, ChunkRanges
<1> DEFINE to == Min({from + ChunkSpan - 1, r.to})
<1>1. /\ LastPoint \in Nat /\ ChunkSpan \in Nat /\ ChunkSpan > 0
      /\ r.from \in 1..LastPoint /\ r.to \in 1..LastPoint /\ from \in r.from..r.to
  BY OutageAssumption DEF Point, Points
<1>2. from \in 1..LastPoint
  BY <1>1
<1>3. to \in {from + ChunkSpan - 1, r.to} /\ to <= r.to
  <2> DEFINE S == {from + ChunkSpan - 1, r.to}
  <2>1. S \subseteq Nat /\ S # {} /\ r.to \in S
    BY <1>1, <1>2
  <2> HIDE DEF S
  <2>2. Min(S) \in S /\ Min(S) <= r.to
    BY <2>1, MinOfPoints
  <2> QED BY <2>2 DEF S
<1> HIDE DEF to
<1>4. to \in 1..LastPoint
  BY <1>1, <1>2, <1>3
<1>5. c.stream = r.stream /\ c.from = from /\ c.to = to
  BY DEF Stretch, to
<1> QED BY <1>2, <1>4, <1>5 DEF Point

LEMMA BackfillKeepsTypes ==
  ASSUME Shapes, OutageTypes, Backfill
  PROVE  ChunksOK(dash'.pending) /\ dash'.covered = dash.covered
<1> DEFINE chunks == UNION {ChunkRanges(r) : r \in UNION {Missing(s) : s \in Streams}}
           pending == dash.pending \cup {c \in chunks : ~AlreadyPending(c)}
<1>1. dash' = [dash EXCEPT !.lastSeen = Never, !.pending = pending]
  BY DEF Backfill
<1>2. ChunksOK(chunks)
  <2> SUFFICES ASSUME NEW c \in chunks PROVE c.stream \in Streams /\ {c.from, c.to} \subseteq Point
    BY DEF ChunksOK
  <2>0. PICK s \in Streams : \E r \in Missing(s) : c \in ChunkRanges(r)
    OBVIOUS
  <2>1. PICK r \in Missing(s) : c \in ChunkRanges(r)
    BY <2>0
  <2>2. ChunksOK(ChunkRanges(r))
    BY MissingIsPast, ChunksArePast
  <2> QED BY <2>1, <2>2 DEF ChunksOK
<1> HIDE DEF chunks
<1>3. ChunksOK(pending)
  BY <1>2 DEF OutageTypes, ChunksOK
<1> HIDE DEF pending
<1>4. dash'.pending = pending /\ dash'.covered = dash.covered
  BY <1>1 DEF Shapes
<1> QED BY <1>3, <1>4

(* What evaluate makes of a tracker of this type is one. *)
LEMMA EvaluateIsTracker ==
  ASSUME time \in Point, NEW t, TrackerOK(t),
         t = [expected |-> t.expected, connected |-> t.connected, phase |-> t.phase,
              since |-> t.since, hadOnline |-> t.hadOnline]
  PROVE  TrackerOK(Evaluate(t))
<1> DEFINE since == IF t.since = None THEN time ELSE t.since
           phase == IF t.phase = "offline" \/ time - since >= Grace
                    THEN "offline" ELSE "connecting"
           on == [expected |-> t.expected, connected |-> t.connected, phase |-> "online",
                  since |-> None, hadOnline |-> FALSE]
           off == [expected |-> t.expected, connected |-> t.connected, phase |-> phase,
                   since |-> since, hadOnline |-> t.hadOnline]
<1>1. since \in 0..LastPoint /\ None \in 0..LastPoint
  BY OutageAssumption DEF TrackerOK, Point, None
<1>2. phase \in {"connecting", "online", "offline"}
  OBVIOUS
<1>3. Evaluate(t) = on \/ Evaluate(t) = off
  <2>1. CASE Complete(t)
    BY <2>1 DEF Evaluate
  <2>2. CASE ~Complete(t)
    BY <2>2 DEF Evaluate
  <2> QED BY <2>1, <2>2
<1> HIDE DEF since, phase
<1>4. TrackerOK(on) /\ TrackerOK(off)
  BY <1>1, <1>2 DEF TrackerOK
<1> HIDE DEF on, off
<1> QED BY <1>3, <1>4

(* A transition of a tracker of this type. *)
LEMMA TransitionKeepsTypes ==
  ASSUME Shapes, OutageTypes, NEW t, TrackerOK(t), Transition(t), UNCHANGED changes,
         t = [expected |-> t.expected, connected |-> t.connected, phase |-> t.phase,
              since |-> t.since, hadOnline |-> t.hadOnline]
  PROVE  OutageTypes'
<1>1. TrackerOK(tracker')
  BY EvaluateIsTracker DEF Transition, Shapes
<1>2. CASE Restored(t)
  <2>1. Backfill
    BY <1>2 DEF Transition
  <2> QED BY <1>1, <2>1, BackfillKeepsTypes DEF OutageTypes
<1>3. CASE ~Restored(t)
  BY <1>1, <1>3 DEF Transition, OutageTypes
<1> QED BY <1>2, <1>3

LEMMA OutageTypesStep ==
  ASSUME OutageInv, OutageTypes, [OutageNext]_outageVars
  PROVE  OutageTypes'
<1>0. Shapes
  BY DEF OutageInv
<1>1. ASSUME NEW s \in Streams, Connected(s) PROVE OutageTypes'
  <2> DEFINE t == [tracker EXCEPT !.expected = @ \cup {s}, !.connected = @ \cup {s}]
  <2>1. Transition(t) /\ UNCHANGED changes
    BY <1>1 DEF Connected
  <2>2. t = [expected |-> tracker.expected \cup {s}, connected |-> tracker.connected \cup {s},
             phase |-> tracker.phase, since |-> tracker.since, hadOnline |-> tracker.hadOnline]
    BY <1>0, TrackerUpdated DEF Shapes
  <2> HIDE DEF t
  <2>3. /\ t.expected = tracker.expected \cup {s} /\ t.connected = tracker.connected \cup {s}
        /\ t.phase = tracker.phase /\ t.since = tracker.since
        /\ t.hadOnline = tracker.hadOnline
    BY <2>2
  <2>4. TrackerOK(t)
    BY <2>3 DEF OutageTypes, TrackerOK
  <2> QED BY <1>0, <2>1, <2>2, <2>3, <2>4, TransitionKeepsTypes
<1>2. ASSUME NEW s \in Streams, Disconnected(s) PROVE OutageTypes'
  <2> DEFINE t == [tracker EXCEPT !.hadOnline = @ \/ tracker.phase = "online",
                                  !.expected = @ \cup {s}, !.connected = @ \ {s}]
             online == tracker.hadOnline \/ tracker.phase = "online"
  <2>1. tracker' = Evaluate(t) /\ dash' = Remembered(s) /\ UNCHANGED changes
    BY <1>2 DEF Disconnected
  <2>2. t = [expected |-> tracker.expected \cup {s}, connected |-> tracker.connected \ {s},
             phase |-> tracker.phase, since |-> tracker.since, hadOnline |-> online]
    <3>1. t = [tracker EXCEPT !.hadOnline = online, !.expected = tracker.expected \cup {s},
                              !.connected = tracker.connected \ {s}]
      OBVIOUS
    <3> HIDE DEF t, online
    <3> QED BY <1>0, <3>1, TrackerUpdated DEF Shapes
  <2>3. online \in BOOLEAN
    BY DEF OutageTypes, TrackerOK
  <2> HIDE DEF t, online
  <2>4. /\ t.expected = tracker.expected \cup {s} /\ t.connected = tracker.connected \ {s}
        /\ t.phase = tracker.phase /\ t.since = tracker.since
        /\ t.hadOnline = online
    BY <2>2
  <2>5. TrackerOK(t)
    BY <2>3, <2>4 DEF OutageTypes, TrackerOK
  <2>6. TrackerOK(tracker')
    <3>1. TrackerOK(Evaluate(t))
      BY <1>0, <2>2, <2>4, <2>5, EvaluateIsTracker DEF Shapes
    <3> QED BY <2>1, <3>1
  <2>7. dash'.pending = dash.pending /\ dash'.covered = dash.covered
    BY <1>0, <2>1 DEF Remembered, Shapes
  <2> QED BY <2>1, <2>6, <2>7 DEF OutageTypes
<1>3. ASSUME NEW s \in Streams, Reconfigure(s) PROVE OutageTypes'
  <2>1. /\ dash' = [dash EXCEPT !.covered[s] = {}] /\ UNCHANGED tracker
        /\ changes < MaxChanges /\ changes' = changes + 1
    BY <1>3 DEF Reconfigure
  <2>2. dash'.pending = dash.pending /\ dash'.covered = [dash.covered EXCEPT ![s] = {}]
    BY <1>0, <2>1 DEF Shapes
  <2>3. changes' \in 0..MaxChanges
    BY <2>1, OutageAssumption DEF OutageTypes
  <2> QED BY <2>1, <2>2, <2>3 DEF OutageTypes
<1>4. ASSUME AppTick PROVE OutageTypes'
  <2> DEFINE t == [tracker EXCEPT !.expected = configured, !.connected = @ \cap configured]
  <2>1. Transition(t) /\ UNCHANGED changes
    BY <1>4 DEF AppTick
  <2>2. t = [expected |-> configured, connected |-> tracker.connected \cap configured,
             phase |-> tracker.phase, since |-> tracker.since, hadOnline |-> tracker.hadOnline]
    BY <1>0, TrackerUpdated DEF Shapes
  <2> HIDE DEF t
  <2>3. /\ t.expected = configured /\ t.connected = tracker.connected \cap configured
        /\ t.phase = tracker.phase /\ t.since = tracker.since
        /\ t.hadOnline = tracker.hadOnline
    BY <2>2
  <2>4. TrackerOK(t)
    BY <1>0, <2>3 DEF OutageTypes, TrackerOK, Shapes
  <2> QED BY <1>0, <2>1, <2>2, <2>3, <2>4, TransitionKeepsTypes
<1>5. ASSUME Pass PROVE OutageTypes'
  <2>1. PICK live \in SUBSET up :
          dash' = [dash EXCEPT !.lastLive = [o \in Streams |-> IF o \in live THEN time' ELSE @[o]]]
    BY <1>5 DEF Pass
  <2>2. dash'.pending = dash.pending /\ dash'.covered = dash.covered
    BY <1>0, <2>1 DEF Shapes
  <2>3. UNCHANGED <<tracker, changes>>
    BY <1>5 DEF Pass
  <2> QED BY <2>2, <2>3 DEF OutageTypes
<1>6. ASSUME ChunkEnds PROVE OutageTypes'
  <2>0. PICK chunk \in dash.pending : \E upto \in (chunk.from - 1) .. chunk.to :
         dash' = [dash EXCEPT !.pending = @ \ {chunk},
                     !.covered[chunk.stream] =
                        IF chunk.stream \in TradeStreams THEN @ \cup chunk.from .. upto ELSE @]
    BY <1>6 DEF ChunkEnds
  <2>1. PICK upto \in (chunk.from - 1) .. chunk.to :
         dash' = [dash EXCEPT !.pending = @ \ {chunk},
                     !.covered[chunk.stream] =
                        IF chunk.stream \in TradeStreams THEN @ \cup chunk.from .. upto ELSE @]
    BY <2>0
  <2>2. UNCHANGED <<tracker, changes>>
    BY <1>6 DEF ChunkEnds
  <2>3. chunk.stream \in Streams /\ chunk.from \in Point /\ chunk.to \in Point
    BY DEF OutageTypes, ChunksOK
  <2>4. chunk.from .. upto \subseteq Point
    BY <2>3, OutageAssumption DEF Point
  <2> DEFINE more == IF chunk.stream \in TradeStreams
                     THEN dash.covered[chunk.stream] \cup chunk.from .. upto
                     ELSE dash.covered[chunk.stream]
  <2>5. more \subseteq Point
    BY <2>3, <2>4 DEF OutageTypes
  <2>6. /\ dash'.pending = dash.pending \ {chunk}
        /\ dash'.covered = [dash.covered EXCEPT ![chunk.stream] = more]
    BY <1>0, <2>1 DEF Shapes
  <2> HIDE DEF more
  <2>7. dash'.covered \in [Streams -> SUBSET Point]
    BY <2>3, <2>5, <2>6 DEF OutageTypes
  <2>8. ChunksOK(dash'.pending)
    BY <2>6 DEF OutageTypes, ChunksOK
  <2> QED BY <2>2, <2>7, <2>8 DEF OutageTypes
<1>7. CASE UNCHANGED outageVars
  BY <1>7 DEF outageVars, OutageTypes
<1> QED BY <1>1, <1>2, <1>3, <1>4, <1>5, <1>6, <1>7 DEF OutageNext

LEMMA OutageTypesInitially == OutageInit => OutageTypes
BY OutageAssumption DEF OutageInit, OutageTypes, TrackerOK, ChunksOK, Nothing, None, Point

LEMMA OutageTyped == OutageInv /\ OutageTypes => OutageTypeOK
<1> SUFFICES ASSUME OutageInv, OutageTypes PROVE OutageTypeOK
  OBVIOUS
<1>1. 0..time \subseteq 0..LastPoint /\ 1..time \subseteq Point
  BY OutageAssumption DEF OutageInv, Shapes, Point
<1>2. dash.lastLive \in [Streams -> 0..LastPoint] /\ dash.lastSeen \in [Streams -> 0..LastPoint]
  BY <1>1 DEF OutageInv, Shapes
<1>3. missed \in [Streams -> SUBSET Point]
  BY <1>1 DEF OutageInv, Shapes
<1> QED BY <1>2, <1>3 DEF OutageInv, Shapes, OutageTypes, TrackerOK, ChunksOK, OutageTypeOK

(* Whatever is configured, connects and fails: the tracker is about streams of the market,    *)
(* a plan asks for points of the line of time only, and what it covers are such points.       *)
THEOREM OutageTypeCorrect == OutageSpec => []OutageTypeOK
<1>1. OutageInit => OutageInv /\ OutageTypes
  BY OutageInvInitially, OutageTypesInitially
<1>2. OutageInv /\ OutageTypes /\ [OutageNext]_outageVars => OutageInv' /\ OutageTypes'
  BY OutageInvIsInductive, OutageTypesStep
<1> QED BY <1>1, <1>2, OutageTyped, PTL DEF OutageSpec

--------------------------------------------------------------------------------
(* MarketCache: the inductive invariant. *)

Jobs == [pc : {"idle"}]
          \cup [pc : {"coverage"}, from : Instant, to : Instant, stale : {FALSE}]
          \cup [pc : {"buckets"}, from : Instant, to : Instant, seen : SUBSET Instant,
                stale : BOOLEAN]
          \cup [pc : {"fetch", "page"}, from : Instant, to : Instant, got : SUBSET market,
                gaps : SUBSET Instant, open : SUBSET Instant, cursor : Instant]

(* What the proof needs of the types. *)
CacheShapes ==
    /\ market \in TradeSets
    /\ disk = [coverage |-> disk.coverage, buckets |-> disk.buckets]
    /\ disk.buckets = [b \in Bucket |-> disk.buckets[b]]
    /\ \A b \in Bucket : disk.buckets[b].kind = "data" \/ disk.buckets[b] \in {Absent, Bad}
    /\ \A b \in Bucket : Held(disk.buckets[b]) \subseteq market
    /\ Held(disk.coverage) \subseteq Instant
    /\ job \in [Workers -> Jobs]

(* A worker is within a gap while it fetches. *)
CursorIsInGap ==
    \A w \in Workers :
       /\ job[w].pc \in {"fetch", "page"} => job[w].open \subseteq job[w].gaps
       /\ job[w].pc = "page" => job[w].cursor \in job[w].gaps

(* Instants whose buckets are there, and have the trades, or will be rejected. *)
Backed(instants) ==
    /\ \A t \in instants : disk.buckets[BucketFor(t)].kind # "absent"
    /\ \A r \in market \ torn :
          r.at \in instants =>
             disk.buckets[BucketFor(r.at)].kind # "data"
               \/ r \in disk.buckets[BucketFor(r.at)].set

(* So are the instants of a coverage a worker has read, if nobody dropped it since. *)
SeenIsBacked ==
    \A w \in Workers : job[w].pc = "buckets" /\ ~job[w].stale => Backed(job[w].seen)

CacheInv == CacheShapes /\ CursorIsInGap /\ Backed(Held(disk.coverage)) /\ SeenIsBacked

--------------------------------------------------------------------------------
(* Instants, buckets, pages. *)

LEMMA BucketOfInstant == \A t \in Instant : BucketFor(t) \in Bucket
<1> SUFFICES ASSUME NEW t \in Instant PROVE BucketFor(t) \in Bucket
  OBVIOUS
<1>1. /\ Span \in Nat /\ Span > 0 /\ BucketSpan \in Nat /\ BucketSpan > 0
      /\ t \in Nat /\ t <= Span - 1
  BY CacheAssumption DEF Instant
<1>2. t \div BucketSpan \in Nat /\ t \div BucketSpan <= (Span - 1) \div BucketSpan
  BY <1>1
<1> QED BY <1>1, <1>2 DEF BucketFor, Bucket

(* A nonempty set of instants has a last one. *)
LEMMA LastInstant ==
  ASSUME NEW S \in SUBSET Instant, S # {}
  PROVE  Max(S) \in S /\ \A t \in S : t <= Max(S)
<1> DEFINE T == {Span - t : t \in S}
<1>1. Span \in Nat /\ \A t \in S : t \in Nat /\ Span - t \in Nat
  BY CacheAssumption DEF Instant
<1>2. PICK x \in T : \A y \in T : x <= y
  <2>1. T \subseteq Nat /\ T # {}
    BY <1>1
  <2> HIDE DEF T
  <2> QED BY <2>1, LeastNat
<1>3. PICK t \in S : x = Span - t
  OBVIOUS
<1>4. \A u \in S : Span - u \in T
  OBVIOUS
<1>5. ASSUME NEW u \in S PROVE t >= u
  <2>1. Span - t <= Span - u
    BY <1>2, <1>3, <1>4
  <2>2. Span \in Int /\ t \in Int /\ u \in Int
    BY <1>1
  <2> QED BY <2>1, <2>2
<1>6. Max(S) \in S /\ \A u \in S : Max(S) >= u
  BY <1>5 DEF Max
<1> QED BY <1>1, <1>6

LEMMA BlobHas ==
  ASSUME NEW set
  PROVE  Blob(set).kind = "data" /\ Blob(set).set = set
BY DEF Blob

LEMMA MinOfTwo ==
  ASSUME NEW a \in Int, NEW b \in Int
  PROVE  Min({a, b}) = IF a <= b THEN a ELSE b
BY DEF Min

(* A trade that a page leaves out is not before the page's last instant. *)
LEMMA PageIsInOrder ==
  ASSUME CacheShapes, NEW t \in Instant, PageFrom(t) # {}
  PROVE  LET last == Max({p.at : p \in PageFrom(t)})
         IN /\ last \in Instant /\ t <= last
            /\ \A p \in PageFrom(t) : p \in market /\ t <= p.at /\ p.at <= last
            /\ \A r \in market : t <= r.at /\ r.at < last => r \in PageFrom(t)
<1> DEFINE page == PageFrom(t)
           last == Max({p.at : p \in page})
           later == {r \in market : r.at >= t}
           ahead(r) == {q \in later : Before(q, r)}
<1>1. /\ IsFiniteSet(market) /\ PageTrades \in Nat
      /\ \A r \in market : r.at \in Instant /\ r.rank \in Nat
      /\ \A u \in Instant : u \in Int
  BY CacheAssumption DEF CacheShapes, Instant
<1>2. page = {r \in later : Cardinality(ahead(r)) < PageTrades}
  BY DEF PageFrom
<1> HIDE DEF page
<1>3. \A p \in page : p \in market /\ t <= p.at
  BY <1>1, <1>2
<1>4. /\ last \in {p.at : p \in page} /\ \A u \in {p.at : p \in page} : u <= last
  <2>1. {p.at : p \in page} \in SUBSET Instant /\ {p.at : p \in page} # {}
    BY <1>1, <1>3 DEF page
  <2> QED BY <2>1, LastInstant
<1>5. PICK p \in page : p.at = last
  BY <1>4
<1> HIDE DEF last
<1>6. last \in Instant /\ t <= last /\ \A q \in page : q.at <= last
  BY <1>1, <1>3, <1>4, <1>5
<1>7. ASSUME NEW r \in market, t <= r.at, r.at < last PROVE r \in page
  <2>1. ahead(r) \subseteq ahead(p)
    BY <1>1, <1>3, <1>5, <1>7 DEF Before
  <2>2. IsFiniteSet(ahead(p))
    BY <1>1, FS_Subset
  <2>3. Cardinality(ahead(r)) \in Nat /\ Cardinality(ahead(p)) \in Nat
          /\ Cardinality(ahead(r)) <= Cardinality(ahead(p))
    <3> HIDE DEF ahead
    <3> QED BY <2>1, <2>2, FS_Subset, FS_CardinalityType
  <2>4. Cardinality(ahead(p)) < PageTrades
    BY <1>2
  <2>5. Cardinality(ahead(r)) < PageTrades
    <3> HIDE DEF ahead
    <3> QED BY <1>1, <2>3, <2>4
  <2>6. r \in later
    BY <1>1, <1>7
  <2> QED BY <1>2, <2>5, <2>6
<1> QED BY <1>3, <1>6, <1>7 DEF page, last

--------------------------------------------------------------------------------
(* The steps: what each does to the disk and to the jobs. *)

(* Instants stay backed while the buckets are the same, or go bad, and no trade is less torn. *)
LEMMA StaysBacked ==
  ASSUME NEW I \in SUBSET Instant, Backed(I), UNCHANGED market, torn \subseteq torn',
         \A b \in Bucket : disk'.buckets[b] = disk.buckets[b] \/ disk'.buckets[b] = Bad
  PROVE  Backed(I)'
<1>1. \A t \in I : BucketFor(t) \in Bucket
  BY BucketOfInstant
<1> QED BY <1>1 DEF Backed, Bad

(* What a page brings: PageStep is the part of Page that stores. *)
PageStep(w) ==
    LET page == PageFrom(job[w].cursor)
        last == Max({r.at : r \in page})
        upto == Min({last, GapEnd(w)})
        kept == {r \in page : r.at <= GapEnd(w)} \ job[w].got
        covered == job[w].cursor .. upto
        rest == {r \in market : r.at = last /\ r \notin page}
        dropped == {r \in page \cap job[w].got : r \notin Held(disk.buckets[BucketFor(r.at)])}
        unreadable == {b \in BucketsOf(covered) : disk.buckets[b] = Bad}
    IN /\ page # {}
       /\ disk' = Stored(kept, covered)
       /\ torn' = (torn \cup At(rest \cup dropped, covered)
                     \cup {r \in market : BucketFor(r.at) \in unreadable}) \ kept
       /\ UNCHANGED market

Covers(w) == job[w].cursor .. Min({Max({r.at : r \in PageFrom(job[w].cursor)}), GapEnd(w)})

LEMMA GapEndIsInGap ==
  ASSUME CacheShapes, CursorIsInGap, NEW w \in Workers, job[w].pc = "page"
  PROVE  /\ job[w].cursor \in Instant /\ GapEnd(w) \in Instant /\ job[w].cursor <= GapEnd(w)
         /\ job[w].cursor .. GapEnd(w) \subseteq job[w].gaps
         /\ job[w].gaps \subseteq Instant
<1> DEFINE S == {t \in Instant : job[w].cursor .. t \subseteq job[w].gaps}
           c == job[w].cursor
<1>1. c \in job[w].gaps /\ job[w].gaps \subseteq Instant /\ c \in Instant
  BY DEF CacheShapes, CursorIsInGap, Jobs
<1>2. c \in Nat /\ c .. c = {c}
  BY <1>1 DEF Instant
<1>3. c \in S
  BY <1>1, <1>2
<1>4. GapEnd(w) = Max(S) /\ S \subseteq Instant
  BY DEF GapEnd
<1>5. Max(S) \in S /\ \A t \in S : t <= Max(S)
  <2> HIDE DEF S
  <2> QED BY <1>3, <1>4, LastInstant
<1> QED BY <1>1, <1>3, <1>4, <1>5

LEMMA PageStepKeepsBacked ==
  ASSUME CacheShapes, CursorIsInGap, NEW w \in Workers, job[w].pc = "page", PageStep(w),
         NEW I \in SUBSET Instant, Backed(I), NEW C, C = Covers(w)
  PROVE  C \subseteq Instant /\ Backed(I \cup C)'
<1> DEFINE c == job[w].cursor
           end == GapEnd(w)
           page == PageFrom(c)
           last == Max({r.at : r \in page})
           upto == Min({last, end})
           kept == {r \in page : r.at <= end} \ job[w].got
           covered == c .. upto
           rest == {r \in market : r.at = last /\ r \notin page}
           dropped == {r \in page \cap job[w].got : r \notin Held(disk.buckets[BucketFor(r.at)])}
           unreadable == {b \in BucketsOf(covered) : disk.buckets[b] = Bad}
<1>1. /\ page # {} /\ disk' = Stored(kept, covered) /\ market' = market
      /\ torn' = (torn \cup At(rest \cup dropped, covered)
                     \cup {r \in market : BucketFor(r.at) \in unreadable}) \ kept
  BY DEF PageStep
<1>2. /\ c \in Instant /\ end \in Instant /\ c <= end /\ c .. end \subseteq job[w].gaps
      /\ job[w].gaps \subseteq Instant
  BY GapEndIsInGap
<1>3. /\ last \in Instant /\ c <= last
      /\ \A p \in page : p \in market /\ c <= p.at /\ p.at <= last
      /\ \A r \in market : c <= r.at /\ r.at < last => r \in page
  BY <1>1, <1>2, PageIsInOrder
<1>4. \A r \in market : r.at \in Instant
  BY CacheAssumption DEF CacheShapes, Instant
<1>5. \A t \in Instant : t \in Int
  BY DEF Instant
<1>6. covered \subseteq Instant /\ \A t \in Instant : t \in covered <=> c <= t /\ t <= last /\ t <= end
  <2> HIDE DEF c, end, last
  <2>1. upto = IF last <= end THEN last ELSE end
    BY <1>2, <1>3, <1>5, MinOfTwo
  <2>2. upto \in Instant
    BY <1>2, <1>3, <2>1
  <2>3. Span \in Nat
    BY CacheAssumption
  <2> HIDE DEF upto
  <2> QED BY <1>2, <1>3, <1>5, <2>1, <2>2, <2>3 DEF Instant
<1>7. C = covered
  BY DEF Covers
<1> HIDE DEF c, end, page, last, upto, covered
<1>8. \A k \in kept : k \in market /\ k.at \in covered
  BY <1>3, <1>4, <1>6
<1> DEFINE written == BucketsOf(covered)
<1>9. \A b \in Bucket : disk'.buckets[b] =
        IF b \in written THEN Blob(Held(disk.buckets[b]) \cup {k \in kept : BucketFor(k.at) = b})
        ELSE disk.buckets[b]
  <2>1. BucketsOf({k.at : k \in kept}) \subseteq written
    BY <1>8 DEF BucketsOf
  <2> HIDE DEF kept
  <2>2. BucketsOf(covered) \cup BucketsOf({k.at : k \in kept}) = written
    BY <2>1
  <2>3. disk'.buckets = [b \in Bucket |->
           IF b \in BucketsOf(covered) \cup BucketsOf({k.at : k \in kept})
           THEN Blob(Held(disk.buckets[b]) \cup {k \in kept : BucketFor(k.at) = b})
           ELSE disk.buckets[b]]
    BY <1>1 DEF Stored
  <2> QED BY <2>2, <2>3
<1>9a. ASSUME NEW b \in Bucket, b \in written
       PROVE  /\ disk'.buckets[b].kind = "data"
              /\ disk'.buckets[b].set = Held(disk.buckets[b]) \cup {k \in kept : BucketFor(k.at) = b}
  <2> HIDE DEF kept, written
  <2>1. disk'.buckets[b] = Blob(Held(disk.buckets[b]) \cup {k \in kept : BucketFor(k.at) = b})
    BY <1>9, <1>9a
  <2> QED BY <2>1, BlobHas
<1>10. \A t \in covered : BucketFor(t) \in written
  BY DEF BucketsOf
<1>11. \A t \in I \cup covered : BucketFor(t) \in Bucket
  BY <1>6, BucketOfInstant
<1> HIDE DEF kept, written
<1>12. ASSUME NEW t \in I \cup covered
       PROVE  disk'.buckets[BucketFor(t)].kind # "absent"
  <2>1. CASE BucketFor(t) \in written
    BY <1>9a, <1>11, <2>1
  <2>2. CASE BucketFor(t) \notin written
    BY <1>9, <1>10, <1>11, <2>2 DEF Backed
  <2> QED BY <2>1, <2>2
<1>13. ASSUME NEW r \in market \ torn', r.at \in I \cup covered
       PROVE  \/ disk'.buckets[BucketFor(r.at)].kind # "data"
              \/ r \in disk'.buckets[BucketFor(r.at)].set
  <2> DEFINE b == BucketFor(r.at)
             blob == disk.buckets[b]
  <2>1. b \in Bucket /\ (r.at \in covered => b \in written)
    BY <1>10, <1>11, <1>13
  <2>2. CASE r \in kept
    <3>1. b \in written
      BY <1>8, <1>10, <2>2
    <3>2. r \in Held(blob) \cup {k \in kept : BucketFor(k.at) = b}
      BY <2>2
    <3> QED BY <1>9a, <2>1, <3>1, <3>2
  <2>3. CASE r \notin kept
    <3>1. r \notin torn /\ r \notin At(rest \cup dropped, covered) /\ b \notin unreadable
      BY <1>1, <1>13, <2>3
    <3>2. r \in Held(blob) => \/ disk'.buckets[b].kind # "data" \/ r \in disk'.buckets[b].set
      <4>1. CASE b \in written
        BY <1>9a, <2>1, <4>1
      <4>2. CASE b \notin written
        BY <1>9, <2>1, <4>2 DEF Held
      <4> QED BY <4>1, <4>2
    <3>3. CASE r.at \in I
      <4>1. blob.kind # "absent" /\ (blob.kind # "data" \/ r \in blob.set)
        BY <1>13, <3>1, <3>3 DEF Backed
      <4>2. CASE blob.kind = "data"
        BY <3>2, <4>1, <4>2 DEF Held
      <4>3. CASE blob.kind # "data"
        <5>1. blob = Bad
          BY <2>1, <4>1, <4>3 DEF CacheShapes, Absent
        <5>2. b \notin written
          BY <3>1, <5>1 DEF written
        <5> QED BY <1>9, <2>1, <4>3, <5>2
      <4> QED BY <4>2, <4>3
    <3>4. CASE r.at \in covered
      <4>1. CASE r \in page
        <5>1. r \in job[w].got
          BY <1>4, <1>6, <2>3, <3>4, <4>1 DEF kept
        <5>2. r \in Held(blob)
          BY <3>1, <3>4, <4>1, <5>1 DEF At
        <5> QED BY <3>2, <5>2
      <4>2. CASE r \notin page
        <5>1. r.at = last
          BY <1>3, <1>4, <1>5, <1>6, <3>4, <4>2
        <5> QED BY <3>1, <3>4, <4>2, <5>1 DEF At
      <4> QED BY <4>1, <4>2
    <3> QED BY <1>13, <3>3, <3>4
  <2> QED BY <2>2, <2>3
<1> QED BY <1>1, <1>6, <1>7, <1>12, <1>13 DEF Backed

--------------------------------------------------------------------------------
(* The steps that leave the trades alone. *)

(* One worker's job changes. *)
LEMMA OneJobChanges ==
  ASSUME CacheShapes, CursorIsInGap, NEW w \in Workers, NEW j, j \in Jobs,
         j.pc \in {"fetch", "page"} => j.open \subseteq j.gaps,
         j.pc = "page" => j.cursor \in j.gaps,
         job' = [job EXCEPT ![w] = j], UNCHANGED market
  PROVE  /\ (job \in [Workers -> Jobs])'
         /\ CursorIsInGap'
         /\ job'[w] = j /\ \A v \in Workers : v # w => job'[v] = job[v]
<1>1. job \in [Workers -> Jobs] /\ Jobs' = Jobs
  BY DEF CacheShapes, Jobs
<1>2. job'[w] = j /\ \A v \in Workers : v # w => job'[v] = job[v]
  BY <1>1
<1> QED BY <1>1, <1>2 DEF CursorIsInGap

LEMMA SmallerIsBacked ==
  ASSUME NEW I, NEW J, I \subseteq J, Backed(J)
  PROVE  Backed(I)
BY DEF Backed

(* The buckets, the torn trades and what others have seen stay. *)
LEMMA JobStepKeepsInv ==
  ASSUME CacheInv, NEW w \in Workers, NEW j, j \in Jobs,
         j.pc \in {"fetch", "page"} => j.open \subseteq j.gaps,
         j.pc = "page" => j.cursor \in j.gaps,
         j.pc = "buckets" => Backed(j.seen),
         job' = [job EXCEPT ![w] = j], UNCHANGED <<market, torn>>,
         disk' = [coverage |-> disk'.coverage, buckets |-> disk.buckets],
         Held(disk'.coverage) \subseteq Held(disk.coverage)
  PROVE  CacheInv'
<1>1. /\ (job \in [Workers -> Jobs])' /\ CursorIsInGap'
      /\ job'[w] = j /\ \A v \in Workers : v # w => job'[v] = job[v]
  BY OneJobChanges DEF CacheInv
<1>2. disk'.buckets = disk.buckets
  OBVIOUS
<1>3. CacheShapes'
  BY <1>1, <1>2 DEF CacheInv, CacheShapes, Jobs
<1>4. \A I : Backed(I) => Backed(I)'
  BY <1>2 DEF Backed
<1>5. Backed(Held(disk.coverage))'
  <2>1. Backed(Held(disk'.coverage))
    BY SmallerIsBacked DEF CacheInv
  <2> QED BY <1>2, <2>1 DEF Backed
<1>6. SeenIsBacked'
  <2> SUFFICES ASSUME NEW v \in Workers, job'[v].pc = "buckets", ~job'[v].stale
               PROVE  Backed(job[v].seen)'
    BY DEF SeenIsBacked
  <2>1. Backed(job'[v].seen)
    BY <1>1 DEF CacheInv, SeenIsBacked
  <2> QED BY <1>2, <2>1 DEF Backed
<1> QED BY <1>1, <1>3, <1>5, <1>6 DEF CacheInv

(* What a job is made of. *)
LEMMA JobFields ==
  ASSUME CacheShapes, NEW w \in Workers
  PROVE  /\ job[w].pc \in {"idle", "coverage", "buckets", "fetch", "page"}
         /\ job[w].pc \in {"coverage", "buckets"} =>
              job[w].from \in Instant /\ job[w].to \in Instant /\ Asked(w) \subseteq Instant
         /\ job[w].pc = "buckets" => job[w].seen \subseteq Instant
         /\ job[w].pc \in {"fetch", "page"} =>
              /\ job[w] = [pc |-> job[w].pc, from |-> job[w].from, to |-> job[w].to,
                           got |-> job[w].got, gaps |-> job[w].gaps, open |-> job[w].open,
                           cursor |-> job[w].cursor]
              /\ job[w].from \in Instant /\ job[w].to \in Instant /\ job[w].got \subseteq market
              /\ job[w].gaps \subseteq Instant /\ job[w].open \subseteq Instant
              /\ job[w].cursor \in Instant
<1>1. job[w] \in Jobs
  BY DEF CacheShapes
<1>2. \A a, b \in Instant : a .. b \subseteq Instant
  BY CacheAssumption DEF Instant
<1>3. CASE job[w] \in [pc : {"idle"}]
  BY <1>3
<1>4. CASE job[w] \in [pc : {"coverage"}, from : Instant, to : Instant, stale : {FALSE}]
  BY <1>2, <1>4 DEF Asked
<1>5. CASE job[w] \in [pc : {"buckets"}, from : Instant, to : Instant, seen : SUBSET Instant,
                       stale : BOOLEAN]
  BY <1>2, <1>5 DEF Asked
<1>6. CASE job[w] \in [pc : {"fetch", "page"}, from : Instant, to : Instant, got : SUBSET market,
                       gaps : SUBSET Instant, open : SUBSET Instant, cursor : Instant]
  BY <1>6
<1> QED BY <1>1, <1>3, <1>4, <1>5, <1>6 DEF Jobs

LEMMA AnswerIsJob ==
  ASSUME CacheShapes, NEW w \in Workers, job[w].pc \in {"coverage", "buckets"},
         NEW got \in SUBSET market, NEW gaps \in SUBSET Instant
  PROVE  LET j == Answer(w, got, gaps)
         IN /\ j \in Jobs /\ j.pc = "fetch" /\ j.got = got /\ j.gaps = gaps
            /\ j.open \subseteq j.gaps
<1>1. 0 \in Instant
  BY CacheAssumption DEF Instant
<1>2. job[w].from \in Instant /\ job[w].to \in Instant
  BY JobFields
<1>3. Answer(w, got, gaps) \in
        [pc : {"fetch", "page"}, from : Instant, to : Instant, got : SUBSET market,
         gaps : SUBSET Instant, open : SUBSET Instant, cursor : Instant]
  BY <1>1, <1>2 DEF Answer
<1>4. /\ Answer(w, got, gaps).pc = "fetch" /\ Answer(w, got, gaps).got = got
      /\ Answer(w, got, gaps).gaps = gaps /\ Answer(w, got, gaps).open = gaps
  BY DEF Answer
<1> QED BY <1>3, <1>4 DEF Jobs

(* A job that fetches, updated in several of its fields. *)
Fetching(r) ==
    r = [pc |-> r.pc, from |-> r.from, to |-> r.to, got |-> r.got,
         gaps |-> r.gaps, open |-> r.open, cursor |-> r.cursor]

LEMMA FetchUpdatedTwice ==
  ASSUME NEW r, NEW g, NEW c, Fetching(r)
  PROVE  [r EXCEPT !.got = g, !.cursor = c] =
           [pc |-> r.pc, from |-> r.from, to |-> r.to, got |-> g,
            gaps |-> r.gaps, open |-> r.open, cursor |-> c]
<1> DEFINE rg == [r EXCEPT !.got = g]
<1>1. rg = [pc |-> r.pc, from |-> r.from, to |-> r.to, got |-> g,
            gaps |-> r.gaps, open |-> r.open, cursor |-> r.cursor]
  BY DEF Fetching
<1> HIDE DEF rg
<1>2. [rg EXCEPT !.cursor = c] =
        [pc |-> r.pc, from |-> r.from, to |-> r.to, got |-> g,
         gaps |-> r.gaps, open |-> r.open, cursor |-> c]
  BY <1>1
<1> QED BY <1>2 DEF rg

LEMMA FetchUpdatedThrice ==
  ASSUME NEW r, NEW p, NEW c, NEW g, Fetching(r)
  PROVE  [r EXCEPT !.pc = p, !.cursor = c, !.got = g] =
           [pc |-> p, from |-> r.from, to |-> r.to, got |-> g,
            gaps |-> r.gaps, open |-> r.open, cursor |-> c]
<1> DEFINE rp == [r EXCEPT !.pc = p]
           rpc == [rp EXCEPT !.cursor = c]
<1>1. rp = [pc |-> p, from |-> r.from, to |-> r.to, got |-> r.got,
            gaps |-> r.gaps, open |-> r.open, cursor |-> r.cursor]
  BY DEF Fetching
<1> HIDE DEF rp
<1>2. rpc = [pc |-> p, from |-> r.from, to |-> r.to, got |-> r.got,
             gaps |-> r.gaps, open |-> r.open, cursor |-> c]
  BY <1>1
<1> HIDE DEF rpc
<1>3. [rpc EXCEPT !.got = g] =
        [pc |-> p, from |-> r.from, to |-> r.to, got |-> g,
         gaps |-> r.gaps, open |-> r.open, cursor |-> c]
  BY <1>2
<1> QED BY <1>3 DEF rp, rpc

LEMMA GapIsClosed ==
  ASSUME NEW r, NEW o, Fetching(r)
  PROVE  [r EXCEPT !.pc = "fetch", !.cursor = 0, !.got = {}, !.open = o] =
           [pc |-> "fetch", from |-> r.from, to |-> r.to, got |-> {},
            gaps |-> r.gaps, open |-> o, cursor |-> 0]
<1> DEFINE rpcg == [r EXCEPT !.pc = "fetch", !.cursor = 0, !.got = {}]
<1>1. rpcg = [pc |-> "fetch", from |-> r.from, to |-> r.to, got |-> {},
              gaps |-> r.gaps, open |-> r.open, cursor |-> 0]
  BY FetchUpdatedThrice
<1> HIDE DEF rpcg
<1>2. [rpcg EXCEPT !.open = o] =
        [pc |-> "fetch", from |-> r.from, to |-> r.to, got |-> {},
         gaps |-> r.gaps, open |-> o, cursor |-> 0]
  BY <1>1
<1> QED BY <1>2 DEF rpcg

LEMMA BeginKeepsInv ==
  ASSUME CacheInv, NEW w \in Workers, Begin(w)
  PROVE  CacheInv'
<1>1. PICK from, to \in Instant :
        job' = [job EXCEPT ![w] = [pc |-> "coverage", from |-> from, to |-> to, stale |-> FALSE]]
  BY DEF Begin
<1> DEFINE j == [pc |-> "coverage", from |-> from, to |-> to, stale |-> FALSE]
<1>2. j \in Jobs /\ j.pc = "coverage"
  BY DEF Jobs
<1>3. disk' = [coverage |-> disk'.coverage, buckets |-> disk.buckets] /\ disk' = disk
  BY DEF CacheInv, CacheShapes, Begin
<1>4. UNCHANGED <<market, torn>>
  BY DEF Begin
<1> HIDE DEF j
<1>5. job' = [job EXCEPT ![w] = j]
  BY <1>1 DEF j
<1> QED BY <1>2, <1>3, <1>4, <1>5, JobStepKeepsInv

LEMMA StopKeepsInv ==
  ASSUME CacheInv, NEW w \in Workers, Stop(w) \/ Fetched(w)
  PROVE  CacheInv'
<1>1. Idle \in Jobs /\ Idle.pc = "idle"
  BY DEF Idle, Jobs
<1>2. disk' = [coverage |-> disk'.coverage, buckets |-> disk.buckets] /\ disk' = disk
  BY DEF CacheInv, CacheShapes, Stop, Fetched
<1>3. UNCHANGED <<market, torn>> /\ job' = [job EXCEPT ![w] = Idle]
  BY DEF Stop, Fetched
<1> QED BY <1>1, <1>2, <1>3, JobStepKeepsInv

LEMMA NextGapKeepsInv ==
  ASSUME CacheInv, NEW w \in Workers, NextGap(w)
  PROVE  CacheInv'
<1> DEFINE old == job[w]
           j == [pc |-> "page", from |-> old.from, to |-> old.to, got |-> {},
                 gaps |-> old.gaps, open |-> old.open, cursor |-> Min(old.open)]
<1>1. /\ old.pc = "fetch" /\ old.open # {}
      /\ job' = [job EXCEPT ![w] = [old EXCEPT !.pc = "page", !.cursor = Min(old.open), !.got = {}]]
      /\ UNCHANGED <<market, disk, torn, mishaps>>
  BY DEF NextGap
<1>2. /\ old = [pc |-> old.pc, from |-> old.from, to |-> old.to, got |-> old.got,
                gaps |-> old.gaps, open |-> old.open, cursor |-> old.cursor]
      /\ old.from \in Instant /\ old.to \in Instant /\ old.gaps \subseteq Instant
      /\ old.open \subseteq Instant /\ old.open \subseteq old.gaps
  BY <1>1, JobFields DEF CacheInv, CacheShapes, CursorIsInGap
<1>3. Min(old.open) \in old.open
  <2>1. old.open \subseteq Nat
    BY <1>2 DEF Instant
  <2>2. PICK x \in old.open : \A y \in old.open : x <= y
    BY <1>1, <2>1, LeastNat
  <2> QED BY <2>2 DEF Min
<1> HIDE DEF old
<1>4. j \in Jobs /\ j.pc = "page" /\ j.open \subseteq j.gaps /\ j.cursor \in j.gaps
  BY <1>2, <1>3 DEF Jobs
<1>5. job' = [job EXCEPT ![w] = j]
  <2>1. [old EXCEPT !.pc = "page", !.cursor = Min(old.open), !.got = {}] = j
    <3>1. Fetching(old)
      BY <1>2 DEF Fetching
    <3> QED BY <3>1, FetchUpdatedThrice
  <2> HIDE DEF j
  <2> QED BY <1>1, <2>1
<1>6. disk' = [coverage |-> disk'.coverage, buckets |-> disk.buckets] /\ disk' = disk
  BY <1>1 DEF CacheInv, CacheShapes
<1> HIDE DEF j
<1> QED BY <1>1, <1>4, <1>5, <1>6, JobStepKeepsInv

LEMMA ReadCoverageKeepsInv ==
  ASSUME CacheInv, NEW w \in Workers, ReadCoverage(w)
  PROVE  CacheInv'
<1> DEFINE seen == Held(disk.coverage) \cap Asked(w)
           found == [pc |-> "buckets", from |-> job[w].from, to |-> job[w].to,
                     seen |-> seen, stale |-> FALSE]
           j == IF seen = {} THEN Miss(w) ELSE found
<1>1. /\ job[w].pc = "coverage" /\ job' = [job EXCEPT ![w] = j]
      /\ disk' = IF disk.coverage = Bad THEN [disk EXCEPT !.coverage = Absent] ELSE disk
      /\ UNCHANGED <<market, torn, mishaps>>
  BY DEF ReadCoverage
<1>2. /\ job[w].from \in Instant /\ job[w].to \in Instant /\ Asked(w) \subseteq Instant
      /\ Held(disk.coverage) \subseteq Instant /\ CacheShapes
  BY <1>1, JobFields DEF CacheInv, CacheShapes
<1>3. /\ Miss(w) \in Jobs /\ Miss(w).pc = "fetch" /\ Miss(w).open \subseteq Miss(w).gaps
  BY <1>1, <1>2, AnswerIsJob DEF Miss
<1>4. /\ found \in Jobs /\ found.pc = "buckets" /\ found.seen = seen
  <2>1. found \in [pc : {"buckets"}, from : Instant, to : Instant, seen : SUBSET Instant,
                   stale : BOOLEAN]
    BY <1>2
  <2> QED BY <2>1 DEF Jobs
<1>5. Backed(seen)
  BY SmallerIsBacked DEF CacheInv
<1> HIDE DEF found, seen
<1>6. /\ j \in Jobs /\ (j.pc \in {"fetch", "page"} => j.open \subseteq j.gaps)
      /\ j.pc # "page" /\ (j.pc = "buckets" => Backed(j.seen))
  BY <1>3, <1>4, <1>5
<1>7. /\ disk' = [coverage |-> disk'.coverage, buckets |-> disk.buckets]
      /\ Held(disk'.coverage) \subseteq Held(disk.coverage)
  <2>1. CASE disk.coverage = Bad
    <3>1. disk' = [coverage |-> Absent, buckets |-> disk.buckets]
      BY <1>1, <1>2, <2>1 DEF CacheShapes
    <3> QED BY <3>1 DEF Held, Absent
  <2>2. CASE disk.coverage # Bad
    BY <1>1, <1>2, <2>2 DEF CacheShapes
  <2> QED BY <2>1, <2>2
<1> HIDE DEF j
<1> QED BY <1>1, <1>6, <1>7, JobStepKeepsInv

(* Everyone who has read the coverage learns that it is stale. *)
LEMMA StaleJobs ==
  ASSUME NEW jobs \in [Workers -> Jobs]
  PROVE  /\ Stale(jobs) \in [Workers -> Jobs]
         /\ \A v \in Workers :
              /\ Stale(jobs)[v].pc = jobs[v].pc
              /\ jobs[v].pc # "buckets" => Stale(jobs)[v] = jobs[v]
              /\ jobs[v].pc = "buckets" => Stale(jobs)[v].stale
<1> SUFFICES ASSUME NEW v \in Workers
             PROVE  /\ Stale(jobs)[v] \in Jobs /\ Stale(jobs)[v].pc = jobs[v].pc
                    /\ jobs[v].pc # "buckets" => Stale(jobs)[v] = jobs[v]
                    /\ jobs[v].pc = "buckets" => Stale(jobs)[v].stale
  BY DEF Stale
<1>1. CASE jobs[v].pc = "buckets"
  <2>1. jobs[v] \in [pc : {"buckets"}, from : Instant, to : Instant, seen : SUBSET Instant,
                     stale : BOOLEAN]
    BY <1>1 DEF Jobs
  <2>2. Stale(jobs)[v] = [jobs[v] EXCEPT !.stale = TRUE]
    BY <1>1 DEF Stale
  <2>3. /\ Stale(jobs)[v] \in [pc : {"buckets"}, from : Instant, to : Instant,
                               seen : SUBSET Instant, stale : BOOLEAN]
        /\ Stale(jobs)[v].stale
    BY <2>1, <2>2
  <2> QED BY <1>1, <2>3 DEF Jobs
<1>2. CASE jobs[v].pc # "buckets"
  BY <1>2 DEF Stale
<1> QED BY <1>1, <1>2

LEMMA ReadBucketsKeepsInv ==
  ASSUME CacheInv, NEW w \in Workers, ReadBuckets(w)
  PROVE  CacheInv'
<1> DEFINE needed == BucketsOf(job[w].seen)
           unusable == {b \in needed : disk.buckets[b].kind # "data"}
           found == At(UNION {Held(disk.buckets[b]) : b \in needed}, Asked(w))
           j == Answer(w, found, Asked(w) \ job[w].seen)
<1>1. /\ job[w].pc = "buckets" /\ UNCHANGED <<market, torn, mishaps>>
      /\ unusable = {} => job' = [job EXCEPT ![w] = j] /\ UNCHANGED disk
      /\ unusable # {} =>
           /\ job' = Stale([job EXCEPT ![w] = Miss(w)])
           /\ disk' = [coverage |-> Absent,
                       buckets |-> [disk.buckets EXCEPT ![Min(unusable)] = Absent]]
  BY DEF ReadBuckets
<1>2. /\ job[w].from \in Instant /\ job[w].to \in Instant /\ Asked(w) \subseteq Instant
      /\ job[w].seen \subseteq Instant /\ CacheShapes
  BY <1>1, JobFields DEF CacheInv
<1>3. found \in SUBSET market
  <2>1. \A b \in needed : b \in Bucket
    BY <1>2, BucketOfInstant DEF BucketsOf
  <2> HIDE DEF needed
  <2> QED BY <1>2, <2>1 DEF CacheShapes, At
<1> HIDE DEF found
<1>4. CASE unusable = {}
  <2>1. j \in Jobs /\ j.pc = "fetch" /\ j.open \subseteq j.gaps
    <3> DEFINE gaps == Asked(w) \ job[w].seen
    <3>1. gaps \in SUBSET Instant /\ job[w].pc \in {"coverage", "buckets"}
      BY <1>1, <1>2
    <3> HIDE DEF gaps
    <3>2. Answer(w, found, gaps) \in Jobs /\ Answer(w, found, gaps).pc = "fetch"
            /\ Answer(w, found, gaps).open \subseteq Answer(w, found, gaps).gaps
      BY <1>2, <1>3, <3>1, AnswerIsJob
    <3> QED BY <3>2 DEF gaps
  <2>2. disk' = [coverage |-> disk'.coverage, buckets |-> disk.buckets] /\ disk' = disk
    BY <1>1, <1>2, <1>4 DEF CacheShapes
  <2> HIDE DEF j
  <2> QED BY <1>1, <1>4, <2>1, <2>2, JobStepKeepsInv
<1>5. CASE unusable # {}
  <2> DEFINE jobs == [job EXCEPT ![w] = Miss(w)]
  <2>1. Miss(w) \in Jobs /\ Miss(w).pc = "fetch" /\ Miss(w).open \subseteq Miss(w).gaps
    BY <1>1, <1>2, AnswerIsJob DEF Miss
  <2>2. /\ jobs \in [Workers -> Jobs] /\ jobs[w] = Miss(w)
        /\ \A v \in Workers : v # w => jobs[v] = job[v]
    BY <1>2, <2>1 DEF CacheShapes
  <2> HIDE DEF jobs
  <2>3. job' = Stale(jobs)
    BY <1>1, <1>5 DEF jobs
  <2>4. /\ job' \in [Workers -> Jobs]
        /\ \A v \in Workers : /\ job'[v].pc = jobs[v].pc
                              /\ jobs[v].pc # "buckets" => job'[v] = jobs[v]
                              /\ jobs[v].pc = "buckets" => job'[v].stale
    BY <2>2, <2>3, StaleJobs
  <2>5. CursorIsInGap'
    BY <2>1, <2>2, <2>4 DEF CacheInv, CursorIsInGap
  <2>6. SeenIsBacked'
    BY <2>4 DEF SeenIsBacked
  <2>7. /\ disk' = [coverage |-> disk'.coverage, buckets |-> disk'.buckets]
        /\ disk'.coverage = Absent
        /\ disk'.buckets = [disk.buckets EXCEPT ![Min(unusable)] = Absent]
    <3> HIDE DEF unusable
    <3> QED BY <1>1, <1>5
  <2>8. Held(disk'.coverage) = {}
    BY <2>7 DEF Held, Absent
  <2>9. Backed(Held(disk.coverage))'
    BY <2>8 DEF Backed
  <2>10. \A b \in Bucket : disk'.buckets[b] = disk.buckets[b] \/ disk'.buckets[b] = Absent
    <3> HIDE DEF unusable
    <3> QED BY <1>2, <2>7 DEF CacheShapes
  <2>11. disk'.buckets = [b \in Bucket |-> disk'.buckets[b]]
    <3> HIDE DEF unusable
    <3> QED BY <1>2, <2>7 DEF CacheShapes
  <2>12. CacheShapes'
    <3>1. Held(Absent) = {} /\ Absent \in {Absent, Bad}
      BY DEF Held, Absent
    <3>2. Jobs' = Jobs
      BY <1>1 DEF Jobs
    <3> QED BY <1>1, <1>2, <2>4, <2>7, <2>8, <2>10, <2>11, <3>1, <3>2 DEF CacheShapes
  <2> QED BY <2>5, <2>6, <2>9, <2>12 DEF CacheInv
<1> QED BY <1>4, <1>5

LEMMA ClearAllKeepsInv ==
  ASSUME CacheInv, ClearAll
  PROVE  CacheInv'
<1>1. /\ disk' = EmptyDisk /\ torn' = {} /\ job' = Stale(job) /\ market' = market
  BY DEF ClearAll
<1>2. /\ job' \in [Workers -> Jobs]
      /\ \A v \in Workers : /\ job'[v].pc = job[v].pc
                            /\ job[v].pc # "buckets" => job'[v] = job[v]
                            /\ job[v].pc = "buckets" => job'[v].stale
  BY <1>1, StaleJobs DEF CacheInv, CacheShapes
<1>3. CursorIsInGap' /\ SeenIsBacked'
  BY <1>2 DEF CacheInv, CursorIsInGap, SeenIsBacked
<1>4. /\ Held(Absent) = {} /\ Absent \in {Absent, Bad}
  BY DEF Held, Absent
<1>5. /\ disk'.coverage = Absent /\ disk'.buckets = [b \in Bucket |-> Absent]
      /\ disk' = [coverage |-> disk'.coverage, buckets |-> disk'.buckets]
  BY <1>1 DEF EmptyDisk
<1>6. Jobs' = Jobs
  BY <1>1 DEF Jobs
<1>7. CacheShapes'
  <2>1. disk'.buckets = [b \in Bucket |-> disk'.buckets[b]]
    BY <1>5
  <2> QED BY <1>1, <1>2, <1>4, <1>5, <1>6, <2>1 DEF CacheInv, CacheShapes
<1>8. Backed(Held(disk.coverage))'
  BY <1>4, <1>5 DEF Backed
<1> QED BY <1>3, <1>7, <1>8 DEF CacheInv

LEMMA CorruptKeepsInv ==
  ASSUME CacheInv, Corrupt
  PROVE  CacheInv'
<1>1. /\ UNCHANGED <<market, job, torn>>
      /\ \/ disk' = [disk EXCEPT !.coverage = Bad]
         \/ \E b \in Bucket : disk' = [disk EXCEPT !.buckets[b] = Bad]
  BY DEF Corrupt
<1>2. Held(Bad) = {} /\ Bad \in {Absent, Bad}
  BY DEF Held, Bad
<1>3. /\ disk = [coverage |-> disk.coverage, buckets |-> disk.buckets]
      /\ disk.buckets = [b \in Bucket |-> disk.buckets[b]]
  BY DEF CacheInv, CacheShapes
<1>4. /\ disk' = [coverage |-> disk'.coverage, buckets |-> disk'.buckets]
      /\ disk'.buckets = [b \in Bucket |-> disk'.buckets[b]]
      /\ disk'.coverage \in {disk.coverage, Bad}
      /\ \A b \in Bucket : disk'.buckets[b] = disk.buckets[b] \/ disk'.buckets[b] = Bad
  <2>1. CASE disk' = [disk EXCEPT !.coverage = Bad]
    <3>1. disk' = [coverage |-> Bad, buckets |-> disk.buckets]
      BY <1>3, <2>1
    <3> QED BY <1>3, <3>1
  <2>2. ASSUME NEW b \in Bucket, disk' = [disk EXCEPT !.buckets[b] = Bad]
        PROVE  <1>4!:
    <3>1. disk' = [coverage |-> disk.coverage, buckets |-> [disk.buckets EXCEPT ![b] = Bad]]
      BY <1>3, <2>2
    <3> QED BY <1>3, <3>1
  <2> QED BY <1>1, <2>1, <2>2
<1>5. Held(disk'.coverage) \subseteq Held(disk.coverage) /\ Jobs' = Jobs
  BY <1>1, <1>2, <1>4 DEF Jobs
<1>6. CacheShapes'
  BY <1>1, <1>2, <1>4, <1>5 DEF CacheInv, CacheShapes
<1>7. CursorIsInGap'
  BY <1>1 DEF CacheInv, CursorIsInGap
<1>8. Backed(Held(disk.coverage))'
  <2>1. PICK I : I = Held(disk'.coverage)
    OBVIOUS
  <2>2. I \in SUBSET Instant /\ Backed(I)
    BY <1>5, <2>1, SmallerIsBacked DEF CacheInv, CacheShapes
  <2>3. Backed(I)'
    BY <1>1, <1>4, <2>2, StaysBacked
  <2> QED BY <2>1, <2>3
<1>9. SeenIsBacked'
  <2> SUFFICES ASSUME NEW v \in Workers, job[v].pc = "buckets", ~job[v].stale
               PROVE  Backed(job[v].seen)'
    BY <1>1 DEF SeenIsBacked
  <2>1. PICK I : I = job[v].seen
    OBVIOUS
  <2>2. I \in SUBSET Instant /\ Backed(I)
    BY <2>1, JobFields DEF CacheInv, SeenIsBacked
  <2>3. Backed(I)'
    BY <1>1, <1>4, <2>2, StaysBacked
  <2> QED BY <1>1, <2>1, <2>3
<1> QED BY <1>6, <1>7, <1>8, <1>9 DEF CacheInv

LEMMA PageKeepsInv ==
  ASSUME CacheInv, NEW w \in Workers, Page(w)
  PROVE  CacheInv'
<1> DEFINE c == job[w].cursor
           end == GapEnd(w)
           page == PageFrom(c)
           last == Max({r.at : r \in page})
           upto == Min({last, end})
           kept == {r \in page : r.at <= end} \ job[w].got
           covered == c .. upto
           rest == {r \in market : r.at = last /\ r \notin page}
           dropped == {r \in page \cap job[w].got : r \notin Held(disk.buckets[BucketFor(r.at)])}
           unreadable == {b \in BucketsOf(covered) : disk.buckets[b] = Bad}
           progress == last > c
           left == {t \in job[w].open : t > end}
           j == IF ~progress /\ last + 1 >= end THEN Idle
                ELSE IF progress /\ last >= end
                     THEN [job[w] EXCEPT !.pc = "fetch", !.cursor = 0, !.got = {}, !.open = left]
                     ELSE [job[w] EXCEPT !.got = job[w].got \cup kept,
                                         !.cursor = IF progress THEN last ELSE last + 1]
<1>1. /\ job[w].pc = "page" /\ market' = market
      /\ page = {} => job' = [job EXCEPT ![w] = Idle] /\ UNCHANGED <<disk, torn>>
      /\ page # {} => /\ job' = [job EXCEPT ![w] = j]
                      /\ kept = {} => UNCHANGED <<disk, torn>>
                      /\ kept # {} => PageStep(w)
  BY DEF Page, PageStep
<1>2. CacheShapes /\ CursorIsInGap /\ Idle \in Jobs /\ Idle.pc = "idle"
  BY DEF CacheInv, Idle, Jobs
<1>3. CASE page = {}
  <2>1. disk' = [coverage |-> disk'.coverage, buckets |-> disk.buckets] /\ disk' = disk
    BY <1>1, <1>2, <1>3 DEF CacheShapes
  <2> QED BY <1>1, <1>2, <1>3, <2>1, JobStepKeepsInv
<1>4. CASE page # {}
  <2>1. /\ c \in Instant /\ end \in Instant /\ c <= end /\ c .. end \subseteq job[w].gaps
        /\ job[w].gaps \subseteq Instant
    BY <1>1, <1>2, GapEndIsInGap
  <2>2. /\ last \in Instant /\ c <= last /\ \A p \in page : p \in market
    BY <1>2, <1>4, <2>1, PageIsInOrder
  <2>3. /\ Fetching(job[w]) /\ job[w].from \in Instant /\ job[w].to \in Instant
        /\ job[w].got \subseteq market /\ job[w].open \subseteq Instant
        /\ job[w].open \subseteq job[w].gaps /\ 0 \in Instant
    BY <1>1, <1>2, <2>1, JobFields, CacheAssumption DEF CursorIsInGap, Fetching, Instant
  <2>4. \A t \in Instant : t \in Nat
    BY CacheAssumption DEF Instant
  <2>5. kept \subseteq market /\ left \subseteq job[w].open
    BY <2>2
  <2> HIDE DEF c, end, page, last, kept, left
  <2>6. /\ j \in Jobs /\ (j.pc \in {"fetch", "page"} => j.open \subseteq j.gaps)
        /\ (j.pc = "page" => j.cursor \in j.gaps) /\ j.pc # "buckets"
    <3>1. CASE ~progress /\ last + 1 >= end
      BY <1>2, <3>1
    <3>2. CASE ~(~progress /\ last + 1 >= end) /\ progress /\ last >= end
      <4>1. j = [pc |-> "fetch", from |-> job[w].from, to |-> job[w].to, got |-> {},
                 gaps |-> job[w].gaps, open |-> left, cursor |-> 0]
        <5>1. j = [job[w] EXCEPT !.pc = "fetch", !.cursor = 0, !.got = {}, !.open = left]
          BY <3>2
        <5>2. Fetching(job[w])
          BY <2>3
        <5> HIDE DEF j
        <5>3. [job[w] EXCEPT !.pc = "fetch", !.cursor = 0, !.got = {}, !.open = left] =
                [pc |-> "fetch", from |-> job[w].from, to |-> job[w].to, got |-> {},
                 gaps |-> job[w].gaps, open |-> left, cursor |-> 0]
          BY <5>2, GapIsClosed
        <5> QED BY <5>1, <5>3, Zenon
      <4> HIDE DEF j
      <4>2. j \in [pc : {"fetch", "page"}, from : Instant, to : Instant, got : SUBSET market,
                   gaps : SUBSET Instant, open : SUBSET Instant, cursor : Instant]
        BY <2>1, <2>3, <2>5, <4>1
      <4> QED BY <2>3, <2>5, <4>1, <4>2 DEF Jobs
    <3>3. CASE ~(~progress /\ last + 1 >= end) /\ ~(progress /\ last >= end)
      <4> DEFINE next == IF progress THEN last ELSE last + 1
      <4>1. j = [pc |-> job[w].pc, from |-> job[w].from, to |-> job[w].to,
                 got |-> job[w].got \cup kept, gaps |-> job[w].gaps, open |-> job[w].open,
                 cursor |-> next]
        BY <2>3, <3>3, FetchUpdatedTwice
      <4>2. next \in c .. end
        BY <2>1, <2>2, <2>4, <3>3
      <4> HIDE DEF j, next
      <4>3. j \in [pc : {"fetch", "page"}, from : Instant, to : Instant, got : SUBSET market,
                   gaps : SUBSET Instant, open : SUBSET Instant, cursor : Instant]
        BY <1>1, <2>1, <2>3, <2>5, <4>1, <4>2
      <4> QED BY <1>1, <2>1, <2>3, <4>1, <4>2, <4>3 DEF Jobs
    <3> QED BY <3>1, <3>2, <3>3
  <2>7. job' = [job EXCEPT ![w] = j]
    BY <1>1, <1>4
  <2> HIDE DEF j
  <2>8. CASE kept = {}
    <3>1. disk' = [coverage |-> disk'.coverage, buckets |-> disk.buckets] /\ disk' = disk
      BY <1>1, <1>2, <1>4, <2>8 DEF CacheShapes
    <3> QED BY <1>1, <1>4, <2>6, <2>7, <2>8, <3>1, JobStepKeepsInv
  <2>9. CASE kept # {}
    <3>1. PageStep(w)
      BY <1>1, <1>4, <2>9
    <3>2. /\ (job \in [Workers -> Jobs])' /\ CursorIsInGap'
          /\ job'[w] = j /\ \A v \in Workers : v # w => job'[v] = job[v]
      BY <1>1, <1>2, <2>6, <2>7, OneJobChanges
    <3>3. PICK C : C = Covers(w)
      OBVIOUS
    <3>4. \A I \in SUBSET Instant : Backed(I) => C \subseteq Instant /\ Backed(I \cup C)'
      BY <1>1, <1>2, <3>1, <3>3, PageStepKeepsBacked
    <3>5. \A I \in SUBSET Instant : Backed(I) => Backed(I)'
      BY <3>4 DEF Backed
    <3>6. C \subseteq Instant
      BY <3>4 DEF CacheInv, CacheShapes
    <3>7. /\ disk' = [coverage |-> disk'.coverage, buckets |-> disk'.buckets]
          /\ disk'.coverage = Blob(Held(disk.coverage) \cup C)
          /\ disk'.buckets = [b \in Bucket |-> disk'.buckets[b]]
          /\ \A b \in Bucket : \/ disk'.buckets[b] = disk.buckets[b]
                               \/ disk'.buckets[b] =
                                    Blob(Held(disk.buckets[b]) \cup {k \in kept : BucketFor(k.at) = b})
      <4>1. disk' = Stored(kept, C)
        BY <3>1, <3>3 DEF PageStep, Covers, kept, page, c, end
      <4> QED BY <4>1 DEF Stored
    <3>8. Held(disk'.coverage) = Held(disk.coverage) \cup C
      BY <3>7, BlobHas DEF Held
    <3>9. CacheShapes'
      <4>1. Jobs' = Jobs
        BY <1>1 DEF Jobs
      <4>2. ASSUME NEW b \in Bucket
            PROVE  /\ disk'.buckets[b].kind = "data" \/ disk'.buckets[b] \in {Absent, Bad}
                   /\ Held(disk'.buckets[b]) \subseteq market
        <5>1. CASE disk'.buckets[b] = disk.buckets[b]
          BY <1>2, <5>1 DEF CacheShapes
        <5>2. CASE disk'.buckets[b] =
                     Blob(Held(disk.buckets[b]) \cup {k \in kept : BucketFor(k.at) = b})
          <6>1. /\ disk'.buckets[b].kind = "data"
                /\ disk'.buckets[b].set = Held(disk.buckets[b]) \cup {k \in kept : BucketFor(k.at) = b}
            BY <5>2, BlobHas
          <6> QED BY <1>2, <2>5, <6>1 DEF CacheShapes, Held
        <5> QED BY <3>7, <5>1, <5>2
      <4> QED BY <1>1, <1>2, <3>2, <3>6, <3>7, <3>8, <4>1, <4>2 DEF CacheShapes
    <3>10. Backed(Held(disk.coverage))'
      <4>1. PICK I : I = Held(disk.coverage)
        OBVIOUS
      <4>2. I \in SUBSET Instant /\ Backed(I)
        BY <4>1 DEF CacheInv, CacheShapes
      <4>3. Backed(I \cup C)'
        BY <3>4, <4>2
      <4> QED BY <3>8, <4>1, <4>3
    <3>11. SeenIsBacked'
      <4> SUFFICES ASSUME NEW v \in Workers, job'[v].pc = "buckets", ~job'[v].stale
                   PROVE  Backed(job[v].seen)'
        BY DEF SeenIsBacked
      <4>1. v # w
        BY <2>6, <3>2
      <4>2. PICK I : I = job[v].seen
        OBVIOUS
      <4>3. I \in SUBSET Instant /\ Backed(I)
        BY <1>2, <3>2, <4>1, <4>2, JobFields DEF CacheInv, SeenIsBacked
      <4>4. Backed(I)'
        BY <3>5, <4>3
      <4> QED BY <3>2, <4>1, <4>2, <4>4
    <3> QED BY <3>2, <3>9, <3>10, <3>11 DEF CacheInv
  <2> QED BY <2>8, <2>9
<1> QED BY <1>3, <1>4

--------------------------------------------------------------------------------

LEMMA CacheInvInitially == CacheInit => CacheInv
<1> SUFFICES ASSUME CacheInit PROVE CacheInv
  OBVIOUS
<1>1. /\ market \in TradeSets /\ job = [w \in Workers |-> Idle]
      /\ disk.coverage = Absent /\ disk.buckets = [b \in Bucket |-> Absent]
      /\ disk = [coverage |-> disk.coverage, buckets |-> disk.buckets]
  BY DEF CacheInit, EmptyDisk
<1>2. Held(Absent) = {} /\ Absent \in {Absent, Bad} /\ Idle \in Jobs /\ Idle.pc = "idle"
  BY DEF Held, Absent, Idle, Jobs
<1>3. disk.buckets = [b \in Bucket |-> disk.buckets[b]]
  BY <1>1
<1> QED BY <1>1, <1>2, <1>3
        DEF CacheInv, CacheShapes, CursorIsInGap, Backed, SeenIsBacked

LEMMA CacheInvIsInductive == CacheInv /\ [CacheNext]_cacheVars => CacheInv'
<1> SUFFICES ASSUME CacheInv, [CacheNext]_cacheVars PROVE CacheInv'
  OBVIOUS
<1>1. CASE \E w \in Workers : Begin(w)
  BY <1>1, BeginKeepsInv
<1>2. CASE \E w \in Workers : ReadCoverage(w)
  BY <1>2, ReadCoverageKeepsInv
<1>3. CASE \E w \in Workers : ReadBuckets(w)
  BY <1>3, ReadBucketsKeepsInv
<1>4. CASE \E w \in Workers : NextGap(w)
  BY <1>4, NextGapKeepsInv
<1>5. CASE \E w \in Workers : Fetched(w) \/ Stop(w)
  BY <1>5, StopKeepsInv
<1>6. CASE \E w \in Workers : Page(w)
  BY <1>6, PageKeepsInv
<1>7. CASE ClearAll
  BY <1>7, ClearAllKeepsInv
<1>8. CASE Corrupt
  BY <1>8, CorruptKeepsInv
<1>9. CASE UNCHANGED cacheVars
  BY <1>9 DEF cacheVars, CacheInv, CacheShapes, Jobs, CursorIsInGap, Backed, SeenIsBacked
<1> QED BY <1>1, <1>2, <1>3, <1>4, <1>5, <1>6, <1>7, <1>8, <1>9 DEF CacheNext

LEMMA CacheInvAlways == CacheSpec => []CacheInv
BY CacheInvInitially, CacheInvIsInductive, PTL DEF CacheSpec

(* What read_records will find for an instant the coverage holds: its trades, or a bucket it *)
(* rejects.  Torn trades are excepted.                                                       *)
THEOREM CoverageCorrect == CacheSpec => []CoverageIsBacked
<1>1. CacheInv => CoverageIsBacked
  BY DEF CacheInv, Backed, CoverageIsBacked
<1> QED BY <1>1, CacheInvAlways, PTL

(* A worker's answer from the cache is whole, although read_records takes two transactions. *)
AnswerStep ==
    \A w \in Workers : job[w].pc = "buckets" /\ job'[w].pc = "fetch" /\ ~job[w].stale =>
       At(market, Asked(w) \ job'[w].gaps) \subseteq job'[w].got \cup torn

LEMMA StepsAnswerWholly ==
  ASSUME CacheInv, CacheNext
  PROVE  AnswerStep
<1> SUFFICES ASSUME NEW w \in Workers, job[w].pc = "buckets", job'[w].pc = "fetch", ~job[w].stale
             PROVE  At(market, Asked(w) \ job'[w].gaps) \subseteq job'[w].got \cup torn
  BY DEF AnswerStep
<1>1. job \in [Workers -> Jobs] /\ CacheShapes
  BY DEF CacheInv, CacheShapes
<1>2. ASSUME NEW v \in Workers, NEW j, job' = [job EXCEPT ![v] = j], v # w \/ j.pc # "fetch"
      PROVE  FALSE
  BY <1>1, <1>2
<1>3. ASSUME NEW v \in Workers, Begin(v) \/ ReadCoverage(v) \/ NextGap(v) \/ Fetched(v) \/ Page(v)
      PROVE  FALSE
  <2>1. v # w
    BY <1>3 DEF Begin, ReadCoverage, NextGap, Fetched, Page, Idle
  <2> QED BY <1>1, <1>3, <2>1 DEF Begin, ReadCoverage, NextGap, Fetched, Page
<1>4. ASSUME NEW v \in Workers, Stop(v) PROVE FALSE
  BY <1>1, <1>4 DEF Stop, Idle
<1>5. CASE ClearAll \/ Corrupt
  <2>1. Stale(job)[w].pc = job[w].pc
    BY <1>1, StaleJobs
  <2> QED BY <1>5, <2>1 DEF ClearAll, Corrupt
<1>6. ASSUME NEW v \in Workers, ReadBuckets(v), v # w PROVE FALSE
  <2>1. CASE \E j : job' = [job EXCEPT ![v] = j]
    BY <1>1, <1>6, <2>1
  <2>2. CASE job' = Stale([job EXCEPT ![v] = Miss(v)])
    <3>1. job'[w].pc = [job EXCEPT ![v] = Miss(v)][w].pc
      BY <2>2, <1>1 DEF Stale
    <3> QED BY <1>1, <1>6, <3>1
  <2> QED BY <1>6, <2>1, <2>2 DEF ReadBuckets
<1>7. CASE ReadBuckets(w)
  <2> DEFINE needed == BucketsOf(job[w].seen)
             unusable == {b \in needed : disk.buckets[b].kind # "data"}
             found == At(UNION {Held(disk.buckets[b]) : b \in needed}, Asked(w))
             gaps == Asked(w) \ job[w].seen
  <2>1. CASE unusable = {}
    <3>1. job' = [job EXCEPT ![w] = Answer(w, found, gaps)]
      BY <1>7, <2>1 DEF ReadBuckets
    <3>2. job'[w].got = found /\ job'[w].gaps = gaps
      <4> HIDE DEF found, gaps
      <4> QED BY <1>1, <3>1 DEF Answer
    <3>3. ASSUME NEW r \in market \ torn, r.at \in Asked(w), r.at \in job[w].seen PROVE r \in found
      <4>1. Backed(job[w].seen)
        BY DEF CacheInv, SeenIsBacked
      <4>2. BucketFor(r.at) \in needed
        BY <3>3 DEF BucketsOf
      <4>3. disk.buckets[BucketFor(r.at)].kind = "data"
        BY <2>1, <4>2
      <4>4. r \in Held(disk.buckets[BucketFor(r.at)])
        BY <3>3, <4>1, <4>3 DEF Backed, Held
      <4> HIDE DEF needed
      <4> QED BY <3>3, <4>2, <4>4 DEF At
    <3> QED BY <3>2, <3>3 DEF At
  <2>2. CASE unusable # {}
    <3> DEFINE jobs == [job EXCEPT ![w] = Miss(w)]
    <3>1. job' = Stale(jobs)
      BY <1>7, <2>2 DEF ReadBuckets
    <3>2. jobs[w] = Miss(w) /\ Miss(w).pc = "fetch" /\ Miss(w).gaps = Asked(w)
      BY <1>1 DEF Miss, Answer
    <3> HIDE DEF jobs
    <3>3. job'[w].gaps = Asked(w)
      BY <3>1, <3>2 DEF Stale
    <3> QED BY <3>3 DEF At
  <2> QED BY <2>1, <2>2
<1> QED BY <1>3, <1>4, <1>5, <1>6, <1>7 DEF CacheNext

THEOREM AnswersCorrect == CacheSpec => AnswerIsWhole
<1>1. CacheInv /\ [CacheNext]_cacheVars => [AnswerStep]_cacheVars
  BY StepsAnswerWholly
<1>2. CacheSpec => [][AnswerStep]_cacheVars
  BY <1>1, CacheInvAlways, PTL DEF CacheSpec
<1> QED BY <1>2 DEF AnswerIsWhole, AnswerStep

--------------------------------------------------------------------------------
(* The types of the cache, beyond what the invariant above needs of them. *)

Sorted(buckets) == \A b \in Bucket : \A r \in Held(buckets[b]) : BucketFor(r.at) = b

CacheTypes == Sorted(disk.buckets) /\ torn \subseteq market /\ mishaps \in 0..MaxMishaps

(* Buckets stay sorted when some are dropped or damaged, or trades are stored. *)
LEMMA StaysSorted ==
  ASSUME NEW old, Sorted(old), NEW new,
         \A b \in Bucket : new[b] = old[b] \/ new[b] \in {Absent, Bad}
  PROVE  Sorted(new)
BY DEF Sorted, Held, Absent, Bad

LEMMA StoredIsSorted ==
  ASSUME NEW trades, NEW instants, Sorted(disk.buckets)
  PROVE  Sorted(Stored(trades, instants).buckets)
<1> DEFINE new == Stored(trades, instants).buckets
           mine(b) == {r \in trades : BucketFor(r.at) = b}
<1> SUFFICES ASSUME NEW b \in Bucket, NEW r \in Held(new[b]) PROVE BucketFor(r.at) = b
  BY DEF Sorted
<1>1. new[b] = Blob(Held(disk.buckets[b]) \cup mine(b)) \/ new[b] = disk.buckets[b]
  BY DEF Stored
<1> HIDE DEF new
<1>2. CASE new[b] = Blob(Held(disk.buckets[b]) \cup mine(b))
  <2>1. Held(new[b]) = Held(disk.buckets[b]) \cup mine(b)
    <3> HIDE DEF mine
    <3> QED BY <1>2, BlobHas DEF Held
  <2> QED BY <2>1 DEF Sorted
<1>3. CASE new[b] = disk.buckets[b]
  BY <1>3 DEF Sorted
<1> QED BY <1>1, <1>2, <1>3

LEMMA PageKeepsTypes ==
  ASSUME CacheInv, CacheTypes, NEW w \in Workers, Page(w)
  PROVE  CacheTypes'
<1>1. market' = market /\ mishaps' = mishaps /\ (UNCHANGED <<disk, torn>> \/ PageStep(w))
  BY DEF Page, PageStep
<1>2. CASE UNCHANGED <<disk, torn>>
  BY <1>1, <1>2 DEF CacheTypes
<1>3. CASE PageStep(w)
  <2> DEFINE page == PageFrom(job[w].cursor)
             last == Max({r.at : r \in page})
             kept == {r \in page : r.at <= GapEnd(w)} \ job[w].got
             rest == {r \in market : r.at = last /\ r \notin page}
             dropped == {r \in page \cap job[w].got : r \notin Held(disk.buckets[BucketFor(r.at)])}
  <2>1. PICK covered, unreadable :
          /\ disk' = Stored(kept, covered)
          /\ torn' = (torn \cup At(rest \cup dropped, covered)
                        \cup {r \in market : BucketFor(r.at) \in unreadable}) \ kept
    BY <1>3 DEF PageStep
  <2>2. page \subseteq market
    BY DEF PageFrom
  <2>3. rest \cup dropped \subseteq market
    BY <2>2
  <2> HIDE DEF kept, rest, dropped
  <2>4. torn' \subseteq market
    BY <2>1, <2>3 DEF CacheTypes, At
  <2>5. Sorted(disk'.buckets)
    BY <2>1, StoredIsSorted DEF CacheTypes
  <2> QED BY <1>1, <2>4, <2>5 DEF CacheTypes
<1> QED BY <1>1, <1>2, <1>3

LEMMA CacheTypesStep ==
  ASSUME CacheInv, CacheTypes, [CacheNext]_cacheVars
  PROVE  CacheTypes'
<1>0. /\ disk = [coverage |-> disk.coverage, buckets |-> disk.buckets]
      /\ disk.buckets = [b \in Bucket |-> disk.buckets[b]]
  BY DEF CacheInv, CacheShapes
<1>1. CASE \E w \in Workers : Begin(w) \/ NextGap(w) \/ Fetched(w) \/ Stop(w)
  BY <1>1 DEF Begin, NextGap, Fetched, Stop, CacheTypes
<1>2. ASSUME NEW w \in Workers, ReadCoverage(w) PROVE CacheTypes'
  <2>1. disk'.buckets = disk.buckets
    BY <1>0, <1>2 DEF ReadCoverage
  <2>2. UNCHANGED <<market, torn, mishaps>>
    BY <1>2 DEF ReadCoverage
  <2> QED BY <2>1, <2>2 DEF CacheTypes
<1>3. ASSUME NEW w \in Workers, ReadBuckets(w) PROVE CacheTypes'
  <2>1. PICK b : disk' = disk \/ disk' = [coverage |-> Absent, buckets |-> [disk.buckets EXCEPT ![b] = Absent]]
    BY <1>3 DEF ReadBuckets
  <2>2. UNCHANGED <<market, torn, mishaps>>
    BY <1>3 DEF ReadBuckets
  <2>3. \A a \in Bucket : disk'.buckets[a] = disk.buckets[a] \/ disk'.buckets[a] = Absent
    BY <1>0, <2>1
  <2>4. Sorted(disk'.buckets)
    BY <2>3, StaysSorted DEF CacheTypes
  <2> QED BY <2>2, <2>4 DEF CacheTypes
<1>4. ASSUME NEW w \in Workers, Page(w) PROVE CacheTypes'
  BY <1>4, PageKeepsTypes
<1>5. ASSUME ClearAll PROVE CacheTypes'
  <2>1. \A b \in Bucket : disk'.buckets[b] = Absent
    BY <1>5 DEF ClearAll, EmptyDisk
  <2>2. Sorted(disk'.buckets)
    BY <2>1, StaysSorted DEF CacheTypes
  <2>3. torn' = {} /\ mishaps' \in 0..MaxMishaps
    BY <1>5, CacheAssumption DEF ClearAll, Mishap, CacheTypes
  <2> QED BY <2>2, <2>3 DEF CacheTypes
<1>6. ASSUME Corrupt PROVE CacheTypes'
  <2>1. \A b \in Bucket : disk'.buckets[b] = disk.buckets[b] \/ disk'.buckets[b] = Bad
    <3>1. CASE disk' = [disk EXCEPT !.coverage = Bad]
      BY <1>0, <3>1
    <3>2. CASE \E b \in Bucket : disk' = [disk EXCEPT !.buckets[b] = Bad]
      <4>1. PICK b \in Bucket : disk' = [disk EXCEPT !.buckets[b] = Bad]
        BY <3>2
      <4>2. disk'.buckets = [disk.buckets EXCEPT ![b] = Bad]
        BY <1>0, <4>1
      <4> QED BY <1>0, <4>2
    <3> QED BY <1>6, <3>1, <3>2 DEF Corrupt
  <2>2. Sorted(disk'.buckets)
    BY <2>1, StaysSorted DEF CacheTypes
  <2>3. UNCHANGED <<market, torn>> /\ mishaps' \in 0..MaxMishaps
    BY <1>6, CacheAssumption DEF Corrupt, Mishap, CacheTypes
  <2> QED BY <2>2, <2>3 DEF CacheTypes
<1>7. CASE UNCHANGED cacheVars
  BY <1>7 DEF cacheVars, CacheTypes
<1> QED BY <1>1, <1>2, <1>3, <1>4, <1>5, <1>6, <1>7 DEF CacheNext

LEMMA CacheTypesInitially == CacheInit => CacheTypes
<1> SUFFICES ASSUME CacheInit PROVE CacheTypes
  OBVIOUS
<1>1. torn = {} /\ mishaps = 0 /\ \A b \in Bucket : disk.buckets[b] = Absent
  BY DEF CacheInit, EmptyDisk
<1> QED BY <1>1, CacheAssumption DEF CacheTypes, Sorted, Held, Absent

LEMMA CacheTyped == CacheInv /\ CacheTypes => CacheTypeOK
<1> SUFFICES ASSUME CacheInv, CacheTypes PROVE CacheTypeOK
  OBVIOUS
<1>1. \A w \in Workers : job[w].pc \in {"idle", "coverage", "buckets", "fetch", "page"}
  BY DEF CacheInv, CacheShapes, Jobs
<1> QED BY <1>1 DEF CacheInv, CacheShapes, CacheTypes, Sorted, CacheTypeOK

(* Whatever is stored, damaged and cleared, a bucket has only trades of the exchange, and only *)
(* those of its own instants (bucket_start), and the coverage only instants of the market.     *)
THEOREM CacheTypeCorrect == CacheSpec => []CacheTypeOK
<1>1. CacheInit => CacheInv /\ CacheTypes
  BY CacheInvInitially, CacheTypesInitially
<1>2. CacheInv /\ CacheTypes /\ [CacheNext]_cacheVars => CacheInv' /\ CacheTypes'
  BY CacheInvIsInductive, CacheTypesStep
<1> QED BY <1>1, <1>2, CacheTyped, PTL DEF CacheSpec
================================================================================
