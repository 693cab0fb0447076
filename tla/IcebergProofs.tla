------------------------------ MODULE IcebergProofs ------------------------------
(***************************************************************************)
(* Proofs about the iceberg detector and what feeds it (IcebergFeed).      *)
(*                                                                         *)
(* Good is what holds of a detector, its buffer and the channels behind    *)
(* it.  What the detector does keeps Good one event at a time (first       *)
(* half); what the market, the sockets and the registry do keeps it too    *)
(* (second half).  Two ideas carry the proof.  A ledger, which the model   *)
(* does not have, says what had been executed at every trade id: a count   *)
(* is right when it is below the ledger's at the last id seen, so a trade  *)
(* delivered twice, or late, cannot be counted twice.  And the deltas on   *)
(* their way are linked: each names every level that changed since one     *)
(* before it, so the levels are right when the last delta is processed.    *)
(*                                                                         *)
(* The last part proves that what is shown as refilled or hidden is        *)
(* explained. Its third idea is a timeline: the book, and what had been    *)
(* executed and added at each level, at every time. A level stands for the *)
(* book of some time, and what is pending at it was executed since, or was *)
(* late when it was taken; deltas are taken in their order, so no level    *)
(* goes back in time.                                                      *)
(***************************************************************************)
EXTENDS IcebergFeed, NatSets, FiniteSetTheorems, FunctionTheorems

--------------------------------------------------------------------------------
(* Sequences. *)

(* A sequence is determined by its length and its elements. *)
LEMMA SameSequence ==
  ASSUME NEW S, NEW s \in Seq(S), NEW t \in Seq(S), Len(s) = Len(t), \A i \in 1..Len(t) : s[i] = t[i]
  PROVE  s = t
OBVIOUS

(* A sequence is one of its own elements.                                    *)
LEMMA InOwnRange ==
  ASSUME NEW S, NEW s \in Seq(S)
  PROVE  s \in Seq(Range(s)) /\ Range(s) = {s[i] : i \in 1..Len(s)}
BY DEF Range

LEMMA NewestOf ==
  ASSUME NEW S, NEW s \in Seq(S), NEW n \in Nat
  PROVE  /\ Newest(s, n) \in Seq(S) /\ Range(Newest(s, n)) \subseteq Range(s)
         /\ n # 0 /\ s # <<>> => Newest(s, n) # <<>> /\ Last(Newest(s, n)) = Last(s)
<1>1. CASE Len(s) > n
  <2> DEFINE t == SubSeq(s, Len(s) - n + 1, Len(s))
  <2>1. /\ t \in Seq(S) /\ Len(t) = n
        /\ \A i \in 1..Len(t) : t[i] = s[Len(s) - n + i] /\ Len(s) - n + i \in 1..Len(s)
    <3>1. Len(s) \in Nat /\ Len(s) - n + 1 \in 1..Len(s) + 1 /\ Len(s) - (Len(s) - n + 1) + 1 = n
      BY <1>1
    <3>2. t \in Seq(S)
      BY <3>1
    <3>3. Len(t) = n /\ \A i \in 1..n : t[i] = s[(Len(s) - n + 1) + i - 1]
      BY <1>1, <3>1
    <3>4. \A i \in 1..n : (Len(s) - n + 1) + i - 1 = Len(s) - n + i /\ Len(s) - n + i \in 1..Len(s)
      BY <1>1, <3>1
    <3> HIDE DEF t
    <3> QED BY <3>2, <3>3, <3>4
  <2>2. Newest(s, n) = t
    BY <1>1 DEF Newest
  <2> HIDE DEF t
  <2>3. Range(t) \subseteq Range(s)
    <3>1. Range(t) = {t[i] : i \in 1..Len(t)}
      BY <2>1, InOwnRange
    <3>2. \A j \in 1..Len(s) : s[j] \in Range(s)
      BY DEF Range
    <3> QED BY <2>1, <3>1, <3>2
  <2>4. n # 0 => t # <<>> /\ Last(t) = Last(s)
    BY <2>1 DEF Last
  <2> QED BY <2>1, <2>2, <2>3, <2>4
<1>2. CASE Len(s) <= n
  BY <1>2 DEF Newest
<1> QED BY <1>1, <1>2

(* Last elements of a sequence, from a position on. *)
LEMMA SuffixOf ==
  ASSUME NEW S, NEW s \in Seq(S), NEW m \in 1..Len(s) + 1
  PROVE  LET t == SubSeq(s, m, Len(s))
         IN /\ t \in Seq(S) /\ Len(t) = Len(s) - m + 1 /\ Range(t) \subseteq Range(s)
            /\ \A i \in 1..Len(t) : t[i] = s[m + i - 1] /\ m + i - 1 \in 1..Len(s)
<1> DEFINE t == SubSeq(s, m, Len(s))
<1>1. t \in Seq(S) /\ Len(t) = Len(s) - m + 1
  OBVIOUS
<1>2. \A i \in 1..Len(t) : t[i] = s[m + i - 1] /\ m + i - 1 \in 1..Len(s)
  OBVIOUS
<1> HIDE DEF t
<1>3. Range(t) \subseteq Range(s)
  BY <1>1, <1>2 DEF Range
<1> QED BY <1>1, <1>2, <1>3 DEF t

(* FromFirst keeps an end of the sequence.                                   *)
LEMMA FromFirstOf ==
  ASSUME NEW S, NEW s \in Seq(S), NEW keep, keep \subseteq 1..Len(s)
  PROVE  FromFirst(s, keep) \in Seq(S) /\ Range(FromFirst(s, keep)) \subseteq Range(s)
<1>1. CASE keep = {}
  BY <1>1 DEF FromFirst, Range
<1>2. CASE keep # {}
  <2> DEFINE m == Min(keep)
  <2>1. keep \subseteq Nat
    OBVIOUS
  <2>2. PICK x \in keep : \A y \in keep : x <= y
    BY <1>2, <2>1, LeastNat
  <2>3. m \in keep
    BY <2>2 DEF Min
  <2>4. FromFirst(s, keep) = SubSeq(s, m, Len(s))
    BY <1>2 DEF FromFirst
  <2> HIDE DEF m
  <2>5. m \in 1..Len(s) + 1
    BY <2>3
  <2> QED BY <2>4, <2>5, SuffixOf
<1> QED BY <1>1, <1>2

(* The elements of a finite set, in some order. *)
LEMMA SetToSeqOf ==
  ASSUME NEW S, IsFiniteSet(S)
  PROVE  SetToSeq(S) \in Seq(S) /\ Range(SetToSeq(S)) \subseteq S
<1> DEFINE n == Cardinality(S)
<1>1. n \in Nat /\ ExistsBijection(1..n, S)
  BY FS_CardinalityType
<1>2. PICK f \in [1..n -> S] : IsInjective(f)
  BY <1>1 DEF ExistsBijection, Bijection, Injection, IsInjective
<1>3. SetToSeq(S) \in [1..n -> S]
  BY <1>2 DEF SetToSeq
<1> HIDE DEF n
<1> QED BY <1>1, <1>3 DEF Range

(* The head goes, the rest moves up.                                         *)
LEMMA TailOf ==
  ASSUME NEW s, s \in Seq(Range(s)), s # <<>>
  PROVE  /\ Tail(s) \in Seq(Range(Tail(s))) /\ Len(Tail(s)) = Len(s) - 1
         /\ \A i \in 1..Len(Tail(s)) : Tail(s)[i] = s[i + 1]
         /\ Head(s) \in Range(s) /\ Range(Tail(s)) \subseteq Range(s)
         /\ Range(s) \subseteq Range(Tail(s)) \cup {Head(s)}
<1> DEFINE t == Tail(s)
<1>1. /\ t \in Seq(Range(s)) /\ Len(t) = Len(s) - 1 /\ \A i \in 1..Len(t) : t[i] = s[i + 1]
      /\ Head(s) = s[1] /\ Len(s) \in Nat \ {0}
  OBVIOUS
<1> HIDE DEF t
<1>2. DOMAIN t = 1..Len(t) /\ DOMAIN s = 1..Len(s)
  BY <1>1
<1>3. \A i \in 1..Len(t) : i + 1 \in 1..Len(s)
  BY <1>1
<1>4. Range(t) \subseteq Range(s) /\ Head(s) \in Range(s)
  BY <1>1, <1>2, <1>3 DEF Range
<1>5. ASSUME NEW i \in 1..Len(s), i # 1
      PROVE  s[i] \in Range(t)
  <2>1. i - 1 \in 1..Len(t) /\ t[i - 1] = s[i]
    BY <1>1, <1>5
  <2> QED BY <1>2, <2>1 DEF Range
<1>6. t \in Seq(Range(t))
  BY <1>1, InOwnRange
<1>7. Range(s) \subseteq Range(t) \cup {Head(s)}
  BY <1>1, <1>2, <1>5 DEF Range
<1> QED BY <1>1, <1>4, <1>6, <1>7 DEF t

(* The number last kept of those seen. *)
LastOf(s) == IF s = <<>> THEN 0 ELSE Last(s)

Seen(s) == s \in Seq(Nat) /\ \A n \in Range(s) : n <= LastOf(s)

(* Remember forgets old ids only: the last one seen is the highest.          *)
LEMMA RememberKeepsLast ==
  ASSUME NEW s, Seen(s), NEW id \in Nat, LastOf(s) <= id
  PROVE  Seen(Remember(s, id)) /\ LastOf(Remember(s, id)) = id /\ id \in Range(Remember(s, id))
<1> DEFINE t == Append(s, id)
<1>1. s \in Seq(Nat)
  BY DEF Seen
<1>2. t \in Seq(Nat) /\ Len(t) = Len(s) + 1 /\ t # <<>> /\ Last(t) = id
  BY <1>1 DEF Last
<1>3. ASSUME NEW n \in Range(t) PROVE n <= id
  <2>1. PICK i \in 1..Len(t) : n = t[i]
    BY <1>2 DEF Range
  <2>2. CASE i = Len(s) + 1
    BY <1>1, <2>1, <2>2
  <2>3. CASE i # Len(s) + 1
    <3>1. i \in 1..Len(s) /\ n = s[i]
      BY <1>1, <1>2, <2>1, <2>3
    <3>2. n \in Nat /\ n <= LastOf(s) /\ s # <<>>
      BY <1>1, <3>1 DEF Seen, Range
    <3>3. LastOf(s) \in Nat
      BY <1>1, <3>2 DEF LastOf, Last
    <3> QED BY <3>2, <3>3
  <2> QED BY <2>2, <2>3
<1>4. Remember(s, id) = Newest(t, DedupWindow)
  BY DEF Remember
<1> HIDE DEF t
<1>5. /\ Newest(t, DedupWindow) \in Seq(Nat) /\ Range(Newest(t, DedupWindow)) \subseteq Range(t)
      /\ Newest(t, DedupWindow) # <<>> /\ Last(Newest(t, DedupWindow)) = Last(t)
  BY <1>2, NewestOf, LimitAssumption
<1>6. \A f : f \in Seq(Nat) /\ f # <<>> => Last(f) \in Range(f)
  BY DEF Last, Range
<1> QED BY <1>2, <1>3, <1>4, <1>5, <1>6 DEF Seen, LastOf
--------------------------------------------------------------------------------
(* The detector.  A ledger says, for every trade id and level, how much    *)
(* had been executed there up to that trade.                               *)

Fields == {"quality", "buffer", "latest", "levels", "episodes", "events",
           "trades", "touches", "seenTrades", "seenDepth", "nextId", "late"}

EpisodeFields == {"id", "started", "last", "peak", "executed", "replenished",
                  "cancelled", "refills", "adverse", "confirmed"}

Qualities == {"Synchronizing", "Healthy", "Degraded", "Gap"}

IsLevel(level) ==
    /\ level.visible \in Nat /\ level.pending \in Nat
    /\ level.expected = Floor(level.visible - level.pending)

IsEpisode(x) ==
    DOMAIN x = EpisodeFields /\ {x.id, x.executed, x.refills, x.confirmed} \subseteq Nat

IsReport(a) ==
    /\ a.key \in Key /\ {a.id, a.executed, a.refills} \subseteq Nat
    /\ a.confirmed \in Nat \ {0}

LevelsOK(levels) == DOMAIN levels \subseteq Key /\ \A k \in DOMAIN levels : IsLevel(levels[k])

EpisodesOK(d) ==
    /\ IsFiniteSet(DOMAIN d.episodes) /\ DOMAIN d.episodes \subseteq DOMAIN d.levels
    /\ \A k \in DOMAIN d.episodes : IsEpisode(d.episodes[k]) /\ d.episodes[k].id < d.nextId
    /\ \A k, l \in DOMAIN d.episodes : d.episodes[k].id = d.episodes[l].id => k = l

EventsOK(events) == events \in Seq(Range(events)) /\ \A a \in Range(events) : IsReport(a)

IsDetector(d) ==
    /\ DOMAIN d = Fields /\ d.quality \in Qualities /\ d.nextId \in Nat
    /\ Seen(d.seenTrades) /\ Seen(d.seenDepth)
    /\ LevelsOK(d.levels) /\ EpisodesOK(d) /\ EventsOK(d.events)

(* The later report or episode b is about the same as a. *)
Follows(a, b) ==
    /\ a.started = b.started /\ a.confirmed = b.confirmed
    /\ a.executed <= b.executed /\ a.refills <= b.refills

(* What d holds under the id of the report a is about the same. *)
Keeps(d, a) ==
    /\ IsReport(a) /\ a.id < d.nextId
    /\ \A b \in Range(d.events) : a.id = b.id => a.key = b.key /\ Follows(a, b)
    /\ \A k \in DOMAIN d.episodes :
          a.id = d.episodes[k].id => a.key = k /\ Follows(a, d.episodes[k])

IsLedger(ledger) ==
    /\ ledger \in [Nat -> [Key -> Nat]]
    /\ \A m, n \in Nat : m <= n => \A k \in Key : ledger[m][k] <= ledger[n][k]

(* What d says was executed is in the ledger. *)
Counted(d, ledger) ==
    /\ \A k \in DOMAIN d.episodes : d.episodes[k].executed <= ledger[LastOf(d.seenTrades)][k]
    /\ \A a \in Range(d.events) : a.executed <= ledger[LastOf(d.seenTrades)][a.key]

(* The detector, which has published reports before. *)
Sound(d, reports, ledger) ==
    /\ IsDetector(d)
    /\ \A a \in reports \cup Range(d.events) : Keeps(d, a)
    /\ Counted(d, ledger)

(* x has no episodes and events but those of d, and no other counts of what they executed. *)
Trims(d, x) ==
    /\ DOMAIN x = Fields /\ x.quality \in Qualities /\ x.nextId = d.nextId
    /\ x.seenTrades = d.seenTrades /\ Seen(x.seenDepth) /\ LevelsOK(x.levels)
    /\ DOMAIN x.episodes \subseteq DOMAIN d.episodes \cap DOMAIN x.levels
    /\ \A k \in DOMAIN x.episodes :
          /\ IsEpisode(x.episodes[k]) /\ Follows(d.episodes[k], x.episodes[k])
          /\ x.episodes[k].id = d.episodes[k].id
          /\ x.episodes[k].executed = d.episodes[k].executed
    /\ x.events \in Seq(Range(x.events)) /\ Range(x.events) \subseteq Range(d.events)

(* A detector that has lost episodes and events, and no others, stays sound. *)
LEMMA SoundWhenTrimmed ==
  ASSUME NEW d, NEW x, NEW reports, NEW ledger, Sound(d, reports, ledger), Trims(d, x)
  PROVE  Sound(x, reports, ledger)
<1>1. IsFiniteSet(DOMAIN x.episodes)
  BY FS_Subset DEF Trims, Sound, IsDetector, EpisodesOK
<1>2. EpisodesOK(x)
  BY <1>1 DEF Trims, Sound, IsDetector, EpisodesOK
<1>3. EventsOK(x.events) /\ Range(x.events) \subseteq Range(d.events)
  BY DEF Trims, Sound, IsDetector, EventsOK
<1>4. IsDetector(x)
  BY <1>2, <1>3 DEF Trims, Sound, IsDetector
<1>5. ASSUME NEW a \in reports \cup Range(x.events)
      PROVE  Keeps(x, a)
  <2>1. Keeps(d, a)
    BY <1>3 DEF Sound
  <2>2. ASSUME NEW k \in DOMAIN x.episodes, a.id = x.episodes[k].id
        PROVE  a.key = k /\ Follows(a, x.episodes[k])
    <3>1. k \in DOMAIN d.episodes /\ Follows(d.episodes[k], x.episodes[k]) /\ x.episodes[k].id = d.episodes[k].id
      BY DEF Trims
    <3>2. IsEpisode(d.episodes[k]) /\ IsEpisode(x.episodes[k])
      BY <3>1 DEF Sound, IsDetector, EpisodesOK, Trims
    <3>3. IsReport(a) /\ a.key = k /\ Follows(a, d.episodes[k])
      BY <2>1, <2>2, <3>1 DEF Keeps
    <3> QED BY <3>1, <3>2, <3>3 DEF Follows, IsEpisode, IsReport
  <2> QED BY <1>3, <2>1, <2>2 DEF Keeps, Trims
<1>6. Counted(x, ledger)
  BY <1>3 DEF Sound, Counted, Trims
<1> QED BY <1>4, <1>5, <1>6 DEF Sound

(* Nothing has happened to a new detector. *)
LEMMA SoundWhenNew ==
  ASSUME NEW ledger
  PROVE  Sound(NewDetector, {}, ledger) /\ NewDetector.levels = NoLevels
<1>1. IsFiniteSet({})
  BY FS_EmptySet
<1>2. IsDetector(NewDetector)
  BY <1>1 DEF IsDetector, NewDetector, NoLevels, Fields, Qualities, Seen, LastOf, LevelsOK,
              EpisodesOK, EventsOK, Range
<1> QED BY <1>2 DEF Sound, NewDetector, NoLevels, Counted, Range

(* expire                                                                    *)
LEMMA ExpireTrims ==
  ASSUME NEW d, NEW reports, NEW ledger, Sound(d, reports, ledger), NEW now
  PROVE  LET x == Expire(d, now)
         IN /\ Trims(d, x) /\ x.levels = d.levels /\ x.seenDepth = d.seenDepth
            /\ x.buffer = d.buffer
<1> DEFINE x == Expire(d, now)
           fresh == {i \in 1..Len(d.events) : now - d.events[i].updated <= Retention}
<1>1. /\ DOMAIN x = Fields /\ x.quality = d.quality /\ x.nextId = d.nextId
      /\ x.seenTrades = d.seenTrades /\ x.seenDepth = d.seenDepth /\ x.levels = d.levels
      /\ x.buffer = d.buffer /\ x.events = FromFirst(d.events, fresh)
      /\ \E S : S \subseteq DOMAIN d.episodes /\ x.episodes = [k \in S |-> d.episodes[k]]
  BY DEF Sound, IsDetector, Fields, Expire, KeepEpisodes
<1> HIDE DEF x
<1>2. PICK S : S \subseteq DOMAIN d.episodes /\ x.episodes = [k \in S |-> d.episodes[k]]
  BY <1>1
<1>3. d.events \in Seq(Range(d.events)) /\ fresh \subseteq 1..Len(d.events)
  BY DEF Sound, IsDetector, EventsOK
<1> HIDE DEF fresh
<1>4. x.events \in Seq(Range(d.events)) /\ Range(x.events) \subseteq Range(d.events)
  BY <1>1, <1>3, FromFirstOf
<1>5. x.events \in Seq(Range(x.events))
  BY <1>4 DEF Range
<1>6. DOMAIN x.episodes = S /\ \A k \in S : x.episodes[k] = d.episodes[k] /\ k \in DOMAIN d.episodes
  BY <1>2
<1>7. \A k \in S : IsEpisode(d.episodes[k]) /\ Follows(d.episodes[k], d.episodes[k]) /\ k \in DOMAIN d.levels
  BY <1>6 DEF Sound, IsDetector, EpisodesOK, IsEpisode, Follows
<1>8. Trims(d, x)
  BY <1>1, <1>4, <1>5, <1>6, <1>7 DEF Trims, Sound, IsDetector
<1> QED BY <1>1, <1>8 DEF x

(* process_trade: the id is kept, and the old samples go. *)
LEMMA SoundWhenRemembered ==
  ASSUME NEW d, NEW reports, NEW ledger, Sound(d, reports, ledger), IsLedger(ledger),
         NEW id \in Nat, LastOf(d.seenTrades) <= id, NEW x, DOMAIN x = Fields,
         x.quality = d.quality, x.nextId = d.nextId, x.levels = d.levels,
         x.episodes = d.episodes, x.events = d.events, x.seenDepth = d.seenDepth,
         x.seenTrades = Remember(d.seenTrades, id)
  PROVE  Sound(x, reports, ledger) /\ LastOf(x.seenTrades) = id
<1>2. Seen(d.seenTrades)
  BY DEF Sound, IsDetector
<1>3. Seen(x.seenTrades) /\ LastOf(x.seenTrades) = id
  BY <1>2, RememberKeepsLast
<1>4. LastOf(d.seenTrades) \in Nat
  BY <1>2 DEF Seen, LastOf, Last
<1>5. IsDetector(x)
  BY <1>3 DEF Sound, IsDetector, EpisodesOK
<1>6. \A k \in Key : /\ ledger[LastOf(d.seenTrades)][k] <= ledger[id][k]
                     /\ ledger[LastOf(d.seenTrades)][k] \in Nat /\ ledger[id][k] \in Nat
  BY <1>4 DEF IsLedger
<1>7. ASSUME NEW k \in DOMAIN d.episodes
      PROVE  d.episodes[k].executed <= ledger[id][k]
  <2>1. d.episodes[k].executed \in Nat /\ k \in Key
    BY DEF Sound, IsDetector, EpisodesOK, IsEpisode, LevelsOK
  <2> QED BY <1>6, <2>1 DEF Sound, Counted
<1>8. ASSUME NEW a \in Range(d.events)
      PROVE  a.executed <= ledger[id][a.key]
  <2>1. a.executed \in Nat /\ a.key \in Key
    BY DEF Sound, IsDetector, EventsOK, IsReport
  <2> QED BY <1>6, <2>1 DEF Sound, Counted
<1>9. Counted(x, ledger)
  BY <1>3, <1>7, <1>8 DEF Counted
<1> QED BY <1>3, <1>5, <1>9 DEF Sound, Keeps

(* Deplete leaves the episodes alone, and expected follows pending.          *)
LEMMA DepleteTrims ==
  ASSUME NEW d, NEW reports, NEW ledger, Sound(d, reports, ledger),
         NEW key \in DOMAIN d.levels, NEW qty \in Nat, NEW at
  PROVE  LET x == Deplete(d, key, qty, at)
         IN /\ Trims(d, x) /\ x.seenDepth = d.seenDepth /\ x.buffer = d.buffer
            /\ x.episodes = d.episodes
            /\ DOMAIN x.levels = DOMAIN d.levels
            /\ \A k \in DOMAIN d.levels : x.levels[k].visible = d.levels[k].visible
<1> DEFINE x == Deplete(d, key, qty, at)
           level == d.levels[key]
           after == [visible |-> level.visible, pending |-> level.pending + qty,
                     expected |-> Floor(level.expected - qty), at |-> Later(level.at, at)]
<1>1. /\ DOMAIN x = Fields /\ x.quality = d.quality /\ x.nextId = d.nextId
      /\ x.seenTrades = d.seenTrades /\ x.seenDepth = d.seenDepth /\ x.buffer = d.buffer
      /\ x.events = d.events /\ x.episodes = d.episodes
      /\ x.levels = [d.levels EXCEPT ![key] = after]
  BY DEF Sound, IsDetector, Fields, Deplete
<1>2. IsLevel(level)
  BY DEF Sound, IsDetector, LevelsOK
<1>3. IsLevel(after) /\ after.visible = level.visible
  BY <1>2 DEF IsLevel, Floor
<1> HIDE DEF after
<1>4. /\ DOMAIN x.levels = DOMAIN d.levels
      /\ \A k \in DOMAIN d.levels : x.levels[k] = IF k = key THEN after ELSE d.levels[k]
  BY <1>1
<1>5. LevelsOK(x.levels)
  BY <1>3, <1>4 DEF Sound, IsDetector, LevelsOK
<1>6. \A k \in DOMAIN d.episodes :
         IsEpisode(d.episodes[k]) /\ Follows(d.episodes[k], d.episodes[k]) /\ k \in DOMAIN d.levels
  BY DEF Sound, IsDetector, EpisodesOK, IsEpisode, Follows
<1>7. Trims(d, x)
  BY <1>1, <1>4, <1>5, <1>6 DEF Trims, Sound, IsDetector, EventsOK
<1> HIDE DEF x
<1>8. \A k \in DOMAIN d.levels : x.levels[k].visible = d.levels[k].visible
  BY <1>3, <1>4
<1> QED BY <1>1, <1>4, <1>7, <1>8 DEF x

(* The id of a new episode is new.                                           *)
LEMMA SoundWhenOpened ==
  ASSUME NEW d, NEW reports, NEW ledger, Sound(d, reports, ledger), IsLedger(ledger),
         NEW key \in DOMAIN d.levels, key \notin DOMAIN d.episodes, NEW at
  PROVE  LET x == OpenEpisode(d, key, at)
         IN /\ Sound(x, reports, ledger)
            /\ key \in DOMAIN x.episodes /\ x.episodes[key].executed = 0
            /\ x.levels = d.levels /\ x.seenTrades = d.seenTrades
            /\ x.seenDepth = d.seenDepth /\ x.buffer = d.buffer
<1> DEFINE x == OpenEpisode(d, key, at)
           new == Opened(d, key, at)
<1>1. /\ DOMAIN x = Fields /\ x.quality = d.quality /\ x.nextId = d.nextId + 1
      /\ x.seenTrades = d.seenTrades /\ x.seenDepth = d.seenDepth /\ x.buffer = d.buffer
      /\ x.events = d.events /\ x.levels = d.levels
      /\ x.episodes = [k \in DOMAIN d.episodes \cup {key} |->
                         IF k = key THEN new ELSE d.episodes[k]]
  BY DEF Sound, IsDetector, Fields, OpenEpisode
<1>2. d.nextId \in Nat /\ EpisodesOK(d)
  BY DEF Sound, IsDetector
<1>3. IsEpisode(new) /\ new.id = d.nextId /\ new.executed = 0
  BY <1>2 DEF Opened, IsEpisode, EpisodeFields
<1> HIDE DEF new, x
<1>4. /\ DOMAIN x.episodes = DOMAIN d.episodes \cup {key}
      /\ x.episodes[key] = new
      /\ \A k \in DOMAIN d.episodes : x.episodes[k] = d.episodes[k]
  BY <1>1
<1>5. IsFiniteSet(DOMAIN x.episodes)
  BY <1>2, <1>4, FS_AddElement DEF EpisodesOK
<1>6. \A k \in DOMAIN d.episodes : d.episodes[k].id \in Nat /\ d.episodes[k].id < d.nextId
  BY <1>2 DEF EpisodesOK, IsEpisode
<1>7. \A k \in DOMAIN x.episodes : IsEpisode(x.episodes[k]) /\ x.episodes[k].id < x.nextId
  BY <1>1, <1>2, <1>3, <1>4, <1>6 DEF EpisodesOK
<1>8. \A k, l \in DOMAIN x.episodes : x.episodes[k].id = x.episodes[l].id => k = l
  BY <1>2, <1>3, <1>4, <1>6 DEF EpisodesOK
<1>9. EpisodesOK(x)
  BY <1>1, <1>2, <1>4, <1>5, <1>7, <1>8 DEF EpisodesOK
<1>10. IsDetector(x)
  BY <1>1, <1>2, <1>9 DEF Sound, IsDetector
<1>11. \A a \in reports \cup Range(d.events) : Keeps(d, a) /\ a.id \in Nat
  BY DEF Sound, Keeps, IsReport
<1>12. \A a \in reports \cup Range(d.events) : Keeps(x, a)
  BY <1>1, <1>2, <1>3, <1>4, <1>11 DEF Keeps
<1>13. Counted(x, ledger)
  <2>1. LastOf(d.seenTrades) \in Nat /\ key \in Key
    BY DEF Sound, IsDetector, Seen, LastOf, Last, LevelsOK
  <2>2. ledger[LastOf(d.seenTrades)][key] \in Nat
    BY <2>1 DEF IsLedger
  <2> QED BY <1>1, <1>3, <1>4, <2>2 DEF Sound, Counted
<1> QED BY <1>1, <1>3, <1>4, <1>10, <1>12, <1>13 DEF Sound, x

(* The execution of the trade e is in the ledger under its id.               *)
LEMMA SoundWhenHit ==
  ASSUME NEW d, NEW reports, NEW ledger, Sound(d, reports, ledger),
         NEW key \in DOMAIN d.episodes, NEW qty \in Nat, NEW at,
         d.episodes[key].executed + qty <= ledger[LastOf(d.seenTrades)][key]
  PROVE  LET x == HitEpisode(d, key, qty, at)
         IN /\ Sound(x, reports, ledger)
            /\ x.levels = d.levels /\ x.seenTrades = d.seenTrades
            /\ x.seenDepth = d.seenDepth /\ x.buffer = d.buffer
<1> DEFINE x == HitEpisode(d, key, qty, at)
           old == d.episodes[key]
           new == [old EXCEPT !.executed = @ + qty, !.last = at]
<1>1. /\ DOMAIN x = Fields /\ x.quality = d.quality /\ x.nextId = d.nextId
      /\ x.seenTrades = d.seenTrades /\ x.seenDepth = d.seenDepth /\ x.buffer = d.buffer
      /\ x.events = d.events /\ x.levels = d.levels
      /\ x.episodes = [d.episodes EXCEPT ![key] = new]
  <2>1. x = [d EXCEPT !.episodes = [@ EXCEPT ![key] = new]]
    BY DEF HitEpisode
  <2> HIDE DEF x, new
  <2> QED BY <2>1 DEF Sound, IsDetector, Fields
<1>2. EpisodesOK(d) /\ IsEpisode(old)
  BY DEF Sound, IsDetector, EpisodesOK
<1>3. /\ IsEpisode(new) /\ new.id = old.id /\ Follows(old, new)
      /\ new.executed = old.executed + qty
  BY <1>2 DEF IsEpisode, EpisodeFields, Follows
<1>4. new.executed <= ledger[LastOf(d.seenTrades)][key]
  BY <1>3
<1> HIDE DEF new, x
<1>5. /\ DOMAIN x.episodes = DOMAIN d.episodes
      /\ \A k \in DOMAIN d.episodes : x.episodes[k] = IF k = key THEN new ELSE d.episodes[k]
  BY <1>1
<1>6. EpisodesOK(x)
  BY <1>1, <1>2, <1>3, <1>5 DEF EpisodesOK
<1>7. IsDetector(x)
  BY <1>1, <1>6 DEF Sound, IsDetector
<1>8. ASSUME NEW a \in reports \cup Range(d.events)
      PROVE  Keeps(x, a)
  <2>1. Keeps(d, a)
    BY DEF Sound
  <2>2. a.id = old.id => a.key = key /\ Follows(a, new)
    BY <1>2, <1>3, <2>1 DEF Keeps, Follows, IsReport, IsEpisode
  <2> QED BY <1>1, <1>3, <1>5, <2>1, <2>2 DEF Keeps
<1>9. Counted(x, ledger)
  BY <1>1, <1>4, <1>5 DEF Sound, Counted
<1> QED BY <1>1, <1>7, <1>8, <1>9 DEF Sound, x

(* What a trade on its way is when its executions are in the ledger. *)
Paid(e, ledger) ==
    /\ e.id \in Nat \ {0} /\ e.key \in Key /\ e.qty \in Nat \ {0}
    /\ ledger[e.id - 1][e.key] + e.qty <= ledger[e.id][e.key]

(* process_trade                                                             *)
LEMMA SoundAfterTrade ==
  ASSUME NEW d, NEW reports, NEW ledger, Sound(d, reports, ledger), IsLedger(ledger),
         NEW e, Paid(e, ledger), LastOf(d.seenTrades) <= e.id, NEW sense
  PROVE  LET x == ProcessTrade(d, e, sense)
         IN /\ Sound(x, reports, ledger) /\ LastOf(x.seenTrades) = e.id
            /\ x.seenDepth = d.seenDepth /\ x.buffer = d.buffer
            /\ DOMAIN x.levels = DOMAIN d.levels
            /\ \A k \in DOMAIN d.levels : x.levels[k].visible = d.levels[k].visible
<1> DEFINE key == e.key
           d1 == [d EXCEPT !.seenTrades = Remember(@, e.id),
                           !.trades = AddSample(@, e.time), !.touches = Recent(@, e.time)]
           d2 == Deplete(d1, key, e.qty, e.time)
           d3 == IF key \in DOMAIN d2.episodes THEN d2 ELSE OpenEpisode(d2, key, e.time)
           x == ProcessTrade(d, e, sense)
           last == LastOf(d.seenTrades)
<1> SUFFICES /\ Sound(x, reports, ledger) /\ LastOf(x.seenTrades) = e.id
             /\ x.seenDepth = d.seenDepth /\ x.buffer = d.buffer
             /\ DOMAIN x.levels = DOMAIN d.levels
             /\ \A k \in DOMAIN d.levels : x.levels[k].visible = d.levels[k].visible
  OBVIOUS
<1>1. e.id \in Nat \ {0} /\ key \in Key /\ e.qty \in Nat /\ Seen(d.seenTrades) /\ last \in Nat
  BY DEF Paid, Sound, IsDetector, Seen, LastOf, Last
<1>2. CASE e.id \in Range(d.seenTrades)
  <2>1. e.id <= last
    BY <1>2 DEF Sound, IsDetector, Seen
  <2>2. last = e.id
    BY <1>1, <2>1
  <2>3. x = d
    BY <1>2 DEF ProcessTrade
  <2> QED BY <2>2, <2>3
<1>3. CASE e.id \notin Range(d.seenTrades)
  <2>1. last < e.id
    <3>1. CASE d.seenTrades = <<>>
      BY <1>1, <3>1 DEF LastOf
    <3>2. CASE d.seenTrades # <<>>
      <4>1. last \in Range(d.seenTrades)
        BY <1>1, <3>2 DEF LastOf, Last, Range, Seen
      <4> QED BY <1>1, <1>3, <4>1
    <3> QED BY <3>1, <3>2
  <2>3. /\ DOMAIN d1 = Fields /\ d1.quality = d.quality /\ d1.nextId = d.nextId
        /\ d1.levels = d.levels /\ d1.episodes = d.episodes /\ d1.events = d.events
        /\ d1.seenDepth = d.seenDepth /\ d1.buffer = d.buffer
        /\ d1.seenTrades = Remember(d.seenTrades, e.id)
    BY DEF Sound, IsDetector, Fields
  <2>2. Sound(d1, reports, ledger) /\ LastOf(d1.seenTrades) = e.id
    <3> HIDE DEF d1
    <3> QED BY <1>1, <2>1, <2>3, SoundWhenRemembered
  <2>4. \/ x = d1
        \/ (key \in DOMAIN d1.levels /\ (x = d2 \/ x = HitEpisode(d3, key, e.qty, e.time)))
    BY <1>3 DEF ProcessTrade, Visible
  <2>5. CASE x = d1
    BY <2>2, <2>3, <2>5
  <2>6. CASE key \in DOMAIN d1.levels /\ (x = d2 \/ x = HitEpisode(d3, key, e.qty, e.time))
    <3> HIDE DEF d1, x
    <3>1. /\ Sound(d2, reports, ledger) /\ d2.seenDepth = d1.seenDepth /\ d2.buffer = d1.buffer
          /\ d2.episodes = d1.episodes /\ d2.seenTrades = d1.seenTrades
          /\ DOMAIN d2.levels = DOMAIN d1.levels
          /\ \A k \in DOMAIN d1.levels : d2.levels[k].visible = d1.levels[k].visible
      <4>1. /\ Trims(d1, d2) /\ d2.seenDepth = d1.seenDepth /\ d2.buffer = d1.buffer
            /\ d2.episodes = d1.episodes /\ DOMAIN d2.levels = DOMAIN d1.levels
            /\ \A k \in DOMAIN d1.levels : d2.levels[k].visible = d1.levels[k].visible
        BY <1>1, <2>2, <2>6, DepleteTrims
      <4> HIDE DEF d2
      <4>2. Sound(d2, reports, ledger)
        BY <2>2, <4>1, SoundWhenTrimmed
      <4> QED BY <4>1, <4>2 DEF Trims
    <3> HIDE DEF d2
    <3>2. CASE x = d2
      BY <2>2, <2>3, <3>1, <3>2
    <3>3. CASE x = HitEpisode(d3, key, e.qty, e.time)
      <4>1. /\ Sound(d3, reports, ledger) /\ key \in DOMAIN d3.episodes
            /\ d3.levels = d2.levels /\ d3.seenTrades = d2.seenTrades
            /\ d3.seenDepth = d2.seenDepth /\ d3.buffer = d2.buffer
            /\ \/ d3.episodes[key].executed = 0
               \/ (key \in DOMAIN d.episodes /\ d3.episodes[key] = d.episodes[key])
        <5>1. CASE key \in DOMAIN d2.episodes
          BY <2>3, <3>1, <5>1
        <5>2. CASE key \notin DOMAIN d2.episodes
          <6>1. d3 = OpenEpisode(d2, key, e.time) /\ key \in DOMAIN d2.levels
            BY <2>6, <3>1, <5>2
          <6> DEFINE y == OpenEpisode(d2, key, e.time)
          <6>2. /\ Sound(y, reports, ledger) /\ key \in DOMAIN y.episodes
                /\ y.episodes[key].executed = 0
                /\ y.levels = d2.levels /\ y.seenTrades = d2.seenTrades
                /\ y.seenDepth = d2.seenDepth /\ y.buffer = d2.buffer
            BY <3>1, <5>2, <6>1, SoundWhenOpened
          <6> HIDE DEF y
          <6> QED BY <6>1, <6>2 DEF y
        <5> QED BY <5>1, <5>2
      <4> HIDE DEF d3
      <4>2. ledger[last][key] <= ledger[e.id - 1][key] /\ {ledger[last][key], ledger[e.id - 1][key], ledger[e.id][key]} \subseteq Nat
        <5>1. e.id - 1 \in Nat /\ last <= e.id - 1
          BY <1>1, <2>1
        <5> QED BY <1>1, <5>1 DEF IsLedger
      <4>3. d3.episodes[key].executed \in Nat /\ d3.episodes[key].executed <= ledger[last][key]
        <5>1. d3.episodes[key].executed \in Nat
          BY <4>1 DEF Sound, IsDetector, EpisodesOK, IsEpisode
        <5>2. key \in DOMAIN d.episodes => d.episodes[key].executed <= ledger[last][key]
          BY DEF Sound, Counted
        <5> QED BY <4>1, <4>2, <5>1, <5>2
      <4>4. d3.episodes[key].executed + e.qty <= ledger[e.id][key]
        BY <1>1, <4>2, <4>3 DEF Paid
      <4>5. LastOf(d3.seenTrades) = e.id
        BY <2>2, <3>1, <4>1
      <4>6. /\ Sound(x, reports, ledger) /\ x.levels = d3.levels /\ x.seenTrades = d3.seenTrades
            /\ x.seenDepth = d3.seenDepth /\ x.buffer = d3.buffer
        BY <1>1, <3>3, <4>1, <4>4, <4>5, SoundWhenHit
      <4> QED BY <2>3, <3>1, <4>1, <4>5, <4>6
    <3> QED BY <2>6, <3>2, <3>3
  <2> QED BY <2>4, <2>5, <2>6
<1> QED BY <1>2, <1>3

(* What a delta on its way says of the levels. *)
Names(e) ==
    DOMAIN e.levels \subseteq Key /\ \A k \in DOMAIN e.levels : e.levels[k] \in Nat

(* apply_level, for all the levels of a delta                                *)
LEMMA ApplyLevelsTrims ==
  ASSUME NEW d, NEW reports, NEW ledger, Sound(d, reports, ledger),
         NEW e, Names(e), NEW sense
  PROVE  LET x == ApplyLevels(d, e, sense)
         IN /\ Trims(d, x) /\ x.seenDepth = d.seenDepth /\ x.buffer = d.buffer
            /\ \A k \in DOMAIN x.levels :
                  IF k \in DOMAIN e.levels THEN x.levels[k].visible = e.levels[k]
                  ELSE k \in DOMAIN d.levels /\ x.levels[k] = d.levels[k]
<1> DEFINE x == ApplyLevels(d, e, sense)
           named == DOMAIN e.levels
           kept == (DOMAIN d.levels \cup named) \ Gone(d, e)
           level(k) == IF k \in named
                       THEN [visible |-> e.levels[k], pending |-> 0, expected |-> e.levels[k],
                             at |-> e.time]
                       ELSE d.levels[k]
           episode(k) == IF k \in named
                         THEN Refill(d.episodes[k], Level(d, k), e.levels[k], e.time, sense)
                         ELSE d.episodes[k]
<1>1. /\ DOMAIN x = Fields /\ x.quality = d.quality /\ x.nextId = d.nextId
      /\ x.seenTrades = d.seenTrades /\ x.seenDepth = d.seenDepth /\ x.buffer = d.buffer
      /\ x.events = d.events
      /\ x.levels = [k \in kept |-> level(k)]
      /\ x.episodes = [k \in DOMAIN d.episodes |-> episode(k)]
  BY DEF Sound, IsDetector, Fields, ApplyLevels
<1>2. LevelsOK(d.levels) /\ EpisodesOK(d)
  BY DEF Sound, IsDetector
<1>3. \A k \in kept : IsLevel(level(k))
  BY <1>2 DEF Names, LevelsOK, IsLevel, Floor
<1>4. ASSUME NEW k \in DOMAIN d.episodes
      PROVE  /\ IsEpisode(episode(k)) /\ Follows(d.episodes[k], episode(k))
             /\ episode(k).id = d.episodes[k].id
             /\ episode(k).executed = d.episodes[k].executed
  <2>1. IsEpisode(d.episodes[k])
    BY <1>2 DEF EpisodesOK
  <2> DEFINE y == Refill(d.episodes[k], Level(d, k), e.levels[k], e.time, sense)
  <2>2. IsEpisode(y) /\ Follows(d.episodes[k], y) /\ y.id = d.episodes[k].id
        /\ y.executed = d.episodes[k].executed
    BY <2>1 DEF Refill, IsEpisode, EpisodeFields, Follows
  <2> HIDE DEF y
  <2>3. episode(k) = IF k \in named THEN y ELSE d.episodes[k]
    BY DEF y
  <2>4. Follows(d.episodes[k], d.episodes[k])
    BY <2>1 DEF IsEpisode, Follows
  <2> QED BY <2>1, <2>2, <2>3, <2>4
<1>5. DOMAIN d.episodes \subseteq kept
  BY <1>2 DEF EpisodesOK, Gone
<1>6. kept \subseteq Key
  BY <1>2 DEF LevelsOK, Names
<1>7. \A k \in kept : IF k \in named THEN level(k).visible = e.levels[k]
                      ELSE k \in DOMAIN d.levels /\ level(k) = d.levels[k]
  OBVIOUS
<1> HIDE DEF x, level, episode, kept, named
<1>8. /\ DOMAIN x.levels = kept /\ \A k \in kept : x.levels[k] = level(k)
      /\ DOMAIN x.episodes = DOMAIN d.episodes
      /\ \A k \in DOMAIN d.episodes : x.episodes[k] = episode(k)
  BY <1>1
<1>9. LevelsOK(x.levels)
  BY <1>3, <1>6, <1>8 DEF LevelsOK
<1>10. Trims(d, x)
  BY <1>1, <1>4, <1>5, <1>8, <1>9 DEF Trims, Sound, IsDetector, EventsOK
<1> QED BY <1>1, <1>7, <1>8, <1>10 DEF x, named

(* What changes neither the episodes nor the levels. *)
SameBook(d, x) ==
    /\ DOMAIN x = Fields /\ x.quality \in Qualities /\ x.nextId = d.nextId
    /\ x.seenTrades = d.seenTrades /\ x.seenDepth = d.seenDepth /\ x.buffer = d.buffer
    /\ x.events = d.events /\ x.levels = d.levels /\ x.episodes = d.episodes
    /\ x.late = d.late

(* The samples are none of an episode's business.                            *)
LEMMA SameBookTrims ==
  ASSUME NEW d, NEW reports, NEW ledger, Sound(d, reports, ledger), NEW x, SameBook(d, x)
  PROVE  Trims(d, x)
<1>1. \A k \in DOMAIN d.episodes :
         IsEpisode(d.episodes[k]) /\ Follows(d.episodes[k], d.episodes[k]) /\ k \in DOMAIN d.levels
  BY DEF Sound, IsDetector, EpisodesOK, IsEpisode, Follows
<1> QED BY <1>1 DEF SameBook, Trims, Sound, IsDetector, EventsOK

(* SampleTouch changes only samples.                                         *)
LEMMA SampleTouchSame ==
  ASSUME NEW d, DOMAIN d = Fields, d.quality \in Qualities, NEW at
  PROVE  SameBook(d, SampleTouch(d, at))
<1> DEFINE once(y) == [y EXCEPT !.touches = AddSample(@, at), !.trades = Recent(@, at)]
<1>1. SameBook(d, d)
  BY DEF SameBook
<1>2. SameBook(d, once(d))
  BY DEF SameBook, Fields
<1>3. SameBook(d, once(once(d)))
  BY DEF SameBook, Fields
<1> HIDE DEF once
<1>4. SampleTouch(d, at) \in {d, once(d), once(once(d))}
  BY DEF SampleTouch, once
<1> QED BY <1>1, <1>2, <1>3, <1>4

(* Restore changes only the quality.                                         *)
LEMMA RestoreSame ==
  ASSUME NEW d, DOMAIN d = Fields, d.quality \in Qualities, NEW e
  PROVE  SameBook(d, Restore(d, e))
BY DEF SameBook, Fields, Qualities, Restore

(* update_adverse_ticks                                                      *)
LEMMA UpdateAdverseTrims ==
  ASSUME NEW d, NEW reports, NEW ledger, Sound(d, reports, ledger)
  PROVE  LET x == UpdateAdverse(d)
         IN /\ Trims(d, x) /\ x.seenDepth = d.seenDepth /\ x.buffer = d.buffer
            /\ x.levels = d.levels
<1> DEFINE x == UpdateAdverse(d)
           worse(k) == [d.episodes[k] EXCEPT !.adverse = IF @ < Adverse(d, k) THEN Adverse(d, k) ELSE @]
           holding == {k \in DOMAIN d.episodes : Adverse(d, k) <= MaxAdverse}
<1>1. /\ DOMAIN x = Fields /\ x.quality = d.quality /\ x.nextId = d.nextId
      /\ x.seenTrades = d.seenTrades /\ x.seenDepth = d.seenDepth /\ x.buffer = d.buffer
      /\ x.events = d.events /\ x.levels = d.levels
      /\ DOMAIN x.episodes = holding
      /\ \A k \in holding : x.episodes[k] = worse(k)
  <2> DEFINE seen == [d EXCEPT !.episodes = [k \in DOMAIN @ |->
                [d.episodes[k] EXCEPT !.adverse = IF @ < Adverse(d, k) THEN Adverse(d, k) ELSE @]]]
             after == [k \in {k \in DOMAIN seen.episodes : Adverse(d, k) <= MaxAdverse} |-> seen.episodes[k]]
  <2>1. x = [seen EXCEPT !.episodes = after]
    BY DEF UpdateAdverse, KeepEpisodes
  <2>2. DOMAIN d = Fields
    BY DEF Sound, IsDetector
  <2>3. /\ DOMAIN seen = Fields /\ seen.quality = d.quality /\ seen.nextId = d.nextId
        /\ seen.seenTrades = d.seenTrades /\ seen.seenDepth = d.seenDepth
        /\ seen.buffer = d.buffer /\ seen.events = d.events /\ seen.levels = d.levels
        /\ seen.episodes = [k \in DOMAIN d.episodes |-> worse(k)]
    BY <2>2 DEF Fields
  <2> HIDE DEF seen, worse
  <2>4. DOMAIN after = holding /\ \A k \in holding : after[k] = worse(k)
    BY <2>3
  <2> HIDE DEF after
  <2> QED BY <2>1, <2>3, <2>4 DEF Fields
<1>2. ASSUME NEW k \in DOMAIN d.episodes
      PROVE  /\ IsEpisode(worse(k)) /\ Follows(d.episodes[k], worse(k))
             /\ worse(k).id = d.episodes[k].id
             /\ worse(k).executed = d.episodes[k].executed
  BY DEF Sound, IsDetector, EpisodesOK, IsEpisode, EpisodeFields, Follows
<1>3. \A k \in holding : k \in DOMAIN d.episodes /\ k \in DOMAIN d.levels
  BY DEF Sound, IsDetector, EpisodesOK
<1> HIDE DEF x, worse, holding
<1>4. Trims(d, x)
  BY <1>1, <1>2, <1>3 DEF Trims, Sound, IsDetector, EventsOK
<1> QED BY <1>1, <1>4 DEF x

(* x has published, of episodes that are what they were, reports as d has them. *)
Publishes(d, x, at) ==
    /\ DOMAIN x.episodes = DOMAIN d.episodes
    /\ \A k \in DOMAIN d.episodes :
          /\ x.episodes[k].peak = d.episodes[k].peak
          /\ x.episodes[k].executed = d.episodes[k].executed
          /\ x.episodes[k].replenished = d.episodes[k].replenished
    /\ \A b \in Range(x.events) :
          b \in Range(d.events) \/ \E k \in DOMAIN d.episodes : b = Report(d, k, at)

(* publish_if_visible: a report takes the place of the one of its id.        *)
LEMMA SoundWhenPublished ==
  ASSUME NEW d, NEW reports, NEW ledger, Sound(d, reports, ledger),
         NEW at \in Nat \ {0}, NEW sense
  PROVE  LET x == PublishVisible(d, at, sense)
         IN /\ Sound(x, reports, ledger)
            /\ x.levels = d.levels /\ x.seenTrades = d.seenTrades
            /\ x.seenDepth = d.seenDepth /\ x.buffer = d.buffer /\ x.late = d.late
            /\ Publishes(d, x, at)
<1> DEFINE x == PublishVisible(d, at, sense)
           visible == {k \in DOMAIN d.episodes :
                          /\ k \in sense.scored
                          /\ PassesEvidence(d.episodes[k]) \/ ShowWeak
                          /\ d.quality = "Healthy"}
           made == {Report(d, k, at) : k \in visible}
           known == {r \in made : \E i \in 1..Len(d.events) : d.events[i].id = r.id}
           current(a) == {r \in made : r.id = a.id}
           old == [i \in 1..Len(d.events) |-> IF current(d.events[i]) = {} THEN d.events[i]
                                              ELSE CHOOSE r \in current(d.events[i]) : TRUE]
           new == SetToSeq(made \ known)
           confirmed(k) == [d.episodes[k] EXCEPT !.confirmed = Report(d, k, at).confirmed]
<1>1. /\ DOMAIN x = Fields /\ x.quality = d.quality /\ x.nextId = d.nextId
      /\ x.seenTrades = d.seenTrades /\ x.seenDepth = d.seenDepth /\ x.buffer = d.buffer
      /\ x.levels = d.levels /\ x.late = d.late
      /\ x.events = old \o new
      /\ x.episodes = [k \in DOMAIN d.episodes |->
                         IF k \in visible THEN confirmed(k) ELSE d.episodes[k]]
  BY DEF Sound, IsDetector, Fields, PublishVisible
<1>2. EpisodesOK(d) /\ EventsOK(d.events) /\ d.nextId \in Nat
  BY DEF Sound, IsDetector
<1>3. visible \subseteq DOMAIN d.episodes /\ visible \subseteq Key
  BY <1>2 DEF EpisodesOK, Sound, IsDetector, LevelsOK
<1>4. ASSUME NEW k \in visible
      PROVE  LET r == Report(d, k, at)
                 y == d.episodes[k]
             IN /\ IsReport(r) /\ r.key = k /\ r.id = y.id /\ Follows(r, confirmed(k))
                /\ Follows(r, r) /\ IsEpisode(y)
                /\ IsEpisode(confirmed(k)) /\ confirmed(k).id = y.id
                /\ r.started = y.started /\ r.executed = y.executed /\ r.refills = y.refills
                /\ confirmed(k).executed = y.executed
                /\ y.confirmed # 0 => r.confirmed = y.confirmed
  <2>1. IsEpisode(d.episodes[k]) /\ k \in Key
    BY <1>2, <1>3 DEF EpisodesOK
  <2>2. /\ Report(d, k, at).key = k /\ Report(d, k, at).id = d.episodes[k].id
        /\ Report(d, k, at).started = d.episodes[k].started
        /\ Report(d, k, at).executed = d.episodes[k].executed
        /\ Report(d, k, at).refills = d.episodes[k].refills
        /\ Report(d, k, at).confirmed \in Nat \ {0}
        /\ d.episodes[k].confirmed # 0 => Report(d, k, at).confirmed = d.episodes[k].confirmed
    BY <2>1 DEF Report, IsEpisode
  <2>3. /\ DOMAIN confirmed(k) = EpisodeFields /\ confirmed(k).id = d.episodes[k].id
        /\ confirmed(k).started = d.episodes[k].started
        /\ confirmed(k).executed = d.episodes[k].executed
        /\ confirmed(k).refills = d.episodes[k].refills
        /\ confirmed(k).confirmed = Report(d, k, at).confirmed
    BY <2>1 DEF IsEpisode, EpisodeFields
  <2> HIDE DEF confirmed
  <2> QED BY <2>1, <2>2, <2>3 DEF IsReport, Follows, IsEpisode
<1>5. IsFiniteSet(made)
  <2> DEFINE f == [k \in visible |-> Report(d, k, at)]
  <2>1. IsFiniteSet(visible)
    BY <1>2, <1>3, FS_Subset DEF EpisodesOK
  <2> HIDE DEF visible
  <2>2. f \in Surjection(visible, made)
    BY DEF Surjection
  <2> QED BY <2>1, <2>2, FS_Surjection
<1>6. IsFiniteSet(made \ known)
  BY <1>5, FS_Subset
<1>7. d.events \in Seq(Range(d.events))
  BY <1>2 DEF EventsOK
<1>8. \A r \in made : \E k \in visible : r = Report(d, k, at)
  OBVIOUS
<1>9. ASSUME NEW k \in DOMAIN d.episodes
      PROVE  LET y == IF k \in visible THEN confirmed(k) ELSE d.episodes[k]
             IN /\ IsEpisode(y) /\ y.id = d.episodes[k].id /\ y.executed = d.episodes[k].executed
                /\ y.peak = d.episodes[k].peak /\ y.replenished = d.episodes[k].replenished
  <2>1. k \in visible => /\ confirmed(k).peak = d.episodes[k].peak
                         /\ confirmed(k).replenished = d.episodes[k].replenished
    BY <1>4 DEF IsEpisode, EpisodeFields
  <2> HIDE DEF confirmed
  <2> QED BY <1>2, <1>4, <2>1 DEF EpisodesOK
<1> HIDE DEF x, visible, confirmed
<1>10. new \in Seq(made) /\ Range(new) \subseteq made
  <2> HIDE DEF made, known
  <2>1. new \in Seq(made \ known) /\ Range(new) \subseteq made \ known
    BY <1>6, SetToSeqOf
  <2> HIDE DEF new
  <2>2. made \ known \subseteq made
    OBVIOUS
  <2> QED BY <2>1, <2>2
<1>11. ASSUME NEW i \in 1..Len(d.events)
       PROVE  /\ old[i] \in Range(d.events) \cup made
              /\ old[i] \in made \/ (old[i] \in Range(d.events) /\ \A r \in made : r.id # old[i].id)
  <2>1. d.events[i] \in Range(d.events)
    BY <1>7 DEF Range
  <2>2. old[i] = IF current(d.events[i]) = {} THEN d.events[i]
                 ELSE CHOOSE r \in current(d.events[i]) : TRUE
    OBVIOUS
  <2>3. CASE current(d.events[i]) = {}
    BY <2>1, <2>2, <2>3
  <2>4. CASE current(d.events[i]) # {}
    BY <2>2, <2>4
  <2> QED BY <2>3, <2>4
<1>12. /\ x.events \in Seq(Range(x.events))
       /\ \A b \in Range(x.events) : \/ b \in made
                                     \/ (b \in Range(d.events) /\ \A r \in made : r.id # b.id)
  <2> HIDE DEF old, new
  <2>1. old \in Seq(Range(d.events) \cup made) /\ Len(old) = Len(d.events)
    BY <1>7, <1>11 DEF old
  <2>2. /\ x.events \in Seq(Range(d.events) \cup made) /\ Len(x.events) = Len(old) + Len(new)
        /\ \A i \in 1..Len(x.events) :
              x.events[i] = IF i <= Len(old) THEN old[i] ELSE new[i - Len(old)]
    <3>1. old \in Seq(Range(d.events) \cup made) /\ new \in Seq(Range(d.events) \cup made)
      BY <1>10, <2>1
    <3> QED BY <1>1, <3>1
  <2>3. \A j \in 1..Len(new) : new[j] \in made
    BY <1>10
  <2>4. ASSUME NEW b \in Range(x.events)
        PROVE  b \in made \/ (b \in Range(d.events) /\ \A r \in made : r.id # b.id)
    <3>1. PICK i \in 1..Len(x.events) : b = x.events[i]
      <4>1. DOMAIN x.events = 1..Len(x.events)
        BY <2>2
      <4> QED BY <4>1 DEF Range
    <3>2. CASE i <= Len(old)
      BY <1>11, <2>1, <2>2, <3>1, <3>2
    <3>3. CASE i > Len(old)
      <4>1. i - Len(old) \in 1..Len(new) /\ b = new[i - Len(old)]
        BY <1>10, <2>1, <2>2, <3>1, <3>3
      <4> QED BY <2>3, <4>1
    <3> QED BY <2>1, <3>2, <3>3
  <2>5. x.events \in Seq(Range(x.events))
    BY <2>2 DEF Range
  <2> QED BY <2>4, <2>5
<1> HIDE DEF made, old, new, known, current
<1>13. /\ DOMAIN x.episodes = DOMAIN d.episodes
       /\ \A k \in DOMAIN d.episodes :
             x.episodes[k] = IF k \in visible THEN confirmed(k) ELSE d.episodes[k]
  BY <1>1
<1>14. EpisodesOK(x)
  BY <1>1, <1>2, <1>9, <1>13 DEF EpisodesOK
<1>15. \A b \in Range(x.events) : IsReport(b)
  BY <1>2, <1>4, <1>8, <1>12 DEF EventsOK
<1>16. IsDetector(x)
  BY <1>1, <1>12, <1>14, <1>15 DEF IsDetector, EventsOK, Sound
<1>17. ASSUME NEW a \in reports \cup Range(d.events)
       PROVE  Keeps(x, a)
  <2>1. Keeps(d, a) /\ IsReport(a)
    BY DEF Sound, Keeps
  <2>2. ASSUME NEW b \in Range(x.events), a.id = b.id
        PROVE  a.key = b.key /\ Follows(a, b)
    <3>1. CASE b \in made
      <4>1. PICK k \in visible : b = Report(d, k, at)
        BY <1>8, <3>1
      <4>2. a.key = k /\ Follows(a, d.episodes[k])
        BY <1>3, <1>4, <2>1, <2>2, <4>1 DEF Keeps
      <4> QED BY <1>4, <2>1, <4>1, <4>2 DEF Follows, IsReport
    <3>2. CASE b \in Range(d.events)
      BY <2>1, <2>2, <3>2 DEF Keeps
    <3> QED BY <1>12, <3>1, <3>2
  <2>3. ASSUME NEW k \in DOMAIN x.episodes, a.id = x.episodes[k].id
        PROVE  a.key = k /\ Follows(a, x.episodes[k])
    <3>1. a.key = k /\ Follows(a, d.episodes[k])
      BY <1>9, <1>13, <2>1, <2>3 DEF Keeps
    <3>2. CASE k \in visible
      <4>1. Follows(Report(d, k, at), x.episodes[k])
        BY <1>4, <1>13, <2>3, <3>2
      <4> DEFINE c == Report(d, k, at)
      <4>2. /\ c.started = d.episodes[k].started /\ c.executed = d.episodes[k].executed
            /\ c.refills = d.episodes[k].refills /\ IsReport(c) /\ IsEpisode(d.episodes[k])
            /\ d.episodes[k].confirmed # 0 => c.confirmed = d.episodes[k].confirmed
        BY <1>4, <3>2
      <4> HIDE DEF c
      <4>3. Follows(a, c)
        BY <2>1, <3>1, <4>2 DEF Follows, IsReport
      <4>4. Follows(c, x.episodes[k]) /\ IsEpisode(x.episodes[k])
        BY <1>16, <2>3, <4>1 DEF c, IsDetector, EpisodesOK
      <4> QED BY <2>1, <3>1, <4>2, <4>3, <4>4 DEF Follows, IsReport, IsEpisode
    <3>3. CASE k \notin visible
      BY <1>13, <2>3, <3>1, <3>3
    <3> QED BY <3>2, <3>3
  <2> QED BY <1>1, <2>1, <2>2, <2>3 DEF Keeps
<1>18. ASSUME NEW r \in made
       PROVE  Keeps(x, r)
  <2>1. PICK k \in visible : r = Report(d, k, at)
    BY <1>8
  <2>2. IsReport(r) /\ r.key = k /\ r.id = d.episodes[k].id /\ k \in DOMAIN d.episodes
    BY <1>3, <1>4, <2>1
  <2>3. r.id < d.nextId
    BY <1>2, <2>2 DEF EpisodesOK
  <2>4. ASSUME NEW b \in Range(x.events), r.id = b.id
        PROVE  r.key = b.key /\ Follows(r, b)
    <3>1. b \in made
      BY <1>12, <2>4
    <3>2. PICK l \in visible : b = Report(d, l, at)
      BY <1>8, <3>1
    <3>3. l = k
      <4>1. b.id = d.episodes[l].id /\ l \in DOMAIN d.episodes
        BY <1>3, <1>4, <3>2
      <4> QED BY <1>2, <2>2, <2>4, <4>1 DEF EpisodesOK
    <3> QED BY <1>4, <2>1, <3>2, <3>3
  <2>5. ASSUME NEW l \in DOMAIN x.episodes, r.id = x.episodes[l].id
        PROVE  r.key = l /\ Follows(r, x.episodes[l])
    <3>1. l = k
      <4>1. x.episodes[l].id = d.episodes[l].id /\ l \in DOMAIN d.episodes
        BY <1>9, <1>13, <2>5
      <4> QED BY <1>2, <2>2, <2>5, <4>1 DEF EpisodesOK
    <3> QED BY <1>4, <1>13, <2>1, <2>2, <3>1
  <2> QED BY <1>1, <2>2, <2>3, <2>4, <2>5 DEF Keeps
<1>19. Counted(x, ledger)
  <2>1. \A k \in DOMAIN x.episodes : x.episodes[k].executed <= ledger[LastOf(x.seenTrades)][k]
    BY <1>1, <1>9, <1>13 DEF Sound, Counted
  <2>2. ASSUME NEW b \in Range(x.events)
        PROVE  b.executed <= ledger[LastOf(x.seenTrades)][b.key]
    <3>1. CASE b \in made
      <4>1. PICK k \in visible : b = Report(d, k, at)
        BY <1>8, <3>1
      <4> QED BY <1>1, <1>3, <1>4, <4>1 DEF Sound, Counted
    <3>2. CASE b \in Range(d.events)
      BY <1>1, <3>2 DEF Sound, Counted
    <3> QED BY <1>12, <3>1, <3>2
  <2> QED BY <2>1, <2>2 DEF Counted
<1>20. Sound(x, reports, ledger)
  BY <1>12, <1>16, <1>17, <1>18, <1>19 DEF Sound
<1>21. Publishes(d, x, at)
  BY <1>3, <1>8, <1>9, <1>12, <1>13 DEF Publishes
<1> QED BY <1>1, <1>20, <1>21 DEF x

(* process_depth: the id is kept, and a boundary starts over. *)
Begun(d, e, seen) ==
    IF e.boundary THEN [d EXCEPT !.seenDepth = seen, !.levels = NoLevels,
                                 !.episodes = NoLevels, !.quality = "Synchronizing"]
    ELSE [d EXCEPT !.seenDepth = seen]

(* A boundary starts the levels and the episodes over.                       *)
LEMMA BoundaryTrims ==
  ASSUME NEW d, NEW reports, NEW ledger, Sound(d, reports, ledger),
         NEW seen, Seen(seen), NEW e
  PROVE  LET x == Begun(d, e, seen)
         IN /\ Trims(d, x) /\ x.seenDepth = seen /\ x.buffer = d.buffer
            /\ x.levels = IF e.boundary THEN NoLevels ELSE d.levels
<1> DEFINE x == Begun(d, e, seen)
<1>1. /\ DOMAIN x = Fields /\ x.quality \in Qualities /\ x.nextId = d.nextId
      /\ x.seenTrades = d.seenTrades /\ x.seenDepth = seen /\ x.buffer = d.buffer
      /\ x.events = d.events
      /\ x.levels = IF e.boundary THEN NoLevels ELSE d.levels
      /\ x.episodes = IF e.boundary THEN NoLevels ELSE d.episodes
  BY DEF Sound, IsDetector, Fields, Qualities, Begun
<1> HIDE DEF x
<1>2. LevelsOK(x.levels)
  BY <1>1 DEF Sound, IsDetector, LevelsOK, NoLevels
<1>3. \A k \in DOMAIN d.episodes :
         IsEpisode(d.episodes[k]) /\ Follows(d.episodes[k], d.episodes[k]) /\ k \in DOMAIN d.levels
  BY DEF Sound, IsDetector, EpisodesOK, IsEpisode, Follows
<1>4. DOMAIN x.episodes \subseteq DOMAIN d.episodes \cap DOMAIN x.levels
  BY <1>1, <1>3 DEF NoLevels
<1>5. \A k \in DOMAIN x.episodes : x.episodes[k] = d.episodes[k]
  BY <1>1 DEF NoLevels
<1>6. Trims(d, x)
  BY <1>1, <1>2, <1>3, <1>4, <1>5 DEF Trims, Sound, IsDetector, EventsOK
<1> QED BY <1>1, <1>6 DEF x

(* process_depth, and what it makes of the levels                            *)
LEMMA SoundAfterDelta ==
  ASSUME NEW d, NEW reports, NEW ledger, Sound(d, reports, ledger),
         NEW e, Names(e), e.id \in Nat, e.time \in Nat \ {0}, e.boundary \in BOOLEAN,
         LastOf(d.seenDepth) <= e.id, NEW sense
  PROVE  LET x == ProcessDepth(d, e, sense)
         IN /\ Sound(x, reports, ledger) /\ LastOf(x.seenDepth) = e.id
            /\ x.seenTrades = d.seenTrades /\ x.buffer = d.buffer
            /\ x = d \/ \A k \in DOMAIN x.levels :
                           IF k \in DOMAIN e.levels THEN x.levels[k].visible = e.levels[k]
                           ELSE ~e.boundary /\ k \in DOMAIN d.levels /\ x.levels[k] = d.levels[k]
<1> DEFINE d1 == [d EXCEPT !.seenDepth = Remember(@, e.id)]
           d2 == IF e.boundary
                 THEN [d1 EXCEPT !.levels = NoLevels, !.episodes = NoLevels,
                                 !.quality = "Synchronizing"]
                 ELSE d1
           d3 == ApplyLevels(d2, e, sense)
           d4 == SampleTouch(d3, e.time)
           d5 == Restore(d4, e)
           d6 == UpdateAdverse(d5)
           x == ProcessDepth(d, e, sense)
           last == LastOf(d.seenDepth)
<1> SUFFICES /\ Sound(x, reports, ledger) /\ LastOf(x.seenDepth) = e.id
             /\ x.seenTrades = d.seenTrades /\ x.buffer = d.buffer
             /\ x = d \/ \A k \in DOMAIN x.levels :
                           IF k \in DOMAIN e.levels THEN x.levels[k].visible = e.levels[k]
                           ELSE ~e.boundary /\ k \in DOMAIN d.levels /\ x.levels[k] = d.levels[k]
  OBVIOUS
<1>1. Seen(d.seenDepth) /\ last \in Nat
  BY DEF Sound, IsDetector, Seen, LastOf, Last
<1>2. CASE e.id \in Range(d.seenDepth)
  <2>1. e.id <= last
    BY <1>1, <1>2 DEF Seen
  <2>2. last = e.id
    BY <1>1, <2>1
  <2>3. x = d
    BY <1>2 DEF ProcessDepth
  <2> QED BY <2>2, <2>3
<1>3. CASE e.id \notin Range(d.seenDepth)
  <2>1. Seen(Remember(d.seenDepth, e.id)) /\ LastOf(Remember(d.seenDepth, e.id)) = e.id
    BY <1>1, RememberKeepsLast
  <2>2. x = PublishVisible(d6, e.time, sense)
    BY <1>3 DEF ProcessDepth
  <2> DEFINE seen == Remember(d.seenDepth, e.id)
  <2>3. d2 = Begun(d, e, seen)
    BY DEF Sound, IsDetector, Fields, Begun
  <2> HIDE DEF d1, d2, seen
  <2>4. /\ Trims(d, d2) /\ d2.seenDepth = seen /\ d2.buffer = d.buffer
        /\ d2.levels = IF e.boundary THEN NoLevels ELSE d.levels
    <3>1. Seen(seen)
      BY <2>1 DEF seen
    <3> QED BY <2>3, <3>1, BoundaryTrims
  <2>5. Sound(d2, reports, ledger)
    BY <2>4, SoundWhenTrimmed
  <2>6. /\ Trims(d2, d3) /\ d3.seenDepth = d2.seenDepth /\ d3.buffer = d2.buffer
        /\ \A k \in DOMAIN d3.levels :
              IF k \in DOMAIN e.levels THEN d3.levels[k].visible = e.levels[k]
              ELSE k \in DOMAIN d2.levels /\ d3.levels[k] = d2.levels[k]
    BY <2>5, ApplyLevelsTrims
  <2> HIDE DEF d3
  <2>7. Sound(d3, reports, ledger)
    BY <2>5, <2>6, SoundWhenTrimmed
  <2>8. SameBook(d3, d4)
    BY <2>6, SampleTouchSame DEF Trims
  <2> HIDE DEF d4
  <2>9. Trims(d3, d4)
    BY <2>7, <2>8, SameBookTrims
  <2>10. Sound(d4, reports, ledger)
    BY <2>7, <2>9, SoundWhenTrimmed
  <2>11. SameBook(d4, d5)
    BY <2>8, RestoreSame DEF SameBook
  <2> HIDE DEF d5
  <2>12. Trims(d4, d5)
    BY <2>10, <2>11, SameBookTrims
  <2>13. Sound(d5, reports, ledger)
    BY <2>10, <2>12, SoundWhenTrimmed
  <2>14. /\ Trims(d5, d6) /\ d6.seenDepth = d5.seenDepth /\ d6.buffer = d5.buffer
         /\ d6.levels = d5.levels
    BY <2>13, UpdateAdverseTrims
  <2> HIDE DEF d6
  <2>15. Sound(d6, reports, ledger)
    BY <2>13, <2>14, SoundWhenTrimmed
  <2> HIDE DEF x
  <2>16. /\ Sound(x, reports, ledger)
         /\ x.levels = d6.levels /\ x.seenTrades = d6.seenTrades
         /\ x.seenDepth = d6.seenDepth /\ x.buffer = d6.buffer
    BY <2>2, <2>15, SoundWhenPublished
  <2>17. /\ x.levels = d3.levels /\ x.seenDepth = seen /\ x.buffer = d.buffer
         /\ x.seenTrades = d.seenTrades
    BY <2>4, <2>6, <2>8, <2>11, <2>14, <2>16 DEF Trims, SameBook
  <2>18. ASSUME NEW k \in DOMAIN x.levels
         PROVE  IF k \in DOMAIN e.levels THEN x.levels[k].visible = e.levels[k]
                ELSE ~e.boundary /\ k \in DOMAIN d.levels /\ x.levels[k] = d.levels[k]
    BY <2>4, <2>6, <2>17 DEF NoLevels
  <2> QED BY <2>1, <2>16, <2>17, <2>18 DEF seen
<1> QED BY <1>2, <1>3

--------------------------------------------------------------------------------
(* The events on their way, in the channels and in the buffer. *)

MarketOK ==
    /\ clock \in Nat \ {0} /\ clock <= MaxTime /\ phase \in {"open", "changed", "closed"}
    /\ hist \in Seq([Key -> Nat]) /\ hist # <<>> /\ touched \subseteq Key
    /\ tradeId \in Nat
    /\ moved \in [Key -> [executed : Nat, added : Nat, cancelled : Nat]]

IsTrade(e) ==
    /\ DOMAIN e = {"type", "time", "recv", "id", "key", "qty"}
    /\ e.id \in Nat \ {0} /\ e.id <= tradeId
    /\ e.time <= clock /\ (e.time = clock => e.id = tradeId /\ phase # "open")

(* The levels a delta names have the quantities of its update id. *)
IsDelta(e) ==
    /\ DOMAIN e = {"type", "time", "recv", "id", "levels", "boundary"}
    /\ e.id \in Nat /\ e.id <= Changed /\ e.boundary \in BOOLEAN /\ Names(e)
    /\ \A k \in DOMAIN e.levels : e.levels[k] = hist[e.id + 1][k]
    /\ e.time <= clock /\ (e.time = clock => e.id = Changed /\ phase = "closed")
    /\ phase = "changed" => e.id < Changed

IsEvent(e) ==
    /\ e.type \in {"Trade", "BookDelta", "Quality", "Reconnect"}
    /\ e.time \in Nat \ {0} /\ e.recv \in Nat
    /\ e.type = "Trade" => IsTrade(e)
    /\ e.type = "BookDelta" => IsDelta(e)
    /\ e.type = "Quality" => e.quality \in Qualities

(* The time an event was received apart, which the channels do not know. *)
Sent(e) == [e EXCEPT !.recv = 0]

SentOf(type, S) == {Sent(e) : e \in {e \in S : e.type = type}}

(* Later ones have higher ids, and none is before the one seen last. *)
InStep(P, last) == /\ \A e \in P : last <= e.id
                   /\ \A e, f \in P : e.time <= f.time => e.id <= f.id

(* The buffer B, and the events C of the channels behind it. *)
Ahead(d, B, C) ==
    /\ B \in Seq(Range(B))
    /\ \A e \in Range(B) : IsEvent(e) /\ ~Interrupts(e)
    /\ \A e \in C : IsEvent(e)
    /\ \A i, j \in 1..Len(B) : i <= j => B[i].time <= B[j].time
    /\ \A e \in Range(B), f \in C :
          e.type = f.type /\ e.type \in {"Trade", "BookDelta"} => e.time <= f.time
    /\ InStep(SentOf("Trade", Range(B) \cup C), LastOf(d.seenTrades))
    /\ InStep(SentOf("BookDelta", Range(B) \cup C), LastOf(d.seenDepth))

(* The book of e's id differs from those from m on only where e says so. *)
Continues(e, m) ==
    \A n \in m..e.id : \A k \in Key \ DOMAIN e.levels : hist[n + 1][k] = hist[e.id + 1][k]

(* The next delta will continue the book of m. *)
NextContinues(m) ==
    \A n \in m..Changed : \A k \in Key \ touched : hist[n + 1][k] = Book[k]

(* Every delta but a boundary continues one before it. *)
Linked(P) ==
    /\ \A e \in P : ~e.boundary /\ (\E c \in P : c.id < e.id)
                       => \E c \in P : c.id < e.id /\ Continues(e, c.id)
    /\ depth = "live" /\ P # {} => \E c \in P : NextContinues(c.id)

(* The first of them continues the book of m. *)
Resumes(P, m) ==
    /\ \A e \in P : ~e.boundary /\ (\A c \in P : e.id <= c.id) => Continues(e, m)
    /\ depth = "live" /\ P = {} => NextContinues(m)

(* The levels of d are those of the book, and the deltas P will keep them so. *)
UpToDate(d, P) ==
    /\ \A k \in DOMAIN d.levels : d.levels[k].visible = hist[LastOf(d.seenDepth) + 1][k]
    /\ Linked(P)
    /\ DOMAIN d.levels = {} \/ Resumes(P, LastOf(d.seenDepth))

(* The books of the history are numbered from 0 to Changed.                  *)
LEMMA ChangedIsNat == MarketOK => Changed \in Nat /\ \A n \in 0..Changed : hist[n + 1] \in [Key -> Nat]
BY DEF MarketOK, Changed

(* An event as sent is the event but for the time it is received.            *)
LEMMA SentIsLike ==
  ASSUME NEW e, IsEvent(e), e.type \in {"Trade", "BookDelta"}
  PROVE  /\ Sent(e).type = e.type /\ Sent(e).time = e.time /\ Sent(e).id = e.id
         /\ e.id \in Nat /\ e.time \in Nat
         /\ e.type = "BookDelta" => Sent(e).levels = e.levels /\ Sent(e).boundary = e.boundary
BY DEF IsEvent, IsTrade, IsDelta, Sent

(* The first of the deltas goes. *)
LEMMA LinkedWithoutFirst ==
  ASSUME MarketOK, NEW P, Linked(P), \A c \in P : c.id \in 0..Changed, NEW h \in P,
         \A c \in P : h.id <= c.id, NEW Q, Q \subseteq P, P \subseteq Q \cup {h}
  PROVE  Linked(Q) /\ Resumes(Q, h.id)
<1>1. Changed \in Nat
  BY ChangedIsNat
<1>2. ASSUME NEW e \in Q, ~e.boundary, NEW b \in Q, b.id < e.id
      PROVE  \E c \in Q : c.id < e.id /\ Continues(e, c.id)
  <2>1. PICK c \in P : c.id < e.id /\ Continues(e, c.id)
    BY <1>2 DEF Linked
  <2>2. CASE c \in Q
    BY <2>1, <2>2
  <2>3. CASE c = h
    <3>1. h.id <= b.id /\ {h.id, b.id, e.id} \subseteq 0..Changed
      BY <1>2
    <3>2. Continues(e, b.id)
      BY <1>1, <2>1, <2>3, <3>1 DEF Continues
    <3> QED BY <1>2, <3>2
  <2> QED BY <2>1, <2>2, <2>3
<1>3. ASSUME depth = "live", NEW b \in Q
      PROVE  \E c \in Q : NextContinues(c.id)
  <2>1. PICK c \in P : NextContinues(c.id)
    BY <1>3 DEF Linked
  <2>2. CASE c = h
    <3>1. h.id <= b.id /\ {h.id, b.id} \subseteq 0..Changed
      BY <1>3
    <3>2. NextContinues(b.id)
      BY <1>1, <2>1, <2>2, <3>1 DEF NextContinues
    <3> QED BY <3>2
  <2> QED BY <2>1, <2>2
<1>4. ASSUME NEW e \in Q, ~e.boundary, \A c \in Q : e.id <= c.id
      PROVE  Continues(e, h.id)
  <2>1. {h.id, e.id} \subseteq 0..Changed /\ h.id <= e.id
    OBVIOUS
  <2>2. CASE h.id < e.id
    <3>1. PICK c \in P : c.id < e.id /\ Continues(e, c.id)
      BY <1>4, <2>2 DEF Linked
    <3>2. c \notin Q
      <4>1. c.id \in 0..Changed
        OBVIOUS
      <4> QED BY <1>1, <1>4, <2>1, <3>1, <4>1
    <3> QED BY <3>1, <3>2
  <2>3. CASE h.id = e.id
    BY <1>1, <2>1, <2>3 DEF Continues
  <2> QED BY <1>1, <2>1, <2>2, <2>3
<1>5. ASSUME depth = "live", Q = {}
      PROVE  NextContinues(h.id)
  BY <1>5 DEF Linked
<1> QED BY <1>2, <1>3, <1>4, <1>5 DEF Linked, Resumes

(* What a delta h, the first of P, makes of the levels. *)
LEMMA UpToDateAfterFirst ==
  ASSUME MarketOK, NEW d, NEW P, UpToDate(d, P), LastOf(d.seenDepth) \in Nat,
         \A c \in P : c.id \in 0..Changed, NEW h \in P,
         \A c \in P : h.id <= c.id, LastOf(d.seenDepth) <= h.id,
         \A k \in DOMAIN h.levels : h.levels[k] = hist[h.id + 1][k],
         NEW Q, Q \subseteq P, P \subseteq Q \cup {h},
         NEW x, LastOf(x.seenDepth) = h.id, DOMAIN x.levels \subseteq Key,
         x = d \/ \A k \in DOMAIN x.levels :
                     IF k \in DOMAIN h.levels THEN x.levels[k].visible = h.levels[k]
                     ELSE ~h.boundary /\ k \in DOMAIN d.levels /\ x.levels[k] = d.levels[k]
  PROVE  UpToDate(x, Q)
<1>1. Linked(Q) /\ Resumes(Q, h.id)
  BY LinkedWithoutFirst DEF UpToDate
<1>2. ASSUME NEW k \in DOMAIN x.levels
      PROVE  x.levels[k].visible = hist[h.id + 1][k]
  <2>1. CASE x = d
    BY <2>1 DEF UpToDate
  <2>2. CASE /\ x # d /\ ~h.boundary /\ k \notin DOMAIN h.levels
             /\ k \in DOMAIN d.levels /\ x.levels[k] = d.levels[k]
    <3>1. Continues(h, LastOf(d.seenDepth))
      BY <2>2 DEF UpToDate, Resumes
    <3>2. LastOf(d.seenDepth) \in LastOf(d.seenDepth)..h.id /\ k \in Key \ DOMAIN h.levels
      BY <2>2
    <3>3. hist[LastOf(d.seenDepth) + 1][k] = hist[h.id + 1][k]
      BY <3>1, <3>2 DEF Continues
    <3> QED BY <2>2, <3>3 DEF UpToDate
  <2> QED BY <2>1, <2>2
<1> QED BY <1>1, <1>2 DEF UpToDate

(* The head of the buffer is the first of its type. *)
LEMMA HeadIsFirst ==
  ASSUME MarketOK, NEW d, NEW B, NEW C, Ahead(d, B, C), B # <<>>,
         NEW type \in {"Trade", "BookDelta"}, Head(B).type = type
  PROVE  LET P == SentOf(type, Range(B) \cup C)
             h == Sent(Head(B))
         IN /\ h \in P /\ \A f \in P : h.id <= f.id
            /\ SentOf(type, Range(Tail(B)) \cup C) \subseteq P
            /\ P \subseteq SentOf(type, Range(Tail(B)) \cup C) \cup {h}
<1> DEFINE e == Head(B)
<1>1. /\ B \in Seq(Range(B)) /\ e = B[1] /\ 1 \in 1..Len(B)
      /\ Range(B) = {B[i] : i \in 1..Len(B)}
  BY DEF Ahead, Range
<1>2. Range(Tail(B)) \subseteq Range(B) /\ Range(B) \subseteq Range(Tail(B)) \cup {e}
  BY <1>1, TailOf
<1> HIDE DEF e
<1>3. ASSUME NEW g \in Range(B) \cup C, g.type = type
      PROVE  e.time <= g.time
  <2>1. CASE g \in Range(B)
    <3>1. PICK i \in 1..Len(B) : g = B[i]
      BY <1>1, <2>1
    <3>2. 1 <= i
      BY <1>1, <3>1
    <3> QED BY <1>1, <3>1, <3>2 DEF Ahead
  <2>2. CASE g \in C
    BY <1>1, <1>3, <2>2 DEF Ahead, e
  <2> QED BY <2>1, <2>2
<1>4. e \in Range(B) /\ e.type = type
  BY <1>1 DEF e
<1>5. Sent(e) \in SentOf(type, Range(B) \cup C)
  BY <1>4 DEF SentOf
<1>6. ASSUME NEW f \in SentOf(type, Range(B) \cup C)
      PROVE  Sent(e).id <= f.id
  <2>1. PICK g \in Range(B) \cup C : g.type = type /\ f = Sent(g)
    BY DEF SentOf
  <2>2. IsEvent(g) /\ IsEvent(e)
    BY <1>4 DEF Ahead
  <2>3. Sent(e).time <= f.time
    BY <1>3, <1>4, <2>1, <2>2, SentIsLike
  <2> QED BY <1>5, <2>3 DEF Ahead, InStep
<1>7. /\ SentOf(type, Range(Tail(B)) \cup C) \subseteq SentOf(type, Range(B) \cup C)
      /\ SentOf(type, Range(B) \cup C) \subseteq SentOf(type, Range(Tail(B)) \cup C) \cup {Sent(e)}
  BY <1>2 DEF SentOf
<1> QED BY <1>5, <1>6, <1>7 DEF e

(* The other types lose nothing with the head. *)
LEMMA OthersStay ==
  ASSUME NEW B, B \in Seq(Range(B)), B # <<>>, NEW C, NEW type, Head(B).type # type
  PROVE  SentOf(type, Range(Tail(B)) \cup C) = SentOf(type, Range(B) \cup C)
<1>1. Range(Tail(B)) \subseteq Range(B) /\ Range(B) \subseteq Range(Tail(B)) \cup {Head(B)}
  BY TailOf
<1> QED BY <1>1 DEF SentOf

--------------------------------------------------------------------------------
(* The detector d with the buffer B, behind which are the events C; it has *)
(* published reports, and uninterrupted means it was given every event     *)
(* since it was last interrupted.                                          *)

AllPaid(S, ledger) == \A e \in S : e.type = "Trade" => Paid(e, ledger)

Good(d, B, C, uninterrupted, reports, ledger) ==
    /\ Sound(d, reports, ledger) /\ Ahead(d, B, C) /\ AllPaid(Range(B), ledger)
    /\ LastOf(d.seenTrades) <= tradeId /\ LastOf(d.seenDepth) <= Changed
    /\ uninterrupted => UpToDate(d, SentOf("BookDelta", Range(B) \cup C))

(* process: the head of the buffer is taken by the detector.                 *)
LEMMA GoodAfterProcess ==
  ASSUME MarketOK, NEW ledger, IsLedger(ledger), NEW d, NEW B, NEW C, NEW reports,
         NEW uninterrupted \in BOOLEAN,
         Good(d, B, C, uninterrupted, reports, ledger), B # <<>>, NEW sense
  PROVE  LET x == Process(d, Head(B), sense)
         IN Good(x, Tail(B), C, uninterrupted, reports, ledger) /\ x.buffer = d.buffer
<1> DEFINE e == Head(B)
           x == Process(d, e, sense)
           y == Expire(d, e.time)
           P(type) == SentOf(type, Range(B) \cup C)
           Q(type) == SentOf(type, Range(Tail(B)) \cup C)
<1> SUFFICES Good(x, Tail(B), C, uninterrupted, reports, ledger) /\ x.buffer = d.buffer
  OBVIOUS
<1>1. /\ Sound(d, reports, ledger) /\ Ahead(d, B, C) /\ B \in Seq(Range(B))
      /\ LastOf(d.seenTrades) \in Nat /\ LastOf(d.seenDepth) \in Nat /\ Changed \in Nat
  <2>1. Sound(d, reports, ledger) /\ Ahead(d, B, C)
    BY DEF Good
  <2>2. Seen(d.seenTrades) /\ Seen(d.seenDepth)
    BY <2>1 DEF Sound, IsDetector
  <2>3. LastOf(d.seenTrades) \in Nat /\ LastOf(d.seenDepth) \in Nat
    BY <2>2 DEF Seen, LastOf, Last
  <2>4. B \in Seq(Range(B)) /\ Changed \in Nat
    BY <2>1, ChangedIsNat DEF Ahead
  <2> QED BY <2>1, <2>3, <2>4
<1>2. /\ Tail(B) \in Seq(Range(Tail(B))) /\ Range(Tail(B)) \subseteq Range(B) /\ e \in Range(B)
      /\ Len(Tail(B)) = Len(B) - 1 /\ \A i \in 1..Len(Tail(B)) : Tail(B)[i] = B[i + 1]
  BY <1>1, TailOf
<1>3. IsEvent(e) /\ ~Interrupts(e) /\ (e.type = "Trade" => Paid(e, ledger))
  BY <1>1, <1>2 DEF Good, Ahead, AllPaid
<1>4. e.type \in {"Trade", "BookDelta", "Quality"}
  BY <1>3 DEF IsEvent, Interrupts
<1>5. /\ Trims(d, y) /\ y.levels = d.levels /\ y.seenDepth = d.seenDepth
      /\ y.buffer = d.buffer
  BY <1>1, ExpireTrims
<1> HIDE DEF y
<1>6. Sound(y, reports, ledger) /\ y.seenTrades = d.seenTrades
  BY <1>1, <1>5, SoundWhenTrimmed DEF Trims
<1> HIDE DEF e
<1>7. ASSUME NEW z, InStep(Q("Trade"), LastOf(z.seenTrades)),
             InStep(Q("BookDelta"), LastOf(z.seenDepth))
      PROVE  Ahead(z, Tail(B), C)
  <2>1. \A f \in Range(Tail(B)) : IsEvent(f) /\ ~Interrupts(f)
    BY <1>1, <1>2 DEF Ahead
  <2>2. \A i, j \in 1..Len(Tail(B)) : i <= j => Tail(B)[i].time <= Tail(B)[j].time
    BY <1>1, <1>2 DEF Ahead
  <2>3. \A f \in Range(Tail(B)), g \in C :
           f.type = g.type /\ f.type \in {"Trade", "BookDelta"} => f.time <= g.time
    BY <1>1, <1>2 DEF Ahead
  <2> QED BY <1>1, <1>2, <1>7, <2>1, <2>2, <2>3 DEF Ahead
<1>8. ASSUME NEW type, e.type # type
      PROVE  Q(type) = P(type)
  BY <1>1, <1>8, OthersStay DEF e
<1>9. ASSUME NEW type \in {"Trade", "BookDelta"}, e.type = type
      PROVE  /\ Sent(e) \in P(type) /\ \A f \in P(type) : e.id <= f.id
             /\ Q(type) \subseteq P(type) /\ P(type) \subseteq Q(type) \cup {Sent(e)}
             /\ Sent(e).id = e.id /\ e.id \in Nat
  BY <1>1, <1>3, <1>9, HeadIsFirst, SentIsLike DEF e
<1>10. AllPaid(Range(Tail(B)), ledger)
  BY <1>2 DEF Good, AllPaid
<1> HIDE DEF P, Q
<1>11. InStep(P("Trade"), LastOf(d.seenTrades)) /\ InStep(P("BookDelta"), LastOf(d.seenDepth))
  BY <1>1 DEF Ahead, P
<1>12. uninterrupted => UpToDate(d, P("BookDelta"))
  BY DEF Good, P
<1>13. CASE e.type = "Trade"
  <2>1. x = ProcessTrade(y, e, sense)
    BY <1>13 DEF Process, y
  <2>2. /\ Sent(e) \in P("Trade") /\ \A f \in P("Trade") : e.id <= f.id
        /\ Q("Trade") \subseteq P("Trade") /\ Sent(e).id = e.id /\ e.id \in Nat
    BY <1>9, <1>13
  <2>3. LastOf(d.seenTrades) <= e.id
    BY <1>11, <2>2 DEF InStep
  <2> HIDE DEF x
  <2>4. /\ Sound(x, reports, ledger) /\ LastOf(x.seenTrades) = e.id
        /\ x.seenDepth = y.seenDepth /\ x.buffer = y.buffer
        /\ DOMAIN x.levels = DOMAIN y.levels
        /\ \A k \in DOMAIN y.levels : x.levels[k].visible = y.levels[k].visible
    BY <1>3, <1>6, <1>13, <2>1, <2>3, SoundAfterTrade
  <2>5. InStep(Q("Trade"), e.id)
    BY <1>11, <2>2 DEF InStep
  <2>6. Q("BookDelta") = P("BookDelta")
    BY <1>8, <1>13
  <2>7. Ahead(x, Tail(B), C)
    BY <1>5, <1>7, <1>11, <2>4, <2>5, <2>6
  <2>8. uninterrupted => UpToDate(x, Q("BookDelta"))
    BY <1>5, <1>12, <2>4, <2>6 DEF UpToDate
  <2>9. e.id <= tradeId
    BY <1>3, <1>13 DEF IsEvent, IsTrade
  <2> QED BY <1>5, <1>10, <2>4, <2>7, <2>8, <2>9 DEF Good, Q
<1>14. CASE e.type = "BookDelta"
  <2>1. x = ProcessDepth(y, e, sense)
    BY <1>14 DEF Process, y
  <2>2. /\ Sent(e) \in P("BookDelta") /\ \A f \in P("BookDelta") : e.id <= f.id
        /\ Q("BookDelta") \subseteq P("BookDelta")
        /\ P("BookDelta") \subseteq Q("BookDelta") \cup {Sent(e)}
        /\ Sent(e).id = e.id /\ e.id \in Nat
    BY <1>9, <1>14
  <2>3. LastOf(d.seenDepth) <= e.id
    BY <1>11, <2>2 DEF InStep
  <2>4. /\ Names(e) /\ e.id \in Nat /\ e.id <= Changed /\ e.time \in Nat \ {0} /\ e.boundary \in BOOLEAN
        /\ \A k \in DOMAIN e.levels : e.levels[k] = hist[e.id + 1][k]
    BY <1>3, <1>14 DEF IsEvent, IsDelta
  <2> HIDE DEF x
  <2>5. /\ Sound(x, reports, ledger) /\ LastOf(x.seenDepth) = e.id
        /\ x.seenTrades = y.seenTrades /\ x.buffer = y.buffer
        /\ x = y \/ \A k \in DOMAIN x.levels :
                       IF k \in DOMAIN e.levels THEN x.levels[k].visible = e.levels[k]
                       ELSE ~e.boundary /\ k \in DOMAIN y.levels /\ x.levels[k] = y.levels[k]
    BY <1>5, <1>6, <2>1, <2>3, <2>4, SoundAfterDelta
  <2>6. InStep(Q("BookDelta"), e.id)
    BY <1>11, <2>2 DEF InStep
  <2>7. Q("Trade") = P("Trade")
    BY <1>8, <1>14
  <2>8. Ahead(x, Tail(B), C)
    BY <1>6, <1>7, <1>11, <2>5, <2>6, <2>7
  <2>9. ASSUME uninterrupted
        PROVE  UpToDate(x, Q("BookDelta"))
    <3>1. UpToDate(y, P("BookDelta"))
      BY <1>5, <1>12, <2>9 DEF UpToDate
    <3>2. \A c \in P("BookDelta") : c.id \in 0..Changed
      <4>1. ASSUME NEW c \in P("BookDelta")
            PROVE  c.id \in 0..Changed
        <5>1. PICK g \in Range(B) \cup C : g.type = "BookDelta" /\ c = Sent(g)
          BY DEF P, SentOf
        <5>2. IsEvent(g)
          BY <1>1 DEF Ahead
        <5>3. g.id \in Nat /\ g.id <= Changed
          BY <5>1, <5>2 DEF IsEvent, IsDelta
        <5> QED BY <1>1, <5>1, <5>2, <5>3, SentIsLike
      <4> QED BY <4>1
    <3> DEFINE h == Sent(e)
    <3>3. h.levels = e.levels /\ h.boundary = e.boundary /\ h.id = e.id
      BY <1>3, <1>14, SentIsLike
    <3> HIDE DEF h
    <3>4. DOMAIN x.levels \subseteq Key
      BY <2>5 DEF Sound, IsDetector, LevelsOK
    <3>5. \A k \in DOMAIN h.levels : h.levels[k] = hist[h.id + 1][k]
      BY <2>4, <3>3
    <3>6. h \in P("BookDelta") /\ P("BookDelta") \subseteq Q("BookDelta") \cup {h} /\ \A c \in P("BookDelta") : h.id <= c.id
      BY <2>2, <3>3 DEF h
    <3>7. x = y \/ \A k \in DOMAIN x.levels :
                       IF k \in DOMAIN h.levels THEN x.levels[k].visible = h.levels[k]
                       ELSE ~h.boundary /\ k \in DOMAIN y.levels /\ x.levels[k] = y.levels[k]
      BY <2>5, <3>3
    <3>8. LastOf(y.seenDepth) \in Nat /\ LastOf(y.seenDepth) <= h.id /\ LastOf(x.seenDepth) = h.id
      BY <1>1, <1>5, <2>3, <2>5, <3>3
    <3> QED BY <2>2, <3>1, <3>2, <3>4, <3>5, <3>6, <3>7, <3>8, UpToDateAfterFirst
  <2> QED BY <1>5, <1>6, <1>10, <2>4, <2>5, <2>8, <2>9 DEF Good, Q
<1>15. CASE e.type = "Quality"
  <2>1. x = ProcessQuality(y, e)
    BY <1>15 DEF Process, y
  <2>2. e.quality \in Qualities
    BY <1>3, <1>15 DEF IsEvent
  <2>3. /\ DOMAIN x = Fields /\ x.quality \in Qualities /\ x.nextId = y.nextId
        /\ x.seenTrades = y.seenTrades /\ x.seenDepth = y.seenDepth /\ x.buffer = y.buffer
        /\ x.events = y.events /\ x.levels = y.levels
        /\ x.episodes = y.episodes \/ x.episodes = NoLevels
    BY <1>6, <2>1, <2>2 DEF ProcessQuality, Sound, IsDetector, Fields
  <2> HIDE DEF x
  <2>4. Trims(y, x)
    <3>1. \A k \in DOMAIN y.episodes :
             IsEpisode(y.episodes[k]) /\ Follows(y.episodes[k], y.episodes[k]) /\ k \in DOMAIN y.levels
      BY <1>6 DEF Sound, IsDetector, EpisodesOK, IsEpisode, Follows
    <3>2. /\ DOMAIN x.episodes \subseteq DOMAIN y.episodes
          /\ \A k \in DOMAIN x.episodes : x.episodes[k] = y.episodes[k]
      BY <2>3 DEF NoLevels
    <3> QED BY <1>6, <2>3, <3>1, <3>2 DEF Trims, Sound, IsDetector, EventsOK
  <2>5. Sound(x, reports, ledger)
    BY <1>6, <2>4, SoundWhenTrimmed
  <2>6. Q("Trade") = P("Trade") /\ Q("BookDelta") = P("BookDelta")
    BY <1>8, <1>15
  <2>7. Ahead(x, Tail(B), C)
    BY <1>5, <1>6, <1>7, <1>11, <2>3, <2>6
  <2>8. uninterrupted => UpToDate(x, Q("BookDelta"))
    BY <1>5, <1>12, <2>3, <2>6 DEF UpToDate
  <2>9. LastOf(x.seenTrades) <= tradeId /\ LastOf(x.seenDepth) <= Changed
    BY <1>5, <1>6, <2>3 DEF Good
  <2> QED BY <1>5, <1>10, <2>3, <2>5, <2>7, <2>8, <2>9 DEF Good, Q
<1> QED BY <1>4, <1>13, <1>14, <1>15

(* Only what the events are about has changed in x. *)
LEMMA GoodWhenSame ==
  ASSUME NEW ledger, NEW d, NEW B, NEW C, NEW reports, NEW uninterrupted \in BOOLEAN,
         Good(d, B, C, uninterrupted, reports, ledger),
         NEW x, DOMAIN x = Fields, x.quality \in Qualities, x.nextId = d.nextId,
         x.seenTrades = d.seenTrades, x.seenDepth = d.seenDepth,
         x.events = d.events, x.levels = d.levels, x.episodes = d.episodes
  PROVE  Good(x, B, C, uninterrupted, reports, ledger)
<1>1. \A k \in DOMAIN d.episodes :
         IsEpisode(d.episodes[k]) /\ Follows(d.episodes[k], d.episodes[k]) /\ k \in DOMAIN d.levels
  BY DEF Good, Sound, IsDetector, EpisodesOK, IsEpisode, Follows
<1>2. Trims(d, x)
  BY <1>1 DEF Good, Trims, Sound, IsDetector, EventsOK
<1>3. Sound(x, reports, ledger)
  BY <1>2, SoundWhenTrimmed DEF Good
<1> QED BY <1>3 DEF Good, Ahead, UpToDate

(* What is left of the buffer after i events starts with the next. *)
LEMMA RestOf ==
  ASSUME NEW S, NEW B \in Seq(S), NEW i \in Nat, i + 1 <= Len(B)
  PROVE  LET s == SubSeq(B, i + 1, Len(B))
             t == SubSeq(B, (i + 1) + 1, Len(B))
         IN s # <<>> /\ Head(s) = B[i + 1] /\ Tail(s) = t /\ t \in Seq(S)
<1> DEFINE rest(j) == SubSeq(B, j + 1, Len(B))
           s == rest(i)
           t == rest(i + 1)
<1>1. i + 1 \in Nat /\ Len(B) \in Nat /\ i <= Len(B)
  OBVIOUS
<1>2. ASSUME NEW j \in Nat, j <= Len(B)
      PROVE  /\ rest(j) \in Seq(S) /\ Len(rest(j)) = Len(B) - j
             /\ \A k \in 1..Len(B) - j : rest(j)[k] = B[j + k]
  <2> DEFINE r == SubSeq(B, j + 1, Len(B))
  <2>1. r \in Seq(S) /\ Len(r) = Len(B) - j
    BY <1>1, <1>2
  <2>2. ASSUME NEW k \in 1..Len(B) - j
        PROVE  r[k] = B[j + k]
    <3>1. k \in 1..(Len(B) - (j + 1)) + 1 /\ (j + 1) + k - 1 = j + k /\ j + 1 \in Nat
      BY <1>1, <1>2
    <3>2. r[k] = B[(j + 1) + k - 1]
      BY <1>1, <1>2, <3>1
    <3> QED BY <3>1, <3>2
  <2> QED BY <2>1, <2>2
<1> HIDE DEF rest
<1>3. s \in Seq(S) /\ Len(s) = Len(B) - i /\ \A k \in 1..Len(B) - i : s[k] = B[i + k]
  BY <1>1, <1>2
<1>4. t \in Seq(S) /\ Len(t) = Len(B) - (i + 1) /\ \A k \in 1..Len(B) - (i + 1) : t[k] = B[(i + 1) + k]
  BY <1>1, <1>2
<1> HIDE DEF s, t
<1>5. Len(s) \in Nat \ {0} /\ 1 \in 1..Len(B) - i
  BY <1>1, <1>3
<1>6. s # <<>> /\ Head(s) = s[1] /\ s[1] = B[i + 1]
  BY <1>3, <1>5
<1>7. /\ Tail(s) \in Seq(S) /\ Len(Tail(s)) = Len(s) - 1
      /\ \A k \in 1..Len(s) - 1 : Tail(s)[k] = s[k + 1]
  BY <1>3, <1>6
<1>8. Len(Tail(s)) = Len(t)
  BY <1>1, <1>3, <1>4, <1>7
<1>9. ASSUME NEW k \in 1..Len(t)
      PROVE  Tail(s)[k] = t[k]
  <2>1. k + 1 \in 1..Len(B) - i /\ i + (k + 1) = (i + 1) + k /\ k \in 1..Len(s) - 1 /\ k \in 1..Len(B) - (i + 1)
    BY <1>1, <1>3, <1>4
  <2> QED BY <1>3, <1>4, <1>7, <2>1
<1>10. Tail(s) = t
  BY <1>4, <1>7, <1>8, <1>9, SameSequence
<1> QED BY <1>4, <1>6, <1>10 DEF s, t, rest

(* The detectors that ProcessFirst goes through. *)
Unfolds(d, n, sense, after) ==
    /\ after[0] = [d EXCEPT !.buffer = SubSeq(d.buffer, n + 1, Len(d.buffer))]
    /\ \A i \in 1..n : after[i] = Process(after[i - 1], d.buffer[i], sense)

Buffered(d) == d.buffer \in Seq(Range(d.buffer))

(* They are those of the function by which it is defined.                    *)
LEMMA FirstUnfold ==
  ASSUME NEW d, Buffered(d), NEW n \in 0..Len(d.buffer), NEW sense
  PROVE  \E after : ProcessFirst(d, n, sense) = after[n] /\ Unfolds(d, n, sense, after)
<1> DEFINE B == d.buffer
           rest(i) == SubSeq(B, i + 1, Len(B))
           first == [d EXCEPT !.buffer = rest(n)]
           step(f, i) == IF i = 0 THEN first ELSE Process(f[i - 1], B[i], sense)
           Upto(m, f) == f = [i \in 0..m |-> step(f, i)]
           S == {m \in 0..n : \E f : Upto(m, f)}
           after == CHOOSE f : Upto(n, f)
           x == ProcessFirst(d, n, sense)
<1>1. B \in Seq(Range(B)) /\ n \in Nat /\ Len(B) \in Nat
  BY DEF Buffered
<1>2. 0..n \subseteq S
  <2>1. 0 \in S
    <3> DEFINE f == [i \in 0..0 |-> first]
    <3>1. Upto(0, f)
      OBVIOUS
    <3> HIDE DEF f, Upto
    <3> QED BY <1>1, <3>1
  <2>2. ASSUME NEW m \in 0..n - 1, m \in S
        PROVE  m + 1 \in S
    <3>1. PICK f : Upto(m, f)
      BY <2>2
    <3> DEFINE g == [i \in 0..m + 1 |-> IF i = m + 1 THEN Process(f[m], B[i], sense) ELSE f[i]]
    <3>2. ASSUME NEW i \in 0..m + 1
          PROVE  g[i] = step(g, i)
      <4>1. CASE i = m + 1
        BY <4>1
      <4>2. CASE i \in 0..m
        <5>1. f[i] = step(f, i) /\ g[i] = f[i]
          <6>1. g[i] = f[i]
            BY <4>2
          <6> HIDE DEF step, g
          <6>2. f[i] = step(f, i)
            BY <3>1, <4>2
          <6> QED BY <6>1, <6>2
        <5>2. i # 0 => g[i - 1] = f[i - 1]
          BY <4>2
        <5> HIDE DEF g, first
        <5> QED BY <5>1, <5>2
      <4> QED BY <4>1, <4>2
    <3>3. g = [i \in 0..m + 1 |-> g[i]]
      OBVIOUS
    <3> HIDE DEF g, step
    <3>4. Upto(m + 1, g)
      BY <3>2, <3>3
    <3> HIDE DEF Upto
    <3> QED BY <1>1, <3>4
  <2> HIDE DEF S
  <2> QED BY <1>1, <2>1, <2>2, UpToInduction
<1>3. Upto(n, after)
  <2>1. \E f : Upto(n, f)
    BY <1>1, <1>2
  <2> HIDE DEF Upto
  <2> QED BY <2>1
<1>4. x = after[n]
  BY DEF ProcessFirst
<1> HIDE DEF after, S, x
<1>5. after[0] = first /\ \A i \in 1..n : after[i] = Process(after[i - 1], B[i], sense)
  <2>1. ASSUME NEW i \in 0..n
        PROVE  after[i] = step(after, i)
    <3> HIDE DEF step
    <3> QED BY <1>3
  <2> HIDE DEF first
  <2>2. \A i \in 1..n : i \in 0..n /\ i # 0
    OBVIOUS
  <2>3. 0 \in 0..n
    BY <1>1
  <2> QED BY <2>1, <2>2, <2>3
<1> HIDE DEF Upto
<1> QED BY <1>4, <1>5 DEF x, Unfolds

(* The first n of the buffer are taken, one after the other.                 *)
LEMMA GoodAfterFirst ==
  ASSUME MarketOK, NEW ledger, IsLedger(ledger), NEW d, NEW C, NEW reports,
         NEW uninterrupted \in BOOLEAN,
         Good(d, d.buffer, C, uninterrupted, reports, ledger),
         NEW n \in 0..Len(d.buffer), NEW sense
  PROVE  LET x == ProcessFirst(d, n, sense)
         IN /\ Good(x, x.buffer, C, uninterrupted, reports, ledger)
            /\ Len(x.buffer) <= Len(d.buffer)
<1> DEFINE B == d.buffer
           rest(i) == SubSeq(B, i + 1, Len(B))
           first == [d EXCEPT !.buffer = rest(n)]
           x == ProcessFirst(d, n, sense)
<1>1. B \in Seq(Range(B)) /\ n \in Nat /\ Len(B) \in Nat
  BY DEF Good, Ahead
<1>2. PICK after : x = after[n] /\ Unfolds(d, n, sense, after)
  BY <1>1, FirstUnfold DEF Buffered
<1> HIDE DEF x
<1>5. after[0] = first /\ \A i \in 1..n : after[i] = Process(after[i - 1], B[i], sense)
  BY <1>2 DEF Unfolds
<1> DEFINE G(i) == /\ Good(after[i], rest(i), C, uninterrupted, reports, ledger)
                   /\ after[i].buffer = rest(n)
           T == {i \in 0..n : G(i)}
<1>6. 0 \in T
  <2>1. /\ DOMAIN first = Fields /\ first.quality = d.quality /\ first.nextId = d.nextId
        /\ first.seenTrades = d.seenTrades /\ first.seenDepth = d.seenDepth
        /\ first.events = d.events /\ first.levels = d.levels /\ first.episodes = d.episodes
        /\ first.buffer = rest(n) /\ d.quality \in Qualities
    BY DEF Good, Sound, IsDetector, Fields
  <2>2. rest(0) = B
    BY <1>1
  <2> HIDE DEF first, rest
  <2>3. Good(first, B, C, uninterrupted, reports, ledger)
    BY <2>1, GoodWhenSame
  <2> QED BY <1>1, <1>5, <2>1, <2>2, <2>3
<1>7. ASSUME NEW i \in 0..n - 1, i \in T
      PROVE  i + 1 \in T
  <2> DEFINE s == rest(i)
             t == rest(i + 1)
             y == Process(after[i], Head(s), sense)
  <2>1. i \in Nat /\ i + 1 \in 1..n /\ (i + 1) - 1 = i /\ i + 1 <= Len(B)
    BY <1>1
  <2>4. G(i)
    BY <1>7
  <2>5. after[i + 1] = Process(after[i], B[i + 1], sense)
    <3> HIDE DEF G, s, t, T
    <3> QED BY <1>5, <2>1
  <2> HIDE DEF s, t
  <2>6. s # <<>> /\ Head(s) = B[i + 1] /\ Tail(s) = t
    <3> HIDE DEF B, T, G, first
    <3> QED BY <1>1, <2>1, RestOf DEF s, t
  <2>8. Good(after[i], s, C, uninterrupted, reports, ledger) /\ after[i].buffer = rest(n)
    BY <2>4 DEF s
  <2>9. Good(y, Tail(s), C, uninterrupted, reports, ledger) /\ y.buffer = after[i].buffer
    <3> DEFINE z == after[i]
    <3>1. Good(z, s, C, uninterrupted, reports, ledger)
      BY <2>8
    <3> HIDE DEF z, T, G, rest
    <3>2. Good(Process(z, Head(s), sense), Tail(s), C, uninterrupted, reports, ledger)
          /\ Process(z, Head(s), sense).buffer = z.buffer
      BY <2>6, <3>1, GoodAfterProcess
    <3> QED BY <3>2 DEF z
  <2>10. y = after[i + 1]
    BY <2>5, <2>6
  <2> HIDE DEF y
  <2>11. G(i + 1)
    BY <2>6, <2>8, <2>9, <2>10 DEF t
  <2> HIDE DEF G
  <2> QED BY <1>1, <2>1, <2>11
<1>8. 0..n \subseteq T
  <2> HIDE DEF T, G
  <2> QED BY <1>1, <1>6, <1>7, UpToInduction
<1>9. G(n)
  <2> HIDE DEF G
  <2>1. n \in 0..n
    BY <1>1
  <2> QED BY <1>8, <2>1 DEF T
<1>10. Len(rest(n)) <= Len(B)
  BY <1>1
<1> QED BY <1>2, <1>9, <1>10 DEF x

(* t is B with e put in behind the first p. *)
PutBehind(B, e, t, p) ==
    /\ p \in 0..Len(B) /\ Len(t) = Len(B) + 1
    /\ \A i \in 1..Len(t) : /\ i <= p => t[i] = B[i] /\ i \in 1..Len(B)
                            /\ i = p + 1 => t[i] = e
                            /\ i > p + 1 => t[i] = B[i - 1] /\ i - 1 \in 1..Len(B)
    /\ p # 0 => NotAfter(B[p], e)
    /\ \A i \in 1..Len(B) : NotAfter(B[i], e) => i <= p

(* buffer_cmp orders by time first. *)
LEMMA InsertedOf ==
  ASSUME NEW S, NEW B \in Seq(S), NEW e \in S, \A b \in S : b.time \in Nat,
         \A i, j \in 1..Len(B) : i <= j => B[i].time <= B[j].time
  PROVE  LET t == InsertSorted(B, e)
         IN /\ t \in Seq(S) /\ Len(t) = Len(B) + 1 /\ Range(t) = Range(B) \cup {e}
            /\ \A i, j \in 1..Len(t) : i <= j => t[i].time <= t[j].time
            /\ \E p : PutBehind(B, e, t, p)
<1> DEFINE K == {0} \cup {i \in 1..Len(B) : NotAfter(B[i], e)}
           p == Max(K)
           t == InsertSorted(B, e)
<1>1. Len(B) \in Nat
  OBVIOUS
<1>2. p \in K /\ \A i \in K : i <= p
  <2>1. K \subseteq 0..Len(B) /\ K # {}
    BY <1>1
  <2> HIDE DEF K
  <2>2. \E x \in K : \A y \in K : x >= y
    BY <1>1, <2>1, GreatestNat
  <2>3. p \in K /\ \A i \in K : p >= i
    BY <2>2 DEF Max
  <2>4. K \subseteq Nat
    BY <2>1
  <2> HIDE DEF p
  <2> QED BY <2>3, <2>4
<1>0. t = InsertAt(B, 1 + p, e)
  BY DEF InsertSorted
<1> HIDE DEF p, t
<1>4. p \in 0..Len(B)
  BY <1>1, <1>2
<1>3. t = SubSeq(B, 1, p) \o <<e>> \o SubSeq(B, p + 1, Len(B))
  <2>1. (1 + p) - 1 = p /\ 1 + p = p + 1
    BY <1>4
  <2> QED BY <1>0, <2>1 DEF InsertAt
<1>5. \A i \in 1..Len(B) : NotAfter(B[i], e) => i <= p
  BY <1>2
<1>6. p # 0 => NotAfter(B[p], e)
  BY <1>2
<1> HIDE DEF K
<1> DEFINE u == SubSeq(B, 1, p)
           v == SubSeq(B, p + 1, Len(B))
<1>7. u \in Seq(S) /\ Len(u) = p /\ \A i \in 1..p : u[i] = B[i]
  BY <1>1, <1>4
<1>8. v \in Seq(S) /\ Len(v) = Len(B) - p /\ \A i \in 1..Len(v) : v[i] = B[p + i]
  BY <1>1, <1>4
<1>9. t = (u \o <<e>>) \o v
  BY <1>3
<1> HIDE DEF u, v
<1> DEFINE w == u \o <<e>>
<1>10. /\ w \in Seq(S) /\ Len(w) = p + 1 /\ w[p + 1] = e /\ \A i \in 1..p : w[i] = B[i]
  BY <1>4, <1>7
<1> HIDE DEF w
<1>11. /\ t \in Seq(S) /\ Len(t) = Len(B) + 1
       /\ \A i \in 1..Len(t) : t[i] = IF i <= p + 1 THEN w[i] ELSE v[i - (p + 1)]
  BY <1>1, <1>4, <1>8, <1>9, <1>10 DEF w
<1>12. ASSUME NEW i \in 1..Len(t)
       PROVE  /\ i <= p => t[i] = B[i] /\ i \in 1..Len(B)
              /\ i = p + 1 => t[i] = e
              /\ i > p + 1 => t[i] = B[i - 1] /\ i - 1 \in 1..Len(B)
  <2>4. i \in Nat \ {0} /\ i <= Len(B) + 1 /\ p \in Nat
    BY <1>1, <1>4, <1>11
  <2>1. CASE i <= p
    <3>1. i \in 1..p /\ i <= p + 1 /\ i \in 1..Len(B)
      BY <1>1, <1>4, <2>1, <2>4
    <3>2. w[i] = B[i] /\ t[i] = w[i]
      BY <1>10, <1>11, <3>1
    <3> QED BY <2>1, <2>4, <3>1, <3>2
  <2>2. CASE i = p + 1
    BY <1>1, <1>4, <1>10, <1>11, <2>2
  <2>3. CASE i > p + 1
    <3>1. i - (p + 1) \in 1..Len(v) /\ p + (i - (p + 1)) = i - 1 /\ i - 1 \in 1..Len(B)
      BY <1>1, <1>4, <1>8, <1>11, <2>3
    <3>2. t[i] = v[i - (p + 1)]
      BY <1>11, <2>3, <2>4
    <3>3. v[i - (p + 1)] = B[i - 1]
      BY <1>8, <3>1
    <3> QED BY <2>3, <2>4, <3>1, <3>2, <3>3
  <2> QED BY <2>1, <2>2, <2>3, <2>4
<1>13. Range(t) = {t[i] : i \in 1..Len(t)} /\ Range(B) = {B[i] : i \in 1..Len(B)}
  <2>1. t \in Seq(S)
    <3>1. t = w \o v
      BY <1>9 DEF w
    <3>2. w \in Seq(S) /\ v \in Seq(S)
      BY <1>8, <1>10
    <3> QED BY <3>1, <3>2
  <2> HIDE DEF t
  <2>2. t \in Seq(Range(t)) /\ Range(t) = {t[i] : i \in 1..Len(t)}
    BY <2>1, InOwnRange
  <2>3. B \in Seq(Range(B)) /\ Range(B) = {B[i] : i \in 1..Len(B)}
    BY InOwnRange
  <2> QED BY ONLY <2>2, <2>3
<1>14. Range(t) \subseteq Range(B) \cup {e}
  <2> SUFFICES ASSUME NEW f \in Range(t) PROVE f \in Range(B) \cup {e}
    OBVIOUS
  <2>1. PICK i \in 1..Len(t) : f = t[i]
    BY <1>13
  <2>2. i \in Nat /\ p \in Nat
    BY <1>4
  <2>3. \/ t[i] = B[i] /\ i \in 1..Len(B)
        \/ t[i] = e
        \/ t[i] = B[i - 1] /\ i - 1 \in 1..Len(B)
    BY <1>12, <2>2
  <2> QED BY <1>13, <2>1, <2>3
<1>15. e \in Range(t)
  <2>1. p + 1 \in 1..Len(t)
    BY <1>1, <1>4, <1>11
  <2> QED BY <1>12, <1>13, <2>1
<1>16. ASSUME NEW i \in 1..Len(B)
       PROVE  B[i] \in Range(t)
  <2>1. CASE i <= p
    <3>1. i \in 1..Len(t)
      BY <1>1, <1>11
    <3> QED BY <1>12, <1>13, <2>1, <3>1
  <2>2. CASE i > p
    <3>1. i + 1 \in 1..Len(t) /\ i + 1 > p + 1 /\ (i + 1) - 1 = i
      BY <1>1, <1>4, <1>11, <2>2
    <3> QED BY <1>12, <1>13, <3>1
  <2> QED BY <1>4, <2>1, <2>2
<1>17. \A b \in S : b.time \in Nat /\ (NotAfter(b, e) => b.time <= e.time)
                    /\ (~NotAfter(b, e) => e.time <= b.time)
  BY DEF NotAfter
<1>18. ASSUME NEW i \in 1..Len(B)
       PROVE  /\ B[i].time \in Nat /\ e.time \in Nat
              /\ i <= p => B[i].time <= e.time
              /\ i > p => e.time <= B[i].time
  <2>1. B[i] \in S
    OBVIOUS
  <2>2. CASE i <= p
    <3>1. p \in 1..Len(B) /\ B[p] \in S /\ p # 0
      BY <1>1, <1>4, <2>2
    <3>2. B[i].time <= B[p].time /\ B[p].time <= e.time
      BY <1>6, <1>17, <2>2, <3>1
    <3> QED BY <1>17, <2>1, <2>2, <3>1, <3>2
  <2>3. CASE i > p
    BY <1>4, <1>5, <1>17, <2>1, <2>3
  <2> QED BY <1>4, <2>2, <2>3
<1>19. ASSUME NEW i \in 1..Len(t), NEW j \in 1..Len(t), i <= j
       PROVE  t[i].time <= t[j].time
  <2>1. CASE i <= p /\ j <= p
    BY <1>12, <1>19, <2>1
  <2>2. CASE i <= p /\ j = p + 1
    BY <1>12, <1>18, <2>2
  <2>3. CASE i <= p /\ j > p + 1
    <3>1. t[i] = B[i] /\ i \in 1..Len(B) /\ t[j] = B[j - 1] /\ j - 1 \in 1..Len(B) /\ i <= j - 1
      BY <1>4, <1>12, <2>3
    <3> QED BY <3>1
  <2>4. CASE i = p + 1 /\ j = p + 1
    BY <1>12, <1>17, <2>4
  <2>5. CASE i = p + 1 /\ j > p + 1
    <3>1. t[j] = B[j - 1] /\ j - 1 \in 1..Len(B) /\ j - 1 > p /\ t[i] = e
      BY <1>4, <1>12, <2>5
    <3> QED BY <1>18, <3>1
  <2>6. CASE i > p + 1 /\ j > p + 1
    <3>1. t[i] = B[i - 1] /\ i - 1 \in 1..Len(B) /\ t[j] = B[j - 1] /\ j - 1 \in 1..Len(B) /\ i - 1 <= j - 1
      BY <1>12, <1>19, <2>6
    <3> QED BY <3>1
  <2>7. i \in Int /\ j \in Int /\ p \in Int
    BY <1>4
  <2> QED BY <1>19, <2>1, <2>2, <2>3, <2>4, <2>5, <2>6, <2>7
<1>20. PutBehind(B, e, t, p)
  BY <1>4, <1>5, <1>6, <1>11, <1>12 DEF PutBehind
<1> QED BY <1>11, <1>13, <1>14, <1>15, <1>16, <1>19, <1>20 DEF t

(* g, the first of its type in the channels' events C, which C1 are without it, arrives *)
(* as e.  A trade delivered twice stays in C1.                                          *)
Arrives(g, e, C, C1) ==
    /\ g \in C /\ C1 \subseteq C /\ C \subseteq C1 \cup {g}
    /\ e = g \/ (g.type \in {"Trade", "BookDelta"} /\ \E r \in Nat : e = [g EXCEPT !.recv = r])
    /\ \A h \in C1 : h.type = g.type /\ g.type \in {"Trade", "BookDelta"} => g.time <= h.time

(* An event arrives as what it was sent as.                                  *)
LEMMA ArrivesLike ==
  ASSUME NEW g, NEW e, NEW C, NEW C1, Arrives(g, e, C, C1), IsEvent(g)
  PROVE  /\ IsEvent(e) /\ e.type = g.type /\ e.time = g.time /\ Sent(e) = Sent(g)
         /\ Interrupts(e) <=> Interrupts(g)
         /\ \A ledger : Paid(g, ledger) /\ g.type = "Trade" => Paid(e, ledger)
<1>1. CASE e = g
  BY <1>1
<1>2. CASE g.type \in {"Trade", "BookDelta"} /\ \E r \in Nat : e = [g EXCEPT !.recv = r]
  <2>1. PICK r \in Nat : e = [g EXCEPT !.recv = r]
    BY <1>2
  <2>2. g.type = "Trade" => DOMAIN g = {"type", "time", "recv", "id", "key", "qty"}
    BY DEF IsEvent, IsTrade
  <2>3. g.type = "BookDelta" => DOMAIN g = {"type", "time", "recv", "id", "levels", "boundary"}
    BY DEF IsEvent, IsDelta
  <2>4. e.type = g.type /\ e.time = g.time /\ e.id = g.id /\ e.recv = r /\ DOMAIN e = DOMAIN g
    BY <1>2, <2>1, <2>2, <2>3
  <2>5. g.type = "Trade" => e.key = g.key /\ e.qty = g.qty
    BY <2>1, <2>2
  <2>6. g.type = "BookDelta" => e.levels = g.levels /\ e.boundary = g.boundary
    BY <2>1, <2>3
  <2>7. Sent(e) = Sent(g)
    BY <2>1 DEF Sent
  <2>8. IsEvent(e)
    BY <1>2, <2>4, <2>5, <2>6 DEF IsEvent, IsTrade, IsDelta, Names
  <2>9. ~Interrupts(e) /\ ~Interrupts(g)
    BY <1>2, <2>4 DEF Interrupts
  <2> QED BY <2>4, <2>5, <2>7, <2>8, <2>9 DEF Paid
<1> QED BY <1>1, <1>2 DEF Arrives

(* An event that arrives goes into the buffer.                               *)
LEMMA GoodAfterInsert ==
  ASSUME NEW ledger, NEW d, NEW B, NEW C, NEW reports, NEW uninterrupted \in BOOLEAN,
         Good(d, B, C, uninterrupted, reports, ledger),
         NEW g, NEW e, NEW C1, Arrives(g, e, C, C1), ~Interrupts(e),
         g.type = "Trade" => Paid(g, ledger)
  PROVE  /\ Good(d, InsertSorted(B, e), C1, uninterrupted, reports, ledger)
         /\ Len(InsertSorted(B, e)) = Len(B) + 1
<1> DEFINE t == InsertSorted(B, e)
<1>1. g \in C /\ IsEvent(g) /\ C1 \subseteq C /\ C \subseteq C1 \cup {g}
  BY DEF Arrives, Good, Ahead
<1>2. /\ IsEvent(e) /\ e.type = g.type /\ e.time = g.time /\ Sent(e) = Sent(g)
      /\ g.type = "Trade" => Paid(e, ledger)
  BY <1>1, ArrivesLike
<1> DEFINE S == Range(B) \cup {e}
<1>3. /\ B \in Seq(S) /\ e \in S /\ \A b \in S : b.time \in Nat
      /\ \A i, j \in 1..Len(B) : i <= j => B[i].time <= B[j].time
  <2>1. B \in Seq(Range(B)) /\ Range(B) \subseteq S
    BY DEF Good, Ahead
  <2>2. B \in Seq(S)
    BY <2>1
  <2>3. \A b \in S : b.time \in Nat
    BY <1>2 DEF Good, Ahead, IsEvent
  <2> QED BY <2>2, <2>3 DEF Good, Ahead
<1>4. /\ t \in Seq(S) /\ Len(t) = Len(B) + 1 /\ Range(t) = Range(B) \cup {e}
      /\ \A i, j \in 1..Len(t) : i <= j => t[i].time <= t[j].time
  <2> HIDE DEF S
  <2>1. /\ t \in Seq(S) /\ Len(t) = Len(B) + 1 /\ Range(t) = Range(B) \cup {e}
        /\ \A i, j \in 1..Len(t) : i <= j => t[i].time <= t[j].time
    BY <1>3, InsertedOf
  <2> QED BY <2>1
<1> HIDE DEF t
<1>5. t \in Seq(Range(t))
  BY <1>4
<1>6. ASSUME NEW type
      PROVE  SentOf(type, Range(t) \cup C1) = SentOf(type, Range(B) \cup C)
  BY <1>1, <1>2, <1>4 DEF SentOf
<1>7. Ahead(d, t, C1)
  <2>1. \A f \in Range(t) : IsEvent(f) /\ ~Interrupts(f)
    BY <1>2, <1>4 DEF Good, Ahead
  <2>2. \A f \in Range(t), h \in C1 :
           f.type = h.type /\ f.type \in {"Trade", "BookDelta"} => f.time <= h.time
    BY <1>1, <1>2, <1>4 DEF Good, Ahead, Arrives
  <2> QED BY <1>1, <1>4, <1>5, <1>6, <2>1, <2>2 DEF Good, Ahead
<1>8. AllPaid(Range(t), ledger)
  BY <1>2, <1>4 DEF Good, AllPaid
<1> QED BY <1>4, <1>6, <1>7, <1>8 DEF Good, t

(* A full buffer gives up its oldest. *)
LEMMA GoodAfterRoom ==
  ASSUME MarketOK, NEW ledger, IsLedger(ledger), NEW d, NEW C, NEW reports,
         NEW uninterrupted \in BOOLEAN,
         Good(d, d.buffer, C, uninterrupted, reports, ledger), Len(d.buffer) <= MaxReorderEvents,
         NEW sense
  PROVE  LET x == MakeRoom(d, sense)
         IN Good(x, x.buffer, C, uninterrupted, reports, ledger) /\ Len(x.buffer) < MaxReorderEvents
<1> DEFINE x == MakeRoom(d, sense)
           G(y, B, D) == Good(y, B, D, uninterrupted, reports, ledger)
<1> SUFFICES G(x, x.buffer, C) /\ Len(x.buffer) < MaxReorderEvents
  OBVIOUS
<1>1. MaxReorderEvents \in Nat \ {0} /\ d.buffer \in Seq(Range(d.buffer)) /\ Len(d.buffer) \in Nat
  <2>1. MaxReorderEvents \in Nat \ {0}
    BY LimitAssumption
  <2>2. d.buffer \in Seq(Range(d.buffer))
    BY DEF Good, Ahead
  <2> QED BY <2>1, <2>2
<1>2. CASE Len(d.buffer) < MaxReorderEvents
  BY <1>2 DEF MakeRoom
<1>3. CASE ~(Len(d.buffer) < MaxReorderEvents)
  <2> DEFINE b == d.buffer
             y == [d EXCEPT !.buffer = Tail(@)]
             z == Process(y, Head(b), sense)
  <2>1. x = [z EXCEPT !.quality = "Degraded"]
    BY <1>3 DEF MakeRoom
  <2>2. /\ DOMAIN y = Fields /\ y.quality = d.quality /\ y.nextId = d.nextId
        /\ y.seenTrades = d.seenTrades /\ y.seenDepth = d.seenDepth
        /\ y.events = d.events /\ y.levels = d.levels /\ y.episodes = d.episodes
        /\ y.buffer = Tail(b) /\ d.quality \in Qualities
    BY DEF Good, Sound, IsDetector, Fields
  <2>3. b # <<>> /\ Len(b) = MaxReorderEvents /\ Len(Tail(b)) = Len(b) - 1
    <3>1. Len(b) = MaxReorderEvents
      BY <1>1, <1>3
    <3>2. b # <<>>
      BY <1>1, <3>1
    <3> QED BY <1>1, <3>1, <3>2, TailOf
  <2> HIDE DEF y
  <2>4. G(y, b, C)
    BY <2>2, GoodWhenSame
  <2> HIDE DEF b
  <2>5. G(z, Tail(b), C) /\ z.buffer = y.buffer
    BY <2>3, <2>4, GoodAfterProcess
  <2> HIDE DEF z
  <2>6. /\ DOMAIN x = Fields /\ x.quality \in Qualities /\ x.nextId = z.nextId
        /\ x.seenTrades = z.seenTrades /\ x.seenDepth = z.seenDepth
        /\ x.events = z.events /\ x.levels = z.levels /\ x.episodes = z.episodes
        /\ x.buffer = z.buffer
    BY <2>1, <2>5 DEF Good, Sound, IsDetector, Fields, Qualities
  <2> HIDE DEF x
  <2>7. G(x, Tail(b), C)
    BY <2>5, <2>6, GoodWhenSame
  <2> QED BY <1>1, <2>2, <2>3, <2>5, <2>6, <2>7
<1> QED BY <1>2, <1>3

(* drain_watermark takes the first of the sorted buffer. *)
LEMMA GoodAfterIngest ==
  ASSUME MarketOK, NEW ledger, IsLedger(ledger), NEW d, NEW C, NEW reports,
         NEW uninterrupted \in BOOLEAN,
         Good(d, d.buffer, C, uninterrupted, reports, ledger), Len(d.buffer) <= MaxReorderEvents,
         NEW g, NEW e, NEW C1, Arrives(g, e, C, C1), ~Interrupts(e),
         g.type = "Trade" => Paid(g, ledger), NEW sense
  PROVE  LET x == Ingest(d, e, sense)
         IN /\ Good(x, x.buffer, C1, uninterrupted, reports, ledger)
            /\ Len(x.buffer) <= MaxReorderEvents
<1> DEFINE d0 == [d EXCEPT !.latest = IF @ < e.time THEN e.time ELSE @]
           d1 == MakeRoom(d0, sense)
           d2 == [d1 EXCEPT !.buffer = InsertSorted(@, e)]
           x == Ingest(d, e, sense)
           G(y, B, D) == Good(y, B, D, uninterrupted, reports, ledger)
<1>1. x = Drain(d2, sense)
  BY DEF Ingest
<1>2. /\ DOMAIN d0 = Fields /\ d0.quality = d.quality /\ d0.nextId = d.nextId
      /\ d0.seenTrades = d.seenTrades /\ d0.seenDepth = d.seenDepth
      /\ d0.events = d.events /\ d0.levels = d.levels /\ d0.episodes = d.episodes
      /\ d0.buffer = d.buffer /\ d.quality \in Qualities
  BY DEF Good, Sound, IsDetector, Fields
<1> HIDE DEF d0
<1>3. G(d0, d0.buffer, C)
  BY <1>2, GoodWhenSame
<1>4. MaxReorderEvents \in Nat \ {0} /\ d0.buffer \in Seq(Range(d0.buffer)) /\ Len(d0.buffer) \in Nat
  <2>1. MaxReorderEvents \in Nat \ {0}
    BY LimitAssumption
  <2>2. d0.buffer \in Seq(Range(d0.buffer))
    BY <1>3 DEF Good, Ahead
  <2> QED BY <2>1, <2>2
<1>5. G(d1, d1.buffer, C) /\ Len(d1.buffer) < MaxReorderEvents
  <2>1. Len(d0.buffer) <= MaxReorderEvents
    BY <1>2
  <2> QED BY <1>3, <2>1, GoodAfterRoom
<1> HIDE DEF d1
<1> DEFINE B == InsertSorted(d1.buffer, e)
<1>6. G(d1, B, C1) /\ Len(B) = Len(d1.buffer) + 1
  BY <1>5, GoodAfterInsert
<1>7. Len(d1.buffer) \in Nat /\ B \in Seq(Range(B)) /\ Len(B) \in Nat
  <2>1. d1.buffer \in Seq(Range(d1.buffer))
    BY <1>5 DEF Good, Ahead
  <2>2. B \in Seq(Range(B))
    BY <1>6 DEF Good, Ahead
  <2> QED BY <2>1, <2>2
<1>8. /\ DOMAIN d2 = Fields /\ d2.quality \in Qualities /\ d2.nextId = d1.nextId
      /\ d2.seenTrades = d1.seenTrades /\ d2.seenDepth = d1.seenDepth
      /\ d2.events = d1.events /\ d2.levels = d1.levels /\ d2.episodes = d1.episodes
      /\ d2.buffer = B
  BY <1>5 DEF Good, Sound, IsDetector, Fields
<1> HIDE DEF d2, B
<1>9. G(d2, d2.buffer, C1) /\ Len(d2.buffer) <= MaxReorderEvents
  BY <1>4, <1>5, <1>6, <1>7, <1>8, GoodWhenSame
<1> DEFINE watermark == Floor(d2.latest - ReorderWindow)
           ready == {i \in 1..Len(d2.buffer) : d2.buffer[i].time <= watermark}
           n == Max({0} \cup ready)
<1>10. x = ProcessFirst(d2, n, sense)
  BY <1>1 DEF Drain
<1>11. n \in 0..Len(d2.buffer)
  <2>1. {0} \cup ready \subseteq 0..Len(d2.buffer) /\ Len(d2.buffer) \in Nat
    BY <1>7, <1>8
  <2> DEFINE K == {0} \cup ready
  <2>2. K # {}
    OBVIOUS
  <2> HIDE DEF ready
  <2>3. \E m \in K : \A y \in K : m >= y
    <3> HIDE DEF K
    <3> QED BY <2>1, <2>2, GreatestNat DEF K
  <2>4. n \in K
    BY <2>3 DEF Max
  <2> QED BY <2>1, <2>4
<1> HIDE DEF n, x
<1>12. G(x, x.buffer, C1) /\ Len(x.buffer) <= Len(d2.buffer)
  BY <1>9, <1>10, <1>11, GoodAfterFirst
<1>13. Len(x.buffer) \in Nat
  BY <1>12 DEF Good, Ahead
<1> QED BY <1>4, <1>7, <1>8, <1>9, <1>12, <1>13 DEF x

(* invalidate_all *)
LEMMA GoodAfterInterrupt ==
  ASSUME NEW ledger, NEW d, NEW B, NEW C, NEW reports, NEW uninterrupted \in BOOLEAN,
         Good(d, B, C, uninterrupted, reports, ledger), NEW C1, C1 \subseteq C,
         Linked(SentOf("BookDelta", C1)), NEW quality \in Qualities
  PROVE  LET x == InvalidateAll(d, quality)
         IN Good(x, x.buffer, C1, TRUE, reports, ledger) /\ Len(x.buffer) = 0
<1> DEFINE x == InvalidateAll(d, quality)
<1>1. /\ DOMAIN x = Fields /\ x.quality = quality /\ x.nextId = d.nextId
      /\ x.seenTrades = d.seenTrades /\ x.seenDepth = d.seenDepth /\ x.buffer = <<>>
      /\ x.events = d.events /\ x.levels = NoLevels /\ x.episodes = NoLevels
  BY DEF Good, Sound, IsDetector, Fields, InvalidateAll
<1> HIDE DEF x
<1>2. DOMAIN x.levels = {} /\ DOMAIN x.episodes = {}
  BY <1>1 DEF NoLevels
<1>3. Trims(d, x)
  BY <1>1, <1>2 DEF Good, Trims, Sound, IsDetector, EventsOK, LevelsOK
<1>4. Sound(x, reports, ledger)
  BY <1>3, SoundWhenTrimmed DEF Good
<1>5. Range(x.buffer) = {} /\ Len(x.buffer) = 0 /\ x.buffer \in Seq({})
  BY <1>1 DEF Range
<1>6. \A type : SentOf(type, Range(x.buffer) \cup C1) \subseteq SentOf(type, Range(B) \cup C)
  BY <1>5 DEF SentOf
<1>7. Ahead(x, x.buffer, C1)
  <2>1. \A type \in {"Trade", "BookDelta"} : \A m :
           InStep(SentOf(type, Range(B) \cup C), m)
             => InStep(SentOf(type, Range(x.buffer) \cup C1), m)
    BY <1>6 DEF InStep
  <2>2. x.buffer \in Seq(Range(x.buffer)) /\ 1..Len(x.buffer) = {}
    BY <1>5
  <2> QED BY <1>1, <1>5, <2>1, <2>2 DEF Good, Ahead
<1>8. UpToDate(x, SentOf("BookDelta", Range(x.buffer) \cup C1))
  BY <1>2, <1>5 DEF UpToDate
<1> QED BY <1>1, <1>4, <1>5, <1>7, <1>8 DEF Good, AllPaid, x

--------------------------------------------------------------------------------
(* The market and the sockets, which leave the engine alone. *)

MarketStep ==
    \/ UNCHANGED <<clock, phase, hist, tradeId>>
    \/ clock' = clock + 1 /\ phase' = "open" /\ UNCHANGED <<hist, tradeId>>
    \/ /\ phase = "open" /\ phase' = "changed"
       /\ (\E book \in [Key -> Nat] : hist' = Append(hist, book))
       /\ tradeId' \in {tradeId, tradeId + 1} /\ UNCHANGED clock
    \/ phase' = "closed" /\ UNCHANGED <<clock, hist, tradeId>>

(* The market adds to the history of the book, and keeps what was there.     *)
LEMMA HistGrows ==
  ASSUME MarketOK, MarketStep
  PROVE  /\ Changed \in Nat /\ Changed' \in Nat /\ Changed <= Changed'
         /\ \A n \in 0..Changed : hist'[n + 1] = hist[n + 1]
         /\ hist' = hist => Changed' = Changed
         /\ phase # "open" => hist' = hist
         /\ phase = "open" /\ phase' = "changed" /\ hist' # hist => Changed' = Changed + 1
<1>1. hist \in Seq([Key -> Nat]) /\ Len(hist) \in Nat \ {0}
  BY DEF MarketOK
<1>2. CASE hist' = hist
  BY <1>1, <1>2 DEF Changed
<1>3. CASE phase = "open" /\ \E book \in [Key -> Nat] : hist' = Append(hist, book)
  <2>1. PICK book \in [Key -> Nat] : hist' = Append(hist, book)
    BY <1>3
  <2>2. Len(hist') = Len(hist) + 1 /\ \A i \in 1..Len(hist) : hist'[i] = hist[i]
    BY <1>1, <2>1
  <2>3. \A n \in 0..Len(hist) - 1 : hist'[n + 1] = hist[n + 1]
    BY <1>1, <2>2
  <2> QED BY <1>1, <1>3, <2>2, <2>3 DEF Changed
<1> QED BY <1>2, <1>3 DEF MarketStep

(* An event on its way stays what it was.                                    *)
LEMMA EventStays ==
  ASSUME MarketOK, MarketStep, NEW e, IsEvent(e)
  PROVE  IsEvent(e)'
<1>1. /\ Changed \in Nat /\ Changed' \in Nat /\ Changed <= Changed'
      /\ \A n \in 0..Changed : hist'[n + 1] = hist[n + 1]
      /\ hist' = hist => Changed' = Changed
      /\ phase # "open" => hist' = hist
      /\ phase = "open" /\ phase' = "changed" /\ hist' # hist => Changed' = Changed + 1
  BY HistGrows
<1>2. CASE e.type = "Trade"
  <2>1. IsTrade(e)'
    BY <1>2 DEF IsEvent, IsTrade, MarketStep, MarketOK
  <2> QED BY <1>2, <2>1 DEF IsEvent
<1>3. CASE e.type = "BookDelta"
  <2>1. IsDelta(e) /\ e.time \in Nat
    BY <1>3 DEF IsEvent
  <2>2. \A k \in DOMAIN e.levels : e.levels[k] = hist'[e.id + 1][k]
    BY <1>1, <2>1 DEF IsDelta
  <2>3. e.id <= Changed'
    BY <1>1, <2>1 DEF IsDelta
  <2>4. /\ e.time <= clock' /\ (e.time = clock' => e.id = Changed' /\ phase' = "closed")
        /\ phase' = "changed" => e.id < Changed'
    <3>1. CASE UNCHANGED <<clock, phase, hist, tradeId>>
      BY <1>1, <2>1, <3>1 DEF IsDelta
    <3>2. CASE clock' = clock + 1 /\ phase' = "open" /\ UNCHANGED <<hist, tradeId>>
      BY <2>1, <3>2 DEF IsDelta, MarketOK
    <3>3. CASE /\ phase = "open" /\ phase' = "changed"
               /\ (\E book \in [Key -> Nat] : hist' = Append(hist, book))
               /\ tradeId' \in {tradeId, tradeId + 1} /\ UNCHANGED clock
      <4>1. Changed' = Changed + 1
        <5>1. PICK book \in [Key -> Nat] : hist' = Append(hist, book)
          BY <3>3
        <5> QED BY <5>1 DEF Changed, MarketOK
      <4> QED BY <1>1, <2>1, <3>3, <4>1 DEF IsDelta
    <3>4. CASE phase' = "closed" /\ UNCHANGED <<clock, hist, tradeId>>
      BY <1>1, <2>1, <3>4 DEF IsDelta
    <3> QED BY <3>1, <3>2, <3>3, <3>4 DEF MarketStep
  <2>5. IsDelta(e)'
    BY <2>1, <2>2, <2>3, <2>4 DEF IsDelta, Names
  <2> QED BY <1>3, <2>5 DEF IsEvent
<1>4. CASE e.type \notin {"Trade", "BookDelta"}
  BY <1>4 DEF IsEvent
<1> QED BY <1>2, <1>3, <1>4

(* The newest of its type. *)
IsNew(e) ==
    /\ IsEvent(e) /\ ~ (e.type = "Trade" /\ e.id # tradeId)
    /\ ~ (e.type = "BookDelta" /\ e.id # Changed)
    /\ e.type \in {"Trade", "BookDelta"} => e.time = clock

(* The engine falls behind with what is new, but nothing it has is lost. *)
LEMMA GoodStays ==
  ASSUME MarketOK, MarketStep, MarketOK', NEW d, NEW B, NEW C, NEW reports, NEW ledger,
         Good(d, B, C, FALSE, reports, ledger),
         NEW C1, \A e \in C1 : e \in C \/ IsNew(e)'
  PROVE  Good(d, B, C1, FALSE, reports, ledger)'
<1>1. /\ Changed \in Nat /\ Changed' \in Nat /\ Changed <= Changed'
      /\ tradeId \in Nat /\ tradeId' \in Nat /\ tradeId <= tradeId'
  BY HistGrows DEF MarketOK, MarketStep
<1>2. \A e \in Range(B) : IsEvent(e)' /\ ~Interrupts(e)
  BY EventStays DEF Good, Ahead
<1>3. \A e \in C1 : IsEvent(e)'
  BY EventStays DEF Good, Ahead, IsNew
<1>4. \A e \in Range(B) \cup C1 :
         /\ e.type = "Trade" => e.time \in Nat /\ e.time <= clock' /\ e.id \in Nat /\ e.id <= tradeId'
                                /\ (e.time = clock' => e.id = tradeId')
         /\ e.type = "BookDelta" => e.time \in Nat /\ e.time <= clock' /\ e.id \in Nat /\ e.id <= Changed'
                                    /\ (e.time = clock' => e.id = Changed')
  BY <1>2, <1>3 DEF IsEvent, IsTrade, IsDelta
<1>5. \A e \in C1 \ C : /\ e.type = "Trade" => e.id = tradeId' /\ e.time = clock'
                        /\ e.type = "BookDelta" => e.id = Changed' /\ e.time = clock'
  BY DEF IsNew
<1>6. \A e \in Range(B), f \in C1 :
         e.type = f.type /\ e.type \in {"Trade", "BookDelta"} => e.time <= f.time
  BY <1>4, <1>5 DEF Good, Ahead
<1>7. LastOf(d.seenTrades) \in Nat /\ LastOf(d.seenDepth) \in Nat
  BY DEF Good, Sound, IsDetector, Seen, LastOf, Last
<1>8. ASSUME NEW type \in {"Trade", "BookDelta"}, NEW last \in Nat,
             last <= (IF type = "Trade" THEN tradeId' ELSE Changed'),
             InStep(SentOf(type, Range(B) \cup C), last)
      PROVE  InStep(SentOf(type, Range(B) \cup C1), last)
  <2> DEFINE P == SentOf(type, Range(B) \cup C)
             Q == SentOf(type, Range(B) \cup C1)
             newest == IF type = "Trade" THEN tradeId' ELSE Changed'
  <2>1. ASSUME NEW q \in Q
        PROVE  /\ q.time \in Nat /\ q.time <= clock' /\ q.id \in Nat /\ q.id <= newest
               /\ q.time = clock' => q.id = newest
               /\ q \in P \/ (q.id = newest /\ q.time = clock')
    <3>1. PICK e \in Range(B) \cup C1 : e.type = type /\ q = Sent(e)
      BY DEF SentOf
    <3>2. IsEvent(e)'
      BY <1>2, <1>3
    <3>3. q.time = e.time /\ q.id = e.id
      BY <3>1, <3>2 DEF IsEvent, IsTrade, IsDelta, Sent
    <3>4. e \in Range(B) \cup C => q \in P
      BY <3>1 DEF SentOf
    <3> QED BY <1>4, <1>5, <3>1, <3>3, <3>4
  <2>2. newest \in Nat /\ last <= newest /\ clock' \in Nat
    BY <1>1, <1>8 DEF MarketOK
  <2>3. InStep(P, last)
    BY <1>8
  <2> HIDE DEF P, Q, newest
  <2>4. \A q \in Q : last <= q.id
    BY <2>1, <2>2, <2>3 DEF InStep
  <2>5. \A q, r \in Q : q.time <= r.time => q.id <= r.id
    BY <2>1, <2>2, <2>3 DEF InStep
  <2> QED BY <2>4, <2>5 DEF InStep, Q
<1>9. LastOf(d.seenTrades) <= tradeId' /\ LastOf(d.seenDepth) <= Changed'
  BY <1>1, <1>7 DEF Good
<1>10. /\ InStep(SentOf("Trade", Range(B) \cup C1), LastOf(d.seenTrades))
       /\ InStep(SentOf("BookDelta", Range(B) \cup C1), LastOf(d.seenDepth))
  BY <1>7, <1>8, <1>9 DEF Good, Ahead
<1>11. Ahead(d, B, C1)'
  BY <1>2, <1>3, <1>6, <1>10 DEF Good, Ahead
<1> QED BY <1>9, <1>11 DEF Good

(* The levels that changed since the last delta are in touched. *)
Touches == touched \subseteq touched' /\ \A k \in Key \ touched' : Book'[k] = Book[k]

(* A delta that continues a book does so for ever.                           *)
LEMMA ContinuesStays ==
  ASSUME MarketOK, MarketStep, NEW e, e.id \in 0..Changed, NEW m \in Nat, Continues(e, m)
  PROVE  Continues(e, m)'
<1>1. \A n \in 0..Changed : hist'[n + 1] = hist[n + 1]
  BY HistGrows
<1>2. \A n \in m..e.id : n \in 0..Changed
  BY ChangedIsNat
<1>3. e.id \in 0..Changed
  OBVIOUS
<1>4. \A n \in m..e.id : hist'[n + 1] = hist[n + 1]
  BY <1>1, <1>2
<1>5. hist'[e.id + 1] = hist[e.id + 1]
  BY <1>1, <1>3
<1> QED BY <1>4, <1>5 DEF Continues

(* The levels touched since a book are kept until the next delta.            *)
LEMMA NextContinuesStays ==
  ASSUME MarketOK, MarketStep, Touches, NEW m \in 0..Changed, NextContinues(m)
  PROVE  NextContinues(m)'
<1>1. /\ Changed \in Nat /\ Changed' \in Nat /\ Changed <= Changed'
      /\ \A n \in 0..Changed : hist'[n + 1] = hist[n + 1]
  BY HistGrows
<1>2. Changed' <= Changed + 1
  BY DEF MarketStep, MarketOK, Changed
<1>3. hist'[Changed' + 1] = Book'
  <2>1. Changed' + 1 = Len(hist')
    BY <1>1 DEF Changed, MarketOK, MarketStep
  <2> QED BY <2>1 DEF Book
<1>4. ASSUME NEW n \in m..Changed', NEW k \in Key \ touched'
      PROVE  hist'[n + 1][k] = Book'[k]
  <2>1. CASE n <= Changed
    BY <1>1, <1>4, <2>1 DEF NextContinues, Touches
  <2>2. CASE n > Changed
    <3>1. n = Changed'
      BY <1>1, <1>2, <2>2
    <3> QED BY <1>3, <3>1
  <2> QED BY <1>1, <2>1, <2>2
<1> QED BY <1>4 DEF NextContinues

(* The deltas on their way stay linked while the market goes on.             *)
LEMMA LinkedStays ==
  ASSUME MarketOK, MarketStep, depth' = "live" => depth = "live" /\ Touches,
         NEW P, \A c \in P : c.id \in 0..Changed
  PROVE  /\ Linked(P) => Linked(P)'
         /\ \A m \in 0..Changed : Resumes(P, m) => Resumes(P, m)'
<1>1. ASSUME Linked(P)
      PROVE  Linked(P)'
  <2>1. ASSUME NEW e \in P, ~e.boundary, \E c \in P : c.id < e.id
        PROVE  \E c \in P : c.id < e.id /\ Continues(e, c.id)'
    <3>1. PICK c \in P : c.id < e.id /\ Continues(e, c.id)
      BY <1>1, <2>1 DEF Linked
    <3>2. c.id \in Nat
      OBVIOUS
    <3> QED BY <3>1, <3>2, ContinuesStays
  <2>2. ASSUME depth' = "live", P # {}
        PROVE  \E c \in P : NextContinues(c.id)'
    <3>1. PICK c \in P : NextContinues(c.id)
      BY <1>1, <2>2 DEF Linked
    <3> QED BY <2>2, <3>1, NextContinuesStays
  <2> QED BY <2>1, <2>2 DEF Linked
<1>2. ASSUME NEW m \in 0..Changed, Resumes(P, m)
      PROVE  Resumes(P, m)'
  <2>1. ASSUME NEW e \in P, ~e.boundary, \A c \in P : e.id <= c.id
        PROVE  Continues(e, m)'
    BY <1>2, <2>1, ContinuesStays DEF Resumes
  <2>2. ASSUME depth' = "live", P = {}
        PROVE  NextContinues(m)'
    BY <1>2, <2>2, NextContinuesStays DEF Resumes
  <2> QED BY <2>1, <2>2 DEF Resumes
<1> QED BY <1>1, <1>2

(* EmitDelta, live: the delta e names the levels touched. *)
LEMMA LinkedWithDelta ==
  ASSUME MarketOK, MarketStep, hist' = hist, touched' = {}, depth = "live",
         NEW P, \A c \in P : c.id \in 0..Changed /\ c.id < Changed,
         NEW e, e.id = Changed, DOMAIN e.levels = touched, e.boundary = FALSE
  PROVE  /\ Linked(P) => Linked(P \cup {e})'
         /\ \A m \in 0..Changed : Resumes(P, m) => Resumes(P \cup {e}, m)'
<1>1. Changed \in Nat /\ Changed' = Changed /\ Book' = Book
  BY HistGrows DEF Book
<1>2. hist[Changed + 1] = Book
  BY <1>1 DEF Book, Changed, MarketOK
<1>3. ASSUME NEW m \in 0..Changed, NextContinues(m)
      PROVE  Continues(e, m)'
  BY <1>1, <1>2, <1>3 DEF Continues, NextContinues
<1>4. NextContinues(e.id)'
  BY <1>1, <1>2 DEF NextContinues
<1>5. ASSUME Linked(P)
      PROVE  Linked(P \cup {e})'
  <2>1. ASSUME NEW c \in P, ~c.boundary, NEW b \in P \cup {e}, b.id < c.id
        PROVE  \E b1 \in P : b1.id < c.id /\ Continues(c, b1.id)'
    <3>1. b \in P
      BY <1>1, <2>1
    <3>2. PICK b1 \in P : b1.id < c.id /\ Continues(c, b1.id)
      BY <1>5, <2>1, <3>1 DEF Linked
    <3>3. b1.id \in Nat
      OBVIOUS
    <3> QED BY <3>2, <3>3, ContinuesStays
  <2>2. ASSUME NEW b \in P \cup {e}, b.id < e.id
        PROVE  \E c \in P : c.id < e.id /\ Continues(e, c.id)'
    <3>1. P # {}
      BY <1>1, <2>2
    <3>2. PICK c \in P : NextContinues(c.id)
      BY <1>5, <3>1 DEF Linked
    <3> QED BY <1>3, <3>2
  <2> QED BY <1>4, <2>1, <2>2 DEF Linked
<1>6. ASSUME NEW m \in 0..Changed, Resumes(P, m)
      PROVE  Resumes(P \cup {e}, m)'
  <2>1. ASSUME NEW c \in P, ~c.boundary, \A b \in P \cup {e} : c.id <= b.id
        PROVE  Continues(c, m)'
    BY <1>6, <2>1, ContinuesStays DEF Resumes
  <2>2. ASSUME \A b \in P \cup {e} : e.id <= b.id
        PROVE  Continues(e, m)'
    <3>1. P = {}
      <4> SUFFICES ASSUME NEW b \in P PROVE FALSE
        OBVIOUS
      <4> QED BY <1>1, <2>2
    <3> QED BY <1>3, <1>6, <3>1 DEF Resumes
  <2> QED BY <2>1, <2>2 DEF Resumes
<1> QED BY <1>5, <1>6

(* DepthBoundary *)
LEMMA LinkedWithBoundary ==
  ASSUME MarketOK, MarketStep, hist' = hist,
         NEW P, \A c \in P : c.id \in 0..Changed,
         NEW e, e.id = Changed, e.boundary = TRUE
  PROVE  /\ Linked(P) => Linked(P \cup {e})'
         /\ \A m \in 0..Changed : Resumes(P, m) => Resumes(P \cup {e}, m)'
<1>1. Changed \in Nat /\ Changed' = Changed /\ Book' = Book
  BY HistGrows DEF Book
<1>2. hist[Changed + 1] = Book
  BY <1>1 DEF Book, Changed, MarketOK
<1>3. NextContinues(e.id)'
  BY <1>1, <1>2 DEF NextContinues
<1>4. ASSUME Linked(P)
      PROVE  Linked(P \cup {e})'
  <2>1. ASSUME NEW c \in P, ~c.boundary, NEW b \in P \cup {e}, b.id < c.id
        PROVE  \E b1 \in P : b1.id < c.id /\ Continues(c, b1.id)'
    <3>1. b \in P
      BY <1>1, <2>1
    <3>2. PICK b1 \in P : b1.id < c.id /\ Continues(c, b1.id)
      BY <1>4, <2>1, <3>1 DEF Linked
    <3>3. b1.id \in Nat
      OBVIOUS
    <3> QED BY <3>2, <3>3, ContinuesStays
  <2> QED BY <1>3, <2>1 DEF Linked
<1>5. ASSUME NEW m \in 0..Changed, Resumes(P, m)
      PROVE  Resumes(P \cup {e}, m)'
  <2>1. ASSUME NEW c \in P, ~c.boundary, \A b \in P \cup {e} : c.id <= b.id
        PROVE  Continues(c, m)'
    BY <1>5, <2>1, ContinuesStays DEF Resumes
  <2> QED BY <2>1 DEF Resumes
<1> QED BY <1>4, <1>5

(* DepthLost: the last of the deltas go. *)
LEMMA LinkedOfFirst ==
  ASSUME MarketOK, MarketStep, depth' # "live",
         NEW P, \A c \in P : c.id \in 0..Changed,
         NEW Q, Q \subseteq P, \A c \in P \ Q, e \in Q : e.id <= c.id
  PROVE  /\ Linked(P) => Linked(Q)'
         /\ \A m \in 0..Changed : Resumes(P, m) => Resumes(Q, m)'
<1>1. ASSUME Linked(P)
      PROVE  Linked(Q)'
  <2>1. ASSUME NEW e \in Q, ~e.boundary, NEW b \in Q, b.id < e.id
        PROVE  \E c \in Q : c.id < e.id /\ Continues(e, c.id)'
    <3>1. PICK c \in P : c.id < e.id /\ Continues(e, c.id)
      BY <1>1, <2>1 DEF Linked
    <3>2. c.id \in 0..Changed /\ e.id \in 0..Changed
      OBVIOUS
    <3>3. c \in Q
      BY <3>1, <3>2
    <3> QED BY <3>1, <3>2, <3>3, ContinuesStays
  <2> QED BY <2>1 DEF Linked
<1>2. ASSUME NEW m \in 0..Changed, Resumes(P, m)
      PROVE  Resumes(Q, m)'
  <2>1. ASSUME NEW e \in Q, ~e.boundary, \A c \in Q : e.id <= c.id
        PROVE  Continues(e, m)'
    BY <1>2, <2>1, ContinuesStays DEF Resumes
  <2> QED BY <2>1 DEF Resumes
<1> QED BY <1>1, <1>2

--------------------------------------------------------------------------------
(* The channels. *)

ChannelOK(ch) ==
    /\ ch \in Seq(Range(ch)) /\ \A e \in Range(ch) : IsEvent(e)
    /\ \A i, j \in 1..Len(ch) :
          i <= j /\ ch[i].type = ch[j].type /\ ch[i].type \in {"Trade", "BookDelta"}
             => ch[i].time <= ch[j].time

(* A channel nobody touches stays as it is.                                  *)
LEMMA ChannelStays ==
  ASSUME MarketOK, MarketStep, NEW ch, ChannelOK(ch)
  PROVE  ChannelOK(ch)'
BY EventStays DEF ChannelOK

(* A new event goes to the end.                                              *)
LEMMA ChannelGrows ==
  ASSUME NEW ch, ChannelOK(ch)', NEW e, IsNew(e)'
  PROVE  ChannelOK(Append(ch, e))' /\ Range(Append(ch, e)) = Range(ch) \cup {e}
<1> DEFINE t == Append(ch, e)
<1>1. ch \in Seq(Range(ch))
  BY DEF ChannelOK
<1>2. /\ t \in Seq(Range(ch) \cup {e}) /\ Len(t) = Len(ch) + 1 /\ t[Len(ch) + 1] = e
      /\ \A i \in 1..Len(ch) : t[i] = ch[i]
  <2>1. ch \in Seq(Range(ch) \cup {e})
    BY <1>1
  <2> QED BY <1>1, <2>1
<1> HIDE DEF t
<1>3. Range(t) = {t[i] : i \in 1..Len(t)} /\ t \in Seq(Range(t))
  <2>1. t \in Seq(Range(ch) \cup {e})
    BY <1>2
  <2> QED BY <2>1, InOwnRange
<1>4. Range(ch) = {ch[i] : i \in 1..Len(ch)} /\ Len(ch) \in Nat
  BY <1>1, InOwnRange
<1>5. Range(t) = Range(ch) \cup {e}
  <2>1. Range(t) \subseteq Range(ch) \cup {e}
    BY <1>2, <1>3, <1>4
  <2>2. Range(ch) \subseteq Range(t)
    <3>1. \A i \in 1..Len(ch) : i \in 1..Len(t) /\ t[i] = ch[i]
      BY <1>2, <1>4
    <3> QED BY <1>3, <1>4, <3>1
  <2>3. e \in Range(t)
    <3>1. Len(ch) + 1 \in 1..Len(t)
      BY <1>2, <1>4
    <3> QED BY <1>2, <1>3, <3>1
  <2> QED BY <2>1, <2>2, <2>3
<1>6. \A f \in Range(t) : IsEvent(f)'
  BY <1>5 DEF ChannelOK, IsNew
<1>7. ASSUME NEW i \in 1..Len(t), NEW j \in 1..Len(t), i <= j, t[i].type = t[j].type,
             t[i].type \in {"Trade", "BookDelta"}
      PROVE  t[i].time <= t[j].time
  <2>1. CASE j \in 1..Len(ch)
    <3>1. i \in 1..Len(ch)
      BY <1>4, <1>7, <2>1
    <3> QED BY <1>2, <1>7, <2>1, <3>1 DEF ChannelOK
  <2>2. CASE j = Len(ch) + 1
    <3>1. t[j] = e /\ e.time = clock' /\ IsEvent(t[i])' /\ IsEvent(e)'
      BY <1>2, <1>3, <1>6, <1>7, <2>2 DEF IsNew
    <3> QED BY <1>7, <3>1 DEF IsEvent, IsTrade, IsDelta
  <2> QED BY <1>2, <1>4, <2>1, <2>2
<1> QED BY <1>3, <1>5, <1>6, <1>7 DEF ChannelOK, t

(* What is lost of a channel is not before what is left. *)
LEMMA ChannelShrinks ==
  ASSUME NEW ch, ChannelOK(ch)', NEW n \in 0..Len(ch)
  PROVE  LET t == SubSeq(ch, 1, n)
         IN /\ ChannelOK(t)' /\ Range(t) \subseteq Range(ch)
            /\ \A e \in Range(t), f \in Range(ch) \ Range(t) :
                  e.type = f.type /\ e.type \in {"Trade", "BookDelta"} => e.time <= f.time
<1> DEFINE t == SubSeq(ch, 1, n)
<1>1. ch \in Seq(Range(ch)) /\ Len(ch) \in Nat /\ n \in Nat /\ n <= Len(ch)
  BY DEF ChannelOK
<1>2. t \in Seq(Range(ch)) /\ Len(t) = n /\ \A i \in 1..n : t[i] = ch[i]
  BY <1>1
<1> HIDE DEF t
<1>3. Range(t) = {t[i] : i \in 1..Len(t)} /\ t \in Seq(Range(t))
  <2>1. t \in Seq(Range(ch))
    BY <1>2
  <2> QED BY <2>1, InOwnRange
<1>4. Range(ch) = {ch[i] : i \in 1..Len(ch)}
  BY <1>1, InOwnRange
<1>5. \A i \in 1..Len(t) : i \in 1..Len(ch) /\ t[i] = ch[i]
  BY <1>1, <1>2
<1>6. Range(t) \subseteq Range(ch)
  BY <1>3, <1>4, <1>5
<1>7. \A i, j \in 1..Len(t) :
         i <= j /\ t[i].type = t[j].type /\ t[i].type \in {"Trade", "BookDelta"}
            => t[i].time <= t[j].time
  BY <1>5 DEF ChannelOK
<1>8. ASSUME NEW e \in Range(t), NEW f \in Range(ch) \ Range(t), e.type = f.type,
             e.type \in {"Trade", "BookDelta"}
      PROVE  e.time <= f.time
  <2>1. PICK i \in 1..Len(t) : e = t[i]
    BY <1>3
  <2>2. PICK j \in 1..Len(ch) : f = ch[j]
    BY <1>4
  <2>3. j > n
    <3>1. ~(j \in 1..Len(t))
      BY <1>3, <1>5, <2>2
    <3> QED BY <1>1, <1>2, <2>2, <3>1
  <2>4. i <= j /\ i \in 1..Len(ch) /\ e = ch[i]
    BY <1>1, <1>2, <1>5, <2>1, <2>3
  <2> QED BY <1>8, <2>2, <2>4 DEF ChannelOK
<1>9. ChannelOK(t)'
  BY <1>3, <1>6, <1>7 DEF ChannelOK
<1> QED BY <1>6, <1>8, <1>9 DEF t

(* The head of a channel is the first of its type.                           *)
LEMMA ChannelLosesHead ==
  ASSUME NEW ch, ChannelOK(ch)', ch # <<>>
  PROVE  /\ ChannelOK(Tail(ch))' /\ Head(ch) \in Range(ch)
         /\ Range(Tail(ch)) \subseteq Range(ch) /\ Range(ch) \subseteq Range(Tail(ch)) \cup {Head(ch)}
         /\ \A f \in Range(ch) : f.type = Head(ch).type /\ f.type \in {"Trade", "BookDelta"}
                                   => Head(ch).time <= f.time
<1> DEFINE t == Tail(ch)
<1>1. ch \in Seq(Range(ch)) /\ Len(ch) \in Nat \ {0} /\ Head(ch) = ch[1]
  BY DEF ChannelOK
<1>2. /\ t \in Seq(Range(t)) /\ Len(t) = Len(ch) - 1
      /\ \A i \in 1..Len(t) : t[i] = ch[i + 1]
      /\ Head(ch) \in Range(ch) /\ Range(t) \subseteq Range(ch)
      /\ Range(ch) \subseteq Range(t) \cup {Head(ch)}
  BY <1>1, TailOf
<1> HIDE DEF t
<1>3. Range(ch) = {ch[i] : i \in 1..Len(ch)}
  BY <1>1, InOwnRange
<1>4. ASSUME NEW f \in Range(ch), f.type = Head(ch).type, f.type \in {"Trade", "BookDelta"}
      PROVE  Head(ch).time <= f.time
  <2>1. PICK i \in 1..Len(ch) : f = ch[i]
    BY <1>3
  <2>2. 1 <= i /\ 1 \in 1..Len(ch)
    BY <1>1
  <2> QED BY <1>1, <1>4, <2>1, <2>2 DEF ChannelOK
<1>5. \A i, j \in 1..Len(t) :
         i <= j /\ t[i].type = t[j].type /\ t[i].type \in {"Trade", "BookDelta"}
            => t[i].time <= t[j].time
  <2> SUFFICES ASSUME NEW i \in 1..Len(t), NEW j \in 1..Len(t), i <= j,
                      t[i].type = t[j].type, t[i].type \in {"Trade", "BookDelta"}
               PROVE  t[i].time <= t[j].time
    OBVIOUS
  <2>1. i + 1 \in 1..Len(ch) /\ j + 1 \in 1..Len(ch) /\ i + 1 <= j + 1
    BY <1>1, <1>2
  <2>2. t[i] = ch[i + 1] /\ t[j] = ch[j + 1]
    BY <1>2
  <2> QED BY <2>1, <2>2 DEF ChannelOK
<1>6. ChannelOK(t)'
  BY <1>2, <1>5 DEF ChannelOK
<1> QED BY <1>2, <1>4, <1>6 DEF t

--------------------------------------------------------------------------------
(* The inductive invariant. *)

InChannels == Range(depthCh) \cup Range(tradeCh)

Deltas(S) == SentOf("BookDelta", S)

SocketsOK ==
    /\ ChannelOK(depthCh) /\ \A e \in Range(depthCh) : e.type # "Trade"
    /\ ChannelOK(tradeCh) /\ \A e \in Range(tradeCh) : e.type # "BookDelta"
    /\ Linked(Deltas(InChannels))

(* The ledger is a history of what was executed, which pays for the trades on their way. *)
LedgerOK(ledger) ==
    /\ IsLedger(ledger) /\ \A k \in Key : ledger[tradeId][k] <= moved[k].executed
    /\ AllPaid(InChannels, ledger)

SharedOK ==
    /\ DOMAIN shared = {"consumers", "released", "engine"}
    /\ shared.consumers \in {0, 1} \cup Panes /\ shared.consumers \in Nat
    /\ shared.released \in Nat /\ shared.released <= clock + Skew
    /\ ~Alive(shared) => Engine = NewDetector
    /\ Len(Engine.buffer) <= MaxReorderEvents

EngineOK(ledger) ==
    /\ Good(Engine, Engine.buffer, InChannels, FALSE, {}, ledger)
    /\ ~missed => UpToDate(Engine, Deltas(Range(Engine.buffer) \cup InChannels))

IInv ==
    /\ MarketOK /\ SocketsOK /\ SharedOK
    /\ panes \in {1} \cup Panes /\ missed \in BOOLEAN
    /\ \E ledger : LedgerOK(ledger) /\ EngineOK(ledger)

(* What the assumptions say of the constants.                                *)
LEMMA ConstantsAreNat ==
  /\ MaxTime \in Nat \ {0} /\ Skew \in Nat /\ MaxReorderEvents \in Nat \ {0}
  /\ Panes \subseteq Nat /\ Changes \subseteq Nat /\ TradeSizes \subseteq Nat \ {0}
  /\ InitialBook \in [Key -> Nat]
BY FeedAssumption, LimitAssumption

(* The market is the same. *)
LEMMA GoodWhenMarketSame ==
  ASSUME UNCHANGED <<clock, phase, hist, touched, tradeId, depth>>,
         NEW d, NEW B, NEW C, NEW reports, NEW ledger, NEW u \in BOOLEAN,
         Good(d, B, C, u, reports, ledger)
  PROVE  Good(d, B, C, u, reports, ledger)'
<1>1. \A e : IsEvent(e)' <=> IsEvent(e)
  BY DEF IsEvent, IsTrade, IsDelta, Names, Changed
<1>2. Ahead(d, B, C)'
  BY <1>1 DEF Good, Ahead
<1>3. ASSUME NEW P, UpToDate(d, P)
      PROVE  UpToDate(d, P)'
  <2>1. /\ \A e, m : Continues(e, m) => Continues(e, m)'
        /\ \A m : NextContinues(m) => NextContinues(m)'
    BY DEF Continues, NextContinues, Changed, Book
  <2>2. Linked(P) => Linked(P)'
    BY <2>1 DEF Linked
  <2>3. \A m : Resumes(P, m) => Resumes(P, m)'
    BY <2>1 DEF Resumes
  <2> QED BY <1>3, <2>2, <2>3 DEF UpToDate
<1> QED BY <1>2, <1>3 DEF Good, Changed

(* With and without the deltas being up to date. *)
LEMMA GoodMeans ==
  ASSUME NEW d, NEW B, NEW C, NEW reports, NEW ledger
  PROVE  Good(d, B, C, TRUE, reports, ledger) <=>
            Good(d, B, C, FALSE, reports, ledger) /\ UpToDate(d, Deltas(Range(B) \cup C))
BY DEF Good, Deltas

(* Another ledger that agrees up to the last trade. *)
LEMMA GoodInLedger ==
  ASSUME MarketOK, NEW d, NEW B, NEW C, NEW reports, NEW ledger, Good(d, B, C, FALSE, reports, ledger),
         NEW ledger1, \A n \in 0..tradeId : ledger1[n] = ledger[n]
  PROVE  /\ Good(d, B, C, FALSE, reports, ledger1)
         /\ AllPaid(C, ledger) => AllPaid(C, ledger1)
<1>1. LastOf(d.seenTrades) \in 0..tradeId
  BY DEF Good, Sound, IsDetector, Seen, LastOf, Last, MarketOK
<1>2. Sound(d, reports, ledger1)
  BY <1>1 DEF Good, Sound, Counted
<1>3. ASSUME NEW e, IsEvent(e), e.type = "Trade", Paid(e, ledger)
      PROVE  Paid(e, ledger1)
  <2>1. e.id \in 0..tradeId /\ e.id - 1 \in 0..tradeId
    BY <1>3 DEF IsEvent, IsTrade, MarketOK
  <2> QED BY <1>3, <2>1 DEF Paid
<1>4. \A e \in Range(B) \cup C : IsEvent(e)
  BY DEF Good, Ahead
<1> QED BY <1>2, <1>3, <1>4 DEF Good, AllPaid

(* The detector that has seen nothing. *)
LEMMA GoodWhenNew ==
  ASSUME MarketOK, NEW C, \A e \in C : IsEvent(e), NEW ledger,
         \A type \in {"Trade", "BookDelta"} : InStep(SentOf(type, C), 0)
  PROVE  /\ Good(NewDetector, NewDetector.buffer, C, FALSE, {}, ledger)
         /\ Linked(Deltas(C)) => UpToDate(NewDetector, Deltas(Range(NewDetector.buffer) \cup C))
<1> DEFINE d == NewDetector
<1>1. /\ d.buffer = <<>> /\ d.seenTrades = <<>> /\ d.seenDepth = <<>>
      /\ Sound(d, {}, ledger) /\ DOMAIN d.levels = {}
  BY SoundWhenNew DEF NewDetector, NoLevels
<1>2. Range(<<>>) = {} /\ <<>> \in Seq({})
  BY DEF Range
<1> HIDE DEF d
<1>3. Range(d.buffer) = {} /\ Range(d.buffer) \cup C = C
  BY <1>1, <1>2
<1>4. LastOf(d.seenTrades) = 0 /\ LastOf(d.seenDepth) = 0 /\ Len(d.buffer) = 0
  BY <1>1 DEF LastOf
<1>5. Ahead(d, d.buffer, C)
  <2>1. d.buffer \in Seq(Range(d.buffer))
    BY <1>1, <1>2
  <2>2. /\ InStep(SentOf("Trade", C), LastOf(d.seenTrades))
        /\ InStep(SentOf("BookDelta", C), LastOf(d.seenDepth))
    BY <1>4
  <2>3. 1..Len(d.buffer) = {}
    BY <1>4
  <2> QED BY <1>3, <2>1, <2>2, <2>3 DEF Ahead
<1>6. Good(d, d.buffer, C, FALSE, {}, ledger)
  BY <1>1, <1>3, <1>4, <1>5, ChangedIsNat DEF Good, AllPaid, MarketOK
<1>7. Linked(Deltas(C)) => UpToDate(d, Deltas(Range(d.buffer) \cup C))
  BY <1>1, <1>3 DEF UpToDate
<1> QED BY <1>6, <1>7 DEF d

--------------------------------------------------------------------------------
(* The steps of the market and the sockets. *)

Ready(S, C) ==
    /\ \A e \in S \cup C : IsEvent(e)
    /\ \A e \in S, f \in C : e.type = "BookDelta" /\ f.type = "BookDelta" => e.time <= f.time
    /\ InStep(Deltas(S \cup C), 0)

(* When the channels' events C become C1, the deltas stay linked. *)
Carries(C, C1) ==
    \A S : Ready(S, C) =>
       /\ Linked(Deltas(S \cup C)) => Linked(Deltas(S \cup C1))'
       /\ \A m \in 0..Changed : Resumes(Deltas(S \cup C), m) => Resumes(Deltas(S \cup C1), m)'

(* The deltas of buffer and channels are in order, and those of the channels alone. *)
LEMMA ReadyWhenGood ==
  ASSUME MarketOK, NEW d, NEW B, NEW C, NEW reports, NEW ledger, Good(d, B, C, FALSE, reports, ledger)
  PROVE  /\ Ready(Range(B), C) /\ Ready({}, C)
         /\ \A type \in {"Trade", "BookDelta"} : InStep(SentOf(type, C), 0)
<1>1. LastOf(d.seenTrades) \in Nat /\ LastOf(d.seenDepth) \in Nat
  BY DEF Good, Sound, IsDetector, Seen, LastOf, Last
<1>2. ASSUME NEW type \in {"Trade", "BookDelta"}, NEW e \in SentOf(type, Range(B) \cup C)
      PROVE  e.id \in Nat
  <2>1. PICK f \in Range(B) \cup C : f.type = type /\ e = Sent(f)
    BY <1>2 DEF SentOf
  <2>2. IsEvent(f)
    BY DEF Good, Ahead
  <2> QED BY <1>2, <2>1, <2>2, SentIsLike
<1>3. ASSUME NEW type \in {"Trade", "BookDelta"}
      PROVE  InStep(SentOf(type, Range(B) \cup C), 0) /\ InStep(SentOf(type, C), 0)
  <2>1. \E n \in Nat : InStep(SentOf(type, Range(B) \cup C), n)
    BY <1>1, <1>3 DEF Good, Ahead
  <2>2. InStep(SentOf(type, Range(B) \cup C), 0)
    <3>1. \A e \in SentOf(type, Range(B) \cup C) : 0 <= e.id
      BY <1>2
    <3> QED BY <2>1, <3>1 DEF InStep
  <2>3. SentOf(type, C) \subseteq SentOf(type, Range(B) \cup C)
    BY DEF SentOf
  <2> QED BY <2>2, <2>3 DEF InStep
<1>4. {} \cup C = C
  OBVIOUS
<1> QED BY <1>3, <1>4 DEF Good, Ahead, Ready, Deltas

(* The ids of deltas. *)
LEMMA DeltaIds ==
  ASSUME MarketOK, NEW S, \A e \in S : IsEvent(e)
  PROVE  \A c \in Deltas(S) :
            /\ c.id \in 0..Changed /\ c.time \in Nat /\ (phase = "changed" => c.id < Changed)
            /\ \E e \in S : e.type = "BookDelta" /\ c = Sent(e) /\ c.id = e.id /\ c.time = e.time
<1> SUFFICES ASSUME NEW c \in Deltas(S)
             PROVE  /\ c.id \in 0..Changed /\ c.time \in Nat /\ (phase = "changed" => c.id < Changed)
                    /\ \E e \in S : e.type = "BookDelta" /\ c = Sent(e) /\ c.id = e.id /\ c.time = e.time
  OBVIOUS
<1>1. PICK e \in S : e.type = "BookDelta" /\ c = Sent(e)
  BY DEF Deltas, SentOf
<1>2. IsEvent(e) /\ IsDelta(e)
  BY <1>1 DEF IsEvent
<1>3. c.id = e.id /\ c.time = e.time /\ e.id \in Nat /\ e.time \in Nat
  BY <1>1, <1>2, SentIsLike
<1> QED BY <1>1, <1>2, <1>3, ChangedIsNat DEF IsDelta

(* An event that is no delta changes nothing, nor does one that goes nowhere. *)
LEMMA CarriesSame ==
  ASSUME MarketOK, MarketStep, depth' = "live" => depth = "live" /\ Touches,
         NEW C, NEW C1, Deltas(C1) = Deltas(C)
  PROVE  Carries(C, C1)
<1> SUFFICES ASSUME NEW S, Ready(S, C)
             PROVE  /\ Linked(Deltas(S \cup C)) => Linked(Deltas(S \cup C1))'
                    /\ \A m \in 0..Changed :
                          Resumes(Deltas(S \cup C), m) => Resumes(Deltas(S \cup C1), m)'
  BY DEF Carries
<1>1. PICK P : P = Deltas(S \cup C)
  OBVIOUS
<1>2. P = Deltas(S \cup C1)
  BY <1>1 DEF Deltas, SentOf
<1>3. \A c \in P : c.id \in 0..Changed
  BY <1>1, DeltaIds DEF Ready
<1>4. /\ Linked(P) => Linked(P)'
      /\ \A m \in 0..Changed : Resumes(P, m) => Resumes(P, m)'
  BY <1>3, LinkedStays
<1> QED BY <1>1, <1>2, <1>4

(* A step that leaves the registry alone keeps the invariant.                *)
LEMMA EnvironmentStep ==
  ASSUME IInv, MarketStep, MarketOK', UNCHANGED registry, panes' \in {1} \cup Panes,
         ChannelOK(depthCh)', \A e \in Range(depthCh') : e.type # "Trade",
         ChannelOK(tradeCh)', \A e \in Range(tradeCh') : e.type # "BookDelta",
         NEW C, C = InChannels, NEW C1, C1 = InChannels',
         \A e \in C1 : e \in C \/ IsNew(e)', Carries(C, C1),
         \A ledger : LedgerOK(ledger) =>
            \E ledger1 : LedgerOK(ledger1)' /\ \A n \in 0..tradeId : ledger1[n] = ledger[n]
  PROVE  IInv'
<1>1. PICK ledger : LedgerOK(ledger) /\ EngineOK(ledger)
  BY DEF IInv
<1>2. PICK ledger1 : LedgerOK(ledger1)' /\ \A n \in 0..tradeId : ledger1[n] = ledger[n]
  BY <1>1
<1>3. MarketOK /\ SocketsOK /\ SharedOK
  BY DEF IInv
<1>4. PICK d : d = Engine
  OBVIOUS
<1>5. PICK B : B = d.buffer
  OBVIOUS
<1>6. Engine' = d /\ shared' = shared /\ missed' = missed
  BY <1>4 DEF Engine, registry
<1>7. Good(d, B, C, FALSE, {}, ledger)
  BY <1>1, <1>4, <1>5 DEF EngineOK
<1>8. Good(d, B, C, FALSE, {}, ledger1)
  BY <1>2, <1>3, <1>7, GoodInLedger
<1>9. Good(d, B, C1, FALSE, {}, ledger1)'
  BY <1>3, <1>8, GoodStays
<1>10. Ready(Range(B), C) /\ Ready({}, C)
  BY <1>3, <1>7, ReadyWhenGood
<1>11. SocketsOK'
  <2>1. Linked(Deltas(C)) /\ {} \cup C = C /\ {} \cup C1 = C1
    BY <1>3 DEF SocketsOK
  <2>2. Linked(Deltas(C1))'
    BY <1>10, <2>1 DEF Carries
  <2> QED BY <2>2 DEF SocketsOK
<1>12. ~missed => UpToDate(d, Deltas(Range(B) \cup C1))'
  <2> SUFFICES ASSUME ~missed PROVE UpToDate(d, Deltas(Range(B) \cup C1))'
    OBVIOUS
  <2>1. UpToDate(d, Deltas(Range(B) \cup C))
    BY <1>1, <1>4, <1>5 DEF EngineOK
  <2>2. LastOf(d.seenDepth) \in 0..Changed
    BY <1>3, <1>7, ChangedIsNat DEF Good, Sound, IsDetector, Seen, LastOf, Last
  <2>3. hist'[LastOf(d.seenDepth) + 1] = hist[LastOf(d.seenDepth) + 1]
    BY <1>3, <2>2, HistGrows
  <2>4. Linked(Deltas(Range(B) \cup C1))'
    BY <1>10, <2>1 DEF Carries, UpToDate
  <2>5. DOMAIN d.levels = {} \/ Resumes(Deltas(Range(B) \cup C1), LastOf(d.seenDepth))'
    BY <1>10, <2>1, <2>2 DEF Carries, UpToDate
  <2> QED BY <2>1, <2>3, <2>4, <2>5 DEF UpToDate
<1>13. EngineOK(ledger1)'
  BY <1>5, <1>6, <1>9, <1>12 DEF EngineOK
<1>14. SharedOK'
  <2>1. clock \in Nat /\ clock' \in Nat /\ clock <= clock'
    BY <1>3 DEF MarketOK, MarketStep
  <2>2. (Alive(shared) <=> Alive(shared)') /\ Engine' = Engine
    BY <1>4, <1>6 DEF Alive
  <2> QED BY <1>3, <1>6, <2>1, <2>2, ConstantsAreNat DEF SharedOK
<1>15. (missed \in BOOLEAN)'
  BY <1>6 DEF IInv
<1> QED BY <1>2, <1>11, <1>13, <1>14, <1>15 DEF IInv

(* Nothing is executed. *)
LEMMA LedgerStays ==
  ASSUME UNCHANGED tradeId, \A k \in Key : moved'[k].executed = moved[k].executed,
         \A e \in InChannels' : e \in InChannels \/ e.type # "Trade"
  PROVE  \A ledger : LedgerOK(ledger) =>
            \E ledger1 : LedgerOK(ledger1)' /\ \A n \in 0..tradeId : ledger1[n] = ledger[n]
<1> SUFFICES ASSUME NEW ledger, LedgerOK(ledger)
             PROVE  LedgerOK(ledger)'
  OBVIOUS
<1>1. AllPaid(InChannels', ledger)
  BY DEF LedgerOK, AllPaid
<1> QED BY <1>1 DEF LedgerOK

(* The trade socket is not concerned. *)
LEMMA DepthSocketStep ==
  ASSUME IInv, MarketStep, MarketOK', UNCHANGED registry, panes' \in {1} \cup Panes,
         UNCHANGED <<tradeCh, tradeId>>, \A k \in Key : moved'[k].executed = moved[k].executed,
         NEW s, depthCh' = s, ChannelOK(s)', \A e \in Range(s) : e.type # "Trade",
         \A e \in Range(s) : e \in Range(depthCh) \/ IsNew(e)',
         NEW C, C = InChannels, NEW C1, C1 = InChannels', Carries(C, C1)
  PROVE  IInv'
<1>1. PICK b : b = tradeCh
  OBVIOUS
<1>2. ChannelOK(b)' /\ \A e \in Range(b) : e.type # "BookDelta"
  BY <1>1, ChannelStays DEF IInv, SocketsOK
<1>3. tradeCh' = b
  BY <1>1
<1>4. ChannelOK(depthCh)' /\ ChannelOK(tradeCh)'
  BY <1>2, <1>3
<1>5. \A e \in C1 : e \in C \/ IsNew(e)'
  BY DEF InChannels
<1>6. \A e \in InChannels' : e \in InChannels \/ e.type # "Trade"
  BY DEF InChannels
<1>7. \A ledger : LedgerOK(ledger) =>
            \E ledger1 : LedgerOK(ledger1)' /\ \A n \in 0..tradeId : ledger1[n] = ledger[n]
  BY <1>6, LedgerStays
<1>8. /\ \A e \in Range(depthCh') : e.type # "Trade"
      /\ \A e \in Range(tradeCh') : e.type # "BookDelta"
  BY <1>2, <1>3
<1> QED BY <1>4, <1>5, <1>7, <1>8, EnvironmentStep

(* Neither socket is. *)
LEMMA QuietStep ==
  ASSUME IInv, MarketStep, MarketOK', UNCHANGED registry, panes' \in {1} \cup Panes,
         UNCHANGED <<depthCh, tradeCh, tradeId>>,
         \A k \in Key : moved'[k].executed = moved[k].executed,
         depth' = "live" => depth = "live" /\ Touches
  PROVE  IInv'
<1>1. PICK s : s = depthCh
  OBVIOUS
<1>2. PICK C : C = InChannels
  OBVIOUS
<1>3. C = InChannels'
  BY <1>2 DEF InChannels
<1>4. Carries(C, C)
  BY CarriesSame DEF IInv
<1>5. ChannelOK(s)' /\ \A e \in Range(s) : e.type # "Trade"
  BY <1>1, ChannelStays DEF IInv, SocketsOK
<1> QED BY <1>1, <1>2, <1>3, <1>4, <1>5, DepthSocketStep

(* Time passes.                                                              *)
LEMMA TickStep ==
  ASSUME IInv, Tick
  PROVE  IInv'
<1>1. MarketStep /\ Touches
  BY DEF Tick, MarketStep, Touches, Book
<1>2. MarketOK'
  BY ConstantsAreNat DEF IInv, MarketOK, Tick
<1>3. UNCHANGED <<depthCh, tradeCh, moved, tradeId, depth>> /\ UNCHANGED registry /\ UNCHANGED panes
  BY DEF Tick, sockets
<1> QED BY <1>1, <1>2, <1>3, QuietStep DEF IInv

(* Steps that concern neither the market nor what is on its way.             *)
LEMMA SocketsIdleSteps ==
  ASSUME IInv, TradeConnect \/ \E n \in Panes : Require(n)
  PROVE  IInv'
<1>1. UNCHANGED <<market, depth, depthCh, tradeCh, registry>> /\ panes' \in {1} \cup Panes
  BY DEF TradeConnect, Require, sockets, IInv
<1>2. MarketStep /\ Touches
  BY <1>1 DEF MarketStep, Touches, Book, market
<1>3. MarketOK'
  BY <1>1 DEF IInv, MarketOK, market
<1> QED BY <1>1, <1>2, <1>3, QuietStep DEF market

(* The change of the book that SetLevel makes. *)
LEMMA LevelSet ==
  ASSUME MarketOK, NEW key \in Key, NEW qty \in Nat, SetLevel(key, qty), UNCHANGED clock,
         tradeId' \in {tradeId, tradeId + 1},
         moved' \in [Key -> [executed : Nat, added : Nat, cancelled : Nat]]
  PROVE  MarketStep /\ MarketOK' /\ Touches
<1>1. hist \in Seq([Key -> Nat]) /\ Len(hist) \in Nat \ {0} /\ Book \in [Key -> Nat]
  BY DEF MarketOK, Book
<1> DEFINE book == [Book EXCEPT ![key] = qty]
<1>2. book \in [Key -> Nat] /\ \A k \in Key \ {key} : book[k] = Book[k]
  BY <1>1
<1>3. phase = "open" /\ phase' = "changed" /\ hist' = Append(hist, book) /\ touched' = touched \cup {key}
  BY DEF SetLevel
<1> HIDE DEF book
<1>4. hist' \in Seq([Key -> Nat]) /\ hist' # <<>> /\ Book' = book
  <2>1. PICK h : h = Append(hist, book)
    OBVIOUS
  <2>2. h \in Seq([Key -> Nat]) /\ Len(h) = Len(hist) + 1 /\ h[Len(hist) + 1] = book
    BY <1>1, <1>2, <2>1
  <2>3. h # <<>> /\ h[Len(h)] = book
    BY <1>1, <2>2
  <2> QED BY <1>3, <2>1, <2>2, <2>3 DEF Book
<1>5. MarketStep
  BY <1>2, <1>3 DEF MarketStep
<1>6. MarketOK'
  <2>1. clock' = clock /\ tradeId' \in Nat /\ touched' \subseteq Key
    BY <1>3 DEF MarketOK
  <2>2. clock \in Nat \ {0} /\ clock <= MaxTime
    BY DEF MarketOK
  <2> QED BY <1>3, <1>4, <2>1, <2>2 DEF MarketOK
<1>7. Touches
  BY <1>2, <1>3, <1>4 DEF Touches
<1> QED BY <1>5, <1>6, <1>7

(* Liquidity is added or cancelled.                                          *)
LEMMA RequoteStep ==
  ASSUME IInv, NEW key \in Key, NEW qty \in Changes, Requote(key, qty)
  PROVE  IInv'
<1>1. qty \in Nat /\ MarketOK
  BY ConstantsAreNat DEF IInv
<1>2. Book[key] \in Nat
  BY <1>1 DEF MarketOK, Book
<1>3. moved \in [Key -> [executed : Nat, added : Nat, cancelled : Nat]]
  BY <1>1 DEF MarketOK
<1>4. /\ moved' \in [Key -> [executed : Nat, added : Nat, cancelled : Nat]]
      /\ \A k \in Key : moved'[k].executed = moved[k].executed
  <2>1. CASE qty > Book[key]
    <3>1. moved' = [moved EXCEPT ![key].added = @ + qty - Book[key]]
      BY <2>1 DEF Requote
    <3>2. moved[key].added + qty - Book[key] \in Nat
      BY <1>1, <1>2, <1>3, <2>1
    <3> QED BY <1>3, <3>1, <3>2
  <2>2. CASE ~ (qty > Book[key])
    <3>1. moved' = [moved EXCEPT ![key].cancelled = @ + Book[key] - qty]
      BY <2>2 DEF Requote
    <3>2. moved[key].cancelled + Book[key] - qty \in Nat
      BY <1>1, <1>2, <1>3, <2>2
    <3> QED BY <1>3, <3>1, <3>2
  <2> QED BY <2>1, <2>2
<1>5. SetLevel(key, qty) /\ UNCHANGED <<clock, tradeId, sockets, registry, panes>>
  BY DEF Requote
<1>6. MarketStep /\ MarketOK' /\ Touches
  BY <1>1, <1>4, <1>5, LevelSet
<1>7. UNCHANGED <<depthCh, tradeCh, depth>>
  BY <1>5 DEF sockets
<1> QED BY <1>4, <1>5, <1>6, <1>7, QuietStep DEF IInv

(* What a socket says of itself. *)
LEMMA NoticeIsNew ==
  ASSUME MarketOK, NEW e, e = Reconnect \/ \E quality \in Qualities : e = Quality(quality)
  PROVE  IsNew(e)' /\ e.type \notin {"Trade", "BookDelta"}
<1>1. Local \in Nat \ {0}
  BY ConstantsAreNat DEF MarketOK, Local
<1>2. CASE e = Reconnect
  BY <1>1, <1>2 DEF Reconnect, IsNew, IsEvent
<1>3. CASE \E quality \in Qualities : e = Quality(quality)
  BY <1>1, <1>3 DEF Quality, IsNew, IsEvent
<1> QED BY <1>2, <1>3

(* A notice is no delta.                                                     *)
LEMMA DeltasWithNotice ==
  ASSUME NEW S, NEW e, e.type # "BookDelta"
  PROVE  Deltas(S \cup {e}) = Deltas(S)
BY DEF Deltas, SentOf

(* A notice is appended to what the depth socket says. *)
LEMMA NoticeStep ==
  ASSUME IInv, MarketStep, MarketOK', UNCHANGED registry, panes' = panes,
         UNCHANGED <<tradeCh, tradeId, moved>>,
         NEW quality \in Qualities, depthCh' = Append(depthCh, Quality(quality)),
         depth' # "live"
  PROVE  IInv'
<1>1. PICK ch, e : ch = depthCh /\ e = Quality(quality)
  OBVIOUS
<1>2. PICK s : s = Append(ch, e)
  OBVIOUS
<1>3. ChannelOK(ch)' /\ \A f \in Range(ch) : f.type # "Trade"
  BY <1>1, ChannelStays DEF IInv, SocketsOK
<1>4. IsNew(e)' /\ e.type \notin {"Trade", "BookDelta"}
  BY <1>1, NoticeIsNew DEF IInv
<1>5. ChannelOK(s)' /\ Range(s) = Range(ch) \cup {e}
  BY <1>2, <1>3, <1>4, ChannelGrows
<1>6. depthCh' = s
  BY <1>1, <1>2
<1>7. PICK C, C1 : C = InChannels /\ C1 = InChannels'
  OBVIOUS
<1>8. C1 = C \cup {e}
  BY <1>1, <1>5, <1>6, <1>7 DEF InChannels
<1>9. Deltas(C1) = Deltas(C)
  BY <1>4, <1>8, DeltasWithNotice
<1>10. Carries(C, C1)
  BY <1>9, CarriesSame DEF IInv
<1>11. \A f \in Range(s) : f.type # "Trade" /\ (f \in Range(depthCh) \/ IsNew(f)')
  BY <1>1, <1>3, <1>4, <1>5
<1>12. panes' \in {1} \cup Panes
  BY DEF IInv
<1> QED BY <1>5, <1>6, <1>7, <1>10, <1>11, <1>12, DepthSocketStep

(* The depth socket connects, or notices a gap.                              *)
LEMMA NoticeSteps ==
  ASSUME IInv, DepthConnect \/ DepthGap
  PROVE  IInv'
<1>1. CASE DepthConnect
  <2>1. MarketStep /\ MarketOK'
    BY <1>1 DEF DepthConnect, MarketStep, market, MarketOK, IInv
  <2>2. depthCh' = Append(depthCh, Quality("Synchronizing")) /\ depth' # "live"
    BY <1>1 DEF DepthConnect
  <2>3. UNCHANGED <<tradeCh, tradeId, moved>> /\ UNCHANGED registry /\ panes' = panes
    BY <1>1 DEF DepthConnect, market
  <2> QED BY <2>1, <2>2, <2>3, NoticeStep DEF Qualities
<1>2. CASE DepthGap
  <2>1. MarketStep /\ MarketOK'
    BY <1>2 DEF DepthGap, MarketStep, MarketOK, IInv
  <2>2. depthCh' = Append(depthCh, Quality("Gap")) /\ depth' # "live"
    BY <1>2 DEF DepthGap
  <2>3. UNCHANGED <<tradeCh, tradeId, moved>> /\ UNCHANGED registry /\ panes' = panes
    BY <1>2 DEF DepthGap
  <2> QED BY <2>1, <2>2, <2>3, NoticeStep DEF Qualities
<1> QED BY <1>1, <1>2

(* The delta that the exchange sends names the quantities of its book. *)
LEMMA DeltaIsNew ==
  ASSUME MarketOK, MarketStep, hist' = hist, UNCHANGED clock, phase' = "closed",
         NEW T, T \subseteq Key, NEW boundary \in BOOLEAN,
         NEW e, e = Delta([k \in T |-> Book[k]], boundary)
  PROVE  /\ IsNew(e)' /\ e.type = "BookDelta" /\ e.id = Changed /\ e.boundary = boundary
         /\ e.levels = [k \in T |-> Book[k]] /\ "recv" \in DOMAIN e
         /\ "id" \in DOMAIN e /\ "levels" \in DOMAIN e /\ "boundary" \in DOMAIN e
<1>1. Changed \in Nat /\ Changed' = Changed
  BY HistGrows
<1>2. Book \in [Key -> Nat] /\ hist[Changed + 1] = Book /\ clock \in Nat \ {0}
  BY <1>1 DEF MarketOK, Book, Changed
<1>3. /\ e.type = "BookDelta" /\ DOMAIN e = {"type", "time", "recv", "id", "levels", "boundary"}
      /\ e.time = clock /\ e.recv = 0 /\ e.id = Changed /\ e.boundary = boundary
      /\ e.levels = [k \in T |-> Book[k]]
  BY DEF Delta
<1>4. \A k \in DOMAIN e.levels : e.levels[k] \in Nat /\ e.levels[k] = hist[Changed + 1][k]
  BY <1>2, <1>3
<1>5. DOMAIN e.levels \subseteq Key
  BY <1>3
<1>6. Names(e)
  BY <1>4, <1>5 DEF Names
<1>7. \A k \in DOMAIN e.levels : e.levels[k] = hist'[e.id + 1][k]
  BY <1>3, <1>4
<1>8. e.id <= Changed' /\ e.id \in Nat
  BY <1>1, <1>3
<1>9. e.time <= clock'
  BY <1>2, <1>3
<1>10. e.boundary \in BOOLEAN
  BY <1>3
<1>11. Names(e)'
  BY <1>6 DEF Names
<1>12. e.time = clock' => e.id = Changed' /\ phase' = "closed"
  BY <1>1, <1>3
<1>13. IsDelta(e)'
  BY <1>3, <1>7, <1>8, <1>9, <1>10, <1>11, <1>12 DEF IsDelta
<1> QED BY <1>1, <1>2, <1>3, <1>13 DEF IsNew, IsEvent

(* The exchange sends a delta: the socket gets it, or is not live.           *)
LEMMA EmitDeltaStep ==
  ASSUME IInv, EmitDelta
  PROVE  IInv'
<1>1. MarketOK /\ MarketOK' /\ MarketStep /\ hist' = hist /\ touched' = {} /\ phase = "changed"
  BY DEF EmitDelta, MarketOK, MarketStep, IInv
<1>2. UNCHANGED <<tradeCh, tradeId, moved, depth>> /\ UNCHANGED registry /\ panes' = panes
  BY DEF EmitDelta
<1>3. CASE depth # "live"
  <2>1. UNCHANGED depthCh /\ depth' # "live"
    BY <1>2, <1>3 DEF EmitDelta
  <2> QED BY <1>1, <1>2, <2>1, QuietStep DEF IInv
<1>4. CASE depth = "live"
  <2>1. PICK ch, e : ch = depthCh /\ e = Delta([k \in touched |-> Book[k]], FALSE)
    OBVIOUS
  <2>2. PICK s : s = Append(ch, e)
    OBVIOUS
  <2>3. depthCh' = s
    BY <1>4, <2>1, <2>2 DEF EmitDelta
  <2>4. touched \subseteq Key /\ UNCHANGED clock /\ phase' = "closed"
    BY <1>1 DEF EmitDelta, MarketOK
  <2>6. /\ IsNew(e)' /\ e.type = "BookDelta" /\ e.id = Changed /\ e.boundary = FALSE
        /\ e.levels = [k \in touched |-> Book[k]] /\ "recv" \in DOMAIN e
        /\ "id" \in DOMAIN e /\ "levels" \in DOMAIN e /\ "boundary" \in DOMAIN e
    BY <1>1, <2>1, <2>4, DeltaIsNew
  <2>8. ChannelOK(ch)' /\ \A f \in Range(ch) : f.type # "Trade"
    BY <1>1, <2>1, ChannelStays DEF IInv, SocketsOK
  <2>9. ChannelOK(s)' /\ Range(s) = Range(ch) \cup {e}
    BY <2>2, <2>6, <2>8, ChannelGrows
  <2>10. PICK C, C1 : C = InChannels /\ C1 = InChannels'
    OBVIOUS
  <2>11. C1 = C \cup {e}
    BY <1>2, <2>1, <2>3, <2>9, <2>10 DEF InChannels
  <2>12. Carries(C, C1)
    <3> SUFFICES ASSUME NEW S, Ready(S, C)
                 PROVE  /\ Linked(Deltas(S \cup C)) => Linked(Deltas(S \cup C1))'
                        /\ \A m \in 0..Changed :
                              Resumes(Deltas(S \cup C), m) => Resumes(Deltas(S \cup C1), m)'
      BY DEF Carries
    <3>1. PICK P, h : P = Deltas(S \cup C) /\ h = Sent(e)
      OBVIOUS
    <3>2. Deltas(S \cup C1) = P \cup {h}
      BY <2>6, <2>11, <3>1 DEF Deltas, SentOf
    <3>3. \A c \in P : c.id \in 0..Changed /\ c.id < Changed
      BY <1>1, <3>1, DeltaIds DEF Ready
    <3>4. h.id = Changed /\ DOMAIN h.levels = touched /\ h.boundary = FALSE
      BY <2>6, <3>1 DEF Sent
    <3>5. /\ Linked(P) => Linked(P \cup {h})'
          /\ \A m \in 0..Changed : Resumes(P, m) => Resumes(P \cup {h}, m)'
      BY <1>1, <1>4, <3>3, <3>4, LinkedWithDelta
    <3> QED BY <3>1, <3>2, <3>5
  <2>13. \A f \in Range(s) : f.type # "Trade" /\ (f \in Range(depthCh) \/ IsNew(f)')
    BY <2>1, <2>6, <2>8, <2>9
  <2>14. panes' \in {1} \cup Panes
    BY <1>2 DEF IInv
  <2> QED BY <1>1, <1>2, <2>3, <2>9, <2>10, <2>12, <2>13, <2>14, DepthSocketStep
<1> QED BY <1>3, <1>4

(* The depth socket goes live with the whole book.                           *)
LEMMA DepthBoundaryStep ==
  ASSUME IInv, DepthBoundary
  PROVE  IInv'
<1>1. MarketOK /\ MarketOK' /\ MarketStep /\ hist' = hist /\ UNCHANGED clock /\ phase' = "closed"
  BY DEF DepthBoundary, MarketOK, MarketStep, IInv
<1>2. UNCHANGED <<tradeCh, tradeId, moved>> /\ UNCHANGED registry /\ panes' = panes
  BY DEF DepthBoundary
<1> DEFINE T == {k \in Key : Book[k] > 0}
<1>3. PICK ch, e, q : ch = depthCh /\ e = Delta([k \in T |-> Book[k]], TRUE) /\ q = Quality("Healthy")
  OBVIOUS
<1>4. PICK s : s = Append(Append(ch, e), q)
  OBVIOUS
<1>5. T \subseteq Key
  OBVIOUS
<1>6. depthCh' = s
  <2>1. depthCh' = ch \o <<e, q>>
    BY <1>3 DEF DepthBoundary, WholeBook
  <2>2. ch \in Seq(Range(ch) \cup {e, q})
    <3>1. ch \in Seq(Range(ch))
      BY <1>3 DEF IInv, SocketsOK, ChannelOK
    <3> QED BY <3>1
  <2>3. ch \o <<e, q>> = Append(Append(ch, e), q)
    BY <2>2
  <2> QED BY <1>4, <2>1, <2>3
<1> HIDE DEF T
<1>7. /\ IsNew(e)' /\ e.type = "BookDelta" /\ e.id = Changed /\ e.boundary = TRUE
      /\ "recv" \in DOMAIN e /\ "id" \in DOMAIN e /\ "boundary" \in DOMAIN e
  BY <1>1, <1>3, <1>5, DeltaIsNew
<1>8. IsNew(q)' /\ q.type \notin {"Trade", "BookDelta"}
  BY <1>1, <1>3, NoticeIsNew DEF Qualities
<1>9. ChannelOK(ch)' /\ \A f \in Range(ch) : f.type # "Trade"
  BY <1>1, <1>3, ChannelStays DEF IInv, SocketsOK
<1>10. ChannelOK(s)' /\ Range(s) = Range(ch) \cup {e, q}
  <2>1. PICK t : t = Append(ch, e)
    OBVIOUS
  <2>2. ChannelOK(t)' /\ Range(t) = Range(ch) \cup {e}
    BY <1>7, <1>9, <2>1, ChannelGrows
  <2>3. ChannelOK(s)' /\ Range(s) = Range(t) \cup {q}
    BY <1>4, <1>8, <2>1, <2>2, ChannelGrows
  <2> QED BY <2>2, <2>3
<1>11. PICK C, C1 : C = InChannels /\ C1 = InChannels'
  OBVIOUS
<1>12. C1 = C \cup {e, q}
  BY <1>2, <1>3, <1>6, <1>10, <1>11 DEF InChannels
<1>13. Carries(C, C1)
  <2> SUFFICES ASSUME NEW S, Ready(S, C)
               PROVE  /\ Linked(Deltas(S \cup C)) => Linked(Deltas(S \cup C1))'
                      /\ \A m \in 0..Changed :
                            Resumes(Deltas(S \cup C), m) => Resumes(Deltas(S \cup C1), m)'
    BY DEF Carries
  <2>1. PICK P, h : P = Deltas(S \cup C) /\ h = Sent(e)
    OBVIOUS
  <2>2. Deltas(S \cup C1) = P \cup {h}
    BY <1>7, <1>8, <1>12, <2>1 DEF Deltas, SentOf
  <2>3. \A c \in P : c.id \in 0..Changed
    BY <1>1, <2>1, DeltaIds DEF Ready
  <2>4. h.id = Changed /\ h.boundary = TRUE
    BY <1>7, <2>1 DEF Sent
  <2>5. /\ Linked(P) => Linked(P \cup {h})'
        /\ \A m \in 0..Changed : Resumes(P, m) => Resumes(P \cup {h}, m)'
    BY <1>1, <2>3, <2>4, LinkedWithBoundary
  <2> QED BY <2>1, <2>2, <2>5
<1>14. \A f \in Range(s) : f.type # "Trade" /\ (f \in Range(depthCh) \/ IsNew(f)')
  BY <1>3, <1>7, <1>8, <1>9, <1>10
<1>15. panes' \in {1} \cup Panes
  BY <1>2 DEF IInv
<1> QED BY <1>1, <1>2, <1>6, <1>10, <1>11, <1>13, <1>14, <1>15, DepthSocketStep

(* The depth socket is lost with the last events on it.                      *)
LEMMA DepthLostStep ==
  ASSUME IInv, NEW n \in 0..Len(depthCh), DepthLost(n)
  PROVE  IInv'
<1>1. MarketOK /\ MarketOK' /\ MarketStep /\ depth' # "live"
  BY DEF DepthLost, market, MarketOK, MarketStep, IInv
<1>2. UNCHANGED <<tradeCh, tradeId, moved>> /\ UNCHANGED registry /\ panes' = panes
  BY DEF DepthLost, market
<1>3. PICK ch, q : ch = depthCh /\ q = Reconnect
  OBVIOUS
<1>4. PICK t : t = SubSeq(ch, 1, n)
  OBVIOUS
<1>5. PICK s : s = Append(t, q)
  OBVIOUS
<1>6. depthCh' = s
  BY <1>3, <1>4, <1>5 DEF DepthLost
<1>7. IsNew(q)' /\ q.type \notin {"Trade", "BookDelta"}
  BY <1>1, <1>3, NoticeIsNew
<1>8. ChannelOK(ch)' /\ \A f \in Range(ch) : f.type # "Trade"
  BY <1>1, <1>3, ChannelStays DEF IInv, SocketsOK
<1>9. /\ ChannelOK(t)' /\ Range(t) \subseteq Range(ch)
      /\ \A e \in Range(t), f \in Range(ch) \ Range(t) :
            e.type = f.type /\ e.type \in {"Trade", "BookDelta"} => e.time <= f.time
  BY <1>3, <1>4, <1>8, ChannelShrinks
<1>10. ChannelOK(s)' /\ Range(s) = Range(t) \cup {q}
  BY <1>5, <1>7, <1>9, ChannelGrows
<1>11. PICK C, C1 : C = InChannels /\ C1 = InChannels'
  OBVIOUS
<1>12. C = Range(ch) \cup Range(tradeCh) /\ C1 = Range(t) \cup {q} \cup Range(tradeCh)
  BY <1>2, <1>3, <1>6, <1>10, <1>11 DEF InChannels
<1>13. Carries(C, C1)
  <2> SUFFICES ASSUME NEW S, Ready(S, C)
               PROVE  /\ Linked(Deltas(S \cup C)) => Linked(Deltas(S \cup C1))'
                      /\ \A m \in 0..Changed :
                            Resumes(Deltas(S \cup C), m) => Resumes(Deltas(S \cup C1), m)'
    BY DEF Carries
  <2>1. PICK P, Q : P = Deltas(S \cup C) /\ Q = Deltas(S \cup C1)
    OBVIOUS
  <2>2. Q \subseteq P
    BY <1>7, <1>9, <1>12, <2>1 DEF Deltas, SentOf
  <2>3. /\ \A c \in P : /\ c.id \in 0..Changed
                        /\ \E e \in S \cup C : e.type = "BookDelta" /\ c = Sent(e) /\ c.id = e.id
                                               /\ c.time = e.time
    BY <1>1, <2>1, DeltaIds DEF Ready
  <2>4. ASSUME NEW c \in P \ Q, NEW h \in Q
        PROVE  h.id <= c.id
    <3>1. PICK e \in S \cup C1 : e.type = "BookDelta" /\ h = Sent(e)
      BY <2>1 DEF Deltas, SentOf
    <3>2. PICK f \in S \cup C : f.type = "BookDelta" /\ c = Sent(f) /\ c.time = f.time
      BY <2>3
    <3>3. f \notin S \cup C1
      BY <2>1, <2>4, <3>2 DEF Deltas, SentOf
    <3>4. \A g \in Range(tradeCh) : g.type # "BookDelta"
      BY DEF IInv, SocketsOK
    <3>5. f \in Range(ch) \ Range(t) /\ f \in C
      BY <1>12, <3>2, <3>3
    <3>6. e \in S \/ e \in Range(t)
      BY <1>7, <1>12, <3>1, <3>4
    <3>7. e.time <= f.time
      BY <1>9, <3>1, <3>2, <3>5, <3>6 DEF Ready
    <3>8. h.time = e.time
      <4>1. e \in S \cup C
        BY <1>9, <1>12, <3>6
      <4>2. IsEvent(e)
        BY <4>1 DEF Ready
      <4> QED BY <3>1, <4>2, SentIsLike
    <3> QED BY <2>1, <2>2, <2>4, <3>2, <3>7, <3>8 DEF Ready, InStep
  <2>5. /\ Linked(P) => Linked(Q)'
        /\ \A m \in 0..Changed : Resumes(P, m) => Resumes(Q, m)'
    BY <1>1, <2>2, <2>3, <2>4, LinkedOfFirst
  <2> QED BY <2>1, <2>5
<1>14. \A f \in Range(s) : f.type # "Trade" /\ (f \in Range(depthCh) \/ IsNew(f)')
  BY <1>3, <1>7, <1>8, <1>9, <1>10
<1>15. panes' \in {1} \cup Panes
  BY <1>2 DEF IInv
<1> QED BY <1>1, <1>2, <1>6, <1>10, <1>11, <1>13, <1>14, <1>15, DepthSocketStep

(* The depth socket is not concerned. *)
LEMMA TradeSocketStep ==
  ASSUME IInv, MarketStep, MarketOK', UNCHANGED registry, panes' = panes,
         UNCHANGED <<depth, depthCh>>, Touches,
         NEW s, tradeCh' = s, ChannelOK(s)', \A e \in Range(s) : e.type # "BookDelta",
         \A e \in Range(s) : e \in Range(tradeCh) \/ IsNew(e)',
         \A ledger : LedgerOK(ledger) =>
            \E ledger1 : LedgerOK(ledger1)' /\ \A n \in 0..tradeId : ledger1[n] = ledger[n]
  PROVE  IInv'
<1>1. PICK ch : ch = depthCh
  OBVIOUS
<1>2. ChannelOK(ch)' /\ \A e \in Range(ch) : e.type # "Trade"
  BY <1>1, ChannelStays DEF IInv, SocketsOK
<1>3. depthCh' = ch
  BY <1>1
<1>4. ChannelOK(depthCh)' /\ ChannelOK(tradeCh)'
  BY <1>2, <1>3
<1>5. PICK C, C1 : C = InChannels /\ C1 = InChannels'
  OBVIOUS
<1>6. C = Range(ch) \cup Range(tradeCh) /\ C1 = Range(ch) \cup Range(s)
  BY <1>1, <1>5 DEF InChannels
<1>7. \A e \in C1 : e \in C \/ IsNew(e)'
  BY <1>6
<1>8. Deltas(C1) = Deltas(C)
  <2>1. \A e \in Range(tradeCh) : e.type # "BookDelta"
    BY DEF IInv, SocketsOK
  <2> QED BY <1>6, <2>1 DEF Deltas, SentOf
<1>9. Carries(C, C1)
  BY <1>8, CarriesSame DEF IInv
<1>10. /\ \A e \in Range(depthCh') : e.type # "Trade"
       /\ \A e \in Range(tradeCh') : e.type # "BookDelta"
  BY <1>2, <1>3
<1>11. panes' \in {1} \cup Panes
  BY DEF IInv
<1> QED BY <1>4, <1>5, <1>7, <1>9, <1>10, <1>11, EnvironmentStep

(* The trade socket is lost with the last events on it.                      *)
LEMMA TradeLostStep ==
  ASSUME IInv, NEW n \in 0..Len(tradeCh), TradeLost(n)
  PROVE  IInv'
<1>1. MarketOK /\ MarketOK' /\ MarketStep /\ Touches
  BY DEF TradeLost, market, MarketOK, MarketStep, IInv, Touches, Book
<1>2. UNCHANGED <<depth, depthCh, tradeId, moved>> /\ UNCHANGED registry /\ panes' = panes
  BY DEF TradeLost, market
<1>3. PICK ch, q : ch = tradeCh /\ q = Reconnect
  OBVIOUS
<1>4. PICK t : t = SubSeq(ch, 1, n)
  OBVIOUS
<1>5. PICK s : s = Append(t, q)
  OBVIOUS
<1>6. tradeCh' = s
  BY <1>3, <1>4, <1>5 DEF TradeLost
<1>7. IsNew(q)' /\ q.type \notin {"Trade", "BookDelta"}
  BY <1>1, <1>3, NoticeIsNew
<1>8. ChannelOK(ch)' /\ \A f \in Range(ch) : f.type # "BookDelta"
  BY <1>1, <1>3, ChannelStays DEF IInv, SocketsOK
<1>9. ChannelOK(t)' /\ Range(t) \subseteq Range(ch)
  BY <1>3, <1>4, <1>8, ChannelShrinks
<1>10. ChannelOK(s)' /\ Range(s) = Range(t) \cup {q}
  BY <1>5, <1>7, <1>9, ChannelGrows
<1>11. \A f \in Range(s) : f.type # "BookDelta" /\ (f \in Range(tradeCh) \/ IsNew(f)')
  BY <1>3, <1>7, <1>8, <1>9, <1>10
<1>12. \A e \in InChannels' : e \in InChannels \/ e.type # "Trade"
  BY <1>2, <1>3, <1>6, <1>7, <1>9, <1>10 DEF InChannels
<1>13. \A ledger : LedgerOK(ledger) =>
            \E ledger1 : LedgerOK(ledger1)' /\ \A m \in 0..tradeId : ledger1[m] = ledger[m]
  BY <1>2, <1>12, LedgerStays
<1> QED BY <1>1, <1>2, <1>6, <1>10, <1>11, <1>13, TradeSocketStep

(* An execution is entered under its trade id. *)
LEMMA LedgerGrows ==
  ASSUME IInv, NEW key \in Key, NEW qty \in Nat \ {0}, tradeId' = tradeId + 1,
         moved' = [moved EXCEPT ![key].executed = @ + qty],
         NEW C, C = InChannels, NEW C1, C1 = InChannels',
         NEW e, e.id = tradeId + 1, e.key = key, e.qty = qty, C1 \subseteq C \cup {e}
  PROVE  \A ledger : LedgerOK(ledger) =>
            \E ledger1 : LedgerOK(ledger1)' /\ \A n \in 0..tradeId : ledger1[n] = ledger[n]
<1> SUFFICES ASSUME NEW ledger, LedgerOK(ledger)
             PROVE  \E ledger1 : LedgerOK(ledger1)' /\ \A n \in 0..tradeId : ledger1[n] = ledger[n]
  OBVIOUS
<1>1. /\ tradeId \in Nat /\ moved \in [Key -> [executed : Nat, added : Nat, cancelled : Nat]]
      /\ ledger \in [Nat -> [Key -> Nat]] /\ MarketOK
  BY DEF IInv, MarketOK, LedgerOK, IsLedger
<1> DEFINE row == [ledger[tradeId] EXCEPT ![key] = @ + qty]
           after == [n \in Nat |-> IF n <= tradeId THEN ledger[n] ELSE row]
<1>2. /\ row \in [Key -> Nat] /\ row[key] = ledger[tradeId][key] + qty
      /\ \A k \in Key : ledger[tradeId][k] <= row[k] /\ (k # key => row[k] = ledger[tradeId][k])
  BY <1>1
<1> HIDE DEF row
<1>0. PICK ledger1 : ledger1 = after
  OBVIOUS
<1>3. /\ ledger1 \in [Nat -> [Key -> Nat]]
      /\ \A n \in 0..tradeId : ledger1[n] = ledger[n]
      /\ ledger1[tradeId] = ledger[tradeId] /\ ledger1[tradeId + 1] = row
      /\ \A n \in Nat : n > tradeId => ledger1[n] = row
      /\ \A n \in Nat : n <= tradeId => ledger1[n] = ledger[n]
  BY <1>0, <1>1, <1>2
<1> HIDE DEF after
<1>4. IsLedger(ledger1)
  <2> SUFFICES ASSUME NEW m \in Nat, NEW n \in Nat, m <= n, NEW k \in Key
               PROVE  ledger1[m][k] <= ledger1[n][k]
    BY <1>3 DEF IsLedger
  <2>0. \A i, j \in Nat : i <= j => ledger[i][k] <= ledger[j][k]
    BY DEF LedgerOK, IsLedger
  <2>1. CASE n <= tradeId
    <3>1. m <= tradeId
      BY <1>1, <2>1
    <3>2. ledger1[m] = ledger[m] /\ ledger1[n] = ledger[n]
      BY <1>3, <2>1, <3>1
    <3> QED BY <2>0, <3>2
  <2>2. CASE m <= tradeId /\ n > tradeId
    <3>1. ledger[m][k] <= ledger[tradeId][k] /\ ledger[tradeId][k] <= row[k]
      BY <1>1, <1>2, <2>0, <2>2
    <3>2. ledger[m][k] \in Nat /\ ledger[tradeId][k] \in Nat /\ row[k] \in Nat
      BY <1>1, <1>2
    <3> QED BY <1>3, <2>2, <3>1, <3>2
  <2>3. CASE m > tradeId
    <3>1. n > tradeId
      BY <1>1, <2>3
    <3>2. ledger1[m] = row /\ ledger1[n] = row /\ row[k] \in Nat
      BY <1>2, <1>3, <2>3, <3>1
    <3> QED BY <3>2
  <2> QED BY <1>1, <2>1, <2>2, <2>3
<1>5. ASSUME NEW k \in Key
      PROVE  ledger1[tradeId'][k] <= moved'[k].executed
  <2>1. ledger1[tradeId'] = row
    BY <1>3
  <2>2. ledger[tradeId][k] <= moved[k].executed /\ ledger[tradeId][k] \in Nat
    BY <1>1 DEF LedgerOK
  <2>3. moved'[k].executed = IF k = key THEN moved[k].executed + qty ELSE moved[k].executed
    BY <1>1
  <2>4. moved[k].executed \in Nat
    BY <1>1
  <2> QED BY <1>2, <2>1, <2>2, <2>3, <2>4
<1>6. AllPaid(C1, ledger1)
  <2> SUFFICES ASSUME NEW f \in C1, f.type = "Trade"
               PROVE  Paid(f, ledger1)
    BY DEF AllPaid
  <2>1. CASE f = e
    <3>1. ledger1[(tradeId + 1) - 1] = ledger[tradeId] /\ ledger1[tradeId + 1] = row
      <4>1. (tradeId + 1) - 1 = tradeId
        BY <1>1
      <4> QED BY <1>3, <4>1
    <3>2. ledger[tradeId][key] + qty <= row[key]
      BY <1>1, <1>2
    <3> QED BY <1>1, <2>1, <3>1, <3>2 DEF Paid
  <2>2. CASE f \in C
    <3>1. IsTrade(f) /\ Paid(f, ledger)
      <4>1. ChannelOK(depthCh) /\ ChannelOK(tradeCh) /\ AllPaid(InChannels, ledger)
        BY DEF IInv, SocketsOK, LedgerOK
      <4> QED BY <2>2, <4>1 DEF InChannels, ChannelOK, IsEvent, AllPaid
    <3>2. f.id \in 0..tradeId /\ f.id - 1 \in 0..tradeId
      BY <1>1, <3>1 DEF IsTrade
    <3> QED BY <1>3, <3>1, <3>2 DEF Paid
  <2> QED BY <2>1, <2>2
<1>7. LedgerOK(ledger1)'
  <2>1. IsLedger(ledger1)'
    BY <1>4
  <2>2. AllPaid(InChannels', ledger1)
    BY <1>6
  <2>3. AllPaid(InChannels, ledger1)'
    BY <2>2 DEF AllPaid, Paid
  <2> QED BY <1>5, <2>1, <2>3 DEF LedgerOK
<1> QED BY <1>3, <1>7

(* A trade: the book and the ledger change, and the socket gets it if it is up. *)
LEMMA ExecuteStep ==
  ASSUME IInv, NEW key \in Key, NEW qty \in TradeSizes, Execute(key, qty)
  PROVE  IInv'
<1>1. qty \in Nat \ {0} /\ MarketOK
  BY ConstantsAreNat DEF IInv
<1>2. Book[key] \in Nat /\ Book[key] - qty \in Nat
  <2>1. Book[key] \in Nat /\ qty <= Book[key]
    BY <1>1 DEF MarketOK, Book, Execute
  <2> QED BY <1>1, <2>1
<1>3. /\ moved \in [Key -> [executed : Nat, added : Nat, cancelled : Nat]]
      /\ moved' = [moved EXCEPT ![key].executed = @ + qty]
      /\ tradeId \in Nat /\ tradeId' = tradeId + 1 /\ clock \in Nat \ {0} /\ clock' = clock
      /\ phase' = "changed"
  BY <1>1 DEF MarketOK, Execute, SetLevel
<1>4. moved' \in [Key -> [executed : Nat, added : Nat, cancelled : Nat]]
  BY <1>1, <1>3
<1>5. MarketStep /\ MarketOK' /\ Touches
  <2>1. SetLevel(key, Book[key] - qty)
    BY DEF Execute
  <2>2. PICK q \in Nat : q = Book[key] - qty
    BY <1>2
  <2> QED BY <1>1, <1>3, <1>4, <2>1, <2>2, LevelSet
<1>6. UNCHANGED <<depth, depthCh>> /\ UNCHANGED registry /\ panes' = panes
  BY DEF Execute
<1>7. PICK ch, e : ch = tradeCh /\ e = Trade(key, qty)
  OBVIOUS
<1>8. /\ e.type = "Trade" /\ DOMAIN e = {"type", "time", "recv", "id", "key", "qty"}
      /\ e.time = clock /\ e.recv = 0 /\ e.id = tradeId + 1 /\ e.key = key /\ e.qty = qty
  BY <1>7 DEF Trade
<1>9. IsNew(e)'
  <2>1. IsTrade(e)'
    BY <1>3, <1>8 DEF IsTrade
  <2> QED BY <1>3, <1>8, <2>1 DEF IsNew, IsEvent
<1>10. ChannelOK(ch)' /\ \A f \in Range(ch) : f.type # "BookDelta"
  BY <1>1, <1>5, <1>7, ChannelStays DEF IInv, SocketsOK
<1>11. PICK s : s = IF tradeUp THEN Append(ch, e) ELSE ch
  OBVIOUS
<1>12. tradeCh' = s
  BY <1>7, <1>11 DEF Execute
<1>13. ChannelOK(s)' /\ Range(s) \subseteq Range(ch) \cup {e}
  <2>1. ChannelOK(Append(ch, e))' /\ Range(Append(ch, e)) = Range(ch) \cup {e}
    BY <1>9, <1>10, ChannelGrows
  <2>2. CASE tradeUp
    <3>1. s = Append(ch, e)
      BY <1>11, <2>2
    <3> QED BY <2>1, <3>1
  <2>3. CASE ~tradeUp
    <3>1. s = ch
      BY <1>11, <2>3
    <3> QED BY <1>10, <3>1
  <2> QED BY <2>2, <2>3
<1>14. PICK C, C1 : C = InChannels /\ C1 = InChannels'
  OBVIOUS
<1>15. C1 \subseteq C \cup {e}
  BY <1>6, <1>7, <1>12, <1>13, <1>14 DEF InChannels
<1>16. \A ledger : LedgerOK(ledger) =>
            \E ledger1 : LedgerOK(ledger1)' /\ \A n \in 0..tradeId : ledger1[n] = ledger[n]
  <2>1. /\ qty \in Nat \ {0} /\ tradeId' = tradeId + 1
        /\ moved' = [moved EXCEPT ![key].executed = @ + qty]
        /\ e.id = tradeId + 1 /\ e.key = key /\ e.qty = qty
    BY <1>1, <1>3, <1>8
  <2> QED BY <1>14, <1>15, <2>1, LedgerGrows
<1>17. \A f \in Range(s) : f.type # "BookDelta" /\ (f \in Range(tradeCh) \/ IsNew(f)')
  BY <1>7, <1>8, <1>9, <1>10, <1>13
<1> QED BY <1>5, <1>6, <1>12, <1>13, <1>16, <1>17, TradeSocketStep

--------------------------------------------------------------------------------
(* The steps of the application. *)

(* EventsAreStable, of one step. *)
EventsKept ==
    \A a \in Range(Engine.events), b \in Range(Engine'.events) :
       a.id = b.id => a.key = b.key /\ Follows(a, b)

MarketSame == UNCHANGED <<market, depth, panes>>

(* The application does not move the market.                                 *)
LEMMA SameMarketOK ==
  ASSUME MarketOK, MarketSame
  PROVE  MarketOK' /\ MarketStep /\ UNCHANGED <<clock, phase, hist, touched, tradeId, depth>>
BY DEF MarketOK, MarketSame, market, MarketStep

(* What is left in the channels when the head of the depth socket's is gone. *)
LEMMA DepthArrives ==
  ASSUME IInv, MarketSame, depthCh # <<>>, depthCh' = Tail(depthCh), UNCHANGED tradeCh,
         NEW C, C = InChannels, NEW C1, C1 = InChannels', NEW g, g = Head(depthCh)
  PROVE  /\ SocketsOK' /\ Linked(Deltas(C1)) /\ g \in C /\ C1 \subseteq C /\ C \subseteq C1 \cup {g}
         /\ \A h \in C1 : h.type = g.type /\ g.type \in {"Trade", "BookDelta"} => g.time <= h.time
<1>1. /\ MarketOK /\ MarketOK' /\ MarketStep
      /\ UNCHANGED <<clock, phase, hist, touched, tradeId, depth>>
  BY SameMarketOK DEF IInv
<1>2. PICK a, b : a = depthCh /\ b = tradeCh
  OBVIOUS
<1>3. /\ ChannelOK(a)' /\ \A e \in Range(a) : e.type # "Trade"
      /\ ChannelOK(b)' /\ \A e \in Range(b) : e.type # "BookDelta"
  BY <1>1, <1>2, ChannelStays DEF IInv, SocketsOK
<1>4. PICK t : t = Tail(a)
  OBVIOUS
<1>5. depthCh' = t /\ tradeCh' = b /\ g = Head(a)
  BY <1>2, <1>4
<1>6. /\ ChannelOK(t)' /\ g \in Range(a) /\ Range(t) \subseteq Range(a)
      /\ Range(a) \subseteq Range(t) \cup {g}
      /\ \A f \in Range(a) : f.type = g.type /\ f.type \in {"Trade", "BookDelta"} => g.time <= f.time
  BY <1>2, <1>3, <1>4, ChannelLosesHead
<1>7. C = Range(a) \cup Range(b) /\ C1 = Range(t) \cup Range(b)
  BY <1>2, <1>5 DEF InChannels
<1>8. g \in C /\ C1 \subseteq C /\ C \subseteq C1 \cup {g}
  BY <1>6, <1>7
<1>9. \A h \in C1 : h.type = g.type /\ g.type \in {"Trade", "BookDelta"} => g.time <= h.time
  BY <1>3, <1>6, <1>7
<1>10. Linked(Deltas(C)) /\ \A e \in C : IsEvent(e)
  <2>1. ChannelOK(depthCh) /\ ChannelOK(tradeCh) /\ Linked(Deltas(InChannels))
    BY DEF IInv, SocketsOK
  <2> QED BY <2>1 DEF ChannelOK, InChannels
<1>11. Linked(Deltas(C1))
  <2>1. CASE g.type # "BookDelta"
    <3>1. Deltas(C1) = Deltas(C)
      BY <1>8, <2>1 DEF Deltas, SentOf
    <3> QED BY <1>10, <3>1
  <2>2. CASE g.type = "BookDelta"
    <3>1. PICK P, Q, h : P = Deltas(C) /\ Q = Deltas(C1) /\ h = Sent(g)
      OBVIOUS
    <3>2. h \in P /\ Q \subseteq P /\ P \subseteq Q \cup {h}
      BY <1>8, <2>2, <3>1 DEF Deltas, SentOf
    <3>3. \A c \in P : /\ c.id \in 0..Changed
                       /\ \E e \in C : e.type = "BookDelta" /\ c = Sent(e) /\ c.id = e.id /\ c.time = e.time
      BY <1>1, <1>10, <3>1, DeltaIds
    <3>4. InStep(P, 0)
      <4>1. PICK ledger : EngineOK(ledger)
        BY DEF IInv
      <4>2. PICK d, B : d = Engine /\ B = Engine.buffer
        OBVIOUS
      <4>3. Good(d, B, C, FALSE, {}, ledger)
        BY <4>1, <4>2 DEF EngineOK
      <4>4. InStep(SentOf("BookDelta", C), 0)
        BY <1>1, <4>3, ReadyWhenGood
      <4> QED BY <3>1, <4>4 DEF Deltas
    <3>5. ASSUME NEW c \in P
          PROVE  h.id <= c.id
      <4>1. PICK e \in C : e.type = "BookDelta" /\ c.time = e.time
        BY <3>3
      <4>2. g.time <= e.time
        BY <1>6, <1>7, <1>3, <2>2, <4>1
      <4>3. h.time = g.time
        BY <1>8, <1>10, <2>2, <3>1, SentIsLike
      <4> QED BY <3>2, <3>4, <4>1, <4>2, <4>3 DEF InStep
    <3> QED BY <1>1, <1>10, <3>1, <3>2, <3>3, <3>5, LinkedWithoutFirst
  <2> QED BY <2>1, <2>2
<1>12. Linked(Deltas(C1))'
  BY <1>1, <1>11 DEF Linked, Continues, NextContinues, Changed, Book
<1>13. ChannelOK(depthCh)' /\ ChannelOK(tradeCh)'
  BY <1>3, <1>5, <1>6
<1>14. /\ \A e \in Range(depthCh') : e.type # "Trade"
       /\ \A e \in Range(tradeCh') : e.type # "BookDelta"
  BY <1>3, <1>5, <1>6
<1>15. SocketsOK'
  BY <1>12, <1>13, <1>14 DEF SocketsOK
<1> QED BY <1>8, <1>9, <1>11, <1>15

(* The same for the trade socket, whose head may stay for a second delivery. *)
LEMMA TradeArrives ==
  ASSUME IInv, MarketSame, tradeCh # <<>>, tradeCh' \in {Tail(tradeCh), tradeCh}, UNCHANGED depthCh,
         NEW C, C = InChannels, NEW C1, C1 = InChannels', NEW g, g = Head(tradeCh)
  PROVE  /\ SocketsOK' /\ Linked(Deltas(C1)) /\ g \in C /\ C1 \subseteq C /\ C \subseteq C1 \cup {g}
         /\ \A h \in C1 : h.type = g.type /\ g.type \in {"Trade", "BookDelta"} => g.time <= h.time
<1>1. /\ MarketOK /\ MarketOK' /\ MarketStep
      /\ UNCHANGED <<clock, phase, hist, touched, tradeId, depth>>
  BY SameMarketOK DEF IInv
<1>2. PICK a, b : a = depthCh /\ b = tradeCh
  OBVIOUS
<1>3. /\ ChannelOK(a)' /\ \A e \in Range(a) : e.type # "Trade"
      /\ ChannelOK(b)' /\ \A e \in Range(b) : e.type # "BookDelta"
  BY <1>1, <1>2, ChannelStays DEF IInv, SocketsOK
<1>4. PICK t : t = tradeCh'
  OBVIOUS
<1>5. depthCh' = a /\ g = Head(b) /\ (t = Tail(b) \/ t = b)
  BY <1>2, <1>4
<1>6. /\ ChannelOK(Tail(b))' /\ g \in Range(b) /\ Range(Tail(b)) \subseteq Range(b)
      /\ Range(b) \subseteq Range(Tail(b)) \cup {g}
      /\ \A f \in Range(b) : f.type = g.type /\ f.type \in {"Trade", "BookDelta"} => g.time <= f.time
  BY <1>2, <1>3, <1>5, ChannelLosesHead
<1>7. ChannelOK(t)' /\ Range(t) \subseteq Range(b) /\ Range(b) \subseteq Range(t) \cup {g}
  BY <1>3, <1>5, <1>6
<1>8. C = Range(a) \cup Range(b) /\ C1 = Range(a) \cup Range(t)
  BY <1>2, <1>4, <1>5 DEF InChannels
<1>9. g \in C /\ C1 \subseteq C /\ C \subseteq C1 \cup {g}
  BY <1>6, <1>7, <1>8
<1>10. \A h \in C1 : h.type = g.type /\ g.type \in {"Trade", "BookDelta"} => g.time <= h.time
  BY <1>3, <1>6, <1>7, <1>8
<1>11. Deltas(C1) = Deltas(C)
  BY <1>3, <1>6, <1>9 DEF Deltas, SentOf
<1>12. Linked(Deltas(C1))
  BY <1>11 DEF IInv, SocketsOK
<1>13. Linked(Deltas(C1))'
  BY <1>1, <1>12 DEF Linked, Continues, NextContinues, Changed, Book
<1>14. ChannelOK(depthCh)' /\ ChannelOK(tradeCh)'
  BY <1>3, <1>4, <1>5, <1>7
<1>15. /\ \A e \in Range(depthCh') : e.type # "Trade"
       /\ \A e \in Range(tradeCh') : e.type # "BookDelta"
  BY <1>3, <1>4, <1>5, <1>7
<1>16. SocketsOK'
  BY <1>13, <1>14, <1>15 DEF SocketsOK
<1> QED BY <1>9, <1>10, <1>12, <1>16

(* An event was not given to the detector, which is there or not. *)
LEMMA SkipStep ==
  ASSUME IInv, MarketSame, SocketsOK', SharedOK', Engine' = Engine, missed' = Alive(shared)',
         NEW C, C = InChannels, NEW C1, C1 = InChannels', C1 \subseteq C
  PROVE  IInv' /\ EventsKept
<1>1. /\ MarketOK /\ MarketOK' /\ MarketStep
      /\ UNCHANGED <<clock, phase, hist, touched, tradeId, depth>>
  BY SameMarketOK DEF IInv
<1>2. PICK ledger : LedgerOK(ledger) /\ EngineOK(ledger)
  BY DEF IInv
<1>3. PICK d, B : d = Engine /\ B = d.buffer
  OBVIOUS
<1>4. Good(d, B, C, FALSE, {}, ledger) /\ Engine' = d
  BY <1>2, <1>3 DEF EngineOK
<1>5. Good(d, B, C1, FALSE, {}, ledger)'
  BY <1>1, <1>4, GoodStays
<1>6. ASSUME ~missed'
      PROVE  UpToDate(d, Deltas(Range(B) \cup C1))'
  <2>1. d = NewDetector
    BY <1>4, <1>6 DEF SharedOK
  <2>2. DOMAIN d.levels = {} /\ B = <<>>
    BY <1>3, <2>1 DEF NewDetector, NoLevels
  <2>3. Range(B) \cup C1 = C1
    BY <2>2 DEF Range
  <2>4. Linked(Deltas(C1))'
    BY DEF SocketsOK
  <2> QED BY <2>2, <2>3, <2>4 DEF UpToDate
<1>7. EngineOK(ledger)'
  BY <1>3, <1>4, <1>5, <1>6 DEF EngineOK
<1>8. LedgerOK(ledger)'
  <2>1. AllPaid(C1, ledger)
    BY <1>2 DEF LedgerOK, AllPaid
  <2>2. AllPaid(C1, ledger)'
    BY <2>1 DEF AllPaid, Paid
  <2> QED BY <1>2, <2>2 DEF LedgerOK, MarketSame, market
<1>9. (missed \in BOOLEAN)' /\ panes' \in {1} \cup Panes
  BY DEF Alive, MarketSame, IInv
<1>10. EventsKept
  BY <1>3, <1>4 DEF EventsKept, Good, Sound, Keeps
<1> QED BY <1>1, <1>7, <1>8, <1>9, <1>10 DEF IInv

(* sync_requirements keeps the engine, and lets it be let go only after a while. *)
LEMMA SyncIsShared ==
  ASSUME IInv
  PROVE  LET s == SyncRequirements(shared)
         IN /\ DOMAIN s = {"consumers", "released", "engine"} /\ s.engine = Engine
            /\ s.consumers \in {0, 1} \cup Panes /\ s.consumers \in Nat
            /\ s.released \in Nat /\ s.released <= clock + Skew
            /\ ~Alive(s) => Engine = NewDetector
<1>1. /\ DOMAIN shared = {"consumers", "released", "engine"} /\ shared.engine = Engine
      /\ shared.consumers \in {0, 1} \cup Panes /\ shared.consumers \in Nat
      /\ shared.released \in Nat /\ shared.released <= clock + Skew
      /\ ~Alive(shared) => Engine = NewDetector
  BY DEF IInv, SharedOK, Engine
<1>2. /\ panes \in {0, 1} \cup Panes /\ panes \in Nat /\ Local = clock + Skew /\ Local \in Nat \ {0}
  BY ConstantsAreNat DEF IInv, MarketOK, Local
<1> DEFINE s == SyncRequirements(shared)
<1>3. CASE panes > 0
  <2>1. s = [shared EXCEPT !.consumers = panes, !.released = 0]
    BY <1>3 DEF SyncRequirements
  <2>2. DOMAIN s = DOMAIN shared /\ s.engine = Engine /\ s.consumers = panes /\ s.released = 0
    BY <1>1, <2>1
  <2> HIDE DEF s
  <2>3. Alive(s)
    BY <1>3, <2>2 DEF Alive
  <2>4. 0 <= clock + Skew
    BY <1>2
  <2> QED BY <1>1, <1>2, <2>2, <2>3, <2>4 DEF s
<1>4. CASE ~(panes > 0) /\ shared.consumers > 0
  <2>1. s = [shared EXCEPT !.consumers = 0, !.released = Local]
    BY <1>4 DEF SyncRequirements
  <2>2. DOMAIN s = DOMAIN shared /\ s.engine = Engine /\ s.consumers = 0 /\ s.released = Local
    BY <1>1, <2>1
  <2> HIDE DEF s
  <2>3. Alive(s)
    BY <1>2, <2>2 DEF Alive
  <2>4. Local <= clock + Skew
    BY <1>2
  <2> QED BY <1>1, <1>2, <2>2, <2>3, <2>4 DEF s
<1>5. CASE ~(panes > 0) /\ ~(shared.consumers > 0)
  BY <1>1, <1>5 DEF SyncRequirements
<1> QED BY <1>3, <1>4, <1>5

(* The event e, which was g in its channel, is given to the detector, if there is one. *)
LEMMA GiveStep ==
  ASSUME IInv, MarketSame, SocketsOK',
         NEW C, C = InChannels, NEW C1, C1 = InChannels', Linked(Deltas(C1)),
         NEW g, NEW e, Arrives(g, e, C, C1), NEW sense, Give(e, sense)
  PROVE  IInv' /\ EventsKept
<1>1. /\ MarketOK /\ MarketOK' /\ MarketStep
      /\ UNCHANGED <<clock, phase, hist, touched, tradeId, depth>>
  BY SameMarketOK DEF IInv
<1>2. PICK s : s = SyncRequirements(shared)
  OBVIOUS
<1>3. /\ DOMAIN s = {"consumers", "released", "engine"} /\ s.engine = Engine
      /\ s.consumers \in {0, 1} \cup Panes /\ s.consumers \in Nat
      /\ s.released \in Nat /\ s.released <= clock + Skew
      /\ ~Alive(s) => Engine = NewDetector
  BY <1>2, SyncIsShared
<1>4. CASE ~(s.consumers > 0)
  <2>1. shared' = s /\ missed' = Alive(s)
    BY <1>2, <1>4 DEF Give
  <2>2. Engine' = Engine
    BY <1>3, <2>1 DEF Engine
  <2>3. SharedOK'
    <3>1. Len(Engine.buffer) <= MaxReorderEvents
      BY DEF IInv, SharedOK
    <3>2. Alive(shared)' <=> Alive(s)
      BY <2>1 DEF Alive
    <3> QED BY <1>1, <1>3, <2>1, <2>2, <3>1, <3>2 DEF SharedOK
  <2>4. missed' = Alive(shared)'
    BY <2>1 DEF Alive
  <2> QED BY <2>2, <2>3, <2>4, SkipStep DEF Arrives
<1>5. CASE s.consumers > 0
  <2>1. PICK d, B : d = Engine /\ B = Engine.buffer
    OBVIOUS
  <2>2. PICK x : x = Ingest(d, e, sense)
    OBVIOUS
  <2>3. shared' = [s EXCEPT !.engine = x] /\ missed' = (missed /\ ~Interrupts(e))
    BY <1>2, <1>3, <1>5, <2>1, <2>2 DEF Give
  <2>4. Engine' = x /\ DOMAIN shared' = DOMAIN s /\ shared'.consumers = s.consumers
        /\ shared'.released = s.released
    BY <1>3, <2>3 DEF Engine
  <2>5. Alive(shared)'
    BY <1>5, <2>4 DEF Alive
  <2>6. PICK ledger : LedgerOK(ledger) /\ EngineOK(ledger)
    BY DEF IInv
  <2>7. PICK reports : reports = Range(d.events)
    OBVIOUS
  <2>8. B = d.buffer /\ Good(d, B, C, FALSE, reports, ledger) /\ Len(d.buffer) <= MaxReorderEvents
    <3>1. Good(d, B, C, FALSE, {}, ledger) /\ B = d.buffer
      BY <2>1, <2>6 DEF EngineOK
    <3>2. Len(d.buffer) <= MaxReorderEvents
      BY <2>1 DEF IInv, SharedOK
    <3> QED BY <2>7, <3>1, <3>2 DEF Good, Sound
  <2>9. ~missed => Good(d, B, C, TRUE, reports, ledger)
    <3>1. ~missed => UpToDate(d, Deltas(Range(B) \cup C))
      BY <2>1, <2>6 DEF EngineOK
    <3> QED BY <2>8, <3>1, GoodMeans
  <2>10. IsLedger(ledger) /\ (g.type = "Trade" => Paid(g, ledger))
    BY <2>6 DEF LedgerOK, AllPaid, Arrives
  <2>11. /\ Good(x, x.buffer, C1, FALSE, reports, ledger) /\ Len(x.buffer) <= MaxReorderEvents
         /\ ~missed' => Good(x, x.buffer, C1, TRUE, reports, ledger)
    <3>1. CASE ~Interrupts(e)
      <4>1. ASSUME NEW u \in BOOLEAN, Good(d, B, C, u, reports, ledger)
            PROVE  Good(x, x.buffer, C1, u, reports, ledger) /\ Len(x.buffer) <= MaxReorderEvents
        <5>1. Good(d, d.buffer, C, u, reports, ledger)
          BY <2>8, <4>1
        <5> QED BY <1>1, <2>2, <2>8, <2>10, <3>1, <5>1, GoodAfterIngest
      <4>2. Good(x, x.buffer, C1, FALSE, reports, ledger) /\ Len(x.buffer) <= MaxReorderEvents
        BY <2>8, <4>1
      <4>3. ~missed' => ~missed
        BY <2>3, <3>1
      <4> QED BY <2>9, <4>1, <4>2, <4>3
    <3>2. CASE Interrupts(e)
      <4>1. PICK quality \in Qualities : x = InvalidateAll(d, quality)
        BY <2>2, <3>2 DEF Ingest, Qualities
      <4>2. Good(x, x.buffer, C1, TRUE, reports, ledger) /\ Len(x.buffer) = 0
        <5>1. C1 \subseteq C /\ Linked(SentOf("BookDelta", C1))
          BY DEF Arrives, Deltas
        <5> QED BY <2>8, <4>1, <5>1, GoodAfterInterrupt
      <4>3. Good(x, x.buffer, C1, FALSE, reports, ledger)
        BY <4>2, GoodMeans
      <4>4. 0 <= MaxReorderEvents
        BY ConstantsAreNat
      <4> QED BY <4>2, <4>3, <4>4
    <3> QED BY <3>1, <3>2
  <2>12. PICK B1 : B1 = x.buffer
    OBVIOUS
  <2>13. /\ Good(x, B1, C1, FALSE, {}, ledger)'
         /\ ~missed' => UpToDate(x, Deltas(Range(B1) \cup C1))'
    <3>1. Good(x, B1, C1, FALSE, {}, ledger)
      BY <2>11, <2>12 DEF Good, Sound
    <3>2. ~missed' => Good(x, B1, C1, TRUE, {}, ledger)
      BY <2>11, <2>12 DEF Good, Sound
    <3>3. Good(x, B1, C1, FALSE, {}, ledger)'
      BY <1>1, <3>1, GoodWhenMarketSame
    <3>4. ~missed' => Good(x, B1, C1, TRUE, {}, ledger)'
      BY <1>1, <3>2, GoodWhenMarketSame
    <3> QED BY <3>3, <3>4 DEF Good, Deltas
  <2>14. EngineOK(ledger)'
    BY <2>4, <2>12, <2>13 DEF EngineOK
  <2>15. LedgerOK(ledger)'
    <3>1. AllPaid(C1, ledger)
      BY <2>6 DEF LedgerOK, AllPaid, Arrives
    <3>2. AllPaid(C1, ledger)'
      BY <3>1 DEF AllPaid, Paid
    <3> QED BY <2>6, <3>2 DEF LedgerOK, MarketSame, market
  <2>16. SharedOK'
    BY <1>1, <1>3, <2>4, <2>5, <2>11 DEF SharedOK
  <2>17. (missed \in BOOLEAN)' /\ panes' \in {1} \cup Panes
    BY <2>3 DEF MarketSame, IInv
  <2>18. EventsKept
    BY <2>1, <2>4, <2>7, <2>11 DEF EventsKept, Good, Sound, Keeps
  <2> QED BY <1>1, <2>14, <2>15, <2>16, <2>17, <2>18 DEF IInv
<1> QED BY <1>4, <1>5

(* A depth event reaches the application.                                    *)
LEMMA DeliverDepthStep ==
  ASSUME IInv, NEW sense, DeliverDepth(sense)
  PROVE  IInv' /\ EventsKept
<1>1. MarketSame /\ depthCh # <<>> /\ depthCh' = Tail(depthCh) /\ UNCHANGED tradeCh
  BY DEF DeliverDepth, MarketSame
<1>2. PICK C, C1, g : C = InChannels /\ C1 = InChannels' /\ g = Head(depthCh)
  OBVIOUS
<1>3. /\ SocketsOK' /\ Linked(Deltas(C1)) /\ g \in C /\ C1 \subseteq C /\ C \subseteq C1 \cup {g}
      /\ \A h \in C1 : h.type = g.type /\ g.type \in {"Trade", "BookDelta"} => g.time <= h.time
  BY <1>1, <1>2, DepthArrives
<1>4. PICK e : e = IF g.type = "BookDelta" THEN [g EXCEPT !.recv = Local] ELSE g
  OBVIOUS
<1>5. Local \in Nat
  BY ConstantsAreNat DEF IInv, MarketOK, Local
<1>6. Arrives(g, e, C, C1)
  BY <1>3, <1>4, <1>5 DEF Arrives
<1>7. Give(e, sense)
  BY <1>2, <1>4 DEF DeliverDepth
<1> QED BY <1>1, <1>2, <1>3, <1>6, <1>7, GiveStep

(* A trade reaches the application, once or twice.                           *)
LEMMA DeliverTradeStep ==
  ASSUME IInv, tradeCh # <<>>, NEW recv \in TradeTimes(Head(tradeCh)), NEW twice \in BOOLEAN,
         NEW sense, DeliverTrade(recv, twice, sense)
  PROVE  IInv' /\ EventsKept
<1>1. MarketSame /\ tradeCh' \in {Tail(tradeCh), tradeCh} /\ UNCHANGED depthCh
  BY DEF DeliverTrade, MarketSame
<1>2. PICK C, C1, g : C = InChannels /\ C1 = InChannels' /\ g = Head(tradeCh)
  OBVIOUS
<1>3. /\ SocketsOK' /\ Linked(Deltas(C1)) /\ g \in C /\ C1 \subseteq C /\ C \subseteq C1 \cup {g}
      /\ \A h \in C1 : h.type = g.type /\ g.type \in {"Trade", "BookDelta"} => g.time <= h.time
  BY <1>1, <1>2, TradeArrives
<1>4. PICK e : e = IF g.type = "Trade" THEN [g EXCEPT !.recv = recv] ELSE g
  OBVIOUS
<1>5. recv \in Nat
  <2>1. Local \in Nat
    BY ConstantsAreNat DEF IInv, MarketOK, Local
  <2> QED BY <2>1 DEF TradeTimes
<1>6. Arrives(g, e, C, C1)
  BY <1>3, <1>4, <1>5 DEF Arrives
<1>7. Give(e, sense)
  BY <1>2, <1>4 DEF DeliverTrade
<1> QED BY <1>1, <1>2, <1>3, <1>6, <1>7, GiveStep

(* An event is dropped at the full channel.                                  *)
LEMMA DropSteps ==
  ASSUME IInv, DropDepth \/ DropTrade
  PROVE  IInv' /\ EventsKept
<1>1. MarketSame /\ UNCHANGED shared /\ missed' = Alive(shared)
  BY DEF DropDepth, DropTrade, MarketSame
<1>2. PICK C, C1 : C = InChannels /\ C1 = InChannels'
  OBVIOUS
<1>3. SocketsOK' /\ C1 \subseteq C
  <2>1. CASE DropDepth
    <3>1. PICK g : g = Head(depthCh)
      OBVIOUS
    <3> QED BY <1>1, <1>2, <2>1, <3>1, DepthArrives DEF DropDepth
  <2>2. CASE DropTrade
    <3>1. PICK g : g = Head(tradeCh)
      OBVIOUS
    <3> QED BY <1>1, <1>2, <2>2, <3>1, TradeArrives DEF DropTrade
  <2> QED BY <2>1, <2>2
<1>4. Engine' = Engine /\ (Alive(shared)' <=> Alive(shared)) /\ (Alive(shared)' \in BOOLEAN)
  BY <1>1 DEF Engine, Alive
<1>5. SharedOK'
  <2>1. UNCHANGED clock
    BY <1>1 DEF MarketSame, market
  <2> QED BY <1>1, <1>4, <2>1 DEF IInv, SharedOK
<1>6. missed' = Alive(shared)'
  BY <1>1 DEF Alive
<1> QED BY <1>1, <1>2, <1>3, <1>4, <1>5, <1>6, SkipStep

(* The detector is let go.                                                   *)
LEMMA CollectGarbageStep ==
  ASSUME IInv, CollectGarbage
  PROVE  IInv' /\ EventsKept
<1>1. MarketSame /\ UNCHANGED <<depthCh, tradeCh>> /\ shared' = NoDetector /\ missed' = FALSE
  BY DEF CollectGarbage, MarketSame, sockets
<1>2. /\ MarketOK /\ MarketOK' /\ MarketStep
      /\ UNCHANGED <<clock, phase, hist, touched, tradeId, depth>>
  BY <1>1, SameMarketOK DEF IInv
<1>3. PICK C, ledger : C = InChannels /\ LedgerOK(ledger) /\ EngineOK(ledger)
  BY DEF IInv
<1>4. C = InChannels'
  BY <1>1, <1>3 DEF InChannels
<1>5. PICK d, B : d = Engine /\ B = Engine.buffer
  OBVIOUS
<1>6. Good(d, B, C, FALSE, {}, ledger) /\ Linked(Deltas(C)) /\ SocketsOK
  BY <1>3, <1>5 DEF EngineOK, IInv, SocketsOK
<1>7. \A type \in {"Trade", "BookDelta"} : InStep(SentOf(type, C), 0)
  BY <1>2, <1>6, ReadyWhenGood
<1>8. PICK x, B1 : x = NewDetector /\ B1 = NewDetector.buffer
  OBVIOUS
<1>9. \A e \in C : IsEvent(e)
  BY <1>6 DEF Good, Ahead
<1>10. Good(x, B1, C, FALSE, {}, ledger) /\ UpToDate(x, Deltas(Range(B1) \cup C))
  BY <1>2, <1>6, <1>7, <1>8, <1>9, GoodWhenNew
<1>11. Good(x, B1, C, FALSE, {}, ledger)' /\ UpToDate(x, Deltas(Range(B1) \cup C))'
  <2>1. Good(x, B1, C, TRUE, {}, ledger)
    BY <1>10, GoodMeans
  <2>2. Good(x, B1, C, TRUE, {}, ledger)'
    BY <1>2, <2>1, GoodWhenMarketSame
  <2> QED BY <2>2 DEF Good, Deltas
<1>12. Engine' = x /\ x.buffer = B1 /\ B1 = <<>> /\ x.events = <<>>
  BY <1>1, <1>8 DEF Engine, NoDetector, NewDetector
<1>13. EngineOK(ledger)'
  BY <1>4, <1>11, <1>12 DEF EngineOK
<1>14. LedgerOK(ledger)'
  <2>1. AllPaid(C, ledger)'
    BY <1>3 DEF LedgerOK, AllPaid, Paid
  <2> QED BY <1>1, <1>3, <1>4, <2>1 DEF LedgerOK, MarketSame, market
<1>15. SocketsOK'
  <2>1. PICK a, b : a = depthCh /\ b = tradeCh
    OBVIOUS
  <2>2. ChannelOK(a)' /\ ChannelOK(b)'
    BY <1>2, <1>6, <2>1, ChannelStays DEF SocketsOK
  <2>3. depthCh' = a /\ tradeCh' = b
    BY <1>1, <2>1
  <2>4. Linked(Deltas(C))'
    BY <1>2, <1>6 DEF Linked, Continues, NextContinues, Changed, Book
  <2> QED BY <1>4, <1>6, <2>1, <2>2, <2>3, <2>4 DEF SocketsOK
<1>16. SharedOK'
  <2>1. clock' \in Nat /\ Skew \in Nat /\ 0 <= MaxReorderEvents
    BY <1>2, ConstantsAreNat DEF MarketOK
  <2>2. 0 <= clock' + Skew
    <3>1. PICK now \in Nat : now = clock'
      BY <2>1
    <3>2. 0 <= now + Skew
      BY <2>1
    <3> QED BY <3>1, <3>2
  <2>3. Len(Engine'.buffer) = 0
    BY <1>12
  <2>4. Engine' = NewDetector
    BY <1>8, <1>12
  <2> QED BY <1>1, <2>1, <2>2, <2>3, <2>4 DEF SharedOK, NoDetector
<1>17. (missed \in BOOLEAN)' /\ panes' \in {1} \cup Panes
  BY <1>1 DEF MarketSame, IInv
<1>18. EventsKept
  BY <1>12 DEF EventsKept, Range
<1> QED BY <1>2, <1>13, <1>14, <1>15, <1>16, <1>17, <1>18 DEF IInv

--------------------------------------------------------------------------------
(* The theorems. *)

(* At the start nothing is on its way and nothing has been executed.         *)
LEMMA InitIInv == Init => IInv
<1> SUFFICES ASSUME Init PROVE IInv
  OBVIOUS
<1>1. /\ clock = 1 /\ phase = "open" /\ hist = <<InitialBook>> /\ touched = {} /\ tradeId = 0
      /\ moved = [k \in Key |-> [executed |-> 0, added |-> 0, cancelled |-> 0]]
      /\ depth = "down" /\ depthCh = <<>> /\ tradeCh = <<>>
      /\ panes = 1 /\ shared = NoDetector /\ missed = FALSE
  BY DEF Init
<1>2. MarketOK
  <2>1. 1 <= MaxTime
    BY ConstantsAreNat
  <2>2. <<InitialBook>> \in Seq([Key -> Nat]) /\ <<InitialBook>> # <<>>
    BY ConstantsAreNat
  <2> QED BY <1>1, <2>1, <2>2 DEF MarketOK
<1>3. Range(<<>>) = {} /\ <<>> \in Seq({}) /\ Len(<<>>) = 0
  BY DEF Range
<1>4. InChannels = {} /\ Deltas({}) = {}
  BY <1>1, <1>3 DEF InChannels, Deltas, SentOf
<1>5. Linked({})
  BY DEF Linked
<1>6. ChannelOK(<<>>)
  BY <1>3 DEF ChannelOK
<1>7. SocketsOK
  BY <1>1, <1>3, <1>4, <1>5, <1>6 DEF SocketsOK
<1>8. Engine = NewDetector /\ NewDetector.buffer = <<>>
  BY <1>1 DEF Engine, NoDetector, NewDetector
<1>9. SharedOK
  <2>1. 0 <= clock + Skew /\ 0 <= MaxReorderEvents
    BY <1>1, ConstantsAreNat
  <2> QED BY <1>1, <1>3, <1>8, <2>1 DEF SharedOK, NoDetector
<1> DEFINE ledger == [n \in Nat |-> [k \in Key |-> 0]]
<1>10. LedgerOK(ledger)
  <2>1. IsLedger(ledger)
    BY DEF IsLedger
  <2>2. \A k \in Key : ledger[0][k] = 0 /\ moved[k].executed = 0
    BY <1>1
  <2>3. AllPaid(InChannels, ledger)
    BY <1>4 DEF AllPaid
  <2> HIDE DEF ledger
  <2> QED BY <1>1, <2>1, <2>2, <2>3 DEF LedgerOK
<1> HIDE DEF ledger
<1>11. EngineOK(ledger)
  <2>1. \A e \in {} : IsEvent(e)
    OBVIOUS
  <2>2. \A type \in {"Trade", "BookDelta"} : InStep(SentOf(type, {}), 0)
    BY DEF InStep, SentOf
  <2>3. /\ Good(NewDetector, NewDetector.buffer, {}, FALSE, {}, ledger)
        /\ UpToDate(NewDetector, Deltas(Range(NewDetector.buffer) \cup {}))
    BY <1>2, <1>4, <1>5, <2>1, <2>2, GoodWhenNew
  <2> QED BY <1>4, <1>8, <2>3 DEF EngineOK
<1> QED BY <1>1, <1>2, <1>7, <1>9, <1>10, <1>11 DEF IInv

(* What a step of the market and the sockets leaves alone. *)
LEMMA EngineUntouched ==
  ASSUME IInv, UNCHANGED registry
  PROVE  EventsKept
<1>1. PICK ledger : EngineOK(ledger)
  BY DEF IInv
<1>2. Engine' = Engine
  BY DEF Engine, registry
<1> QED BY <1>1, <1>2 DEF EventsKept, EngineOK, Good, Sound, Keeps

(* Every step keeps the invariant and what was published.                    *)
LEMMA NextIInv ==
  ASSUME IInv, [Next]_vars
  PROVE  IInv' /\ EventsKept
<1>1. CASE Tick
  BY <1>1, TickStep, EngineUntouched DEF Tick
<1>2. CASE \E k \in Key, q \in TradeSizes : Execute(k, q)
  BY <1>2, ExecuteStep, EngineUntouched DEF Execute
<1>3. CASE \E k \in Key, q \in Changes : Requote(k, q)
  BY <1>3, RequoteStep, EngineUntouched DEF Requote
<1>4. CASE EmitDelta
  BY <1>4, EmitDeltaStep, EngineUntouched DEF EmitDelta
<1>5. CASE DepthConnect \/ DepthGap
  BY <1>5, NoticeSteps, EngineUntouched DEF DepthConnect, DepthGap
<1>6. CASE DepthBoundary
  BY <1>6, DepthBoundaryStep, EngineUntouched DEF DepthBoundary
<1>7. CASE \E n \in 0..Len(depthCh) : DepthLost(n)
  BY <1>7, DepthLostStep, EngineUntouched DEF DepthLost
<1>8. CASE \E n \in 0..Len(tradeCh) : TradeLost(n)
  BY <1>8, TradeLostStep, EngineUntouched DEF TradeLost
<1>9. CASE TradeConnect \/ \E n \in Panes : Require(n)
  <2>1. UNCHANGED registry
    BY <1>9 DEF TradeConnect, Require
  <2> QED BY <1>9, <2>1, SocketsIdleSteps, EngineUntouched
<1>10. CASE CollectGarbage
  BY <1>10, CollectGarbageStep
<1>11. CASE \E sense \in Sense : DeliverDepth(sense)
  BY <1>11, DeliverDepthStep
<1>12. CASE tradeCh # <<>> /\ \E recv \in TradeTimes(Head(tradeCh)), twice \in BOOLEAN,
                                 sense \in Sense : DeliverTrade(recv, twice, sense)
  BY <1>12, DeliverTradeStep
<1>13. CASE DropDepth \/ DropTrade
  BY <1>13, DropSteps
<1>14. CASE UNCHANGED vars
  <2>1. /\ UNCHANGED <<clock, phase, hist, touched, moved, tradeId, depth, depthCh, tradeCh, panes>>
        /\ UNCHANGED registry
    BY <1>14 DEF vars, market, sockets
  <2>2. MarketStep /\ MarketOK' /\ Touches
    BY <2>1 DEF MarketStep, MarketOK, IInv, Touches, Book
  <2> QED BY <2>1, <2>2, QuietStep, EngineUntouched DEF IInv
<1> QED BY <1>1, <1>2, <1>3, <1>4, <1>5, <1>6, <1>7, <1>8, <1>9, <1>10, <1>11, <1>12, <1>13,
           <1>14 DEF Next

(***************************************************************************)
(* The invariant the others rest on holds of every reachable state: what   *)
(* is buffered and on its way is ordered, linked and paid for.             *)
(***************************************************************************)
THEOREM Invariance == Spec => []IInv
<1>1. IInv /\ [Next]_vars => IInv'
  BY NextIInv
<1> QED BY <1>1, InitIInv, PTL DEF Spec

(* What the invariant says of the engine. *)
LEMMA EngineIsSound ==
  ASSUME IInv
  PROVE  \E ledger : Sound(Engine, {}, ledger) /\ LedgerOK(ledger) /\ LastOf(Engine.seenTrades) <= tradeId
                     /\ LastOf(Engine.seenDepth) <= Changed /\ IsDetector(Engine)
BY DEF IInv, EngineOK, Good, Sound

(***************************************************************************)
(* The types, the bound of the reorder buffer, and that episodes are open  *)
(* on known levels only.                                                   *)
(***************************************************************************)
THEOREM TypeCorrect == Spec => []TypeOK
<1>1. IInv => TypeOK
  <2> SUFFICES ASSUME IInv PROVE TypeOK
    OBVIOUS
  <2>1. IsDetector(Engine)
    BY EngineIsSound
  <2>2. shared.released \in 0..(MaxTime + Skew)
    BY ConstantsAreNat DEF IInv, SharedOK, MarketOK
  <2> QED BY <2>1, <2>2 DEF TypeOK, IInv, SharedOK, IsDetector, Qualities, EpisodesOK, LevelsOK
<1> QED BY <1>1, Invariance, PTL

(***************************************************************************)
(* process_trade and apply_level agree on the quantity they expect.        *)
(***************************************************************************)
THEOREM ExpectedAlwaysAgrees == Spec => []ExpectedAgrees
<1>1. IInv => ExpectedAgrees
  BY EngineIsSound DEF ExpectedAgrees, IsDetector, LevelsOK, IsLevel
<1> QED BY <1>1, Invariance, PTL

(***************************************************************************)
(* Unless an event was dropped or skipped, the levels of the detector are  *)
(* those of the exchange, through every reconnect, gap and reordering.     *)
(***************************************************************************)
THEOREM LevelsAreTrue == Spec => []LevelsTrue
<1>1. IInv => LevelsTrue
  BY DEF IInv, EngineOK, UpToDate, LevelsTrue, LastDelta, LastOf
<1> QED BY <1>1, Invariance, PTL

(***************************************************************************)
(* What episodes and events say was executed at a level was executed       *)
(* there, though trades are delivered twice.                               *)
(***************************************************************************)
THEOREM ExecutionsAreCountedOnce == Spec => []ExecutionsCountedOnce
<1>1. ASSUME IInv
      PROVE  ExecutionsCountedOnce
  <2>1. PICK ledger : /\ Sound(Engine, {}, ledger) /\ LedgerOK(ledger) /\ IsDetector(Engine)
                      /\ LastOf(Engine.seenTrades) <= tradeId
    BY <1>1, EngineIsSound
  <2>2. PICK d : d = Engine
    OBVIOUS
  <2>3. LastOf(d.seenTrades) \in Nat /\ tradeId \in Nat /\ LastOf(d.seenTrades) <= tradeId
    BY <1>1, <2>1, <2>2 DEF IInv, MarketOK, IsDetector, Seen, LastOf, Last
  <2>4. ASSUME NEW key \in Key, NEW n \in Nat, n <= ledger[LastOf(d.seenTrades)][key]
        PROVE  n <= moved[key].executed
    <3>1. /\ ledger[LastOf(d.seenTrades)][key] <= ledger[tradeId][key]
          /\ ledger[tradeId][key] <= moved[key].executed
          /\ ledger[LastOf(d.seenTrades)][key] \in Nat /\ ledger[tradeId][key] \in Nat
      BY <2>1, <2>3 DEF LedgerOK, IsLedger
    <3>2. moved[key].executed \in Nat
      BY <1>1 DEF IInv, MarketOK
    <3> QED BY <2>4, <3>1, <3>2
  <2>5. ASSUME NEW k \in DOMAIN d.episodes
        PROVE  d.episodes[k].executed <= moved[k].executed
    <3>1. k \in Key /\ d.episodes[k].executed \in Nat
      BY <2>1, <2>2 DEF IsDetector, EpisodesOK, LevelsOK, IsEpisode
    <3>2. d.episodes[k].executed <= ledger[LastOf(d.seenTrades)][k]
      BY <2>1, <2>2 DEF Sound, Counted
    <3> QED BY <2>4, <3>1, <3>2
  <2>6. ASSUME NEW a \in Range(d.events)
        PROVE  a.executed <= moved[a.key].executed
    <3>1. a.key \in Key /\ a.executed \in Nat
      BY <2>1, <2>2 DEF IsDetector, EventsOK, IsReport
    <3>2. a.executed <= ledger[LastOf(d.seenTrades)][a.key]
      BY <2>1, <2>2 DEF Sound, Counted
    <3> QED BY <2>4, <3>1, <3>2
  <2> QED BY <2>2, <2>5, <2>6 DEF ExecutionsCountedOnce, Evidence, Claim
<1> QED BY <1>1, Invariance, PTL

(***************************************************************************)
(* An id names one episode for ever, and its evidence only grows.          *)
(***************************************************************************)
THEOREM EventsStayStable == Spec => EventsAreStable
<1>1. IInv /\ [Next]_vars =>
         [\A x \in Range(Engine.events), y \in Range(Engine'.events) :
            x.id = y.id => /\ x.key = y.key /\ x.started = y.started
                           /\ x.confirmed = y.confirmed
                           /\ x.executed <= y.executed /\ x.refills <= y.refills]_vars
  BY NextIInv DEF EventsKept, Follows
<1> QED BY <1>1, Invariance, PTL DEF Spec, EventsAreStable


--------------------------------------------------------------------------------
(* Refills are real, or explained.                                         *)
(*                                                                         *)
(* A timeline T, which the model does not have either, says of every time  *)
(* what the book was then and what had been executed and added on every    *)
(* level.  A level of the detector is that of some time n, and what is     *)
(* pending on it was executed between n and the time of the last event     *)
(* taken for it, or was late.  So what the next delta shows beyond what is *)
(* left was added, or makes up for executions that were late.  Deltas are  *)
(* taken in the order of their times, whatever the trades do: D is the     *)
(* time of the last.                                                       *)

Rows(f) == f \in [Nat -> [Key -> Nat]]

(* Executions and cancellations only lower a level. *)
Falls(T) ==
    \A s, t \in Nat : s <= t => \A k \in Key :
       T.book[t][k] + T.executed[t][k] + T.added[s][k]
         <= T.book[s][k] + T.executed[s][k] + T.added[t][k]

IsTimeline(T) ==
    /\ Rows(T.book) /\ IsLedger(T.executed) /\ IsLedger(T.added) /\ Falls(T)

(* What an event says happened at its time. *)
Dated(e, T) ==
    /\ e.type = "Trade" => T.executed[e.time - 1][e.key] + e.qty <= T.executed[e.time][e.key]
    /\ e.type = "BookDelta" => \A k \in DOMAIN e.levels : e.levels[k] = T.book[e.time][k]

(* The level is that of the time n, and what is pending was executed since, or is the part *)
(* `spare` of what was late.                                                               *)
LevelBacked(T, k, level, n, spare) ==
    /\ level.visible = T.book[n][k] /\ n <= level.at
    /\ level.pending + T.executed[n][k] <= T.executed[level.at][k] + spare

(* What was refilled was added up to the time n, or is the part `paid` of what was late. *)
EpisodeBacked(T, k, x, n, paid, pending) ==
    /\ {x.peak, x.replenished} \subseteq Nat /\ x.replenished <= T.added[n][k] + paid
    /\ \E m \in 0..n : /\ T.book[m][k] <= x.peak
                       /\ x.executed + T.executed[m][k] <= T.executed[n][k] + paid + pending

(* What x says of the key k was added up to the time c, or was late. *)
Shown(T, c, k, late, x) ==
    /\ {x.peak, x.replenished} \subseteq Nat
    /\ x.replenished <= T.added[c][k] + late
    /\ x.executed <= x.peak + T.added[c][k] + late

EventBacked(T, c, late, a) == Shown(T, c, a.key, late[a.key], a)

KeyBackedBy(T, d, k, n, paid, spare) ==
    /\ paid + spare = d.late[k] /\ LevelBacked(T, k, d.levels[k], n, spare)
    /\ k \in DOMAIN d.episodes => EpisodeBacked(T, k, d.episodes[k], n, paid, d.levels[k].pending)

KeyBacked(T, D, d, k) == \E n \in 0..D, paid, spare \in Nat : KeyBackedBy(T, d, k, n, paid, spare)

(* The detector, whose last delta is of the time D and whose last event is of c. *)
Backed(T, D, c, d) ==
    /\ d.late \in [Key -> Nat]
    /\ \A k \in DOMAIN d.levels : d.levels[k].at \in 0..c /\ KeyBacked(T, D, d, k)
    /\ \A a \in Range(d.events) : EventBacked(T, c, d.late, a)

(* x has no levels, episodes and events but those of d. *)
Sheds(d, x) ==
    /\ DOMAIN x.levels \subseteq DOMAIN d.levels
    /\ \A k \in DOMAIN x.levels : x.levels[k] = d.levels[k]
    /\ DOMAIN x.episodes \subseteq DOMAIN d.episodes
    /\ \A k \in DOMAIN x.episodes :
          /\ x.episodes[k].peak = d.episodes[k].peak
          /\ x.episodes[k].executed = d.episodes[k].executed
          /\ x.episodes[k].replenished = d.episodes[k].replenished
    /\ Range(x.events) \subseteq Range(d.events) /\ x.late = d.late

(* The counts of a timeline never fall. *)
LEMMA TimelineCounts ==
  ASSUME NEW T, IsTimeline(T)
  PROVE  /\ \A n \in Nat, k \in Key : {T.executed[n][k], T.added[n][k], T.book[n][k]} \subseteq Nat
         /\ \A m, n \in Nat, k \in Key :
               m <= n => T.executed[m][k] <= T.executed[n][k] /\ T.added[m][k] <= T.added[n][k]
<1>1. /\ T.executed \in [Nat -> [Key -> Nat]] /\ T.added \in [Nat -> [Key -> Nat]]
      /\ T.book \in [Nat -> [Key -> Nat]]
  BY DEF IsTimeline, IsLedger, Rows
<1>2. \A m, n \in Nat : m <= n => \A k \in Key : T.executed[m][k] <= T.executed[n][k]
  BY DEF IsTimeline, IsLedger
<1>3. \A m, n \in Nat : m <= n => \A k \in Key : T.added[m][k] <= T.added[n][k]
  BY DEF IsTimeline, IsLedger
<1>4. \A n \in Nat, k \in Key : {T.executed[n][k], T.added[n][k], T.book[n][k]} \subseteq Nat
  BY <1>1
<1> QED BY <1>2, <1>3, <1>4

(* What sheds stays backed. *)
LEMMA BackedWhenShed ==
  ASSUME NEW T, NEW D, NEW c, NEW d, NEW x, Backed(T, D, c, d), Sheds(d, x)
  PROVE  Backed(T, D, c, x)
<1>1. ASSUME NEW k \in DOMAIN x.levels
      PROVE  x.levels[k].at \in 0..c /\ KeyBacked(T, D, x, k)
  <2>1. k \in DOMAIN d.levels /\ x.levels[k] = d.levels[k] /\ x.late = d.late
    BY DEF Sheds
  <2>2. PICK n \in 0..D, paid \in Nat, spare \in Nat : KeyBackedBy(T, d, k, n, paid, spare)
    BY <2>1 DEF Backed, KeyBacked
  <2>3. k \in DOMAIN x.episodes =>
           EpisodeBacked(T, k, x.episodes[k], n, paid, x.levels[k].pending)
    BY <2>1, <2>2 DEF Sheds, KeyBackedBy, EpisodeBacked
  <2>4. KeyBackedBy(T, x, k, n, paid, spare)
    BY <2>1, <2>2, <2>3 DEF KeyBackedBy
  <2> QED BY <2>1, <2>4 DEF KeyBacked, Backed
<1> QED BY <1>1 DEF Backed, Sheds

(* Shedding is transitive. *)
LEMMA ShedsAgain ==
  ASSUME NEW d, NEW x, NEW y, Sheds(d, x), Sheds(x, y)
  PROVE  Sheds(d, y)
BY DEF Sheds

(* What is backed stays backed when time has passed. *)
LEMMA BackedLater ==
  ASSUME NEW T, IsTimeline(T), NEW D, NEW c \in Nat, NEW b \in Nat, c <= b, NEW d, IsDetector(d),
         Backed(T, D, c, d)
  PROVE  Backed(T, D, b, d)
<1>1. 0..c \subseteq 0..b
  OBVIOUS
<1>2. ASSUME NEW a \in Range(d.events)
      PROVE  EventBacked(T, b, d.late, a)
  <2>1. a.key \in Key /\ a.executed \in Nat
    BY DEF IsDetector, EventsOK, IsReport
  <2>2. T.added[c][a.key] \in Nat /\ T.added[b][a.key] \in Nat /\ T.added[c][a.key] <= T.added[b][a.key]
    BY <2>1, TimelineCounts
  <2>3. d.late[a.key] \in Nat /\ EventBacked(T, c, d.late, a)
    BY <2>1 DEF Backed
  <2> QED BY <2>1, <2>2, <2>3 DEF EventBacked, Shown
<1> QED BY <1>1, <1>2 DEF Backed

(* The same detector, but for what Backed does not read. *)
LEMMA ShedsWhenSame ==
  ASSUME NEW d, NEW x, x.levels = d.levels, x.episodes = d.episodes, x.events = d.events,
         x.late = d.late
  PROVE  Sheds(d, x)
BY DEF Sheds

(* expire only sheds.                                                        *)
LEMMA ExpireSheds ==
  ASSUME NEW d, NEW reports, NEW ledger, Sound(d, reports, ledger), NEW now
  PROVE  Sheds(d, Expire(d, now))
<1> DEFINE x == Expire(d, now)
           fresh == {i \in 1..Len(d.events) : now - d.events[i].updated <= Retention}
<1>1. /\ x.levels = d.levels /\ x.events = FromFirst(d.events, fresh) /\ x.late = d.late
      /\ \E S : S \subseteq DOMAIN d.episodes /\ x.episodes = [k \in S |-> d.episodes[k]]
  BY DEF Sound, IsDetector, Fields, Expire, KeepEpisodes
<1>2. Range(x.events) \subseteq Range(d.events)
  BY ExpireTrims DEF Trims
<1> HIDE DEF x
<1>3. PICK S : S \subseteq DOMAIN d.episodes /\ x.episodes = [k \in S |-> d.episodes[k]]
  BY <1>1
<1>4. DOMAIN x.episodes = S /\ \A k \in S : x.episodes[k] = d.episodes[k]
  BY <1>3
<1>5. Sheds(d, x)
  BY <1>1, <1>2, <1>3, <1>4 DEF Sheds
<1> QED BY <1>5 DEF x

(* A boundary only sheds.                                                    *)
LEMMA BoundarySheds ==
  ASSUME NEW d, DOMAIN d = Fields, NEW seen, NEW e
  PROVE  Sheds(d, Begun(d, e, seen))
<1> DEFINE x == Begun(d, e, seen)
<1>1. /\ x.events = d.events /\ x.late = d.late
      /\ x.levels = IF e.boundary THEN NoLevels ELSE d.levels
      /\ x.episodes = IF e.boundary THEN NoLevels ELSE d.episodes
  BY DEF Fields, Begun
<1>2. DOMAIN NoLevels = {}
  BY DEF NoLevels
<1> HIDE DEF x
<1>3. Sheds(d, x)
  BY <1>1, <1>2 DEF Sheds
<1> QED BY <1>3 DEF x

(* update_adverse_ticks only sheds.                                          *)
LEMMA UpdateAdverseSheds ==
  ASSUME NEW d, NEW reports, NEW ledger, Sound(d, reports, ledger)
  PROVE  Sheds(d, UpdateAdverse(d))
<1> DEFINE x == UpdateAdverse(d)
           worse(k) == [d.episodes[k] EXCEPT !.adverse = IF @ < Adverse(d, k) THEN Adverse(d, k) ELSE @]
           holding == {k \in DOMAIN d.episodes : Adverse(d, k) <= MaxAdverse}
           seen == [d EXCEPT !.episodes = [k \in DOMAIN @ |->
              [d.episodes[k] EXCEPT !.adverse = IF @ < Adverse(d, k) THEN Adverse(d, k) ELSE @]]]
           after == [k \in {k \in DOMAIN seen.episodes : Adverse(d, k) <= MaxAdverse} |-> seen.episodes[k]]
<1>1. x = [seen EXCEPT !.episodes = after]
  BY DEF UpdateAdverse, KeepEpisodes
<1>2. DOMAIN d = Fields
  BY DEF Sound, IsDetector
<1>3. /\ DOMAIN seen = Fields /\ seen.events = d.events /\ seen.levels = d.levels
      /\ seen.late = d.late
      /\ seen.episodes = [k \in DOMAIN d.episodes |-> worse(k)]
  BY <1>2 DEF Fields
<1>4. \A k \in DOMAIN d.episodes :
         /\ worse(k).peak = d.episodes[k].peak /\ worse(k).executed = d.episodes[k].executed
         /\ worse(k).replenished = d.episodes[k].replenished
  BY DEF Sound, IsDetector, EpisodesOK, IsEpisode, EpisodeFields
<1> HIDE DEF seen, worse
<1>5. DOMAIN after = holding /\ \A k \in holding : after[k] = worse(k)
  BY <1>3
<1> HIDE DEF after
<1>6. x.events = d.events /\ x.levels = d.levels /\ x.episodes = after /\ x.late = d.late
  BY <1>1, <1>3 DEF Fields
<1> HIDE DEF x
<1>7. Sheds(d, x)
  BY <1>4, <1>5, <1>6 DEF Sheds
<1> QED BY <1>7 DEF x

(* process, for OrderFlowEvent::Quality, only sheds.                         *)
LEMMA QualitySheds ==
  ASSUME NEW d, DOMAIN d = Fields, NEW e
  PROVE  Sheds(d, ProcessQuality(d, e)) /\ ProcessQuality(d, e).seenDepth = d.seenDepth
<1> DEFINE x == ProcessQuality(d, e)
<1>1. /\ x.events = d.events /\ x.levels = d.levels /\ x.seenDepth = d.seenDepth /\ x.late = d.late
      /\ x.episodes = d.episodes \/ x.episodes = NoLevels
  BY DEF Fields, ProcessQuality
<1>2. DOMAIN NoLevels = {}
  BY DEF NoLevels
<1> HIDE DEF x
<1>3. Sheds(d, x)
  BY <1>1, <1>2 DEF Sheds
<1> QED BY <1>1, <1>3 DEF x

(* invalidate_all only sheds.                                                *)
LEMMA InvalidateSheds ==
  ASSUME NEW d, DOMAIN d = Fields, NEW quality
  PROVE  LET x == InvalidateAll(d, quality)
         IN Sheds(d, x) /\ x.buffer = <<>> /\ x.seenDepth = d.seenDepth
<1> DEFINE x == InvalidateAll(d, quality)
<1>1. /\ x.events = d.events /\ x.levels = NoLevels /\ x.episodes = NoLevels
      /\ x.buffer = <<>> /\ x.seenDepth = d.seenDepth /\ x.late = d.late
  BY DEF Fields, InvalidateAll
<1>2. DOMAIN NoLevels = {}
  BY DEF NoLevels
<1> HIDE DEF x
<1>3. Sheds(d, x)
  BY <1>1, <1>2 DEF Sheds
<1> QED BY <1>1, <1>3 DEF x

(* What an accepted execution of qty on key, of the time t, makes of d. *)
HitBy(d, x, key, qty, t) ==
    /\ DOMAIN x.levels = DOMAIN d.levels /\ x.events = d.events
    /\ \A k \in DOMAIN d.levels :
          /\ x.levels[k].visible = d.levels[k].visible
          /\ k # key => x.levels[k] = d.levels[k]
    /\ x.levels[key].pending = d.levels[key].pending + qty
    /\ x.levels[key].at = Later(d.levels[key].at, t)
    /\ x.late \in [Key -> Nat] /\ \A k \in Key \ {key} : x.late[k] = d.late[k]
    /\ x.late[key] = IF t <= d.levels[key].at THEN d.late[key] + qty ELSE d.late[key]
    /\ DOMAIN x.episodes \subseteq DOMAIN d.episodes \cup {key}
    /\ \A k \in DOMAIN x.episodes :
          IF k \in DOMAIN d.episodes
          THEN /\ x.episodes[k].peak = d.episodes[k].peak
               /\ x.episodes[k].replenished = d.episodes[k].replenished
               /\ \/ x.episodes[k].executed = d.episodes[k].executed
                  \/ k = key /\ x.episodes[k].executed = d.episodes[k].executed + qty
          ELSE /\ x.episodes[k].peak = d.levels[k].visible
               /\ x.episodes[k].replenished = 0 /\ x.episodes[k].executed = qty

(* The level of an execution: it was executed after all that was taken for the level, or *)
(* it is late.                                                                           *)
LEMMA LevelAfterHit ==
  ASSUME NEW T, IsTimeline(T), NEW k \in Key, NEW n \in Nat, NEW paid \in Nat, NEW spare \in Nat,
         NEW level, level.at \in Nat, level.pending \in Nat, LevelBacked(T, k, level, n, spare),
         NEW qty \in Nat, NEW t \in Nat \ {0}, T.executed[t - 1][k] + qty <= T.executed[t][k],
         NEW next, next.visible = level.visible, next.pending = level.pending + qty,
         next.at = Later(level.at, t),
         NEW late, late = paid + spare + (IF t <= level.at THEN qty ELSE 0)
  PROVE  \E rest \in Nat : paid + rest = late /\ LevelBacked(T, k, next, n, rest)
<1> DEFINE at == level.at
<1>1. /\ level.visible = T.book[n][k] /\ n <= at
      /\ level.pending + T.executed[n][k] <= T.executed[at][k] + spare
  BY DEF LevelBacked
<1>2. T.executed[n][k] \in Nat /\ T.executed[at][k] \in Nat /\ T.executed[t][k] \in Nat
  BY TimelineCounts
<1>3. CASE t <= at
  <2>1. next.at = at /\ late = paid + spare + qty
    BY <1>3 DEF Later
  <2>2. next.pending + T.executed[n][k] <= T.executed[at][k] + (spare + qty)
    BY <1>1, <1>2
  <2>3. spare + qty \in Nat /\ paid + (spare + qty) = late
    BY <2>1
  <2>4. LevelBacked(T, k, next, n, spare + qty)
    BY <1>1, <2>1, <2>2 DEF LevelBacked
  <2> QED BY <2>3, <2>4
<1>4. CASE ~(t <= at)
  <2>1. next.at = t /\ late = paid + spare /\ at <= t - 1 /\ t - 1 \in Nat /\ n <= t
    BY <1>1, <1>4 DEF Later
  <2>2. T.executed[at][k] <= T.executed[t - 1][k] /\ T.executed[t - 1][k] \in Nat
    BY <2>1, TimelineCounts
  <2>3. next.pending + T.executed[n][k] <= T.executed[t][k] + spare
    BY <1>1, <1>2, <2>2
  <2>4. LevelBacked(T, k, next, n, spare)
    BY <1>1, <2>1, <2>3 DEF LevelBacked
  <2> QED BY <2>1, <2>4
<1> QED BY <1>3, <1>4

(* The execution joins what is pending on its level, and its episode.        *)
LEMMA BackedAfterHit ==
  ASSUME NEW T, IsTimeline(T), NEW D \in Nat, NEW c \in Nat, NEW d, NEW key \in DOMAIN d.levels,
         NEW qty \in Nat, NEW t \in 1..c, IsDetector(d), Backed(T, D, c, d),
         T.executed[t - 1][key] + qty <= T.executed[t][key], NEW x,
         HitBy(d, x, key, qty, t)
  PROVE  Backed(T, D, c, x)
<1>1. DOMAIN d.levels \subseteq Key /\ \A k \in DOMAIN d.levels : d.levels[k].pending \in Nat
  BY DEF IsDetector, LevelsOK, IsLevel
<1>2. \A k \in DOMAIN d.episodes : d.episodes[k].executed \in Nat
  BY DEF IsDetector, EpisodesOK, IsEpisode
<1>3. d.late \in [Key -> Nat] /\ \A k \in DOMAIN d.levels : d.levels[k].at \in 0..c /\ KeyBacked(T, D, d, k)
  BY DEF Backed
<1>4. ASSUME NEW k \in DOMAIN x.levels, k # key
      PROVE  x.levels[k].at \in 0..c /\ KeyBacked(T, D, x, k)
  <2>1. k \in DOMAIN d.levels /\ x.levels[k] = d.levels[k] /\ x.late[k] = d.late[k]
    BY <1>1, <1>4 DEF HitBy
  <2>2. PICK n \in 0..D, paid \in Nat, spare \in Nat : KeyBackedBy(T, d, k, n, paid, spare)
    BY <1>3, <2>1 DEF KeyBacked
  <2>3. k \in DOMAIN x.episodes =>
           /\ k \in DOMAIN d.episodes /\ x.episodes[k].peak = d.episodes[k].peak
           /\ x.episodes[k].replenished = d.episodes[k].replenished
           /\ x.episodes[k].executed = d.episodes[k].executed
    BY <1>4 DEF HitBy
  <2>4. k \in DOMAIN x.episodes =>
           EpisodeBacked(T, k, x.episodes[k], n, paid, x.levels[k].pending)
    BY <2>1, <2>2, <2>3 DEF KeyBackedBy, EpisodeBacked
  <2>5. KeyBackedBy(T, x, k, n, paid, spare)
    BY <2>1, <2>2, <2>4 DEF KeyBackedBy
  <2> QED BY <1>3, <2>1, <2>5 DEF KeyBacked
<1>5. x.levels[key].at \in 0..c /\ KeyBacked(T, D, x, key)
  <2> DEFINE pending == d.levels[key].pending
  <2>1. key \in Key /\ pending \in Nat /\ d.levels[key].at \in Nat /\ t \in Nat \ {0}
        /\ d.levels[key].at <= c /\ t <= c
    BY <1>1, <1>3
  <2>2. PICK n \in 0..D, paid \in Nat, spare \in Nat : KeyBackedBy(T, d, key, n, paid, spare)
    BY <1>3 DEF KeyBacked
  <2>3. /\ paid + spare = d.late[key] /\ LevelBacked(T, key, d.levels[key], n, spare)
        /\ key \in DOMAIN d.episodes => EpisodeBacked(T, key, d.episodes[key], n, paid, pending)
    BY <2>2 DEF KeyBackedBy
  <2>4. /\ x.levels[key].visible = d.levels[key].visible
        /\ x.levels[key].pending = pending + qty
        /\ x.levels[key].at = Later(d.levels[key].at, t)
        /\ x.late[key] = IF t <= d.levels[key].at THEN d.late[key] + qty ELSE d.late[key]
    BY DEF HitBy
  <2>5. PICK rest \in Nat : paid + rest = x.late[key] /\ LevelBacked(T, key, x.levels[key], n, rest)
    <3>1. PICK level, next, late : level = d.levels[key] /\ next = x.levels[key] /\ late = x.late[key]
      OBVIOUS
    <3>2. late = paid + spare + (IF t <= level.at THEN qty ELSE 0)
      BY <2>3, <2>4, <3>1
    <3>3. n \in Nat /\ T.executed[t - 1][key] + qty <= T.executed[t][key]
      OBVIOUS
    <3>4. /\ key \in Key /\ level.at \in Nat /\ level.pending \in Nat /\ t \in Nat \ {0}
          /\ LevelBacked(T, key, level, n, spare) /\ next.visible = level.visible
          /\ next.pending = level.pending + qty /\ next.at = Later(level.at, t)
      BY <2>1, <2>3, <2>4, <3>1
    <3>5. \E rest \in Nat : paid + rest = late /\ LevelBacked(T, key, next, n, rest)
      BY <3>2, <3>3, <3>4, LevelAfterHit
    <3> QED BY <3>1, <3>5
  <2>6. ASSUME key \in DOMAIN x.episodes
        PROVE  EpisodeBacked(T, key, x.episodes[key], n, paid, pending + qty)
    <3> DEFINE y == x.episodes[key]
    <3>1. n \in Nat /\ \A m \in 0..n : {T.executed[m][key], T.added[m][key], T.book[m][key]} \subseteq Nat
      <4>1. n \in Nat /\ \A m \in 0..n : m \in Nat
        OBVIOUS
      <4> QED BY <2>1, <4>1, TimelineCounts
    <3>2. CASE key \in DOMAIN d.episodes
      <4>1. /\ y.peak = d.episodes[key].peak /\ y.replenished = d.episodes[key].replenished
            /\ y.executed \in {d.episodes[key].executed, d.episodes[key].executed + qty}
        BY <2>6, <3>2 DEF HitBy
      <4>2. EpisodeBacked(T, key, d.episodes[key], n, paid, pending) /\ d.episodes[key].executed \in Nat
        BY <1>2, <2>3, <3>2
      <4>3. PICK m \in 0..n : /\ T.book[m][key] <= y.peak
                              /\ d.episodes[key].executed + T.executed[m][key]
                                   <= T.executed[n][key] + paid + pending
        BY <4>1, <4>2 DEF EpisodeBacked
      <4>4. y.executed + T.executed[m][key] <= T.executed[n][key] + paid + (pending + qty)
        <5>1. T.executed[m][key] \in Nat /\ T.executed[n][key] \in Nat
          BY <3>1
        <5> HIDE DEF y, pending
        <5> QED BY <2>1, <4>1, <4>2, <4>3, <5>1
      <4> QED BY <4>1, <4>2, <4>3, <4>4 DEF EpisodeBacked
    <3>3. CASE key \notin DOMAIN d.episodes
      <4>1. y.peak = d.levels[key].visible /\ y.replenished = 0 /\ y.executed = qty
        BY <2>6, <3>3 DEF HitBy
      <4>2. y.peak = T.book[n][key] /\ n \in 0..n
        BY <2>3, <3>1, <4>1 DEF LevelBacked
      <4>3. y.executed + T.executed[n][key] <= T.executed[n][key] + paid + (pending + qty)
        BY <2>1, <3>1, <4>1, <4>2
      <4> QED BY <3>1, <4>1, <4>2, <4>3 DEF EpisodeBacked
    <3> QED BY <3>2, <3>3
  <2>7. x.levels[key].at \in 0..c
    BY <2>1, <2>4 DEF Later
  <2>8. KeyBackedBy(T, x, key, n, paid, rest)
    BY <2>4, <2>5, <2>6 DEF KeyBackedBy
  <2> QED BY <2>7, <2>8 DEF KeyBacked
<1>6. ASSUME NEW a \in Range(x.events)
      PROVE  EventBacked(T, c, x.late, a)
  <2>1. a \in Range(d.events) /\ a.key \in Key /\ a.executed \in Nat
    BY DEF HitBy, IsDetector, EventsOK, IsReport
  <2>2. EventBacked(T, c, d.late, a) /\ T.added[c][a.key] \in Nat
    BY <2>1, TimelineCounts DEF Backed
  <2>3. d.late[a.key] <= x.late[a.key] /\ d.late[a.key] \in Nat /\ x.late[a.key] \in Nat
    <3>1. d.late[a.key] \in Nat /\ x.late \in [Key -> Nat]
      BY <1>3, <2>1 DEF HitBy
    <3>2. x.late[a.key] \in {d.late[a.key], d.late[a.key] + qty}
      BY <1>1, <2>1 DEF HitBy
    <3> QED BY <2>1, <3>1, <3>2
  <2> QED BY <2>1, <2>2, <2>3 DEF EventBacked, Shown
<1>7. x.late \in [Key -> Nat]
  BY DEF HitBy
<1> QED BY <1>4, <1>5, <1>6, <1>7 DEF Backed

(* process_trade: what is executed now joins what was executed before.       *)
LEMMA BackedAfterTrade ==
  ASSUME NEW T, IsTimeline(T), NEW D \in Nat, NEW c \in Nat, NEW d, NEW reports, NEW ledger,
         Sound(d, reports, ledger), Backed(T, D, c, d), NEW e, e.type = "Trade", Paid(e, ledger),
         e.time \in 1..c, Dated(e, T), NEW sense
  PROVE  Backed(T, D, c, ProcessTrade(d, e, sense))
<1> DEFINE key == e.key
           d1 == [d EXCEPT !.seenTrades = Remember(@, e.id),
                           !.trades = AddSample(@, e.time), !.touches = Recent(@, e.time)]
           d2 == Deplete(d1, key, e.qty, e.time)
           d3 == IF key \in DOMAIN d2.episodes THEN d2 ELSE OpenEpisode(d2, key, e.time)
           x == ProcessTrade(d, e, sense)
<1> SUFFICES Backed(T, D, c, x)
  OBVIOUS
<1>1. /\ e.id \in Nat \ {0} /\ key \in Key /\ e.qty \in Nat
      /\ IsDetector(d) /\ DOMAIN d = Fields /\ d.late \in [Key -> Nat]
      /\ T.executed[e.time - 1][key] + e.qty <= T.executed[e.time][key]
  BY DEF Paid, Sound, IsDetector, Dated, Backed
<1>2. CASE e.id \in Range(d.seenTrades)
  BY <1>2 DEF ProcessTrade
<1>3. CASE e.id \notin Range(d.seenTrades)
  <2>2. /\ DOMAIN d1 = Fields /\ d1.levels = d.levels /\ d1.episodes = d.episodes /\ d1.events = d.events
        /\ d1.nextId = d.nextId /\ d1.late = d.late
    BY <1>1 DEF Fields
  <2>3. \/ x = d1
        \/ (key \in DOMAIN d1.levels /\ (x = d2 \/ x = HitEpisode(d3, key, e.qty, e.time)))
    BY <1>3 DEF ProcessTrade, Visible
  <2> HIDE DEF d1, x
  <2>4. CASE x = d1
    BY <2>2, <2>4, ShedsWhenSame, BackedWhenShed
  <2>5. CASE key \in DOMAIN d1.levels /\ (x = d2 \/ x = HitEpisode(d3, key, e.qty, e.time))
    <3>1. DOMAIN d.levels \subseteq Key /\ (\A k \in DOMAIN d.levels : IsLevel(d.levels[k]))
          /\ key \in DOMAIN d.levels
      BY <1>1, <2>2, <2>5 DEF IsDetector, LevelsOK
    <3>2. /\ DOMAIN d2 = Fields /\ d2.episodes = d.episodes /\ d2.events = d.events
          /\ d2.nextId = d.nextId
          /\ DOMAIN d2.levels = DOMAIN d.levels
          /\ \A k \in DOMAIN d.levels : k # key => d2.levels[k] = d.levels[k]
          /\ d2.levels[key].visible = d.levels[key].visible
          /\ d2.levels[key].pending = d.levels[key].pending + e.qty
          /\ d2.levels[key].at = Later(d.levels[key].at, e.time)
      BY <1>1, <2>2, <3>1 DEF Deplete, Fields
    <3>9. /\ d2.late \in [Key -> Nat] /\ \A k \in Key \ {key} : d2.late[k] = d.late[k]
          /\ d2.late[key] = IF e.time <= d.levels[key].at THEN d.late[key] + e.qty ELSE d.late[key]
      <4>1. PICK now : now = IF e.time <= d.levels[key].at THEN d.late[key] + e.qty ELSE d.late[key]
        OBVIOUS
      <4>2. d2.late = [d.late EXCEPT ![key] = now]
        BY <1>1, <2>2, <4>1 DEF Deplete, Fields
      <4>3. now \in Nat
        BY <1>1, <4>1
      <4> QED BY <1>1, <4>1, <4>2, <4>3
    <3> HIDE DEF d2
    <3>3. CASE x = d2
      <4>1. HitBy(d, x, key, e.qty, e.time)
        BY <3>2, <3>3, <3>9 DEF HitBy
      <4> QED BY <1>1, <3>1, <4>1, BackedAfterHit
    <3>4. CASE x = HitEpisode(d3, key, e.qty, e.time)
      <4>1. /\ DOMAIN d3 = Fields /\ d3.events = d.events /\ d3.levels = d2.levels /\ d3.late = d2.late
            /\ DOMAIN d3.episodes = DOMAIN d.episodes \cup {key}
            /\ \A k \in DOMAIN d.episodes : d3.episodes[k] = d.episodes[k]
            /\ key \notin DOMAIN d.episodes =>
                  /\ d3.episodes[key].peak = d.levels[key].visible /\ d3.episodes[key].executed = 0
                  /\ d3.episodes[key].replenished = 0 /\ DOMAIN d3.episodes[key] = EpisodeFields
        BY <3>1, <3>2 DEF OpenEpisode, Opened, Fields, EpisodeFields
      <4>2. \A k \in DOMAIN d.episodes : DOMAIN d.episodes[k] = EpisodeFields
        BY <1>1 DEF IsDetector, EpisodesOK, IsEpisode
      <4> HIDE DEF d3
      <4>3. /\ DOMAIN d3.episodes[key] = EpisodeFields /\ key \in DOMAIN d3.episodes
            /\ DOMAIN d3 = Fields
        BY <4>1, <4>2
      <4> DEFINE y == [d3.episodes[key] EXCEPT !.executed = @ + e.qty, !.last = e.time]
      <4>4. /\ y.peak = d3.episodes[key].peak /\ y.replenished = d3.episodes[key].replenished
            /\ y.executed = d3.episodes[key].executed + e.qty
        BY <4>3 DEF EpisodeFields
      <4>5. x = [d3 EXCEPT !.episodes[key] = y]
        BY <3>4 DEF HitEpisode
      <4> HIDE DEF y
      <4>6. /\ x.events = d.events /\ x.levels = d2.levels /\ x.late = d2.late
            /\ DOMAIN x.episodes = DOMAIN d.episodes \cup {key}
            /\ \A k \in DOMAIN x.episodes : x.episodes[k] = IF k = key THEN y ELSE d.episodes[k]
        BY <4>1, <4>3, <4>5 DEF Fields
      <4>7. HitBy(d, x, key, e.qty, e.time)
        <5>1. ASSUME NEW k \in DOMAIN x.episodes
              PROVE  IF k \in DOMAIN d.episodes
                     THEN /\ x.episodes[k].peak = d.episodes[k].peak
                          /\ x.episodes[k].replenished = d.episodes[k].replenished
                          /\ \/ x.episodes[k].executed = d.episodes[k].executed
                             \/ k = key /\ x.episodes[k].executed = d.episodes[k].executed + e.qty
                     ELSE /\ x.episodes[k].peak = d.levels[k].visible
                          /\ x.episodes[k].replenished = 0 /\ x.episodes[k].executed = e.qty
          <6>1. CASE k = key /\ key \in DOMAIN d.episodes
            BY <4>1, <4>4, <4>6, <6>1
          <6>2. CASE k = key /\ key \notin DOMAIN d.episodes
            <7>1. 0 + e.qty = e.qty
              BY <1>1
            <7> QED BY <4>1, <4>4, <4>6, <6>2, <7>1
          <6>3. CASE k # key
            BY <4>6, <6>3
          <6> QED BY <6>1, <6>2, <6>3
        <5> QED BY <3>2, <3>9, <4>6, <5>1 DEF HitBy
      <4> QED BY <1>1, <3>1, <4>7, BackedAfterHit
    <3> QED BY <2>5, <3>3, <3>4
  <2> QED BY <2>3, <2>4, <2>5
<1> QED BY <1>2, <1>3

(* apply_level: what the delta, of the time t, shows at a level beyond what is left was *)
(* added, or makes up for executions that were late.                                    *)
LEMMA EpisodeAfterLevel ==
  ASSUME NEW T, IsTimeline(T), NEW k \in Key, NEW n \in Nat, NEW t \in Nat, n <= t,
         NEW paid \in Nat, NEW spare \in Nat, NEW level, IsLevel(level), level.at \in Nat,
         LevelBacked(T, k, level, n, spare),
         NEW x, IsEpisode(x), EpisodeBacked(T, k, x, n, paid, level.pending),
         NEW qty, qty = T.book[t][k], NEW at, NEW sense, NEW owed \in Nat,
         owed = IF t < level.at THEN paid + spare + level.pending ELSE paid + spare
  PROVE  EpisodeBacked(T, k, Refill(x, level, qty, at, sense), t, owed, 0)
<1> DEFINE z == Refill(x, level, qty, at, sense)
           pending == level.pending
<1>1. pending \in Nat /\ x.executed \in Nat /\ DOMAIN x = EpisodeFields
  BY DEF IsLevel, IsEpisode
<1>2. /\ z.peak = (IF x.peak < qty THEN qty ELSE x.peak) /\ z.executed = x.executed
      /\ z.replenished \in {x.replenished, x.replenished + Replenished(level, qty)}
  BY <1>1 DEF Refill, EpisodeFields
<1>3. /\ level.visible = T.book[n][k] /\ n <= level.at
      /\ pending + T.executed[n][k] <= T.executed[level.at][k] + spare
      /\ x.peak \in Nat /\ x.replenished \in Nat /\ x.replenished <= T.added[n][k] + paid
  BY DEF LevelBacked, EpisodeBacked
<1>4. PICK m \in 0..n : /\ T.book[m][k] <= x.peak
                        /\ x.executed + T.executed[m][k] <= T.executed[n][k] + paid + pending
  BY DEF EpisodeBacked
<1> HIDE DEF z, pending
<1>5. /\ m \in Nat /\ m <= n /\ m \in 0..t
      /\ {T.executed[m][k], T.executed[n][k], T.executed[t][k], T.executed[level.at][k],
          T.added[n][k], T.added[t][k], T.book[m][k], T.book[n][k], T.book[t][k]} \subseteq Nat
      /\ T.executed[n][k] <= T.executed[t][k] /\ T.added[n][k] <= T.added[t][k]
  <2>1. m \in Nat /\ m <= n /\ m \in 0..t
    OBVIOUS
  <2> QED BY <2>1, TimelineCounts
<1>6. T.book[t][k] + T.executed[t][k] + T.added[n][k] <= T.book[n][k] + T.executed[n][k] + T.added[t][k]
  BY DEF IsTimeline, Falls
<1>7. Replenished(level, qty) \in Nat /\ (\/ Replenished(level, qty) = 0
                                          \/ Replenished(level, qty) <= qty - level.visible + pending)
  BY <1>1, <1>3, <1>5 DEF Replenished, Floor, pending
<1>8. paid <= owed /\ pending + T.executed[n][k] + paid <= T.executed[t][k] + owed
  <2>1. CASE t < level.at
    BY <1>1, <1>5, <2>1 DEF pending
  <2>2. CASE ~(t < level.at)
    <3>1. T.executed[level.at][k] <= T.executed[t][k]
      <4>1. level.at <= t
        BY <2>2
      <4> QED BY <4>1, TimelineCounts
    <3>2. owed = paid + spare
      BY <2>2
    <3> QED BY <1>1, <1>3, <1>5, <3>1, <3>2
  <2> QED BY <2>1, <2>2
<1>9. z.replenished \in Nat /\ z.replenished <= T.added[t][k] + owed
  <2>1. CASE z.replenished = x.replenished
    BY <1>3, <1>5, <1>8, <2>1
  <2>2. CASE z.replenished = x.replenished + Replenished(level, qty)
    <3>1. CASE Replenished(level, qty) = 0
      BY <1>3, <1>5, <1>8, <2>2, <3>1
    <3>2. CASE Replenished(level, qty) <= qty - level.visible + pending
      <4>1. PICK r : r = Replenished(level, qty)
        OBVIOUS
      <4>2. r + T.book[n][k] <= T.book[t][k] + pending /\ r \in Nat
        BY <1>1, <1>3, <1>5, <1>7, <3>2, <4>1
      <4>3. r + T.executed[t][k] + T.added[n][k] <= pending + T.executed[n][k] + T.added[t][k]
        BY <1>1, <1>5, <1>6, <4>2
      <4>4. r + T.added[n][k] + paid <= T.added[t][k] + owed
        BY <1>1, <1>5, <1>8, <4>2, <4>3
      <4> QED BY <1>3, <1>5, <2>2, <4>1, <4>2, <4>4
    <3> QED BY <1>7, <3>1, <3>2
  <2> QED BY <1>2, <2>1, <2>2
<1>10. z.peak \in Nat /\ T.book[m][k] <= z.peak
  BY <1>2, <1>3, <1>4, <1>5
<1>11. z.executed + T.executed[m][k] <= T.executed[t][k] + owed + 0
  BY <1>1, <1>2, <1>4, <1>5, <1>8
<1>12. EpisodeBacked(T, k, z, t, owed, 0)
  BY <1>5, <1>9, <1>10, <1>11 DEF EpisodeBacked
<1> QED BY <1>12 DEF z

(* apply_level, for every level the delta names.                             *)
LEMMA BackedAfterLevels ==
  ASSUME NEW T, IsTimeline(T), NEW D \in Nat, NEW c \in Nat, NEW d, NEW reports, NEW ledger,
         Sound(d, reports, ledger), Backed(T, D, c, d), NEW e, Names(e), e.time \in 0..c, D <= e.time,
         \A k \in DOMAIN e.levels : e.levels[k] = T.book[e.time][k], NEW sense
  PROVE  Backed(T, e.time, c, ApplyLevels(d, e, sense))
<1> DEFINE x == ApplyLevels(d, e, sense)
           t == e.time
           named == DOMAIN e.levels
           kept == (DOMAIN d.levels \cup named) \ Gone(d, e)
           shown(k) == [visible |-> e.levels[k], pending |-> 0, expected |-> e.levels[k], at |-> t]
           tardy(k) == IF k \in named /\ t < Level(d, k).at THEN d.late[k] + Level(d, k).pending
                       ELSE d.late[k]
           filled(k) == Refill(d.episodes[k], Level(d, k), e.levels[k], t, sense)
<1>1. /\ x.events = d.events
      /\ x.levels = [k \in kept |-> IF k \in named THEN shown(k) ELSE d.levels[k]]
      /\ x.episodes = [k \in DOMAIN d.episodes |-> IF k \in named THEN filled(k) ELSE d.episodes[k]]
      /\ x.late = [k \in Key |-> tardy(k)]
  BY DEF Sound, IsDetector, Fields, ApplyLevels
<1>2. IsDetector(d) /\ LevelsOK(d.levels) /\ EpisodesOK(d) /\ t \in Nat /\ t <= c /\ D <= t
  BY DEF Sound, IsDetector
<1>3. d.late \in [Key -> Nat] /\ \A k \in DOMAIN d.levels : d.levels[k].at \in 0..c /\ KeyBacked(T, D, d, k)
  BY DEF Backed
<1> HIDE DEF x
<1>4. /\ DOMAIN x.levels = kept
      /\ \A k \in kept : x.levels[k] = IF k \in named THEN shown(k) ELSE d.levels[k]
      /\ DOMAIN x.episodes = DOMAIN d.episodes
      /\ \A k \in DOMAIN d.episodes : x.episodes[k] = IF k \in named THEN filled(k) ELSE d.episodes[k]
      /\ DOMAIN x.late = Key /\ \A k \in Key : x.late[k] = tardy(k)
  BY <1>1
<1>5. ASSUME NEW k \in Key
      PROVE  x.late[k] \in Nat /\ d.late[k] <= x.late[k]
  <2>1. Level(d, k).pending \in Nat
    BY <1>2 DEF Level, NoLevel, LevelsOK, IsLevel
  <2> QED BY <1>3, <1>4, <2>1
<1>6. x.late \in [Key -> Nat]
  BY <1>1, <1>4, <1>5
<1>7. ASSUME NEW k \in DOMAIN x.levels, k \notin named
      PROVE  x.levels[k].at \in 0..c /\ KeyBacked(T, t, x, k)
  <2>1. k \in DOMAIN d.levels /\ k \in Key /\ x.levels[k] = d.levels[k] /\ x.late[k] = d.late[k]
    BY <1>2, <1>4, <1>7 DEF LevelsOK
  <2>2. PICK n \in 0..D, paid \in Nat, spare \in Nat : KeyBackedBy(T, d, k, n, paid, spare)
    BY <1>3, <2>1 DEF KeyBacked
  <2>3. n \in 0..t
    BY <1>2
  <2>4. k \in DOMAIN x.episodes => k \in DOMAIN d.episodes /\ x.episodes[k] = d.episodes[k]
    BY <1>4, <1>7
  <2>5. KeyBackedBy(T, x, k, n, paid, spare)
    BY <2>1, <2>2, <2>4 DEF KeyBackedBy
  <2> QED BY <1>3, <2>1, <2>3, <2>5 DEF KeyBacked
<1>8. ASSUME NEW k \in DOMAIN x.levels, k \in named
      PROVE  x.levels[k].at \in 0..c /\ KeyBacked(T, t, x, k)
  <2>1. /\ k \in Key /\ x.levels[k] = shown(k) /\ x.late[k] = tardy(k)
        /\ e.levels[k] = T.book[t][k]
    BY <1>4, <1>8 DEF Names
  <2>2. x.levels[k].visible = T.book[t][k] /\ x.levels[k].pending = 0 /\ x.levels[k].at = t
    BY <2>1
  <2>3. T.executed[t][k] \in Nat /\ t \in 0..t
    BY <1>2, <2>1, TimelineCounts
  <2>4. LevelBacked(T, k, x.levels[k], t, 0)
    BY <2>2, <2>3 DEF LevelBacked
  <2>5. ASSUME k \in DOMAIN x.episodes
        PROVE  EpisodeBacked(T, k, x.episodes[k], t, x.late[k], 0)
    <3> DEFINE level == d.levels[k]
    <3>1. /\ k \in DOMAIN d.episodes /\ k \in DOMAIN d.levels /\ Level(d, k) = level /\ IsLevel(level)
          /\ IsEpisode(d.episodes[k]) /\ x.episodes[k] = filled(k)
      BY <1>2, <1>4, <1>8, <2>5 DEF EpisodesOK, LevelsOK, Level
    <3>2. PICK n \in 0..D, paid \in Nat, spare \in Nat : KeyBackedBy(T, d, k, n, paid, spare)
      BY <1>3, <3>1 DEF KeyBacked
    <3>3. /\ paid + spare = d.late[k] /\ LevelBacked(T, k, level, n, spare)
          /\ EpisodeBacked(T, k, d.episodes[k], n, paid, level.pending)
      BY <3>1, <3>2 DEF KeyBackedBy
    <3>4. x.late[k] = IF t < level.at THEN paid + spare + level.pending ELSE paid + spare
      BY <1>8, <2>1, <3>1, <3>3
    <3>5. n \in Nat /\ n <= t /\ level.at \in Nat /\ x.late[k] \in Nat
      BY <1>2, <1>3, <1>5, <2>1, <3>1
    <3>6. filled(k) = Refill(d.episodes[k], level, e.levels[k], t, sense)
      BY <3>1
    <3>7. PICK qty, y, owed : qty = e.levels[k] /\ y = d.episodes[k] /\ owed = x.late[k]
      OBVIOUS
    <3>8. /\ qty = T.book[t][k] /\ k \in Key /\ t \in Nat /\ n \in Nat /\ n <= t
          /\ IsLevel(level) /\ level.at \in Nat /\ LevelBacked(T, k, level, n, spare)
          /\ IsEpisode(y) /\ EpisodeBacked(T, k, y, n, paid, level.pending) /\ owed \in Nat
          /\ owed = IF t < level.at THEN paid + spare + level.pending ELSE paid + spare
      BY <1>2, <2>1, <2>2, <3>1, <3>3, <3>4, <3>5, <3>7
    <3> HIDE DEF filled, level, t
    <3>9. EpisodeBacked(T, k, Refill(y, level, qty, t, sense), t, owed, 0)
      BY <3>8, EpisodeAfterLevel
    <3> QED BY <3>1, <3>6, <3>7, <3>9
  <2>6. KeyBackedBy(T, x, k, t, x.late[k], 0)
    BY <1>5, <2>1, <2>2, <2>4, <2>5 DEF KeyBackedBy
  <2>7. KeyBacked(T, t, x, k)
    BY <1>5, <2>1, <2>3, <2>6 DEF KeyBacked
  <2> QED BY <1>2, <2>2, <2>7
<1>9. ASSUME NEW a \in Range(x.events)
      PROVE  EventBacked(T, c, x.late, a)
  <2>1. a \in Range(d.events) /\ a.key \in Key /\ a.executed \in Nat
    BY <1>1, <1>2 DEF IsDetector, EventsOK, IsReport
  <2>2. EventBacked(T, c, d.late, a) /\ T.added[c][a.key] \in Nat
    BY <2>1, TimelineCounts DEF Backed
  <2>3. d.late[a.key] \in Nat /\ x.late[a.key] \in Nat /\ d.late[a.key] <= x.late[a.key]
    BY <1>3, <1>5, <2>1
  <2> QED BY <2>1, <2>2, <2>3 DEF EventBacked, Shown
<1>10. Backed(T, t, c, x)
  BY <1>6, <1>7, <1>8, <1>9 DEF Backed
<1> QED BY <1>10 DEF x

(* What was executed in an episode beyond its peak was added, or was late.   *)
LEMMA EpisodeShows ==
  ASSUME NEW T, IsTimeline(T), NEW k \in Key, NEW n \in Nat, NEW c \in Nat,
         NEW paid \in Nat, NEW spare \in Nat, NEW level, IsLevel(level), level.at \in 0..c,
         LevelBacked(T, k, level, n, spare), NEW x, x.executed \in Nat,
         EpisodeBacked(T, k, x, n, paid, level.pending), NEW late, late = paid + spare
  PROVE  Shown(T, c, k, late, x)
<1> DEFINE at == level.at
<1>1. x.peak \in Nat /\ x.replenished \in Nat /\ x.replenished <= T.added[n][k] + paid
  BY DEF EpisodeBacked
<1>2. PICK m \in 0..n : /\ T.book[m][k] <= x.peak
                        /\ x.executed + T.executed[m][k] <= T.executed[n][k] + paid + level.pending
  BY DEF EpisodeBacked
<1>3. n <= at /\ level.pending + T.executed[n][k] <= T.executed[at][k] + spare /\ level.pending \in Nat
  BY DEF LevelBacked, IsLevel
<1>4. /\ m \in Nat /\ m <= at /\ at \in Nat /\ at <= c
      /\ {T.added[m][k], T.added[n][k], T.added[at][k], T.added[c][k], T.book[m][k], T.book[at][k],
          T.executed[m][k], T.executed[n][k], T.executed[at][k]} \subseteq Nat
      /\ T.added[n][k] <= T.added[at][k] /\ T.added[at][k] <= T.added[c][k]
  <2>1. m \in Nat /\ m <= at /\ at \in Nat /\ at <= c
    BY <1>3
  <2> QED BY <1>3, <2>1, TimelineCounts
<1>5. T.book[at][k] + T.executed[at][k] + T.added[m][k] <= T.book[m][k] + T.executed[m][k] + T.added[at][k]
  BY <1>4 DEF IsTimeline, Falls
<1>6. x.replenished <= T.added[c][k] + (paid + spare)
  BY <1>1, <1>4
<1>7. x.executed + T.executed[m][k] <= T.executed[at][k] + (paid + spare)
  BY <1>2, <1>3, <1>4
<1>8. T.executed[at][k] <= x.peak + T.executed[m][k] + T.added[c][k]
  BY <1>1, <1>2, <1>4, <1>5
<1>9. x.executed <= x.peak + T.added[c][k] + (paid + spare)
  BY <1>1, <1>4, <1>7, <1>8
<1> QED BY <1>1, <1>6, <1>9 DEF Shown

(* What the detector says of an episode.                                     *)
LEMMA EpisodesShow ==
  ASSUME NEW T, IsTimeline(T), NEW D \in Nat, NEW c \in Nat, NEW d, IsDetector(d), Backed(T, D, c, d),
         NEW k \in DOMAIN d.episodes
  PROVE  k \in Key /\ d.episodes[k].executed \in Nat /\ Shown(T, c, k, d.late[k], d.episodes[k])
<1>1. k \in DOMAIN d.levels /\ k \in Key /\ IsLevel(d.levels[k]) /\ d.episodes[k].executed \in Nat
  BY DEF IsDetector, EpisodesOK, LevelsOK, IsEpisode
<1>2. PICK n \in 0..D, paid \in Nat, spare \in Nat : KeyBackedBy(T, d, k, n, paid, spare)
  BY <1>1 DEF Backed, KeyBacked
<1>3. /\ paid + spare = d.late[k] /\ LevelBacked(T, k, d.levels[k], n, spare)
      /\ EpisodeBacked(T, k, d.episodes[k], n, paid, d.levels[k].pending)
  BY <1>2 DEF KeyBackedBy
<1>4. n \in Nat /\ d.levels[k].at \in 0..c
  BY <1>1 DEF Backed
<1>5. PICK x, level, late : x = d.episodes[k] /\ level = d.levels[k] /\ late = d.late[k]
  OBVIOUS
<1>6. /\ k \in Key /\ n \in Nat /\ IsLevel(level) /\ level.at \in 0..c /\ x.executed \in Nat
      /\ LevelBacked(T, k, level, n, spare) /\ EpisodeBacked(T, k, x, n, paid, level.pending)
      /\ late = paid + spare
  BY <1>1, <1>3, <1>4, <1>5
<1>7. Shown(T, c, k, late, x)
  BY <1>2, <1>6, EpisodeShows
<1> QED BY <1>1, <1>5, <1>7

(* publish_if_visible: an event says what its episode says.                  *)
LEMMA BackedWhenPublished ==
  ASSUME NEW T, IsTimeline(T), NEW D \in Nat, NEW c \in Nat, NEW d, IsDetector(d), Backed(T, D, c, d),
         NEW x, x.levels = d.levels, x.late = d.late, NEW at, Publishes(d, x, at)
  PROVE  Backed(T, D, c, x)
<1>1. ASSUME NEW k \in DOMAIN d.levels
      PROVE  KeyBacked(T, D, x, k)
  <2>1. PICK n \in 0..D, paid \in Nat, spare \in Nat : KeyBackedBy(T, d, k, n, paid, spare)
    BY DEF Backed, KeyBacked
  <2>2. k \in DOMAIN x.episodes =>
           EpisodeBacked(T, k, x.episodes[k], n, paid, x.levels[k].pending)
    BY <2>1 DEF Publishes, KeyBackedBy, EpisodeBacked
  <2>3. KeyBackedBy(T, x, k, n, paid, spare)
    BY <2>1, <2>2 DEF KeyBackedBy
  <2> QED BY <2>3 DEF KeyBacked
<1>2. ASSUME NEW a \in Range(x.events)
      PROVE  EventBacked(T, c, x.late, a)
  <2>1. CASE a \in Range(d.events)
    BY <2>1 DEF Backed
  <2>2. ASSUME NEW k \in DOMAIN d.episodes, a = Report(d, k, at)
        PROVE  EventBacked(T, c, x.late, a)
    <3>1. /\ a.key = k /\ a.peak = d.episodes[k].peak /\ a.replenished = d.episodes[k].replenished
          /\ a.executed = d.episodes[k].executed
      BY <2>2 DEF Report
    <3>2. Shown(T, c, k, d.late[k], d.episodes[k])
      BY EpisodesShow
    <3> QED BY <3>1, <3>2 DEF EventBacked, Shown
  <2> QED BY <2>1, <2>2 DEF Publishes
<1> QED BY <1>1, <1>2 DEF Backed

(* process_depth: the detector comes to the time of the delta, unless it has seen it. *)
LEMMA BackedAfterDelta ==
  ASSUME NEW T, IsTimeline(T), NEW D \in Nat, NEW c \in Nat, NEW d, NEW reports, NEW ledger,
         Sound(d, reports, ledger), Backed(T, D, c, d), NEW e, Names(e), e.id \in Nat,
         e.time \in 1..c, e.boundary \in BOOLEAN, e.type = "BookDelta", Dated(e, T),
         LastOf(d.seenDepth) <= e.id, D <= e.time, NEW sense
  PROVE  LET x == ProcessDepth(d, e, sense)
         IN Backed(T, e.time, c, x) /\ e.id \in Range(x.seenDepth)
<1> DEFINE d1 == [d EXCEPT !.seenDepth = Remember(@, e.id)]
           d2 == IF e.boundary
                 THEN [d1 EXCEPT !.levels = NoLevels, !.episodes = NoLevels,
                                 !.quality = "Synchronizing"]
                 ELSE d1
           d3 == ApplyLevels(d2, e, sense)
           d4 == SampleTouch(d3, e.time)
           d5 == Restore(d4, e)
           d6 == UpdateAdverse(d5)
           x == ProcessDepth(d, e, sense)
<1> SUFFICES ASSUME e.id \notin Range(d.seenDepth)
             PROVE  Backed(T, e.time, c, x) /\ e.id \in Range(x.seenDepth)
  <2>1. ASSUME e.id \in Range(d.seenDepth)
        PROVE  Backed(T, e.time, c, x) /\ e.id \in Range(x.seenDepth)
    <3>1. x = d
      BY <2>1 DEF ProcessDepth
    <3>2. Backed(T, e.time, c, d)
      <4>1. 0..D \subseteq 0..e.time
        OBVIOUS
      <4> QED BY <4>1 DEF Backed, KeyBacked
    <3> QED BY <2>1, <3>1, <3>2
  <2> QED BY <2>1
<1>1. Seen(d.seenDepth)
  BY DEF Sound, IsDetector, Seen
<1> DEFINE seen == Remember(d.seenDepth, e.id)
<1>2. Seen(seen) /\ e.id \in Range(seen)
  BY <1>1, RememberKeepsLast
<1>3. x = PublishVisible(d6, e.time, sense)
  BY DEF ProcessDepth
<1>4. d2 = Begun(d, e, seen) /\ DOMAIN d = Fields /\ d2.seenDepth = seen
  BY DEF Sound, IsDetector, Fields, Begun
<1> HIDE DEF d1, d2, seen, x
<1>5. Trims(d, d2) /\ Sheds(d, d2)
  BY <1>2, <1>4, BoundaryTrims, BoundarySheds
<1>6. Sound(d2, reports, ledger) /\ Backed(T, D, c, d2)
  BY <1>5, SoundWhenTrimmed, BackedWhenShed
<1>7. Backed(T, e.time, c, d3)
  <2>1. e.time \in 0..c
    OBVIOUS
  <2> QED BY <1>6, <2>1, BackedAfterLevels DEF Dated
<1>8. Trims(d2, d3) /\ d3.seenDepth = seen
  BY <1>4, <1>6, ApplyLevelsTrims
<1> HIDE DEF d3
<1>9. Sound(d3, reports, ledger)
  BY <1>6, <1>8, SoundWhenTrimmed
<1>10. SameBook(d3, d4)
  BY <1>8, SampleTouchSame DEF Trims
<1> HIDE DEF d4
<1>11. Trims(d3, d4)
  BY <1>9, <1>10, SameBookTrims
<1>12. Sound(d4, reports, ledger)
  BY <1>9, <1>11, SoundWhenTrimmed
<1>13. SameBook(d4, d5)
  BY <1>10, RestoreSame DEF SameBook
<1> HIDE DEF d5
<1>14. Trims(d4, d5)
  BY <1>12, <1>13, SameBookTrims
<1>15. Sound(d5, reports, ledger)
  BY <1>12, <1>14, SoundWhenTrimmed
<1>16. Sheds(d3, d4) /\ Sheds(d4, d5) /\ Sheds(d5, d6)
  BY <1>10, <1>13, <1>15, ShedsWhenSame, UpdateAdverseSheds DEF SameBook
<1>17. Trims(d5, d6) /\ d6.seenDepth = d5.seenDepth
  BY <1>15, UpdateAdverseTrims
<1> HIDE DEF d6
<1>18. Sound(d6, reports, ledger)
  BY <1>15, <1>17, SoundWhenTrimmed
<1>19. Backed(T, e.time, c, d6)
  BY <1>7, <1>16, ShedsAgain, BackedWhenShed
<1>20. x.levels = d6.levels /\ x.late = d6.late /\ Publishes(d6, x, e.time) /\ x.seenDepth = d6.seenDepth
  <2>1. e.time \in Nat \ {0}
    OBVIOUS
  <2> QED BY <1>3, <1>18, <2>1, SoundWhenPublished
<1>21. e.time \in Nat
  OBVIOUS
<1>22. Backed(T, e.time, c, x)
  BY <1>18, <1>19, <1>20, <1>21, BackedWhenPublished DEF Sound
<1>23. x.seenDepth = seen
  BY <1>8, <1>10, <1>13, <1>17, <1>20 DEF SameBook
<1> QED BY <1>2, <1>22, <1>23 DEF x

(* The detector, with the events S on their way to it: the deltas among them are not older *)
(* than its last one, or seen.                                                              *)
Real(T, D, c, d, S) ==
    /\ D \in 0..c /\ Backed(T, D, c, d)
    /\ \A e \in S : Dated(e, T)
    /\ \A e \in S : e.type = "BookDelta" /\ e.id \notin Range(d.seenDepth) => D <= e.time

RealUpTo(T, c, d, S) == \E D : Real(T, D, c, d, S)

(* Nothing on its way is of a later time than c. *)
OnTime(S, c) == \A e \in S : e.type \in {"Trade", "BookDelta"} => e.time <= c

(* The time up to which the exchange has said all it will. *)
Now == IF phase = "open" THEN clock - 1 ELSE clock

(* No event is of a later time. *)
LEMMA EventsOnTime ==
  ASSUME MarketOK, NEW S, \A e \in S : IsEvent(e)
  PROVE  Now \in Nat /\ OnTime(S, Now)
<1>1. clock \in Nat \ {0} /\ Now \in Nat
  BY DEF MarketOK, Now
<1>2. ASSUME NEW e \in S, e.type \in {"Trade", "BookDelta"}
      PROVE  e.time <= Now
  <2>1. e.time \in Nat /\ e.time <= clock /\ (phase = "open" => e.time # clock)
    <3>1. IsEvent(e)
      OBVIOUS
    <3> QED BY <1>2, <3>1 DEF IsEvent, IsTrade, IsDelta
  <2>2. PICK t, c : t = e.time /\ c = clock
    OBVIOUS
  <2>3. phase = "open" => t <= c - 1
    BY <1>1, <2>1, <2>2
  <2> QED BY <1>1, <2>1, <2>2, <2>3 DEF Now
<1> QED BY <1>1, <1>2 DEF OnTime

(* Only what Real does not read has changed in x, and nothing new is on its way. *)
LEMMA RealWhenShed ==
  ASSUME NEW T, NEW c, NEW d, NEW S, RealUpTo(T, c, d, S), NEW x, Sheds(d, x),
         x.seenDepth = d.seenDepth, NEW R, R \subseteq S
  PROVE  RealUpTo(T, c, x, R)
<1>1. PICK D : Real(T, D, c, d, S)
  BY DEF RealUpTo
<1>2. Backed(T, D, c, x)
  BY <1>1, BackedWhenShed DEF Real
<1>3. Real(T, D, c, x, R)
  BY <1>1, <1>2 DEF Real
<1> QED BY <1>3 DEF RealUpTo

(* process: the head of the buffer is taken.                                 *)
LEMMA RealAfterProcess ==
  ASSUME MarketOK, NEW ledger, IsLedger(ledger), NEW d, NEW B, NEW C, NEW reports,
         NEW uninterrupted \in BOOLEAN, Good(d, B, C, uninterrupted, reports, ledger), B # <<>>,
         NEW sense, NEW T, IsTimeline(T), NEW c \in Nat, OnTime(Range(B), c),
         RealUpTo(T, c, d, Range(B) \cup C)
  PROVE  RealUpTo(T, c, Process(d, Head(B), sense), Range(Tail(B)) \cup C)
<1> DEFINE e == Head(B)
           t == Tail(B)
           x == Process(d, e, sense)
           y == Expire(d, e.time)
           P == SentOf("BookDelta", Range(B) \cup C)
           S == Range(B) \cup C
           R == Range(t) \cup C
<1> SUFFICES RealUpTo(T, c, x, R)
  OBVIOUS
<1>1. Sound(d, reports, ledger) /\ Ahead(d, B, C) /\ B \in Seq(Range(B))
  BY DEF Good, Ahead
<1>2. e \in Range(B) /\ R \subseteq S
  BY <1>1, TailOf
<1>3. IsEvent(e) /\ ~Interrupts(e) /\ (e.type = "Trade" => Paid(e, ledger))
  BY <1>1, <1>2 DEF Good, Ahead, AllPaid
<1>4. e.type \in {"Trade", "BookDelta", "Quality"} /\ e.time \in Nat \ {0}
      /\ (e.type # "Quality" => e.time \in 1..c)
  BY <1>2, <1>3 DEF IsEvent, Interrupts, OnTime
<1>5. Trims(d, y) /\ Sheds(d, y) /\ y.seenDepth = d.seenDepth
  BY <1>1, ExpireTrims, ExpireSheds
<1>6. \A f \in S : IsEvent(f)
  BY <1>1 DEF Ahead
<1>7. e.type = "BookDelta" => /\ Sent(e) \in P /\ Sent(e).id = e.id /\ Sent(e).time = e.time
                              /\ \A f \in P : e.id <= f.id
  BY <1>1, <1>3, HeadIsFirst, SentIsLike
<1>8. InStep(P, LastOf(d.seenDepth))
  BY <1>1 DEF Ahead
<1> HIDE DEF e, t, y, S, R
<1>9. Sound(y, reports, ledger)
  BY <1>1, <1>5, SoundWhenTrimmed
<1>10. PICK D : Real(T, D, c, y, S)
  BY <1>5, RealWhenShed DEF RealUpTo, S
<1>11. D \in 0..c /\ Backed(T, D, c, y) /\ Dated(e, T)
  BY <1>2, <1>10 DEF Real, S
<1>12. CASE e.type = "Trade"
  <2>1. x = ProcessTrade(y, e, sense)
    BY <1>12 DEF Process, y
  <2> HIDE DEF x
  <2>2. D \in Nat /\ e.time \in 1..c
    BY <1>4, <1>11, <1>12
  <2>3. Backed(T, D, c, x)
    BY <1>3, <1>9, <1>11, <1>12, <2>1, <2>2, BackedAfterTrade
  <2>4. x.seenDepth = y.seenDepth
    <3>1. y.seenTrades = d.seenTrades /\ LastOf(d.seenTrades) <= e.id
      <4> DEFINE Q == SentOf("Trade", Range(B) \cup C)
      <4>1. Sent(e) \in Q /\ InStep(Q, LastOf(d.seenTrades)) /\ Sent(e).id = e.id
        BY <1>1, <1>3, <1>12, HeadIsFirst, SentIsLike DEF Ahead, e
      <4> QED BY <1>5, <4>1 DEF InStep, Trims
    <3> QED BY <1>3, <1>9, <1>12, <2>1, <3>1, SoundAfterTrade
  <2>5. Real(T, D, c, x, R)
    BY <1>2, <1>10, <2>3, <2>4 DEF Real
  <2> QED BY <2>5 DEF RealUpTo
<1>13. CASE e.type = "BookDelta"
  <2>1. x = ProcessDepth(y, e, sense)
    BY <1>13 DEF Process, y
  <2> HIDE DEF x
  <2>2. CASE e.id \in Range(y.seenDepth)
    <3>1. x = y
      BY <2>1, <2>2 DEF ProcessDepth
    <3> QED BY <1>2, <1>10, <3>1 DEF Real, RealUpTo
  <2>3. CASE e.id \notin Range(y.seenDepth)
    <3>1. LastOf(y.seenDepth) <= e.id
      BY <1>5, <1>7, <1>8, <1>13 DEF InStep
    <3>2. Names(e) /\ e.id \in Nat /\ e.boundary \in BOOLEAN /\ e.time \in 1..c /\ D \in Nat
      BY <1>3, <1>4, <1>11, <1>13 DEF IsEvent, IsDelta
    <3>3. D <= e.time
      BY <1>2, <1>10, <1>13, <2>3 DEF Real, S
    <3>4. Backed(T, e.time, c, x) /\ e.id \in Range(x.seenDepth)
      BY <1>9, <1>11, <1>13, <2>1, <3>1, <3>2, <3>3, BackedAfterDelta
    <3>5. ASSUME NEW f \in R, f.type = "BookDelta", f.id \notin Range(x.seenDepth)
          PROVE  e.time <= f.time
      <4>1. Sent(f) \in P /\ Sent(f).id = f.id /\ Sent(f).time = f.time /\ f.id \in Nat /\ f.time \in Nat
        <5>1. f \in S /\ IsEvent(f)
          BY <1>2, <1>6
        <5> QED BY <3>5, <5>1, SentIsLike DEF SentOf, S
      <4>2. e.id <= f.id /\ f.id # e.id
        BY <1>7, <1>13, <3>4, <3>5, <4>1
      <4>3. Sent(f).time <= Sent(e).time => Sent(f).id <= Sent(e).id
        BY <1>7, <1>8, <1>13, <4>1 DEF InStep
      <4>4. ~(f.time <= e.time)
        BY <1>7, <1>13, <3>2, <4>1, <4>2, <4>3
      <4> QED BY <3>2, <4>1, <4>4
    <3>6. Real(T, e.time, c, x, R)
      <4>1. e.time \in 0..c
        BY <3>2
      <4> QED BY <1>2, <1>10, <3>4, <3>5, <4>1 DEF Real
    <3> QED BY <3>6 DEF RealUpTo
  <2> QED BY <2>2, <2>3
<1>14. CASE e.type = "Quality"
  <2>1. x = ProcessQuality(y, e)
    BY <1>14 DEF Process, y
  <2> HIDE DEF x
  <2>2. Sheds(y, x) /\ x.seenDepth = y.seenDepth
    BY <1>9, <2>1, QualitySheds DEF Sound, IsDetector
  <2> QED BY <1>2, <1>10, <2>2, RealWhenShed DEF RealUpTo
<1> QED BY <1>4, <1>12, <1>13, <1>14

(* The first n of the buffer are taken.                                      *)
LEMMA RealAfterFirst ==
  ASSUME MarketOK, NEW ledger, IsLedger(ledger), NEW d, NEW C, NEW reports,
         NEW uninterrupted \in BOOLEAN,
         Good(d, d.buffer, C, uninterrupted, reports, ledger),
         NEW n \in 0..Len(d.buffer), NEW sense, NEW T, IsTimeline(T), NEW c \in Nat,
         OnTime(Range(d.buffer), c), RealUpTo(T, c, d, Range(d.buffer) \cup C)
  PROVE  LET x == ProcessFirst(d, n, sense)
         IN RealUpTo(T, c, x, Range(x.buffer) \cup C)
<1> DEFINE B == d.buffer
           rest(i) == SubSeq(B, i + 1, Len(B))
           first == [d EXCEPT !.buffer = rest(n)]
           x == ProcessFirst(d, n, sense)
           A(y, s) == Good(y, s, C, uninterrupted, reports, ledger)
           R(y, s) == OnTime(Range(s), c) /\ RealUpTo(T, c, y, Range(s) \cup C)
           G(i, y) == A(y, rest(i)) /\ y.buffer = rest(n) /\ R(y, rest(i))
<1>1. B \in Seq(Range(B)) /\ n \in Nat /\ Len(B) \in Nat
  BY DEF Good, Ahead
<1>2. PICK after : x = after[n] /\ Unfolds(d, n, sense, after)
  BY <1>1, FirstUnfold DEF Buffered
<1> HIDE DEF x
<1>3. after[0] = first /\ \A i \in 1..n : after[i] = Process(after[i - 1], B[i], sense)
  BY <1>2 DEF Unfolds
<1>4. G(0, first)
  <2>1. /\ DOMAIN first = Fields /\ first.quality = d.quality /\ first.nextId = d.nextId
        /\ first.seenTrades = d.seenTrades /\ first.seenDepth = d.seenDepth
        /\ first.events = d.events /\ first.levels = d.levels /\ first.episodes = d.episodes
        /\ first.buffer = rest(n) /\ d.quality \in Qualities /\ first.late = d.late
    BY DEF Good, Sound, IsDetector, Fields
  <2>2. rest(0) = B
    BY <1>1
  <2> HIDE DEF first, rest
  <2>3. A(first, B)
    BY <2>1, GoodWhenSame
  <2>4. R(first, B)
    BY <2>1, ShedsWhenSame, RealWhenShed
  <2> QED BY <2>1, <2>2, <2>3, <2>4
<1>5. ASSUME NEW i \in 0..n - 1, NEW y, G(i, y)
      PROVE  G(i + 1, Process(y, B[i + 1], sense))
  <2> DEFINE s == rest(i)
             z == Process(y, Head(s), sense)
  <2>1. i \in Nat /\ i + 1 \in 1..n /\ i + 1 <= Len(B)
    BY <1>1
  <2>2. s # <<>> /\ Head(s) = B[i + 1] /\ Tail(s) = rest(i + 1)
    <3> HIDE DEF B, first, G
    <3> QED BY <1>1, <2>1, RestOf
  <2>3. A(y, s) /\ y.buffer = rest(n) /\ R(y, s)
    BY <1>5
  <2> HIDE DEF rest, s
  <2>4. A(z, Tail(s)) /\ z.buffer = y.buffer
    <3> HIDE DEF B
    <3> QED BY <2>2, <2>3, GoodAfterProcess
  <2>5. R(z, Tail(s))
    <3>1. RealUpTo(T, c, z, Range(Tail(s)) \cup C)
      <4> HIDE DEF B
      <4> QED BY <2>2, <2>3, RealAfterProcess
    <3>2. Range(Tail(s)) \subseteq Range(s)
      <4>1. s \in Seq(Range(s))
        BY <2>3 DEF Good, Ahead
      <4> QED BY <2>2, <4>1, TailOf
    <3> QED BY <2>3, <3>1, <3>2 DEF OnTime
  <2>6. z = Process(y, B[i + 1], sense)
    BY <2>2
  <2> HIDE DEF z, A, R, B
  <2> QED BY <2>2, <2>3, <2>4, <2>5, <2>6
<1> HIDE DEF G, first
<1> DEFINE I == {i \in 0..n : G(i, after[i])}
<1>6. 0 \in I
  BY <1>1, <1>3, <1>4
<1>7. ASSUME NEW i \in 0..n - 1, i \in I
      PROVE  i + 1 \in I
  <2>1. i + 1 \in 1..n /\ (i + 1) - 1 = i /\ i + 1 \in 0..n
    BY <1>1
  <2>2. after[i + 1] = Process(after[i], B[i + 1], sense)
    BY <1>3, <2>1
  <2>3. G(i + 1, Process(after[i], B[i + 1], sense))
    BY <1>5, <1>7
  <2> QED BY <2>1, <2>2, <2>3
<1>8. 0..n \subseteq I
  <2> HIDE DEF I
  <2> QED BY <1>1, <1>6, <1>7, UpToInduction
<1>9. G(n, after[n])
  <2>1. n \in 0..n
    BY <1>1
  <2> QED BY <1>8, <2>1
<1>10. RealUpTo(T, c, after[n], Range(after[n].buffer) \cup C)
  <2> HIDE DEF rest
  <2> QED BY <1>9 DEF G
<1> QED BY <1>2, <1>10 DEF x

(* A full buffer gives up its oldest.                                        *)
LEMMA RealAfterRoom ==
  ASSUME MarketOK, NEW ledger, IsLedger(ledger), NEW d, NEW C, NEW reports,
         NEW uninterrupted \in BOOLEAN,
         Good(d, d.buffer, C, uninterrupted, reports, ledger),
         NEW sense, NEW T, IsTimeline(T), NEW c \in Nat,
         OnTime(Range(d.buffer), c), RealUpTo(T, c, d, Range(d.buffer) \cup C),
         NEW x, x = MakeRoom(d, sense)
  PROVE  RealUpTo(T, c, x, Range(x.buffer) \cup C)
<1>1. CASE Len(d.buffer) < MaxReorderEvents
  BY <1>1 DEF MakeRoom
<1>2. CASE ~(Len(d.buffer) < MaxReorderEvents)
  <2> DEFINE b == d.buffer
             y == [d EXCEPT !.buffer = Tail(@)]
             z == Process(y, Head(b), sense)
  <2>1. x = [z EXCEPT !.quality = "Degraded"]
    BY <1>2 DEF MakeRoom
  <2>2. /\ DOMAIN y = Fields /\ y.quality = d.quality /\ y.nextId = d.nextId
        /\ y.seenTrades = d.seenTrades /\ y.seenDepth = d.seenDepth
        /\ y.events = d.events /\ y.levels = d.levels /\ y.episodes = d.episodes
        /\ y.buffer = Tail(b) /\ y.late = d.late /\ d.quality \in Qualities
    BY DEF Good, Sound, IsDetector, Fields
  <2>3. b # <<>> /\ Range(Tail(b)) \subseteq Range(b)
    <3>1. MaxReorderEvents \in Nat \ {0} /\ b \in Seq(Range(b))
      BY LimitAssumption DEF Good, Ahead
    <3>2. b # <<>>
      <4>1. Len(b) \in Nat /\ ~(Len(b) < MaxReorderEvents)
        BY <1>2, <3>1
      <4> QED BY <3>1, <4>1
    <3> QED BY <3>1, <3>2, TailOf
  <2> HIDE DEF y
  <2>4. Good(y, b, C, uninterrupted, reports, ledger)
    BY <2>2, GoodWhenSame
  <2>5. RealUpTo(T, c, y, Range(b) \cup C)
    BY <2>2, ShedsWhenSame, RealWhenShed
  <2>6. RealUpTo(T, c, z, Range(Tail(b)) \cup C)
    <3> HIDE DEF b
    <3>1. OnTime(Range(b), c)
      BY DEF b
    <3> QED BY <2>3, <2>4, <2>5, <3>1, RealAfterProcess
  <2>7. Good(z, Tail(b), C, uninterrupted, reports, ledger) /\ z.buffer = y.buffer
    <3> HIDE DEF b
    <3> QED BY <2>3, <2>4, GoodAfterProcess
  <2>8. DOMAIN z = Fields
    BY <2>7 DEF Good, Sound, IsDetector
  <2> HIDE DEF z
  <2>9. /\ x.seenDepth = z.seenDepth /\ x.events = z.events /\ x.levels = z.levels
        /\ x.episodes = z.episodes /\ x.buffer = z.buffer /\ x.late = z.late
    BY <2>1, <2>8 DEF Fields
  <2> HIDE DEF b
  <2>10. RealUpTo(T, c, x, Range(Tail(b)) \cup C)
    BY <2>6, <2>9, ShedsWhenSame, RealWhenShed
  <2> QED BY <2>2, <2>7, <2>9, <2>10 DEF b
<1> QED BY <1>1, <1>2


(* The receive time is that of the delivery.                                 *)
LEMMA DatedWhenArrives ==
  ASSUME NEW T, NEW g, NEW e, NEW C, NEW C1, Arrives(g, e, C, C1), IsEvent(g), Dated(g, T)
  PROVE  Dated(e, T) /\ e.id = g.id
<1>1. e.type = g.type /\ e.time = g.time
  BY ArrivesLike
<1>2. CASE e = g
  BY <1>2
<1>3. CASE g.type \in {"Trade", "BookDelta"} /\ \E r \in Nat : e = [g EXCEPT !.recv = r]
  <2>1. PICK r \in Nat : e = [g EXCEPT !.recv = r]
    BY <1>3
  <2>2. g.type = "Trade" => e.key = g.key /\ e.qty = g.qty /\ e.id = g.id
    BY <2>1 DEF IsEvent, IsTrade
  <2>3. g.type = "BookDelta" => e.levels = g.levels /\ e.id = g.id
    BY <2>1 DEF IsEvent, IsDelta
  <2>4. Dated(e, T)
    BY <1>1, <2>2, <2>3 DEF Dated
  <2> QED BY <1>3, <2>2, <2>3, <2>4
<1> QED BY <1>2, <1>3 DEF Arrives

(* An event has joined those on their way to the detector.                   *)
LEMMA RealWhenMore ==
  ASSUME NEW T, NEW c \in Nat, NEW d, NEW S, RealUpTo(T, c, d, S), NEW R,
         \A e \in R : e \in S \/ (Dated(e, T) /\ e.time \in Nat /\ (e.type = "BookDelta" => c <= e.time))
  PROVE  RealUpTo(T, c, d, R)
<1>1. PICK D : Real(T, D, c, d, S)
  BY DEF RealUpTo
<1>2. D \in 0..c
  BY <1>1 DEF Real
<1>3. ASSUME NEW e \in R, e.type = "BookDelta", e.id \notin Range(d.seenDepth)
      PROVE  D <= e.time
  <2>1. CASE e \in S
    BY <1>1, <1>3, <2>1 DEF Real
  <2>2. CASE e.time \in Nat /\ c <= e.time
    BY <1>2, <2>2
  <2> QED BY <1>3, <2>1, <2>2
<1>4. \A e \in R : Dated(e, T)
  BY <1>1 DEF Real
<1>5. Real(T, D, c, d, R)
  BY <1>1, <1>3, <1>4 DEF Real
<1> QED BY <1>5 DEF RealUpTo

(* The event is delivered as it was on its way.                              *)
LEMMA RealWhenArrives ==
  ASSUME NEW T, NEW c, NEW d, NEW S, RealUpTo(T, c, d, S), NEW g, NEW e, NEW C, NEW C1,
         Arrives(g, e, C, C1), IsEvent(g), g \in S, NEW R, R \subseteq S \cup {e}
  PROVE  RealUpTo(T, c, d, R)
<1>1. PICK D : Real(T, D, c, d, S)
  BY DEF RealUpTo
<1>2. e.type = g.type /\ e.time = g.time
  BY ArrivesLike
<1>3. Dated(g, T)
  BY <1>1 DEF Real
<1>4. Dated(e, T) /\ e.id = g.id
  BY <1>3, DatedWhenArrives
<1>5. \A f \in R : Dated(f, T)
  BY <1>1, <1>4 DEF Real
<1>6. \A f \in R : f.type = "BookDelta" /\ f.id \notin Range(d.seenDepth) => D <= f.time
  BY <1>1, <1>2, <1>4 DEF Real
<1>7. Real(T, D, c, d, R)
  BY <1>1, <1>5, <1>6 DEF Real
<1> QED BY <1>7 DEF RealUpTo

(* ingest, of what does not interrupt the detector.                          *)
LEMMA RealAfterIngest ==
  ASSUME MarketOK, NEW ledger, IsLedger(ledger), NEW d, NEW C, NEW reports,
         NEW uninterrupted \in BOOLEAN,
         Good(d, d.buffer, C, uninterrupted, reports, ledger), Len(d.buffer) <= MaxReorderEvents,
         NEW g, NEW e, NEW C1, Arrives(g, e, C, C1), ~Interrupts(e),
         g.type = "Trade" => Paid(g, ledger), NEW sense,
         NEW T, IsTimeline(T), NEW c, c = Now, RealUpTo(T, c, d, Range(d.buffer) \cup C)
  PROVE  LET x == Ingest(d, e, sense)
         IN RealUpTo(T, c, x, Range(x.buffer) \cup C1)
<1> DEFINE d0 == [d EXCEPT !.latest = IF @ < e.time THEN e.time ELSE @]
           d1 == MakeRoom(d0, sense)
           d2 == [d1 EXCEPT !.buffer = InsertSorted(@, e)]
           x == Ingest(d, e, sense)
           G(y, s, D) == Good(y, s, D, uninterrupted, reports, ledger)
<1>1. x = Drain(d2, sense)
  BY DEF Ingest
<1>2. /\ DOMAIN d0 = Fields /\ d0.quality = d.quality /\ d0.nextId = d.nextId
      /\ d0.seenTrades = d.seenTrades /\ d0.seenDepth = d.seenDepth
      /\ d0.events = d.events /\ d0.levels = d.levels /\ d0.episodes = d.episodes
      /\ d0.buffer = d.buffer /\ d.quality \in Qualities /\ d0.late = d.late
  BY DEF Good, Sound, IsDetector, Fields
<1> HIDE DEF d0
<1>3. /\ G(d0, d0.buffer, C) /\ RealUpTo(T, c, d0, Range(d0.buffer) \cup C)
      /\ OnTime(Range(d0.buffer), c) /\ c \in Nat
  <2>1. RealUpTo(T, c, d0, Range(d.buffer) \cup C)
    BY <1>2, ShedsWhenSame, RealWhenShed
  <2>2. G(d0, d.buffer, C)
    BY <1>2, GoodWhenSame
  <2>3. OnTime(Range(d.buffer), c) /\ c \in Nat
    BY EventsOnTime DEF Good, Ahead
  <2> QED BY <1>2, <2>1, <2>2, <2>3
<1>4. /\ G(d1, d1.buffer, C) /\ RealUpTo(T, c, d1, Range(d1.buffer) \cup C)
      /\ OnTime(Range(d1.buffer), c)
  <2>1. Len(d0.buffer) <= MaxReorderEvents
    BY <1>2
  <2>2. G(d1, d1.buffer, C)
    BY <1>3, <2>1, GoodAfterRoom
  <2>3. RealUpTo(T, c, d1, Range(d1.buffer) \cup C)
    <3>1. PICK y : y = d1
      OBVIOUS
    <3>2. Good(d0, d0.buffer, C, uninterrupted, reports, ledger) /\ y = MakeRoom(d0, sense)
      BY <1>3, <3>1
    <3>3. RealUpTo(T, c, d0, Range(d0.buffer) \cup C) /\ OnTime(Range(d0.buffer), c) /\ c \in Nat
      BY <1>3
    <3> HIDE DEF G, d1
    <3>4. RealUpTo(T, c, y, Range(y.buffer) \cup C)
      BY <3>2, <3>3, RealAfterRoom
    <3> QED BY <3>1, <3>4
  <2> HIDE DEF d1
  <2>4. OnTime(Range(d1.buffer), c)
    BY <2>2, EventsOnTime DEF Good, Ahead
  <2> QED BY <2>2, <2>3, <2>4
<1> HIDE DEF d1
<1> DEFINE B == InsertSorted(d1.buffer, e)
<1>5. /\ DOMAIN d2 = Fields /\ d2.quality \in Qualities /\ d2.nextId = d1.nextId
      /\ d2.seenTrades = d1.seenTrades /\ d2.seenDepth = d1.seenDepth
      /\ d2.events = d1.events /\ d2.levels = d1.levels /\ d2.episodes = d1.episodes
      /\ d2.buffer = B /\ d2.late = d1.late
  BY <1>4 DEF Good, Sound, IsDetector, Fields
<1> HIDE DEF d2, x
<1>6. IsEvent(g) /\ IsEvent(e) /\ g \in C /\ C1 \subseteq C
  <2>1. IsEvent(g) /\ g \in C /\ C1 \subseteq C
    BY DEF Arrives, Good, Ahead
  <2> QED BY <2>1, ArrivesLike
<1>7. Range(B) = Range(d1.buffer) \cup {e}
  <2> DEFINE b == d1.buffer
             S == Range(b) \cup {e}
  <2>1. /\ b \in Seq(Range(b)) /\ \A f \in S : f.time \in Nat
        /\ \A i, j \in 1..Len(b) : i <= j => b[i].time <= b[j].time
    BY <1>4, <1>6 DEF Good, Ahead, IsEvent
  <2> HIDE DEF b
  <2>2. b \in Seq(S) /\ e \in S
    BY <2>1
  <2> HIDE DEF S
  <2>3. Range(InsertSorted(b, e)) = Range(b) \cup {e}
    BY <2>1, <2>2, InsertedOf
  <2> QED BY <2>3 DEF b
<1>8. G(d1, B, C1)
  BY <1>4, GoodAfterInsert
<1> HIDE DEF B
<1>9. /\ G(d2, d2.buffer, C1) /\ OnTime(Range(d2.buffer), c)
      /\ RealUpTo(T, c, d2, Range(d2.buffer) \cup C1)
  <2>1. G(d2, B, C1)
    BY <1>5, <1>8, GoodWhenSame
  <2>2. RealUpTo(T, c, d1, Range(B) \cup C1)
    <3>1. Range(B) \cup C1 \subseteq (Range(d1.buffer) \cup C) \cup {e} /\ g \in Range(d1.buffer) \cup C
      BY <1>6, <1>7
    <3> QED BY <1>4, <1>6, <3>1, RealWhenArrives
  <2>3. RealUpTo(T, c, d2, Range(B) \cup C1)
    BY <1>5, <2>2, ShedsWhenSame, RealWhenShed
  <2>4. OnTime(Range(B), c)
    BY <1>8, EventsOnTime DEF Good, Ahead
  <2> QED BY <1>5, <2>1, <2>3, <2>4
<1> DEFINE watermark == Floor(d2.latest - ReorderWindow)
           ready == {i \in 1..Len(d2.buffer) : d2.buffer[i].time <= watermark}
           n == Max({0} \cup ready)
<1>10. x = ProcessFirst(d2, n, sense)
  BY <1>1 DEF Drain
<1>11. n \in 0..Len(d2.buffer)
  <2>1. Len(d2.buffer) \in Nat
    BY <1>9 DEF Good, Ahead
  <2> DEFINE K == {0} \cup ready
  <2>2. K # {} /\ K \subseteq 0..Len(d2.buffer)
    BY <2>1
  <2> HIDE DEF ready
  <2>3. \E m \in K : \A y \in K : m >= y
    <3> HIDE DEF K
    <3> QED BY <2>1, <2>2, GreatestNat
  <2>4. n \in K
    BY <2>3 DEF Max
  <2> QED BY <2>2, <2>4
<1> HIDE DEF n
<1>12. RealUpTo(T, c, x, Range(x.buffer) \cup C1)
  BY <1>3, <1>9, <1>10, <1>11, RealAfterFirst
<1> QED BY <1>12 DEF x

(* invalidate_all *)
LEMMA RealAfterInterrupt ==
  ASSUME NEW T, NEW c, NEW d, NEW S, RealUpTo(T, c, d, S), DOMAIN d = Fields, NEW quality,
         NEW C, C \subseteq S
  PROVE  LET x == InvalidateAll(d, quality)
         IN RealUpTo(T, c, x, Range(x.buffer) \cup C)
<1> DEFINE x == InvalidateAll(d, quality)
<1>1. Sheds(d, x) /\ x.buffer = <<>> /\ x.seenDepth = d.seenDepth
  BY InvalidateSheds
<1> HIDE DEF x
<1>2. Range(x.buffer) = {}
  BY <1>1 DEF Range
<1>3. RealUpTo(T, c, x, Range(x.buffer) \cup C)
  BY <1>1, <1>2, RealWhenShed
<1> QED BY <1>3 DEF x

(* A detector that knows nothing yet. *)
LEMMA RealWhenNew ==
  ASSUME NEW T, NEW c \in Nat, NEW C,
         \A e \in C : Dated(e, T) /\ (e.type = "BookDelta" => e.time \in Nat)
  PROVE  RealUpTo(T, c, NewDetector, Range(NewDetector.buffer) \cup C)
<1> DEFINE x == NewDetector
<1>1. /\ x.levels = NoLevels /\ x.events = <<>> /\ x.buffer = <<>>
      /\ x.late = [k \in Key |-> 0]
  BY DEF NewDetector
<1> HIDE DEF x
<1>2. DOMAIN x.levels = {} /\ Range(x.events) = {} /\ Range(x.buffer) = {}
  BY <1>1 DEF NoLevels, Range
<1>3. Backed(T, 0, c, x)
  BY <1>1, <1>2 DEF Backed
<1>4. Real(T, 0, c, x, Range(x.buffer) \cup C)
  BY <1>2, <1>3 DEF Real
<1> QED BY <1>4 DEF RealUpTo, x

(* Time has passed.                                                          *)
LEMMA RealLater ==
  ASSUME NEW T, IsTimeline(T), NEW c \in Nat, NEW b \in Nat, c <= b, NEW d, IsDetector(d), NEW S,
         RealUpTo(T, c, d, S)
  PROVE  RealUpTo(T, b, d, S)
<1>1. PICK D : Real(T, D, c, d, S)
  BY DEF RealUpTo
<1>2. Backed(T, D, b, d)
  BY <1>1, BackedLater DEF Real
<1>3. D \in 0..b
  BY <1>1 DEF Real
<1>4. Real(T, D, b, d, S)
  BY <1>1, <1>2, <1>3 DEF Real
<1> QED BY <1>4 DEF RealUpTo

(* Two timelines, the same before the time c. *)
Agree(T, U, c) ==
    \A n \in Nat : n < c => /\ U.book[n] = T.book[n] /\ U.executed[n] = T.executed[n]
                            /\ U.added[n] = T.added[n]

(* An event of before c cannot tell them apart. *)
Before(e, c) == e.time \in Nat \ {0} /\ (e.type \in {"Trade", "BookDelta"} => e.time < c)

(* Timelines that agree before a time date the events before it alike. *)
LEMMA DatedWhenAgree ==
  ASSUME NEW T, NEW U, NEW c \in Nat, Agree(T, U, c), NEW e, Before(e, c), Dated(e, T)
  PROVE  Dated(e, U)
<1>1. CASE e.type \in {"Trade", "BookDelta"}
  <2>1. e.time \in Nat /\ e.time - 1 \in Nat /\ e.time < c /\ e.time - 1 < c
    BY <1>1 DEF Before
  <2> QED BY <2>1 DEF Agree, Dated
<1>2. CASE e.type \notin {"Trade", "BookDelta"}
  BY <1>2 DEF Dated
<1> QED BY <1>1, <1>2

(* What is of a time before c does not tell them apart.                      *)
LEMMA RealWhenAgree ==
  ASSUME NEW T, NEW U, NEW c \in Nat, Agree(T, U, c), NEW b \in Nat, b < c, NEW d, IsDetector(d),
         NEW S, RealUpTo(T, b, d, S), \A e \in S : Before(e, c)
  PROVE  RealUpTo(U, b, d, S)
<1>1. \A n \in 0..b : U.book[n] = T.book[n] /\ U.executed[n] = T.executed[n] /\ U.added[n] = T.added[n]
  <2>1. \A n \in 0..b : n \in Nat /\ n < c
    OBVIOUS
  <2> QED BY <2>1 DEF Agree
<1>2. PICK D : Real(T, D, b, d, S)
  BY DEF RealUpTo
<1>3. D \in 0..b /\ b \in 0..b
  BY <1>2 DEF Real
<1>4. ASSUME NEW k \in DOMAIN d.levels
      PROVE  d.levels[k].at \in 0..b /\ KeyBacked(U, D, d, k)
  <2>1. d.levels[k].at \in 0..b /\ KeyBacked(T, D, d, k)
    BY <1>2 DEF Real, Backed
  <2>2. PICK n \in 0..D, paid \in Nat, spare \in Nat : KeyBackedBy(T, d, k, n, paid, spare)
    BY <2>1 DEF KeyBacked
  <2>3. n \in 0..b /\ \A m \in 0..n : m \in 0..b
    BY <1>3
  <2>4. LevelBacked(U, k, d.levels[k], n, spare)
    BY <1>1, <2>1, <2>2, <2>3 DEF KeyBackedBy, LevelBacked
  <2>5. ASSUME k \in DOMAIN d.episodes
        PROVE  EpisodeBacked(U, k, d.episodes[k], n, paid, d.levels[k].pending)
    <3>1. EpisodeBacked(T, k, d.episodes[k], n, paid, d.levels[k].pending)
      BY <2>2, <2>5 DEF KeyBackedBy
    <3> QED BY <1>1, <2>3, <3>1 DEF EpisodeBacked
  <2>6. KeyBackedBy(U, d, k, n, paid, spare)
    BY <2>2, <2>4, <2>5 DEF KeyBackedBy
  <2> QED BY <2>1, <2>6 DEF KeyBacked
<1>5. \A a \in Range(d.events) : EventBacked(U, b, d.late, a)
  BY <1>1, <1>2, <1>3 DEF Real, Backed, EventBacked, Shown
<1>6. Backed(U, D, b, d)
  BY <1>2, <1>4, <1>5 DEF Real, Backed
<1>7. \A e \in S : Dated(e, U)
  BY <1>2, DatedWhenAgree DEF Real
<1>8. Real(U, D, b, d, S)
  BY <1>2, <1>6, <1>7 DEF Real
<1> QED BY <1>8 DEF RealUpTo

--------------------------------------------------------------------------------
(* The timeline and the market, the channels and the engine. *)

OnTheWay == Range(Engine.buffer) \cup InChannels

TimelineOK(T) ==
    /\ IsTimeline(T)
    /\ \A n \in Nat, k \in Key : T.added[n][k] <= moved[k].added
    /\ \A n \in Nat : clock <= n => T.book[n] = Book

RInv == \E T : TimelineOK(T) /\ RealUpTo(T, Now, Engine, OnTheWay)

(* What the exchange or a socket has just sent, but a trade. *)
Fresh(e) ==
    /\ e.type # "Trade" /\ e.time \in {clock, Local}
    /\ e.type = "BookDelta" => e.time = clock /\ \A k \in DOMAIN e.levels : e.levels[k] = Book[k]

(* What the market sends now is of this moment.                              *)
LEMMA FreshIsDated ==
  ASSUME MarketOK, NEW T, TimelineOK(T), NEW e, Fresh(e)
  PROVE  Dated(e, T) /\ e.time \in Nat /\ (e.type = "BookDelta" => Now <= e.time)
<1>1. clock \in Nat \ {0} /\ Skew \in Nat /\ Local = clock + Skew
  BY FeedAssumption DEF MarketOK, Local
<1>2. e.time \in Nat /\ (e.type = "BookDelta" => Now <= e.time)
  BY <1>1 DEF Fresh, Now
<1>3. T.book[clock] = Book
  BY <1>1 DEF TimelineOK
<1>4. Dated(e, T)
  BY <1>3 DEF Fresh, Dated
<1> QED BY <1>2, <1>4

(* Nothing happens to the book or to the engine.                             *)
LEMMA RealStays ==
  ASSUME IInv, RInv, UNCHANGED <<clock, hist, moved>>, Engine' = Engine,
         phase' = phase \/ phase' = "closed", \A e \in InChannels' : e \in InChannels \/ Fresh(e)
  PROVE  RInv'
<1>1. PICK T : TimelineOK(T) /\ RealUpTo(T, Now, Engine, OnTheWay)
  BY DEF RInv
<1>2. PICK c, b, S, R, d : c = Now /\ b = Now' /\ S = OnTheWay /\ R = OnTheWay' /\ d = Engine
  OBVIOUS
<1>3. MarketOK /\ IsDetector(d) /\ IsTimeline(T)
  BY <1>1, <1>2, EngineIsSound DEF IInv, TimelineOK
<1>4. c \in Nat /\ b \in Nat /\ c <= b
  BY <1>2, <1>3 DEF MarketOK, Now
<1>5. \A e \in R : e \in S \/ Fresh(e)
  BY <1>2 DEF OnTheWay
<1>6. \A e \in R : e \in S \/ (Dated(e, T) /\ e.time \in Nat /\ (e.type = "BookDelta" => c <= e.time))
  BY <1>1, <1>2, <1>3, <1>5, FreshIsDated
<1>7. RealUpTo(T, c, d, R)
  BY <1>1, <1>2, <1>4, <1>6, RealWhenMore
<1>8. RealUpTo(T, b, d, R)
  BY <1>3, <1>4, <1>7, RealLater
<1>9. RealUpTo(T, Now, Engine, OnTheWay)'
  BY <1>2, <1>8
<1>10. TimelineOK(T)'
  BY <1>1 DEF TimelineOK, Book
<1> QED BY <1>9, <1>10 DEF RInv

(* Time passes.                                                              *)
LEMMA RealAfterTick ==
  ASSUME IInv, RInv, Tick
  PROVE  RInv'
<1>1. PICK T : TimelineOK(T) /\ RealUpTo(T, Now, Engine, OnTheWay)
  BY DEF RInv
<1>2. /\ clock \in Nat \ {0} /\ clock' = clock + 1 /\ phase' = "open"
      /\ UNCHANGED <<hist, moved, depthCh, tradeCh>> /\ Engine' = Engine
  BY DEF IInv, MarketOK, Tick, sockets, registry, Engine
<1>3. PICK t, c, b, d, S : t = clock /\ c = Now /\ b = Now' /\ d = Engine /\ S = OnTheWay
  OBVIOUS
<1>4. c \in Nat /\ b \in Nat /\ c <= b /\ IsDetector(d) /\ IsTimeline(T)
  <2>1. b = (t + 1) - 1
    BY <1>2, <1>3 DEF Now
  <2>2. c = t \/ c = t - 1
    BY <1>3 DEF Now
  <2> QED BY <1>1, <1>2, <1>3, <2>1, <2>2, EngineIsSound DEF TimelineOK
<1>5. RealUpTo(T, b, d, S)
  BY <1>1, <1>3, <1>4, RealLater
<1>6. RealUpTo(T, Now, Engine, OnTheWay)'
  <2>1. OnTheWay' = S /\ Engine' = d
    BY <1>2, <1>3 DEF OnTheWay, InChannels
  <2> QED BY <1>3, <1>5, <2>1
<1>7. TimelineOK(T)'
  <2>1. \A n \in Nat : t + 1 <= n => T.book[n] = Book
    BY <1>1, <1>2, <1>3 DEF TimelineOK
  <2> QED BY <1>1, <1>2, <1>3, <2>1 DEF TimelineOK, Book
<1> QED BY <1>6, <1>7 DEF RInv

(* U is T, but that at the time c what is sold has left the book and what is placed *)
(* has joined it.                                                                   *)
Grows(T, U, c, book, sold, placed) ==
    /\ Agree(T, U, c)
    /\ \A n \in Nat : c <= n =>
          /\ U.book[n] = book
          /\ \A k \in Key : /\ U.executed[n][k] = T.executed[c][k] + sold[k]
                            /\ U.added[n][k] = T.added[c][k] + placed[k]

Balanced(old, book, sold, placed) == \A k \in Key : book[k] + sold[k] <= old[k] + placed[k]

(* There is such a timeline.                                                 *)
LEMMA TimelineGrows ==
  ASSUME NEW T, IsTimeline(T), NEW c \in Nat, NEW old \in [Key -> Nat], NEW book \in [Key -> Nat],
         T.book[c] = old, NEW sold \in [Key -> Nat], NEW placed \in [Key -> Nat],
         Balanced(old, book, sold, placed)
  PROVE  \E U : IsTimeline(U) /\ Grows(T, U, c, book, sold, placed)
<1> DEFINE exe == [k \in Key |-> T.executed[c][k] + sold[k]]
           add == [k \in Key |-> T.added[c][k] + placed[k]]
           since(f, row) == [n \in Nat |-> IF n < c THEN f[n] ELSE row]
           U == [book |-> since(T.book, book), executed |-> since(T.executed, exe),
                 added |-> since(T.added, add)]
<1>1. /\ T.book \in [Nat -> [Key -> Nat]] /\ T.executed \in [Nat -> [Key -> Nat]]
      /\ T.added \in [Nat -> [Key -> Nat]]
      /\ \A n \in Nat, k \in Key : {T.executed[n][k], T.added[n][k], T.book[n][k]} \subseteq Nat
      /\ \A m, n \in Nat, k \in Key :
            m <= n => T.executed[m][k] <= T.executed[n][k] /\ T.added[m][k] <= T.added[n][k]
  <2>1. /\ T.book \in [Nat -> [Key -> Nat]] /\ T.executed \in [Nat -> [Key -> Nat]]
        /\ T.added \in [Nat -> [Key -> Nat]]
    BY DEF IsTimeline, IsLedger, Rows
  <2> HIDE DEF exe, add, since, U
  <2> QED BY <2>1, TimelineCounts
<1>2. ASSUME NEW k \in Key
      PROVE  /\ T.executed[c][k] + sold[k] \in Nat /\ T.executed[c][k] <= T.executed[c][k] + sold[k]
             /\ T.added[c][k] + placed[k] \in Nat /\ T.added[c][k] <= T.added[c][k] + placed[k]
  <2>1. {T.executed[c][k], T.added[c][k], sold[k], placed[k]} \subseteq Nat
    BY <1>1
  <2> QED BY <2>1
<1>3. /\ exe \in [Key -> Nat] /\ add \in [Key -> Nat]
      /\ \A k \in Key : /\ exe[k] = T.executed[c][k] + sold[k] /\ add[k] = T.added[c][k] + placed[k]
                        /\ T.executed[c][k] <= exe[k] /\ T.added[c][k] <= add[k]
                        /\ exe[k] \in Nat /\ add[k] \in Nat
  BY <1>2
<1> HIDE DEF exe, add
<1>4. /\ U.book \in [Nat -> [Key -> Nat]] /\ U.executed \in [Nat -> [Key -> Nat]]
      /\ U.added \in [Nat -> [Key -> Nat]]
      /\ \A n \in Nat : IF n < c
                        THEN /\ U.book[n] = T.book[n] /\ U.executed[n] = T.executed[n]
                             /\ U.added[n] = T.added[n]
                        ELSE U.book[n] = book /\ U.executed[n] = exe /\ U.added[n] = add
  BY <1>1, <1>3
<1> HIDE DEF U, since
<1>5. ASSUME NEW s \in Nat, NEW t \in Nat, s <= t, NEW k \in Key
      PROVE  /\ U.executed[s][k] <= U.executed[t][k] /\ U.added[s][k] <= U.added[t][k]
             /\ U.book[t][k] + U.executed[t][k] + U.added[s][k]
                  <= U.book[s][k] + U.executed[s][k] + U.added[t][k]
  <2>1. CASE t < c
    <3>1. /\ U.book[s] = T.book[s] /\ U.executed[s] = T.executed[s] /\ U.added[s] = T.added[s]
          /\ U.book[t] = T.book[t] /\ U.executed[t] = T.executed[t] /\ U.added[t] = T.added[t]
      <4>1. s < c
        BY <1>5, <2>1
      <4> QED BY <1>4, <2>1, <4>1
    <3> QED BY <1>1, <1>5, <3>1 DEF IsTimeline, Falls
  <2>2. CASE s < c /\ ~(t < c)
    <3>1. /\ U.book[s] = T.book[s] /\ U.executed[s] = T.executed[s] /\ U.added[s] = T.added[s]
          /\ U.book[t] = book /\ U.executed[t] = exe /\ U.added[t] = add
      BY <1>4, <2>2
    <3>2. /\ T.executed[s][k] <= T.executed[c][k] /\ T.added[s][k] <= T.added[c][k]
          /\ T.book[c][k] + T.executed[c][k] + T.added[s][k]
               <= T.book[s][k] + T.executed[s][k] + T.added[c][k]
      <4>1. s <= c
        BY <2>2
      <4> QED BY <1>1, <4>1 DEF IsTimeline, Falls
    <3>3. {T.executed[s][k], T.added[s][k], T.book[s][k], T.executed[c][k], T.added[c][k],
           T.book[c][k]} \subseteq Nat
      BY TimelineCounts
    <3>4. book[k] \in Nat /\ sold[k] \in Nat /\ placed[k] \in Nat
      OBVIOUS
    <3>5. book[k] + sold[k] <= T.book[c][k] + placed[k]
      BY DEF Balanced
    <3>6. exe[k] = T.executed[c][k] + sold[k] /\ add[k] = T.added[c][k] + placed[k]
      BY <1>3
    <3> QED BY <3>1, <3>2, <3>3, <3>4, <3>5, <3>6
  <2>3. CASE ~(s < c)
    <3>1. /\ U.book[s] = book /\ U.executed[s] = exe /\ U.added[s] = add
          /\ U.book[t] = book /\ U.executed[t] = exe /\ U.added[t] = add
      <4>1. ~(t < c)
        BY <1>5, <2>3
      <4> QED BY <1>4, <2>3, <4>1
    <3>2. exe[k] \in Nat /\ add[k] \in Nat /\ book[k] \in Nat
      BY <1>3
    <3> QED BY <3>1, <3>2
  <2> QED BY <2>1, <2>2, <2>3
<1>6. IsTimeline(U)
  BY <1>4, <1>5 DEF IsTimeline, IsLedger, Rows, Falls
<1>7. Agree(T, U, c)
  BY <1>4 DEF Agree
<1>8. ASSUME NEW n \in Nat, c <= n
      PROVE  /\ U.book[n] = book
             /\ \A k \in Key : /\ U.executed[n][k] = T.executed[c][k] + sold[k]
                               /\ U.added[n][k] = T.added[c][k] + placed[k]
  <2>1. ~(n < c)
    BY <1>8
  <2>2. U.book[n] = book /\ U.executed[n] = exe /\ U.added[n] = add
    BY <1>4, <2>1
  <2> QED BY <1>3, <2>2
<1> QED BY <1>6, <1>7, <1>8 DEF Grows

(* Before the book changes in this instant, all that was said of it is older. *)
LEMMA BeforeWhenOpen ==
  ASSUME phase = "open", NEW c \in Nat, c = clock, NEW e, IsEvent(e)
  PROVE  Before(e, c)
<1>1. e.type = "Trade" => e.time <= c /\ e.time # c
  BY DEF IsEvent, IsTrade
<1>2. e.type = "BookDelta" => e.time <= c /\ e.time # c
  BY DEF IsEvent, IsDelta
<1>3. PICK t : t = e.time
  OBVIOUS
<1>4. t \in Nat \ {0} /\ (t <= c /\ t # c => t < c)
  <2>1. t \in Nat \ {0}
    BY <1>3 DEF IsEvent
  <2> QED BY <2>1
<1> QED BY <1>1, <1>2, <1>3, <1>4 DEF Before

(* The book changes.                                                         *)
LEMMA RealAfterChange ==
  ASSUME IInv, RInv, phase = "open", phase' = "changed", UNCHANGED clock, Engine' = Engine,
         NEW book \in [Key -> Nat], Book' = book,
         NEW sold \in [Key -> Nat], NEW placed \in [Key -> Nat],
         \A k \in Key : /\ book[k] + sold[k] <= Book[k] + placed[k]
                        /\ moved'[k].added = moved[k].added + placed[k],
         \A e \in InChannels' :
            \/ e \in InChannels
            \/ /\ e.type = "Trade" /\ e.time = clock /\ e.key \in Key /\ e.qty = sold[e.key]
  PROVE  RInv'
<1>1. PICK T : TimelineOK(T) /\ RealUpTo(T, Now, Engine, OnTheWay)
  BY DEF RInv
<1>2. PICK c \in Nat : c = clock /\ c > 0
  BY DEF IInv, MarketOK
<1>3. PICK old : old = Book
  OBVIOUS
<1>4. old \in [Key -> Nat] /\ T.book[c] = old /\ IsTimeline(T)
  BY <1>1, <1>2, <1>3 DEF IInv, MarketOK, Book, TimelineOK
<1>5. Balanced(old, book, sold, placed)
  BY <1>3 DEF Balanced
<1>0. PICK U : IsTimeline(U) /\ Grows(T, U, c, book, sold, placed)
  BY <1>4, <1>5, TimelineGrows
<1>6. /\ IsTimeline(U) /\ Agree(T, U, c)
      /\ \A n \in Nat : c <= n =>
            /\ U.book[n] = book
            /\ \A k \in Key : /\ U.executed[n][k] = T.executed[c][k] + sold[k]
                              /\ U.added[n][k] = T.added[c][k] + placed[k]
  BY <1>0 DEF Grows
<1>7. TimelineOK(U)'
  <2>1. ASSUME NEW n \in Nat, NEW k \in Key
        PROVE  U.added[n][k] <= moved'[k].added
    <3>1. /\ moved'[k].added = moved[k].added + placed[k] /\ moved[k].added \in Nat /\ placed[k] \in Nat
          /\ T.added[n][k] <= moved[k].added /\ T.added[c][k] <= moved[k].added
          /\ T.added[n][k] \in Nat /\ T.added[c][k] \in Nat
      BY <1>1, <1>2, <1>4, TimelineCounts DEF IInv, MarketOK, TimelineOK
    <3>2. CASE n < c
      <4>1. U.added[n][k] = T.added[n][k]
        BY <1>6, <3>2 DEF Agree
      <4> QED BY <3>1, <4>1
    <3>3. CASE ~(n < c)
      <4>1. U.added[n][k] = T.added[c][k] + placed[k]
        BY <1>6, <3>3
      <4> QED BY <3>1, <4>1
    <3> QED BY <3>2, <3>3
  <2> QED BY <1>2, <1>6, <2>1 DEF TimelineOK
<1>8. PICK d, S, R, b : d = Engine /\ S = OnTheWay /\ R = OnTheWay' /\ b = Now
  OBVIOUS
<1>9. b \in Nat /\ b < c /\ b <= c /\ Now' = c
  BY <1>2, <1>8 DEF Now
<1>10. IsDetector(d) /\ \A e \in S : Before(e, c)
  <2>1. PICK ledger : EngineOK(ledger)
    BY DEF IInv
  <2>2. \A e \in S : IsEvent(e)
    BY <1>8, <2>1 DEF EngineOK, Good, Ahead, OnTheWay
  <2>3. IsDetector(d)
    BY <1>8, EngineIsSound
  <2> QED BY <1>2, <2>2, <2>3, BeforeWhenOpen
<1>11. RealUpTo(U, c, d, S)
  <2>1. RealUpTo(U, b, d, S)
    BY <1>1, <1>6, <1>8, <1>9, <1>10, RealWhenAgree
  <2> QED BY <1>6, <1>9, <1>10, <2>1, RealLater
<1>12. ASSUME NEW e \in R
       PROVE  e \in S \/ (Dated(e, U) /\ e.time \in Nat /\ (e.type = "BookDelta" => c <= e.time))
  <2>1. CASE e \in InChannels \/ e \in Range(Engine.buffer)
    BY <1>8, <2>1 DEF OnTheWay
  <2>2. CASE e.type = "Trade" /\ e.time = clock /\ e.key \in Key /\ e.qty = sold[e.key]
    <3>1. /\ c - 1 \in Nat /\ c - 1 < c /\ U.executed[c][e.key] = T.executed[c][e.key] + sold[e.key]
          /\ U.executed[c - 1][e.key] = T.executed[c - 1][e.key]
      BY <1>2, <1>6, <2>2 DEF Agree
    <3>2. /\ T.executed[c - 1][e.key] <= T.executed[c][e.key]
          /\ {T.executed[c - 1][e.key], T.executed[c][e.key], sold[e.key]} \subseteq Nat
      <4>1. c - 1 \in Nat /\ c - 1 <= c
        BY <1>2
      <4> QED BY <1>4, <2>2, <4>1, TimelineCounts
    <3>3. U.executed[e.time - 1][e.key] + e.qty <= U.executed[e.time][e.key]
      BY <1>2, <2>2, <3>1, <3>2
    <3> QED BY <1>2, <2>2, <3>3 DEF Dated
  <2> QED BY <1>8, <1>12, <2>1, <2>2 DEF OnTheWay
<1>13. RealUpTo(U, c, d, R)
  BY <1>11, <1>12, RealWhenMore
<1>14. RealUpTo(U, Now, Engine, OnTheWay)'
  BY <1>8, <1>9, <1>13
<1> QED BY <1>7, <1>14 DEF RInv

(* A channel, with one event more, and with its last events lost. *)
LEMMA RangeOfAppend ==
  ASSUME NEW ch, ch \in Seq(Range(ch)), NEW e
  PROVE  Range(Append(ch, e)) \subseteq Range(ch) \cup {e}
         /\ Append(ch, e) \in Seq(Range(Append(ch, e)))
<1>1. PICK t : t = Append(ch, e)
  OBVIOUS
<1>2. ch \in Seq(Range(ch) \cup {e})
  OBVIOUS
<1>3. t \in Seq(Range(ch) \cup {e})
  BY <1>1, <1>2
<1>4. Range(t) = {t[i] : i \in 1..Len(t)} /\ t \in Seq(Range(t))
  BY <1>3, InOwnRange
<1>5. \A i \in 1..Len(t) : t[i] \in Range(ch) \cup {e}
  BY <1>3
<1> QED BY <1>1, <1>4, <1>5

(* The first elements of a channel are elements of it. *)
LEMMA FirstOf ==
  ASSUME NEW S, NEW s \in Seq(S), NEW n \in 0..Len(s)
  PROVE  LET t == SubSeq(s, 1, n)
         IN t \in Seq(S) /\ Len(t) = n /\ \A i \in 1..n : t[i] = s[i] /\ i \in 1..Len(s)
<1> DEFINE t == SubSeq(s, 1, n)
<1>1. Len(s) \in Nat /\ n \in Nat /\ n <= Len(s)
  OBVIOUS
<1>2. t = [i \in 1..n |-> s[i]]
  <2>1. t = [i \in 1..((n - 1) + 1) |-> s[(i + 1) - 1]]
    OBVIOUS
  <2>2. (n - 1) + 1 = n /\ \A i \in 1..n : (i + 1) - 1 = i
    BY <1>1
  <2> QED BY <2>1, <2>2, Zenon
<1> HIDE DEF t
<1>3. \A i \in 1..n : i \in 1..Len(s) /\ s[i] \in S
  BY <1>1
<1>4. t \in Seq(S) /\ Len(t) = n
  BY <1>1, <1>2, <1>3
<1> QED BY <1>2, <1>3, <1>4

LEMMA RangeOfFirst ==
  ASSUME NEW ch, ch \in Seq(Range(ch)), NEW n \in 0..Len(ch)
  PROVE  Range(SubSeq(ch, 1, n)) \subseteq Range(ch)
         /\ SubSeq(ch, 1, n) \in Seq(Range(SubSeq(ch, 1, n)))
<1>1. PICK t : t = SubSeq(ch, 1, n)
  OBVIOUS
<1>2. t \in Seq(Range(ch)) /\ Len(t) = n /\ \A i \in 1..n : t[i] = ch[i] /\ i \in 1..Len(ch)
  BY <1>1, FirstOf
<1>3. Range(t) = {t[i] : i \in 1..Len(t)} /\ t \in Seq(Range(t))
  BY <1>2, InOwnRange
<1>4. \A i \in 1..Len(ch) : ch[i] \in Range(ch)
  BY DEF Range
<1> QED BY <1>1, <1>2, <1>3, <1>4

(* The exchange changes one level of its book. *)
LEMMA BookAfterSetLevel ==
  ASSUME MarketOK, NEW key \in Key, NEW qty \in Nat, SetLevel(key, qty)
  PROVE  /\ Book' = [Book EXCEPT ![key] = qty] /\ Book \in [Key -> Nat]
         /\ [Book EXCEPT ![key] = qty] \in [Key -> Nat] /\ phase = "open"
<1>1. hist \in Seq([Key -> Nat]) /\ Len(hist) \in Nat \ {0} /\ Book \in [Key -> Nat]
  BY DEF MarketOK, Book
<1>2. PICK book : book = [Book EXCEPT ![key] = qty]
  OBVIOUS
<1>3. book \in [Key -> Nat]
  BY <1>1, <1>2
<1>4. PICK h : h = Append(hist, book)
  OBVIOUS
<1>5. h \in Seq([Key -> Nat]) /\ Len(h) = Len(hist) + 1 /\ h[Len(hist) + 1] = book
  BY <1>1, <1>3, <1>4
<1>6. hist' = h /\ phase = "open"
  BY <1>2, <1>4 DEF SetLevel
<1>7. Book' = h[Len(h)]
  BY <1>6 DEF Book
<1> QED BY <1>1, <1>2, <1>3, <1>5, <1>6, <1>7

(* A trade: what is executed leaves the book.                                *)
LEMMA RealAfterExecute ==
  ASSUME IInv, RInv, NEW key \in Key, NEW qty \in TradeSizes, Execute(key, qty)
  PROVE  RInv'
<1>1. qty \in Nat \ {0} /\ MarketOK
  BY ConstantsAreNat DEF IInv
<1>2. Book \in [Key -> Nat] /\ qty <= Book[key] /\ Book[key] \in Nat /\ Book[key] - qty \in Nat
  <2>1. Book \in [Key -> Nat] /\ qty <= Book[key]
    BY <1>1 DEF MarketOK, Book, Execute
  <2>2. Book[key] \in Nat
    BY <2>1
  <2> QED BY <1>1, <2>1, <2>2
<1>3. PICK left \in Nat : left = Book[key] - qty
  BY <1>2
<1>4. SetLevel(key, left)
  BY <1>3 DEF Execute
<1>5. PICK book : book = [Book EXCEPT ![key] = left]
  OBVIOUS
<1>6. Book' = book /\ book \in [Key -> Nat] /\ phase = "open"
  BY <1>1, <1>4, <1>5, BookAfterSetLevel
<1> DEFINE sold == [k \in Key |-> IF k = key THEN qty ELSE 0]
           placed == [k \in Key |-> 0]
<1>7. sold \in [Key -> Nat] /\ placed \in [Key -> Nat] /\ sold[key] = qty
      /\ \A k \in Key : placed[k] = 0 /\ sold[k] = IF k = key THEN qty ELSE 0
  BY <1>1
<1> HIDE DEF sold, placed
<1>8. /\ moved \in [Key -> [executed : Nat, added : Nat, cancelled : Nat]]
      /\ moved' = [moved EXCEPT ![key].executed = @ + qty]
  BY <1>1 DEF MarketOK, Execute
<1>9. ASSUME NEW k \in Key
      PROVE  /\ book[k] + sold[k] <= Book[k] + placed[k]
             /\ moved'[k].added = moved[k].added + placed[k]
  <2>1. moved'[k].added = moved[k].added /\ moved[k].added \in Nat
    BY <1>8
  <2>2. CASE k = key
    <3>1. book[k] = left /\ sold[k] = qty /\ placed[k] = 0
      BY <1>2, <1>5, <1>7, <2>2
    <3> QED BY <1>1, <1>2, <1>3, <2>1, <2>2, <3>1
  <2>3. CASE k # key
    <3>1. book[k] = Book[k] /\ sold[k] = 0 /\ placed[k] = 0 /\ Book[k] \in Nat
      BY <1>2, <1>5, <1>7, <2>3
    <3> QED BY <2>1, <3>1
  <2> QED BY <2>2, <2>3
<1>10. PICK ch, e : ch = tradeCh /\ e = Trade(key, qty)
  OBVIOUS
<1>11. e.type = "Trade" /\ e.time = clock /\ e.key = key /\ e.qty = qty
  BY <1>10 DEF Trade
<1>12. Range(tradeCh') \subseteq Range(ch) \cup {e}
  <2>1. ch \in Seq(Range(ch))
    BY <1>10 DEF IInv, SocketsOK, ChannelOK
  <2>2. tradeCh' = Append(ch, e) \/ tradeCh' = ch
    BY <1>10 DEF Execute
  <2> QED BY <2>1, <2>2, RangeOfAppend
<1>13. UNCHANGED <<clock, depthCh>> /\ Engine' = Engine /\ phase' = "changed"
  BY DEF Execute, SetLevel, registry, Engine
<1>14. ASSUME NEW f \in InChannels'
       PROVE  \/ f \in InChannels
              \/ f.type = "Trade" /\ f.time = clock /\ f.key \in Key /\ f.qty = sold[f.key]
  BY <1>7, <1>10, <1>11, <1>12, <1>13, <1>14 DEF InChannels
<1> QED BY <1>6, <1>7, <1>9, <1>13, <1>14, RealAfterChange

(* A level is quoted anew: what it grows by is added.                        *)
LEMMA RealAfterRequote ==
  ASSUME IInv, RInv, NEW key \in Key, NEW qty \in Changes, Requote(key, qty)
  PROVE  RInv'
<1>1. qty \in Nat /\ MarketOK /\ SetLevel(key, qty)
  BY ConstantsAreNat DEF IInv, Requote
<1>2. PICK book : book = [Book EXCEPT ![key] = qty]
  OBVIOUS
<1>3. Book' = book /\ book \in [Key -> Nat] /\ phase = "open" /\ Book \in [Key -> Nat]
  BY <1>1, <1>2, BookAfterSetLevel
<1>4. PICK up : up = IF qty > Book[key] THEN qty - Book[key] ELSE 0
  OBVIOUS
<1>5. up \in Nat /\ Book[key] \in Nat /\ qty <= Book[key] + up
  <2>1. Book[key] \in Nat
    BY <1>3
  <2> QED BY <1>1, <1>4, <2>1
<1> DEFINE sold == [k \in Key |-> 0]
           placed == [k \in Key |-> IF k = key THEN up ELSE 0]
<1>6. sold \in [Key -> Nat] /\ placed \in [Key -> Nat]
      /\ \A k \in Key : sold[k] = 0 /\ placed[k] = IF k = key THEN up ELSE 0
  BY <1>5
<1> HIDE DEF sold, placed
<1>7. /\ moved \in [Key -> [executed : Nat, added : Nat, cancelled : Nat]]
      /\ moved' = IF qty > Book[key] THEN [moved EXCEPT ![key].added = @ + qty - Book[key]]
                  ELSE [moved EXCEPT ![key].cancelled = @ + Book[key] - qty]
  BY <1>1 DEF MarketOK, Requote
<1>8. ASSUME NEW k \in Key
      PROVE  moved'[k].added = moved[k].added + (IF k = key THEN up ELSE 0)
  <2>1. moved[k].added \in Nat
    BY <1>7
  <2>2. CASE qty > Book[key]
    <3>1. moved' = [moved EXCEPT ![key].added = @ + qty - Book[key]] /\ up = qty - Book[key]
      BY <1>4, <1>7, <2>2
    <3>2. moved'[k].added = IF k = key THEN moved[k].added + qty - Book[key] ELSE moved[k].added
      BY <1>7, <3>1
    <3> QED BY <1>1, <1>5, <2>1, <3>1, <3>2
  <2>3. CASE ~(qty > Book[key])
    <3>1. moved' = [moved EXCEPT ![key].cancelled = @ + Book[key] - qty] /\ up = 0
      BY <1>4, <1>7, <2>3
    <3>2. moved'[k].added = moved[k].added
      BY <1>7, <3>1
    <3> QED BY <2>1, <3>1, <3>2
  <2> QED BY <2>2, <2>3
<1>9. ASSUME NEW k \in Key
      PROVE  /\ book[k] + sold[k] <= Book[k] + placed[k]
             /\ moved'[k].added = moved[k].added + placed[k]
  <2>1. CASE k = key
    <3>1. book[k] = qty /\ sold[k] = 0 /\ placed[k] = up
      BY <1>2, <1>3, <1>6, <2>1
    <3> QED BY <1>1, <1>5, <1>8, <2>1, <3>1
  <2>2. CASE k # key
    <3>1. book[k] = Book[k] /\ sold[k] = 0 /\ placed[k] = 0 /\ Book[k] \in Nat
      BY <1>2, <1>3, <1>6, <2>2
    <3> QED BY <1>8, <2>2, <3>1
  <2> QED BY <2>1, <2>2
<1>10. UNCHANGED <<clock, depthCh, tradeCh>> /\ Engine' = Engine /\ phase' = "changed"
  BY DEF Requote, SetLevel, sockets, registry, Engine
<1>11. \A e \in InChannels' : e \in InChannels
  BY <1>10 DEF InChannels
<1> QED BY <1>3, <1>6, <1>9, <1>10, <1>11, RealAfterChange

(* What the sockets say of the book and of themselves is of this moment.     *)
LEMMA FreshWhenSent ==
  ASSUME MarketOK
  PROVE  /\ Fresh(Reconnect) /\ \A quality : Fresh(Quality(quality))
         /\ \A K, boundary : Fresh(Delta([k \in K |-> Book[k]], boundary))
BY DEF Fresh, Reconnect, Quality, Delta, Local

(* The steps of the exchange and the sockets that leave the book as it is.   *)
LEMMA RealAfterEnvironment ==
  ASSUME IInv, RInv,
         \/ EmitDelta \/ DepthConnect \/ DepthBoundary \/ DepthGap \/ TradeConnect
         \/ (\E n \in 0..Len(depthCh) : DepthLost(n)) \/ (\E n \in 0..Len(tradeCh) : TradeLost(n))
         \/ (\E n \in Panes : Require(n)) \/ UNCHANGED vars
  PROVE  RInv'
<1>1. /\ MarketOK /\ UNCHANGED <<clock, hist, moved>> /\ Engine' = Engine
      /\ phase' = phase \/ phase' = "closed"
  <2>1. MarketOK
    BY DEF IInv
  <2>2. UNCHANGED <<clock, hist, moved>> /\ UNCHANGED registry
    BY DEF EmitDelta, DepthConnect, DepthBoundary, DepthGap, TradeConnect, DepthLost, TradeLost,
           Require, vars, market
  <2>3. phase' = phase \/ phase' = "closed"
    BY DEF EmitDelta, DepthConnect, DepthBoundary, DepthGap, TradeConnect, DepthLost, TradeLost,
           Require, vars, market
  <2> QED BY <2>1, <2>2, <2>3 DEF registry, Engine
<1>2. PICK dc, tc : dc = depthCh /\ tc = tradeCh
  OBVIOUS
<1>3. dc \in Seq(Range(dc)) /\ tc \in Seq(Range(tc)) /\ InChannels = Range(dc) \cup Range(tc)
  BY <1>2 DEF IInv, SocketsOK, ChannelOK, InChannels
<1>4. PICK touch, full, gone, healthy, gap, sync :
         /\ touch = Delta([k \in touched |-> Book[k]], FALSE)
         /\ full = Delta(WholeBook, TRUE) /\ gone = Reconnect
         /\ healthy = Quality("Healthy") /\ gap = Quality("Gap") /\ sync = Quality("Synchronizing")
  OBVIOUS
<1>5. Fresh(touch) /\ Fresh(full) /\ Fresh(gone) /\ Fresh(healthy) /\ Fresh(gap) /\ Fresh(sync)
  BY <1>1, <1>4, FreshWhenSent DEF WholeBook
<1>6. \/ UNCHANGED <<depthCh, tradeCh>>
      \/ /\ tradeCh' = tc
         /\ \/ \E e \in {touch, gap, sync} : depthCh' = Append(dc, e)
            \/ depthCh' = dc \o <<full, healthy>>
            \/ \E n \in 0..Len(dc) : depthCh' = Append(SubSeq(dc, 1, n), gone)
      \/ depthCh' = dc /\ \E n \in 0..Len(tc) : tradeCh' = Append(SubSeq(tc, 1, n), gone)
  <2>1. CASE EmitDelta
    BY <1>2, <1>4, <2>1 DEF EmitDelta
  <2>2. CASE DepthConnect \/ DepthGap
    BY <1>2, <1>4, <2>2 DEF DepthConnect, DepthGap
  <2>3. CASE DepthBoundary
    BY <1>2, <1>4, <2>3 DEF DepthBoundary
  <2>4. CASE \E n \in 0..Len(depthCh) : DepthLost(n)
    BY <1>2, <1>4, <2>4 DEF DepthLost
  <2>5. CASE \E n \in 0..Len(tradeCh) : TradeLost(n)
    BY <1>2, <1>4, <2>5 DEF TradeLost
  <2>6. CASE TradeConnect \/ (\E n \in Panes : Require(n)) \/ UNCHANGED vars
    BY <2>6 DEF TradeConnect, Require, vars, sockets
  <2> QED BY <2>1, <2>2, <2>3, <2>4, <2>5, <2>6
<1>7. ASSUME NEW ch, ch \in Seq(Range(ch)), NEW n \in 0..Len(ch), NEW e \in Range(Append(SubSeq(ch, 1, n), gone))
      PROVE  e \in Range(ch) \/ Fresh(e)
  <2>1. PICK t : t = SubSeq(ch, 1, n)
    OBVIOUS
  <2>2. Range(t) \subseteq Range(ch) /\ t \in Seq(Range(t))
    BY <1>7, <2>1, RangeOfFirst
  <2>3. Range(Append(t, gone)) \subseteq Range(t) \cup {gone}
    BY <2>2, RangeOfAppend
  <2> QED BY <1>5, <1>7, <2>1, <2>2, <2>3
<1>8. ASSUME NEW e \in InChannels'
      PROVE  e \in InChannels \/ Fresh(e)
  <2>1. InChannels' = Range(depthCh') \cup Range(tradeCh')
    BY DEF InChannels
  <2>2. CASE UNCHANGED <<depthCh, tradeCh>>
    BY <1>8, <2>2 DEF InChannels
  <2>3. CASE tradeCh' = tc /\ \E f \in {touch, gap, sync} : depthCh' = Append(dc, f)
    BY <1>3, <1>5, <1>8, <2>1, <2>3, RangeOfAppend
  <2>4. CASE tradeCh' = tc /\ depthCh' = dc \o <<full, healthy>>
    <3>1. dc \o <<full, healthy>> = Append(Append(dc, full), healthy)
      <4>1. dc \in Seq(Range(dc) \cup {full, healthy})
        BY <1>3
      <4> QED BY <4>1
    <3>2. PICK t : t = Append(dc, full)
      OBVIOUS
    <3>3. Range(t) \subseteq Range(dc) \cup {full} /\ t \in Seq(Range(t))
      BY <1>3, <3>2, RangeOfAppend
    <3>4. Range(Append(t, healthy)) \subseteq Range(t) \cup {healthy}
      BY <3>3, RangeOfAppend
    <3>5. Range(depthCh') \subseteq Range(dc) \cup {full, healthy}
      BY <2>4, <3>1, <3>2, <3>3, <3>4
    <3> QED BY <1>3, <1>5, <1>8, <2>1, <2>4, <3>5
  <2>5. CASE tradeCh' = tc /\ \E n \in 0..Len(dc) : depthCh' = Append(SubSeq(dc, 1, n), gone)
    BY <1>3, <1>7, <1>8, <2>1, <2>5
  <2>6. CASE depthCh' = dc /\ \E n \in 0..Len(tc) : tradeCh' = Append(SubSeq(tc, 1, n), gone)
    BY <1>3, <1>7, <1>8, <2>1, <2>6
  <2> QED BY <1>6, <2>2, <2>3, <2>4, <2>5, <2>6
<1> QED BY <1>1, <1>8, RealStays

--------------------------------------------------------------------------------
(* The steps of the application. *)

(* The registry hands an event to the detector. *)
LEMMA RealAfterGive ==
  ASSUME IInv, RInv, MarketSame, NEW C, C = InChannels, NEW C1, C1 = InChannels',
         NEW g, NEW e, Arrives(g, e, C, C1), NEW sense, Give(e, sense)
  PROVE  RInv'
<1>1. /\ MarketOK /\ UNCHANGED <<clock, hist, moved, phase>>
      /\ \A h \in InChannels' : h \in InChannels
  BY DEF IInv, MarketSame, market, Arrives
<1>2. PICK s : s = SyncRequirements(shared)
  OBVIOUS
<1>3. DOMAIN s = {"consumers", "released", "engine"} /\ s.engine = Engine
  BY <1>2, SyncIsShared
<1>4. CASE ~(s.consumers > 0)
  <2>1. shared' = s
    BY <1>2, <1>4 DEF Give
  <2>2. Engine' = Engine
    BY <1>3, <2>1 DEF Engine
  <2> QED BY <1>1, <2>2, RealStays
<1>5. CASE s.consumers > 0
  <2>1. PICK d, x : d = Engine /\ x = Ingest(d, e, sense)
    OBVIOUS
  <2>2. Engine' = x
    <3>1. shared' = [s EXCEPT !.engine = x]
      BY <1>2, <1>3, <1>5, <2>1 DEF Give
    <3> QED BY <1>3, <3>1 DEF Engine
  <2>3. PICK T : TimelineOK(T) /\ RealUpTo(T, Now, Engine, OnTheWay)
    BY DEF RInv
  <2>4. PICK c : c = Now
    OBVIOUS
  <2>5. IsTimeline(T) /\ RealUpTo(T, c, d, Range(d.buffer) \cup C)
    BY <2>1, <2>3, <2>4 DEF TimelineOK, OnTheWay
  <2>6. PICK ledger : LedgerOK(ledger) /\ EngineOK(ledger)
    BY DEF IInv
  <2>7. Good(d, d.buffer, C, FALSE, {}, ledger) /\ Len(d.buffer) <= MaxReorderEvents
    BY <2>1, <2>6 DEF EngineOK, IInv, SharedOK
  <2>8. IsLedger(ledger) /\ (g.type = "Trade" => Paid(g, ledger))
    BY <2>6 DEF LedgerOK, AllPaid, Arrives
  <2>9. RealUpTo(T, c, x, Range(x.buffer) \cup C1)
    <3>1. CASE ~Interrupts(e)
      BY <1>1, <2>1, <2>4, <2>5, <2>7, <2>8, <3>1, RealAfterIngest
    <3>2. CASE Interrupts(e)
      <4>1. PICK quality : x = InvalidateAll(d, quality)
        BY <2>1, <3>2 DEF Ingest
      <4>2. DOMAIN d = Fields /\ C1 \subseteq C
        BY <2>7 DEF Good, Sound, IsDetector, Arrives
      <4>3. PICK S : S = Range(d.buffer) \cup C
        OBVIOUS
      <4>4. RealUpTo(T, c, d, S) /\ C1 \subseteq S
        BY <2>5, <4>2, <4>3
      <4> QED BY <4>1, <4>2, <4>4, RealAfterInterrupt
    <3> QED BY <3>1, <3>2
  <2>10. RealUpTo(T, Now, Engine, OnTheWay)'
    <3>1. Now' = c
      BY <1>1, <2>4 DEF Now
    <3>2. OnTheWay' = Range(x.buffer) \cup C1
      BY <2>2 DEF OnTheWay
    <3> QED BY <2>2, <2>9, <3>1, <3>2
  <2>11. TimelineOK(T)'
    BY <1>1, <2>3 DEF TimelineOK, Book
  <2> QED BY <2>10, <2>11 DEF RInv
<1> QED BY <1>4, <1>5

(* A depth event reaches the application.                                    *)
LEMMA RealAfterDeliverDepth ==
  ASSUME IInv, RInv, NEW sense, DeliverDepth(sense)
  PROVE  RInv'
<1>1. MarketSame /\ depthCh # <<>> /\ depthCh' = Tail(depthCh) /\ UNCHANGED tradeCh
  BY DEF DeliverDepth, MarketSame
<1>2. PICK C, C1, g : C = InChannels /\ C1 = InChannels' /\ g = Head(depthCh)
  OBVIOUS
<1>3. /\ g \in C /\ C1 \subseteq C /\ C \subseteq C1 \cup {g}
      /\ \A h \in C1 : h.type = g.type /\ g.type \in {"Trade", "BookDelta"} => g.time <= h.time
  BY <1>1, <1>2, DepthArrives
<1>4. PICK e : e = IF g.type = "BookDelta" THEN [g EXCEPT !.recv = Local] ELSE g
  OBVIOUS
<1>5. Local \in Nat
  BY ConstantsAreNat DEF IInv, MarketOK, Local
<1>6. Arrives(g, e, C, C1)
  BY <1>3, <1>4, <1>5 DEF Arrives
<1>7. Give(e, sense)
  BY <1>2, <1>4 DEF DeliverDepth
<1> QED BY <1>1, <1>2, <1>6, <1>7, RealAfterGive

(* A trade reaches the application, once or twice.                           *)
LEMMA RealAfterDeliverTrade ==
  ASSUME IInv, RInv, tradeCh # <<>>, NEW recv \in TradeTimes(Head(tradeCh)),
         NEW twice \in BOOLEAN, NEW sense, DeliverTrade(recv, twice, sense)
  PROVE  RInv'
<1>1. MarketSame /\ tradeCh' \in {Tail(tradeCh), tradeCh} /\ UNCHANGED depthCh
  BY DEF DeliverTrade, MarketSame
<1>2. PICK C, C1, g : C = InChannels /\ C1 = InChannels' /\ g = Head(tradeCh)
  OBVIOUS
<1>3. /\ g \in C /\ C1 \subseteq C /\ C \subseteq C1 \cup {g}
      /\ \A h \in C1 : h.type = g.type /\ g.type \in {"Trade", "BookDelta"} => g.time <= h.time
  BY <1>1, <1>2, TradeArrives
<1>4. PICK e : e = IF g.type = "Trade" THEN [g EXCEPT !.recv = recv] ELSE g
  OBVIOUS
<1>5. recv \in Nat
  <2>1. Local \in Nat
    BY ConstantsAreNat DEF IInv, MarketOK, Local
  <2> QED BY <2>1 DEF TradeTimes
<1>6. Arrives(g, e, C, C1)
  BY <1>3, <1>4, <1>5 DEF Arrives
<1>7. Give(e, sense)
  BY <1>2, <1>4 DEF DeliverTrade
<1> QED BY <1>1, <1>2, <1>6, <1>7, RealAfterGive

(* An event is dropped at the full channel.                                  *)
LEMMA RealAfterDrop ==
  ASSUME IInv, RInv, DropDepth \/ DropTrade
  PROVE  RInv'
<1>1. MarketSame /\ UNCHANGED shared /\ Engine' = Engine
  BY DEF DropDepth, DropTrade, MarketSame, Engine
<1>2. PICK C, C1 : C = InChannels /\ C1 = InChannels'
  OBVIOUS
<1>3. C1 \subseteq C
  <2>1. CASE DropDepth
    <3>1. PICK g : g = Head(depthCh)
      OBVIOUS
    <3> QED BY <1>1, <1>2, <2>1, <3>1, DepthArrives DEF DropDepth
  <2>2. CASE DropTrade
    <3>1. PICK g : g = Head(tradeCh)
      OBVIOUS
    <3> QED BY <1>1, <1>2, <2>2, <3>1, TradeArrives DEF DropTrade
  <2> QED BY <2>1, <2>2
<1>4. UNCHANGED <<clock, hist, moved, phase>>
  BY <1>1 DEF MarketSame, market
<1> QED BY <1>1, <1>2, <1>3, <1>4, RealStays

(* The detector is let go.                                                   *)
LEMMA RealAfterGarbage ==
  ASSUME IInv, RInv, CollectGarbage
  PROVE  RInv'
<1>1. UNCHANGED <<clock, hist, moved, phase, depthCh, tradeCh>> /\ Engine' = NewDetector
  BY DEF CollectGarbage, market, sockets, Engine, NoDetector
<1>2. PICK T : TimelineOK(T) /\ RealUpTo(T, Now, Engine, OnTheWay)
  BY DEF RInv
<1>3. PICK c, C : c = Now /\ C = InChannels
  OBVIOUS
<1>4. c \in Nat
  BY <1>3 DEF IInv, MarketOK, Now
<1>5. PICK ledger : EngineOK(ledger)
  BY DEF IInv
<1>6. \A e \in C : Dated(e, T) /\ (e.type = "BookDelta" => e.time \in Nat)
  <2>1. \A e \in C : IsEvent(e)
    BY <1>3, <1>5 DEF EngineOK, Good, Ahead
  <2>2. \A e \in C : Dated(e, T)
    BY <1>2, <1>3 DEF RealUpTo, Real, OnTheWay
  <2> QED BY <2>1, <2>2 DEF IsEvent
<1>7. RealUpTo(T, c, NewDetector, Range(NewDetector.buffer) \cup C)
  BY <1>4, <1>6, RealWhenNew
<1>8. RealUpTo(T, Now, Engine, OnTheWay)'
  <2>1. Now' = c /\ OnTheWay' = Range(NewDetector.buffer) \cup C
    BY <1>1, <1>3 DEF Now, OnTheWay, InChannels
  <2> QED BY <1>1, <1>7, <2>1
<1>9. TimelineOK(T)'
  BY <1>1, <1>2 DEF TimelineOK, Book
<1> QED BY <1>8, <1>9 DEF RInv

--------------------------------------------------------------------------------
(* The theorems. *)

(* At the start nothing has been executed or added.                          *)
LEMMA InitRInv == Init => RInv
<1> SUFFICES ASSUME Init PROVE RInv
  OBVIOUS
<1>1. /\ clock = 1 /\ hist = <<InitialBook>> /\ depthCh = <<>> /\ tradeCh = <<>> /\ shared = NoDetector
      /\ moved = [k \in Key |-> [executed |-> 0, added |-> 0, cancelled |-> 0]]
  BY DEF Init
<1>2. InitialBook \in [Key -> Nat] /\ Skew \in Nat
  BY ConstantsAreNat
<1>3. Book = InitialBook
  <2>1. hist \in Seq([Key -> Nat]) /\ Len(hist) = 1 /\ hist[1] = InitialBook
    BY <1>1, <1>2
  <2> QED BY <2>1 DEF Book
<1> DEFINE none == [n \in Nat |-> [k \in Key |-> 0]]
           books == [n \in Nat |-> InitialBook]
           T == [book |-> books, executed |-> none, added |-> none]
<1>4. /\ T.book \in [Nat -> [Key -> Nat]] /\ T.executed \in [Nat -> [Key -> Nat]]
      /\ T.added \in [Nat -> [Key -> Nat]]
      /\ \A n \in Nat : /\ T.book[n] = InitialBook
                        /\ \A k \in Key : T.executed[n][k] = 0 /\ T.added[n][k] = 0
  BY <1>2
<1> HIDE DEF T, none, books
<1>5. \A k \in Key : InitialBook[k] \in Nat /\ moved[k].added = 0
  BY <1>1, <1>2
<1>6. IsTimeline(T)
  <2>1. Rows(T.book)
    BY <1>4 DEF Rows
  <2>2. ASSUME NEW f \in [Nat -> [Key -> Nat]], \A n \in Nat, k \in Key : f[n][k] = 0
        PROVE  IsLedger(f)
    BY <2>2 DEF IsLedger
  <2>3. IsLedger(T.executed) /\ IsLedger(T.added)
    BY <1>4, <2>2
  <2>4. Falls(T)
    BY <1>4, <1>5 DEF Falls
  <2> QED BY <2>1, <2>3, <2>4 DEF IsTimeline
<1>7. TimelineOK(T)
  BY <1>3, <1>4, <1>5, <1>6 DEF TimelineOK
<1>8. PICK C, c : C = InChannels /\ c = Now
  OBVIOUS
<1>9. C = {} /\ c \in Nat /\ Engine = NewDetector
  BY <1>1, <1>8 DEF InChannels, Range, Now, Engine, NoDetector
<1>10. RealUpTo(T, c, NewDetector, Range(NewDetector.buffer) \cup C)
  BY <1>9, RealWhenNew
<1>11. RealUpTo(T, Now, Engine, OnTheWay)
  BY <1>8, <1>9, <1>10 DEF OnTheWay
<1> QED BY <1>7, <1>11 DEF RInv

(* Every step keeps it.                                                      *)
LEMMA NextRInv == IInv /\ RInv /\ [Next]_vars => RInv'
<1> SUFFICES ASSUME IInv, RInv, [Next]_vars PROVE RInv'
  OBVIOUS
<1>1. CASE Tick
  BY <1>1, RealAfterTick
<1>2. CASE \E k \in Key, q \in TradeSizes : Execute(k, q)
  BY <1>2, RealAfterExecute
<1>3. CASE \E k \in Key, q \in Changes : Requote(k, q)
  BY <1>3, RealAfterRequote
<1>4. CASE \/ EmitDelta \/ DepthConnect \/ DepthBoundary \/ DepthGap \/ TradeConnect
           \/ (\E n \in 0..Len(depthCh) : DepthLost(n)) \/ (\E n \in 0..Len(tradeCh) : TradeLost(n))
           \/ (\E n \in Panes : Require(n)) \/ UNCHANGED vars
  BY <1>4, RealAfterEnvironment
<1>5. CASE CollectGarbage
  BY <1>5, RealAfterGarbage
<1>6. CASE \E sense \in Sense : DeliverDepth(sense)
  BY <1>6, RealAfterDeliverDepth
<1>7. CASE tradeCh # <<>> /\ \E recv \in TradeTimes(Head(tradeCh)), twice \in BOOLEAN,
                                sense \in Sense : DeliverTrade(recv, twice, sense)
  BY <1>7, RealAfterDeliverTrade
<1>8. CASE DropDepth \/ DropTrade
  BY <1>8, RealAfterDrop
<1> QED BY <1>1, <1>2, <1>3, <1>4, <1>5, <1>6, <1>7, <1>8 DEF Next

(* What it says of the evidence.                                             *)
LEMMA EvidenceIsExplained ==
  ASSUME IInv, RInv
  PROVE  RefillIsExplained /\ HiddenIsExplained
<1>1. PICK T : TimelineOK(T) /\ RealUpTo(T, Now, Engine, OnTheWay)
  BY DEF RInv
<1>2. PICK d, c : d = Engine /\ c = Now
  OBVIOUS
<1>3. IsDetector(d) /\ c \in Nat /\ IsTimeline(T)
  BY <1>1, <1>2, EngineIsSound DEF TimelineOK, IInv, MarketOK, Now
<1>4. PICK D : D \in 0..c /\ Backed(T, D, c, d)
  BY <1>1, <1>2 DEF RealUpTo, Real
<1>5. ASSUME NEW x, NEW k \in Key, x.executed \in Nat, Shown(T, c, k, d.late[k], x)
      PROVE  x.replenished <= moved[k].added + d.late[k] /\ x.executed - x.peak <= moved[k].added + d.late[k]
  <2>1. {T.added[c][k], moved[k].added, d.late[k]} \subseteq Nat /\ T.added[c][k] <= moved[k].added
    BY <1>1, <1>3, <1>4, TimelineCounts DEF TimelineOK, IInv, MarketOK, Backed
  <2>2. PICK peak, replenished, executed \in Nat :
           peak = x.peak /\ replenished = x.replenished /\ executed = x.executed
    BY <1>5 DEF Shown
  <2>3. /\ {peak, replenished} \subseteq Nat /\ replenished <= T.added[c][k] + d.late[k]
        /\ executed <= peak + T.added[c][k] + d.late[k]
    BY <1>5, <2>2 DEF Shown
  <2>4. PICK added, all, late \in Nat : added = T.added[c][k] /\ all = moved[k].added /\ late = d.late[k]
    BY <2>1
  <2>5. /\ {peak, replenished} \subseteq Nat /\ added <= all /\ replenished <= added + late
        /\ executed <= peak + added + late
    BY <2>1, <2>3, <2>4
  <2>6. replenished <= all + late /\ executed - peak <= all + late
    BY <2>5
  <2> QED BY <2>2, <2>4, <2>6
<1>6. ASSUME NEW k \in DOMAIN d.episodes
      PROVE  /\ d.episodes[k].replenished <= moved[k].added + d.late[k]
             /\ d.episodes[k].executed - d.episodes[k].peak <= moved[k].added + d.late[k]
  <2>1. k \in Key /\ d.episodes[k].executed \in Nat
    BY <1>3 DEF IsDetector, EpisodesOK, LevelsOK, IsEpisode
  <2>2. Shown(T, c, k, d.late[k], d.episodes[k])
    BY <1>3, <1>4, EpisodesShow
  <2> QED BY <1>5, <2>1, <2>2
<1>7. ASSUME NEW a \in Range(d.events)
      PROVE  /\ a.replenished <= moved[a.key].added + d.late[a.key]
             /\ a.executed - a.peak <= moved[a.key].added + d.late[a.key]
  <2>1. a.key \in Key /\ a.executed \in Nat
    BY <1>3 DEF IsDetector, EventsOK, IsReport
  <2>2. Shown(T, c, a.key, d.late[a.key], a)
    BY <1>4 DEF Backed, EventBacked
  <2> QED BY <1>5, <2>1, <2>2
<1> QED BY <1>2, <1>6, <1>7 DEF RefillIsExplained, HiddenIsExplained, Evidence, Claim

(***************************************************************************)
(* What apply_level adds to an episode's replenished quantity, and what is *)
(* published of it, was added to the level or belongs to an execution that *)
(* was taken out of turn, whatever the delays of the two sockets, the      *)
(* skew of the clocks, the lag of the receive times and the room in the    *)
(* reorder buffer.                                                         *)
(***************************************************************************)
THEOREM RefillsAreExplained == Spec => []RefillIsExplained
<1>1. IInv /\ RInv /\ [Next]_vars => RInv'
  BY NextRInv
<1>2. IInv /\ RInv => RefillIsExplained
  BY EvidenceIsExplained
<1> QED BY <1>1, <1>2, InitRInv, Invariance, PTL DEF Spec

(***************************************************************************)
(* hidden_lower_bound_qty is a lower bound in the same sense: what was     *)
(* executed beyond the largest displayed quantity was added to the level   *)
(* or belongs to an execution that was taken out of turn.                  *)
(***************************************************************************)
THEOREM HiddenStaysExplained == Spec => []HiddenIsExplained
<1>1. IInv /\ RInv /\ [Next]_vars => RInv'
  BY NextRInv
<1>2. IInv /\ RInv => HiddenIsExplained
  BY EvidenceIsExplained
<1> QED BY <1>1, <1>2, InitRInv, Invariance, PTL DEF Spec
================================================================================
