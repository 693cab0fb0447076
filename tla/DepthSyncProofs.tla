---------------------------- MODULE DepthSyncProofs ----------------------------
(***************************************************************************)
(* Proofs about DepthSync, for every history of the exchange, every set of *)
(* levels and every bound.                                                 *)
(***************************************************************************)
EXTENDS DepthSync, NatSets

USE DEF Ids

--------------------------------------------------------------------------------
(* The inductive invariant. *)

(* A diff the exchange can have emitted: it covers (pu, final], and what lies *)
(* between pu and first changed nothing.                                       *)
ValidDiff(d) == /\ d.pu < d.first /\ d.first <= d.final
                /\ d.final <= sent
                /\ market = "Spot" => d.first = d.pu + 1

(* prev_id is 0 or the id of the local book; neither the snapshot that was *)
(* answered nor the book is ahead of the exchange; the book is faithful.    *)
GoodMachine(m) ==
    /\ m \in Machine
    /\ \A i \in 1..Len(m.pending) : ValidDiff(m.pending[i])
    /\ m.prev_id \in {0, m.current.id}
    /\ m.rx.status = "ok" => m.rx.id \in 1..now
    /\ m.current.id <= now
    /\ Faithful(m.current)

WireValid == \A i \in 1..Len(wire) : ValidDiff(wire[i])

IInv == TypeOK /\ WireValid /\ GoodMachine(sync) /\ Faithful(shown)

(* What the lemmas about the machine need of the exchange. *)
Env == market \in Market /\ now \in 1..MaxId /\ sent \in 0..now

--------------------------------------------------------------------------------
(* One diff. *)

(* A diff that continues a faithful book leaves a faithful book: every level it *)
(* does not name has kept its quantity since the book's own update id.          *)
LEMMA ApplyIsFaithful ==
  ASSUME market \in Market,
         NEW d \in Diff, ValidDiff(d),
         NEW last \in Ids, NEW prev \in {0, last},
         Verdict(d, last, prev) = "Applied"
  PROVE  /\ last # 0 /\ d.final > last /\ last \in d.pu .. d.final
         /\ \A l \in Level : l \notin Touched(d) => Book[last][l] = Book[d.final][l]
<1>1. last # 0 /\ d.final > last /\ Continues(d, last, prev)
  BY DEF Verdict, Diff
<1>2. last \in d.pu .. d.final
  BY <1>1, MaxIdAssumption DEF Continues, ValidDiff, Diff
<1>3. ASSUME NEW l \in Level, l \notin Touched(d)
      PROVE  Book[last][l] = Book[d.final][l]
  BY <1>2, <1>3 DEF Touched
<1> QED BY <1>1, <1>2, <1>3

(* Applying a diff gives a cache, and the exchange's own book if the old one was. *)
LEMMA ApplyDiffFaithful ==
  ASSUME market \in Market,
         NEW d \in Diff, ValidDiff(d),
         NEW cache \in LocalDepthCache, Faithful(cache),
         NEW prev \in {0, cache.id},
         Verdict(d, cache.id, prev) = "Applied"
  PROVE  /\ ApplyDiff(cache, d) \in LocalDepthCache
         /\ ApplyDiff(cache, d).id = d.final
         /\ Faithful(ApplyDiff(cache, d))
<1> DEFINE c == ApplyDiff(cache, d)
<1>1. cache.id \in Ids /\ cache.depth \in [Level -> Qty] /\ d.final \in Ids
  BY DEF LocalDepthCache, Depth, Diff
<1>2. /\ cache.id # 0
      /\ \A l \in Level : l \notin Touched(d) => Book[cache.id][l] = Book[d.final][l]
  BY <1>1, ApplyIsFaithful
<1>3. cache.depth = Book[cache.id]
  BY <1>2 DEF Faithful
<1>4. Book[d.final] \in [Level -> Qty]
  BY <1>1, BookAssumption
<1>5. c.depth = Book[d.final]
  <2>1. c.depth = [l \in Level |-> IF l \in Touched(d) THEN Book[d.final][l]
                                                      ELSE cache.depth[l]]
    BY DEF ApplyDiff
  <2>2. \A l \in Level : c.depth[l] = Book[d.final][l]
    BY <2>1, <1>2, <1>3
  <2> QED BY <2>1, <2>2, <1>4
<1>6. c.id = d.final
  BY DEF ApplyDiff
<1>7. c = [id |-> c.id, depth |-> c.depth]
  BY DEF ApplyDiff
<1>8. c \in LocalDepthCache
  <2> HIDE DEF c
  <2> QED BY <1>1, <1>4, <1>5, <1>6, <1>7 DEF LocalDepthCache, Depth
<1> QED BY <1>5, <1>6, <1>8 DEF Faithful

--------------------------------------------------------------------------------
(* The replay of the buffered diffs. *)

(* last_update_id after one more diff: the larger of the two ids. *)
LEMMA LastAfterStep ==
  ASSUME NEW s \in Ids, NEW p \in Seq(Diff), NEW k \in 0 .. Len(p)
  PROVE  /\ LastAfter(p, s, 0) = s
         /\ LastAfter(p, s, k) \in Ids
         /\ k < Len(p) => LastAfter(p, s, k + 1) =
                            IF p[k + 1].final > LastAfter(p, s, k)
                            THEN p[k + 1].final ELSE LastAfter(p, s, k)
<1> DEFINE I(j) == {s} \cup {p[i].final : i \in 1..j}
           IsMax(x, j) == x \in I(j) /\ \A y \in I(j) : x >= y
           N == Len(p)
<1>1. N \in Nat /\ \A i \in 1..N : p[i].final \in Ids
  <2>1. N \in Nat /\ \A i \in 1..N : p[i] \in Diff
    OBVIOUS
  <2> QED BY <2>1 DEF Diff
<1>2. ASSUME NEW j \in 0..N PROVE I(j) \subseteq Ids
  BY <1>1, <1>2
<1>3. ASSUME NEW j \in 0..N, NEW x, IsMax(x, j) PROVE LastAfter(p, s, j) = x
  <2>1. \A y \in I(j) : (\A z \in I(j) : y >= z) => y = x
    BY <1>2, <1>3, MaxIdAssumption
  <2> QED BY <2>1, <1>3 DEF LastAfter, Max
<1>4. IsMax(s, 0)
  OBVIOUS
<1>5. ASSUME NEW j \in 0 .. N - 1, NEW x, IsMax(x, j)
      PROVE  IsMax(IF p[j + 1].final > x THEN p[j + 1].final ELSE x, j + 1)
  <2>1. j \in 0..N /\ j + 1 \in 1..N
    BY <1>1
  <2>2. I(j + 1) = I(j) \cup {p[j + 1].final}
    BY <2>1
  <2>3. x \in Ids /\ p[j + 1].final \in Ids /\ I(j) \subseteq Ids
    BY <1>1, <1>2, <1>5, <2>1
  <2> HIDE DEF I
  <2> QED BY <1>5, <2>2, <2>3, MaxIdAssumption
<1>6. \A j \in 0..N : \E x \in Ids : IsMax(x, j)
  <2> DEFINE S == {j \in 0..N : \E x \in Ids : IsMax(x, j)}
  <2>1. 0 \in S
    BY <1>1, <1>4
  <2>2. ASSUME NEW j \in 0 .. N - 1, j \in S PROVE j + 1 \in S
    <3>1. PICK x \in Ids : IsMax(x, j)
      BY <2>2
    <3>2. j + 1 \in 0..N /\ p[j + 1].final \in Ids
      BY <1>1
    <3> HIDE DEF IsMax
    <3> QED BY <3>1, <3>2, <1>5
  <2> HIDE DEF S
  <2>3. 0..N \subseteq S
    BY <1>1, <2>1, <2>2, UpToInduction
  <2> QED BY <2>3 DEF S
<1>7. PICK x \in Ids : IsMax(x, k)
  BY <1>6
<1> HIDE DEF IsMax
<1>8. LastAfter(p, s, 0) = s
  BY <1>1, <1>3, <1>4
<1>9. LastAfter(p, s, k) = x
  BY <1>3, <1>7
<1>10. ASSUME k < Len(p)
       PROVE  LastAfter(p, s, k + 1) = IF p[k + 1].final > x THEN p[k + 1].final ELSE x
  <2>1. k \in 0 .. N - 1 /\ k + 1 \in 0..N
    BY <1>1, <1>10
  <2> QED BY <2>1, <1>3, <1>5, <1>7
<1> QED BY <1>7, <1>8, <1>9, <1>10

(* The diffs that wrote level l, after one more diff. *)
LEMMA WritersStep ==
  ASSUME NEW s, NEW p \in Seq(Diff), NEW k \in 0 .. Len(p) - 1, NEW l,
         NEW old, old = Writers(p, s, k, l)
  PROVE  IF ReplayVerdict(p, s, k + 1) = "Applied" /\ l \in Touched(p[k + 1])
         THEN Writers(p, s, k + 1, l) # {} /\ Max(Writers(p, s, k + 1, l)) = k + 1
         ELSE Writers(p, s, k + 1, l) = old
<1> DEFINE W(j) == Writers(p, s, j, l)
           Hit(i) == ReplayVerdict(p, s, i) = "Applied" /\ l \in Touched(p[i])
<1>1. \A j : W(j) = {i \in 1..j : Hit(i)}
  BY DEF Writers
<1> HIDE DEF W, Hit
<1>2. W(k + 1) = W(k) \cup (IF Hit(k + 1) THEN {k + 1} ELSE {})
  BY <1>1
<1>3. ASSUME Hit(k + 1) PROVE W(k + 1) # {} /\ Max(W(k + 1)) = k + 1
  <2>1. k + 1 \in W(k + 1) /\ \A i \in W(k + 1) : i \in 1 .. k + 1
    BY <1>1, <1>3
  <2>2. \A x \in W(k + 1) : (\A y \in W(k + 1) : x >= y) => x = k + 1
    BY <2>1
  <2> QED BY <2>1, <2>2 DEF Max
<1>4. ASSUME ~ Hit(k + 1) PROVE W(k + 1) = old
  <2>1. W(k) = old
    BY DEF W
  <2> QED BY <1>2, <1>4, <2>1
<1> QED BY <1>3, <1>4 DEF W, Hit

(* What the replay of the first k diffs has built is the exchange's own book, if *)
(* none of them broke the sequence.                                              *)
LEMMA ReplayIsFaithful ==
  ASSUME Env,
         NEW s \in 1..now,
         NEW p \in Seq(Diff), \A i \in 1..Len(p) : ValidDiff(p[i]),
         NEW n \in 0 .. Len(p),
         \A i \in 1..n : ReplayVerdict(p, s, i) # "NeedsResync"
  PROVE  /\ LastAfter(p, s, n) \in 1..now
         /\ CacheAfter(p, s, n) = [id |-> LastAfter(p, s, n), depth |-> Book[LastAfter(p, s, n)]]
         /\ PrevAfter(p, s, n) \in {0, LastAfter(p, s, n)}
<1> DEFINE last(j) == LastAfter(p, s, j)
           built(j) == [l \in Level |-> IF Writers(p, s, j, l) = {} THEN Book[s][l]
                                        ELSE Book[p[Max(Writers(p, s, j, l))].final][l]]
           Good(j) == last(j) \in 1..now /\ built(j) = Book[last(j)]
           S == {j \in 0..n : Good(j)}
<1>0. Len(p) \in Nat /\ n \in Nat /\ s \in Ids /\ market \in Market
  BY MaxIdAssumption DEF Env
<1>1. 0 \in S
  <2>1. last(0) = s
    BY <1>0, LastAfterStep
  <2>2. \A l \in Level : Writers(p, s, 0, l) = {}
    BY DEF Writers
  <2>3. Book[s] \in [Level -> Qty]
    BY <1>0, BookAssumption
  <2>4. built(0) = Book[s]
    BY <2>2, <2>3
  <2> QED BY <1>0, <2>1, <2>4
<1>2. ASSUME NEW j \in 0 .. n - 1, j \in S PROVE j + 1 \in S
  <2> DEFINE d == p[j + 1]
  <2>1. j \in 0 .. Len(p) - 1 /\ j + 1 \in 1..n /\ j + 1 \in 1..Len(p) /\ j \in 0..Len(p)
    BY <1>0
  <2>2. d \in Diff /\ ValidDiff(d)
    BY <2>1
  <2>3. last(j) \in 1..now /\ last(j) \in Ids /\ built(j) = Book[last(j)]
    BY <1>2, MaxIdAssumption DEF Env
  <2>4. last(j + 1) = IF d.final > last(j) THEN d.final ELSE last(j)
    <3>1. j \in 0 .. Len(p) /\ j < Len(p)
      BY <1>0, <2>1
    <3>2. LastAfter(p, s, j + 1) = IF p[j + 1].final > LastAfter(p, s, j)
                                   THEN p[j + 1].final ELSE LastAfter(p, s, j)
      BY <1>0, <3>1, LastAfterStep
    <3> QED BY <3>2
  <2>d. d.final \in 0..now /\ d.final \in Ids
    <3>1. d.final \in Ids
      BY <2>2 DEF Diff
    <3>2. d.final <= sent
      BY <2>2 DEF ValidDiff
    <3> HIDE DEF d
    <3> QED BY <3>1, <3>2, MaxIdAssumption DEF Env
  <2>5. PrevAfter(p, s, j) \in {0, last(j)}
    BY DEF PrevAfter
  <2>6. ReplayVerdict(p, s, j + 1) = Verdict(d, last(j), PrevAfter(p, s, j))
    BY <2>1 DEF ReplayVerdict
  <2>7. ReplayVerdict(p, s, j + 1) # "NeedsResync"
    BY <2>1
  <2>8. CASE ReplayVerdict(p, s, j + 1) = "Applied"
    <3>1. /\ d.final > last(j)
          /\ \A l \in Level : l \notin Touched(d) => Book[last(j)][l] = Book[d.final][l]
      <4> HIDE DEF d, last
      <4> QED BY <1>0, <2>2, <2>3, <2>5, <2>6, <2>8, ApplyIsFaithful
    <3>2. last(j + 1) = d.final /\ d.final \in 1..now
      <4> HIDE DEF d, last
      <4> QED BY <2>3, <2>4, <2>d, <3>1
    <3>3. Book[d.final] \in [Level -> Qty]
      BY <2>d, BookAssumption
    <3>4. ASSUME NEW l \in Level PROVE built(j + 1)[l] = Book[d.final][l]
      <4>1. CASE l \in Touched(d)
        <5>1. Writers(p, s, j + 1, l) # {} /\ Max(Writers(p, s, j + 1, l)) = j + 1
          BY <2>1, <2>8, <4>1, WritersStep
        <5> QED BY <5>1
      <4>2. CASE l \notin Touched(d)
        <5>1. Writers(p, s, j + 1, l) = Writers(p, s, j, l)
          BY <2>1, <2>8, <4>2, WritersStep
        <5>2. built(j + 1)[l] = built(j)[l]
          BY <5>1
        <5> QED BY <2>3, <3>1, <4>2, <5>2
      <4> QED BY <4>1, <4>2
    <3>5. built(j + 1) = Book[d.final]
      <4> HIDE DEF d
      <4> QED BY <3>3, <3>4
    <3>6. j + 1 \in 0..n /\ Good(j + 1)
      <4> HIDE DEF d, last, built
      <4> QED BY <1>0, <2>1, <3>2, <3>5
    <3> QED BY <3>6
  <2>9. CASE ReplayVerdict(p, s, j + 1) = "Skipped"
    <3>1. d.final <= last(j)
      BY <2>3, <2>6, <2>9 DEF Verdict
    <3>2. last(j + 1) = last(j)
      <4> HIDE DEF d, last
      <4> QED BY <2>3, <2>4, <2>d, <3>1, MaxIdAssumption
    <3>3. \A l \in Level : Writers(p, s, j + 1, l) = Writers(p, s, j, l)
      BY <2>1, <2>9, WritersStep
    <3>4. built(j + 1) = built(j)
      BY <3>3
    <3>5. j + 1 \in 0..n /\ Good(j + 1)
      <4> HIDE DEF d, last, built
      <4> QED BY <1>0, <2>1, <2>3, <3>2, <3>4
    <3> QED BY <3>5
  <2> QED BY <2>6, <2>7, <2>8, <2>9 DEF Verdict
<1>3. 0..n \subseteq S
  <2> HIDE DEF S
  <2> QED BY <1>0, <1>1, <1>2, UpToInduction
<1>4. Good(n)
  <2>1. n \in 0..n
    BY <1>0
  <2>2. n \in S
    BY <1>3, <2>1
  <2> QED BY <2>2
<1> QED BY <1>4 DEF CacheAfter, PrevAfter

--------------------------------------------------------------------------------
(* The machine's operations keep it good. *)

LEMMA ZeroId == 0 \in Ids
BY MaxIdAssumption

LEMMA RxType ==
  ASSUME NEW status \in {"none", "empty", "ok", "err", "closed"}
  PROVE  Rx(status) \in SnapshotRx /\ Rx(status).status = status
BY ZeroId DEF Rx, SnapshotRx

LEMMA BeginResyncGood ==
  ASSUME NEW m, GoodMachine(m)
  PROVE  /\ GoodMachine(BeginResync(m))
         /\ BeginResync(m).state = "WaitingSnapshot"
         /\ BeginResync(m).gap_detected = m.gap_detected
<1> DEFINE r == BeginResync(m)
<1>1. Rx("empty") \in SnapshotRx /\ Rx("empty").status = "empty"
  BY RxType
<1>2. m \in Machine
  BY DEF GoodMachine
<1>3. /\ r.pending = m.pending /\ r.prev_id = m.prev_id /\ r.current = m.current
      /\ r.rx = Rx("empty") /\ r.state = "WaitingSnapshot" /\ r.gap_detected = m.gap_detected
      /\ r \in Machine
  <2> HIDE DEF Ids
  <2> QED BY <1>1, <1>2 DEF BeginResync, Machine
<1> QED
  <2> HIDE DEF r
  <2> SUFFICES GoodMachine(r) /\ r.state = "WaitingSnapshot" /\ r.gap_detected = m.gap_detected
    BY DEF r
  <2> QED BY <1>1, <1>3 DEF GoodMachine

LEMMA HandleSnapshotGood ==
  ASSUME Env, NEW m, GoodMachine(m), m.rx.status = "ok"
  PROVE  /\ GoodMachine(HandleSnapshot(m))
         /\ HandleSnapshot(m).state = "Live" => HandleSnapshot(m).current.id # 0
<1> DEFINE s == m.rx.id
           p == m.pending
<1>1. /\ s \in 1..now /\ p \in Seq(Diff) /\ m \in Machine
      /\ \A i \in 1..Len(p) : ValidDiff(p[i])
  BY DEF GoodMachine, Machine
<1>2. Len(p) \in Nat
  BY <1>1
<1>3. ASSUME NEW n \in 0..Len(p), \A i \in 1..n : ReplayVerdict(p, s, i) # "NeedsResync"
      PROVE  /\ CacheAfter(p, s, n) \in LocalDepthCache
             /\ CacheAfter(p, s, n).id \in 1..now
             /\ Faithful(CacheAfter(p, s, n))
             /\ PrevAfter(p, s, n) \in {0, CacheAfter(p, s, n).id}
             /\ PrevAfter(p, s, n) \in Ids
  <2> DEFINE L == LastAfter(p, s, n)
  <2>1. /\ L \in 1..now /\ CacheAfter(p, s, n) = [id |-> L, depth |-> Book[L]]
        /\ PrevAfter(p, s, n) \in {0, L}
    <3> HIDE DEF p, s
    <3> QED BY <1>1, <1>3, ReplayIsFaithful
  <2>2. L \in Ids /\ 0 \in Ids
    BY <2>1, MaxIdAssumption DEF Env
  <2>3. Book[L] \in [Level -> Qty]
    BY <2>2, BookAssumption
  <2> HIDE DEF L
  <2> QED BY <2>1, <2>2, <2>3 DEF LocalDepthCache, Depth, Faithful
<1>4. CASE Breaks(p, s) = {}
  <2> DEFINE n == Len(p)
             r == [m EXCEPT !.state = "Live", !.rx = Rx("none"), !.pending = <<>>,
                            !.prev_id = PrevAfter(p, s, n), !.current = CacheAfter(p, s, n)]
  <2>1. \A i \in 1..n : ReplayVerdict(p, s, i) # "NeedsResync"
    BY <1>4 DEF Breaks
  <2>2. n \in 0..Len(p)
    BY <1>2
  <2>3. /\ CacheAfter(p, s, n) \in LocalDepthCache
        /\ CacheAfter(p, s, n).id \in 1..now
        /\ Faithful(CacheAfter(p, s, n))
        /\ PrevAfter(p, s, n) \in {0, CacheAfter(p, s, n).id}
        /\ PrevAfter(p, s, n) \in Ids
    BY <1>3, <2>1, <2>2
  <2>4. HandleSnapshot(m) = r
    BY <1>4 DEF HandleSnapshot
  <2>5. /\ r.rx.status = "none" /\ r.pending = <<>> /\ r.prev_id = PrevAfter(p, s, n)
        /\ r.current = CacheAfter(p, s, n) /\ r \in Machine
    <3>1. Rx("none") \in SnapshotRx /\ Rx("none").status = "none"
      BY RxType
    <3>2. <<>> \in Seq(Diff)
      OBVIOUS
    <3> HIDE DEF p, s, n, Ids
    <3> QED BY <1>1, <2>3, <3>1, <3>2 DEF Machine
  <2> HIDE DEF r, n
  <2> QED BY <2>3, <2>4, <2>5, MaxIdAssumption DEF GoodMachine, Env
<1>5. CASE Breaks(p, s) # {}
  <2> DEFINE k == Min(Breaks(p, s))
             q == SubSeq(p, k + 1, Len(p))
             r == [m EXCEPT !.pending = q, !.prev_id = PrevAfter(p, s, k - 1),
                            !.current = CacheAfter(p, s, k - 1), !.gap_detected = TRUE]
  <2>1. k \in Breaks(p, s) /\ \A i \in Breaks(p, s) : k <= i
    <3>1. Breaks(p, s) \subseteq Nat
      BY DEF Breaks
    <3>2. \E x \in Breaks(p, s) : \A y \in Breaks(p, s) : x <= y
      BY <1>5, <3>1, LeastNat
    <3> QED BY <3>2 DEF Min
  <2>2. k \in 1..Len(p)
    BY <2>1 DEF Breaks
  <2> HIDE DEF k
  <2>3. \A i \in 1 .. k - 1 : ReplayVerdict(p, s, i) # "NeedsResync"
    BY <1>2, <2>1, <2>2 DEF Breaks
  <2>4. k - 1 \in 0..Len(p)
    BY <1>2, <2>2
  <2>5. /\ CacheAfter(p, s, k - 1) \in LocalDepthCache
        /\ CacheAfter(p, s, k - 1).id \in 1..now
        /\ Faithful(CacheAfter(p, s, k - 1))
        /\ PrevAfter(p, s, k - 1) \in {0, CacheAfter(p, s, k - 1).id}
        /\ PrevAfter(p, s, k - 1) \in Ids
    BY <1>3, <2>3, <2>4
  <2>6. q \in Seq(Diff) /\ \A i \in 1..Len(q) : ValidDiff(q[i])
    <3>1. \A i \in 1..Len(q) : q[i] = p[k + i] /\ k + i \in 1..Len(p)
      <4> HIDE DEF p
      <4> QED BY <1>1, <1>2, <2>2
    <3>2. q \in Seq(Diff)
      <4> HIDE DEF p
      <4> QED BY <1>1, <1>2, <2>2
    <3> HIDE DEF q
    <3> QED BY <1>1, <3>1, <3>2
  <2>7. HandleSnapshot(m) = BeginResync(r)
    BY <1>5 DEF HandleSnapshot, k
  <2>8. /\ r.rx = m.rx /\ r.pending = q /\ r.prev_id = PrevAfter(p, s, k - 1)
        /\ r.current = CacheAfter(p, s, k - 1) /\ r \in Machine
    <3> HIDE DEF q, p, s
    <3> QED BY <1>1, <2>5, <2>6 DEF Machine
  <2>9. GoodMachine(r)
    <3> HIDE DEF r, q, p
    <3> QED BY <1>1, <2>5, <2>6, <2>8 DEF GoodMachine, Env
  <2> HIDE DEF r
  <2> QED BY <2>7, <2>9, BeginResyncGood
<1> QED BY <1>4, <1>5

LEMMA PollSnapshotGood ==
  ASSUME Env, NEW m, GoodMachine(m)
  PROVE  /\ GoodMachine(PollSnapshot(m))
         /\ m.state = "WaitingSnapshot" /\ PollSnapshot(m).state = "Live"
              => PollSnapshot(m).current.id # 0
BY HandleSnapshotGood DEF PollSnapshot

LEMMA HandleDepthUpdateGood ==
  ASSUME Env, NEW m, GoodMachine(m), NEW d \in Diff, ValidDiff(d)
  PROVE  GoodMachine(HandleDepthUpdate(m, d))
<1>1. m \in Machine /\ m.pending \in Seq(Diff) /\ Len(m.pending) \in Nat
  BY DEF GoodMachine, Machine
<1>2. CASE m.state = "WaitingSnapshot"
  <2> DEFINE q == IF Len(m.pending) = MaxPending THEN Append(Tail(m.pending), d)
                                                 ELSE Append(m.pending, d)
             r == [m EXCEPT !.pending = q]
  <2>1. \A i \in 1..Len(m.pending) : ValidDiff(m.pending[i])
    BY DEF GoodMachine
  <2>2. q \in Seq(Diff) /\ \A i \in 1..Len(q) : ValidDiff(q[i])
    <3> HIDE DEF ValidDiff
    <3>1. CASE Len(m.pending) = MaxPending
      <4>1. m.pending # <<>>
        BY <1>1, <3>1, BoundsAssumption
      <4> QED BY <1>1, <2>1, <3>1, <4>1
    <3>2. CASE Len(m.pending) # MaxPending
      BY <1>1, <2>1, <3>2
    <3> QED BY <3>1, <3>2
  <2>3. r \in Machine /\ r.pending = q /\ r.prev_id = m.prev_id
        /\ r.current = m.current /\ r.rx = m.rx
    <3> HIDE DEF q
    <3> QED BY <1>1, <2>2 DEF Machine
  <2>4. HandleDepthUpdate(m, d) = r
    BY <1>2 DEF HandleDepthUpdate, QueuePendingDiff
  <2> HIDE DEF q, r
  <2> QED BY <2>2, <2>3, <2>4 DEF GoodMachine
<1>3. CASE m.state # "WaitingSnapshot" /\ LiveVerdict(m, d) = "Skipped"
  BY <1>3 DEF HandleDepthUpdate, OnLiveDiff
<1>4. CASE m.state # "WaitingSnapshot" /\ LiveVerdict(m, d) = "Applied"
  <2> DEFINE c == ApplyDiff(m.current, d)
             r == [m EXCEPT !.current = c, !.prev_id = d.final]
  <2>1. m.current \in LocalDepthCache /\ Faithful(m.current) /\ m.prev_id \in {0, m.current.id}
    BY DEF GoodMachine, Machine
  <2>2. c \in LocalDepthCache /\ c.id = d.final /\ Faithful(c)
    BY <1>4, <2>1, ApplyDiffFaithful DEF LiveVerdict, Env
  <2>3. d.final \in Ids /\ d.final <= now
    BY MaxIdAssumption DEF Diff, ValidDiff, Env
  <2>4. r \in Machine /\ r.pending = m.pending /\ r.prev_id = d.final
        /\ r.current = c /\ r.rx = m.rx
    <3> HIDE DEF c
    <3> QED BY <1>1, <2>2, <2>3 DEF Machine
  <2>5. HandleDepthUpdate(m, d) = r
    BY <1>4 DEF HandleDepthUpdate, OnLiveDiff
  <2> HIDE DEF c, r
  <2> QED BY <2>2, <2>3, <2>4, <2>5 DEF GoodMachine
<1>5. CASE m.state # "WaitingSnapshot" /\ LiveVerdict(m, d) = "NeedsResync"
  <2> DEFINE r == [m EXCEPT !.gap_detected = TRUE, !.pending = <<d>>, !.prev_id = 0]
  <2>1. /\ r \in Machine /\ r.pending = <<d>> /\ r.prev_id = 0
        /\ r.current = m.current /\ r.rx = m.rx
    <3>1. <<d>> \in Seq(Diff)
      OBVIOUS
    <3> HIDE DEF Ids
    <3> QED BY <1>1, <3>1, ZeroId DEF Machine
  <2>2. GoodMachine(r)
    <3> HIDE DEF r, ValidDiff
    <3> QED BY <2>1 DEF GoodMachine
  <2>3. HandleDepthUpdate(m, d) = BeginResync(r)
    BY <1>5 DEF HandleDepthUpdate, OnLiveDiff
  <2> HIDE DEF r
  <2> QED BY <2>2, <2>3, BeginResyncGood
<1> QED BY <1>2, <1>3, <1>4, <1>5 DEF LiveVerdict, Verdict

--------------------------------------------------------------------------------
(* The steps of the stream. *)

(* A machine stays good while the exchange moves on, and becomes the next state. *)
LEMMA GoodMachineNext ==
  ASSUME Env, now' \in 1..MaxId, sent' \in 0..now', now <= now', sent <= sent', market' = market,
         NEW m, GoodMachine(m), sync' = m
  PROVE  GoodMachine(sync)'
<1>1. m \in Machine /\ m.pending \in Seq(Diff) /\ m.current.id \in Ids
  BY DEF GoodMachine, Machine, LocalDepthCache
<1>2. \A i \in 1..Len(m.pending) : m.pending[i] \in Diff /\ ValidDiff(m.pending[i])
  BY <1>1 DEF GoodMachine
<1>3. \A d \in Diff : ValidDiff(d) => ValidDiff(d)'
  <2> SUFFICES ASSUME NEW d \in Diff, ValidDiff(d) PROVE ValidDiff(d)'
    OBVIOUS
  <2>1. d.final \in Ids
    BY DEF Diff
  <2> QED BY <2>1, MaxIdAssumption DEF ValidDiff, Env
<1>4. \A i \in 1..Len(m.pending) : ValidDiff(m.pending[i])'
  BY <1>2, <1>3
<1>5. sync'.rx.status = "ok" => sync'.rx.id \in 1..now'
  BY MaxIdAssumption DEF GoodMachine, Env
<1>6. sync'.current.id <= now'
  BY <1>1, MaxIdAssumption DEF GoodMachine, Env
<1>7. /\ sync' \in Machine /\ sync'.prev_id \in {0, sync'.current.id}
      /\ sync'.current.id # 0 => sync'.current.depth = Book[sync'.current.id]
  BY <1>1 DEF GoodMachine, Faithful
<1>8. \A i \in 1..Len(sync'.pending) : /\ sync'.pending[i].pu < sync'.pending[i].first
                                       /\ sync'.pending[i].first <= sync'.pending[i].final
                                       /\ sync'.pending[i].final <= sent'
                                       /\ market' = "Spot" => sync'.pending[i].first = sync'.pending[i].pu + 1
  BY <1>4 DEF ValidDiff
<1> QED BY <1>5, <1>6, <1>7, <1>8 DEF GoodMachine, ValidDiff, Faithful

LEMMA WireValidNext ==
  ASSUME Env, TypeOK, WireValid, sent <= sent', sent' \in Nat, market' = market, wire' = wire
  PROVE  WireValid'
<1> SUFFICES ASSUME NEW i \in 1..Len(wire) PROVE ValidDiff(wire[i])'
  BY DEF WireValid
<1>1. wire[i] \in Diff /\ ValidDiff(wire[i])
  BY DEF TypeOK, WireValid
<1>2. wire[i].final \in Ids
  BY <1>1 DEF Diff
<1> QED BY <1>1, <1>2, MaxIdAssumption DEF ValidDiff, Env

(* The head of the wire is a diff, and the rest is a valid wire. *)
LEMMA WireHead ==
  ASSUME TypeOK, WireValid, wire # <<>>
  PROVE  /\ Head(wire) \in Diff /\ ValidDiff(Head(wire))
         /\ Tail(wire) \in Seq(Diff) /\ Len(Tail(wire)) <= MaxWire
         /\ \A i \in 1..Len(Tail(wire)) : ValidDiff(Tail(wire)[i])
<1>1. wire \in Seq(Diff) /\ Len(wire) <= MaxWire /\ Len(wire) \in Nat /\ Len(wire) # 0
  BY DEF TypeOK
<1>2. Head(wire) = wire[1] /\ 1 \in 1..Len(wire)
  BY <1>1
<1>3. /\ Tail(wire) \in Seq(Diff) /\ Len(Tail(wire)) = Len(wire) - 1
      /\ \A i \in 1..Len(Tail(wire)) : Tail(wire)[i] = wire[i + 1] /\ i + 1 \in 1..Len(wire)
  BY <1>1
<1> QED BY <1>1, <1>2, <1>3, BoundsAssumption DEF WireValid

LEMMA ApplyDiffType ==
  ASSUME NEW cache \in LocalDepthCache, NEW d \in Diff
  PROVE  ApplyDiff(cache, d) \in LocalDepthCache /\ ApplyDiff(cache, d).id = d.final
<1>1. d.final \in Ids /\ cache.depth \in [Level -> Qty]
  BY DEF Diff, LocalDepthCache, Depth
<1>2. Book[d.final] \in [Level -> Qty]
  BY <1>1, BookAssumption
<1> QED BY <1>1, <1>2 DEF ApplyDiff, LocalDepthCache, Depth

(* Only the gap flag of a machine changes when the gap is taken. *)
LEMMA TakeGapGood ==
  ASSUME NEW m, GoodMachine(m), NEW gap \in BOOLEAN
  PROVE  /\ GoodMachine([m EXCEPT !.gap_detected = @ /\ ~gap])
         /\ [m EXCEPT !.gap_detected = @ /\ ~gap].state = m.state
         /\ [m EXCEPT !.gap_detected = @ /\ ~gap].current = m.current
<1> DEFINE r == [m EXCEPT !.gap_detected = @ /\ ~gap]
<1>1. m \in Machine
  BY DEF GoodMachine
<1>2. /\ r \in Machine /\ r.pending = m.pending /\ r.prev_id = m.prev_id
      /\ r.current = m.current /\ r.rx = m.rx /\ r.state = m.state
  <2>1. m.gap_detected \in BOOLEAN /\ (m.gap_detected /\ ~gap) \in BOOLEAN
    BY <1>1 DEF Machine
  <2> QED BY <1>1, <2>1 DEF Machine
<1>3. GoodMachine(r)
  <2> HIDE DEF r
  <2> QED BY <1>2 DEF GoodMachine
<1> QED BY <1>2, <1>3

(* What the consumers of one on_text see of the machine. *)
LEMMA UpdateOutcome ==
  ASSUME NEW m, GoodMachine(m), NEW d \in Diff
  PROVE  /\ m.state = "WaitingSnapshot" => HandleDepthUpdate(m, d).state = "WaitingSnapshot"
         /\ m.state = "Live" /\ LiveVerdict(m, d) = "Skipped" => HandleDepthUpdate(m, d) = m
         /\ m.state = "Live" /\ LiveVerdict(m, d) = "Applied" =>
              /\ HandleDepthUpdate(m, d).state = "Live"
              /\ HandleDepthUpdate(m, d).current = ApplyDiff(m.current, d)
         /\ m.state = "Live" /\ LiveVerdict(m, d) = "NeedsResync" =>
              HandleDepthUpdate(m, d).gap_detected = TRUE
         /\ LiveVerdict(m, d) \in {"Skipped", "Applied", "NeedsResync"}
<1>1. m \in Machine
  BY DEF GoodMachine
<1>2. ASSUME m.state = "WaitingSnapshot"
      PROVE  HandleDepthUpdate(m, d).state = "WaitingSnapshot"
  BY <1>1, <1>2 DEF HandleDepthUpdate, QueuePendingDiff, Machine
<1>3. ASSUME m.state = "Live", LiveVerdict(m, d) = "Skipped"
      PROVE  HandleDepthUpdate(m, d) = m
  BY <1>3 DEF HandleDepthUpdate, OnLiveDiff
<1>4. ASSUME m.state = "Live", LiveVerdict(m, d) = "Applied"
      PROVE  /\ HandleDepthUpdate(m, d).state = "Live"
             /\ HandleDepthUpdate(m, d).current = ApplyDiff(m.current, d)
  <2>1. HandleDepthUpdate(m, d) = [m EXCEPT !.current = ApplyDiff(@, d), !.prev_id = d.final]
    BY <1>4 DEF HandleDepthUpdate, OnLiveDiff
  <2> QED BY <1>1, <1>4, <2>1 DEF Machine
<1>5. ASSUME m.state = "Live", LiveVerdict(m, d) = "NeedsResync"
      PROVE  HandleDepthUpdate(m, d).gap_detected = TRUE
  <2> DEFINE r == [m EXCEPT !.gap_detected = TRUE, !.pending = <<d>>, !.prev_id = 0]
  <2>1. HandleDepthUpdate(m, d) = BeginResync(r)
    BY <1>5 DEF HandleDepthUpdate, OnLiveDiff
  <2>2. r.gap_detected = TRUE /\ r = [r EXCEPT !.state = r.state]
    BY <1>1 DEF Machine
  <2>3. BeginResync(r).gap_detected = TRUE
    BY <1>1 DEF BeginResync, Machine
  <2> QED BY <2>1, <2>3
<1>6. LiveVerdict(m, d) \in {"Skipped", "Applied", "NeedsResync"}
  BY DEF LiveVerdict, Verdict
<1> QED BY <1>2, <1>3, <1>4, <1>5, <1>6

--------------------------------------------------------------------------------
(* The invariant: the books are faithful and the mirror is the machine's book. *)

Inv == IInv /\ MirrorIsCurrent

LEMMA InvEnv == TypeOK => Env
BY DEF TypeOK, Env

LEMMA EmptyCacheType == EmptyCache \in LocalDepthCache /\ EmptyCache.id = 0 /\ Faithful(EmptyCache)
BY ZeroId, QtyAssumption DEF EmptyCache, LocalDepthCache, Depth, Faithful

LEMMA NewMachineGood ==
  ASSUME Env
  PROVE  GoodMachine(NewMachine) /\ NewMachine.current = EmptyCache
<1>1. EmptyCache \in LocalDepthCache /\ EmptyCache.id = 0 /\ Faithful(EmptyCache)
  BY EmptyCacheType
<1>2. Rx("none") \in SnapshotRx /\ Rx("none").status = "none"
  BY RxType
<1>3. NewMachine \in Machine
  <2>1. <<>> \in Seq(Diff)
    OBVIOUS
  <2> HIDE DEF Ids
  <2> QED BY <1>1, <1>2, <2>1, ZeroId DEF NewMachine, Machine
<1>4. /\ NewMachine.pending = <<>> /\ NewMachine.prev_id = 0 /\ NewMachine.rx = Rx("none")
      /\ NewMachine.current = EmptyCache
  BY DEF NewMachine
<1> HIDE DEF Ids
<1> QED BY <1>1, <1>2, <1>3, <1>4 DEF GoodMachine, Env

LEMMA InitInv == Init => Inv
<1> SUFFICES ASSUME Init PROVE Inv
  OBVIOUS
<1>1. Env
  BY MaxIdAssumption DEF Init, Env
<1>2. GoodMachine(sync) /\ sync = NewMachine
  BY <1>1, NewMachineGood DEF Init
<1>3. EmptyCache \in LocalDepthCache /\ EmptyCache.id = 0 /\ Faithful(EmptyCache)
  BY EmptyCacheType
<1>4. mirror \in Mirror /\ mirror.quality # "Healthy"
  <2>1. EmptyCache.depth \in Depth
    BY <1>3 DEF LocalDepthCache
  <2> HIDE DEF Ids
  <2> QED BY <2>1, ZeroId DEF Init, Mirror, Quality
<1>5. TypeOK
  <2>1. wire \in Seq(Diff) /\ Len(wire) <= MaxWire
    BY BoundsAssumption DEF Init
  <2>2. now \in 1..MaxId /\ sent \in 0..now
    BY <1>1 DEF Env
  <2>4. market \in Market /\ connected \in BOOLEAN
    BY DEF Init
  <2>3. sync \in Machine /\ shown \in LocalDepthCache
    BY <1>2, <1>3 DEF Init, GoodMachine
  <2> QED BY <1>4, <2>1, <2>2, <2>3, <2>4 DEF TypeOK
<1>6. WireValid
  BY DEF Init, WireValid
<1> QED BY <1>2, <1>3, <1>4, <1>5, <1>6 DEF Init, Inv, IInv, MirrorIsCurrent

LEMMA ExchangeStepInv ==
  ASSUME Inv, Tick \/ (\E first \in (sent + 1)..now : Emit(first))
  PROVE  Inv'
<1>1. TypeOK /\ WireValid /\ GoodMachine(sync) /\ Faithful(shown) /\ MirrorIsCurrent /\ Env
  BY InvEnv DEF Inv, IInv
<1>2. /\ market' = market /\ connected' = connected /\ sync' = sync /\ shown' = shown
      /\ mirror' = mirror
  BY DEF Tick, Emit
<1>3. now' \in 1..MaxId /\ sent' \in 0..now' /\ now <= now' /\ sent <= sent'
  <2>1. CASE Tick
    BY <1>1, <2>1, MaxIdAssumption DEF Tick, Env
  <2>2. CASE \E first \in (sent + 1)..now : Emit(first)
    <3>1. now' = now /\ sent' = now
      BY <2>2 DEF Emit
    <3> QED BY <1>1, <3>1, MaxIdAssumption DEF Env
  <2> QED BY <2>1, <2>2
<1>4. GoodMachine(sync)'
  BY <1>1, <1>2, <1>3, GoodMachineNext
<1>5. wire' \in Seq(Diff) /\ Len(wire') <= MaxWire /\ WireValid'
  <2>1. CASE wire' = wire
    BY <1>1, <1>2, <1>3, <2>1, WireValidNext DEF TypeOK
  <2>2. CASE wire' # wire
    <3>1. PICK first \in (sent + 1)..now : Emit(first) /\ connected
      BY <2>2 DEF Tick, Emit
    <3> DEFINE d == [pu |-> sent, first |-> first, final |-> now]
    <3>2. wire' = Append(wire, d) /\ Len(wire) < MaxWire /\ sent' = now
      BY <3>1 DEF Emit
    <3>3. d \in Diff
      BY <1>1, <3>1, MaxIdAssumption DEF Diff, Env
    <3>4. /\ d.pu < d.first /\ d.first <= d.final /\ d.final <= sent'
          /\ market' = "Spot" => d.first = d.pu + 1
      BY <1>1, <1>2, <3>1, <3>2, MaxIdAssumption DEF Emit, Env
    <3>5. wire \in Seq(Diff) /\ Len(wire) \in Nat
      BY <1>1 DEF TypeOK
    <3>6. /\ Append(wire, d) \in Seq(Diff) /\ Len(Append(wire, d)) = Len(wire) + 1
          /\ \A i \in 1..Len(wire) + 1 :
               Append(wire, d)[i] = IF i \in 1..Len(wire) THEN wire[i] ELSE d
      <4> HIDE DEF d
      <4> QED BY <3>3, <3>5
    <3>7. \A i \in 1..Len(wire) :
            /\ wire[i].pu < wire[i].first /\ wire[i].first <= wire[i].final
            /\ wire[i].final <= sent'
            /\ market' = "Spot" => wire[i].first = wire[i].pu + 1
      <4> SUFFICES ASSUME NEW i \in 1..Len(wire)
                   PROVE  /\ wire[i].pu < wire[i].first /\ wire[i].first <= wire[i].final
                          /\ wire[i].final <= sent'
                          /\ market' = "Spot" => wire[i].first = wire[i].pu + 1
        OBVIOUS
      <4>1. wire[i] \in Diff /\ ValidDiff(wire[i])
        BY <1>1, <3>5 DEF WireValid
      <4>2. wire[i].final \in Ids
        BY <4>1 DEF Diff
      <4> QED BY <1>1, <1>2, <1>3, <4>1, <4>2, MaxIdAssumption DEF ValidDiff, Env
    <3> HIDE DEF d
    <3>8. \A i \in 1..Len(wire') :
            /\ wire'[i].pu < wire'[i].first /\ wire'[i].first <= wire'[i].final
            /\ wire'[i].final <= sent'
            /\ market' = "Spot" => wire'[i].first = wire'[i].pu + 1
      BY <3>2, <3>4, <3>5, <3>6, <3>7
    <3>9. WireValid'
      BY <3>8 DEF WireValid, ValidDiff
    <3> QED BY <3>2, <3>5, <3>6, <3>9, BoundsAssumption
  <2> QED BY <2>1, <2>2
<1>6. TypeOK'
  BY <1>1, <1>2, <1>3, <1>5 DEF TypeOK
<1> QED BY <1>1, <1>2, <1>4, <1>5, <1>6 DEF Inv, IInv, MirrorIsCurrent, Faithful

LEMMA AnswerInv == ASSUME Inv, NEW rx \in SnapshotRx, Answer(rx) PROVE Inv'
<1>1. TypeOK /\ WireValid /\ GoodMachine(sync) /\ Faithful(shown) /\ MirrorIsCurrent /\ Env
  BY InvEnv DEF Inv, IInv
<1>2. UNCHANGED <<market, now, sent, wire, connected, shown, mirror>>
  BY DEF Answer
<1> DEFINE m == [sync EXCEPT !.rx = rx]
<1>3. /\ m \in Machine /\ m.rx = rx /\ m.pending = sync.pending /\ m.prev_id = sync.prev_id
      /\ m.current = sync.current /\ m.state = sync.state
  <2>1. sync \in Machine
    BY <1>1 DEF GoodMachine
  <2> QED BY <2>1 DEF Machine
<1>4. sync' = m
  BY DEF Answer
<1>5. rx.status = "ok" => rx.id \in 1..now
  BY DEF Answer
<1> HIDE DEF m
<1>6. GoodMachine(m)
  BY <1>1, <1>3, <1>5 DEF GoodMachine
<1>7. GoodMachine(sync)'
  BY <1>1, <1>2, <1>4, <1>6, GoodMachineNext DEF Env
<1>8. TypeOK' /\ WireValid'
  <2>1. sync' \in Machine
    BY <1>3, <1>4
  <2> QED BY <1>1, <1>2, <2>1 DEF TypeOK, WireValid, ValidDiff
<1> QED BY <1>1, <1>2, <1>3, <1>4, <1>7, <1>8 DEF Inv, IInv, MirrorIsCurrent, Faithful

LEMMA MirrorQualityType ==
  ASSUME NEW v \in Mirror, NEW q \in Quality
  PROVE  [v EXCEPT !.quality = q] \in Mirror /\ [v EXCEPT !.quality = q].quality = q
BY DEF Mirror

LEMMA ConnectInv == ASSUME Inv, Connect PROVE Inv'
<1>1. TypeOK /\ WireValid /\ GoodMachine(sync) /\ Faithful(shown) /\ MirrorIsCurrent /\ Env
  BY InvEnv DEF Inv, IInv
<1>2. UNCHANGED <<market, now, sent, wire, shown>> /\ connected' = TRUE
  BY DEF Connect
<1>3. GoodMachine(BeginResync(NewMachine)) /\ sync' = BeginResync(NewMachine)
  BY <1>1, NewMachineGood, BeginResyncGood DEF Connect
<1>4. GoodMachine(sync)'
  BY <1>1, <1>2, <1>3, GoodMachineNext DEF Env
<1>5. mirror' \in Mirror /\ (market = "LinearPerps" => mirror'.quality # "Healthy")
  <2>1. mirror \in Mirror /\ "Synchronizing" \in Quality
    BY <1>1 DEF TypeOK, Quality
  <2> QED BY <2>1, MirrorQualityType DEF Connect
<1>6. TypeOK' /\ WireValid'
  <2>1. sync' \in Machine
    BY <1>3 DEF GoodMachine
  <2> QED BY <1>1, <1>2, <1>5, <2>1 DEF TypeOK, WireValid, ValidDiff
<1> QED BY <1>1, <1>2, <1>4, <1>5, <1>6 DEF Inv, IInv, MirrorIsCurrent, Faithful

LEMMA DisconnectInv == ASSUME Inv, SocketLost \/ OnTextFails PROVE Inv'
<1>1. TypeOK /\ WireValid /\ GoodMachine(sync) /\ Faithful(shown) /\ MirrorIsCurrent /\ Env
  BY InvEnv DEF Inv, IInv
<1>2. UNCHANGED <<market, now, sent, shown>> /\ connected' = FALSE /\ wire' = <<>>
  BY DEF SocketLost, OnTextFails, Disconnected
<1>3. GoodMachine(sync') /\ sync' \in Machine
  <2>1. CASE SocketLost
    <3>1. sync' = sync
      BY <2>1 DEF SocketLost
    <3> QED BY <1>1, <3>1 DEF GoodMachine
  <2>2. CASE OnTextFails
    <3> DEFINE m == [sync EXCEPT !.rx = Rx("none")]
    <3>1. Rx("none") \in SnapshotRx /\ Rx("none").status = "none"
      BY RxType
    <3>2. sync \in Machine
      BY <1>1 DEF GoodMachine
    <3>3. /\ m \in Machine /\ m.rx = Rx("none") /\ m.pending = sync.pending
          /\ m.prev_id = sync.prev_id /\ m.current = sync.current
      BY <3>1, <3>2 DEF Machine
    <3>4. sync' = m
      BY <2>2 DEF OnTextFails
    <3> HIDE DEF m
    <3> QED BY <1>1, <3>1, <3>3, <3>4 DEF GoodMachine
  <2> QED BY <2>1, <2>2
<1>4. GoodMachine(sync)'
  BY <1>1, <1>2, <1>3, GoodMachineNext DEF Env
<1>5. mirror' \in Mirror /\ (market = "LinearPerps" => mirror'.quality # "Healthy")
  <2>1. mirror \in Mirror /\ "Reconnect" \in Quality
    BY <1>1 DEF TypeOK, Quality
  <2> QED BY <2>1, MirrorQualityType DEF SocketLost, OnTextFails, Disconnected
<1>6. TypeOK' /\ WireValid'
  <2>1. wire' \in Seq(Diff) /\ Len(wire') <= MaxWire
    BY <1>2, BoundsAssumption
  <2>2. connected' \in BOOLEAN
    BY <1>2
  <2>3. WireValid'
    <3>1. \A i \in 1..Len(wire') : FALSE
      BY <1>2
    <3> QED BY <3>1 DEF WireValid
  <2>4. UNCHANGED <<market, now, sent, shown>>
    BY <1>2
  <2> QED BY <1>1, <1>3, <1>5, <2>1, <2>2, <2>3, <2>4 DEF TypeOK
<1> QED BY <1>1, <1>2, <1>4, <1>5, <1>6 DEF Inv, IInv, MirrorIsCurrent, Faithful

(* A delta moves the mirror to the diff's final id and keeps its quality. *)
LEMMA AfterDeltaType ==
  ASSUME NEW v \in Mirror, NEW d \in Diff, NEW applied
  PROVE  /\ AfterDelta(v, d, applied) \in Mirror
         /\ AfterDelta(v, d, applied).quality = v.quality
         /\ ~applied => AfterDelta(v, d, applied) = v
         /\ applied /\ market = "LinearPerps" =>
              /\ AfterDelta(v, d, applied).id = d.final
              /\ AfterDelta(v, d, applied).depth =
                   ApplyDiff([id |-> v.id, depth |-> v.depth], d).depth
<1>1. CASE applied /\ market = "LinearPerps"
  <2> DEFINE c == ApplyDiff([id |-> v.id, depth |-> v.depth], d)
  <2>1. [id |-> v.id, depth |-> v.depth] \in LocalDepthCache
    BY DEF Mirror, LocalDepthCache
  <2>2. c.depth \in Depth /\ d.final \in Ids
    BY <2>1, ApplyDiffType DEF LocalDepthCache, Diff
  <2>3. AfterDelta(v, d, applied) = [v EXCEPT !.id = d.final, !.depth = c.depth]
    BY <1>1 DEF AfterDelta
  <2> HIDE DEF c, Ids
  <2>4. [v EXCEPT !.id = d.final, !.depth = c.depth] \in Mirror
    BY <2>2 DEF Mirror
  <2>5. LET w == [v EXCEPT !.id = d.final, !.depth = c.depth]
        IN w.quality = v.quality /\ w.id = d.final /\ w.depth = c.depth
    BY DEF Mirror
  <2> QED BY <1>1, <2>3, <2>4, <2>5 DEF c
<1>2. CASE ~(applied /\ market = "LinearPerps")
  BY <1>2 DEF AfterDelta
<1> QED BY <1>1, <1>2

(* The poll at the head of on_text: the machine stays good, and the mirror stays *)
(* the machine's book.                                                           *)
LEMMA PollInv ==
  ASSUME Inv, NEW m1, m1 = PollSnapshot(sync), NEW v1, v1 = AfterPoll(mirror, sync, m1)
  PROVE  /\ GoodMachine(m1)
         /\ v1 \in Mirror
         /\ market = "LinearPerps" /\ v1.quality = "Healthy" =>
              m1.state = "Live" /\ v1.id # 0 /\ v1.id = m1.current.id /\ v1.depth = m1.current.depth
<1>1. TypeOK /\ GoodMachine(sync) /\ MirrorIsCurrent /\ Env /\ mirror \in Mirror
  BY InvEnv DEF Inv, IInv, TypeOK
<1>2. /\ GoodMachine(m1)
      /\ sync.state = "WaitingSnapshot" /\ m1.state = "Live" => m1.current.id # 0
  BY <1>1, PollSnapshotGood
<1>3. m1 \in Machine /\ sync \in Machine
  BY <1>1, <1>2 DEF GoodMachine
<1>4. CASE sync.state = "WaitingSnapshot" /\ m1.state = "Live"
  <2>1. v1 = [quality |-> "Healthy", id |-> m1.current.id, depth |-> m1.current.depth]
    BY <1>4 DEF AfterPoll
  <2>2. m1.current.id \in Ids /\ m1.current.depth \in Depth
    BY <1>3 DEF Machine, LocalDepthCache
  <2> HIDE DEF Ids
  <2> QED BY <1>2, <1>4, <2>1, <2>2 DEF Mirror, Quality
<1>5. CASE ~(sync.state = "WaitingSnapshot" /\ m1.state = "Live")
  <2>1. v1 = mirror
    BY <1>5 DEF AfterPoll
  <2>2. CASE sync.state = "Live"
    <3>1. m1 = sync
      BY <2>2 DEF PollSnapshot
    <3> QED BY <1>1, <1>2, <2>1, <3>1 DEF MirrorIsCurrent
  <2>3. CASE sync.state = "WaitingSnapshot"
    BY <1>1, <1>2, <2>1, <2>3 DEF MirrorIsCurrent
  <2> QED BY <1>3, <2>2, <2>3 DEF Machine
<1> QED BY <1>4, <1>5

LEMMA OnUndecodedTextInv == ASSUME Inv, OnUndecodedText PROVE Inv'
<1>1. TypeOK /\ WireValid /\ Faithful(shown) /\ Env
  BY InvEnv DEF Inv, IInv
<1>2. UNCHANGED <<market, now, sent, connected, shown>> /\ wire' = Tail(wire) /\ wire # <<>>
  BY DEF OnUndecodedText
<1> DEFINE m1 == PollSnapshot(sync)
           v1 == AfterPoll(mirror, sync, m1)
<1>3. sync' = m1 /\ mirror' = v1
  BY DEF OnUndecodedText
<1>4. /\ GoodMachine(m1) /\ v1 \in Mirror
      /\ market = "LinearPerps" /\ v1.quality = "Healthy" =>
           m1.state = "Live" /\ v1.id # 0 /\ v1.id = m1.current.id /\ v1.depth = m1.current.depth
  BY PollInv
<1> HIDE DEF m1, v1
<1>5. GoodMachine(sync)'
  BY <1>1, <1>2, <1>3, <1>4, GoodMachineNext DEF Env
<1>6. wire' \in Seq(Diff) /\ Len(wire') <= MaxWire /\ WireValid'
  <2>1. /\ Tail(wire) \in Seq(Diff) /\ Len(Tail(wire)) <= MaxWire
        /\ \A i \in 1..Len(Tail(wire)) : ValidDiff(Tail(wire)[i])
    BY <1>1, <1>2, WireHead
  <2> QED BY <1>2, <2>1 DEF WireValid, ValidDiff
<1>7. TypeOK'
  <2>1. sync' \in Machine
    BY <1>3, <1>4 DEF GoodMachine
  <2> QED BY <1>1, <1>2, <1>3, <1>4, <1>6, <2>1 DEF TypeOK
<1>8. MirrorIsCurrent' /\ Faithful(shown)'
  BY <1>1, <1>2, <1>3, <1>4 DEF MirrorIsCurrent, Faithful
<1> QED BY <1>5, <1>6, <1>7, <1>8 DEF Inv, IInv

LEMMA OnTextInv == ASSUME Inv, OnText PROVE Inv'
<1>1. TypeOK /\ WireValid /\ Faithful(shown) /\ Env
  BY InvEnv DEF Inv, IInv
<1>2. UNCHANGED <<market, now, sent, connected>> /\ wire' = Tail(wire) /\ wire # <<>>
  BY DEF OnText
<1> DEFINE d == Head(wire)
           m1 == PollSnapshot(sync)
           m2 == HandleDepthUpdate(m1, d)
           applied == m1.state = "Live" /\ LiveVerdict(m1, d) = "Applied"
           gap == market = "LinearPerps" /\ m2.gap_detected
           m3 == [m2 EXCEPT !.gap_detected = @ /\ ~gap]
           v1 == AfterPoll(mirror, sync, m1)
           v2 == AfterDelta(v1, d, applied)
           v3 == AfterGap(v2, gap)
<1>3. sync' = m3 /\ shown' = (IF applied THEN m2.current ELSE shown) /\ mirror' = v3
  BY DEF OnText
<1>4. d \in Diff /\ ValidDiff(d)
  BY <1>1, <1>2, WireHead
<1>5. /\ GoodMachine(m1) /\ v1 \in Mirror
      /\ market = "LinearPerps" /\ v1.quality = "Healthy" =>
           m1.state = "Live" /\ v1.id # 0 /\ v1.id = m1.current.id /\ v1.depth = m1.current.depth
  BY PollInv
<1> HIDE DEF m1, v1, d
<1>6. GoodMachine(m2)
  BY <1>1, <1>4, <1>5, HandleDepthUpdateGood
<1>7. /\ m1.state = "WaitingSnapshot" => m2.state = "WaitingSnapshot"
      /\ m1.state = "Live" /\ LiveVerdict(m1, d) = "Skipped" => m2 = m1
      /\ m1.state = "Live" /\ LiveVerdict(m1, d) = "Applied" =>
           m2.state = "Live" /\ m2.current = ApplyDiff(m1.current, d)
      /\ m1.state = "Live" /\ LiveVerdict(m1, d) = "NeedsResync" => m2.gap_detected = TRUE
      /\ LiveVerdict(m1, d) \in {"Skipped", "Applied", "NeedsResync"}
  BY <1>4, <1>5, UpdateOutcome
<1>8. m1 \in Machine /\ m2 \in Machine /\ m2.gap_detected \in BOOLEAN
  BY <1>5, <1>6 DEF GoodMachine, Machine
<1> HIDE DEF m2
<1>9. GoodMachine(m3) /\ m3.state = m2.state /\ m3.current = m2.current
  <2>1. gap \in BOOLEAN
    BY <1>8
  <2> HIDE DEF gap
  <2> QED BY <1>6, <2>1, TakeGapGood
<1>10. GoodMachine(sync)'
  <2> HIDE DEF m3
  <2> QED BY <1>1, <1>2, <1>3, <1>9, GoodMachineNext DEF Env
<1>11. wire' \in Seq(Diff) /\ Len(wire') <= MaxWire /\ WireValid'
  <2>1. /\ Tail(wire) \in Seq(Diff) /\ Len(Tail(wire)) <= MaxWire
        /\ \A i \in 1..Len(Tail(wire)) : ValidDiff(Tail(wire)[i])
    BY <1>1, <1>2, WireHead
  <2> QED BY <1>2, <2>1 DEF WireValid, ValidDiff
<1>12. shown' \in LocalDepthCache /\ Faithful(shown')
  <2>1. m2.current \in LocalDepthCache /\ Faithful(m2.current)
    BY <1>6, <1>8 DEF GoodMachine, Machine
  <2> QED BY <1>1, <1>3, <2>1 DEF TypeOK
<1>13. v2 \in Mirror /\ (~ applied => v2 = v1) /\ v2.quality = v1.quality
  <2> HIDE DEF applied
  <2> QED BY <1>4, <1>5, AfterDeltaType
<1>14. v3 \in Mirror /\ (gap => v3.quality = "Gap") /\ (~gap => v3 = v2)
  <2>1. "Gap" \in Quality
    BY DEF Quality
  <2> HIDE DEF v2, gap
  <2> QED BY <1>13, <2>1, MirrorQualityType DEF AfterGap
<1>15. MirrorIsCurrent'
  <2> SUFFICES ASSUME market = "LinearPerps", v3.quality = "Healthy"
               PROVE  m3.state = "Live" /\ v3.id # 0 /\ v3.id = m3.current.id /\ v3.depth = m3.current.depth
    BY <1>2, <1>3 DEF MirrorIsCurrent
  <2>1. ~gap /\ v3 = v2
    BY <1>14
  <2>2. v1.quality = "Healthy"
    BY <1>13, <2>1
  <2>3. m1.state = "Live" /\ v1.id # 0 /\ v1.id = m1.current.id /\ v1.depth = m1.current.depth
    BY <1>5, <2>2
  <2>4. CASE LiveVerdict(m1, d) = "Applied"
    <3>1. m1.current = [id |-> v1.id, depth |-> v1.depth]
      BY <1>8, <2>3 DEF Machine, LocalDepthCache
    <3>3. v2.id = d.final /\ v2.depth = ApplyDiff(m1.current, d).depth
      <4>1. applied
        BY <2>3, <2>4
      <4> HIDE DEF applied
      <4>2. /\ v2.id = d.final
            /\ v2.depth = ApplyDiff([id |-> v1.id, depth |-> v1.depth], d).depth
        BY <1>4, <1>5, <4>1, AfterDeltaType
      <4> QED BY <3>1, <4>2
    <3>4. ApplyDiff(m1.current, d).id = d.final
      BY <1>4, <1>8, ApplyDiffType DEF Machine
    <3>5. d.final # 0
      <4>1. d.pu \in Ids /\ d.first \in Ids /\ d.final \in Ids
        BY <1>4 DEF Diff
      <4> QED BY <1>4, <4>1, MaxIdAssumption DEF ValidDiff
    <3> HIDE DEF v2, v3, m3
    <3> QED BY <1>7, <1>9, <2>1, <2>3, <2>4, <3>3, <3>4, <3>5
  <2>5. CASE LiveVerdict(m1, d) = "Skipped"
    <3>1. ~ applied
      BY <2>5
    <3> HIDE DEF v2, v3, m3
    <3> QED BY <1>7, <1>9, <1>13, <2>1, <2>3, <2>5, <3>1
  <2>6. CASE LiveVerdict(m1, d) = "NeedsResync"
    BY <1>7, <2>1, <2>3, <2>6
  <2> QED BY <1>7, <2>4, <2>5, <2>6
<1>16. TypeOK'
  <2>1. sync' \in Machine /\ mirror' \in Mirror
    <3> HIDE DEF m3, v3
    <3> QED BY <1>3, <1>9, <1>14 DEF GoodMachine
  <2> QED BY <1>1, <1>2, <1>11, <1>12, <2>1 DEF TypeOK
<1> QED BY <1>10, <1>11, <1>12, <1>15, <1>16 DEF Inv, IInv, Faithful

--------------------------------------------------------------------------------
LEMMA NextInv == Inv /\ [Next]_vars => Inv'
<1> SUFFICES ASSUME Inv, [Next]_vars PROVE Inv'
  OBVIOUS
<1>1. CASE Tick
  BY <1>1, ExchangeStepInv
<1>2. CASE \E first \in (sent + 1)..now : Emit(first)
  BY <1>2, ExchangeStepInv
<1>3. CASE \E rx \in SnapshotRx : Answer(rx)
  BY <1>3, AnswerInv
<1>4. CASE Connect
  BY <1>4, ConnectInv
<1>5. CASE SocketLost
  BY <1>5, DisconnectInv
<1>6. CASE OnText
  BY <1>6, OnTextInv
<1>7. CASE OnUndecodedText
  BY <1>7, OnUndecodedTextInv
<1>8. CASE OnTextFails
  BY <1>8, DisconnectInv
<1>9. CASE UNCHANGED vars
  BY <1>9 DEF vars, Inv, IInv, TypeOK, WireValid, ValidDiff, GoodMachine, Faithful, MirrorIsCurrent
<1> QED BY <1>1, <1>2, <1>3, <1>4, <1>5, <1>6, <1>7, <1>8, <1>9 DEF Next

LEMMA Invariance == Spec => []Inv
BY InitInv, NextInv, PTL DEF Spec

(* The variables keep their types, and the buffers their bounds. *)
THEOREM TypeCorrect == Spec => []TypeOK
<1>1. Inv => TypeOK
  BY DEF Inv, IInv
<1> QED BY <1>1, Invariance, PTL

(* DepthSyncMachine never holds, nor shows, a book the exchange did not have: not   *)
(* after a lagging snapshot, a full buffer, a lost frame, or a reconnect, whatever   *)
(* the exchange's history is.                                                        *)
THEOREM Faithfulness == Spec => []BookFaithful
<1>1. Inv => BookFaithful
  BY DEF Inv, IInv, GoodMachine, BookFaithful
<1> QED BY <1>1, Invariance, PTL

(* A consumer of the order-flow events that was last told Healthy has rebuilt the   *)
(* machine's own book from them.                                                     *)
THEOREM MirrorCorrect == Spec => []MirrorIsCurrent
<1>1. Inv => MirrorIsCurrent
  BY DEF Inv
<1> QED BY <1>1, Invariance, PTL

--------------------------------------------------------------------------------
(* What one frame does to the mirror of a consumer that believes it is healthy. *)

LEMMA HealthyStep ==
  ASSUME Inv, Next, market = "LinearPerps",
         mirror.quality = "Healthy", mirror'.quality = "Healthy"
  PROVE  mirror'.id > mirror.id \/ mirror' = mirror
<1>1. /\ TypeOK /\ WireValid /\ GoodMachine(sync) /\ sync.state = "Live"
      /\ mirror.id = sync.current.id /\ mirror \in Mirror
  BY DEF Inv, IInv, MirrorIsCurrent, TypeOK
<1>2. PollSnapshot(sync) = sync /\ AfterPoll(mirror, sync, sync) = mirror
  BY <1>1 DEF PollSnapshot, AfterPoll
<1>3. CASE OnText
  <2> DEFINE d == Head(wire)
             m2 == HandleDepthUpdate(sync, d)
             applied == sync.state = "Live" /\ LiveVerdict(sync, d) = "Applied"
             gap == market = "LinearPerps" /\ m2.gap_detected
             v2 == AfterDelta(mirror, d, applied)
  <2>1. mirror' = AfterGap(v2, gap)
    BY <1>2, <1>3 DEF OnText
  <2>d. d \in Diff
    BY <1>1, <1>3, WireHead DEF OnText
  <2>2. v2 \in Mirror /\ (~applied => v2 = mirror) /\ (applied => v2.id = d.final)
    <3> HIDE DEF d, applied
    <3> QED BY <1>1, <2>d, AfterDeltaType
  <2>3. CASE applied
    <3>2. d.final > mirror.id
      <4>1. ~(d.final <= sync.current.id) /\ d.final \in Ids
        BY <2>3, <2>d DEF LiveVerdict, Verdict, Diff
      <4>2. sync.current.id \in Ids
        BY <1>1 DEF Mirror
      <4> HIDE DEF d
      <4> QED BY <1>1, <4>1, <4>2, MaxIdAssumption
    <3>3. v2.id = d.final
      BY <2>2, <2>3
    <3>4. AfterGap(v2, gap).id = v2.id
      <4> HIDE DEF v2, gap
      <4> QED BY <2>2 DEF AfterGap, Mirror
    <3> QED BY <2>1, <3>2, <3>3, <3>4
  <2>4. CASE ~applied
    <3>1. v2 = mirror
      BY <2>2, <2>4
    <3>2. mirror' = mirror \/ (gap /\ mirror' = [mirror EXCEPT !.quality = "Gap"])
      BY <2>1, <3>1 DEF AfterGap
    <3>3. gap => mirror'.quality = "Gap"
      BY <1>1, <2>1, <3>1 DEF AfterGap, Mirror
    <3> QED BY <3>2, <3>3
  <2> QED BY <2>3, <2>4
<1>4. CASE OnUndecodedText
  BY <1>2, <1>4 DEF OnUndecodedText
<1>5. CASE Connect
  BY <1>1, <1>5 DEF Connect, Mirror
<1>6. CASE SocketLost \/ OnTextFails
  BY <1>1, <1>6 DEF SocketLost, OnTextFails, Disconnected, Mirror
<1>7. CASE Tick \/ (\E first \in (sent + 1)..now : Emit(first))
  BY <1>7 DEF Tick, Emit
<1>8. CASE \E rx \in SnapshotRx : Answer(rx)
  BY <1>8 DEF Answer
<1> QED BY <1>3, <1>4, <1>5, <1>6, <1>7, <1>8 DEF Next

(* A view that is not Lost is an image of the exchange's history. *)
LEMMA ViewIsImage ==
  ASSUME Inv, View # Lost
  PROVE  /\ mirror.id \in 1..now
         /\ View = [id |-> mirror.id, depth |-> Book[mirror.id]]
<1>1. market = "LinearPerps" /\ mirror.quality = "Healthy"
  BY DEF View
<1>2. /\ GoodMachine(sync) /\ mirror.id = sync.current.id /\ mirror.depth = sync.current.depth
      /\ mirror.id # 0 /\ mirror.id \in Ids /\ now \in 1..MaxId
  BY <1>1 DEF Inv, IInv, MirrorIsCurrent, TypeOK, Mirror
<1>3. mirror.id \in 1..now
  BY <1>2, MaxIdAssumption DEF GoodMachine
<1>4. mirror.depth = Book[mirror.id]
  BY <1>2 DEF GoodMachine, Faithful
<1> QED BY <1>1, <1>3, <1>4 DEF View

LEMMA AbstractInit == Init => Abstract!Init
BY DEF Init, View, Abstract!Init

LEMMA AbstractStep == Inv /\ Inv' /\ [Next]_vars => [Abstract!Next]_(Abstract!vars)
<1> SUFFICES ASSUME Inv, Inv', [Next]_vars PROVE [Abstract!Next]_(Abstract!vars)
  OBVIOUS
<1>1. CASE UNCHANGED vars
  BY <1>1 DEF vars, Abstract!vars, View
<1>2. CASE Tick
  <2>1. now < MaxId /\ now' = now + 1 /\ UNCHANGED View
    BY <1>2 DEF Tick, View
  <2> QED BY <2>1 DEF Abstract!Tick, Abstract!Next
<1>3. CASE Next /\ ~Tick
  <2>1. now' = now /\ market' = market
    BY <1>3 DEF Next, Emit, Answer, Connect, SocketLost, OnText, OnUndecodedText, OnTextFails,
                Disconnected
  <2>2. CASE View' = Lost
    BY <2>1, <2>2 DEF Abstract!Lose, Abstract!Next
  <2>3. CASE View' # Lost
    <3>1. mirror'.id \in 1..now /\ View' = [id |-> mirror'.id, depth |-> Book[mirror'.id]]
      <4>1. /\ mirror'.id \in 1..now'
            /\ View' = [id |-> mirror'.id, depth |-> Book[mirror'.id]]
        <5>1. market' = "LinearPerps" /\ mirror'.quality = "Healthy"
          BY <2>3 DEF View
        <5>2. /\ GoodMachine(sync)' /\ mirror'.id = sync'.current.id
              /\ mirror'.depth = sync'.current.depth
              /\ mirror'.id # 0 /\ mirror'.id \in Ids /\ now' \in 1..MaxId
          BY <5>1 DEF Inv, IInv, MirrorIsCurrent, TypeOK, Mirror
        <5>3. mirror'.id \in 1..now'
          BY <5>2, MaxIdAssumption DEF GoodMachine
        <5>4. mirror'.depth = Book[mirror'.id]
          BY <5>2 DEF GoodMachine, Faithful
        <5> QED BY <5>1, <5>3, <5>4 DEF View
      <4> QED BY <2>1, <4>1
    <3>2. View' = Abstract!Image(mirror'.id)
      BY <3>1 DEF Abstract!Image
    <3>3. CASE View = Lost
      BY <2>1, <3>1, <3>2, <3>3 DEF Abstract!Sync, Abstract!Next
    <3>4. CASE View # Lost
      <4>1. /\ market = "LinearPerps" /\ mirror.quality = "Healthy"
            /\ mirror'.quality = "Healthy" /\ View.id = mirror.id
        BY <2>3, <3>4 DEF View
      <4>2. CASE mirror'.id > mirror.id
        BY <2>1, <3>1, <3>2, <3>4, <4>1, <4>2 DEF Abstract!Advance, Abstract!Next
      <4>3. CASE mirror' = mirror
        BY <2>1, <4>3 DEF View, Abstract!vars
      <4> QED BY <1>3, <4>1, <4>2, <4>3, HealthyStep
    <3> QED BY <3>3, <3>4
  <2> QED BY <2>2, <2>3
<1> QED BY <1>1, <1>2, <1>3

(* The stream implements BookMirror: a consumer holds an image of the exchange's     *)
(* history that only moves forward, or has been told that it holds none.             *)
THEOREM Implementation == Spec => ImplementsBookMirror
BY AbstractInit, AbstractStep, Invariance, PTL DEF Spec, ImplementsBookMirror, Abstract!Spec

--------------------------------------------------------------------------------
(* Order of the frames on the wire, and of the book shown before them. *)
Ordered ==
    /\ \A i, j \in 1..Len(wire) : i < j => wire[i].final <= wire[j].pu
    /\ \A i \in 1..Len(wire) : shown.id <= wire[i].pu
    /\ shown.id <= sent

LEMMA OrderedEmit ==
  ASSUME Inv, Ordered, NEW first \in (sent + 1)..now, Emit(first)
  PROVE  Ordered' /\ shown'.id >= shown.id
<1>1. /\ wire \in Seq(Diff) /\ Len(wire) \in Nat /\ WireValid /\ shown \in LocalDepthCache
      /\ now \in 1..MaxId /\ sent \in 0..now
  BY DEF Inv, IInv, TypeOK
<1>2. shown' = shown /\ sent' = now /\ sent \in Ids /\ shown.id \in Ids /\ now \in Ids
  BY <1>1, MaxIdAssumption DEF Emit, LocalDepthCache
<1>3. shown'.id <= sent' /\ shown'.id >= shown.id
  BY <1>1, <1>2, MaxIdAssumption DEF Ordered
<1>4. CASE wire' = wire
  BY <1>2, <1>3, <1>4 DEF Ordered
<1>5. CASE wire' # wire
  <2> DEFINE d == [pu |-> sent, first |-> first, final |-> now]
  <2>1. wire' = Append(wire, d)
    BY <1>5 DEF Emit
  <2>2. d \in Diff /\ d.pu = sent
    BY <1>1, <1>2, MaxIdAssumption DEF Diff
  <2>3. /\ Len(wire') = Len(wire) + 1
        /\ \A i \in 1..Len(wire) + 1 : wire'[i] = IF i \in 1..Len(wire) THEN wire[i] ELSE d
    <3> HIDE DEF d
    <3> QED BY <1>1, <2>1, <2>2
  <2>4. \A i \in 1..Len(wire) : wire[i].final <= sent
    BY <1>1 DEF WireValid, ValidDiff
  <2> HIDE DEF d
  <2>5. \A i, j \in 1..Len(wire') : i < j => wire'[i].final <= wire'[j].pu
    BY <1>1, <2>2, <2>3, <2>4 DEF Ordered
  <2>6. \A i \in 1..Len(wire') : shown'.id <= wire'[i].pu
    BY <1>1, <1>2, <2>2, <2>3 DEF Ordered
  <2> QED BY <1>3, <2>5, <2>6 DEF Ordered
<1> QED BY <1>4, <1>5

(* Reading the head of the wire keeps the order, whether it is shown or not. *)
LEMMA OrderedRead ==
  ASSUME Inv, Ordered, wire # <<>>, wire' = Tail(wire), sent' = sent,
         shown' = shown \/ shown'.id = Head(wire).final
  PROVE  Ordered' /\ shown'.id >= shown.id
<1>1. /\ wire \in Seq(Diff) /\ Len(wire) \in Nat /\ Len(wire) # 0 /\ WireValid
      /\ shown \in LocalDepthCache /\ now \in 1..MaxId /\ sent \in 0..now
  BY DEF Inv, IInv, TypeOK
<1>2. shown.id \in Ids /\ sent \in Ids
  BY <1>1, MaxIdAssumption DEF LocalDepthCache
<1>3. /\ Len(wire') = Len(wire) - 1 /\ Head(wire) = wire[1] /\ 1 \in 1..Len(wire)
      /\ \A i \in 1..Len(wire') : wire'[i] = wire[i + 1] /\ i + 1 \in 1..Len(wire)
  BY <1>1
<1>4. wire[1] \in Diff /\ ValidDiff(wire[1])
  BY <1>1, <1>3 DEF WireValid
<1>5. /\ wire[1].pu \in Ids /\ wire[1].first \in Ids /\ wire[1].final \in Ids
      /\ shown.id <= wire[1].pu /\ wire[1].pu < wire[1].final /\ wire[1].final <= sent
  <2>1. wire[1].pu \in Ids /\ wire[1].first \in Ids /\ wire[1].final \in Ids
    BY <1>4 DEF Diff
  <2>2. shown.id <= wire[1].pu
    BY <1>3 DEF Ordered
  <2> QED BY <1>4, <2>1, <2>2, MaxIdAssumption DEF ValidDiff
<1>6. shown'.id >= shown.id /\ shown'.id <= sent'
  BY <1>2, <1>3, <1>5, MaxIdAssumption DEF Ordered
<1>7. \A i, j \in 1..Len(wire') : i < j => wire'[i].final <= wire'[j].pu
  BY <1>1, <1>3 DEF Ordered
<1>8. \A i \in 1..Len(wire') : shown'.id <= wire'[i].pu
  <2> SUFFICES ASSUME NEW i \in 1..Len(wire') PROVE shown'.id <= wire[i + 1].pu
    BY <1>3
  <2>1. i + 1 \in 1..Len(wire) /\ 1 < i + 1
    BY <1>1, <1>3
  <2>2. shown.id <= wire[i + 1].pu /\ wire[1].final <= wire[i + 1].pu
    BY <1>3, <2>1 DEF Ordered
  <2> QED BY <1>3, <2>2
<1> QED BY <1>6, <1>7, <1>8 DEF Ordered

LEMMA OrderedStep == Inv /\ Ordered /\ [Next]_vars => Ordered' /\ (shown'.id >= shown.id)
<1> SUFFICES ASSUME Inv, Ordered, [Next]_vars PROVE Ordered' /\ shown'.id >= shown.id
  OBVIOUS
<1>1. shown.id \in Ids /\ sent \in Ids
  BY MaxIdAssumption DEF Inv, IInv, TypeOK, LocalDepthCache
<1>2. CASE \E first \in (sent + 1)..now : Emit(first)
  BY <1>2, OrderedEmit
<1>3. CASE OnText
  <2> DEFINE d == Head(wire)
             m1 == PollSnapshot(sync)
             applied == m1.state = "Live" /\ LiveVerdict(m1, d) = "Applied"
  <2>1. shown' = IF applied THEN HandleDepthUpdate(m1, d).current ELSE shown
    BY <1>3 DEF OnText
  <2>2. wire # <<>> /\ wire' = Tail(wire) /\ sent' = sent
    BY <1>3 DEF OnText
  <2>3. GoodMachine(m1) /\ d \in Diff
    BY <2>2, InvEnv, PollSnapshotGood, WireHead DEF Inv, IInv
  <2> HIDE DEF m1, d
  <2>4. applied => shown'.id = d.final
    <3> SUFFICES ASSUME applied PROVE shown'.id = d.final
      OBVIOUS
    <3>1. shown' = ApplyDiff(m1.current, d)
      BY <2>1, <2>3, UpdateOutcome
    <3> QED BY <3>1 DEF ApplyDiff
  <2>5. shown' = shown \/ shown'.id = Head(wire).final
    BY <2>1, <2>4 DEF d
  <2> QED BY <2>2, <2>5, OrderedRead
<1>4. CASE OnUndecodedText
  BY <1>4, OrderedRead DEF OnUndecodedText
<1>5. CASE SocketLost \/ OnTextFails
  <2>1. wire' = <<>> /\ shown' = shown /\ sent' = sent
    BY <1>5 DEF SocketLost, OnTextFails, Disconnected
  <2> QED BY <1>1, <2>1, MaxIdAssumption DEF Ordered
<1>6. CASE Tick \/ Connect \/ (\E rx \in SnapshotRx : Answer(rx)) \/ UNCHANGED vars
  <2>1. wire' = wire /\ shown' = shown /\ sent' = sent
    BY <1>6 DEF Tick, Connect, Answer, vars
  <2> QED BY <1>1, <2>1, MaxIdAssumption DEF Ordered
<1> QED BY <1>2, <1>3, <1>4, <1>5, <1>6 DEF Next

(* The book handed to charts and panels never moves back in time. *)
THEOREM NoRewind == Spec => ShownNeverRewinds
<1>1. Init => Ordered
  <2> SUFFICES ASSUME Init PROVE Ordered
    OBVIOUS
  <2>1. \A i \in 1..Len(wire) : FALSE
    BY DEF Init
  <2> QED BY <2>1 DEF Init, Ordered, EmptyCache
<1>2. Inv /\ Ordered /\ [Next]_vars => [shown'.id >= shown.id]_vars
  BY OrderedStep
<1> QED BY <1>1, <1>2, OrderedStep, Invariance, PTL DEF Spec, ShownNeverRewinds
--------------------------------------------------------------------------------
(* Order of the buffered diffs, and of the frames on the wire after them. *)
InOrder(p) == \A i, j \in 1..Len(p) : i < j => p[i].final <= p[j].pu

Precede(p, w) == \A i \in 1..Len(p) : \A j \in 1..Len(w) : p[i].final <= w[j].pu

BufferInv == PendingIsOrdered /\ Precede(sync.pending, wire)

(* What a buffer still holds of another one. *)
PartOf(p, q) == \A i \in 1..Len(p) : \E k \in 1..Len(q) : p[i] = q[k]

LEMMA PollKeepsOrder ==
  ASSUME NEW m, GoodMachine(m), InOrder(m.pending), Len(m.pending) <= MaxPending
  PROVE  LET p == PollSnapshot(m).pending
         IN p \in Seq(Diff) /\ InOrder(p) /\ Len(p) <= MaxPending /\ PartOf(p, m.pending)
<1> DEFINE q == m.pending
           s == m.rx.id
           b == Min(Breaks(q, s))
           p == PollSnapshot(m).pending
<1>1. m \in Machine /\ q \in Seq(Diff) /\ Len(q) \in Nat
  BY DEF GoodMachine, Machine
<1>2. CASE p = q
  BY <1>1, <1>2 DEF PartOf
<1>3. CASE p = <<>>
  <2>1. \A i \in 1..Len(<<>>) : FALSE
    OBVIOUS
  <2> QED BY <1>3, <2>1, BoundsAssumption DEF InOrder, PartOf
<1>4. ASSUME Breaks(q, s) # {}, p = SubSeq(q, b + 1, Len(q))
      PROVE  p \in Seq(Diff) /\ InOrder(p) /\ Len(p) <= MaxPending /\ PartOf(p, q)
  <2>1. b \in 1..Len(q)
    <3>1. Breaks(q, s) \subseteq Nat
      BY <1>1 DEF Breaks
    <3> HIDE DEF q, s
    <3>2. PICK x \in Breaks(q, s) : \A y \in Breaks(q, s) : x <= y
      BY <1>4, <3>1, LeastNat
    <3>3. b \in Breaks(q, s)
      BY <3>2 DEF Min
    <3> QED BY <3>3 DEF Breaks
  <2> HIDE DEF b, p
  <2>2. /\ p \in Seq(Diff) /\ Len(p) = Len(q) - b
        /\ \A i \in 1..Len(p) : p[i] = q[i + b] /\ i + b \in 1..Len(q)
    BY <1>1, <1>4, <2>1
  <2>3. InOrder(p)
    BY <1>1, <2>1, <2>2 DEF InOrder
  <2> QED BY <1>1, <2>1, <2>2, <2>3, BoundsAssumption DEF PartOf
<1>5. \/ p = q \/ p = <<>>
      \/ Breaks(q, s) # {} /\ p = SubSeq(q, b + 1, Len(q))
  <2>1. CASE ~(m.state = "WaitingSnapshot" /\ m.rx.status = "ok")
    BY <2>1 DEF PollSnapshot
  <2>2. CASE m.state = "WaitingSnapshot" /\ m.rx.status = "ok" /\ Breaks(q, s) = {}
    BY <1>1, <2>2 DEF PollSnapshot, HandleSnapshot, Machine
  <2>3. CASE m.state = "WaitingSnapshot" /\ m.rx.status = "ok" /\ Breaks(q, s) # {}
    <3> DEFINE r == [m EXCEPT !.pending = SubSeq(q, b + 1, Len(q)),
                              !.prev_id = PrevAfter(q, s, b - 1),
                              !.current = CacheAfter(q, s, b - 1),
                              !.gap_detected = TRUE]
    <3>1. PollSnapshot(m) = BeginResync(r)
      BY <2>3 DEF PollSnapshot, HandleSnapshot
    <3>2. r.pending = SubSeq(q, b + 1, Len(q))
      BY <1>1 DEF Machine
    <3>3. BeginResync(r).pending = r.pending
      <4> HIDE DEF q, s, b
      <4> QED BY <1>1 DEF BeginResync, Machine
    <3> HIDE DEF r
    <3> QED BY <2>3, <3>1, <3>2, <3>3
  <2> QED BY <2>1, <2>2, <2>3
<1> QED BY <1>2, <1>3, <1>4, <1>5

LEMMA UpdateKeepsOrder ==
  ASSUME NEW m, GoodMachine(m), InOrder(m.pending), Len(m.pending) <= MaxPending,
         NEW d \in Diff, ValidDiff(d), \A i \in 1..Len(m.pending) : m.pending[i].final <= d.pu
  PROVE  LET p == HandleDepthUpdate(m, d).pending
         IN /\ InOrder(p) /\ Len(p) <= MaxPending
            /\ \A i \in 1..Len(p) : p[i] = d \/ \E k \in 1..Len(m.pending) : p[i] = m.pending[k]
<1> DEFINE q == m.pending
           p == HandleDepthUpdate(m, d).pending
<1>1. m \in Machine /\ q \in Seq(Diff) /\ Len(q) \in Nat
  BY DEF GoodMachine, Machine
<1>2. CASE p = q
  BY <1>1, <1>2
<1>3. CASE p = <<d>>
  <2>1. Len(p) = 1 /\ p[1] = d
    BY <1>3
  <2> HIDE DEF p
  <2>2. MaxPending \in Nat /\ MaxPending >= 1
    BY BoundsAssumption
  <2>3. \A i \in 1..Len(p) : i = 1
    BY <2>1
  <2>4. InOrder(p) /\ \A i \in 1..Len(p) : p[i] = d
    BY <2>1, <2>3 DEF InOrder
  <2>5. Len(p) <= MaxPending
    BY <2>1, <2>2
  <2> QED BY <2>4, <2>5 DEF p
<1>4. CASE p = Append(q, d) /\ Len(q) # MaxPending
  <2> HIDE DEF p
  <2>1. /\ Len(p) = Len(q) + 1
        /\ \A i \in 1..Len(q) + 1 : p[i] = IF i \in 1..Len(q) THEN q[i] ELSE d
    BY <1>1, <1>4
  <2>2. ASSUME NEW i \in 1..Len(p), NEW j \in 1..Len(p), i < j
        PROVE  p[i].final <= p[j].pu
    <3>1. i \in 1..Len(q) /\ p[i] = q[i]
      BY <1>1, <2>1, <2>2
    <3>2. CASE j \in 1..Len(q)
      BY <2>1, <2>2, <3>1, <3>2 DEF InOrder
    <3>3. CASE j \notin 1..Len(q)
      BY <2>1, <3>1, <3>3
    <3> QED BY <3>2, <3>3
  <2>3. Len(p) <= MaxPending
    BY <1>1, <1>4, <2>1, BoundsAssumption
  <2>4. \A i \in 1..Len(p) : p[i] = d \/ \E k \in 1..Len(q) : p[i] = q[k]
    BY <2>1
  <2>5. InOrder(p)
    BY <2>2 DEF InOrder
  <2> HIDE DEF q
  <2> QED BY <2>3, <2>4, <2>5 DEF p, q
<1>5. CASE p = Append(Tail(q), d) /\ Len(q) = MaxPending
  <2> HIDE DEF p
  <2>1. Len(q) >= 1
    BY <1>5, BoundsAssumption
  <2> DEFINE t == Tail(q)
  <2>2. /\ t \in Seq(Diff) /\ Len(t) = Len(q) - 1
        /\ \A i \in 1..Len(t) : t[i] = q[i + 1] /\ i + 1 \in 1..Len(q)
    BY <1>1, <2>1
  <2> HIDE DEF t
  <2>3. /\ Len(p) = Len(t) + 1
        /\ \A i \in 1..Len(t) + 1 : p[i] = IF i \in 1..Len(t) THEN t[i] ELSE d
    BY <1>5, <2>2 DEF t
  <2>4. ASSUME NEW i \in 1..Len(p), NEW j \in 1..Len(p), i < j
        PROVE  p[i].final <= p[j].pu
    <3> HIDE DEF q
    <3> DEFINE n == Len(t)
    <3>0. n \in Nat
      BY <2>2
    <3> HIDE DEF n
    <3>a. i \in 1..n
      BY <2>3, <2>4, <3>0 DEF n
    <3>b. p[i] = t[i]
      BY <2>3, <3>a DEF n
    <3>1. i \in 1..Len(t) /\ p[i] = q[i + 1] /\ i + 1 \in 1..Len(q)
      BY <2>2, <3>a, <3>b DEF n
    <3>2. CASE j \in 1..Len(t)
      <4>1. p[j] = t[j] /\ i + 1 < j + 1
        BY <2>3, <2>4, <3>2
      <4>2. p[j] = q[j + 1] /\ j + 1 \in 1..Len(q)
        BY <2>2, <3>2, <4>1
      <4> QED BY <3>1, <4>1, <4>2 DEF InOrder, q
    <3>3. CASE j \notin 1..Len(t)
      BY <2>3, <3>1, <3>3 DEF q
    <3> QED BY <3>2, <3>3
  <2>5. Len(p) <= MaxPending
    BY <1>1, <1>5, <2>2, <2>3, BoundsAssumption
  <2>6. \A i \in 1..Len(p) : p[i] = d \/ \E k \in 1..Len(q) : p[i] = q[k]
    <3>1. ASSUME NEW i \in 1..Len(p)
          PROVE  p[i] = d \/ \E k \in 1..Len(q) : p[i] = q[k]
      BY <2>2, <2>3
    <3> QED BY <3>1
  <2>7. InOrder(p)
    BY <2>4 DEF InOrder
  <2> HIDE DEF q
  <2> QED BY <2>5, <2>6, <2>7 DEF p, q
<1>6. \/ p = q \/ p = <<d>>
      \/ p = Append(q, d) /\ Len(q) # MaxPending
      \/ p = Append(Tail(q), d) /\ Len(q) = MaxPending
  <2>1. CASE m.state = "WaitingSnapshot"
    BY <1>1, <2>1 DEF HandleDepthUpdate, QueuePendingDiff, Machine
  <2>2. CASE m.state # "WaitingSnapshot" /\ LiveVerdict(m, d) = "Skipped"
    BY <2>2 DEF HandleDepthUpdate, OnLiveDiff
  <2>3. CASE m.state # "WaitingSnapshot" /\ LiveVerdict(m, d) = "Applied"
    <3>1. HandleDepthUpdate(m, d) = [m EXCEPT !.current = ApplyDiff(@, d), !.prev_id = d.final]
      BY <2>3 DEF HandleDepthUpdate, OnLiveDiff
    <3> QED BY <1>1, <3>1 DEF Machine
  <2>4. CASE m.state # "WaitingSnapshot" /\ LiveVerdict(m, d) = "NeedsResync"
    <3> DEFINE r == [m EXCEPT !.gap_detected = TRUE, !.pending = <<d>>, !.prev_id = 0]
    <3>1. HandleDepthUpdate(m, d) = BeginResync(r)
      BY <2>4 DEF HandleDepthUpdate, OnLiveDiff
    <3>2. r.pending = <<d>>
      BY <1>1 DEF Machine
    <3>3. BeginResync(r).pending = r.pending
      BY <1>1 DEF BeginResync, Machine
    <3> QED BY <3>1, <3>2, <3>3
  <2>5. LiveVerdict(m, d) \in {"Skipped", "Applied", "NeedsResync"}
    BY DEF LiveVerdict, Verdict
  <2> QED BY <2>1, <2>2, <2>3, <2>4, <2>5
<1> QED BY <1>2, <1>3, <1>4, <1>5, <1>6

(* A frame leaves the wire, and the buffer keeps to what was in it and to the frame. *)
LEMMA BufferRead ==
  ASSUME Inv, Ordered, BufferInv, wire # <<>>, wire' = Tail(wire),
         InOrder(sync'.pending), Len(sync'.pending) <= MaxPending,
         \A i \in 1..Len(sync'.pending) :
            \/ sync'.pending[i] = Head(wire)
            \/ \E k \in 1..Len(sync.pending) : sync'.pending[i] = sync.pending[k]
  PROVE  BufferInv'
<1>1. wire \in Seq(Diff) /\ Len(wire) \in Nat /\ Len(wire) # 0
  BY DEF Inv, IInv, TypeOK
<1>2. /\ Len(wire') = Len(wire) - 1 /\ Head(wire) = wire[1] /\ 1 \in 1..Len(wire)
      /\ \A j \in 1..Len(wire') : wire'[j] = wire[j + 1] /\ j + 1 \in 1..Len(wire) /\ 1 < j + 1
  BY <1>1
<1>3. ASSUME NEW i \in 1..Len(sync'.pending), NEW j \in 1..Len(wire')
      PROVE  sync'.pending[i].final <= wire'[j].pu
  <2>1. CASE sync'.pending[i] = Head(wire)
    BY <1>2, <2>1 DEF Ordered
  <2>2. ASSUME NEW k \in 1..Len(sync.pending), sync'.pending[i] = sync.pending[k]
        PROVE  sync'.pending[i].final <= wire'[j].pu
    BY <1>2, <2>2 DEF BufferInv, Precede
  <2> QED BY <2>1, <2>2
<1>4. PendingIsOrdered'
  BY DEF PendingIsOrdered, InOrder
<1>5. Precede(sync.pending, wire)'
  BY <1>3 DEF Precede
<1> QED BY <1>4, <1>5 DEF BufferInv

LEMMA OnTextKeepsBuffer ==
  ASSUME Inv, Ordered, BufferInv, OnText
  PROVE  BufferInv'
<1> DEFINE d == Head(wire)
           m1 == PollSnapshot(sync)
           m2 == HandleDepthUpdate(m1, d)
           gap == market = "LinearPerps" /\ m2.gap_detected
<1>1. /\ wire # <<>> /\ wire' = Tail(wire)
      /\ sync' = [m2 EXCEPT !.gap_detected = @ /\ ~gap]
  BY DEF OnText
<1>2. /\ GoodMachine(sync) /\ InOrder(sync.pending) /\ Len(sync.pending) <= MaxPending
      /\ d \in Diff /\ ValidDiff(d) /\ GoodMachine(m1)
  BY <1>1, InvEnv, PollSnapshotGood, WireHead DEF Inv, IInv, BufferInv, PendingIsOrdered, InOrder
<1>3. /\ InOrder(m1.pending) /\ Len(m1.pending) <= MaxPending
      /\ PartOf(m1.pending, sync.pending)
  BY <1>2, PollKeepsOrder
<1>4. \A i \in 1..Len(sync.pending) : sync.pending[i].final <= d.pu
  <2>1. 1 \in 1..Len(wire) /\ d = wire[1]
    BY <1>1 DEF Inv, IInv, TypeOK
  <2> QED BY <2>1 DEF BufferInv, Precede
<1> HIDE DEF d, m1
<1>5. \A i \in 1..Len(m1.pending) : m1.pending[i].final <= d.pu
  BY <1>3, <1>4 DEF PartOf
<1>6. /\ InOrder(m2.pending) /\ Len(m2.pending) <= MaxPending
      /\ \A i \in 1..Len(m2.pending) :
           m2.pending[i] = d \/ \E k \in 1..Len(m1.pending) : m2.pending[i] = m1.pending[k]
  BY <1>2, <1>3, <1>5, UpdateKeepsOrder
<1>7. sync'.pending = m2.pending
  <2>1. m2 \in Machine
    BY <1>2, InvEnv, HandleDepthUpdateGood DEF GoodMachine, Inv, IInv
  <2> HIDE DEF m2, gap
  <2> QED BY <1>1, <2>1 DEF Machine
<1> HIDE DEF m2
<1>8. \A i \in 1..Len(sync'.pending) :
        \/ sync'.pending[i] = d
        \/ \E k \in 1..Len(sync.pending) : sync'.pending[i] = sync.pending[k]
  BY <1>3, <1>6, <1>7 DEF PartOf
<1> QED BY <1>1, <1>6, <1>7, <1>8, BufferRead DEF d

LEMMA OnUndecodedTextKeepsBuffer ==
  ASSUME Inv, Ordered, BufferInv, OnUndecodedText
  PROVE  BufferInv'
<1>1. wire # <<>> /\ wire' = Tail(wire) /\ sync' = PollSnapshot(sync)
  BY DEF OnUndecodedText
<1>2. GoodMachine(sync) /\ InOrder(sync.pending) /\ Len(sync.pending) <= MaxPending
  BY DEF Inv, IInv, BufferInv, PendingIsOrdered, InOrder
<1>3. /\ InOrder(sync'.pending) /\ Len(sync'.pending) <= MaxPending
      /\ PartOf(sync'.pending, sync.pending)
  BY <1>1, <1>2, PollKeepsOrder
<1> QED BY <1>1, <1>3, BufferRead DEF PartOf

LEMMA EmitKeepsBuffer ==
  ASSUME Inv, BufferInv, NEW first \in (sent + 1)..now, Emit(first)
  PROVE  BufferInv'
<1>1. /\ wire \in Seq(Diff) /\ Len(wire) \in Nat /\ GoodMachine(sync)
      /\ now \in Nat /\ sent \in Nat
  BY MaxIdAssumption DEF Inv, IInv, TypeOK
<1>2. sync' = sync /\ PendingIsOrdered'
  BY DEF Emit, BufferInv, PendingIsOrdered
<1>3. CASE wire' = wire
  BY <1>2, <1>3 DEF BufferInv
<1>4. CASE wire' # wire
  <2> DEFINE d == [pu |-> sent, first |-> first, final |-> now]
  <2>1. wire' = Append(wire, d) /\ d.pu = sent
    BY <1>4 DEF Emit
  <2> HIDE DEF d
  <2>2. /\ Len(wire') = Len(wire) + 1
        /\ \A j \in 1..Len(wire) + 1 : wire'[j] = IF j \in 1..Len(wire) THEN wire[j] ELSE d
    BY <1>1, <2>1
  <2>3. \A i \in 1..Len(sync.pending) : sync.pending[i].final <= sent
    BY <1>1 DEF GoodMachine, ValidDiff
  <2>4. Precede(sync.pending, wire')
    BY <1>1, <2>1, <2>2, <2>3 DEF BufferInv, Precede
  <2> QED BY <1>2, <2>4 DEF BufferInv
<1> QED BY <1>3, <1>4

LEMMA NewMachineIsOrdered ==
  ASSUME NEW m, m \in {NewMachine, BeginResync(NewMachine)}
  PROVE  m.pending = <<>>
<1>1. NewMachine.pending = <<>>
  BY DEF NewMachine
<1>2. BeginResync(NewMachine).pending = NewMachine.pending
  BY DEF BeginResync, NewMachine
<1> QED BY <1>1, <1>2

LEMMA EmptyIsOrdered ==
  ASSUME NEW w
  PROVE  InOrder(<<>>) /\ Len(<<>>) <= MaxPending /\ Precede(<<>>, w)
<1>1. Len(<<>>) = 0 /\ \A i \in 1..Len(<<>>) : FALSE
  OBVIOUS
<1> QED BY <1>1, BoundsAssumption DEF InOrder, Precede

LEMMA BufferStep == Inv /\ Ordered /\ BufferInv /\ [Next]_vars => BufferInv'
<1> SUFFICES ASSUME Inv, Ordered, BufferInv, [Next]_vars PROVE BufferInv'
  OBVIOUS
<1>1. CASE \E first \in (sent + 1)..now : Emit(first)
  BY <1>1, EmitKeepsBuffer
<1>2. CASE OnText
  BY <1>2, OnTextKeepsBuffer
<1>3. CASE OnUndecodedText
  BY <1>3, OnUndecodedTextKeepsBuffer
<1>4. CASE SocketLost \/ OnTextFails
  <2>1. wire' = <<>> /\ sync'.pending = sync.pending
    BY <1>4 DEF SocketLost, OnTextFails, Disconnected, Inv, IInv, GoodMachine, Machine
  <2>2. \A j \in 1..Len(wire') : FALSE
    BY <2>1
  <2> QED BY <2>1, <2>2 DEF BufferInv, Precede, PendingIsOrdered
<1>5. CASE Connect
  <2>1. sync'.pending = <<>>
    BY <1>5, NewMachineIsOrdered DEF Connect
  <2> QED BY <2>1, EmptyIsOrdered DEF BufferInv, PendingIsOrdered, InOrder
<1>6. CASE Tick \/ (\E rx \in SnapshotRx : Answer(rx)) \/ UNCHANGED vars
  <2>1. wire' = wire /\ sync'.pending = sync.pending
    BY <1>6 DEF Tick, Answer, vars, Inv, IInv, GoodMachine, Machine
  <2> QED BY <2>1 DEF BufferInv, Precede, PendingIsOrdered
<1> QED BY <1>1, <1>2, <1>3, <1>4, <1>5, <1>6 DEF Next

(* The buffer keeps to MAX_PENDING_DEPTH_EVENTS and stays in stream order, no diff twice, through *)
(* dropping the oldest (queue_pending_diff), a replay that stops halfway and frames read meanwhile. *)
THEOREM BufferCorrect == Spec => []PendingIsOrdered
<1>1. Init => Ordered /\ BufferInv
  <2> SUFFICES ASSUME Init PROVE Ordered /\ BufferInv
    OBVIOUS
  <2>1. wire = <<>> /\ sync.pending = <<>> /\ \A i \in 1..Len(wire) : FALSE
    BY NewMachineIsOrdered DEF Init
  <2>2. Ordered
    BY <2>1 DEF Init, Ordered, EmptyCache
  <2> QED BY <2>1, <2>2, EmptyIsOrdered DEF BufferInv, PendingIsOrdered, InOrder
<1>2. Inv /\ Ordered /\ BufferInv /\ [Next]_vars => Ordered' /\ BufferInv'
  BY OrderedStep, BufferStep
<1>3. BufferInv => PendingIsOrdered
  BY DEF BufferInv
<1> QED BY <1>1, <1>2, <1>3, Invariance, PTL DEF Spec
================================================================================
