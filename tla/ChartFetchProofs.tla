---------------------------- MODULE ChartFetchProofs ----------------------------
(***************************************************************************)
(* What a chart's request handler keeps, and that the chart holds the      *)
(* trades of what it has marked covered: for every line of time, market,   *)
(* size of pages and chunks, and however many failures, resets and         *)
(* clearings there are.                                                    *)
(***************************************************************************)
EXTENDS ChartFetch, NatSets, FiniteSetTheorems, SequenceTheorems, TLAPS

--------------------------------------------------------------------------------
(* The inductive invariant. *)

IsRequest(r) ==
    /\ r = [fetch |-> r.fetch, status |-> r.status, generation |-> r.generation, age |-> r.age]
    /\ \E from, to : r.fetch = Trades(from, to)
    /\ r.status \in {"Pending", "Completed", "Failed", "Superseded"}
    /\ r.age \in Nat

IsHandler(h) ==
    /\ h = [generation |-> h.generation, requests |-> h.requests, empty |-> h.empty]
    /\ h.requests = [i \in DOMAIN h.requests |-> h.requests[i]]
    /\ \A i \in DOMAIN h.requests : IsRequest(h.requests[i])

(* No two requests for one range. *)
Distinct(h) ==
    \A i, j \in DOMAIN h.requests : h.requests[i].fetch = h.requests[j].fetch => i = j

(* What is pending is of the present generation. *)
Current(h) ==
    \A i \in DOMAIN h.requests :
       h.requests[i].status = "Pending" => h.requests[i].generation = h.generation

Good(h) == IsHandler(h) /\ Distinct(h) /\ Current(h)

IsChart(c) ==
    c = [handler |-> c.handler, covered |-> c.covered, held |-> c.held, fetching |-> c.fetching]

ChartInv == IsChart(chart) /\ Good(chart.handler)

(* What a step may do to the requests: settled ones change only when they are asked again. *)
Settled(r) == r.status # "Pending" /\ r.age < MaxAge(r.status)

KeepsSettled(h, g) ==
    \A id \in DOMAIN h.requests \cap DOMAIN g.requests :
       Settled(h.requests[id]) /\ g.requests[id].status # h.requests[id].status =>
          /\ h.requests[id].status = "Superseded"
          /\ g.requests[id].status = "Pending" /\ g.requests[id].generation = h.generation

(* No new requests, and none has changed that was not pending. *)
Narrows(h, g) ==
    /\ g.generation = h.generation
    /\ DOMAIN g.requests \subseteq DOMAIN h.requests
    /\ \A id \in DOMAIN g.requests :
          h.requests[id].status # "Pending" => g.requests[id] = h.requests[id]

--------------------------------------------------------------------------------
(* The operations of the handler. *)

LEMMA TurnIs ==
  ASSUME NEW r, IsRequest(r), NEW status \in {"Completed", "Failed", "Superseded"}
  PROVE  /\ IsRequest(Turn(r, status))
         /\ Turn(r, status).fetch = r.fetch /\ Turn(r, status).status = status
         /\ Turn(r, status).generation = r.generation
<1> DEFINE r1 == [r EXCEPT !.status = status]
<1>1. r = [fetch |-> r.fetch, status |-> r.status, generation |-> r.generation, age |-> r.age]
  BY DEF IsRequest
<1>2. r1 = [fetch |-> r.fetch, status |-> status, generation |-> r.generation, age |-> r.age]
  BY <1>1
<1>3. Turn(r, status) = [r1 EXCEPT !.age = 0]
  BY DEF Turn
<1> HIDE DEF r1
<1>4. Turn(r, status) =
        [fetch |-> r.fetch, status |-> status, generation |-> r.generation, age |-> 0]
  BY <1>2, <1>3
<1> QED BY <1>4 DEF IsRequest

LEMMA NarrowsKeepsSettled ==
  ASSUME NEW h, NEW g, Narrows(h, g)
  PROVE  KeepsSettled(h, g)
BY DEF Narrows, KeepsSettled, Settled

LEMMA NarrowsIsTransitive ==
  ASSUME NEW h, NEW g, NEW k, Narrows(h, g), Narrows(g, k)
  PROVE  Narrows(h, k)
BY DEF Narrows

LEMMA CleanupIs ==
  ASSUME NEW h, Good(h)
  PROVE  /\ Good(Cleanup(h)) /\ Narrows(h, Cleanup(h))
         /\ \A id \in DOMAIN h.requests \ DOMAIN Cleanup(h).requests : ~Settled(h.requests[id])
<1> DEFINE g == Cleanup(h)
           late(r) == r.age = MaxAge(r.status)
           kept == {i \in DOMAIN h.requests :
                      h.requests[i].status = "Pending" \/ ~late(h.requests[i])}
           request(i) == IF late(h.requests[i]) THEN Turn(h.requests[i], "Failed")
                         ELSE h.requests[i]
<1>1. IsHandler(h)
  BY DEF Good
<1>2. g = [generation |-> h.generation, requests |-> [i \in kept |-> request(i)],
           empty |-> h.empty]
  BY <1>1 DEF Cleanup, IsHandler
<1>3. g.generation = h.generation /\ g.requests = [i \in kept |-> request(i)]
        /\ DOMAIN g.requests = kept
  BY <1>2
<1>4. \A i \in kept : /\ g.requests[i] = request(i) /\ IsRequest(request(i))
                      /\ request(i).fetch = h.requests[i].fetch
                      /\ \/ request(i) = h.requests[i]
                         \/ h.requests[i].status = "Pending" /\ request(i).status = "Failed"
  <2> SUFFICES ASSUME NEW i \in kept
               PROVE  /\ IsRequest(request(i)) /\ request(i).fetch = h.requests[i].fetch
                      /\ \/ request(i) = h.requests[i]
                         \/ h.requests[i].status = "Pending" /\ request(i).status = "Failed"
    BY <1>3
  <2>1. IsRequest(h.requests[i])
    BY <1>1 DEF IsHandler
  <2>2. CASE late(h.requests[i])
    <3>1. h.requests[i].status = "Pending" /\ request(i) = Turn(h.requests[i], "Failed")
      BY <2>2
    <3> QED BY <2>1, <3>1, TurnIs
  <2>3. CASE ~late(h.requests[i])
    BY <2>1, <2>3
  <2> QED BY <2>2, <2>3
<1>10. kept \subseteq DOMAIN h.requests
  OBVIOUS
<1> HIDE DEF g, request, kept
<1>5. IsHandler(g)
  BY <1>2, <1>3, <1>4 DEF IsHandler
<1>6. Distinct(g)
  BY <1>3, <1>4, <1>10 DEF Good, Distinct
<1>7. Current(g)
  BY <1>3, <1>4, <1>10 DEF Good, Current
<1>8. Narrows(h, g)
  BY <1>3, <1>4, <1>10 DEF Narrows
<1>9. \A id \in DOMAIN h.requests \ DOMAIN g.requests : ~Settled(h.requests[id])
  <2> SUFFICES ASSUME NEW id \in DOMAIN h.requests, id \notin kept PROVE ~Settled(h.requests[id])
    BY <1>3 DEF g
  <2>1. h.requests[id].age = MaxAge(h.requests[id].status)
    BY DEF kept
  <2>2. MaxAge(h.requests[id].status) \in Nat
    BY DEF MaxAge
  <2> QED BY <2>1, <2>2 DEF Settled
<1> QED BY <1>5, <1>6, <1>7, <1>8, <1>9 DEF g, Good

LEMMA DropRetryableIs ==
  ASSUME NEW h, Good(h), NEW fetch
  PROVE  LET g == DropRetryable(h, fetch)
         IN /\ Good(g) /\ Narrows(h, g)
            /\ \A id \in DOMAIN h.requests \ DOMAIN g.requests : ~Settled(h.requests[id])
                 \/ h.requests[id].status = "Failed"
            /\ \A id \in DOMAIN g.requests :
                 g.requests[id].fetch = fetch /\ g.requests[id].status = "Failed"
                   => g.requests[id].age = 0
<1> DEFINE g == DropRetryable(h, fetch)
           kept == {i \in DOMAIN h.requests :
                      ~(h.requests[i].status = "Failed" /\ h.requests[i].fetch = fetch
                          /\ h.requests[i].age > 0)}
<1>1. IsHandler(h)
  BY DEF Good
<1>2. g = [generation |-> h.generation, requests |-> [i \in kept |-> h.requests[i]],
           empty |-> h.empty]
  BY <1>1 DEF DropRetryable, IsHandler
<1>3. /\ g.generation = h.generation /\ g.requests = [i \in kept |-> h.requests[i]]
      /\ DOMAIN g.requests = kept /\ \A i \in kept : g.requests[i] = h.requests[i]
  BY <1>2
<1>4. /\ kept \subseteq DOMAIN h.requests
      /\ \A i \in DOMAIN h.requests \ kept : h.requests[i].status = "Failed"
      /\ \A i \in kept : h.requests[i].status = "Failed" /\ h.requests[i].fetch = fetch
           => ~(h.requests[i].age > 0)
  OBVIOUS
<1> HIDE DEF g, kept
<1>5. Good(g)
  BY <1>2, <1>3, <1>4 DEF Good, IsHandler, Distinct, Current
<1>6. Narrows(h, g)
  BY <1>3, <1>4 DEF Narrows
<1>7. \A id \in kept : h.requests[id].status = "Failed" /\ h.requests[id].fetch = fetch
         => h.requests[id].age = 0
  <2> SUFFICES ASSUME NEW id \in kept, h.requests[id].status = "Failed",
                      h.requests[id].fetch = fetch
               PROVE  h.requests[id].age = 0
    OBVIOUS
  <2>1. h.requests[id].age \in Nat
    BY <1>1, <1>4 DEF IsHandler, IsRequest
  <2> QED BY <1>4, <2>1
<1> QED BY <1>3, <1>4, <1>5, <1>6, <1>7 DEF g

LEMMA PutIs ==
  ASSUME NEW h, IsHandler(h), NEW id, NEW r
  PROVE  /\ Put(h, id, r).generation = h.generation
         /\ DOMAIN Put(h, id, r).requests = DOMAIN h.requests \cup {id}
         /\ Put(h, id, r).requests[id] = r
         /\ \A i \in DOMAIN h.requests : i # id => Put(h, id, r).requests[i] = h.requests[i]
         /\ IsRequest(r) => IsHandler(Put(h, id, r))
<1> DEFINE g == Put(h, id, r)
           ids == DOMAIN h.requests \cup {id}
<1>1. g = [generation |-> h.generation,
           requests |-> [i \in ids |-> IF i = id THEN r ELSE h.requests[i]], empty |-> h.empty]
  BY DEF Put, IsHandler
<1>2. /\ g.generation = h.generation /\ DOMAIN g.requests = ids
      /\ \A i \in ids : g.requests[i] = IF i = id THEN r ELSE h.requests[i]
      /\ g.requests = [i \in ids |-> IF i = id THEN r ELSE h.requests[i]]
  BY <1>1
<1> HIDE DEF g
<1>3. IsRequest(r) => IsHandler(g)
  BY <1>1, <1>2 DEF IsHandler
<1> QED BY <1>2, <1>3 DEF g

LEMMA SettlesPending ==
  ASSUME NEW h, Good(h), NEW id \in DOMAIN h.requests,
         NEW status \in {"Completed", "Failed", "Superseded"}
  PROVE  Good(Put(h, id, Turn(h.requests[id], status)))
<1> DEFINE r == Turn(h.requests[id], status)
           g == Put(h, id, r)
<1>1. IsHandler(h) /\ IsRequest(h.requests[id])
  BY DEF Good, IsHandler
<1>2. IsRequest(r) /\ r.fetch = h.requests[id].fetch /\ r.status = status
  BY <1>1, TurnIs
<1> HIDE DEF r
<1>3. /\ g.generation = h.generation /\ DOMAIN g.requests = DOMAIN h.requests
      /\ g.requests[id] = r /\ IsHandler(g)
      /\ \A i \in DOMAIN h.requests : i # id => g.requests[i] = h.requests[i]
  <2>1. /\ g.generation = h.generation /\ DOMAIN g.requests = DOMAIN h.requests \cup {id}
        /\ g.requests[id] = r /\ IsHandler(g)
        /\ \A i \in DOMAIN h.requests : i # id => g.requests[i] = h.requests[i]
    BY <1>1, <1>2, PutIs
  <2>2. DOMAIN h.requests \cup {id} = DOMAIN h.requests
    OBVIOUS
  <2> HIDE DEF g
  <2> QED BY <2>1, <2>2
<1> HIDE DEF g
<1>4. \A i \in DOMAIN g.requests : /\ g.requests[i].fetch = h.requests[i].fetch
                                   /\ g.requests[i].status = "Pending" => g.requests[i] = h.requests[i]
  BY <1>2, <1>3
<1>5. Distinct(g)
  BY <1>3, <1>4 DEF Good, Distinct
<1>6. Current(g)
  BY <1>3, <1>4 DEF Good, Current
<1> QED BY <1>3, <1>5, <1>6 DEF Good, g, r

LEMMA MarkCompletedIs ==
  ASSUME NEW h, Good(h), NEW id
  PROVE  Good(MarkCompleted(h, id)) /\ Narrows(h, MarkCompleted(h, id))
<1>1. CASE Status(h, id) = "Pending"
  <2>1. id \in DOMAIN h.requests /\ h.requests[id].status = "Pending"
    BY <1>1 DEF Status
  <2>2. MarkCompleted(h, id) = Put(h, id, Turn(h.requests[id], "Completed"))
    BY <1>1 DEF MarkCompleted
  <2>3. Narrows(h, Put(h, id, Turn(h.requests[id], "Completed")))
    BY <2>1, PutIs DEF Narrows, Good
  <2> QED BY <2>1, <2>2, <2>3, SettlesPending
<1>2. CASE Status(h, id) # "Pending"
  BY <1>2 DEF MarkCompleted, Narrows
<1> QED BY <1>1, <1>2

LEMMA MarkFailedIs ==
  ASSUME NEW h, Good(h), NEW id
  PROVE  Good(MarkFailed(h, id)) /\ KeepsSettled(h, MarkFailed(h, id))
<1>1. CASE Status(h, id) \in {"Pending", "Failed"}
  <2>1. id \in DOMAIN h.requests /\ h.requests[id].status \in {"Pending", "Failed"}
    BY <1>1 DEF Status
  <2> DEFINE r == Turn(h.requests[id], "Failed")
  <2>2. MarkFailed(h, id) = Put(h, id, r)
    BY <1>1 DEF MarkFailed
  <2>3. IsHandler(h) /\ r.status = "Failed"
    BY <2>1, TurnIs DEF Good, IsHandler
  <2>4. Good(Put(h, id, r))
    BY <2>1, SettlesPending
  <2> HIDE DEF r
  <2>5. KeepsSettled(h, Put(h, id, r))
    BY <2>1, <2>3, PutIs DEF KeepsSettled, Settled
  <2> QED BY <2>2, <2>4, <2>5
<1>2. CASE Status(h, id) \notin {"Pending", "Failed"}
  BY <1>2 DEF MarkFailed, KeepsSettled
<1> QED BY <1>1, <1>2

LEMMA SupersedeIs ==
  ASSUME NEW h, Good(h)
  PROVE  Good(Supersede(h)) /\ KeepsSettled(h, Supersede(h))
<1> DEFINE h1 == [h EXCEPT !.generation = @ + 1]
           request(i) == IF h.requests[i].status = "Pending"
                         THEN Turn(h.requests[i], "Superseded") ELSE h.requests[i]
           requests == [i \in DOMAIN h.requests |-> request(i)]
           g == Supersede(h)
<1>1. IsHandler(h)
  BY DEF Good
<1>2. h1 = [generation |-> h.generation + 1, requests |-> h.requests, empty |-> h.empty]
  BY <1>1 DEF IsHandler
<1>3. g = [h1 EXCEPT !.requests = requests]
  BY <1>2 DEF Supersede
<1> HIDE DEF h1
<1>4. g = [generation |-> h.generation + 1, requests |-> requests, empty |-> h.empty]
  BY <1>2, <1>3
<1>5. /\ g.requests = requests /\ DOMAIN g.requests = DOMAIN h.requests
      /\ \A i \in DOMAIN h.requests : g.requests[i] = request(i)
  BY <1>4
<1>6. \A i \in DOMAIN h.requests :
        /\ IsRequest(request(i)) /\ request(i).fetch = h.requests[i].fetch
        /\ request(i).status # "Pending"
        /\ h.requests[i].status # "Pending" => request(i) = h.requests[i]
  <2> SUFFICES ASSUME NEW i \in DOMAIN h.requests
               PROVE  /\ IsRequest(request(i)) /\ request(i).fetch = h.requests[i].fetch
                      /\ request(i).status # "Pending"
                      /\ h.requests[i].status # "Pending" => request(i) = h.requests[i]
    OBVIOUS
  <2>1. IsRequest(h.requests[i])
    BY <1>1 DEF IsHandler
  <2>2. CASE h.requests[i].status = "Pending"
    <3>1. request(i) = Turn(h.requests[i], "Superseded")
      BY <2>2
    <3> QED BY <2>1, <2>2, <3>1, TurnIs
  <2>3. CASE h.requests[i].status # "Pending"
    BY <2>1, <2>3
  <2> QED BY <2>2, <2>3
<1> HIDE DEF g, request
<1>7. IsHandler(g)
  BY <1>4, <1>5, <1>6 DEF IsHandler
<1>8. Distinct(g)
  BY <1>5, <1>6 DEF Good, Distinct
<1>9. Current(g)
  BY <1>5, <1>6 DEF Current
<1>10. KeepsSettled(h, g)
  BY <1>5, <1>6 DEF KeepsSettled, Settled
<1> QED BY <1>7, <1>8, <1>9, <1>10 DEF Good, g

LEMMA SameBoundsAsItself ==
  ASSUME NEW from, NEW to
  PROVE  SameBounds(Trades(from, to), Trades(from, to))
BY DEF SameBounds, Trades

(* What is asked for: one request for the range, of the present generation. *)
LEMMA QueueIs ==
  ASSUME NEW h, Good(h), NEW id, NEW from, NEW to, NEW fetch, fetch = Trades(from, to),
         \A i \in DOMAIN h.requests :
            h.requests[i].fetch = fetch => h.requests[i].status = "Superseded"
  PROVE  LET added == Queue(h, id, fetch)
         IN /\ Good(added.handler) /\ added.handler.generation = h.generation
            /\ DOMAIN added.handler.requests \subseteq DOMAIN h.requests \cup {id}
            /\ \A i \in DOMAIN h.requests \cap DOMAIN added.handler.requests :
                 i # id => \/ added.handler.requests[i] = h.requests[i]
                           \/ /\ h.requests[i].status = "Superseded"
                              /\ added.handler.requests[i].status = "Pending"
                              /\ added.handler.requests[i].generation = h.generation
<1> DEFINE r == NewRequest(fetch, h.generation)
<1>1. r = [fetch |-> fetch, status |-> "Pending", generation |-> h.generation, age |-> 0]
  BY DEF NewRequest
<1>2. /\ IsRequest(r) /\ r.fetch = fetch /\ r.status = "Pending"
      /\ r.generation = h.generation /\ IsHandler(h)
  BY <1>1 DEF IsRequest, Good
<1> HIDE DEF r
<1>3. ASSUME NEW at, \A i \in DOMAIN h.requests : h.requests[i].fetch = fetch => i = at
      PROVE  /\ Good(Put(h, at, r)) /\ Put(h, at, r).generation = h.generation
             /\ DOMAIN Put(h, at, r).requests = DOMAIN h.requests \cup {at}
             /\ Put(h, at, r).requests[at] = r
             /\ \A i \in DOMAIN h.requests : i # at => Put(h, at, r).requests[i] = h.requests[i]
  <2> DEFINE g == Put(h, at, r)
  <2>1. /\ g.generation = h.generation /\ DOMAIN g.requests = DOMAIN h.requests \cup {at}
        /\ g.requests[at] = r /\ IsHandler(g)
        /\ \A i \in DOMAIN h.requests : i # at => g.requests[i] = h.requests[i]
    BY <1>2, PutIs
  <2> HIDE DEF g
  <2>2. Distinct(g)
    BY <1>2, <1>3, <2>1 DEF Good, Distinct
  <2>3. Current(g)
    BY <1>2, <2>1 DEF Good, Current
  <2> QED BY <2>1, <2>2, <2>3 DEF Good, g
<1>4. CASE Superseded(h, fetch) = {}
  <2>1. \A i \in DOMAIN h.requests : h.requests[i].fetch # fetch
    BY <1>4 DEF Superseded
  <2>2. Queue(h, id, fetch) = [handler |-> Put(h, id, r), id |-> id]
    BY <1>4 DEF Queue, r
  <2> QED BY <1>3, <2>1, <2>2
<1>5. CASE Superseded(h, fetch) # {}
  <2> DEFINE old == CHOOSE i \in Superseded(h, fetch) : TRUE
  <2>1. old \in DOMAIN h.requests /\ h.requests[old].fetch = fetch
          /\ h.requests[old].status = "Superseded"
    BY <1>5 DEF Superseded
  <2>2. Queue(h, id, fetch) = [handler |-> Put(h, old, r), id |-> old]
    BY <1>5 DEF Queue, r
  <2>3. \A i \in DOMAIN h.requests : h.requests[i].fetch = fetch => i = old
    BY <2>1 DEF Good, Distinct
  <2> HIDE DEF old
  <2> QED BY <1>2, <1>3, <2>1, <2>2, <2>3
<1> QED BY <1>4, <1>5

LEMMA AddRequestIs ==
  ASSUME NEW h, Good(h), NEW id, NEW from, NEW to, NEW fetch, fetch = Trades(from, to)
  PROVE  LET g == AddRequest(h, id, fetch).handler
         IN /\ Good(g) /\ g.generation = h.generation
            /\ id \notin DOMAIN h.requests => KeepsSettled(h, g)
            /\ DOMAIN g.requests \subseteq DOMAIN h.requests \cup {id}
<1> DEFINE h1 == Cleanup(h)
           h2 == DropRetryable(h1, fetch)
<1>1. Good(h1) /\ Narrows(h, h1)
  BY CleanupIs
<1> HIDE DEF h1
<1>2. /\ Good(h2) /\ Narrows(h1, h2)
      /\ \A i \in DOMAIN h2.requests :
           h2.requests[i].fetch = fetch /\ h2.requests[i].status = "Failed"
             => h2.requests[i].age = 0
  BY <1>1, DropRetryableIs
<1> HIDE DEF h2
<1>3. Narrows(h, h2)
  BY <1>1, <1>2, NarrowsIsTransitive
<1>4. CASE Suppressors(h2, fetch) = {}
  <2>1. \A i \in DOMAIN h2.requests :
          h2.requests[i].fetch = fetch => h2.requests[i].status = "Superseded"
    <3> SUFFICES ASSUME NEW i \in DOMAIN h2.requests, h2.requests[i].fetch = fetch
                 PROVE  h2.requests[i].status = "Superseded"
      OBVIOUS
    <3>1. h2.requests[i].status \in {"Pending", "Completed", "Failed", "Superseded"}
      BY <1>2 DEF Good, IsHandler, IsRequest
    <3>2. SameBounds(fetch, h2.requests[i].fetch)
      BY SameBoundsAsItself
    <3>3. ~(h2.requests[i].status \in {"Pending", "Completed"})
            /\ ~(h2.requests[i].status = "Failed" /\ h2.requests[i].age = 0)
      BY <1>4, <3>2 DEF Suppressors
    <3> QED BY <1>2, <3>1, <3>3
  <2> DEFINE g == Queue(h2, id, fetch).handler
  <2>2. /\ Good(g) /\ g.generation = h2.generation
        /\ DOMAIN g.requests \subseteq DOMAIN h2.requests \cup {id}
        /\ \A i \in DOMAIN h2.requests \cap DOMAIN g.requests :
             i # id => \/ g.requests[i] = h2.requests[i]
                       \/ /\ h2.requests[i].status = "Superseded"
                          /\ g.requests[i].status = "Pending"
                          /\ g.requests[i].generation = h2.generation
    BY <1>2, <2>1, QueueIs
  <2> HIDE DEF g
  <2>3. g.generation = h.generation /\ DOMAIN g.requests \subseteq DOMAIN h.requests \cup {id}
    BY <1>3, <2>2 DEF Narrows
  <2>4. ASSUME id \notin DOMAIN h.requests PROVE KeepsSettled(h, g)
    <3> SUFFICES ASSUME NEW i \in DOMAIN h.requests \cap DOMAIN g.requests,
                        h.requests[i].status # "Pending",
                        g.requests[i].status # h.requests[i].status
                 PROVE  /\ h.requests[i].status = "Superseded"
                        /\ g.requests[i].status = "Pending"
                        /\ g.requests[i].generation = h.generation
      BY DEF KeepsSettled, Settled
    <3>1. i # id /\ i \in DOMAIN h2.requests
      BY <2>2, <2>4
    <3>2. h2.requests[i] = h.requests[i] /\ h2.generation = h.generation
      BY <1>3, <3>1 DEF Narrows
    <3> QED BY <2>2, <3>1, <3>2
  <2>5. AddRequest(h, id, fetch).handler \in {h1, h2, g}
    BY DEF AddRequest, h1, h2, g
  <2> QED BY <1>1, <1>2, <1>3, <2>2, <2>3, <2>4, <2>5, NarrowsKeepsSettled DEF Narrows
<1>5. CASE Suppressors(h2, fetch) # {}
  <2>1. AddRequest(h, id, fetch).handler \in {h1, h2}
    BY <1>5 DEF AddRequest, h1, h2
  <2> QED BY <1>1, <1>2, <1>3, <2>1, NarrowsKeepsSettled DEF Narrows
<1> QED BY <1>4, <1>5

--------------------------------------------------------------------------------
(* The steps of the chart. *)

(* The chart with another handler, with another value of a field beside it, and with both. *)
LEMMA HandlerUpdated ==
  ASSUME NEW c, IsChart(c), NEW h
  PROVE  IsChart([c EXCEPT !.handler = h]) /\ [c EXCEPT !.handler = h].handler = h
BY DEF IsChart

LEMMA FetchingUpdated ==
  ASSUME NEW c, IsChart(c), NEW a
  PROVE  IsChart([c EXCEPT !.fetching = a]) /\ [c EXCEPT !.fetching = a].handler = c.handler
BY DEF IsChart

LEMMA HeldUpdated ==
  ASSUME NEW c, IsChart(c), NEW a
  PROVE  IsChart([c EXCEPT !.held = a]) /\ [c EXCEPT !.held = a].handler = c.handler
BY DEF IsChart

LEMMA CoveredUpdated ==
  ASSUME NEW c, IsChart(c), NEW a
  PROVE  IsChart([c EXCEPT !.covered = a]) /\ [c EXCEPT !.covered = a].handler = c.handler
BY DEF IsChart

LEMMA HandlerAndFetchingUpdated ==
  ASSUME NEW c, IsChart(c), NEW h, NEW a
  PROVE  /\ IsChart([c EXCEPT !.handler = h, !.fetching = a])
         /\ [c EXCEPT !.handler = h, !.fetching = a].handler = h
<1> DEFINE d == [c EXCEPT !.handler = h]
<1>1. [c EXCEPT !.handler = h, !.fetching = a] = [d EXCEPT !.fetching = a]
  BY DEF IsChart
<1>2. IsChart(d) /\ d.handler = h
  BY HandlerUpdated
<1> HIDE DEF d
<1> QED BY <1>1, <1>2, FetchingUpdated

LEMMA HandlerAndHeldUpdated ==
  ASSUME NEW c, IsChart(c), NEW h, NEW a
  PROVE  /\ IsChart([c EXCEPT !.handler = h, !.held = a])
         /\ [c EXCEPT !.handler = h, !.held = a].handler = h
<1> DEFINE d == [c EXCEPT !.handler = h]
<1>1. [c EXCEPT !.handler = h, !.held = a] = [d EXCEPT !.held = a]
  BY DEF IsChart
<1>2. IsChart(d) /\ d.handler = h
  BY HandlerUpdated
<1> HIDE DEF d
<1> QED BY <1>1, <1>2, HeldUpdated

LEMMA HandlerAndCoveredUpdated ==
  ASSUME NEW c, IsChart(c), NEW h, NEW a
  PROVE  /\ IsChart([c EXCEPT !.handler = h, !.covered = a])
         /\ [c EXCEPT !.handler = h, !.covered = a].handler = h
<1> DEFINE d == [c EXCEPT !.handler = h]
<1>1. [c EXCEPT !.handler = h, !.covered = a] = [d EXCEPT !.covered = a]
  BY DEF IsChart
<1>2. IsChart(d) /\ d.handler = h
  BY HandlerUpdated
<1> HIDE DEF d
<1> QED BY <1>1, <1>2, CoveredUpdated

(* What every step keeps. *)
Kept == ChartInv' /\ KeepsSettled(chart.handler, chart.handler')

LEMMA StoppedIsKept ==
  ASSUME NEW c, IsChart(c), StopFetching(c), Good(c.handler),
         KeepsSettled(chart.handler, c.handler)
  PROVE  Kept
<1>1. chart' = [c EXCEPT !.fetching = FALSE]
  BY DEF StopFetching
<1>2. IsChart(chart') /\ chart'.handler = c.handler
  BY <1>1, FetchingUpdated
<1> QED BY <1>2 DEF Kept, ChartInv

(* Dropping settled requests only once they are due keeps the settled ones. *)
LEMMA KeepsSettledAfterCleanup ==
  ASSUME NEW k, NEW h, NEW g, Narrows(k, h), KeepsSettled(h, g),
         \A id \in DOMAIN k.requests \ DOMAIN h.requests : ~Settled(k.requests[id])
  PROVE  KeepsSettled(k, g)
<1> SUFFICES ASSUME NEW i \in DOMAIN k.requests \cap DOMAIN g.requests,
                    Settled(k.requests[i]), g.requests[i].status # k.requests[i].status
             PROVE  /\ k.requests[i].status = "Superseded"
                    /\ g.requests[i].status = "Pending"
                    /\ g.requests[i].generation = k.generation
  BY DEF KeepsSettled
<1>1. i \in DOMAIN h.requests
  OBVIOUS
<1>2. h.requests[i] = k.requests[i] /\ h.generation = k.generation
  BY <1>1 DEF Narrows, Settled
<1> QED BY <1>1, <1>2 DEF KeepsSettled

(* The chart, with the cleaned handler, waits, has all it wants, or asks for a range under a  *)
(* new id.                                                                                    *)
Asking(h, busy, dispatched, idle, next) ==
    \/ /\ chart' = idle /\ worker' = IF busy THEN worker ELSE NoWorker
       /\ UNCHANGED <<queue, spent>>
    \/ /\ Fresh(h) # {}
       /\ \E fetch \in NextFetch(chart.covered, Edge) :
          \E added \in {AddRequest(h, next, fetch)} :
             \/ /\ added.id = NoId
                /\ chart' = [idle EXCEPT !.handler = added.handler]
                /\ worker' = NoWorker /\ UNCHANGED <<queue, spent>>
             \/ /\ added.id # NoId
                /\ chart' = [idle EXCEPT !.handler = added.handler, !.fetching = TRUE]
                /\ IF dispatched
                   THEN worker' = NewWorker(added.id, fetch) /\ UNCHANGED <<queue, spent>>
                   ELSE /\ worker' = NoWorker /\ Trouble("faults")
                        /\ queue' = Append(queue, [type |-> "Failed", req |-> added.id])

(* AskNext, with names for its parts. *)
LEMMA AskNextDoes ==
  ASSUME NEW h, NEW busy, NEW dispatched, AskNext(h, busy, dispatched)
  PROVE  Asking(h, busy, dispatched, [chart EXCEPT !.handler = h, !.fetching = busy],
                CHOOSE id \in Fresh(h) : TRUE)
BY ZenonT(60) DEF AskNext, Asking

LEMMA AskNextIsKept ==
  ASSUME ChartInv, NEW dispatched \in BOOLEAN, NEW busy, NEW h, h = Cleanup(chart.handler),
         AskNext(h, busy, dispatched)
  PROVE  Kept
<1> DEFINE idle == [chart EXCEPT !.handler = h, !.fetching = busy]
           next == CHOOSE id \in Fresh(h) : TRUE
<1>1. Good(chart.handler) /\ IsChart(chart)
  BY DEF ChartInv
<1>2. /\ Good(h) /\ Narrows(chart.handler, h)
      /\ \A i \in DOMAIN chart.handler.requests \ DOMAIN h.requests :
           ~Settled(chart.handler.requests[i])
  BY <1>1, CleanupIs
<1>3. \/ chart' = idle
      \/ /\ Fresh(h) # {}
         /\ \E fetch \in NextFetch(chart.covered, Edge) :
            \E added \in {AddRequest(h, next, fetch)} :
              \/ chart' = [idle EXCEPT !.handler = added.handler]
              \/ chart' = [idle EXCEPT !.handler = added.handler, !.fetching = TRUE]
  <2>1. Asking(h, busy, dispatched, idle, next)
    BY AskNextDoes, Zenon
  <2> HIDE DEF idle, next
  <2> QED BY <2>1, Zenon DEF Asking
<1>4. \A fetch \in NextFetch(chart.covered, Edge) : \E from, to : fetch = Trades(from, to)
  BY DEF NextFetch
<1>5. IsChart(idle) /\ idle.handler = h
  BY <1>1, HandlerAndFetchingUpdated
<1> HIDE DEF idle
<1>6. CASE chart' = idle
  <2>1. KeepsSettled(chart.handler, h)
    BY <1>2, NarrowsKeepsSettled
  <2> QED BY <1>2, <1>5, <1>6, <2>1 DEF Kept, ChartInv
<1>7. CASE chart' # idle
  <2>1. next \notin DOMAIN h.requests
    BY <1>3, <1>7 DEF Fresh
  <2>2. PICK fetch \in NextFetch(chart.covered, Edge) :
        \E added \in {AddRequest(h, next, fetch)} :
          \/ chart' = [idle EXCEPT !.handler = added.handler]
          \/ chart' = [idle EXCEPT !.handler = added.handler, !.fetching = TRUE]
    BY <1>3, <1>7
  <2> DEFINE g == AddRequest(h, next, fetch).handler
  <2>3. PICK from, to : fetch = Trades(from, to)
    BY <1>4
  <2> HIDE DEF next
  <2>4. Good(g) /\ KeepsSettled(h, g)
    BY <1>2, <2>1, <2>3, AddRequestIs
  <2>5. \/ chart' = [idle EXCEPT !.handler = g]
        \/ chart' = [idle EXCEPT !.handler = g, !.fetching = TRUE]
    BY <2>2
  <2> HIDE DEF g
  <2>6. IsChart([idle EXCEPT !.handler = g]) /\ [idle EXCEPT !.handler = g].handler = g
    BY <1>5, HandlerUpdated
  <2>7. IsChart([idle EXCEPT !.handler = g, !.fetching = TRUE])
          /\ [idle EXCEPT !.handler = g, !.fetching = TRUE].handler = g
    BY <1>5, HandlerAndFetchingUpdated
  <2>8. IsChart(chart') /\ chart'.handler = g
    BY <2>5, <2>6, <2>7
  <2>9. KeepsSettled(chart.handler, g)
    BY <1>2, <2>4, KeepsSettledAfterCleanup
  <2> QED BY <2>4, <2>8, <2>9 DEF Kept, ChartInv
<1> QED BY <1>6, <1>7

LEMMA FetchMissingIsKept ==
  ASSUME ChartInv, NEW dispatched \in BOOLEAN, FetchMissing(dispatched)
  PROVE  Kept
<1>1. PICK h \in {Cleanup(chart.handler)} :
        \E busy \in {chart.fetching /\ HasPendingTrades(h)} : AskNext(h, busy, dispatched)
  BY Zenon DEF FetchMissing
<1>2. PICK busy : AskNext(h, busy, dispatched)
  BY <1>1, Zenon
<1> QED BY <1>1, <1>2, AskNextIsKept

LEMMA UnchangedIsKept ==
  ASSUME ChartInv, UNCHANGED chart
  PROVE  Kept
<1>1. KeepsSettled(chart.handler, chart.handler)
  BY DEF KeepsSettled
<1> QED BY <1>1 DEF Kept, ChartInv

(* A chart that differs in its handler, and in what has nothing to do with it. *)
LEMMA HandledIsKept ==
  ASSUME IsChart(chart'), Good(chart'.handler), KeepsSettled(chart.handler, chart'.handler)
  PROVE  Kept
BY DEF Kept, ChartInv

LEMMA OnDataIsKept ==
  ASSUME ChartInv, NEW m, OnData(m)
  PROVE  Kept
<1> DEFINE inserted == [chart EXCEPT !.held = @ \cup {p \in m.points : p <= m.until}]
           h == MarkCompleted(chart.handler, m.req)
<1>1. Good(chart.handler) /\ IsChart(chart)
  BY DEF ChartInv
<1>2. Good(h) /\ KeepsSettled(chart.handler, h)
  BY <1>1, MarkCompletedIs, NarrowsKeepsSettled
<1>3. IsChart(inserted) /\ inserted.handler = chart.handler
  <2> DEFINE held == chart.held \cup {p \in m.points : p <= m.until}
  <2>1. inserted = [chart EXCEPT !.held = held]
    OBVIOUS
  <2> HIDE DEF held, inserted
  <2> QED BY <1>1, <2>1, HeldUpdated
<1>4. KeepsSettled(chart.handler, chart.handler)
  BY DEF KeepsSettled
<1>5. \/ chart' = [chart EXCEPT !.handler = h] \/ StopFetching(inserted) \/ chart' = inserted
  BY DEF OnData
<1> HIDE DEF inserted, h
<1>6. CASE chart' = [chart EXCEPT !.handler = h]
  <2>1. IsChart([chart EXCEPT !.handler = h]) /\ [chart EXCEPT !.handler = h].handler = h
    BY <1>1, HandlerUpdated
  <2> QED BY <1>2, <1>6, <2>1 DEF Kept, ChartInv
<1>7. CASE StopFetching(inserted)
  BY <1>1, <1>3, <1>4, <1>7, StoppedIsKept
<1>8. CASE chart' = inserted
  BY <1>1, <1>3, <1>4, <1>8 DEF Kept, ChartInv
<1> QED BY <1>5, <1>6, <1>7, <1>8

(* Throttling a range leaves the requests alone. *)
LEMMA MarkEmptyIs ==
  ASSUME NEW k, NEW h, Good(h), KeepsSettled(k, h), NEW from, NEW to
  PROVE  Good(MarkEmpty(h, from, to)) /\ KeepsSettled(k, MarkEmpty(h, from, to))
<1> DEFINE g == MarkEmpty(h, from, to)
<1>1. g = [generation |-> h.generation, requests |-> h.requests, empty |-> g.empty]
  BY DEF MarkEmpty, Good, IsHandler
<1> HIDE DEF g
<1>2. g.generation = h.generation /\ g.requests = h.requests
  BY <1>1
<1>3. IsHandler(g)
  BY <1>1, <1>2 DEF Good, IsHandler
<1> QED BY <1>2, <1>3 DEF g, Good, Distinct, Current, KeepsSettled

LEMMA OnCompletedIsKept ==
  ASSUME ChartInv, NEW m, OnCompleted(m)
  PROVE  Kept
<1> DEFINE h == MarkCompleted(chart.handler, m.req)
           tail == Min(m.tail \cup {m.to})
           g == IF m.empty THEN MarkEmpty(h, tail, m.to) ELSE h
           covered == chart.covered \cup m.from .. (VerifiedTo(m) - 1)
           c == [chart EXCEPT !.handler = g, !.covered = covered]
<1>1. Good(chart.handler) /\ IsChart(chart)
  BY DEF ChartInv
<1>2. Good(h) /\ KeepsSettled(chart.handler, h)
  BY <1>1, MarkCompletedIs, NarrowsKeepsSettled
<1>3. StopFetching(c)
  BY DEF OnCompleted
<1> HIDE DEF h, tail, covered
<1>4. Good(g) /\ KeepsSettled(chart.handler, g)
  BY <1>2, MarkEmptyIs
<1> HIDE DEF g
<1>5. IsChart(c) /\ c.handler = g
  BY <1>1, HandlerAndCoveredUpdated
<1> HIDE DEF c
<1> QED BY <1>3, <1>4, <1>5, StoppedIsKept

LEMMA OnFailedIsKept ==
  ASSUME ChartInv, NEW m, OnFailed(m)
  PROVE  Kept
<1> DEFINE h == MarkFailed(chart.handler, m.req)
           c == [chart EXCEPT !.handler = h]
<1>1. Good(chart.handler) /\ IsChart(chart)
  BY DEF ChartInv
<1>2. Good(h) /\ KeepsSettled(chart.handler, h)
  BY <1>1, MarkFailedIs
<1>3. StopFetching(c) \/ chart' = c
  BY DEF OnFailed
<1> HIDE DEF h
<1>4. IsChart(c) /\ c.handler = h
  BY <1>1, HandlerUpdated
<1> HIDE DEF c
<1>5. CASE StopFetching(c)
  BY <1>2, <1>4, <1>5, StoppedIsKept
<1>6. CASE chart' = c
  BY <1>2, <1>4, <1>6 DEF Kept, ChartInv
<1> QED BY <1>3, <1>5, <1>6

LEMMA AgesIsKept ==
  ASSUME ChartInv, NEW id, Ages(id)
  PROVE  Kept
<1> DEFINE h == chart.handler
           r == h.requests[id]
           old == [r EXCEPT !.age = r.age + 1]
           requests == [h.requests EXCEPT ![id] = old]
           g == [h EXCEPT !.requests = requests]
<1>1. Good(h) /\ IsChart(chart) /\ id \in DOMAIN h.requests /\ IsRequest(r)
  BY DEF ChartInv, Ages, Good, IsHandler
<1>2. chart' = [chart EXCEPT !.handler = g]
  BY DEF Ages
<1>3. IsRequest(old) /\ old.fetch = r.fetch /\ old.status = r.status /\ old.generation = r.generation
  <2> HIDE DEF r
  <2>1. old = [fetch |-> r.fetch, status |-> r.status, generation |-> r.generation, age |-> r.age + 1]
    BY <1>1 DEF IsRequest
  <2>2. r.age + 1 \in Nat
    BY <1>1 DEF IsRequest
  <2> HIDE DEF old
  <2>3. old.fetch = r.fetch /\ old.status = r.status /\ old.generation = r.generation /\ old.age = r.age + 1
    BY <2>1
  <2> QED BY <1>1, <2>1, <2>2, <2>3 DEF IsRequest
<1> HIDE DEF old
<1>4. /\ requests = [i \in DOMAIN h.requests |-> requests[i]]
      /\ DOMAIN requests = DOMAIN h.requests
      /\ requests[id] = old
      /\ \A i \in DOMAIN h.requests : i # id => requests[i] = h.requests[i]
  <2> HIDE DEF h
  <2>1. h.requests = [i \in DOMAIN h.requests |-> h.requests[i]]
    BY <1>1 DEF Good, IsHandler
  <2> QED BY <1>1, <2>1
<1>5. \A i \in DOMAIN h.requests :
        /\ IsRequest(requests[i]) /\ requests[i].fetch = h.requests[i].fetch
        /\ requests[i].status = h.requests[i].status
        /\ requests[i].generation = h.requests[i].generation
  <2> SUFFICES ASSUME NEW i \in DOMAIN h.requests
               PROVE  /\ IsRequest(requests[i]) /\ requests[i].fetch = h.requests[i].fetch
                      /\ requests[i].status = h.requests[i].status
                      /\ requests[i].generation = h.requests[i].generation
    OBVIOUS
  <2> HIDE DEF requests
  <2>1. CASE i = id
    BY <1>3, <1>4, <2>1
  <2>2. CASE i # id
    BY <1>1, <1>4, <2>2 DEF Good, IsHandler
  <2> QED BY <2>1, <2>2
<1> HIDE DEF requests
<1>6. g = [generation |-> h.generation, requests |-> requests, empty |-> h.empty]
  <2> HIDE DEF h
  <2> QED BY <1>1 DEF Good, IsHandler
<1> HIDE DEF g
<1>7. g.generation = h.generation /\ g.requests = requests /\ g.empty = h.empty
  BY <1>6
<1>8. IsHandler(g)
  <2>1. g = [generation |-> g.generation, requests |-> g.requests, empty |-> g.empty]
    BY <1>6, <1>7
  <2>2. g.requests = [i \in DOMAIN g.requests |-> g.requests[i]]
    BY <1>4, <1>7
  <2>3. \A i \in DOMAIN g.requests : IsRequest(g.requests[i])
    BY <1>4, <1>5, <1>7
  <2> QED BY <2>1, <2>2, <2>3 DEF IsHandler
<1>9. Distinct(g)
  <2>1. Distinct(h)
    BY <1>1 DEF Good
  <2> SUFFICES ASSUME NEW i \in DOMAIN h.requests, NEW j \in DOMAIN h.requests,
                      requests[i].fetch = requests[j].fetch
               PROVE  i = j
    BY <1>4, <1>7 DEF Distinct
  <2>2. h.requests[i].fetch = h.requests[j].fetch
    BY <1>5
  <2> QED BY <2>1, <2>2 DEF Distinct
<1>10. Current(g)
  BY <1>1, <1>4, <1>5, <1>7 DEF Good, Current
<1>11. KeepsSettled(h, g)
  BY <1>4, <1>5, <1>7 DEF KeepsSettled
<1>12. IsChart(chart') /\ chart'.handler = g
  BY <1>1, <1>2, HandlerUpdated
<1> QED BY <1>8, <1>9, <1>10, <1>11, <1>12 DEF Kept, ChartInv, Good

LEMMA ForgetEmptyIsKept ==
  ASSUME ChartInv, ForgetEmpty
  PROVE  Kept
<1> DEFINE h == chart.handler
<1>1. Good(h) /\ IsChart(chart)
  BY DEF ChartInv
<1>2. PICK range \in h.empty : chart' = [chart EXCEPT !.handler.empty = @ \ {range}]
  BY DEF ForgetEmpty
<1> DEFINE empty == h.empty \ {range}
           g == [h EXCEPT !.empty = empty]
<1>3. chart' = [chart EXCEPT !.handler = g]
  BY <1>2
<1> HIDE DEF empty
<1>4. g = [generation |-> h.generation, requests |-> h.requests, empty |-> empty]
  <2> HIDE DEF h
  <2> QED BY <1>1 DEF Good, IsHandler
<1> HIDE DEF g
<1>5. g.generation = h.generation /\ g.requests = h.requests /\ g.empty = empty
  BY <1>4
<1>6. IsHandler(g)
  BY <1>1, <1>4, <1>5 DEF Good, IsHandler
<1>7. Good(g) /\ KeepsSettled(h, g)
  BY <1>1, <1>5, <1>6 DEF Good, Distinct, Current, KeepsSettled
<1>8. IsChart(chart') /\ chart'.handler = g
  BY <1>1, <1>3, HandlerUpdated
<1> QED BY <1>7, <1>8 DEF Kept, ChartInv

LEMMA ResetIsKept ==
  ASSUME ChartInv, NEW keeps \in BOOLEAN, Reset(keeps)
  PROVE  Kept
<1> DEFINE h == Supersede(chart.handler)
           covered == {}
           held == IF keeps THEN chart.held ELSE {}
           c == [chart EXCEPT !.handler = h, !.covered = covered, !.held = held]
<1>1. Good(chart.handler) /\ IsChart(chart)
  BY DEF ChartInv
<1>2. Good(h) /\ KeepsSettled(chart.handler, h)
  BY <1>1, SupersedeIs
<1>3. StopFetching(c)
  BY DEF Reset
<1> HIDE DEF h, covered, held
<1>4. IsChart(c) /\ c.handler = h
  <2> DEFINE d == [chart EXCEPT !.handler = h, !.covered = covered]
  <2>1. c = [d EXCEPT !.held = held]
    BY <1>1 DEF IsChart
  <2>2. IsChart(d) /\ d.handler = h
    BY <1>1, HandlerAndCoveredUpdated
  <2> HIDE DEF c, d
  <2> QED BY <2>1, <2>2, HeldUpdated
<1> HIDE DEF c
<1> QED BY <1>2, <1>3, <1>4, StoppedIsKept

LEMMA NewHandlerIsGood == Good(NewHandler) /\ DOMAIN NewHandler.requests = {}
BY DEF NewHandler, Good, IsHandler, Distinct, Current

LEMMA ClearCacheIsKept ==
  ASSUME ChartInv, ClearCache
  PROVE  Kept
<1> DEFINE h == NewHandler
           c == [chart EXCEPT !.handler = h, !.held = {}]
<1>1. IsChart(chart) /\ chart' = c
  BY DEF ChartInv, ClearCache
<1>2. Good(h) /\ KeepsSettled(chart.handler, h)
  BY NewHandlerIsGood DEF KeepsSettled
<1> HIDE DEF h
<1>3. IsChart(c) /\ c.handler = h
  BY <1>1, HandlerAndHeldUpdated
<1> QED BY <1>1, <1>2, <1>3 DEF Kept, ChartInv

LEMMA InitIsGood ==
  ASSUME Init
  PROVE  ChartInv
<1>1. IsChart(chart) /\ chart.handler = NewHandler
  BY DEF Init, IsChart
<1> QED BY <1>1, NewHandlerIsGood DEF ChartInv

LEMMA StepIsKept ==
  ASSUME ChartInv, [Next]_vars
  PROVE  Kept
<1>1. CASE Tick
  BY <1>1, UnchangedIsKept DEF Tick
<1>2. CASE \E dispatched \in BOOLEAN : FetchMissing(dispatched)
  BY <1>2, FetchMissingIsKept
<1>3. CASE WorkerStart
  BY <1>3, UnchangedIsKept DEF WorkerStart
<1>4. CASE WorkerPage
  BY <1>4, UnchangedIsKept DEF WorkerPage
<1>5. CASE WorkerDone
  BY <1>5, UnchangedIsKept DEF WorkerDone
<1>6. CASE \E interrupted \in BOOLEAN : WorkerFails(interrupted)
  BY <1>6, UnchangedIsKept DEF WorkerFails
<1>7. CASE Deliver
  <2>1. OnData(Head(queue)) \/ OnCompleted(Head(queue)) \/ OnFailed(Head(queue))
    BY <1>7 DEF Deliver
  <2> QED BY <2>1, OnDataIsKept, OnCompletedIsKept, OnFailedIsKept
<1>8. CASE \E id \in Id : Age(id) \/ AgeAtWork(id)
  <2>1. \E id \in Id : Ages(id)
    BY <1>8 DEF Age, AgeAtWork
  <2> QED BY <2>1, AgesIsKept
<1>9. CASE ForgetEmpty
  BY <1>9, ForgetEmptyIsKept
<1>10. CASE \E keeps \in BOOLEAN : Reset(keeps)
  BY <1>10, ResetIsKept
<1>11. CASE ClearCache
  BY <1>11, ClearCacheIsKept
<1>12. CASE UNCHANGED vars
  BY <1>12, UnchangedIsKept DEF vars
<1> QED
  BY <1>1, <1>2, <1>3, <1>4, <1>5, <1>6, <1>7, <1>8, <1>9, <1>10, <1>11, <1>12 DEF Next

--------------------------------------------------------------------------------
(* The theorems. *)

(* The strengthening holds initially and every step preserves it. *)
LEMMA ChartIsGood == Spec => []ChartInv
<1>1. Init => ChartInv
  BY InitIsGood
<1>2. ChartInv /\ [Next]_vars => ChartInv'
  BY StepIsKept DEF Kept
<1> QED BY <1>1, <1>2, PTL DEF Spec

(* A chart never holds two requests for one range (add_request_with_id), however often it was *)
(* reset, its requests superseded, revived, failed and retried.                               *)
THEOREM RangesAreAskedOnce == Spec => []OneRequestPerRange
<1>1. ChartInv => OneRequestPerRange
  BY DEF ChartInv, Good, Distinct, OneRequestPerRange
<1> QED BY <1>1, ChartIsGood, PTL

(* What a chart waits for is of the present generation, so that its results are never dropped *)
(* as stale (is_stale_generation).                                                            *)
THEOREM PendingCorrect == Spec => []PendingIsCurrent
<1>1. ChartInv => PendingIsCurrent
  BY DEF ChartInv, Good, Current, PendingIsCurrent, Requests
<1> QED BY <1>1, ChartIsGood, PTL

(* No late, repeated or foreign result changes what a settled request came to                 *)
(* (mark_completed, mark_failed, add_request_with_id).                                        *)
THEOREM SettledCorrect == Spec => SettledStaysSettled
<1> DEFINE Stays ==
      \A id \in DOMAIN chart.handler.requests \cap DOMAIN chart'.handler.requests :
          LET old == chart.handler.requests[id]
              new == chart'.handler.requests[id]
              settled == old.status # "Pending" /\ old.age < MaxAge(old.status)
          IN settled /\ new.status # old.status =>
                /\ old.status = "Superseded"
                /\ new.status = "Pending" /\ new.generation = chart.handler.generation
<1>1. ChartInv /\ [Next]_vars => [Stays]_vars
  BY StepIsKept DEF Kept, KeepsSettled, Settled
<1> QED BY <1>1, ChartIsGood, PTL DEF Spec, SettledStaysSettled

--------------------------------------------------------------------------------
(* The trades of what is covered. *)

(* What goes from the worker to the chart. *)
Messages ==
    [type : {"Data"}, req : Id, points : SUBSET (0 .. End), until : 0 .. End]
      \cup [type : {"Completed"}, req : Id, from : 0 .. End, to : 0 .. End,
            tail : SUBSET (0 .. End + 1), empty : BOOLEAN]
      \cup [type : {"Failed"}, req : Id]

Starting == [phase : {"start"}, req : Id, from : 0 .. End, to : 0 .. End]

Running == [phase : {"run"}, req : Id, from : 0 .. End, to : 0 .. End,
            gaps : SUBSET (0 .. End), todo : SUBSET (0 .. End)]

LineOK ==
    /\ traded \in Markets /\ now \in 0 .. End /\ cache \subseteq 0 .. End
    /\ chart.covered \subseteq 0 .. (End - 1) /\ chart.held \subseteq traded
    /\ chart.fetching \in BOOLEAN
    /\ spent \in [faults : Nat, resets : Nat, clears : Nat]

RequestsOK(h) ==
    /\ h.generation \in Nat
    /\ \A id \in DOMAIN h.requests :
          /\ id \in Id
          /\ h.requests[id].age \in 0 .. MaxAge(h.requests[id].status)
          /\ h.requests[id].generation \in 0 .. h.generation
          /\ IsRange(h.requests[id].fetch.from, h.requests[id].fetch.to)
          /\ IsValid(h.requests[id].fetch)

MessageOK(m) ==
    /\ m.type = "Data" => m.points \subseteq traded \cap 0 .. now
    /\ m.type = "Completed" =>
          m.from <= m.to /\ (m.tail = {} \/ \E c \in 0 .. End + 1 : m.tail = {c})

QueueOK(q) == q \in Seq(Messages) /\ \A i \in DOMAIN q : MessageOK(q[i])

WorkerOK ==
    worker # NoWorker =>
       /\ worker \in Starting \cup Running
       /\ worker.from < worker.to /\ worker.to <= now /\ chart.fetching
       /\ worker.phase = "run" =>
             /\ worker.gaps \subseteq worker.from .. worker.to
             /\ worker.todo \subseteq worker.from .. worker.to

ShapeInv == ChartInv /\ LineOK /\ RequestsOK(chart.handler) /\ QueueOK(queue) /\ WorkerOK

(* Neither a reset nor a clearing so far. *)
Undisturbed == spent.resets = 0 /\ spent.clears = 0

(* A request that stays in the books until the queue is empty. *)
Booked(h, id) ==
    /\ id \in DOMAIN h.requests
    /\ h.requests[id].status = "Pending" \/ h.requests[id].age = 0

Unsuperseded(h) == \A id \in DOMAIN h.requests : h.requests[id].status # "Superseded"

(* The chart knows the requests of the trades on their way. *)
QueueKnown(h, q) == \A i \in DOMAIN q : q[i].type = "Data" => Booked(h, q[i].req)

(* It waits for the worker, which is dropped when its deadline has passed, as those of all *)
(* others have by then.                                                                    *)
WorkerKnown(h, w) ==
    w # NoWorker =>
       /\ w.req \in DOMAIN h.requests /\ h.requests[w.req].status = "Pending"
       /\ h.requests[w.req].age # 0 =>
             \A id \in DOMAIN h.requests :
                h.requests[id].status = "Pending" => h.requests[id].age # 0

(* Trades among the first n messages. *)
Brings(m, p) == m.type = "Data" /\ p \in m.points /\ p <= m.until

Brought(q, n, p) == \E i \in 1 .. n : Brings(q[i], p)

(* A completion follows the trades it credits. *)
Follows(q, held) ==
    \A i \in DOMAIN q : q[i].type = "Completed" =>
       \A p \in traded \cap q[i].from .. VerifiedTo(q[i]) : p \in held \/ Brought(q, i - 1, p)

(* What a worker has done with is held or on its way. *)
WorksThrough(w, q, held) ==
    w.phase = "run" =>
       \A p \in traded \cap w.from .. w.to :
          p \in w.todo \cap w.gaps \/ p \in held \/ Brought(q, Len(q), p)

CoverInv ==
    Undisturbed =>
       /\ Unsuperseded(chart.handler)
       /\ QueueKnown(chart.handler, queue) /\ WorkerKnown(chart.handler, worker)
       /\ Follows(queue, chart.held)
       /\ WorksThrough(worker, queue, chart.held)
       /\ HoldsWhatItCovers

(* No request is new, and each is as it was, or settled just now. *)
Carried(r, s) ==
    \/ s = r
    \/ /\ s.status \in {"Completed", "Failed"} /\ s.age = 0
       /\ s.fetch = r.fetch /\ s.generation = r.generation

Carries(h, g) ==
    /\ g.generation = h.generation
    /\ DOMAIN g.requests \subseteq DOMAIN h.requests
    /\ \A id \in DOMAIN g.requests : Carried(h.requests[id], g.requests[id])

KeepsBooked(h, g) == \A id : Booked(h, id) => Booked(g, id)

(* What is carried over keeps its shape. *)
LEMMA CarriedIsOK ==
  ASSUME NEW h, NEW g, RequestsOK(h), Carries(h, g)
  PROVE  RequestsOK(g)
<1> SUFFICES ASSUME NEW id \in DOMAIN g.requests
             PROVE  /\ id \in Id
                    /\ g.requests[id].age \in 0 .. MaxAge(g.requests[id].status)
                    /\ g.requests[id].generation \in 0 .. g.generation
                    /\ IsRange(g.requests[id].fetch.from, g.requests[id].fetch.to)
                    /\ IsValid(g.requests[id].fetch)
  BY DEF RequestsOK, Carries
<1>1. PICK r : r = h.requests[id]
  OBVIOUS
<1>2. PICK s : s = g.requests[id]
  OBVIOUS
<1>3. /\ id \in Id /\ r.age \in 0 .. MaxAge(r.status) /\ r.generation \in 0 .. g.generation
      /\ IsRange(r.fetch.from, r.fetch.to) /\ IsValid(r.fetch) /\ Carried(r, s)
  BY <1>1, <1>2 DEF RequestsOK, Carries
<1>4. s = r \/ (s.age = 0 /\ s.fetch = r.fetch /\ s.generation = r.generation)
  BY <1>3 DEF Carried
<1>5. 0 \in 0 .. MaxAge(s.status)
  BY DEF MaxAge
<1> QED BY <1>2, <1>3, <1>4, <1>5

(* A sequence of operations that carry. *)
LEMMA CarriesOn ==
  ASSUME NEW h, NEW g, NEW k, Carries(h, g), Carries(g, k)
  PROVE  Carries(h, k)
<1>1. ASSUME NEW id \in DOMAIN k.requests
      PROVE  Carried(h.requests[id], k.requests[id])
  BY <1>1 DEF Carries, Carried
<1> QED BY <1>1 DEF Carries

(* cleanup_stale_at: only what was settled goes, and what is pending has time left. *)
LEMMA CleanupCarries ==
  ASSUME NEW h, Good(h)
  PROVE  /\ Carries(h, Cleanup(h)) /\ KeepsBooked(h, Cleanup(h))
         /\ \A id \in DOMAIN Cleanup(h).requests :
               Cleanup(h).requests[id].status = "Pending" =>
                  /\ Cleanup(h).requests[id] = h.requests[id] /\ h.requests[id].age # 1
         /\ \A id \in DOMAIN h.requests :
               h.requests[id].status = "Pending" /\ h.requests[id].age # 1 =>
                  /\ id \in DOMAIN Cleanup(h).requests
                  /\ Cleanup(h).requests[id] = h.requests[id]
<1> DEFINE late(r) == r.age = MaxAge(r.status)
           kept == {i \in DOMAIN h.requests :
                      h.requests[i].status = "Pending" \/ ~late(h.requests[i])}
           request(i) == IF late(h.requests[i]) THEN Turn(h.requests[i], "Failed")
                         ELSE h.requests[i]
<1>1. IsHandler(h)
  BY DEF Good
<1>2. PICK g : g = Cleanup(h)
  OBVIOUS
<1>3. g = [generation |-> h.generation, requests |-> [i \in kept |-> request(i)],
           empty |-> h.empty]
  BY <1>1, <1>2 DEF Cleanup, IsHandler
<1>4. /\ g.generation = h.generation /\ DOMAIN g.requests = kept
      /\ \A i \in kept : g.requests[i] = request(i)
  BY <1>3
<1>5. \A i \in DOMAIN h.requests :
         /\ i \notin kept => h.requests[i].status # "Pending" /\ h.requests[i].age # 0
         /\ late(h.requests[i]) /\ h.requests[i].status = "Pending" => h.requests[i].age = 1
         /\ ~late(h.requests[i]) /\ h.requests[i].status = "Pending" => h.requests[i].age # 1
         /\ i \in kept /\ late(h.requests[i]) => h.requests[i].status = "Pending"
  BY DEF MaxAge
<1>6. ASSUME NEW i \in kept
      PROVE  /\ ~late(h.requests[i]) => g.requests[i] = h.requests[i]
             /\ late(h.requests[i]) =>
                   /\ g.requests[i].status = "Failed" /\ g.requests[i].age = 0
                   /\ g.requests[i].fetch = h.requests[i].fetch
                   /\ g.requests[i].generation = h.requests[i].generation
  <2>1. PICK r : r = h.requests[i] /\ IsRequest(r)
    BY <1>1 DEF IsHandler
  <2>2. g.requests[i] = IF late(r) THEN Turn(r, "Failed") ELSE r
    BY <1>4, <2>1
  <2>3. /\ Turn(r, "Failed").status = "Failed" /\ Turn(r, "Failed").fetch = r.fetch
        /\ Turn(r, "Failed").generation = r.generation
    BY <2>1, TurnIs
  <2>4. Turn(r, "Failed").age = 0
    BY <2>1 DEF Turn, IsRequest
  <2> HIDE DEF late
  <2> QED BY <2>1, <2>2, <2>3, <2>4
<1>7. kept \subseteq DOMAIN h.requests
  OBVIOUS
<1> HIDE DEF kept, request, late
<1>8. Carries(h, g)
  BY <1>4, <1>6, <1>7 DEF Carries, Carried
<1>9. KeepsBooked(h, g)
  BY <1>4, <1>5, <1>6 DEF KeepsBooked, Booked
<1>10. \A id \in DOMAIN g.requests : g.requests[id].status = "Pending" =>
          g.requests[id] = h.requests[id] /\ h.requests[id].age # 1
  BY <1>4, <1>5, <1>6, <1>7
<1>11. \A id \in DOMAIN h.requests : h.requests[id].status = "Pending" /\ h.requests[id].age # 1 =>
          id \in DOMAIN g.requests /\ g.requests[id] = h.requests[id]
  BY <1>4, <1>5, <1>6
<1> QED BY <1>2, <1>8, <1>9, <1>10, <1>11

(* Making room for a retry. *)
LEMMA DropRetryableCarries ==
  ASSUME NEW h, Good(h), NEW fetch
  PROVE  Carries(h, DropRetryable(h, fetch)) /\ KeepsBooked(h, DropRetryable(h, fetch))
<1> DEFINE kept == {i \in DOMAIN h.requests :
                      ~(h.requests[i].status = "Failed" /\ h.requests[i].fetch = fetch
                          /\ h.requests[i].age > 0)}
<1>1. IsHandler(h)
  BY DEF Good
<1>2. PICK g : g = DropRetryable(h, fetch)
  OBVIOUS
<1>3. g = [generation |-> h.generation, requests |-> [i \in kept |-> h.requests[i]],
           empty |-> h.empty]
  BY <1>1, <1>2 DEF DropRetryable, IsHandler
<1>4. /\ g.generation = h.generation /\ DOMAIN g.requests = kept
      /\ \A i \in kept : g.requests[i] = h.requests[i]
  BY <1>3
<1>5. /\ kept \subseteq DOMAIN h.requests
      /\ \A i \in DOMAIN h.requests \ kept : h.requests[i].status = "Failed" /\ h.requests[i].age > 0
  OBVIOUS
<1> HIDE DEF kept
<1>6. Carries(h, g)
  BY <1>4, <1>5 DEF Carries, Carried
<1>7. KeepsBooked(h, g)
  BY <1>4, <1>5 DEF KeepsBooked, Booked
<1> QED BY <1>2, <1>6, <1>7

(* A request that is settled is booked. *)
LEMMA SettledCarries ==
  ASSUME NEW h, Good(h), NEW id \in DOMAIN h.requests, NEW status \in {"Completed", "Failed"}
  PROVE  /\ Carries(h, Put(h, id, Turn(h.requests[id], status)))
         /\ KeepsBooked(h, Put(h, id, Turn(h.requests[id], status)))
<1>1. PICK r : r = h.requests[id] /\ IsRequest(r)
  BY DEF Good, IsHandler
<1>2. PICK s : s = Turn(r, status)
  OBVIOUS
<1>3. /\ s.status = status /\ s.fetch = r.fetch /\ s.generation = r.generation
  BY <1>1, <1>2, TurnIs
<1>4. s.age = 0
  BY <1>1, <1>2 DEF Turn, IsRequest
<1>5. PICK g : g = Put(h, id, s)
  OBVIOUS
<1>6. /\ g.generation = h.generation /\ DOMAIN g.requests = DOMAIN h.requests \cup {id}
      /\ g.requests[id] = s
      /\ \A i \in DOMAIN h.requests : i # id => g.requests[i] = h.requests[i]
  BY <1>5, PutIs DEF Good
<1>7. Carries(h, g)
  BY <1>1, <1>3, <1>4, <1>6 DEF Carries, Carried
<1>8. KeepsBooked(h, g)
  BY <1>4, <1>6 DEF KeepsBooked, Booked
<1> QED BY <1>1, <1>2, <1>5, <1>7, <1>8

(* mark_completed, mark_failed and mark_empty_trade_range. *)
LEMMA MarkCarries ==
  ASSUME NEW h, Good(h), NEW id
  PROVE  /\ Carries(h, MarkCompleted(h, id)) /\ KeepsBooked(h, MarkCompleted(h, id))
         /\ Carries(h, MarkFailed(h, id)) /\ KeepsBooked(h, MarkFailed(h, id))
         /\ id \notin DOMAIN h.requests => MarkFailed(h, id) = h
<1>1. Carries(h, h) /\ KeepsBooked(h, h)
  BY DEF Carries, Carried, KeepsBooked
<1>2. Status(h, id) \in {"Pending", "Failed"} => id \in DOMAIN h.requests
  BY DEF Status
<1>3. Carries(h, MarkCompleted(h, id)) /\ KeepsBooked(h, MarkCompleted(h, id))
  BY <1>1, <1>2, SettledCarries DEF MarkCompleted
<1>4. Carries(h, MarkFailed(h, id)) /\ KeepsBooked(h, MarkFailed(h, id))
  BY <1>1, <1>2, SettledCarries DEF MarkFailed
<1> QED BY <1>2, <1>3, <1>4 DEF MarkFailed

(* A request that is asked, beside those that are carried over. *)
Asks(h, g, id, fetch) ==
    /\ g.generation = h.generation
    /\ DOMAIN g.requests \subseteq DOMAIN h.requests \cup {id} /\ id \in DOMAIN g.requests
    /\ g.requests[id] = NewRequest(fetch, h.generation)
    /\ \A i \in DOMAIN g.requests : i # id => Carried(h.requests[i], g.requests[i])

(* add_request_with_id, once the books have been cleaned. *)
LEMMA AddRequestCarries ==
  ASSUME NEW h, Good(h), NEW id, id \notin DOMAIN h.requests, NEW from, NEW to,
         NEW fetch, fetch = Trades(from, to), NEW added, added = AddRequest(h, id, fetch)
  PROVE  \/ /\ added.id = NoId
            /\ Carries(h, added.handler) /\ KeepsBooked(h, added.handler)
         \/ /\ IsValid(fetch) /\ Asks(h, added.handler, added.id, fetch)
            /\ added.id \in DOMAIN h.requests \cup {id}
            /\ (\A i \in DOMAIN h.requests : h.requests[i].status # "Superseded") =>
                  added.id = id /\ KeepsBooked(h, added.handler)
<1>1. PICK h1 : h1 = Cleanup(h)
  OBVIOUS
<1>2. PICK h2 : h2 = DropRetryable(h1, fetch)
  OBVIOUS
<1>3. Good(h1) /\ Carries(h, h1) /\ KeepsBooked(h, h1)
  BY <1>1, CleanupIs, CleanupCarries
<1>4. Good(h2) /\ Carries(h, h2) /\ KeepsBooked(h, h2)
  BY <1>2, <1>3, DropRetryableIs, DropRetryableCarries, CarriesOn DEF KeepsBooked
<1>5. \/ added = [handler |-> h1, id |-> NoId]
      \/ added = [handler |-> h2, id |-> NoId]
      \/ IsValid(fetch) /\ added = Queue(h2, id, fetch)
  BY <1>1, <1>2 DEF AddRequest
<1>6. CASE added = [handler |-> h1, id |-> NoId]
  BY <1>3, <1>6
<1>7. CASE added = [handler |-> h2, id |-> NoId]
  BY <1>4, <1>7
<1>8. CASE IsValid(fetch) /\ added = Queue(h2, id, fetch)
  <2>1. PICK r : r = NewRequest(fetch, h2.generation)
    OBVIOUS
  <2>2. PICK at : /\ added = [handler |-> Put(h2, at, r), id |-> at]
                  /\ \/ at = id
                     \/ at \in DOMAIN h2.requests /\ h2.requests[at].status = "Superseded"
    <3>1. CASE Superseded(h2, fetch) = {}
      <4>1. added = [handler |-> Put(h2, id, r), id |-> id]
        BY <1>8, <2>1, <3>1 DEF Queue
      <4> QED BY <4>1
    <3>2. CASE Superseded(h2, fetch) # {}
      <4>1. PICK old : old = CHOOSE i \in Superseded(h2, fetch) : TRUE
        OBVIOUS
      <4>2. old \in Superseded(h2, fetch)
        BY <3>2, <4>1
      <4>3. old \in DOMAIN h2.requests /\ h2.requests[old].status = "Superseded"
        BY <4>2 DEF Superseded
      <4>4. added = [handler |-> Put(h2, old, r), id |-> old]
        BY <1>8, <2>1, <3>2, <4>1 DEF Queue
      <4> QED BY <4>3, <4>4, Zenon
    <3> QED BY <3>1, <3>2, Zenon
  <2>3. PICK g : g = Put(h2, at, r)
    OBVIOUS
  <2>4. added.handler = g /\ added.id = at
    BY <2>2, <2>3
  <2>5. /\ g.generation = h2.generation /\ DOMAIN g.requests = DOMAIN h2.requests \cup {at}
        /\ g.requests[at] = r
        /\ \A i \in DOMAIN h2.requests : i # at => g.requests[i] = h2.requests[i]
    BY <1>4, <2>3, PutIs DEF Good
  <2>6. Asks(h, g, at, fetch)
    <3>1. \A i \in DOMAIN g.requests : i # at => Carried(h.requests[i], g.requests[i])
      BY <1>4, <2>5 DEF Carries
    <3> QED BY <1>4, <2>1, <2>5, <3>1 DEF Carries, Asks
  <2>7. at \in DOMAIN h.requests \cup {id}
    BY <1>4, <2>2 DEF Carries
  <2>8. ASSUME \A i \in DOMAIN h.requests : h.requests[i].status # "Superseded"
        PROVE  at = id /\ KeepsBooked(h, g)
    <3>1. \A i \in DOMAIN h2.requests : h2.requests[i].status # "Superseded"
      BY <1>4, <2>8 DEF Carries, Carried
    <3>2. at = id
      BY <2>2, <3>1
    <3>3. \A i \in DOMAIN h.requests : i # at
      BY <3>2
    <3>4. KeepsBooked(h2, g)
      <4>1. r.status = "Pending"
        BY <2>1 DEF NewRequest
      <4> QED BY <2>5, <4>1 DEF KeepsBooked, Booked
    <3> QED BY <1>4, <3>2, <3>4 DEF KeepsBooked
  <2> QED BY <1>8, <2>4, <2>6, <2>7, <2>8
<1> QED BY <1>5, <1>6, <1>7, <1>8

(* What is asked has its shape, too. *)
LEMMA AskedIsOK ==
  ASSUME NEW h, NEW g, NEW id \in Id, NEW fetch, RequestsOK(h), Asks(h, g, id, fetch),
         IsRange(fetch.from, fetch.to), IsValid(fetch)
  PROVE  RequestsOK(g)
<1> SUFFICES ASSUME NEW i \in DOMAIN g.requests
             PROVE  /\ i \in Id
                    /\ g.requests[i].age \in 0 .. MaxAge(g.requests[i].status)
                    /\ g.requests[i].generation \in 0 .. g.generation
                    /\ IsRange(g.requests[i].fetch.from, g.requests[i].fetch.to)
                    /\ IsValid(g.requests[i].fetch)
  BY DEF RequestsOK, Asks
<1>1. PICK s : s = g.requests[i]
  OBVIOUS
<1>2. 0 \in 0 .. MaxAge(s.status) /\ g.generation = h.generation /\ h.generation \in Nat
  BY DEF MaxAge, Asks, RequestsOK
<1>3. CASE i = id
  <2>1. s = NewRequest(fetch, h.generation)
    BY <1>1, <1>3 DEF Asks
  <2>2. s.age = 0 /\ s.fetch = fetch /\ s.generation = h.generation
    BY <2>1 DEF NewRequest
  <2> QED BY <1>1, <1>2, <1>3, <2>2
<1>4. CASE i # id
  <2>1. PICK r : r = h.requests[i]
    OBVIOUS
  <2>2. /\ i \in Id /\ r.age \in 0 .. MaxAge(r.status) /\ r.generation \in 0 .. g.generation
        /\ IsRange(r.fetch.from, r.fetch.to) /\ IsValid(r.fetch) /\ Carried(r, s)
    BY <1>1, <1>4, <2>1 DEF RequestsOK, Asks
  <2>3. s = r \/ (s.age = 0 /\ s.fetch = r.fetch /\ s.generation = r.generation)
    BY <2>2 DEF Carried
  <2> QED BY <1>1, <1>2, <2>2, <2>3
<1> QED BY <1>3, <1>4

--------------------------------------------------------------------------------
(* Numbers, the messages on their way and the pages of the exchange. *)

(* The constants as numbers. *)
LEMMA TimeConstants ==
    /\ End \in Nat \ {0} /\ Candle \in Nat \ {0} /\ Chunk \in Nat \ {0} /\ Epsilon \in Nat \ {0}
    /\ TailDefer \in Nat /\ Bridge \in Nat /\ PageSize \in Nat
BY TimeAssumption, LimitAssumption, PageAssumption

(* The least and the greatest point of a set. *)
LEMMA LeastPoint ==
  ASSUME NEW S, S \subseteq 0 .. End, S # {}
  PROVE  Min(S) \in S /\ Min(S) \in 0 .. End /\ \A p \in S : Min(S) <= p
<1>1. \E x \in S : \A y \in S : x <= y
  <2>1. S \subseteq Nat
    BY TimeConstants
  <2> QED BY <2>1, LeastNat
<1> QED BY <1>1 DEF Min

(* The greatest point of a set. *)
LEMMA GreatestPoint ==
  ASSUME NEW S, S \subseteq 0 .. End, S # {}
  PROVE  Max(S) \in S /\ Max(S) \in 0 .. End /\ \A p \in S : p <= Max(S)
<1>1. \E x \in S : \A y \in S : x >= y
  BY TimeConstants, GreatestNat
<1>2. Max(S) \in S /\ \A y \in S : Max(S) >= y
  BY <1>1 DEF Max
<1> QED BY <1>2, TimeConstants

(* The lesser and the greater of two numbers. *)
LEMMA LesserAndGreater ==
  ASSUME NEW a \in Int, NEW b \in Int
  PROVE  Min({a, b}) = (IF a <= b THEN a ELSE b) /\ Max({a, b}) = IF a <= b THEN b ELSE a
BY DEF Min, Max

(* mark_verified_trade_fetch_prefix: up to the tail, and never past the range. *)
LEMMA VerifiedIs ==
  ASSUME NEW m, m.to \in Nat
  PROVE  /\ m.tail = {} => VerifiedTo(m) = m.to
         /\ \A c \in Nat : m.tail = {c} => VerifiedTo(m) = IF m.to <= c - 1 THEN m.to ELSE c - 1
<1>1. ASSUME m.tail = {}
      PROVE  VerifiedTo(m) = m.to
  <2>1. {m.to} \cup {t - 1 : t \in m.tail} = {m.to}
    BY <1>1
  <2>2. Min({m.to}) = m.to
    BY DEF Min
  <2> QED BY <2>1, <2>2 DEF VerifiedTo
<1>2. ASSUME NEW c \in Nat, m.tail = {c}
      PROVE  VerifiedTo(m) = IF m.to <= c - 1 THEN m.to ELSE c - 1
  <2>1. {m.to} \cup {t - 1 : t \in m.tail} = {m.to, c - 1}
    BY <1>2
  <2> QED BY <2>1, LesserAndGreater DEF VerifiedTo
<1> QED BY <1>1, <1>2

(* The present is not before the open candle. *)
LEMMA EdgeIsPast ==
  ASSUME now \in 0 .. End
  PROVE  Edge \in 0 .. now
<1>1. PICK c \in Nat \ {0} : c = Candle
  BY TimeConstants
<1>2. PICK n \in Nat : n = now
  BY TimeConstants
<1>3. n % c \in 0 .. c - 1 /\ n % c <= n
  OBVIOUS
<1> QED BY <1>1, <1>2, <1>3 DEF Edge

(* What the chart asks for is past. *)
LEMMA FetchIsPast ==
  ASSUME LineOK, NEW fetch \in NextFetch(chart.covered, Edge)
  PROVE  /\ fetch = Trades(fetch.from, fetch.to)
         /\ IsRange(fetch.from, fetch.to) /\ fetch.to <= now
<1>1. now \in 0 .. End /\ Edge \in 0 .. now
  BY EdgeIsPast DEF LineOK
<1>2. PICK e \in 0 .. now : e = Edge
  BY <1>1
<1>3. PICK gap \in SelectGap(GapRanges(chart.covered, e), e) :
         fetch = Trades(Max({gap.from, gap.to - Chunk}), gap.to)
  BY <1>2 DEF NextFetch
<1>4. gap \in GapRanges(chart.covered, e)
  BY <1>3 DEF SelectGap, LatestGap, OldestGap
<1>5. gap.from \in 0 .. e /\ gap.to \in 0 .. e /\ gap.from < gap.to
  BY <1>4 DEF GapRanges
<1>6. PICK a, b : a = gap.from /\ b = gap.to
  OBVIOUS
<1>7. PICK from : from = Max({a, b - Chunk})
  OBVIOUS
<1>8. from = (IF a <= b - Chunk THEN b - Chunk ELSE a)
  <2>1. a \in Int /\ b - Chunk \in Int
    BY <1>1, <1>2, <1>5, <1>6, TimeConstants
  <2> QED BY <1>7, <2>1, LesserAndGreater
<1>9. from \in 0 .. End /\ b \in 0 .. End /\ from <= b /\ b <= now
  BY <1>1, <1>2, <1>5, <1>6, <1>8, TimeConstants
<1>10. fetch = Trades(from, b)
  BY <1>3, <1>6, <1>7, Zenon
<1>11. fetch.from = from /\ fetch.to = b
  BY <1>10 DEF Trades
<1> QED BY <1>9, <1>10, <1>11, Zenon DEF IsRange

(* What a message has. *)
LEMMA MessageHas ==
  ASSUME NEW m \in Messages
  PROVE  /\ m.req \in Id
         /\ m.type \in {"Data", "Completed", "Failed"}
         /\ m.type = "Data" => m.points \subseteq 0 .. End /\ m.until \in 0 .. End
         /\ m.type = "Completed" => m.from \in 0 .. End /\ m.to \in 0 .. End
BY DEF Messages

(* A page has every trade from its beginning to its last one. *)
LEMMA PageIsWhole ==
  ASSUME traded \subseteq 0 .. End, now \in 0 .. End, NEW cursor \in 0 .. End
  PROVE  /\ Page(cursor) \subseteq traded \cap cursor .. now
         /\ Page(cursor) = {} => \A p \in traded : p <= now => p < cursor
         /\ Page(cursor) # {} =>
               /\ Max(Page(cursor)) \in Page(cursor)
               /\ \A p \in traded : cursor <= p /\ p <= Max(Page(cursor)) => p \in Page(cursor)
<1>1. PICK after : after = {p \in traded : cursor <= p /\ p <= now}
  OBVIOUS
<1>2. PICK page : page = Page(cursor)
  OBVIOUS
<1>3. page = {p \in after : Cardinality({q \in after : q <= p}) <= PageSize}
  BY <1>1, <1>2 DEF Page
<1>4. after \subseteq 0 .. End /\ IsFiniteSet(after)
  <2>1. after \subseteq 0 .. End
    BY <1>1
  <2>2. IsFiniteSet(0 .. End)
    BY TimeConstants, FS_Interval
  <2> QED BY <2>1, <2>2, FS_Subset
<1>5. \A p : IsFiniteSet({q \in after : q <= p}) /\ Cardinality({q \in after : q <= p}) \in Nat
  <2> SUFFICES ASSUME NEW p
               PROVE  IsFiniteSet({q \in after : q <= p}) /\ Cardinality({q \in after : q <= p}) \in Nat
    OBVIOUS
  <2>1. IsFiniteSet({q \in after : q <= p})
    BY <1>4, FS_Subset
  <2> QED BY <2>1, FS_CardinalityType
<1>9. now \in Nat /\ cursor \in Nat /\ \A p \in traded : p \in Nat
  BY TimeConstants
<1>6. page \subseteq traded \cap cursor .. now
  <2>1. \A p \in page : p \in after
    BY <1>3
  <2>2. \A p \in after : p \in traded /\ p \in cursor .. now
    BY <1>1, <1>9
  <2> QED BY <2>1, <2>2
<1>7. ASSUME page = {}, NEW p \in traded, p <= now
      PROVE  p < cursor
  <2>1. SUFFICES ASSUME cursor <= p
                 PROVE  FALSE
    BY TimeConstants
  <2>2. after # {}
    BY <1>1, <1>7, <2>1
  <2>3. PICK first \in after : \A y \in after : first <= y
    BY <1>4, <2>2, LeastPoint
  <2>4. {q \in after : q <= first} = {first}
    <3>1. \A q \in after : q \in Nat
      BY <1>1, <1>9
    <3>2. \A q \in after : q <= first => q = first
      BY <2>3, <3>1
    <3>3. first <= first
      BY <3>1
    <3> QED BY <3>2, <3>3
  <2>5. Cardinality({q \in after : q <= first}) = 1
    BY <2>4, FS_Singleton
  <2>6. first \in page
    BY <1>3, <2>3, <2>5, PageAssumption
  <2> QED BY <1>7, <2>6
<1>8. ASSUME page # {}
      PROVE  /\ Max(page) \in page
             /\ \A p \in traded : cursor <= p /\ p <= Max(page) => p \in page
  <2>1. page \subseteq 0 .. End
    BY <1>3, <1>4
  <2>2. PICK last \in page : last = Max(page)
    BY <1>8, <2>1, GreatestPoint
  <2>3. ASSUME NEW p \in traded, cursor <= p, p <= last
        PROVE  p \in page
    <3>1. last \in after /\ last <= now
      BY <1>1, <1>3, <2>2
    <3>2. p \in after
      BY <1>1, <1>4, <2>1, <2>2, <2>3, <3>1, TimeConstants
    <3>3. {q \in after : q <= p} \subseteq {q \in after : q <= last}
      <4>1. \A q \in after : q \in Nat
        BY <1>1, <1>9
      <4>2. \A q \in after : q <= p => q <= last
        BY <2>3, <3>1, <3>2, <4>1
      <4> QED BY <4>2
    <3>4. Cardinality({q \in after : q <= p}) <= Cardinality({q \in after : q <= last})
      BY <1>5, <3>3, FS_Subset
    <3>5. Cardinality({q \in after : q <= last}) <= PageSize
      BY <1>3, <2>2
    <3>6. Cardinality({q \in after : q <= p}) <= PageSize
      <4>1. /\ Cardinality({q \in after : q <= p}) \in Nat
            /\ Cardinality({q \in after : q <= last}) \in Nat
        BY <1>5
      <4>2. \A a, b, c \in Nat : a <= b /\ b <= c => a <= c
        OBVIOUS
      <4> QED BY <3>4, <3>5, <4>1, <4>2, TimeConstants
    <3> QED BY <1>3, <3>2, <3>6
  <2> QED BY <2>2, <2>3
<1> QED BY <1>2, <1>6, <1>7, <1>8

(* A queue that grows at its end. *)
Grows(q, s) ==
    /\ Len(q) <= Len(s)
    /\ \A i \in DOMAIN q : i \in DOMAIN s /\ s[i] = q[i]

(* A message more at the end. *)
LEMMA AppendGrows ==
  ASSUME NEW q, QueueOK(q), NEW m \in Messages, MessageOK(m)
  PROVE  /\ QueueOK(Append(q, m)) /\ Grows(q, Append(q, m))
         /\ Len(Append(q, m)) = Len(q) + 1 /\ Append(q, m)[Len(q) + 1] = m
         /\ \A i \in DOMAIN Append(q, m) : i \in DOMAIN q \/ i = Len(q) + 1
<1>1. q \in Seq(Messages)
  BY DEF QueueOK
<1>2. PICK s : s = Append(q, m)
  OBVIOUS
<1>3. s \in Seq(Messages) /\ Len(s) = Len(q) + 1 /\ Len(q) \in Nat
  BY <1>1, <1>2
<1>4. s[Len(q) + 1] = m /\ \A i \in 1 .. Len(q) : s[i] = q[i]
  BY <1>1, <1>2
<1>5. DOMAIN q = 1 .. Len(q) /\ DOMAIN s = 1 .. Len(q) + 1
  BY <1>1, <1>3
<1>6. \A i \in DOMAIN s : i \in DOMAIN q \/ i = Len(q) + 1
  BY <1>3, <1>5
<1>7. \A i \in DOMAIN s : MessageOK(s[i])
  BY <1>4, <1>5, <1>6 DEF QueueOK
<1>8. \A i \in DOMAIN q : i \in DOMAIN s
  BY <1>3, <1>5
<1> QED BY <1>2, <1>3, <1>4, <1>5, <1>6, <1>7, <1>8 DEF QueueOK, Grows

(* Growing goes on. *)
LEMMA GrowsOn ==
  ASSUME NEW q, NEW s, NEW u, QueueOK(q), QueueOK(s), QueueOK(u), Grows(q, s), Grows(s, u)
  PROVE  Grows(q, u)
<1>1. Len(q) \in Nat /\ Len(s) \in Nat /\ Len(u) \in Nat
  BY DEF QueueOK
<1> QED BY <1>1 DEF Grows

(* What was brought before is brought still. *)
LEMMA BroughtStill ==
  ASSUME NEW q, NEW s, QueueOK(q), QueueOK(s), Grows(q, s), NEW n \in 0 .. Len(q), NEW p,
         Brought(q, n, p)
  PROVE  Brought(s, n, p) /\ Brought(s, Len(s), p)
<1>1. Len(q) \in Nat /\ Len(s) \in Nat /\ DOMAIN q = 1 .. Len(q) /\ Len(q) <= Len(s)
  BY DEF QueueOK, Grows
<1>2. PICK i \in 1 .. n : Brings(q[i], p)
  BY DEF Brought
<1>3. i \in DOMAIN q /\ i \in 1 .. Len(s)
  BY <1>1
<1>4. Brings(s[i], p)
  BY <1>2, <1>3 DEF Grows
<1> QED BY <1>3, <1>4 DEF Brought

(* A message that is sent: the trades are known, and a completion follows them. *)
LEMMA AppendFollows ==
  ASSUME NEW q, QueueOK(q), NEW m \in Messages, MessageOK(m), NEW held, NEW h
  PROVE  /\ /\ Follows(q, held)
            /\ m.type = "Completed" =>
                  \A p \in traded \cap m.from .. VerifiedTo(m) :
                     p \in held \/ Brought(q, Len(q), p)
            => Follows(Append(q, m), held)
         /\ QueueKnown(h, q) /\ (m.type = "Data" => Booked(h, m.req))
            => QueueKnown(h, Append(q, m))
         /\ \A p : Brings(m, p) => Brought(Append(q, m), Len(Append(q, m)), p)
<1>1. PICK s : s = Append(q, m)
  OBVIOUS
<1>2. /\ QueueOK(s) /\ Grows(q, s) /\ Len(s) = Len(q) + 1 /\ s[Len(q) + 1] = m
      /\ \A i \in DOMAIN s : i \in DOMAIN q \/ i = Len(q) + 1
  BY <1>1, AppendGrows
<1>3. Len(q) \in Nat /\ DOMAIN q = 1 .. Len(q) /\ \A i \in DOMAIN q : s[i] = q[i]
  BY <1>2 DEF QueueOK, Grows
<1>4. ASSUME Follows(q, held),
             m.type = "Completed" =>
                \A p \in traded \cap m.from .. VerifiedTo(m) : p \in held \/ Brought(q, Len(q), p),
             NEW i \in DOMAIN s, s[i].type = "Completed",
             NEW p \in traded \cap s[i].from .. VerifiedTo(s[i])
      PROVE  p \in held \/ Brought(s, i - 1, p)
  <2>1. CASE i \in DOMAIN q
    <3>1. s[i] = q[i]
      BY <1>3, <2>1
    <3>2. p \in held \/ Brought(q, i - 1, p)
      BY <1>4, <2>1, <3>1 DEF Follows
    <3>3. i - 1 \in 0 .. Len(q)
      BY <1>3, <2>1
    <3> QED BY <1>2, <3>2, <3>3, BroughtStill
  <2>2. CASE i = Len(q) + 1
    <3>1. s[i] = m /\ i - 1 = Len(q) /\ Len(q) \in 0 .. Len(q)
      BY <1>2, <1>3, <2>2
    <3>2. p \in held \/ Brought(q, Len(q), p)
      BY <1>4, <3>1
    <3> QED BY <1>2, <3>1, <3>2, BroughtStill
  <2> QED BY <1>2, <2>1, <2>2
<1>5. ASSUME QueueKnown(h, q), m.type = "Data" => Booked(h, m.req)
      PROVE  QueueKnown(h, s)
  BY <1>2, <1>3, <1>5 DEF QueueKnown
<1>6. ASSUME NEW p, Brings(m, p)
      PROVE  Brought(s, Len(s), p)
  <2>1. Len(q) + 1 \in 1 .. Len(s)
    BY <1>2, <1>3
  <2> QED BY <1>2, <1>6, <2>1 DEF Brought
<1> QED BY <1>1, <1>4, <1>5, <1>6 DEF Follows

(* What a worker sends. *)
LEMMA SendGrows ==
  ASSUME NEW q, QueueOK(q), NEW w, w.req \in Id, w.to \in 0 .. End,
         NEW points, points \subseteq traded \cap 0 .. now, LineOK, NEW s, s = Send(q, w, points)
  PROVE  /\ QueueOK(s) /\ Grows(q, s)
         /\ \A p \in points : p <= w.to => Brought(s, Len(s), p)
         /\ \A held : Follows(q, held) => Follows(s, held)
         /\ \A h : QueueKnown(h, q) /\ Booked(h, w.req) => QueueKnown(h, s)
<1>1. CASE points = {}
  <2>1. s = q
    BY <1>1 DEF Send
  <2>2. Len(q) \in Nat
    BY DEF QueueOK
  <2> QED BY <1>1, <2>1, <2>2 DEF Grows
<1>2. CASE points # {}
  <2>1. PICK m : m = Data(w, points)
    OBVIOUS
  <2>2. m = [type |-> "Data", req |-> w.req, points |-> points, until |-> w.to]
    BY <2>1 DEF Data
  <2>3. points \subseteq 0 .. End
    BY TimeConstants, MarketAssumption DEF LineOK
  <2>4. m \in Messages
    BY <2>2, <2>3 DEF Messages
  <2>5. m.type = "Data" /\ m.req = w.req /\ m.points = points /\ m.until = w.to
    BY <2>2
  <2>6. MessageOK(m)
    BY <2>5 DEF MessageOK
  <2>7. s = Append(q, m)
    BY <1>2, <2>1 DEF Send
  <2>8. \A p \in points : p <= w.to => Brings(m, p)
    BY <2>5 DEF Brings
  <2>9. QueueOK(s) /\ Grows(q, s)
    BY <2>4, <2>6, <2>7, AppendGrows
  <2>10. \A p \in points : p <= w.to => Brought(s, Len(s), p)
    BY <2>4, <2>6, <2>7, <2>8, AppendFollows
  <2>11. \A held : Follows(q, held) => Follows(s, held)
    BY <2>4, <2>5, <2>6, <2>7, AppendFollows
  <2>12. \A h : QueueKnown(h, q) /\ Booked(h, w.req) => QueueKnown(h, s)
    BY <2>4, <2>5, <2>6, <2>7, AppendFollows
  <2> QED BY <2>9, <2>10, <2>11, <2>12
<1> QED BY <1>1, <1>2

(* A queue without its first message. *)
LEMMA TailKeeps ==
  ASSUME NEW q, QueueOK(q), q # <<>>
  PROVE  /\ Head(q) \in Messages /\ MessageOK(Head(q))
         /\ QueueOK(Tail(q)) /\ Len(Tail(q)) = Len(q) - 1 /\ Len(q) \in Nat \ {0}
         /\ \A i \in DOMAIN Tail(q) : i + 1 \in DOMAIN q /\ Tail(q)[i] = q[i + 1]
         /\ Head(q) = q[1] /\ 1 \in DOMAIN q
         /\ \A n \in 1 .. Len(q) : \A p :
               Brought(q, n, p) => Brings(Head(q), p) \/ Brought(Tail(q), n - 1, p)
<1>1. q \in Seq(Messages) /\ Len(q) \in Nat /\ Len(q) # 0 /\ DOMAIN q = 1 .. Len(q)
  BY DEF QueueOK
<1>2. PICK u : u = Tail(q)
  OBVIOUS
<1>3. u \in Seq(Messages) /\ Len(u) = Len(q) - 1 /\ \A i \in 1 .. Len(u) : u[i] = q[i + 1]
  BY <1>1, <1>2
<1>4. DOMAIN u = 1 .. Len(q) - 1
  BY <1>1, <1>3
<1>5. \A i \in DOMAIN u : i + 1 \in DOMAIN q /\ u[i] = q[i + 1]
  BY <1>1, <1>3, <1>4
<1>6. QueueOK(u)
  BY <1>3, <1>5 DEF QueueOK
<1>7. 1 \in DOMAIN q /\ Head(q) = q[1] /\ q[1] \in Messages /\ MessageOK(q[1])
  BY <1>1 DEF QueueOK
<1>8. ASSUME NEW n \in 1 .. Len(q), NEW p, Brought(q, n, p), ~Brings(q[1], p)
      PROVE  Brought(u, n - 1, p)
  <2>1. PICK i \in 1 .. n : Brings(q[i], p)
    BY <1>8 DEF Brought
  <2>2. i # 1
    BY <1>8, <2>1
  <2>3. i - 1 \in 1 .. (n - 1) /\ i - 1 \in DOMAIN u /\ i - 1 + 1 = i
    BY <1>1, <1>4, <2>2
  <2>4. u[i - 1] = q[i]
    BY <1>5, <2>3
  <2> QED BY <2>1, <2>3, <2>4 DEF Brought
<1> QED BY <1>1, <1>2, <1>3, <1>5, <1>6, <1>7, <1>8

--------------------------------------------------------------------------------
(* The steps of the worker. *)

(* What the strengthening says beside ChartInv, after a step. *)
StepOK ==
    LineOK' /\ RequestsOK(chart.handler)' /\ QueueOK(queue)' /\ WorkerOK' /\ CoverInv'

(* What goes wrong is counted, and only resets and clearings disturb. *)
LEMMA SpentGrows ==
  ASSUME LineOK, NEW kind \in {"faults", "resets", "clears"},
         spent' = spent \/ Trouble(kind)
  PROVE  /\ spent' \in [faults : Nat, resets : Nat, clears : Nat]
         /\ Undisturbed' => Undisturbed /\ (Trouble(kind) => kind = "faults")
<1>1. PICK f, r, c : /\ f \in Nat /\ r \in Nat /\ c \in Nat
                     /\ spent = [faults |-> f, resets |-> r, clears |-> c]
  BY DEF LineOK
<1>2. CASE spent' = spent
  <2>1. Trouble(kind) => FALSE
    <3>1. ASSUME Trouble(kind), NEW s, s = [spent EXCEPT ![kind] = spent[kind] + 1], spent' = s
          PROVE  FALSE
      <4>1. s[kind] = spent[kind] + 1 /\ spent[kind] \in Nat
        BY <1>1, <3>1
      <4>2. s[kind] = spent[kind]
        BY <1>2, <3>1
      <4> QED BY <4>1, <4>2
    <3> QED BY <3>1 DEF Trouble
  <2> QED BY <1>2, <2>1 DEF LineOK, Undisturbed
<1>3. CASE Trouble(kind)
  <2>1. spent' = [spent EXCEPT ![kind] = spent[kind] + 1]
    BY <1>3 DEF Trouble
  <2>2. CASE kind = "faults"
    <3>1. spent' = [faults |-> f + 1, resets |-> r, clears |-> c]
      BY <1>1, <2>1, <2>2
    <3> QED BY <1>1, <2>2, <3>1 DEF Undisturbed
  <2>3. CASE kind = "resets"
    <3>1. spent' = [faults |-> f, resets |-> r + 1, clears |-> c]
      BY <1>1, <2>1, <2>3
    <3> QED BY <1>1, <3>1 DEF Undisturbed
  <2>4. CASE kind = "clears"
    <3>1. spent' = [faults |-> f, resets |-> r, clears |-> c + 1]
      BY <1>1, <2>1, <2>4
    <3> QED BY <1>1, <3>1 DEF Undisturbed
  <2> QED BY <2>2, <2>3, <2>4
<1> QED BY <1>2, <1>3

(* The worker and what it is about. *)
LEMMA WorkerHas ==
  ASSUME WorkerOK, LineOK, worker # NoWorker
  PROVE  /\ worker.req \in Id /\ worker.from \in 0 .. End /\ worker.to \in 0 .. End
         /\ worker.from < worker.to /\ worker.to <= now /\ chart.fetching
         /\ worker.phase \in {"start", "run"}
         /\ worker.phase = "run" =>
               /\ worker \in Running
               /\ worker.gaps \subseteq worker.from .. worker.to
               /\ worker.todo \subseteq worker.from .. worker.to
               /\ worker.todo \subseteq 0 .. End
BY DEF WorkerOK, Starting, Running

(* A completion, with either word on what is left. *)
Completes(m, w, tail) ==
    \E empty \in BOOLEAN :
       m = [type |-> "Completed", req |-> w.req, from |-> w.from, to |-> w.to,
            tail |-> tail, empty |-> empty]

(* What a completion has. *)
LEMMA CompletedIs ==
  ASSUME NEW w, w.req \in Id, w.from \in 0 .. End, w.to \in 0 .. End, w.from <= w.to,
         NEW tail, tail = {} \/ \E c \in 0 .. End + 1 : tail = {c},
         NEW m, Completes(m, w, tail)
  PROVE  /\ m \in Messages /\ MessageOK(m)
         /\ m.type = "Completed" /\ m.req = w.req /\ m.from = w.from /\ m.to = w.to
         /\ m.tail = tail
<1>1. PICK empty \in BOOLEAN :
         m = [type |-> "Completed", req |-> w.req, from |-> w.from, to |-> w.to,
              tail |-> tail, empty |-> empty]
  BY DEF Completes
<1>2. tail \in SUBSET (0 .. End + 1)
  BY TimeConstants
<1>3. m \in [type : {"Completed"}, req : Id, from : 0 .. End, to : 0 .. End,
             tail : SUBSET (0 .. End + 1), empty : BOOLEAN]
  BY <1>1, <1>2
<1>4. /\ m.type = "Completed" /\ m.req = w.req /\ m.from = w.from /\ m.to = w.to
      /\ m.tail = tail
  BY <1>1
<1>5. MessageOK(m)
  BY <1>4 DEF MessageOK
<1> QED BY <1>3, <1>4, <1>5 DEF Messages

(* A step beside the chart. *)
LEMMA WorkerStepIsOK ==
  ASSUME ShapeInv, CoverInv, UNCHANGED <<traded, now, chart>>,
         cache' \subseteq 0 .. End, spent' = spent \/ Trouble("faults"),
         QueueOK(queue'), WorkerOK',
         Undisturbed =>
            /\ QueueKnown(chart.handler, queue') /\ WorkerKnown(chart.handler, worker')
            /\ Follows(queue', chart.held) /\ WorksThrough(worker', queue', chart.held)
  PROVE  StepOK
<1>1. /\ spent' \in [faults : Nat, resets : Nat, clears : Nat]
      /\ Undisturbed' => Undisturbed
  BY SpentGrows DEF ShapeInv
<1>2. LineOK'
  BY <1>1 DEF ShapeInv, LineOK
<1>3. RequestsOK(chart.handler)'
  BY DEF ShapeInv, RequestsOK
<1>4. QueueOK(queue)'
  BY DEF QueueOK, MessageOK
<1>5. ASSUME Undisturbed
      PROVE  /\ Unsuperseded(chart.handler)' /\ QueueKnown(chart.handler, queue)'
             /\ WorkerKnown(chart.handler, worker)'
             /\ Follows(queue, chart.held)' /\ WorksThrough(worker, queue, chart.held)'
             /\ HoldsWhatItCovers'
  <2>1. /\ Unsuperseded(chart.handler) /\ HoldsWhatItCovers
        /\ QueueKnown(chart.handler, queue') /\ WorkerKnown(chart.handler, worker')
        /\ Follows(queue', chart.held) /\ WorksThrough(worker', queue', chart.held)
    BY <1>5 DEF CoverInv
  <2>2. Unsuperseded(chart.handler)' /\ QueueKnown(chart.handler, queue)'
    BY <2>1 DEF Unsuperseded, QueueKnown, Booked
  <2>3. WorkerKnown(chart.handler, worker)'
    BY <2>1 DEF WorkerKnown
  <2>4. Follows(queue, chart.held)'
    BY <2>1 DEF Follows, Brought, Brings, VerifiedTo
  <2>5. WorksThrough(worker, queue, chart.held)'
    BY <2>1 DEF WorksThrough, Brought, Brings
  <2>6. HoldsWhatItCovers'
    BY <2>1 DEF HoldsWhatItCovers
  <2> QED BY <2>2, <2>3, <2>4, <2>5, <2>6
<1>6. CoverInv'
  BY <1>1, <1>5 DEF CoverInv
<1> QED BY <1>2, <1>3, <1>4, <1>6 DEF StepOK

(* What a worker that ends leaves: its trades, and how far it came. *)
LEMMA WorkerEndsOK ==
  ASSUME ShapeInv, CoverInv, UNCHANGED <<traded, now, chart>>,
         cache' \subseteq 0 .. End, spent' = spent \/ Trouble("faults"),
         NEW s, QueueOK(s), NEW m \in Messages, MessageOK(m), m.type \in {"Completed", "Failed"},
         worker' = NoWorker, queue' = Append(s, m),
         Undisturbed =>
            /\ QueueKnown(chart.handler, s) /\ Follows(s, chart.held)
            /\ m.type = "Completed" =>
                  \A p \in traded \cap m.from .. VerifiedTo(m) :
                     p \in chart.held \/ Brought(s, Len(s), p)
  PROVE  StepOK
<1>1. QueueOK(queue')
  BY AppendGrows
<1>2. WorkerOK'
  BY DEF WorkerOK
<1>3. NoWorker.phase # "run"
  BY DEF NoWorker
<1>4. WorkerKnown(chart.handler, worker') /\ WorksThrough(worker', queue', chart.held)
  BY <1>3 DEF WorkerKnown, WorksThrough
<1>5. ASSUME Undisturbed
      PROVE  QueueKnown(chart.handler, queue') /\ Follows(queue', chart.held)
  BY <1>5, AppendFollows
<1> QED BY <1>1, <1>2, <1>4, <1>5, WorkerStepIsOK

(* The worker's request is booked. *)
LEMMA WorkerIsBooked ==
  ASSUME CoverInv, Undisturbed, worker # NoWorker
  PROVE  Booked(chart.handler, worker.req)
BY DEF CoverInv, WorkerKnown, Booked

(* The cached trades are on their way before the first gap is fetched. *)
LEMMA WorkerStartIsOK ==
  ASSUME ShapeInv, CoverInv, WorkerStart
  PROVE  StepOK
<1>1. worker # NoWorker
  BY DEF WorkerStart, NoWorker
<1>2. WorkerOK /\ LineOK /\ QueueOK(queue)
  BY DEF ShapeInv
<1>3. PICK id, from, to : id = worker.req /\ from = worker.from /\ to = worker.to
  OBVIOUS
<1>4. /\ id \in Id /\ from \in 0 .. End /\ to \in 0 .. End /\ from < to /\ to <= now
      /\ chart.fetching
  BY <1>1, <1>2, <1>3, WorkerHas
<1>5. PICK gaps : gaps = (from .. to) \ cache
  OBVIOUS
<1>6. PICK todo : todo = gaps \cup Coalesce(gaps)
  OBVIOUS
<1>7. PICK sent : sent = (from .. to) \cap cache \cap traded
  OBVIOUS
<1>8. PICK w : w = [phase |-> "run", req |-> id, from |-> from, to |-> to,
                    gaps |-> gaps, todo |-> todo]
  OBVIOUS
<1>9. /\ queue' = Send(queue, worker, sent) /\ worker' = w
      /\ UNCHANGED <<traded, now, chart, cache, spent>>
  BY <1>3, <1>5, <1>6, <1>7, <1>8 DEF WorkerStart
<1>10. gaps \subseteq from .. to /\ todo \subseteq from .. to /\ gaps \subseteq todo
  <2>1. gaps \subseteq from .. to
    BY <1>5
  <2>2. Coalesce(gaps) \subseteq from .. to
    <3>1. ASSUME NEW a \in gaps, NEW b \in gaps
          PROVE  a .. b \subseteq from .. to
      <4>1. /\ a \in from .. to /\ b \in from .. to
            /\ from \in Int /\ to \in Int
        BY <1>4, <2>1
      <4> QED BY <4>1
    <3>2. ASSUME NEW a \in gaps, NEW b \in gaps
          PROVE  (IF b - (a + 1) <= Bridge THEN a .. b ELSE {}) \subseteq from .. to
      BY <3>1
    <3>3. ASSUME NEW p \in Coalesce(gaps)
          PROVE  p \in from .. to
      <4> DEFINE bridged(a, b) == IF b - (a + 1) <= Bridge THEN a .. b ELSE {}
      <4>1. p \in UNION {bridged(a, b) : a \in gaps, b \in gaps}
        BY <3>3 DEF Coalesce
      <4>2. \A a, b \in gaps : bridged(a, b) \subseteq from .. to
        BY <3>2
      <4> HIDE DEF bridged
      <4> QED BY <4>1, <4>2
    <3> QED BY <3>3
  <2> QED BY <1>6, <2>1, <2>2
<1>11. from .. to \subseteq 0 .. End
  BY <1>4, TimeConstants
<1>12. w \in Running
  BY <1>4, <1>8, <1>10, <1>11 DEF Running
<1>13. /\ w.phase = "run" /\ w.req = id /\ w.from = from /\ w.to = to
       /\ w.gaps = gaps /\ w.todo = todo
  BY <1>8
<1>14. WorkerOK'
  BY <1>4, <1>9, <1>10, <1>12, <1>13 DEF WorkerOK
<1>15. sent \subseteq traded \cap 0 .. now /\ \A p \in sent : p <= to
  BY <1>2, <1>4, <1>7, TimeConstants DEF LineOK
<1>16. /\ QueueOK(queue') /\ Grows(queue, queue')
       /\ \A p \in sent : p <= to => Brought(queue', Len(queue'), p)
       /\ Follows(queue, chart.held) => Follows(queue', chart.held)
       /\ QueueKnown(chart.handler, queue) /\ Booked(chart.handler, id)
             => QueueKnown(chart.handler, queue')
  BY <1>2, <1>3, <1>4, <1>9, <1>15, SendGrows
<1>17. ASSUME Undisturbed
       PROVE  /\ QueueKnown(chart.handler, queue') /\ WorkerKnown(chart.handler, worker')
              /\ Follows(queue', chart.held) /\ WorksThrough(worker', queue', chart.held)
  <2>1. /\ QueueKnown(chart.handler, queue) /\ WorkerKnown(chart.handler, worker)
        /\ Follows(queue, chart.held)
    BY <1>17 DEF CoverInv
  <2>2. Booked(chart.handler, id)
    BY <1>1, <1>3, <1>17, WorkerIsBooked
  <2>3. WorkerKnown(chart.handler, worker')
    BY <1>1, <1>3, <1>9, <1>13, <2>1 DEF WorkerKnown
  <2>4. ASSUME NEW p \in traded \cap from .. to
        PROVE  p \in todo \cap gaps \/ Brought(queue', Len(queue'), p)
    <3>1. CASE p \in cache
      <4>1. p \in sent /\ p <= to
        BY <1>7, <1>15, <2>4, <3>1
      <4> QED BY <1>16, <4>1
    <3>2. CASE p \notin cache
      BY <1>5, <1>10, <2>4, <3>2
    <3> QED BY <3>1, <3>2
  <2>5. WorksThrough(worker', queue', chart.held)
    BY <1>9, <1>13, <2>4 DEF WorksThrough
  <2> QED BY <1>16, <2>1, <2>2, <2>3, <2>5
<1>18. cache' \subseteq 0 .. End
  BY <1>2, <1>9 DEF LineOK
<1> QED BY <1>9, <1>14, <1>16, <1>17, <1>18, WorkerStepIsOK

(* What is left of a worker that is stopped at its cursor is not credited. *)
LEMMA StopsAtCursor ==
  ASSUME ShapeInv, CoverInv, worker.phase = "run", worker.todo # {},
         NEW m, Completes(m, worker, {Cursor})
  PROVE  /\ m \in Messages /\ MessageOK(m) /\ m.type = "Completed"
         /\ Undisturbed =>
               \A p \in traded \cap m.from .. VerifiedTo(m) :
                  p \in chart.held \/ Brought(queue, Len(queue), p)
<1>1. worker # NoWorker
  BY DEF NoWorker
<1>2. WorkerOK /\ LineOK
  BY DEF ShapeInv
<1>3. /\ worker.req \in Id /\ worker.from \in 0 .. End /\ worker.to \in 0 .. End
      /\ worker.from < worker.to
      /\ worker.todo \subseteq worker.from .. worker.to /\ worker.todo \subseteq 0 .. End
  BY <1>1, <1>2, WorkerHas
<1>4. PICK c : c = Cursor
  OBVIOUS
<1>5. c \in worker.todo /\ c \in 0 .. End /\ \A p \in worker.todo : c <= p
  BY <1>3, <1>4, LeastPoint DEF Cursor
<1>6. PICK from, to : from = worker.from /\ to = worker.to
  OBVIOUS
<1>7. /\ from \in Nat /\ to \in Nat /\ from < to /\ c \in from .. to /\ c \in Nat
      /\ c \in 0 .. End + 1
  BY <1>3, <1>5, <1>6, TimeConstants
<1>8. /\ m \in Messages /\ MessageOK(m) /\ m.type = "Completed"
      /\ m.from = from /\ m.to = to /\ m.tail = {c}
  <2>1. PICK tail : tail = {c}
    OBVIOUS
  <2>2. Completes(m, worker, tail)
    BY <1>4, <2>1
  <2>3. worker.from <= worker.to /\ \E d \in 0 .. End + 1 : tail = {d}
    BY <1>6, <1>7, <2>1
  <2>4. /\ m \in Messages /\ MessageOK(m) /\ m.type = "Completed"
        /\ m.from = worker.from /\ m.to = worker.to /\ m.tail = tail
    BY <1>3, <2>2, <2>3, CompletedIs
  <2> QED BY <1>6, <2>1, <2>4
<1>9. VerifiedTo(m) = c - 1
  <2>1. m.to = to /\ m.tail = {c}
    BY <1>8
  <2>3. to \in Nat /\ ~(to <= c - 1)
    BY <1>7
  <2>2. VerifiedTo(m) = IF m.to <= c - 1 THEN m.to ELSE c - 1
    BY <1>7, <2>1, <2>3, VerifiedIs
  <2> QED BY <2>1, <2>2, <2>3
<1>10. ASSUME Undisturbed, NEW p \in traded \cap m.from .. VerifiedTo(m)
       PROVE  p \in chart.held \/ Brought(queue, Len(queue), p)
  <2>1. p \in traded \cap from .. to /\ p < c
    BY <1>7, <1>8, <1>9, <1>10
  <2>2. p \notin worker.todo
    BY <1>5, <1>7, <2>1
  <2> QED BY <1>6, <1>10, <2>1, <2>2 DEF CoverInv, WorksThrough
<1> QED BY <1>8, <1>10

(* A worker that is done credits its whole range. *)
LEMMA WorkerDoneIsOK ==
  ASSUME ShapeInv, CoverInv, WorkerDone
  PROVE  StepOK
<1>1. worker # NoWorker
  BY DEF WorkerDone, NoWorker
<1>2. WorkerOK /\ LineOK /\ QueueOK(queue)
  BY DEF ShapeInv
<1>3. /\ worker.req \in Id /\ worker.from \in 0 .. End /\ worker.to \in 0 .. End
      /\ worker.from < worker.to
  BY <1>1, <1>2, WorkerHas
<1>4. PICK m : m = Completed(worker, {}, FALSE)
  OBVIOUS
<1>5. /\ m \in Messages /\ MessageOK(m) /\ m.type = "Completed"
      /\ m.from = worker.from /\ m.to = worker.to /\ m.tail = {}
  <2>1. worker.from <= worker.to
    BY <1>3, TimeConstants
  <2>2. PICK tail : tail = {}
    OBVIOUS
  <2>3. Completes(m, worker, tail)
    BY <1>4, <2>2 DEF Completed, Completes
  <2>4. /\ m \in Messages /\ MessageOK(m) /\ m.type = "Completed"
        /\ m.from = worker.from /\ m.to = worker.to /\ m.tail = tail
    BY <1>3, <2>1, <2>2, <2>3, CompletedIs
  <2> QED BY <2>2, <2>4
<1>6. VerifiedTo(m) = worker.to
  <2>1. m.to \in Nat
    BY <1>3, <1>5, TimeConstants
  <2> QED BY <1>5, <2>1, VerifiedIs
<1>7. ASSUME Undisturbed
      PROVE  /\ QueueKnown(chart.handler, queue) /\ Follows(queue, chart.held)
             /\ \A p \in traded \cap m.from .. VerifiedTo(m) :
                   p \in chart.held \/ Brought(queue, Len(queue), p)
  BY <1>5, <1>6, <1>7 DEF CoverInv, WorksThrough, WorkerDone
<1>8. /\ UNCHANGED <<traded, now, chart>> /\ cache' \subseteq 0 .. End /\ spent' = spent
      /\ worker' = NoWorker /\ queue' = Append(queue, m)
  BY <1>2, <1>4 DEF WorkerDone, LineOK
<1> QED BY <1>2, <1>5, <1>7, <1>8, WorkerEndsOK

(* A worker that fails credits what lies before its cursor, or nothing. *)
LEMMA WorkerFailsIsOK ==
  ASSUME ShapeInv, CoverInv, NEW interrupted \in BOOLEAN, WorkerFails(interrupted)
  PROVE  StepOK
<1>1. worker.phase = "run" /\ worker.todo # {} /\ worker # NoWorker
  BY DEF WorkerFails, NoWorker
<1>2. WorkerOK /\ LineOK /\ QueueOK(queue)
  BY DEF ShapeInv
<1>3. /\ UNCHANGED <<traded, now, chart>> /\ cache' \subseteq 0 .. End
      /\ Trouble("faults") /\ worker' = NoWorker
  BY <1>2 DEF WorkerFails, LineOK
<1>4. ASSUME Undisturbed
      PROVE  QueueKnown(chart.handler, queue) /\ Follows(queue, chart.held)
  BY <1>4 DEF CoverInv
<1>5. CASE queue' = Append(queue, Completed(worker, {Cursor}, FALSE))
  <2>1. PICK m : m = Completed(worker, {Cursor}, FALSE)
    OBVIOUS
  <2>3. /\ m \in Messages /\ MessageOK(m) /\ m.type = "Completed"
        /\ Undisturbed =>
               \A p \in traded \cap m.from .. VerifiedTo(m) :
                  p \in chart.held \/ Brought(queue, Len(queue), p)
    <3>1. Completes(m, worker, {Cursor})
      BY <2>1 DEF Completed, Completes
    <3> QED BY <1>1, <3>1, StopsAtCursor
  <2>4. queue' = Append(queue, m)
    BY <1>5, <2>1
  <2> QED BY <1>2, <1>3, <1>4, <2>3, <2>4, WorkerEndsOK
<1>6. CASE queue' = Append(queue, [type |-> "Failed", req |-> worker.req])
  <2>1. PICK m : m = [type |-> "Failed", req |-> worker.req]
    OBVIOUS
  <2>2. m.type = "Failed" /\ m \in Messages
    <3>1. worker.req \in Id
      BY <1>1, <1>2, WorkerHas
    <3> QED BY <2>1, <3>1 DEF Messages
  <2>3. MessageOK(m)
    BY <2>2 DEF MessageOK
  <2>4. queue' = Append(queue, m)
    BY <1>6, <2>1
  <2> QED BY <1>2, <1>3, <1>4, <2>2, <2>3, <2>4, WorkerEndsOK
<1> QED BY <1>5, <1>6 DEF WorkerFails

(* The end of the segment that is fetched. *)
LEMMA TargetIs ==
  ASSUME worker.todo \subseteq 0 .. End, worker.todo # {}
  PROVE  /\ Cursor \in worker.todo /\ Target \in worker.todo
         /\ \A p \in worker.todo : Cursor <= p
<1>1. PICK todo : todo = worker.todo
  OBVIOUS
<1>2. Min(todo) \in todo /\ \A p \in todo : Min(todo) <= p
  BY <1>1, LeastPoint
<1>3. PICK ends : ends = {p \in todo : p + 1 \notin todo}
  OBVIOUS
<1>4. ends \subseteq 0 .. End /\ ends \subseteq todo
  BY <1>1, <1>3
<1>5. Max(todo) \in ends
  <2>1. PICK g : g = Max(todo)
    OBVIOUS
  <2>2. g \in todo /\ g \in 0 .. End /\ \A p \in todo : p <= g
    BY <1>1, <2>1, GreatestPoint
  <2>3. ~(g + 1 <= g)
    BY <2>2
  <2>4. g + 1 \notin todo
    BY <2>2, <2>3
  <2> QED BY <1>3, <2>1, <2>2, <2>4
<1>6. Min(ends) \in ends
  BY <1>4, <1>5, LeastPoint
<1> QED BY <1>1, <1>2, <1>3, <1>4, <1>6 DEF Cursor, Target

(* What a page leaves to be fetched: whatever it brought of the segment is sent. *)
LEMMA PageBrings ==
  ASSUME traded \subseteq 0 .. End, now \in 0 .. End, worker.todo \subseteq 0 .. End,
         worker.todo # {}, Page(Cursor) # {},
         NEW last, last = Max(Page(Cursor)),
         NEW p \in traded, p \in worker.todo, p \in worker.gaps,
         \/ last = Cursor /\ p <= last
         \/ last # Cursor /\ last >= Target /\ p <= Target
         \/ last # Cursor /\ ~(last >= Target) /\ ~(p >= last)
  PROVE  p \in Page(Cursor) \cap worker.gaps \cap (Cursor .. Target)
<1>1. PICK c \in 0 .. End : c = Cursor /\ c <= p
  BY TargetIs
<1>2. PICK t \in 0 .. End : t = Target /\ c <= t
  BY <1>1, TargetIs
<1>3. /\ last \in Page(c) /\ Page(c) \subseteq traded \cap c .. now
      /\ \A q \in traded : c <= q /\ q <= last => q \in Page(c)
  BY <1>1, PageIsWhole
<1>4. /\ p \in Nat /\ c \in Nat /\ t \in Nat /\ last \in Nat /\ c <= last
  BY <1>1, <1>2, <1>3, TimeConstants
<1>5. c <= p /\ p <= last /\ p <= t
  BY <1>1, <1>2, <1>4
<1>6. p \in Page(c) /\ p \in c .. t
  BY <1>3, <1>4, <1>5
<1> QED BY <1>1, <1>2, <1>6

(* One answer of the exchange. *)
LEMMA WorkerPageIsOK ==
  ASSUME ShapeInv, CoverInv, WorkerPage
  PROVE  StepOK
<1>1. worker.phase = "run" /\ worker.todo # {} /\ worker # NoWorker
  BY DEF WorkerPage, NoWorker
<1>2. WorkerOK /\ LineOK /\ QueueOK(queue)
  BY DEF ShapeInv
<1>3. /\ worker.req \in Id /\ worker.from \in 0 .. End /\ worker.to \in 0 .. End
      /\ worker.from < worker.to /\ worker.to <= now /\ chart.fetching /\ worker \in Running
      /\ worker.gaps \subseteq worker.from .. worker.to
      /\ worker.todo \subseteq worker.from .. worker.to /\ worker.todo \subseteq 0 .. End
  BY <1>1, <1>2, WorkerHas
<1>4. traded \subseteq 0 .. End /\ now \in 0 .. End
  BY <1>2, MarketAssumption DEF LineOK
<1>5. PICK page : page = Page(Cursor)
  OBVIOUS
<1>6. PICK last : last = Max(page)
  OBVIOUS
<1>7. PICK batch : batch = page \cap worker.gaps \cap (Cursor .. Target)
  OBVIOUS
<1>8. PICK stored : stored = cache \cup Cursor .. Min({last, Target})
  OBVIOUS
<1>9. PICK s : s = Send(queue, worker, batch)
  OBVIOUS
<1>10. PICK c : c = Cursor
  OBVIOUS
<1>11. /\ c \in worker.todo /\ c \in 0 .. End /\ Target \in worker.todo /\ Target \in 0 .. End
       /\ \A p \in worker.todo : c <= p
  BY <1>1, <1>3, <1>10, TargetIs
<1>12. page \subseteq traded \cap c .. now
  BY <1>4, <1>5, <1>10, <1>11, PageIsWhole
<1>13. batch \subseteq traded \cap 0 .. now /\ \A p \in batch : p <= worker.to
  <2>1. batch \subseteq traded /\ batch \subseteq c .. now /\ batch \subseteq worker.from .. worker.to
    BY <1>3, <1>7, <1>12
  <2>2. c \in Nat
    BY <1>11, TimeConstants
  <2> QED BY <1>3, <2>1, <2>2, TimeConstants
<1>14. /\ QueueOK(s) /\ Grows(queue, s)
       /\ \A p \in batch : p <= worker.to => Brought(s, Len(s), p)
       /\ Follows(queue, chart.held) => Follows(s, chart.held)
       /\ QueueKnown(chart.handler, queue) /\ Booked(chart.handler, worker.req)
             => QueueKnown(chart.handler, s)
  BY <1>2, <1>3, <1>9, <1>13, SendGrows
<1>15. ASSUME Undisturbed
       PROVE  QueueKnown(chart.handler, s) /\ Follows(s, chart.held)
  BY <1>1, <1>14, <1>15, WorkerIsBooked DEF CoverInv
<1>16. ASSUME Undisturbed, NEW p \in traded \cap worker.from .. worker.to
       PROVE  \/ p \in worker.todo /\ p \in worker.gaps /\ p \notin batch
              \/ p \in chart.held
              \/ Brought(s, Len(s), p)
  <2>1. CASE p \in worker.todo \cap worker.gaps
    BY <1>13, <1>14, <2>1
  <2>2. CASE Brought(queue, Len(queue), p)
    <3>1. Len(queue) \in 0 .. Len(queue)
      BY <1>2 DEF QueueOK
    <3> QED BY <1>2, <1>14, <2>2, <3>1, BroughtStill
  <2> QED BY <1>1, <1>16, <2>1, <2>2 DEF CoverInv, WorksThrough
<1>17. page # {} => stored \subseteq 0 .. End
  <2> SUFFICES ASSUME page # {}
               PROVE  stored \subseteq 0 .. End
    OBVIOUS
  <2>1. last \in page
    BY <1>4, <1>5, <1>6, <1>10, <1>11, PageIsWhole
  <2>2. last \in 0 .. End
    BY <1>4, <1>12, <2>1
  <2>3. PICK t \in 0 .. End : t = Target
    BY <1>11
  <2>4. Min({last, t}) = IF last <= t THEN last ELSE t
    BY <2>2, <2>3, TimeConstants, LesserAndGreater
  <2>5. PICK d \in 0 .. End : d = Min({last, t})
    BY <2>2, <2>4
  <2>6. c .. d \subseteq 0 .. End
    BY <1>11, <2>5, TimeConstants
  <2> QED BY <1>2, <1>8, <1>10, <2>3, <2>5, <2>6 DEF LineOK
<1>18. /\ UNCHANGED <<traded, now, chart, spent>>
       /\ \/ /\ page = {} /\ worker' = NoWorker /\ cache' = cache
             /\ queue' = Append(Send(queue, worker, {}), Completed(worker, {c}, TRUE))
          \/ /\ page # {} /\ last = c /\ worker' = NoWorker /\ cache' = stored
             /\ queue' = Append(s, Completed(worker, {last + 1}, FALSE))
          \/ /\ page # {} /\ queue' = s /\ cache' = stored
             /\ worker' = [worker EXCEPT !.todo =
                             {p \in @ : IF last = c THEN p > last
                                        ELSE IF last >= Target THEN p > Target ELSE p >= last}]
  BY <1>5, <1>6, <1>7, <1>8, <1>9, <1>10 DEF WorkerPage
<1>19. cache' \subseteq 0 .. End
  BY <1>2, <1>17, <1>18 DEF LineOK
<1>20. CASE /\ worker' = NoWorker
            /\ queue' = Append(Send(queue, worker, {}), Completed(worker, {c}, TRUE))
  <2>1. PICK m : m = Completed(worker, {Cursor}, TRUE)
    OBVIOUS
  <2>2. /\ m \in Messages /\ MessageOK(m) /\ m.type = "Completed"
        /\ Undisturbed =>
               \A p \in traded \cap m.from .. VerifiedTo(m) :
                  p \in chart.held \/ Brought(queue, Len(queue), p)
    <3>1. Completes(m, worker, {Cursor})
      BY <2>1 DEF Completed, Completes
    <3> QED BY <1>1, <3>1, StopsAtCursor
  <2>3. queue' = Append(queue, m)
    BY <1>10, <1>20, <2>1 DEF Send
  <2>4. ASSUME Undisturbed
        PROVE  QueueKnown(chart.handler, queue) /\ Follows(queue, chart.held)
    BY <2>4 DEF CoverInv
  <2> QED BY <1>2, <1>18, <1>19, <1>20, <2>2, <2>3, <2>4, WorkerEndsOK
<1>21. CASE /\ page # {} /\ last = c /\ worker' = NoWorker
            /\ queue' = Append(s, Completed(worker, {last + 1}, FALSE))
  <2>1. PICK m : m = Completed(worker, {last + 1}, FALSE)
    OBVIOUS
  <2>2. PICK from, to : from = worker.from /\ to = worker.to
    OBVIOUS
  <2>3. /\ from \in Nat /\ to \in Nat /\ from < to /\ c \in from .. to /\ c \in Nat
        /\ c + 1 \in Nat /\ c + 1 \in 0 .. End + 1 /\ from <= to
    BY <1>3, <1>11, <2>2, TimeConstants
  <2>4. /\ m \in Messages /\ MessageOK(m) /\ m.type = "Completed"
        /\ m.from = from /\ m.to = to /\ m.tail = {c + 1}
    <3>1. PICK tail : tail = {c + 1}
      OBVIOUS
    <3>2. Completes(m, worker, tail)
      BY <1>21, <2>1, <3>1 DEF Completed, Completes
    <3>3. /\ worker.from <= worker.to
          /\ \E d \in 0 .. End + 1 : tail = {d}
      BY <2>2, <2>3, <3>1
    <3>4. /\ m \in Messages /\ MessageOK(m) /\ m.type = "Completed"
          /\ m.from = worker.from /\ m.to = worker.to /\ m.tail = tail
      BY <1>3, <3>2, <3>3, CompletedIs
    <3> QED BY <2>2, <3>1, <3>4
  <2>5. VerifiedTo(m) = c
    <3>1. VerifiedTo(m) = IF m.to <= (c + 1) - 1 THEN m.to ELSE (c + 1) - 1
      BY <2>3, <2>4, VerifiedIs
    <3> QED BY <2>3, <2>4, <3>1
  <2>6. ASSUME Undisturbed, NEW p \in traded \cap m.from .. VerifiedTo(m)
        PROVE  p \in chart.held \/ Brought(s, Len(s), p)
    <3>1. p \in traded \cap from .. to /\ p <= c
      BY <2>3, <2>4, <2>5, <2>6
    <3>2. p \in worker.todo /\ p \in worker.gaps => p \in batch
      BY <1>1, <1>3, <1>4, <1>5, <1>6, <1>7, <1>10, <1>21, <3>1, PageBrings
    <3> QED BY <1>16, <2>2, <2>6, <3>1, <3>2
  <2>7. queue' = Append(s, m)
    BY <1>21, <2>1
  <2> QED BY <1>14, <1>15, <1>18, <1>19, <1>21, <2>4, <2>6, <2>7, WorkerEndsOK
<1>22. CASE /\ page # {} /\ queue' = s
            /\ worker' = [worker EXCEPT !.todo =
                             {p \in @ : IF last = c THEN p > last
                                        ELSE IF last >= Target THEN p > Target ELSE p >= last}]
  <2>1. PICK todo : todo = {p \in worker.todo : IF last = c THEN p > last
                               ELSE IF last >= Target THEN p > Target ELSE p >= last}
    OBVIOUS
  <2>2. PICK w : w = [worker EXCEPT !.todo = todo]
    OBVIOUS
  <2>3. worker' = w
    BY <1>22, <2>1, <2>2
  <2>4. todo \subseteq worker.todo /\ todo \in SUBSET (0 .. End)
    BY <1>3, <2>1
  <2>5. /\ w \in Running /\ w.phase = "run" /\ w.req = worker.req /\ w.from = worker.from
        /\ w.to = worker.to /\ w.gaps = worker.gaps /\ w.todo = todo
    BY <1>1, <1>3, <2>2, <2>4 DEF Running
  <2>6. WorkerOK'
    BY <1>3, <1>18, <2>3, <2>4, <2>5 DEF WorkerOK
  <2>7. ASSUME Undisturbed
        PROVE  /\ QueueKnown(chart.handler, queue') /\ WorkerKnown(chart.handler, worker')
               /\ Follows(queue', chart.held) /\ WorksThrough(worker', queue', chart.held)
    <3>1. WorkerKnown(chart.handler, worker')
      BY <1>1, <2>3, <2>5, <2>7 DEF CoverInv, WorkerKnown
    <3>2. ASSUME NEW p \in traded \cap worker.from .. worker.to
          PROVE  p \in todo \cap worker.gaps \/ p \in chart.held \/ Brought(s, Len(s), p)
      <4>1. CASE p \in worker.todo /\ p \in worker.gaps /\ p \notin todo
        <5>1. PICK t \in 0 .. End : t = Target
          BY <1>11
        <5>2. last \in 0 .. End /\ p \in 0 .. End
          <6>1. last \in page
            BY <1>4, <1>5, <1>6, <1>10, <1>11, <1>22, PageIsWhole
          <6> QED BY <1>4, <1>12, <3>2, <6>1
        <5>3. last \in Nat /\ p \in Nat /\ t \in Nat /\ c \in Nat
          BY <1>11, <5>1, <5>2, TimeConstants
        <5>4. \/ last = c /\ p <= last
              \/ last # c /\ last >= t /\ p <= t
              \/ last # c /\ ~(last >= t) /\ ~(p >= last)
          BY <2>1, <4>1, <5>1, <5>3
        <5>5. p \in batch
          BY <1>1, <1>3, <1>4, <1>5, <1>6, <1>7, <1>10, <1>22, <3>2, <4>1, <5>1, <5>4, PageBrings
        <5> QED BY <1>13, <1>14, <5>5
      <4> QED BY <1>13, <1>14, <1>16, <2>7, <3>2, <4>1
    <3>3. WorksThrough(worker', queue', chart.held)
      BY <1>22, <2>3, <2>5, <3>2 DEF WorksThrough
    <3> QED BY <1>15, <1>22, <2>7, <3>1, <3>3
  <2> QED BY <1>14, <1>18, <1>19, <1>22, <2>6, <2>7, WorkerStepIsOK
<1> QED BY <1>18, <1>20, <1>21, <1>22

--------------------------------------------------------------------------------
(* The messages, as they are handled. *)

(* What a handled message leaves: its trades are held now. *)
LEMMA HandledKeeps ==
  ASSUME NEW q, QueueOK(q), q # <<>>, NEW held, NEW held2, held \subseteq held2,
         \A p : Brings(Head(q), p) => p \in held2
  PROVE  /\ Follows(q, held) => Follows(Tail(q), held2)
         /\ \A w : WorksThrough(w, q, held) => WorksThrough(w, Tail(q), held2)
         /\ \A h, g : QueueKnown(h, q) /\ KeepsBooked(h, g) => QueueKnown(g, Tail(q))
<1>1. PICK u : u = Tail(q)
  OBVIOUS
<1>2. /\ Len(u) = Len(q) - 1 /\ Len(q) \in Nat \ {0}
      /\ \A i \in DOMAIN u : i + 1 \in DOMAIN q /\ u[i] = q[i + 1]
      /\ \A n \in 1 .. Len(q) : \A p :
            Brought(q, n, p) => Brings(Head(q), p) \/ Brought(u, n - 1, p)
  BY <1>1, TailKeeps
<1>3. DOMAIN q = 1 .. Len(q) /\ Len(q) \in 1 .. Len(q)
  BY <1>2 DEF QueueOK
<1>4. ASSUME Follows(q, held), NEW i \in DOMAIN u, u[i].type = "Completed",
             NEW p \in traded \cap u[i].from .. VerifiedTo(u[i])
      PROVE  p \in held2 \/ Brought(u, i - 1, p)
  <2>1. i + 1 \in 1 .. Len(q) /\ u[i] = q[i + 1]
    BY <1>2, <1>3
  <2>2. p \in held \/ Brought(q, (i + 1) - 1, p)
    BY <1>2, <1>4, <2>1 DEF Follows
  <2>3. CASE i = 0
    <3>1. u \in Seq(Messages)
      BY <1>1, TailKeeps DEF QueueOK
    <3>2. DOMAIN u = 1 .. Len(u) /\ Len(u) \in Nat
      BY <3>1
    <3> QED BY <1>4, <2>3, <3>2
  <2>4. CASE i # 0
    <3>1. u \in Seq(Messages)
      BY <1>1, TailKeeps DEF QueueOK
    <3>2. DOMAIN u = 1 .. Len(u) /\ Len(u) \in Nat
      BY <3>1
    <3>3. i \in 1 .. Len(q) /\ (i + 1) - 1 = i
      BY <1>2, <1>4, <3>2
    <3> QED BY <1>2, <2>2, <3>3
  <2> QED BY <2>3, <2>4
<1>5. ASSUME NEW w, WorksThrough(w, q, held)
      PROVE  WorksThrough(w, u, held2)
  <2>1. ASSUME w.phase = "run", NEW p \in traded \cap w.from .. w.to
        PROVE  p \in w.todo \cap w.gaps \/ p \in held2 \/ Brought(u, Len(u), p)
    BY <1>2, <1>3, <1>5, <2>1 DEF WorksThrough
  <2> QED BY <2>1 DEF WorksThrough
<1>6. ASSUME NEW h, NEW g, QueueKnown(h, q), KeepsBooked(h, g)
      PROVE  QueueKnown(g, u)
  <2>1. ASSUME NEW i \in DOMAIN u, u[i].type = "Data"
        PROVE  Booked(g, u[i].req)
    BY <1>2, <1>6, <2>1 DEF QueueKnown, KeepsBooked
  <2> QED BY <2>1 DEF QueueKnown
<1> QED BY <1>1, <1>4, <1>5, <1>6 DEF Follows

(* What is carried over is not superseded by it. *)
LEMMA StillUnsuperseded ==
  ASSUME NEW h, NEW g, Carries(h, g), Unsuperseded(h)
  PROVE  Unsuperseded(g)
BY DEF Carries, Carried, Unsuperseded

(* A step that handles a message. *)
LEMMA HandlingIsOK ==
  ASSUME ShapeInv, CoverInv, UNCHANGED <<traded, now, cache, spent>>,
         queue # <<>>, queue' = Tail(queue),
         RequestsOK(chart'.handler), chart'.covered \subseteq 0 .. (End - 1),
         chart.held \subseteq chart'.held, chart'.held \subseteq traded,
         chart'.fetching \in BOOLEAN,
         worker' = NoWorker \/ (worker' = worker /\ chart'.fetching = chart.fetching),
         Undisturbed =>
            /\ Unsuperseded(chart'.handler) /\ KeepsBooked(chart.handler, chart'.handler)
            /\ worker' = NoWorker \/ chart'.handler = chart.handler
            /\ \A p : Brings(Head(queue), p) => p \in chart'.held
            /\ \A t \in chart'.covered : {t, t + 1} \cap traded \subseteq chart'.held
  PROVE  StepOK
<1>1. LineOK'
  BY DEF ShapeInv, LineOK
<1>2. RequestsOK(chart.handler)'
  BY DEF RequestsOK
<1>3. QueueOK(queue)'
  <2>1. QueueOK(queue')
    BY TailKeeps DEF ShapeInv
  <2> QED BY <2>1 DEF QueueOK, MessageOK
<1>4. WorkerOK'
  BY DEF ShapeInv, WorkerOK
<1>5. ASSUME Undisturbed
      PROVE  /\ Unsuperseded(chart.handler)' /\ QueueKnown(chart.handler, queue)'
             /\ WorkerKnown(chart.handler, worker)'
             /\ Follows(queue, chart.held)' /\ WorksThrough(worker, queue, chart.held)'
             /\ HoldsWhatItCovers'
  <2>1. /\ QueueKnown(chart.handler, queue) /\ WorkerKnown(chart.handler, worker)
        /\ Follows(queue, chart.held) /\ WorksThrough(worker, queue, chart.held)
    BY <1>5 DEF CoverInv
  <2>2. /\ Follows(queue', chart'.held)
        /\ WorksThrough(worker, queue', chart'.held)
        /\ QueueKnown(chart'.handler, queue')
    BY <1>5, <2>1, HandledKeeps DEF ShapeInv
  <2>3. Unsuperseded(chart.handler)' /\ QueueKnown(chart.handler, queue)'
    BY <1>5, <2>2 DEF Unsuperseded, QueueKnown, Booked
  <2>4. WorkerKnown(chart.handler, worker)'
    <3>1. CASE worker' = NoWorker
      BY <3>1 DEF WorkerKnown
    <3>2. CASE worker' # NoWorker
      BY <1>5, <2>1, <3>2 DEF WorkerKnown
    <3> QED BY <3>1, <3>2
  <2>5. Follows(queue, chart.held)'
    BY <2>2 DEF Follows, Brought, Brings, VerifiedTo
  <2>6. WorksThrough(worker', queue', chart'.held)
    <3>1. CASE worker' = NoWorker
      <4>1. NoWorker.phase # "run"
        BY DEF NoWorker
      <4> QED BY <3>1, <4>1 DEF WorksThrough
    <3>2. CASE worker' = worker
      BY <2>2, <3>2
    <3> QED BY <3>1, <3>2
  <2>7. WorksThrough(worker, queue, chart.held)'
    BY <2>6 DEF WorksThrough, Brought, Brings
  <2>8. HoldsWhatItCovers'
    BY <1>5 DEF HoldsWhatItCovers
  <2> QED BY <2>3, <2>4, <2>5, <2>7, <2>8
<1>6. CoverInv'
  BY <1>5 DEF CoverInv, Undisturbed
<1> QED BY <1>1, <1>2, <1>3, <1>4, <1>6 DEF StepOK

(* A chart with another handler, or that holds or covers more, and is otherwise as it was. *)
LEMMA ChartHas ==
  ASSUME NEW c, IsChart(c), NEW h, NEW a
  PROVE  /\ [c EXCEPT !.handler = h].handler = h
         /\ [c EXCEPT !.handler = h].covered = c.covered
         /\ [c EXCEPT !.handler = h].held = c.held
         /\ [c EXCEPT !.handler = h].fetching = c.fetching
         /\ [c EXCEPT !.held = a].handler = c.handler
         /\ [c EXCEPT !.held = a].covered = c.covered
         /\ [c EXCEPT !.held = a].held = a
         /\ [c EXCEPT !.held = a].fetching = c.fetching
         /\ [c EXCEPT !.covered = a].handler = c.handler
         /\ [c EXCEPT !.covered = a].covered = a
         /\ [c EXCEPT !.covered = a].held = c.held
         /\ [c EXCEPT !.covered = a].fetching = c.fetching
         /\ [c EXCEPT !.fetching = a].handler = c.handler
         /\ [c EXCEPT !.fetching = a].covered = c.covered
         /\ [c EXCEPT !.fetching = a].held = c.held
         /\ [c EXCEPT !.fetching = a].fetching = a
BY DEF IsChart

(* The request of trades on their way is not stale. *)
LEMMA BookedIsNotStale ==
  ASSUME NEW h, Good(h), Unsuperseded(h), NEW id, Booked(h, id)
  PROVE  ~IsStale(h, id)
BY DEF Good, Current, Unsuperseded, Booked, IsStale

(* distribute_fetched_data and insert_raw_trades: the trades are not stale, so they are held. *)
LEMMA OnDataIsOK ==
  ASSUME ShapeInv, CoverInv, UNCHANGED <<traded, now, cache, spent>>,
         queue # <<>>, queue' = Tail(queue), NEW m, m = Head(queue), m.type = "Data", OnData(m)
  PROVE  StepOK
<1>1. PICK h : h = chart.handler
  OBVIOUS
<1>2. Good(h) /\ IsChart(chart) /\ RequestsOK(h) /\ LineOK /\ QueueOK(queue)
  BY <1>1 DEF ShapeInv, ChartInv
<1>3. PICK more : more = {p \in m.points : p <= m.until}
  OBVIOUS
<1>4. PICK held : held = chart.held \cup more
  OBVIOUS
<1>5. m \in Messages /\ MessageOK(m) /\ 1 \in DOMAIN queue /\ m = queue[1]
  BY <1>2, TailKeeps
<1>6. chart.held \subseteq held /\ held \subseteq traded /\ \A p : Brings(m, p) => p \in held
  BY <1>2, <1>3, <1>4, <1>5 DEF LineOK, MessageOK, Brings
<1>7. PICK c : c = [chart EXCEPT !.held = held]
  OBVIOUS
<1>8. c.handler = h /\ c.covered = chart.covered /\ c.held = held /\ c.fetching = chart.fetching
      /\ IsChart(c)
  BY <1>1, <1>2, <1>7, ChartHas, HeldUpdated
<1>9. IF IsStale(h, m.req)
      THEN chart' = [chart EXCEPT !.handler = MarkCompleted(h, m.req)] /\ worker' = worker
      ELSE IF Max(m.points) >= m.until THEN StopFetching(c)
      ELSE chart' = c /\ worker' = worker
  BY <1>1, <1>3, <1>4, <1>7 DEF OnData
<1>10. ASSUME Undisturbed
       PROVE  ~IsStale(h, m.req)
  <2>1. Booked(h, m.req) /\ Unsuperseded(h)
    BY <1>1, <1>5, <1>10 DEF CoverInv, QueueKnown
  <2> QED BY <1>2, <2>1, BookedIsNotStale
<1>11. CASE IsStale(h, m.req)
  <2>1. PICK g : g = MarkCompleted(h, m.req)
    OBVIOUS
  <2>2. RequestsOK(g)
    BY <1>2, <2>1, MarkCarries, CarriedIsOK
  <2>3. chart' = [chart EXCEPT !.handler = g] /\ worker' = worker
    BY <1>9, <1>11, <2>1
  <2>4. /\ chart'.handler = g /\ chart'.covered = chart.covered
        /\ chart'.held = chart.held /\ chart'.fetching = chart.fetching
    BY <1>2, <2>3, ChartHas
  <2> QED BY <1>2, <1>10, <1>11, <2>2, <2>3, <2>4, HandlingIsOK DEF LineOK
<1>12. CASE ~IsStale(h, m.req)
  <2>1. /\ chart'.handler = h /\ chart'.covered = chart.covered /\ chart'.held = held
        /\ chart'.fetching \in BOOLEAN
        /\ worker' = NoWorker \/ (worker' = worker /\ chart'.fetching = chart.fetching)
    <3>1. CASE StopFetching(c)
      <4>1. chart' = [c EXCEPT !.fetching = FALSE] /\ worker' = NoWorker
        BY <3>1 DEF StopFetching
      <4>2. /\ chart'.handler = h /\ chart'.covered = chart.covered /\ chart'.held = held
        BY <1>8, <4>1, ChartHas
      <4>3. chart'.fetching = FALSE
        BY <1>8, <4>1 DEF IsChart
      <4> QED BY <4>1, <4>2, <4>3
    <3>2. CASE chart' = c /\ worker' = worker
      BY <1>2, <1>8, <3>2 DEF LineOK
    <3> QED BY <1>9, <1>12, <3>1, <3>2
  <2>2. KeepsBooked(h, h)
    BY DEF KeepsBooked
  <2>3. ASSUME Undisturbed
        PROVE  /\ Unsuperseded(h)
               /\ \A t \in chart.covered : {t, t + 1} \cap traded \subseteq held
    BY <1>1, <1>6, <2>3 DEF CoverInv, HoldsWhatItCovers
  <2> QED BY <1>1, <1>2, <1>6, <2>1, <2>2, <2>3, HandlingIsOK DEF LineOK
<1> QED BY <1>11, <1>12

(* Throttling a range is about no request. *)
LEMMA MarkEmptyCarries ==
  ASSUME NEW h, Good(h), NEW from, NEW to
  PROVE  Carries(h, MarkEmpty(h, from, to)) /\ KeepsBooked(h, MarkEmpty(h, from, to))
<1>1. PICK g : g = MarkEmpty(h, from, to)
  OBVIOUS
<1>2. g.generation = h.generation /\ g.requests = h.requests
  BY <1>1 DEF MarkEmpty, Good, IsHandler
<1>3. Carries(h, g) /\ KeepsBooked(h, g)
  BY <1>2 DEF Carries, Carried, KeepsBooked, Booked
<1> QED BY <1>1, <1>3

(* complete_trade_fetch credits only trades that came before it. *)
LEMMA OnCompletedIsOK ==
  ASSUME ShapeInv, CoverInv, UNCHANGED <<traded, now, cache, spent>>,
         queue # <<>>, queue' = Tail(queue),
         NEW m, m = Head(queue), m.type = "Completed", OnCompleted(m)
  PROVE  StepOK
<1>1. PICK h : h = chart.handler
  OBVIOUS
<1>2. Good(h) /\ IsChart(chart) /\ RequestsOK(h) /\ LineOK /\ QueueOK(queue)
  BY <1>1 DEF ShapeInv, ChartInv
<1>3. m \in Messages /\ MessageOK(m) /\ 1 \in DOMAIN queue /\ m = queue[1]
  BY <1>2, TailKeeps
<1>4. PICK g1 : g1 = MarkCompleted(h, m.req)
  OBVIOUS
<1>5. Good(g1) /\ Carries(h, g1) /\ KeepsBooked(h, g1)
  BY <1>2, <1>4, MarkCompletedIs, MarkCarries
<1>6. PICK tail : tail = Min(m.tail \cup {m.to})
  OBVIOUS
<1>7. PICK g : g = IF m.empty THEN MarkEmpty(g1, tail, m.to) ELSE g1
  OBVIOUS
<1>8. Carries(h, g) /\ KeepsBooked(h, g)
  <2>1. g = g1 \/ g = MarkEmpty(g1, tail, m.to)
    BY <1>7
  <2>2. CASE g = g1
    BY <1>5, <2>2
  <2>3. CASE g = MarkEmpty(g1, tail, m.to)
    <3>1. Carries(g1, g) /\ KeepsBooked(g1, g)
      BY <1>5, <2>3, MarkEmptyCarries
    <3> QED BY <1>5, <3>1, CarriesOn DEF KeepsBooked
  <2> QED BY <2>1, <2>2, <2>3
<1>9. RequestsOK(g)
  BY <1>2, <1>8, CarriedIsOK
<1>10. PICK covered : covered = chart.covered \cup m.from .. (VerifiedTo(m) - 1)
  OBVIOUS
<1>11. PICK d : d = [chart EXCEPT !.handler = g]
  OBVIOUS
<1>12. PICK c : c = [d EXCEPT !.covered = covered]
  OBVIOUS
<1>13. /\ c.handler = g /\ c.covered = covered /\ c.held = chart.held
       /\ c.fetching = chart.fetching /\ IsChart(c)
  <2>1. /\ d.handler = g /\ d.covered = chart.covered /\ d.held = chart.held
        /\ d.fetching = chart.fetching
    BY <1>2, <1>11, ChartHas
  <2>2. IsChart(d)
    BY <1>2, <1>11, HandlerUpdated
  <2>3. IsChart(c)
    BY <1>12, <2>2, CoveredUpdated
  <2> QED BY <1>12, <2>1, <2>2, <2>3, ChartHas
<1>14. StopFetching(c)
  <2>1. c = [chart EXCEPT !.handler = g, !.covered = covered]
    BY <1>2, <1>11, <1>12 DEF IsChart
  <2>2. StopFetching([chart EXCEPT !.handler = g, !.covered = covered])
    BY <1>1, <1>4, <1>6, <1>7, <1>10 DEF OnCompleted
  <2> QED BY <2>1, <2>2
<1>15. /\ chart'.handler = g /\ chart'.covered = covered /\ chart'.held = chart.held
       /\ chart'.fetching = FALSE /\ worker' = NoWorker
  <2>1. chart' = [c EXCEPT !.fetching = FALSE] /\ worker' = NoWorker
    BY <1>14 DEF StopFetching
  <2>2. chart'.handler = g /\ chart'.covered = covered /\ chart'.held = chart.held
    BY <1>13, <2>1, ChartHas
  <2>3. chart'.fetching = FALSE
    BY <1>13, <2>1 DEF IsChart
  <2> QED BY <2>1, <2>2, <2>3
<1>16. /\ m.from \in 0 .. End /\ m.to \in 0 .. End /\ VerifiedTo(m) \in Int
       /\ VerifiedTo(m) <= m.to
  <2>1. m.from \in 0 .. End /\ m.to \in 0 .. End /\ m.to \in Nat
    BY <1>3, MessageHas, TimeConstants
  <2>2. CASE m.tail = {}
    BY <2>1, <2>2, VerifiedIs
  <2>3. CASE \E a \in 0 .. End + 1 : m.tail = {a}
    <3>1. PICK a \in Nat : m.tail = {a}
      BY <2>3, TimeConstants
    <3>2. VerifiedTo(m) = IF m.to <= a - 1 THEN m.to ELSE a - 1
      BY <2>1, <3>1, VerifiedIs
    <3> QED BY <2>1, <3>1, <3>2
  <2> QED BY <1>3, <2>1, <2>2, <2>3 DEF MessageOK
<1>17. covered \subseteq 0 .. (End - 1)
  <2>1. PICK v \in Int : v = VerifiedTo(m)
    BY <1>16
  <2>2. m.from .. (v - 1) \subseteq 0 .. (End - 1)
    BY <1>16, <2>1, TimeConstants
  <2> QED BY <1>2, <1>10, <2>1, <2>2 DEF LineOK
<1>18. ASSUME Undisturbed
       PROVE  /\ Unsuperseded(g)
              /\ \A p : Brings(m, p) => p \in chart.held
              /\ \A t \in covered : {t, t + 1} \cap traded \subseteq chart.held
  <2>1. Unsuperseded(h) /\ Follows(queue, chart.held) /\ HoldsWhatItCovers
    BY <1>1, <1>18 DEF CoverInv
  <2>2. ASSUME NEW p \in traded \cap m.from .. VerifiedTo(m)
        PROVE  p \in chart.held
    <3>1. p \in chart.held \/ Brought(queue, 1 - 1, p)
      BY <1>3, <2>1, <2>2 DEF Follows
    <3>2. ~Brought(queue, 1 - 1, p)
      BY DEF Brought
    <3> QED BY <3>1, <3>2
  <2>3. ASSUME NEW t \in covered
        PROVE  {t, t + 1} \cap traded \subseteq chart.held
    <3>1. CASE t \in chart.covered
      BY <2>1, <3>1 DEF HoldsWhatItCovers
    <3>2. CASE t \in m.from .. (VerifiedTo(m) - 1)
      <4>1. t \in m.from .. VerifiedTo(m) /\ t + 1 \in m.from .. VerifiedTo(m)
        BY <1>16, <3>2
      <4> QED BY <2>2, <4>1
    <3> QED BY <1>10, <2>3, <3>1, <3>2
  <2>4. ~\E p : Brings(m, p)
    BY DEF Brings
  <2> QED BY <1>8, <2>1, <2>3, <2>4, StillUnsuperseded
<1> QED BY <1>1, <1>2, <1>8, <1>9, <1>15, <1>17, <1>18, HandlingIsOK DEF LineOK

(* mark_request_failed credits nothing. *)
LEMMA OnFailedIsOK ==
  ASSUME ShapeInv, CoverInv, UNCHANGED <<traded, now, cache, spent>>,
         queue # <<>>, queue' = Tail(queue),
         NEW m, m = Head(queue), m.type = "Failed", OnFailed(m)
  PROVE  StepOK
<1>1. PICK h : h = chart.handler
  OBVIOUS
<1>2. Good(h) /\ IsChart(chart) /\ RequestsOK(h) /\ LineOK /\ QueueOK(queue)
  BY <1>1 DEF ShapeInv, ChartInv
<1>3. PICK g : g = MarkFailed(h, m.req)
  OBVIOUS
<1>4. Carries(h, g) /\ KeepsBooked(h, g) /\ (m.req \notin DOMAIN h.requests => g = h)
  BY <1>2, <1>3, MarkCarries
<1>5. RequestsOK(g)
  BY <1>2, <1>4, CarriedIsOK
<1>6. PICK c : c = [chart EXCEPT !.handler = g]
  OBVIOUS
<1>7. /\ c.handler = g /\ c.covered = chart.covered /\ c.held = chart.held
      /\ c.fetching = chart.fetching /\ IsChart(c)
  <2>1. IsChart(c)
    BY <1>2, <1>6, HandlerUpdated
  <2>2. /\ c.handler = g /\ c.covered = chart.covered /\ c.held = chart.held
        /\ c.fetching = chart.fetching
    BY <1>2, <1>6, ChartHas
  <2> QED BY <2>1, <2>2
<1>8. IF m.req \in DOMAIN h.requests THEN StopFetching(c) ELSE chart' = c /\ worker' = worker
  BY <1>1, <1>3, <1>6 DEF OnFailed
<1>9. /\ chart'.handler = g /\ chart'.covered = chart.covered /\ chart'.held = chart.held
      /\ chart'.fetching \in BOOLEAN
      /\ \/ worker' = NoWorker
         \/ worker' = worker /\ chart'.fetching = chart.fetching /\ g = h
  <2>1. CASE StopFetching(c)
    <3>1. chart' = [c EXCEPT !.fetching = FALSE] /\ worker' = NoWorker
      BY <2>1 DEF StopFetching
    <3>2. /\ chart'.handler = g /\ chart'.covered = chart.covered /\ chart'.held = chart.held
      BY <1>7, <3>1, ChartHas
    <3>3. chart'.fetching = FALSE
      BY <1>7, <3>1 DEF IsChart
    <3> QED BY <3>1, <3>2, <3>3
  <2>2. CASE m.req \notin DOMAIN h.requests /\ chart' = c /\ worker' = worker
    BY <1>2, <1>4, <1>7, <2>2 DEF LineOK
  <2> QED BY <1>8, <2>1, <2>2
<1>10. ASSUME Undisturbed
       PROVE  /\ Unsuperseded(g)
              /\ \A p : Brings(m, p) => p \in chart.held
              /\ \A t \in chart.covered : {t, t + 1} \cap traded \subseteq chart.held
  <2>1. Unsuperseded(h) /\ HoldsWhatItCovers
    BY <1>1, <1>10 DEF CoverInv
  <2>2. ~\E p : Brings(m, p)
    BY DEF Brings
  <2> QED BY <1>4, <2>1, <2>2, StillUnsuperseded DEF HoldsWhatItCovers
<1> QED BY <1>1, <1>2, <1>4, <1>5, <1>9, <1>10, HandlingIsOK DEF LineOK

(* One message. *)
LEMMA DeliverIsOK ==
  ASSUME ShapeInv, CoverInv, Deliver
  PROVE  StepOK
<1>1. PICK m : m = Head(queue)
  OBVIOUS
<1>2. /\ queue # <<>> /\ queue' = Tail(queue) /\ UNCHANGED <<traded, now, cache, spent>>
      /\ \/ m.type = "Data" /\ OnData(m)
         \/ m.type = "Completed" /\ OnCompleted(m)
         \/ m.type = "Failed" /\ OnFailed(m)
  BY <1>1 DEF Deliver
<1> QED BY <1>1, <1>2, OnDataIsOK, OnCompletedIsOK, OnFailedIsOK

--------------------------------------------------------------------------------
(* Time, deadlines and the user. *)

(* Time passes. *)
LEMMA TickIsOK ==
  ASSUME ShapeInv, CoverInv, Tick
  PROVE  StepOK
<1>1. /\ now \in 0 .. End /\ now < End /\ now' = now + 1
      /\ UNCHANGED <<traded, chart, worker, queue, cache, spent>>
  BY DEF ShapeInv, LineOK, Tick
<1>2. now' \in 0 .. End /\ 0 .. now \subseteq 0 .. now'
  BY <1>1, TimeConstants
<1>3. LineOK'
  BY <1>1, <1>2 DEF ShapeInv, LineOK
<1>4. RequestsOK(chart.handler)'
  BY <1>1 DEF ShapeInv, RequestsOK
<1>5. QueueOK(queue)'
  <2>1. ASSUME NEW m, MessageOK(m)
        PROVE  MessageOK(m)'
    BY <1>1, <1>2, <2>1 DEF MessageOK
  <2>2. queue \in Seq(Messages) /\ \A i \in DOMAIN queue : MessageOK(queue[i])
    BY DEF ShapeInv, QueueOK
  <2> QED BY <1>1, <2>1, <2>2 DEF QueueOK
<1>6. WorkerOK'
  <2>1. ASSUME worker # NoWorker
        PROVE  worker.to <= now'
    <3>1. worker.to <= now /\ worker.to \in 0 .. End
      BY <2>1, WorkerHas DEF ShapeInv
    <3> QED BY <1>1, <3>1, TimeConstants
  <2> QED BY <1>1, <2>1 DEF ShapeInv, WorkerOK
<1>7. CoverInv'
  <2>1. Undisturbed' => Undisturbed
    BY <1>1 DEF Undisturbed
  <2>2. ASSUME Undisturbed
        PROVE  /\ Unsuperseded(chart.handler)' /\ QueueKnown(chart.handler, queue)'
               /\ WorkerKnown(chart.handler, worker)'
    BY <1>1, <2>2 DEF CoverInv, Unsuperseded, QueueKnown, Booked, WorkerKnown
  <2>3. ASSUME Undisturbed
        PROVE  Follows(queue, chart.held)'
    BY <1>1, <2>3 DEF CoverInv, Follows, Brought, Brings, VerifiedTo
  <2>4. ASSUME Undisturbed
        PROVE  WorksThrough(worker, queue, chart.held)' /\ HoldsWhatItCovers'
    BY <1>1, <2>4 DEF CoverInv, WorksThrough, Brought, Brings, HoldsWhatItCovers
  <2> QED BY <2>1, <2>2, <2>3, <2>4 DEF CoverInv
<1> QED BY <1>3, <1>4, <1>5, <1>6, <1>7 DEF StepOK

(* A step that leaves everything to the requests of the chart, with no message on its way. *)
LEMMA QuietIsOK ==
  ASSUME ShapeInv, CoverInv, UNCHANGED <<traded, now, worker, queue, cache>>, queue = <<>>,
         spent' = spent \/ Trouble("faults"),
         chart'.covered = chart.covered, chart'.held = chart.held,
         chart'.fetching = chart.fetching,
         RequestsOK(chart'.handler),
         Undisturbed =>
            Unsuperseded(chart'.handler) /\ WorkerKnown(chart'.handler, worker)
  PROVE  StepOK
<1>1. /\ spent' \in [faults : Nat, resets : Nat, clears : Nat]
      /\ Undisturbed' => Undisturbed
  BY SpentGrows DEF ShapeInv
<1>2. LineOK' /\ WorkerOK'
  BY <1>1 DEF ShapeInv, LineOK, WorkerOK
<1>3. RequestsOK(chart.handler)'
  BY DEF RequestsOK
<1>4. QueueOK(queue)'
  BY DEF ShapeInv, QueueOK, MessageOK
<1>5. ASSUME Undisturbed
      PROVE  /\ Unsuperseded(chart.handler)' /\ QueueKnown(chart.handler, queue)'
             /\ WorkerKnown(chart.handler, worker)' /\ Follows(queue, chart.held)'
  <2>1. DOMAIN queue = {}
    OBVIOUS
  <2>2. QueueKnown(chart.handler, queue)' /\ Follows(queue, chart.held)'
    BY <2>1 DEF QueueKnown, Follows
  <2>3. Unsuperseded(chart.handler)' /\ WorkerKnown(chart.handler, worker)'
    BY <1>5 DEF Unsuperseded, WorkerKnown
  <2> QED BY <2>2, <2>3
<1>6. ASSUME Undisturbed
      PROVE  WorksThrough(worker, queue, chart.held)' /\ HoldsWhatItCovers'
  BY <1>6 DEF CoverInv, WorksThrough, Brought, Brings, HoldsWhatItCovers
<1>7. CoverInv'
  BY <1>1, <1>5, <1>6 DEF CoverInv
<1> QED BY <1>2, <1>3, <1>4, <1>7 DEF StepOK

(* A request grows older. *)
LEMMA AgesIs ==
  ASSUME ChartInv, NEW id, Ages(id), NEW h, h = chart.handler, NEW g, g = chart'.handler
  PROVE  /\ id \in DOMAIN h.requests /\ h.requests[id].age \in Nat
         /\ h.requests[id].age < MaxAge(h.requests[id].status)
         /\ g.generation = h.generation /\ DOMAIN g.requests = DOMAIN h.requests
         /\ g.requests[id].age = h.requests[id].age + 1
         /\ g.requests[id].status = h.requests[id].status
         /\ g.requests[id].fetch = h.requests[id].fetch
         /\ g.requests[id].generation = h.requests[id].generation
         /\ \A i \in DOMAIN h.requests : i # id => g.requests[i] = h.requests[i]
         /\ chart'.covered = chart.covered /\ chart'.held = chart.held
         /\ chart'.fetching = chart.fetching
<1>1. Good(h) /\ IsChart(chart) /\ id \in DOMAIN h.requests
  BY DEF ChartInv, Ages
<1>2. PICK r : r = h.requests[id] /\ IsRequest(r)
  BY <1>1 DEF Good, IsHandler
<1>3. PICK old : old = [r EXCEPT !.age = r.age + 1]
  OBVIOUS
<1>4. PICK requests : requests = [h.requests EXCEPT ![id] = old]
  OBVIOUS
<1>5. PICK k : k = [h EXCEPT !.requests = requests]
  OBVIOUS
<1>6. chart' = [chart EXCEPT !.handler = k]
  BY <1>2, <1>3, <1>4, <1>5 DEF Ages
<1>7. /\ g = k /\ chart'.covered = chart.covered /\ chart'.held = chart.held
      /\ chart'.fetching = chart.fetching
  BY <1>1, <1>6, ChartHas
<1>8. g.generation = h.generation /\ g.requests = requests
  BY <1>1, <1>5, <1>7 DEF Good, IsHandler
<1>9. /\ old.age = r.age + 1 /\ old.status = r.status /\ old.fetch = r.fetch
      /\ old.generation = r.generation
  BY <1>2, <1>3 DEF IsRequest
<1>10. /\ DOMAIN requests = DOMAIN h.requests /\ requests[id] = old
       /\ \A i \in DOMAIN h.requests : i # id => requests[i] = h.requests[i]
  <2>1. h.requests = [i \in DOMAIN h.requests |-> h.requests[i]]
    BY <1>1 DEF Good, IsHandler
  <2> QED BY <1>1, <1>4, <2>1
<1>11. r.age \in Nat /\ r.age < MaxAge(r.status)
  BY <1>2 DEF IsRequest, Ages
<1> QED BY <1>1, <1>2, <1>7, <1>8, <1>9, <1>10, <1>11

(* A deadline passes. *)
LEMMA AgesIsOK ==
  ASSUME ShapeInv, CoverInv, NEW id \in Id, Age(id) \/ AgeAtWork(id)
  PROVE  StepOK
<1>1. Ages(id) /\ (spent' = spent \/ Trouble("faults"))
  BY DEF Age, AgeAtWork
<1>2. PICK h : h = chart.handler
  OBVIOUS
<1>3. PICK g : g = chart'.handler
  OBVIOUS
<1>4. /\ id \in DOMAIN h.requests /\ h.requests[id].age \in Nat
      /\ h.requests[id].age < MaxAge(h.requests[id].status)
      /\ g.generation = h.generation /\ DOMAIN g.requests = DOMAIN h.requests
      /\ g.requests[id].age = h.requests[id].age + 1
      /\ g.requests[id].status = h.requests[id].status
      /\ g.requests[id].fetch = h.requests[id].fetch
      /\ g.requests[id].generation = h.requests[id].generation
      /\ \A i \in DOMAIN h.requests : i # id => g.requests[i] = h.requests[i]
      /\ chart'.covered = chart.covered /\ chart'.held = chart.held
      /\ chart'.fetching = chart.fetching
  BY <1>1, <1>2, <1>3, AgesIs DEF ShapeInv
<1>5. RequestsOK(h) /\ Good(h)
  BY <1>2 DEF ShapeInv, ChartInv
<1>6. RequestsOK(g)
  <2>1. ASSUME NEW i \in DOMAIN g.requests
        PROVE  /\ i \in Id
               /\ g.requests[i].age \in 0 .. MaxAge(g.requests[i].status)
               /\ g.requests[i].generation \in 0 .. g.generation
               /\ IsRange(g.requests[i].fetch.from, g.requests[i].fetch.to)
               /\ IsValid(g.requests[i].fetch)
    <3>1. CASE i # id
      BY <1>4, <1>5, <2>1, <3>1 DEF RequestsOK
    <3>2. CASE i = id
      <4>1. PICK max \in Nat : max = MaxAge(h.requests[id].status)
        BY DEF MaxAge
      <4>2. g.requests[id].age \in 0 .. max
        BY <1>4, <4>1
      <4> QED BY <1>4, <1>5, <3>2, <4>1, <4>2 DEF RequestsOK
    <3> QED BY <3>1, <3>2
  <2> QED BY <1>4, <1>5, <2>1 DEF RequestsOK
<1>7. g.requests[id].age # 0
  BY <1>4
<1>8. ASSUME Undisturbed
      PROVE  Unsuperseded(g) /\ WorkerKnown(g, worker)
  <2>1. Unsuperseded(h) /\ WorkerKnown(h, worker)
    BY <1>2, <1>8 DEF CoverInv
  <2>2. Unsuperseded(g)
    BY <1>4, <2>1 DEF Unsuperseded
  <2>3. CASE worker = NoWorker
    BY <2>2, <2>3 DEF WorkerKnown
  <2>4. CASE worker # NoWorker /\ worker.req # id
    <3>1. /\ worker.req \in DOMAIN h.requests
          /\ g.requests[worker.req] = h.requests[worker.req]
      BY <1>4, <2>1, <2>4 DEF WorkerKnown
    <3>2. ASSUME h.requests[worker.req].age # 0,
                 NEW i \in DOMAIN g.requests, g.requests[i].status = "Pending"
          PROVE  g.requests[i].age # 0
      BY <1>4, <1>7, <2>1, <2>4, <3>2 DEF WorkerKnown
    <3> QED BY <1>4, <2>1, <2>2, <2>4, <3>1, <3>2 DEF WorkerKnown
  <2>5. CASE worker # NoWorker /\ worker.req = id
    <3>1. \A r \in Requests : r.status = "Pending" /\ r.age = 0 => r = h.requests[id]
      BY <1>2, <2>5 DEF Age, AgeAtWork, Works
    <3>2. ASSUME NEW i \in DOMAIN g.requests, g.requests[i].status = "Pending"
          PROVE  g.requests[i].age # 0
      <4>1. CASE i = id
        BY <1>7, <4>1
      <4>2. CASE i # id
        <5>1. SUFFICES ASSUME h.requests[i].age = 0
                       PROVE  FALSE
          BY <1>4, <3>2, <4>2
        <5>2. h.requests[i] \in Requests /\ h.requests[i].status = "Pending"
          BY <1>2, <1>4, <3>2, <4>2 DEF Requests
        <5>3. h.requests[i] = h.requests[id]
          BY <3>1, <5>1, <5>2
        <5> QED BY <1>4, <1>5, <3>2, <4>2, <5>3 DEF Good, Distinct
      <4> QED BY <4>1, <4>2
    <3> QED BY <1>4, <2>1, <2>2, <2>5, <3>2 DEF WorkerKnown
  <2> QED BY <2>2, <2>3, <2>4, <2>5
<1>9. UNCHANGED <<traded, now, worker, queue, cache>> /\ queue = <<>>
  BY <1>1 DEF Ages
<1> QED BY <1>1, <1>3, <1>4, <1>6, <1>8, <1>9, QuietIsOK

(* EMPTY_TRADE_FETCH_TTL passes. *)
LEMMA ForgetEmptyIsOK ==
  ASSUME ShapeInv, CoverInv, ForgetEmpty
  PROVE  StepOK
<1>1. PICK h : h = chart.handler
  OBVIOUS
<1>2. Good(h) /\ IsChart(chart) /\ RequestsOK(h)
  BY <1>1 DEF ShapeInv, ChartInv
<1>3. PICK range : chart' = [chart EXCEPT !.handler.empty = @ \ {range}]
  BY DEF ForgetEmpty
<1>4. PICK empty : empty = h.empty \ {range}
  OBVIOUS
<1>5. PICK g : g = [h EXCEPT !.empty = empty]
  OBVIOUS
<1>6. chart' = [chart EXCEPT !.handler = g]
  BY <1>1, <1>3, <1>4, <1>5
<1>7. /\ chart'.handler = g /\ chart'.covered = chart.covered /\ chart'.held = chart.held
      /\ chart'.fetching = chart.fetching
  BY <1>2, <1>6, ChartHas
<1>8. g.generation = h.generation /\ g.requests = h.requests
  BY <1>2, <1>5 DEF Good, IsHandler
<1>9. RequestsOK(g)
  BY <1>2, <1>8 DEF RequestsOK
<1>10. ASSUME Undisturbed
       PROVE  Unsuperseded(g) /\ WorkerKnown(g, worker)
  BY <1>1, <1>8, <1>10 DEF CoverInv, Unsuperseded, WorkerKnown
<1>11. UNCHANGED <<traded, now, worker, queue, cache, spent>> /\ queue = <<>>
  BY DEF ForgetEmpty
<1> QED BY <1>7, <1>9, <1>10, <1>11, QuietIsOK

(* A step that disturbs keeps the shapes. *)
LEMMA DisturbingIsOK ==
  ASSUME ShapeInv, UNCHANGED <<traded, now, queue>>, NEW kind \in {"resets", "clears"},
         Trouble(kind), cache' \subseteq 0 .. End,
         chart'.covered \subseteq 0 .. (End - 1), chart'.held \subseteq traded,
         chart'.fetching \in BOOLEAN, RequestsOK(chart'.handler),
         worker' = NoWorker \/ (worker' = worker /\ chart'.fetching = chart.fetching)
  PROVE  StepOK
<1>1. /\ spent' \in [faults : Nat, resets : Nat, clears : Nat]
      /\ ~Undisturbed'
  <2>1. kind # "faults"
    OBVIOUS
  <2> QED BY <2>1, SpentGrows DEF ShapeInv
<1>2. LineOK' /\ WorkerOK'
  BY <1>1 DEF ShapeInv, LineOK, WorkerOK
<1>3. RequestsOK(chart.handler)'
  BY DEF RequestsOK
<1>4. QueueOK(queue)'
  BY DEF ShapeInv, QueueOK, MessageOK
<1> QED BY <1>1, <1>2, <1>3, <1>4 DEF StepOK, CoverInv

(* supersede_all_pending *)
LEMMA SupersededIsOK ==
  ASSUME NEW h, Good(h), RequestsOK(h)
  PROVE  RequestsOK(Supersede(h))
<1>1. IsHandler(h) /\ h.generation \in Nat
  BY DEF Good, RequestsOK
<1>2. PICK requests : requests = [i \in DOMAIN h.requests |->
         IF h.requests[i].status = "Pending" THEN Turn(h.requests[i], "Superseded")
         ELSE h.requests[i]]
  OBVIOUS
<1>3. PICK next \in Nat : next = h.generation + 1 /\ 0 .. h.generation \subseteq 0 .. next
  BY <1>1
<1>4. PICK k : k = [h EXCEPT !.generation = next]
  OBVIOUS
<1>5. k = [generation |-> next, requests |-> h.requests, empty |-> h.empty]
  BY <1>1, <1>4 DEF IsHandler
<1>6. PICK g : g = Supersede(h)
  OBVIOUS
<1>7. g = [k EXCEPT !.requests = requests]
  BY <1>2, <1>3, <1>4, <1>5, <1>6 DEF Supersede
<1>8. g.generation = next /\ g.requests = requests
  BY <1>5, <1>7
<1>9. ASSUME NEW i \in DOMAIN g.requests
      PROVE  /\ i \in Id
             /\ g.requests[i].age \in 0 .. MaxAge(g.requests[i].status)
             /\ g.requests[i].generation \in 0 .. g.generation
             /\ IsRange(g.requests[i].fetch.from, g.requests[i].fetch.to)
             /\ IsValid(g.requests[i].fetch)
  <2>1. i \in DOMAIN h.requests
    BY <1>2, <1>8, <1>9
  <2>2. PICK r : r = h.requests[i] /\ IsRequest(r)
    BY <1>1, <2>1 DEF IsHandler
  <2>3. /\ i \in Id /\ r.age \in 0 .. MaxAge(r.status) /\ r.generation \in 0 .. g.generation
        /\ IsRange(r.fetch.from, r.fetch.to) /\ IsValid(r.fetch)
    BY <1>3, <1>8, <2>1, <2>2 DEF RequestsOK
  <2>4. PICK s : s = Turn(r, "Superseded")
    OBVIOUS
  <2>5. s.fetch = r.fetch /\ s.generation = r.generation
    BY <2>2, <2>4, TurnIs
  <2>6. s.age = 0 /\ 0 \in 0 .. MaxAge(s.status)
    BY <2>2, <2>4 DEF Turn, IsRequest, MaxAge
  <2>7. g.requests[i] = r \/ g.requests[i] = s
    BY <1>2, <1>8, <2>1, <2>2, <2>4
  <2> QED BY <2>3, <2>5, <2>6, <2>7
<1> QED BY <1>6, <1>8, <1>9 DEF RequestsOK

(* reset_request_handler *)
LEMMA ResetIsOK ==
  ASSUME ShapeInv, NEW keeps \in BOOLEAN, Reset(keeps)
  PROVE  StepOK
<1>1. Good(chart.handler) /\ IsChart(chart) /\ RequestsOK(chart.handler) /\ LineOK
  BY DEF ShapeInv, ChartInv
<1>2. PICK h : h = Supersede(chart.handler)
  OBVIOUS
<1>3. RequestsOK(h)
  BY <1>1, <1>2, SupersededIsOK
<1>4. PICK held : held = IF keeps THEN chart.held ELSE {}
  OBVIOUS
<1>5. PICK none : none = {}
  OBVIOUS
<1>6. PICK c : c = [chart EXCEPT !.handler = h, !.covered = none, !.held = held]
  OBVIOUS
<1>7. c = [handler |-> h, covered |-> none, held |-> held, fetching |-> chart.fetching]
  BY <1>1, <1>6 DEF IsChart
<1>8. StopFetching(c)
  BY <1>2, <1>4, <1>5, <1>6 DEF Reset
<1>9. chart' = [handler |-> h, covered |-> none, held |-> held, fetching |-> FALSE]
        /\ worker' = NoWorker
  BY <1>7, <1>8 DEF StopFetching
<1>10. /\ chart'.handler = h /\ chart'.covered = none /\ chart'.held = held
       /\ chart'.fetching = FALSE
  BY <1>9
<1>11. none \subseteq 0 .. (End - 1) /\ held \subseteq traded
  BY <1>1, <1>4, <1>5 DEF LineOK
<1>12. UNCHANGED <<traded, now, queue, cache>> /\ Trouble("resets") /\ cache \subseteq 0 .. End
  BY <1>1 DEF Reset, LineOK
<1> QED BY <1>3, <1>9, <1>10, <1>11, <1>12, DisturbingIsOK

(* invalidate_market_data_cache *)
LEMMA ClearCacheIsOK ==
  ASSUME ShapeInv, ClearCache
  PROVE  StepOK
<1>1. IsChart(chart) /\ LineOK
  BY DEF ShapeInv, ChartInv
<1>2. PICK h : h = NewHandler
  OBVIOUS
<1>3. RequestsOK(h)
  BY <1>2 DEF NewHandler, RequestsOK
<1>4. chart' = [chart EXCEPT !.handler = h, !.held = {}]
  BY <1>2 DEF ClearCache
<1>5. /\ chart'.handler = h /\ chart'.covered = chart.covered /\ chart'.held = {}
      /\ chart'.fetching = chart.fetching
  BY <1>1, <1>4 DEF IsChart
<1>6. /\ UNCHANGED <<traded, now, worker, queue>> /\ Trouble("clears") /\ cache' = {}
  BY DEF ClearCache
<1> QED BY <1>1, <1>3, <1>5, <1>6, DisturbingIsOK DEF LineOK

--------------------------------------------------------------------------------
(* Asking. *)

(* A step that leaves what is held and covered. *)
LEMMA AskingIsOK ==
  ASSUME ShapeInv, CoverInv, UNCHANGED <<traded, now, cache>>,
         spent' = spent \/ Trouble("faults"),
         chart'.covered = chart.covered, chart'.held = chart.held, chart'.fetching \in BOOLEAN,
         RequestsOK(chart'.handler), QueueOK(queue'), WorkerOK',
         Undisturbed =>
            /\ Unsuperseded(chart'.handler)
            /\ QueueKnown(chart'.handler, queue') /\ WorkerKnown(chart'.handler, worker')
            /\ Follows(queue', chart.held) /\ WorksThrough(worker', queue', chart.held)
  PROVE  StepOK
<1>1. /\ spent' \in [faults : Nat, resets : Nat, clears : Nat]
      /\ Undisturbed' => Undisturbed
  BY SpentGrows DEF ShapeInv
<1>2. LineOK'
  BY <1>1 DEF ShapeInv, LineOK
<1>3. RequestsOK(chart.handler)'
  BY DEF RequestsOK
<1>4. QueueOK(queue)'
  BY DEF QueueOK, MessageOK
<1>5. ASSUME Undisturbed
      PROVE  /\ Unsuperseded(chart.handler)' /\ QueueKnown(chart.handler, queue)'
             /\ WorkerKnown(chart.handler, worker)'
  BY <1>5 DEF Unsuperseded, QueueKnown, Booked, WorkerKnown
<1>6. ASSUME Undisturbed
      PROVE  Follows(queue, chart.held)'
  BY <1>6 DEF Follows, Brought, Brings, VerifiedTo
<1>7. ASSUME Undisturbed
      PROVE  WorksThrough(worker, queue, chart.held)' /\ HoldsWhatItCovers'
  BY <1>7 DEF CoverInv, WorksThrough, Brought, Brings, HoldsWhatItCovers
<1>8. CoverInv'
  BY <1>1, <1>5, <1>6, <1>7 DEF CoverInv
<1> QED BY <1>2, <1>3, <1>4, <1>8 DEF StepOK

(* What is booked still is known still. *)
LEMMA QueueStillKnown ==
  ASSUME NEW h, NEW g, KeepsBooked(h, g), NEW q, QueueKnown(h, q)
  PROVE  QueueKnown(g, q)
BY DEF KeepsBooked, QueueKnown

(* The worker the chart still waits for has time left: had its deadline passed, all would *)
(* have.                                                                                  *)
LEMMA BusyKnowsWorker ==
  ASSUME NEW k, Good(k), RequestsOK(k), NEW h, h = Cleanup(k), HasPendingTrades(h),
         WorkerKnown(k, worker)
  PROVE  WorkerKnown(h, worker)
<1> SUFFICES ASSUME worker # NoWorker
             PROVE  /\ worker.req \in DOMAIN h.requests
                    /\ h.requests[worker.req].status = "Pending"
                    /\ h.requests[worker.req].age = 0
  BY DEF WorkerKnown
<1>1. PICK id : id = worker.req
  OBVIOUS
<1>2. /\ id \in DOMAIN k.requests /\ k.requests[id].status = "Pending"
      /\ k.requests[id].age # 0 =>
            \A i \in DOMAIN k.requests : k.requests[i].status = "Pending" => k.requests[i].age # 0
  BY <1>1 DEF WorkerKnown
<1>3. /\ Carries(k, h)
      /\ \A i \in DOMAIN h.requests : h.requests[i].status = "Pending" =>
            h.requests[i] = k.requests[i] /\ k.requests[i].age # 1
      /\ \A i \in DOMAIN k.requests : k.requests[i].status = "Pending" /\ k.requests[i].age # 1 =>
            i \in DOMAIN h.requests /\ h.requests[i] = k.requests[i]
  BY CleanupCarries
<1>4. \A i \in DOMAIN k.requests : k.requests[i].status = "Pending" => k.requests[i].age \in {0, 1}
  <2>1. ASSUME NEW i \in DOMAIN k.requests, k.requests[i].status = "Pending"
        PROVE  k.requests[i].age \in {0, 1}
    <3>1. PICK r : r = k.requests[i]
      OBVIOUS
    <3>2. r.age \in 0 .. MaxAge(r.status) /\ r.status = "Pending"
      BY <2>1, <3>1 DEF RequestsOK
    <3>3. r.age \in 0 .. 1
      BY <3>2 DEF MaxAge
    <3> QED BY <3>1, <3>3
  <2> QED BY <2>1
<1>5. k.requests[id].age = 0
  <2>1. PICK j \in DOMAIN h.requests : h.requests[j].status = "Pending"
    BY DEF HasPendingTrades
  <2>2. j \in DOMAIN k.requests /\ k.requests[j].status = "Pending" /\ k.requests[j].age # 1
    BY <1>3, <2>1 DEF Carries
  <2>3. k.requests[j].age = 0
    BY <1>4, <2>2
  <2> QED BY <1>2, <2>2, <2>3
<1> QED BY <1>1, <1>2, <1>3, <1>5

(* The chart waits, has all it wants, or asks. *)
LEMMA AskNextIsOK ==
  ASSUME ShapeInv, CoverInv, UNCHANGED <<traded, now, cache>>,
         NEW dispatched \in BOOLEAN, NEW h, h = Cleanup(chart.handler),
         NEW busy \in BOOLEAN, busy = (chart.fetching /\ HasPendingTrades(h)),
         AskNext(h, busy, dispatched)
  PROVE  StepOK
<1>1. PICK k : k = chart.handler
  OBVIOUS
<1>2. Good(k) /\ IsChart(chart) /\ RequestsOK(k) /\ LineOK /\ QueueOK(queue) /\ WorkerOK
  BY <1>1 DEF ShapeInv, ChartInv
<1>3. Good(h) /\ Carries(k, h) /\ KeepsBooked(k, h)
  BY <1>1, <1>2, CleanupIs, CleanupCarries
<1>4. RequestsOK(h)
  BY <1>2, <1>3, CarriedIsOK
<1>5. PICK idle : idle = [chart EXCEPT !.handler = h, !.fetching = busy]
  OBVIOUS
<1>6. /\ idle.handler = h /\ idle.covered = chart.covered /\ idle.held = chart.held
      /\ idle.fetching = busy /\ IsChart(idle)
  <2>1. PICK c : c = chart
    OBVIOUS
  <2>2. IsChart(c) /\ idle = [c EXCEPT !.handler = h, !.fetching = busy]
    BY <1>2, <1>5, <2>1
  <2>3. /\ idle.handler = h /\ idle.covered = c.covered /\ idle.held = c.held
        /\ idle.fetching = busy /\ IsChart(idle)
    BY <2>2 DEF IsChart
  <2> QED BY <2>1, <2>3
<1>7. PICK next : next = CHOOSE id \in Fresh(h) : TRUE
  OBVIOUS
<1>8. \/ /\ chart' = idle /\ worker' = IF busy THEN worker ELSE NoWorker
         /\ UNCHANGED <<queue, spent>>
      \/ /\ Fresh(h) # {}
         /\ \E fetch \in NextFetch(chart.covered, Edge) :
            \E added \in {AddRequest(h, next, fetch)} :
               \/ /\ added.id = NoId
                  /\ chart' = [idle EXCEPT !.handler = added.handler]
                  /\ worker' = NoWorker /\ UNCHANGED <<queue, spent>>
               \/ /\ added.id # NoId
                  /\ chart' = [idle EXCEPT !.handler = added.handler, !.fetching = TRUE]
                  /\ IF dispatched
                     THEN worker' = NewWorker(added.id, fetch) /\ UNCHANGED <<queue, spent>>
                     ELSE /\ worker' = NoWorker /\ Trouble("faults")
                          /\ queue' = Append(queue, [type |-> "Failed", req |-> added.id])
  <2>1. Asking(h, busy, dispatched, idle, next)
    <3>1. Asking(h, busy, dispatched, [chart EXCEPT !.handler = h, !.fetching = busy],
                 CHOOSE id \in Fresh(h) : TRUE)
      BY AskNextDoes, Zenon
    <3> QED BY <1>5, <1>7, <3>1, Zenon
  <2> QED BY <2>1, Zenon DEF Asking
<1>9. ASSUME Undisturbed
      PROVE  /\ Unsuperseded(k) /\ Unsuperseded(h)
             /\ QueueKnown(k, queue) /\ QueueKnown(h, queue) /\ WorkerKnown(k, worker)
             /\ Follows(queue, chart.held) /\ WorksThrough(worker, queue, chart.held)
  <2>1. /\ Unsuperseded(k) /\ QueueKnown(k, queue) /\ WorkerKnown(k, worker)
        /\ Follows(queue, chart.held) /\ WorksThrough(worker, queue, chart.held)
    BY <1>1, <1>9 DEF CoverInv
  <2> QED BY <1>3, <2>1, StillUnsuperseded, QueueStillKnown
<1>10. \A g, q : WorkerKnown(g, NoWorker) /\ WorksThrough(NoWorker, q, chart.held)
  BY DEF WorkerKnown, WorksThrough, NoWorker
<1>11. worker' = NoWorker => WorkerOK'
  BY DEF WorkerOK
<1>12. CASE /\ chart' = idle /\ worker' = (IF busy THEN worker ELSE NoWorker)
            /\ UNCHANGED <<queue, spent>>
  <2>1. CASE busy
    <3>1. worker' = worker /\ chart.fetching /\ HasPendingTrades(h)
      BY <1>12, <2>1
    <3>2. WorkerOK'
      BY <1>2, <1>6, <1>12, <2>1, <3>1 DEF WorkerOK
    <3>3. Undisturbed => WorkerKnown(h, worker)
      BY <1>1, <1>2, <1>9, <3>1, BusyKnowsWorker
    <3> QED BY <1>2, <1>4, <1>6, <1>9, <1>12, <3>1, <3>2, <3>3, AskingIsOK
  <2>2. CASE ~busy
    <3>1. worker' = NoWorker
      BY <1>12, <2>2
    <3> QED BY <1>2, <1>4, <1>6, <1>9, <1>10, <1>11, <1>12, <3>1, AskingIsOK
  <2> QED BY <2>1, <2>2
<1>13. ASSUME NEW fetch \in NextFetch(chart.covered, Edge), NEW added,
              added = AddRequest(h, next, fetch), Fresh(h) # {}
       PROVE  /\ next \in Id /\ next \notin DOMAIN h.requests
              /\ IsRange(fetch.from, fetch.to) /\ fetch.to <= now
              /\ \/ /\ added.id = NoId
                    /\ Carries(h, added.handler) /\ KeepsBooked(h, added.handler)
                 \/ /\ IsValid(fetch) /\ Asks(h, added.handler, added.id, fetch)
                    /\ added.id \in Id
                    /\ Unsuperseded(h) => added.id = next /\ KeepsBooked(h, added.handler)
  <2>1. next \in Fresh(h)
    BY <1>7, <1>13
  <2>2. next \in Id /\ next \notin DOMAIN h.requests
    BY <2>1 DEF Fresh
  <2>3. /\ fetch = Trades(fetch.from, fetch.to)
        /\ IsRange(fetch.from, fetch.to) /\ fetch.to <= now
    BY <1>2, <1>13, FetchIsPast
  <2>4. PICK from, to : fetch = Trades(from, to)
    BY <2>3
  <2>5. \/ /\ added.id = NoId
           /\ Carries(h, added.handler) /\ KeepsBooked(h, added.handler)
        \/ /\ IsValid(fetch) /\ Asks(h, added.handler, added.id, fetch)
           /\ added.id \in DOMAIN h.requests \cup {next}
           /\ (\A i \in DOMAIN h.requests : h.requests[i].status # "Superseded") =>
                 added.id = next /\ KeepsBooked(h, added.handler)
    BY <1>3, <1>13, <2>2, <2>4, AddRequestCarries
  <2> QED BY <1>4, <2>2, <2>3, <2>5 DEF RequestsOK, Unsuperseded
<1>14. ASSUME Fresh(h) # {}, NEW fetch \in NextFetch(chart.covered, Edge), NEW added,
              added = AddRequest(h, next, fetch),
              added.id = NoId, chart' = [idle EXCEPT !.handler = added.handler],
              worker' = NoWorker, UNCHANGED <<queue, spent>>
       PROVE  StepOK
  <2>1. PICK g : g = added.handler
    OBVIOUS
  <2>2. Carries(h, g) /\ KeepsBooked(h, g)
    BY <1>13, <1>14, <2>1, NoIdAssumption
  <2>3. RequestsOK(g)
    BY <1>4, <2>2, CarriedIsOK
  <2>4. /\ chart'.handler = g /\ chart'.covered = chart.covered /\ chart'.held = chart.held
        /\ chart'.fetching = busy
    BY <1>6, <1>14, <2>1, ChartHas
  <2>5. Undisturbed => Unsuperseded(g) /\ QueueKnown(g, queue)
    BY <1>9, <2>2, StillUnsuperseded, QueueStillKnown
  <2> QED BY <1>2, <1>9, <1>10, <1>11, <1>14, <2>3, <2>4, <2>5, AskingIsOK
<1>15. ASSUME Fresh(h) # {}, NEW fetch \in NextFetch(chart.covered, Edge), NEW added,
              added = AddRequest(h, next, fetch),
              added.id # NoId,
              chart' = [idle EXCEPT !.handler = added.handler, !.fetching = TRUE],
              \/ worker' = NewWorker(added.id, fetch) /\ UNCHANGED <<queue, spent>>
              \/ /\ worker' = NoWorker /\ Trouble("faults")
                 /\ queue' = Append(queue, [type |-> "Failed", req |-> added.id])
       PROVE  StepOK
  <2>1. PICK g : g = added.handler
    OBVIOUS
  <2>2. PICK id : id = added.id
    OBVIOUS
  <2>3. /\ IsRange(fetch.from, fetch.to) /\ fetch.to <= now /\ IsValid(fetch)
        /\ Asks(h, g, id, fetch) /\ id \in Id
        /\ Unsuperseded(h) => KeepsBooked(h, g)
    BY <1>13, <1>15, <2>1, <2>2
  <2>4. RequestsOK(g)
    BY <1>4, <2>3, AskedIsOK
  <2>5. /\ chart'.handler = g /\ chart'.covered = chart.covered /\ chart'.held = chart.held
        /\ chart'.fetching = TRUE
    <3>1. chart' = [idle EXCEPT !.handler = g, !.fetching = TRUE]
      BY <1>15, <2>1
    <3> QED BY <1>6, <3>1 DEF IsChart
  <2>6. g.requests[id].status = "Pending" /\ g.requests[id].age = 0 /\ id \in DOMAIN g.requests
    BY <2>3 DEF Asks, NewRequest
  <2>7. ASSUME Undisturbed
        PROVE  Unsuperseded(g) /\ QueueKnown(g, queue)
    <3>1. Unsuperseded(h) /\ QueueKnown(h, queue)
      BY <1>9, <2>7
    <3>2. QueueKnown(g, queue)
      BY <2>3, <3>1, QueueStillKnown
    <3>3. ASSUME NEW i \in DOMAIN g.requests
          PROVE  g.requests[i].status # "Superseded"
      <4>1. CASE i = id
        BY <2>6, <4>1
      <4>2. CASE i # id
        BY <2>3, <3>1, <3>3, <4>2 DEF Asks, Carried, Unsuperseded
      <4> QED BY <4>1, <4>2
    <3> QED BY <3>2, <3>3 DEF Unsuperseded
  <2>8. CASE worker' = NewWorker(added.id, fetch) /\ UNCHANGED <<queue, spent>>
    <3>1. PICK w : w = [phase |-> "start", req |-> id, from |-> fetch.from, to |-> fetch.to]
      OBVIOUS
    <3>2. worker' = w
      BY <2>2, <2>8, <3>1 DEF NewWorker
    <3>3. w.phase = "start" /\ w.req = id /\ w.from = fetch.from /\ w.to = fetch.to
      BY <3>1
    <3>4. w \in Starting
      BY <2>3, <3>1 DEF Starting, IsRange
    <3>5. WorkerOK'
      BY <2>3, <2>5, <3>2, <3>3, <3>4 DEF WorkerOK, IsValid
    <3>6. WorkerKnown(g, worker') /\ WorksThrough(worker', queue, chart.held)
      BY <2>6, <3>2, <3>3 DEF WorkerKnown, WorksThrough
    <3> QED BY <1>2, <1>9, <2>4, <2>5, <2>7, <2>8, <3>5, <3>6, AskingIsOK
  <2>9. CASE /\ worker' = NoWorker /\ Trouble("faults")
             /\ queue' = Append(queue, [type |-> "Failed", req |-> added.id])
    <3>1. PICK m : m = [type |-> "Failed", req |-> id]
      OBVIOUS
    <3>2. m.type = "Failed" /\ m \in Messages
      BY <2>3, <3>1 DEF Messages
    <3>3. MessageOK(m)
      BY <3>2 DEF MessageOK
    <3>4. queue' = Append(queue, m)
      BY <2>2, <2>9, <3>1
    <3>5. QueueOK(queue')
      BY <1>2, <3>2, <3>3, <3>4, AppendGrows
    <3>6. Undisturbed => Follows(queue', chart.held) /\ QueueKnown(g, queue')
      BY <1>2, <1>9, <2>7, <3>2, <3>3, <3>4, AppendFollows
    <3> QED BY <1>10, <1>11, <2>4, <2>5, <2>7, <2>9, <3>5, <3>6, AskingIsOK
  <2> QED BY <1>15, <2>8, <2>9
<1> QED BY <1>8, <1>12, <1>14, <1>15

(* fetch_missing_data *)
LEMMA FetchMissingIsOK ==
  ASSUME ShapeInv, CoverInv, NEW dispatched \in BOOLEAN, FetchMissing(dispatched)
  PROVE  StepOK
<1>1. PICK h \in {Cleanup(chart.handler)} :
        \E busy \in {chart.fetching /\ HasPendingTrades(h)} : AskNext(h, busy, dispatched)
  BY Zenon DEF FetchMissing
<1>2. PICK busy \in {chart.fetching /\ HasPendingTrades(h)} : AskNext(h, busy, dispatched)
  BY <1>1, Zenon
<1>3. busy = (chart.fetching /\ HasPendingTrades(h)) /\ busy \in BOOLEAN
  BY <1>2, Zenon
<1>4. UNCHANGED <<traded, now, cache>> /\ h = Cleanup(chart.handler)
  BY <1>1 DEF FetchMissing
<1> QED BY <1>2, <1>3, <1>4, AskNextIsOK

--------------------------------------------------------------------------------
(* The strengthening is inductive. *)

(* The beginning. *)
LEMMA InitIsOK ==
  ASSUME Init
  PROVE  ShapeInv /\ CoverInv
<1>1. ChartInv
  BY InitIsGood
<1>2. /\ chart.handler = NewHandler /\ chart.covered = {} /\ chart.held = {}
      /\ chart.fetching = FALSE
  BY DEF Init
<1>3. spent \in [faults : Nat, resets : Nat, clears : Nat]
  BY DEF Init
<1>4. LineOK
  BY <1>2, <1>3, TimeConstants DEF Init, LineOK
<1>5. RequestsOK(chart.handler) /\ Unsuperseded(chart.handler)
  BY <1>2 DEF RequestsOK, Unsuperseded, NewHandler
<1>6. queue = <<>> /\ DOMAIN queue = {} /\ queue \in Seq(Messages)
  BY DEF Init
<1>7. QueueOK(queue) /\ QueueKnown(chart.handler, queue) /\ Follows(queue, chart.held)
  BY <1>6 DEF QueueOK, QueueKnown, Follows
<1>8. WorkerOK /\ WorkerKnown(chart.handler, worker) /\ WorksThrough(worker, queue, chart.held)
  <2>1. worker = NoWorker /\ NoWorker.phase # "run"
    BY DEF Init, NoWorker
  <2> QED BY <2>1 DEF WorkerOK, WorkerKnown, WorksThrough
<1>9. HoldsWhatItCovers
  BY <1>2 DEF HoldsWhatItCovers
<1> QED BY <1>1, <1>4, <1>5, <1>7, <1>8, <1>9 DEF ShapeInv, CoverInv

(* Nothing happens. *)
LEMMA UnchangedIsOK ==
  ASSUME ShapeInv, CoverInv, UNCHANGED vars
  PROVE  StepOK
<1>1. UNCHANGED <<traded, now, chart, worker, queue, cache, spent>>
  BY DEF vars
<1>2. LineOK' /\ RequestsOK(chart.handler)' /\ WorkerOK'
  BY <1>1 DEF ShapeInv, LineOK, RequestsOK, WorkerOK
<1>3. QueueOK(queue)'
  BY <1>1 DEF ShapeInv, QueueOK, MessageOK
<1>4. Undisturbed' => Undisturbed
  BY <1>1 DEF Undisturbed
<1>5. ASSUME Undisturbed
      PROVE  /\ Unsuperseded(chart.handler)' /\ QueueKnown(chart.handler, queue)'
             /\ WorkerKnown(chart.handler, worker)'
  BY <1>1, <1>5 DEF CoverInv, Unsuperseded, QueueKnown, Booked, WorkerKnown
<1>6. ASSUME Undisturbed
      PROVE  Follows(queue, chart.held)'
  BY <1>1, <1>6 DEF CoverInv, Follows, Brought, Brings, VerifiedTo
<1>7. ASSUME Undisturbed
      PROVE  WorksThrough(worker, queue, chart.held)' /\ HoldsWhatItCovers'
  BY <1>1, <1>7 DEF CoverInv, WorksThrough, Brought, Brings, HoldsWhatItCovers
<1> QED BY <1>2, <1>3, <1>4, <1>5, <1>6, <1>7 DEF StepOK, CoverInv

(* Every step. *)
LEMMA EveryStepIsOK ==
  ASSUME ShapeInv, CoverInv, [Next]_vars
  PROVE  StepOK
<1>1. CASE Tick
  BY <1>1, TickIsOK
<1>2. CASE \E dispatched \in BOOLEAN : FetchMissing(dispatched)
  BY <1>2, FetchMissingIsOK
<1>3. CASE WorkerStart
  BY <1>3, WorkerStartIsOK
<1>4. CASE WorkerPage
  BY <1>4, WorkerPageIsOK
<1>5. CASE WorkerDone
  BY <1>5, WorkerDoneIsOK
<1>6. CASE \E interrupted \in BOOLEAN : WorkerFails(interrupted)
  BY <1>6, WorkerFailsIsOK
<1>7. CASE Deliver
  BY <1>7, DeliverIsOK
<1>8. CASE \E id \in Id : Age(id) \/ AgeAtWork(id)
  BY <1>8, AgesIsOK
<1>9. CASE ForgetEmpty
  BY <1>9, ForgetEmptyIsOK
<1>10. CASE \E keeps \in BOOLEAN : Reset(keeps)
  BY <1>10, ResetIsOK
<1>11. CASE ClearCache
  BY <1>11, ClearCacheIsOK
<1>12. CASE UNCHANGED vars
  BY <1>12, UnchangedIsOK
<1> QED
  BY <1>1, <1>2, <1>3, <1>4, <1>5, <1>6, <1>7, <1>8, <1>9, <1>10, <1>11, <1>12 DEF Next

(* ShapeInv and CoverInv hold initially and every step preserves them. *)
LEMMA ShapeAndCoverHold == Spec => []ShapeInv /\ []CoverInv
<1>1. Init => ShapeInv /\ CoverInv
  BY InitIsOK
<1>2. ShapeInv /\ CoverInv /\ [Next]_vars => ShapeInv' /\ CoverInv'
  <2>1. ASSUME ShapeInv, CoverInv, [Next]_vars
        PROVE  ShapeInv' /\ CoverInv'
    <3>1. StepOK
      BY <2>1, EveryStepIsOK
    <3>2. ChartInv'
      BY <2>1, StepIsKept DEF ShapeInv, Kept
    <3> QED BY <3>1, <3>2 DEF StepOK, ShapeInv
  <2> QED BY <2>1
<1> QED BY <1>1, <1>2, PTL DEF Spec

(* Requests, messages and the worker are about ranges of the line of time, trades on their way *)
(* are trades of the past, and a worker runs only while the chart believes that it fetches     *)
(* (fetching_trades), however requests time out, fail, are superseded and asked again.         *)
THEOREM ChartTypeCorrect == Spec => []TypeOK
<1>1. ASSUME ShapeInv
      PROVE  TypeOK
  <2>1. ChartInv /\ LineOK /\ RequestsOK(chart.handler) /\ QueueOK(queue) /\ WorkerOK
    BY <1>1 DEF ShapeInv
  <2>2. PICK h : h = chart.handler
    OBVIOUS
  <2>3. ASSUME NEW r \in Requests
        PROVE  /\ r.status \in {"Pending", "Completed", "Failed", "Superseded"}
               /\ r.age \in 0 .. MaxAge(r.status) /\ r.generation \in 0 .. chart.handler.generation
               /\ r.fetch.kind = "Trades" /\ IsRange(r.fetch.from, r.fetch.to) /\ IsValid(r.fetch)
    <3>1. PICK id \in DOMAIN h.requests : r = h.requests[id]
      BY <2>2, <2>3 DEF Requests
    <3>2. IsRequest(r)
      BY <2>1, <2>2, <3>1 DEF ChartInv, Good, IsHandler
    <3>3. r.fetch.kind = "Trades" /\ r.status \in {"Pending", "Completed", "Failed", "Superseded"}
      BY <3>2 DEF IsRequest, Trades
    <3> QED BY <2>1, <2>2, <3>1, <3>3 DEF RequestsOK
  <2>4. ASSUME NEW i \in DOMAIN queue
        PROVE  /\ queue[i].req \in Id
               /\ queue[i].type = "Data" => queue[i].points \subseteq traded \cap 0 .. now
               /\ queue[i].type = "Completed" => IsRange(queue[i].from, queue[i].to)
    <3>1. PICK m : m = queue[i]
      OBVIOUS
    <3>2. m \in Messages /\ MessageOK(m)
      BY <2>1, <3>1 DEF QueueOK
    <3> QED BY <3>1, <3>2, MessageHas DEF MessageOK, IsRange
  <2>5. worker # NoWorker =>
           worker.req \in Id /\ IsRange(worker.from, worker.to) /\ chart.fetching
    <3>1. ASSUME worker # NoWorker
          PROVE  worker.req \in Id /\ IsRange(worker.from, worker.to) /\ chart.fetching
      <4>1. /\ worker.req \in Id /\ worker.from \in 0 .. End /\ worker.to \in 0 .. End
            /\ worker.from < worker.to /\ chart.fetching
        BY <2>1, <3>1, WorkerHas
      <4>2. worker.from <= worker.to
        BY <4>1, TimeConstants
      <4> QED BY <4>1, <4>2 DEF IsRange
    <3> QED BY <3>1
  <2>6. DOMAIN chart.handler.requests \subseteq Id
    BY <2>1 DEF RequestsOK
  <2> QED BY <2>1, <2>3, <2>4, <2>5, <2>6 DEF TypeOK, LineOK
<1> QED BY <1>1, ShapeAndCoverHold, PTL

(* A chart whose settings are not changed, and whose cache is not cleared, holds every trade   *)
(* of the ranges it has marked covered and will not ask for again                              *)
(* (mark_verified_trade_fetch_prefix), whatever timed out, failed, stopped early or was asked  *)
(* a second time.                                                                              *)
THEOREM CoverageStaysHeld == Spec => []CoverageIsHeld
<1>1. CoverInv => CoverageIsHeld
  BY DEF CoverInv, Undisturbed, CoverageIsHeld
<1> QED BY <1>1, ShapeAndCoverHold, PTL
================================================================================
