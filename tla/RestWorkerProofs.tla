---------------------------- MODULE RestWorkerProofs ----------------------------
(***************************************************************************)
(* The limiters keep requests within the limit: for every period, limit    *)
(* and set of weights, however many callers there are, whatever the        *)
(* exchange answers and whenever.                                          *)
(***************************************************************************)
EXTENDS RestWorker, TLAPS

--------------------------------------------------------------------------------
(* The inductive invariant. *)

Commands == [caller : Callers, weight : Weights, gone : BOOLEAN]

(* What the proof needs of the types. *)
RestShapes ==
    /\ instant \in 0 .. Period - 1
    /\ queue \in Seq(Commands)
    /\ worker \in [state : {"ready", "sleep", "send", "sent"}, left : 0 .. Period,
                   weight : Weights \cup {0}, counts : BOOLEAN]
    /\ worker.state # "ready" => worker.weight \in Weights /\ queue # <<>>
    /\ limiter \in [kind : {"fixed", "header"}, tokens : 0 .. Budget, age : 0 .. Period,
                    used : Nat, usedAge : 0 .. Period + 1]
    /\ sent \in Nat
    /\ limiter.kind = "fixed" => Weights = {1}

(* With the header: what is sent in this period and told of is what the last answer said, at *)
(* most, and the one that is out.  What was sent in this period, and told of, was told in it. *)
Answers(weight) == weight > 0 => limiter.used >= weight /\ limiter.usedAge <= instant

HeaderInv ==
    limiter.kind = "header" =>
       /\ worker.counts => sent <= Budget
       /\ worker.state = "ready" => Answers(sent)
       /\ worker.state = "sleep" =>
            /\ Answers(sent)
            /\ sent > 0 => worker.left + instant = Period
       /\ worker.state = "send" => Answers(sent) /\ sent + worker.weight <= Budget
       /\ worker.state = "sent" =>
            /\ worker.counts => sent >= worker.weight /\ Answers(sent - worker.weight)
            /\ ~worker.counts => sent = 0

(* A fixed window: the number of requests n tokens are good for.  A request takes one token  *)
(* when it is prepared and one when it is answered, if there is one.                         *)
Good(n) == (n + 1) \div 2

OneLess(n) == IF n = 0 THEN 0 ELSE n - 1

(* Whether the window was refilled in this period: then it is not again.  Otherwise a refill *)
(* may still come, and what was sent so far are the tokens of before.                        *)
Fresh == limiter.age <= instant

Room(more) == sent + more <= IF Fresh THEN Budget + 1 ELSE Good(Budget)

(* The request that slept takes a token only when it is answered, from a new window. *)
Slept(extra) == limiter.age = Period /\ limiter.tokens = 0 /\ sent <= Good(Budget) + extra

FixedInv ==
    limiter.kind = "fixed" =>
       /\ instant = 0 => sent = 0
       /\ worker.state = "ready" => Room(Good(limiter.tokens))
       /\ worker.state = "sleep" =>
            limiter.tokens = 0 /\ worker.left + limiter.age >= Period /\ Room(0)
       /\ worker.state = "send" =>
            /\ limiter.tokens < Budget
            /\ Room(1 + Good(OneLess(limiter.tokens))) \/ Slept(0)
       /\ worker.state = "sent" =>
            /\ worker.counts => sent > 0 /\ (Room(Good(OneLess(limiter.tokens))) \/ Slept(1))
            /\ ~worker.counts => sent = 0

RestInv == RestShapes /\ HeaderInv /\ FixedInv

UntoldInv == untold \in 0 .. MaxUntold

--------------------------------------------------------------------------------

LEMMA Limits ==
    /\ Period \in Nat /\ Period > 0 /\ Budget \in Nat
    /\ Weights \subseteq Nat /\ \A weight \in Weights : 1 <= weight /\ weight <= Budget
BY RestAssumption

LEMMA HalfOf ==
  ASSUME NEW n \in Nat
  PROVE  /\ Good(n) \in Nat /\ Good(n) <= n /\ Good(n) <= Good(n + 1)
         /\ Good(n + 1) + Good(n) = n + 1
         /\ Good(n) <= 1 + Good(OneLess(n))
         /\ n > 0 => Good(n) = 1 + Good(OneLess(n - 1))
BY DEF Good, OneLess

LEMMA GoodIsMonotonic ==
  ASSUME NEW n \in Nat, NEW m \in Nat, n <= m
  PROVE  Good(n) <= Good(m)
BY DEF Good

LEMMA RestInvInitially == RestInit => RestInv
<1> SUFFICES ASSUME RestInit PROVE RestInv
  OBVIOUS
<1>1. PICK kind \in {"fixed", "header"} :
        (kind = "fixed" => Weights = {1}) /\ limiter = NewLimiter(kind)
  BY DEF RestInit
<1>2. limiter = [kind |-> kind, tokens |-> Budget, age |-> 0, used |-> 0, usedAge |-> 0]
  BY <1>1 DEF NewLimiter
<1>3. /\ instant = 0 /\ queue = <<>> /\ sent = 0
      /\ worker = [state |-> "ready", left |-> 0, weight |-> 0, counts |-> FALSE]
  BY DEF RestInit, Ready
<1>4. RestShapes
  BY <1>1, <1>2, <1>3, Limits DEF RestShapes
<1>5. HeaderInv
  BY <1>3, Limits DEF HeaderInv, Answers
<1>6. FixedInv
  BY <1>2, <1>3, Limits, HalfOf DEF FixedInv, Room, Fresh
<1> QED BY <1>4, <1>5, <1>6 DEF RestInv

LEMMA CallersKeepQueue ==
  ASSUME RestShapes, NEW c \in Callers, Request(c) \/ GiveUp(c)
  PROVE  queue' \in Seq(Commands) /\ queue' # <<>>
<1>1. queue \in Seq(Commands)
  BY DEF RestShapes
<1>2. CASE Request(c)
  BY <1>1, <1>2 DEF Request, Commands
<1>3. CASE GiveUp(c)
  <2>1. PICK i \in DOMAIN queue :
          queue' = IF i <= QueueCap + 1 THEN [queue EXCEPT ![i].gone = TRUE] ELSE RemoveAt(queue, i)
    BY <1>3 DEF GiveUp
  <2>2. i \in 1 .. Len(queue) /\ queue[i] \in Commands
    BY <1>1
  <2>3. [queue EXCEPT ![i].gone = TRUE] \in Seq(Commands) /\ [queue EXCEPT ![i].gone = TRUE] # <<>>
    <3>1. [queue[i] EXCEPT !.gone = TRUE] \in Commands
      BY <2>2 DEF Commands
    <3> QED BY <1>1, <2>2, <3>1
  <2>4. i > QueueCap + 1 => RemoveAt(queue, i) \in Seq(Commands) /\ RemoveAt(queue, i) # <<>>
    <3>1. SubSeq(queue, 1, i - 1) \in Seq(Commands) /\ SubSeq(queue, i + 1, Len(queue)) \in Seq(Commands)
      BY <1>1, <2>2
    <3>2. RemoveAt(queue, i) \in Seq(Commands)
      BY <3>1 DEF RemoveAt
    <3>3. i > QueueCap + 1 => Len(RemoveAt(queue, i)) > 0
      <4>1. QueueCap \in Nat
        BY RestAssumption
      <4> QED BY <1>1, <2>2, <3>1, <4>1 DEF RemoveAt
    <3> QED BY <3>2, <3>3
  <2>5. QueueCap \in Nat
    BY RestAssumption
  <2> QED BY <2>1, <2>2, <2>3, <2>4, <2>5
<1> QED BY <1>2, <1>3

(* The command of the worker stays at the head of the queue until it replies. *)
LEMMA QueueStep ==
  ASSUME RestShapes, RestNext
  PROVE  queue' \in Seq(Commands) /\ (queue # <<>> /\ ~Reply => queue' # <<>>)
<1>1. queue \in Seq(Commands)
  BY DEF RestShapes
<1>2. CASE queue' = queue
  BY <1>1, <1>2
<1>3. CASE worker.state = "sent" /\ Reply
  BY <1>1, <1>3 DEF Reply, RestShapes
<1>4. CASE \E c \in Callers : Request(c) \/ GiveUp(c)
  BY <1>4, CallersKeepQueue
<1> QED BY <1>2, <1>3, <1>4
        DEF RestNext, WorkerRuns, Prepare, WakeUp, SendOut, Answered, RequestFails, SecondTicks

--------------------------------------------------------------------------------
(* The limiter before and after a request. *)

Window(tokens, age) ==
    [kind |-> limiter.kind, tokens |-> tokens, age |-> age,
     used |-> limiter.used, usedAge |-> limiter.usedAge]

Full == limiter.age >= Period \/ instant = 0

(* The tokens and the age of the window once it is refilled, if it is time. *)
Tokens == IF Full THEN Budget ELSE limiter.tokens

Age == IF Full THEN 0 ELSE limiter.age

LEMMA LimiterIs ==
  ASSUME RestShapes
  PROVE  /\ limiter = Window(limiter.tokens, limiter.age)
         /\ limiter.kind \in {"fixed", "header"}
         /\ limiter.tokens \in Nat /\ limiter.tokens <= Budget
         /\ limiter.age \in Nat /\ limiter.age <= Period
         /\ limiter.used \in Nat /\ limiter.usedAge \in Nat /\ limiter.usedAge <= Period + 1
         /\ instant \in Nat /\ instant < Period
         /\ sent \in Nat /\ worker.left \in Nat /\ worker.left <= Period
BY Limits DEF RestShapes, Window

LEMMA WindowIs ==
  ASSUME NEW t, NEW a
  PROVE  /\ Window(t, a).tokens = t /\ Window(t, a).age = a
         /\ Window(t, a).kind = limiter.kind
         /\ Window(t, a).used = limiter.used /\ Window(t, a).usedAge = limiter.usedAge
         /\ \A n : [Window(t, a) EXCEPT !.tokens = n] = Window(n, a)
BY DEF Window

LEMMA WindowIsLimiter ==
  ASSUME RestShapes, NEW t \in 0 .. Budget, NEW a \in 0 .. Period
  PROVE  Window(t, a) \in [kind : {"fixed", "header"}, tokens : 0 .. Budget, age : 0 .. Period,
                           used : Nat, usedAge : 0 .. Period + 1]
BY DEF RestShapes, Window

LEMMA RefilledIs ==
  ASSUME RestShapes
  PROVE  Refilled(limiter) = Window(Tokens, Age)
<1>1. limiter = [kind |-> limiter.kind, tokens |-> limiter.tokens, age |-> limiter.age,
                 used |-> limiter.used, usedAge |-> limiter.usedAge]
  BY LimiterIs DEF Window
<1>2. CASE Full
  <2> DEFINE l1 == [limiter EXCEPT !.tokens = Budget]
  <2>1. l1 = [kind |-> limiter.kind, tokens |-> Budget, age |-> limiter.age,
              used |-> limiter.used, usedAge |-> limiter.usedAge]
    BY <1>1
  <2> HIDE DEF l1
  <2>2. [l1 EXCEPT !.age = 0] = [kind |-> limiter.kind, tokens |-> Budget, age |-> 0,
                                 used |-> limiter.used, usedAge |-> limiter.usedAge]
    BY <2>1
  <2>3. Refilled(limiter) = [l1 EXCEPT !.age = 0]
    BY <1>2 DEF Refilled, Full, l1
  <2> QED BY <1>2, <2>2, <2>3 DEF Window, Tokens, Age
<1>3. CASE ~Full
  BY <1>1, <1>3 DEF Refilled, Full, Window, Tokens, Age
<1> QED BY <1>2, <1>3

LEMMA FixedPreparedIs ==
  ASSUME RestShapes, NEW weight \in Weights
  PROVE  LET p == FixedPrepared(limiter, weight)
         IN /\ Tokens >= weight => p.limiter = Window(Tokens - weight, Age) /\ p.wait = 0
            /\ Tokens < weight =>
                 p.limiter = limiter /\ p.wait = Period - limiter.age /\ ~Full
<1>1. /\ Refilled(limiter) = Window(Tokens, Age)
      /\ Window(Tokens, Age).tokens = Tokens /\ Window(Tokens, Age).age = Age
      /\ [Window(Tokens, Age) EXCEPT !.tokens = @ - weight] = Window(Tokens - weight, Age)
  BY RefilledIs, WindowIs
<1>2. Tokens \in Nat /\ weight \in Nat /\ weight <= Budget
  BY Limits, LimiterIs DEF Tokens
<1>3. CASE Tokens >= weight
  BY <1>1, <1>2, <1>3 DEF FixedPrepared
<1>4. CASE Tokens < weight
  <2>1. ~Full
    BY <1>2, <1>4, Limits DEF Tokens
  <2>2. Window(Tokens, Age) = limiter
    BY <2>1, LimiterIs DEF Tokens, Age
  <2>3. Age = limiter.age
    BY <2>1 DEF Age
  <2>4. ~(Tokens >= weight)
    BY <1>2, <1>4
  <2>5. FixedPrepared(limiter, weight) = [limiter |-> limiter, wait |-> Period - limiter.age]
    BY <1>1, <2>2, <2>3, <2>4 DEF FixedPrepared
  <2> QED BY <1>2, <1>4, <2>1, <2>5
<1> QED BY <1>2, <1>3, <1>4

LEMMA PreparedIs ==
  ASSUME RestShapes, NEW weight \in Weights
  PROVE  LET p == Prepared(limiter, weight)
             known == limiter.kind = "header" /\ limiter.usedAge <= Period /\ limiter.used > 0
         IN /\ known => /\ p.limiter = limiter
                        /\ p.wait = IF limiter.used + weight <= Budget THEN 0
                                    ELSE Period - instant
            /\ ~known => p = FixedPrepared(limiter, weight)
BY DEF Prepared

(* What a fixed window takes for an answer. *)
LEMMA FixedLearnedIs ==
  ASSUME RestShapes, limiter.kind = "fixed", NEW used
  PROVE  Learned(limiter, 1, used) = Window(OneLess(Tokens), Age)
<1>1. /\ Refilled(limiter) = Window(Tokens, Age)
      /\ Window(Tokens, Age).tokens = Tokens
      /\ [Window(Tokens, Age) EXCEPT !.tokens = @ - Min({1, @})] = Window(Tokens - Min({1, Tokens}), Age)
  BY RefilledIs, WindowIs
<1>2. Tokens \in Nat
  BY Limits, LimiterIs DEF Tokens
<1>3. Min({1, Tokens}) = IF Tokens = 0 THEN 0 ELSE 1
  BY <1>2 DEF Min
<1>4. Tokens - Min({1, Tokens}) = OneLess(Tokens)
  BY <1>2, <1>3 DEF OneLess
<1>5. Learned(limiter, 1, used) =
        [Window(Tokens, Age) EXCEPT !.tokens = @ - Min({1, @})]
  BY <1>1 DEF Learned
<1> QED BY <1>1, <1>4, <1>5

--------------------------------------------------------------------------------
(* The steps. *)

LEMMA TokensAre ==
  ASSUME RestShapes
  PROVE  /\ Tokens \in 0 .. Budget /\ Age \in 0 .. Period
         /\ (Full => Tokens = Budget /\ Age = 0)
         /\ (~Full => Tokens = limiter.tokens /\ Age = limiter.age
                        /\ limiter.age < Period /\ instant # 0)
BY Limits, LimiterIs DEF Tokens, Age, Full

LEMMA PrepareKeepsShapes ==
  ASSUME RestShapes, Prepare, RestNext
  PROVE  /\ RestShapes'
         /\ UNCHANGED <<instant, sent>>
         /\ \E weight \in Weights, wait \in 0 .. Period :
              /\ worker' = [state |-> IF wait = 0 THEN "send" ELSE "sleep", left |-> wait,
                            weight |-> weight, counts |-> FALSE]
              /\ limiter' = Prepared(limiter, weight).limiter
              /\ wait = Prepared(limiter, weight).wait
<1> DEFINE weight == Head(queue).weight
           p == Prepared(limiter, weight)
<1>1. /\ queue # <<>> /\ UNCHANGED <<instant, queue, sent>>
      /\ limiter' = p.limiter
      /\ worker' = [state |-> IF p.wait = 0 THEN "send" ELSE "sleep", left |-> p.wait,
                    weight |-> weight, counts |-> FALSE]
  BY DEF Prepare
<1>2. weight \in Weights
  <2>1. queue \in Seq(Commands) /\ queue # <<>>
    BY <1>1 DEF RestShapes
  <2>2. Head(queue) \in Commands
    BY <2>1
  <2> QED BY <2>2 DEF Commands
<1> HIDE DEF weight
<1>3. /\ p.wait \in 0 .. Period
      /\ p.limiter \in [kind : {"fixed", "header"}, tokens : 0 .. Budget, age : 0 .. Period,
                        used : Nat, usedAge : 0 .. Period + 1]
      /\ p.limiter.kind = limiter.kind
  <2> DEFINE known == limiter.kind = "header" /\ limiter.usedAge <= Period /\ limiter.used > 0
  <2>1. CASE known
    <3>1. p.limiter = limiter
            /\ p.wait = IF limiter.used + weight <= Budget THEN 0 ELSE Period - instant
      BY <1>2, <2>1, PreparedIs
    <3> QED BY <3>1, Limits, LimiterIs DEF RestShapes
  <2>2. CASE ~known
    <3>1. p = FixedPrepared(limiter, weight)
      BY <1>2, <2>2, PreparedIs
    <3>2. CASE Tokens >= weight
      <4>1. p.limiter = Window(Tokens - weight, Age) /\ p.wait = 0
        BY <1>2, <3>1, <3>2, FixedPreparedIs
      <4>2. Tokens - weight \in 0 .. Budget /\ Age \in 0 .. Period
        BY <1>2, <3>2, TokensAre, Limits
      <4> QED BY <4>1, <4>2, WindowIs, WindowIsLimiter, Limits
    <3>3. CASE Tokens < weight
      <4>1. p.limiter = limiter /\ p.wait = Period - limiter.age /\ ~Full
        BY <1>2, <3>1, <3>3, FixedPreparedIs
      <4> QED BY <4>1, Limits, LimiterIs DEF RestShapes
    <3>4. Tokens >= weight \/ Tokens < weight
      BY <1>2, TokensAre, Limits
    <3> QED BY <3>2, <3>3, <3>4
  <2> QED BY <2>1, <2>2
<1> HIDE DEF p
<1>4. worker' \in [state : {"ready", "sleep", "send", "sent"}, left : 0 .. Period,
                   weight : Weights \cup {0}, counts : BOOLEAN]
        /\ worker'.weight \in Weights
  BY <1>1, <1>2, <1>3
<1>5. RestShapes'
  BY <1>1, <1>3, <1>4 DEF RestShapes
<1> QED BY <1>1, <1>2, <1>3, <1>5 DEF p

LEMMA PrepareKeepsInv ==
  ASSUME RestInv, Prepare, RestNext
  PROVE  RestInv'
<1>1. /\ RestShapes /\ RestShapes' /\ UNCHANGED <<instant, sent>> /\ worker.state = "ready"
  BY PrepareKeepsShapes DEF RestInv, Prepare
<1>2. PICK weight \in Weights, wait \in 0 .. Period :
              /\ worker' = [state |-> IF wait = 0 THEN "send" ELSE "sleep", left |-> wait,
                            weight |-> weight, counts |-> FALSE]
              /\ limiter' = Prepared(limiter, weight).limiter
              /\ wait = Prepared(limiter, weight).wait
  BY <1>1, PrepareKeepsShapes
<1>3. /\ wait = 0 => worker'.state = "send"
      /\ wait # 0 => worker'.state = "sleep"
      /\ worker'.left = wait /\ worker'.weight = weight
  BY <1>2
<1>4. weight \in Nat /\ 1 <= weight /\ weight <= Budget
  BY Limits
<1> DEFINE known == limiter.kind = "header" /\ limiter.usedAge <= Period /\ limiter.used > 0
<1>5. CASE known
  <2>1. limiter' = limiter
          /\ wait = IF limiter.used + weight <= Budget THEN 0 ELSE Period - instant
    BY <1>1, <1>2, <1>5, PreparedIs
  <2>2. Answers(sent) /\ ~worker'.counts
    BY <1>1, <1>2, <1>5 DEF RestInv, HeaderInv
  <2>3. HeaderInv'
    BY <1>1, <1>3, <1>4, <2>1, <2>2, Limits, LimiterIs DEF HeaderInv, Answers
  <2>4. FixedInv'
    BY <1>5, <2>1 DEF FixedInv
  <2> QED BY <1>1, <2>3, <2>4 DEF RestInv
<1>6. CASE ~known
  <2>1. Prepared(limiter, weight) = FixedPrepared(limiter, weight)
    BY <1>1, <1>6, PreparedIs
  <2>2. \/ /\ Tokens >= weight /\ limiter' = Window(Tokens - weight, Age) /\ wait = 0
        \/ /\ Tokens < weight /\ limiter' = limiter /\ wait = Period - limiter.age /\ ~Full
    BY <1>1, <1>2, <1>4, <2>1, TokensAre, FixedPreparedIs
  <2>3. /\ limiter'.kind = limiter.kind
        /\ limiter'.used = limiter.used /\ limiter'.usedAge = limiter.usedAge
    BY <1>1, <2>2, WindowIs
  <2>4. HeaderInv'
    <3> SUFFICES ASSUME limiter.kind = "header" PROVE HeaderInv'
      BY <2>3 DEF HeaderInv
    <3>1. Answers(sent)
      BY <1>1 DEF RestInv, HeaderInv
    <3>2. sent = 0
      BY <1>1, <1>6, <3>1, LimiterIs, Limits DEF Answers
    <3>3. ~worker'.counts
      BY <1>2
    <3> QED BY <1>1, <1>3, <1>4, <2>3, <3>2, <3>3, Limits DEF HeaderInv, Answers
  <2>5. FixedInv'
    <3> SUFFICES ASSUME limiter.kind = "fixed" PROVE FixedInv'
      BY <2>3 DEF FixedInv
    <3>1. weight = 1 /\ Budget \in Nat /\ Budget >= 1
      BY <1>1, <1>4, Limits DEF RestShapes
    <3>2. /\ instant = 0 => sent = 0
          /\ Room(Good(limiter.tokens))
      BY <1>1 DEF RestInv, FixedInv
    <3>3. CASE Tokens >= 1 /\ limiter' = Window(Tokens - 1, Age) /\ wait = 0
      <4>1. limiter'.tokens = Tokens - 1 /\ limiter'.age = Age
        BY <3>3, WindowIs
      <4>2. Tokens \in Nat /\ Tokens <= Budget /\ Good(Tokens) = 1 + Good(OneLess(Tokens - 1))
        BY <1>1, <3>3, TokensAre, HalfOf
      <4>3. Room(1 + Good(OneLess(limiter.tokens)))'
        <5>1. CASE Full
          <6>1. Fresh' /\ Tokens = Budget
            BY <1>1, <4>1, <5>1, TokensAre, LimiterIs DEF Fresh
          <6>2. sent <= Good(Budget) \/ Fresh
            BY <3>2, <1>1, <3>1, LimiterIs, HalfOf DEF Room
          <6>3. sent + Good(Budget) <= Budget + 1
            <7>1. CASE instant = 0
              BY <3>1, <3>2, <7>1, HalfOf
            <7>2. CASE instant # 0
              <8>1. ~Fresh
                BY <1>1, <5>1, <7>2, LimiterIs, Limits DEF Full, Fresh
              <8> QED BY <1>1, <3>1, <6>2, <8>1, LimiterIs, HalfOf DEF Good
            <7> QED BY <7>1, <7>2
          <6> QED BY <1>1, <4>1, <4>2, <6>1, <6>3 DEF Room
        <5>2. CASE ~Full
          <6>1. Tokens = limiter.tokens /\ Age = limiter.age
            BY <1>1, <5>2, TokensAre
          <6>2. Fresh' = Fresh
            BY <1>1, <4>1, <6>1 DEF Fresh
          <6> QED BY <1>1, <3>2, <4>1, <4>2, <6>1, <6>2 DEF Room
        <5> QED BY <5>1, <5>2
      <4> QED BY <1>1, <1>3, <3>1, <3>2, <3>3, <4>1, <4>2, <4>3 DEF FixedInv
    <3>4. CASE Tokens < 1 /\ limiter' = limiter /\ wait = Period - limiter.age /\ ~Full
      <4>1. limiter.tokens = 0 /\ limiter.age < Period
        BY <1>1, <3>4, TokensAre
      <4>2. Room(0)'
        <5>1. Room(Good(0))' = Room(Good(0)) /\ Good(0) = 0
          BY <1>1, <3>4 DEF Room, Fresh, Good
        <5> QED BY <3>2, <4>1, <5>1
      <4> QED BY <1>1, <1>3, <3>2, <3>4, <4>1, <4>2, Limits, LimiterIs DEF FixedInv
    <3> QED BY <2>2, <3>1, <3>3, <3>4
  <2> QED BY <1>1, <2>4, <2>5 DEF RestInv
<1> QED BY <1>5, <1>6

(* The worker's fields, updated. *)
LEMMA WorkerUpdated ==
  ASSUME RestShapes, NEW a, NEW b
  PROVE  /\ [worker EXCEPT !.state = a, !.counts = b] =
              [state |-> a, left |-> worker.left, weight |-> worker.weight, counts |-> b]
         /\ [worker EXCEPT !.left = a, !.counts = b] =
              [state |-> worker.state, left |-> a, weight |-> worker.weight, counts |-> b]
<1> DEFINE ws == [worker EXCEPT !.state = a]
           wl == [worker EXCEPT !.left = a]
<1>1. worker = [state |-> worker.state, left |-> worker.left, weight |-> worker.weight,
                counts |-> worker.counts]
  BY DEF RestShapes
<1>2. ws = [state |-> a, left |-> worker.left, weight |-> worker.weight, counts |-> worker.counts]
  BY <1>1
<1>3. wl = [state |-> worker.state, left |-> a, weight |-> worker.weight, counts |-> worker.counts]
  BY <1>1
<1> HIDE DEF ws, wl
<1>4. [ws EXCEPT !.counts = b] =
        [state |-> a, left |-> worker.left, weight |-> worker.weight, counts |-> b]
  BY <1>2
<1>5. [wl EXCEPT !.counts = b] =
        [state |-> worker.state, left |-> a, weight |-> worker.weight, counts |-> b]
  BY <1>3
<1> QED BY <1>4, <1>5 DEF ws, wl

LEMMA WakeUpKeepsInv ==
  ASSUME RestInv, WakeUp
  PROVE  RestInv'
<1>1. /\ worker.state = "sleep" /\ worker.left = 0
      /\ worker' = [worker EXCEPT !.state = "send"]
      /\ UNCHANGED <<instant, queue, limiter, sent>> /\ RestShapes
  BY DEF WakeUp, RestInv
<1>2. /\ worker' \in [state : {"ready", "sleep", "send", "sent"}, left : 0 .. Period,
                      weight : Weights \cup {0}, counts : BOOLEAN]
      /\ worker'.state = "send" /\ worker'.weight = worker.weight
      /\ worker.weight \in Weights /\ queue # <<>>
  BY <1>1 DEF RestShapes
<1>3. RestShapes'
  BY <1>1, <1>2 DEF RestShapes
<1>4. HeaderInv'
  <2> SUFFICES ASSUME limiter.kind = "header" PROVE HeaderInv'
    BY <1>1 DEF HeaderInv
  <2>1. sent > 0 => instant = Period
    BY <1>1, LimiterIs, Limits DEF RestInv, HeaderInv
  <2>2. sent = 0 /\ sent' = 0
    BY <1>1, <2>1, LimiterIs, Limits
  <2> QED BY <1>1, <1>2, <2>2, Limits DEF HeaderInv, Answers
<1>5. FixedInv'
  <2> SUFFICES ASSUME limiter.kind = "fixed" PROVE FixedInv'
    BY <1>1 DEF FixedInv
  <2>1. /\ limiter.tokens = 0 /\ limiter.age >= Period /\ Room(0)
        /\ instant = 0 => sent = 0
    BY <1>1, LimiterIs, Limits DEF RestInv, FixedInv
  <2>2. limiter.age = Period /\ ~Fresh
    BY <1>1, <2>1, LimiterIs, Limits DEF Fresh
  <2>3. Slept(0)
    BY <1>1, <2>1, <2>2, LimiterIs, Limits, HalfOf DEF Slept, Room
  <2>4. Slept(0)' /\ limiter.tokens < Budget
    BY <1>1, <1>2, <2>1, <2>3, Limits DEF Slept
  <2> QED BY <1>1, <1>2, <2>1, <2>4 DEF FixedInv
<1> QED BY <1>3, <1>4, <1>5 DEF RestInv

LEMMA SendOutKeepsInv ==
  ASSUME RestInv, SendOut
  PROVE  RestInv'
<1> DEFINE counts == limiter.kind = "header" \/ instant # 0
<1>1. /\ worker.state = "send" /\ UNCHANGED <<instant, queue, limiter>> /\ RestShapes
      /\ worker' = [worker EXCEPT !.state = "sent", !.counts = counts]
      /\ sent' = IF counts THEN sent + worker.weight ELSE sent
  BY DEF SendOut, RestInv
<1>2. counts \in BOOLEAN
  OBVIOUS
<1>3. counts <=> limiter.kind = "header" \/ instant # 0
  OBVIOUS
<1> HIDE DEF counts
<1>4. worker' = [state |-> "sent", left |-> worker.left, weight |-> worker.weight,
                 counts |-> counts]
  BY <1>1, WorkerUpdated
<1>5. /\ worker.weight \in Weights /\ worker.weight \in Nat /\ worker.weight >= 1
      /\ queue # <<>> /\ worker.left \in 0 .. Period
  BY <1>1, Limits DEF RestShapes
<1>6. /\ worker' \in [state : {"ready", "sleep", "send", "sent"}, left : 0 .. Period,
                      weight : Weights \cup {0}, counts : BOOLEAN]
      /\ worker'.state = "sent" /\ worker'.weight = worker.weight /\ (worker'.counts <=> counts)
  BY <1>2, <1>4, <1>5
<1>7. RestShapes'
  <2>1. sent' \in Nat
    BY <1>1, <1>5 DEF RestShapes
  <2> QED BY <1>1, <1>5, <1>6, <2>1 DEF RestShapes
<1>8. HeaderInv'
  <2> SUFFICES ASSUME limiter.kind = "header" PROVE HeaderInv'
    BY <1>1 DEF HeaderInv
  <2>1. Answers(sent) /\ sent + worker.weight <= Budget
    BY <1>1 DEF RestInv, HeaderInv
  <2>2. sent' = sent + worker.weight /\ sent \in Nat /\ counts
    BY <1>1, <1>3, LimiterIs
  <2>3. sent' - worker'.weight = sent
    BY <1>5, <1>6, <2>2
  <2> QED BY <1>1, <1>5, <1>6, <2>1, <2>2, <2>3, Limits DEF HeaderInv, Answers
<1>9. FixedInv'
  <2> SUFFICES ASSUME limiter.kind = "fixed" PROVE FixedInv'
    BY <1>1 DEF FixedInv
  <2>1. /\ instant = 0 => sent = 0
        /\ Room(1 + Good(OneLess(limiter.tokens))) \/ Slept(0)
    BY <1>1 DEF RestInv, FixedInv
  <2>2. worker.weight = 1 /\ sent \in Nat
    BY <1>1, <1>5 DEF RestShapes
  <2>3. CASE instant = 0
    <3>1. sent' = 0 /\ ~counts
      BY <1>1, <1>3, <2>1, <2>3
    <3> QED BY <1>6, <3>1 DEF FixedInv
  <2>4. CASE instant # 0
    <3>1. sent' = sent + 1 /\ sent' > 0
      BY <1>1, <1>3, <2>2, <2>4
    <3>2. Good(OneLess(limiter.tokens)) \in Nat
      BY <1>1, LimiterIs, HalfOf DEF OneLess
    <3>3. Room(1 + Good(OneLess(limiter.tokens))) => Room(Good(OneLess(limiter.tokens)))'
      BY <1>1, <2>2, <3>1, <3>2 DEF Room, Fresh
    <3>4. Slept(0) => Slept(1)'
      BY <1>1, <2>2, <3>1, Limits, HalfOf DEF Slept
    <3>5. (worker.state = "sent" /\ worker.counts)' /\ (instant # 0)'
      BY <1>1, <1>3, <1>6, <2>4
    <3>6. (Room(Good(OneLess(limiter.tokens))) \/ Slept(1))'
      BY <2>1, <3>3, <3>4
    <3> QED BY <3>1, <3>5, <3>6 DEF FixedInv
  <2> QED BY <2>3, <2>4
<1> QED BY <1>7, <1>8, <1>9 DEF RestInv

LEMMA MaxOfTwo ==
  ASSUME NEW a \in Nat, NEW b \in Nat
  PROVE  Max({a, b}) = IF a >= b THEN a ELSE b
BY DEF Max

LEMMA LesserOfTwo ==
  ASSUME NEW a \in Nat, NEW b \in Nat
  PROVE  Min({a, b}) = IF a <= b THEN a ELSE b
BY DEF Min

LEMMA ReplyIs ==
  ASSUME Reply
  PROVE  /\ worker' = [state |-> "ready", left |-> 0, weight |-> 0, counts |-> FALSE]
         /\ worker'.state = "ready"
BY DEF Reply, Ready

(* An answer the limiter learns from. *)
LEMMA HeardKeepsInv ==
  ASSUME RestInv, UntoldInv, worker.state = "sent", Reply, Heard, UNCHANGED instant, RestNext
  PROVE  RestInv'
<1> DEFINE counted == IF limiter.kind = "header" THEN sent + untold ELSE sent
<1>1. PICK used \in Max({counted, worker.weight}) .. Max({counted, Budget}) :
        limiter' = Learned(limiter, worker.weight, used)
  BY DEF Heard
<1>8. counted \in Nat
  BY LimiterIs DEF RestInv, UntoldInv
<1>9. sent' = counted /\ (limiter.kind = "fixed" => counted = sent)
  BY DEF Heard
<1> HIDE DEF counted
<1>2. /\ worker.state = "sent" /\ Reply /\ UNCHANGED instant /\ RestShapes
      /\ worker'.state = "ready"
      /\ worker' = [state |-> "ready", left |-> 0, weight |-> 0, counts |-> FALSE]
  BY ReplyIs DEF RestInv
<1>3. worker.weight \in Weights /\ worker.weight \in Nat
  BY <1>2, Limits DEF RestShapes
<1>4. used \in Nat /\ used >= sent'
  BY <1>1, <1>3, <1>8, <1>9, MaxOfTwo, Limits
<1>5. /\ queue' \in Seq(Commands)
      /\ worker' \in [state : {"ready", "sleep", "send", "sent"}, left : 0 .. Period,
                      weight : Weights \cup {0}, counts : BOOLEAN]
  BY <1>2, QueueStep, Limits
<1>6. CASE limiter.kind = "header"
  <2> DEFINE l1 == [limiter EXCEPT !.used = used]
  <2>1. limiter = [kind |-> "header", tokens |-> limiter.tokens, age |-> limiter.age,
                   used |-> limiter.used, usedAge |-> limiter.usedAge]
    BY <1>2, <1>6, LimiterIs DEF Window
  <2>2. l1 = [kind |-> "header", tokens |-> limiter.tokens, age |-> limiter.age,
              used |-> used, usedAge |-> limiter.usedAge]
    BY <2>1
  <2>3. limiter' = [l1 EXCEPT !.usedAge = 0]
    BY <1>1, <1>6 DEF Learned
  <2> HIDE DEF l1
  <2>4. limiter' = [kind |-> "header", tokens |-> limiter.tokens, age |-> limiter.age,
                    used |-> used, usedAge |-> 0]
    BY <2>2, <2>3
  <2>5. limiter'.kind = "header" /\ limiter'.used = used /\ limiter'.usedAge = 0
    BY <2>4
  <2>6. limiter' \in [kind : {"fixed", "header"}, tokens : 0 .. Budget, age : 0 .. Period,
                      used : Nat, usedAge : 0 .. Period + 1]
    BY <1>2, <1>4, <2>4, LimiterIs, Limits
  <2>7. RestShapes'
    BY <1>2, <1>5, <1>8, <1>9, <2>5, <2>6 DEF RestShapes
  <2>8. HeaderInv'
    BY <1>2, <1>4, <2>5, LimiterIs DEF HeaderInv, Answers
  <2>9. FixedInv'
    BY <2>5 DEF FixedInv
  <2> QED BY <2>7, <2>8, <2>9 DEF RestInv
<1>7. CASE limiter.kind = "fixed"
  <2>1. worker.weight = 1 /\ Budget >= 1 /\ Budget \in Nat
    BY <1>2, <1>3, <1>7, Limits DEF RestShapes
  <2>2. limiter' = Window(OneLess(Tokens), Age)
    BY <1>1, <1>2, <1>7, <2>1, FixedLearnedIs
  <2>3. OneLess(Tokens) \in 0 .. Budget /\ Age \in 0 .. Period
    BY <1>2, TokensAre, Limits DEF OneLess
  <2>4. /\ limiter'.tokens = OneLess(Tokens) /\ limiter'.age = Age /\ limiter'.kind = "fixed"
        /\ limiter' \in [kind : {"fixed", "header"}, tokens : 0 .. Budget, age : 0 .. Period,
                         used : Nat, usedAge : 0 .. Period + 1]
    BY <1>2, <1>7, <2>2, <2>3, WindowIs, WindowIsLimiter
  <2>0. sent' = sent
    BY <1>7, <1>9
  <2>5. RestShapes'
    BY <1>2, <1>5, <1>7, <2>0, <2>4 DEF RestShapes
  <2>6. HeaderInv'
    BY <2>4 DEF HeaderInv
  <2> DEFINE left == Good(OneLess(Tokens))
  <2>7. left \in Nat /\ left <= Budget /\ left <= Good(Budget) /\ Good(Budget) \in Nat
    BY <2>1, <2>3, HalfOf, GoodIsMonotonic
  <2>8. Fresh' <=> Age <= instant
    BY <1>2, <2>4 DEF Fresh
  <2>9. sent + left <= IF Age <= instant THEN Budget + 1 ELSE Good(Budget)
    <3>1. CASE ~worker.counts
      <4>1. sent = 0
        BY <1>2, <1>7, <3>1 DEF RestInv, FixedInv
      <4> HIDE DEF left
      <4> QED BY <2>1, <2>7, <4>1
    <3>2. CASE worker.counts
      <4>1. /\ sent > 0 /\ instant # 0
            /\ Room(Good(OneLess(limiter.tokens))) \/ Slept(1)
        BY <1>2, <1>7, <3>2 DEF RestInv, FixedInv
      <4>2. CASE Full
        <5>1. Tokens = Budget /\ Age = 0 /\ limiter.age = Period /\ ~Fresh
          BY <1>2, <4>1, <4>2, TokensAre, LimiterIs, Limits DEF Full, Fresh
        <5>2. Good(OneLess(limiter.tokens)) \in Nat
          BY <1>2, LimiterIs, HalfOf DEF OneLess
        <5>3. sent <= Good(Budget) + 1
          BY <1>2, <2>7, <4>1, <5>1, <5>2, LimiterIs DEF Room, Slept
        <5>4. left + Good(Budget) = Budget
          <6>1. Budget - 1 \in Nat /\ OneLess(Tokens) = Budget - 1
            BY <2>1, <5>1 DEF OneLess
          <6> QED BY <2>1, <6>1 DEF Good
        <5> HIDE DEF left
        <5> QED BY <1>2, <2>1, <2>7, <5>1, <5>3, <5>4, LimiterIs
      <4>3. CASE ~Full
        <5>1. Tokens = limiter.tokens /\ Age = limiter.age /\ limiter.age < Period
          BY <1>2, <4>3, TokensAre
        <5>2. ~Slept(1)
          BY <1>2, <5>1, LimiterIs, Limits DEF Slept
        <5> QED BY <4>1, <5>1, <5>2 DEF Room, Fresh
      <4> QED BY <4>2, <4>3
    <3> QED BY <3>1, <3>2
  <2>10. Room(Good(limiter.tokens))'
    <3>1. Good(limiter'.tokens) = left
      BY <2>4
    <3> HIDE DEF left
    <3> QED BY <1>2, <2>0, <2>8, <2>9, <3>1 DEF Room
  <2>11. instant = 0 => sent = 0
    BY <1>7 DEF RestInv, FixedInv
  <2>12. FixedInv'
    BY <1>2, <2>0, <2>10, <2>11 DEF FixedInv
  <2> QED BY <2>5, <2>6, <2>12 DEF RestInv
<1> QED BY <1>2, <1>6, <1>7, LimiterIs

(* An answer the limiter learns nothing from, or none. *)
LEMMA UnheardKeepsInv ==
  ASSUME RestInv, worker.state = "sent", Reply, Unheard, UNCHANGED instant, RestNext
  PROVE  RestInv'
<1>1. /\ worker.state = "sent" /\ Reply /\ UNCHANGED <<instant, limiter>> /\ RestShapes
      /\ sent' = IF worker.counts THEN sent - worker.weight ELSE sent
      /\ worker' = [state |-> "ready", left |-> 0, weight |-> 0, counts |-> FALSE]
      /\ worker'.state = "ready"
  BY ReplyIs DEF Unheard, RestInv
<1>2. worker.weight \in Weights /\ worker.weight \in Nat /\ sent \in Nat
  BY <1>1, Limits DEF RestShapes
<1>3. limiter.kind = "header" => Answers(sent')
  <2> SUFFICES ASSUME limiter.kind = "header" PROVE Answers(sent')
    OBVIOUS
  <2>1. CASE worker.counts
    BY <1>1, <2>1 DEF RestInv, HeaderInv
  <2>2. CASE ~worker.counts
    <3>1. sent' = 0
      BY <1>1, <2>2 DEF RestInv, HeaderInv
    <3> QED BY <3>1, Limits DEF Answers
  <2> QED BY <2>1, <2>2
<1>4. limiter.kind = "fixed" => (instant = 0 => sent' = 0) /\ Room(Good(limiter.tokens))'
  <2> SUFFICES ASSUME limiter.kind = "fixed"
               PROVE  (instant = 0 => sent' = 0) /\ Room(Good(limiter.tokens))'
    OBVIOUS
  <2> DEFINE good == Good(limiter.tokens)
             less == Good(OneLess(limiter.tokens))
  <2>1. /\ good \in Nat /\ less \in Nat /\ good <= 1 + less
        /\ good <= Good(Budget) /\ Good(Budget) \in Nat /\ Good(Budget) <= Budget
        /\ limiter.tokens = 0 => good = 0
    <3>1. OneLess(limiter.tokens) \in Nat /\ Good(0) = 0
      BY <1>1, LimiterIs DEF OneLess, Good
    <3> QED BY <1>1, <3>1, LimiterIs, Limits, HalfOf, GoodIsMonotonic
  <2>2. worker.weight = 1
    BY <1>1, <1>2 DEF RestShapes
  <2>3. good' = good
    BY <1>1
  <2>4. CASE worker.counts
    <3>1. /\ sent > 0 /\ (Room(less) \/ Slept(1))
          /\ instant = 0 => sent = 0
      BY <1>1, <2>4 DEF RestInv, FixedInv
    <3>2. sent' = sent - 1 /\ instant # 0
      <4>1. instant # 0
        BY <1>2, <3>1
      <4>2. sent' = sent - worker.weight
        BY <1>1, <2>4
      <4> QED BY <2>2, <4>1, <4>2
    <3> HIDE DEF good, less
    <3>3. sent' + good <= IF Fresh THEN Budget + 1 ELSE Good(Budget)
      <4>1. CASE Room(less)
        BY <1>2, <2>1, <3>2, <4>1, Limits DEF Room
      <4>2. CASE Slept(1)
        <5>1. ~Fresh /\ good = 0
          BY <1>1, <2>1, <4>2, LimiterIs DEF Slept, Fresh
        <5> QED BY <1>2, <2>1, <3>2, <4>2, <5>1 DEF Slept
      <4> QED BY <3>1, <4>1, <4>2
    <3>4. Room(good)' 
      BY <1>1, <2>3, <3>3 DEF Room, Fresh
    <3> QED BY <3>2, <3>4 DEF good
  <2>5. CASE ~worker.counts
    <3>1. sent' = 0
      BY <1>1, <2>5 DEF RestInv, FixedInv
    <3> HIDE DEF good, less
    <3>2. Room(good)'
      BY <1>1, <2>1, <2>3, <3>1, Limits DEF Room, Fresh
    <3> QED BY <3>1, <3>2 DEF good
  <2> QED BY <2>4, <2>5
<1>5. RestShapes'
  <2>1. sent' \in Nat
    <3>1. worker.counts => sent >= worker.weight
      <4>1. CASE limiter.kind = "header"
        BY <1>1, <4>1 DEF RestInv, HeaderInv
      <4>2. CASE limiter.kind = "fixed"
        <5>1. worker.weight = 1
          BY <1>1, <1>2, <4>2 DEF RestShapes
        <5> QED BY <1>1, <1>2, <4>2, <5>1 DEF RestInv, FixedInv
      <4> QED BY <1>1, <4>1, <4>2, LimiterIs
    <3> QED BY <1>1, <1>2, <3>1
  <2>2. queue' \in Seq(Commands)
    BY <1>1, QueueStep
  <2>3. worker' \in [state : {"ready", "sleep", "send", "sent"}, left : 0 .. Period,
                     weight : Weights \cup {0}, counts : BOOLEAN]
    BY <1>1, Limits
  <2> QED BY <1>1, <2>1, <2>2, <2>3 DEF RestShapes
<1>6. HeaderInv'
  BY <1>1, <1>3 DEF HeaderInv, Answers
<1>7. FixedInv'
  BY <1>1, <1>4 DEF FixedInv
<1> QED BY <1>5, <1>6, <1>7 DEF RestInv

(* What is not told of stays within its bound. *)
LEMMA UntoldStaysBounded ==
  ASSUME RestInv, UntoldInv, [RestNext]_restVars
  PROVE  UntoldInv'
<1>1. /\ sent \in Nat /\ MaxUntold \in Nat /\ untold \in 0 .. MaxUntold
  BY RestAssumption DEF RestInv, RestShapes, UntoldInv
<1>2. CASE UNCHANGED untold
  BY <1>1, <1>2 DEF UntoldInv
<1>3. CASE Heard
  BY <1>1, <1>3 DEF Heard, UntoldInv
<1>4. CASE worker.state = "sent" /\ Unheard
  <2>1. worker.weight \in Weights
    BY <1>4 DEF RestInv, RestShapes
  <2>2. worker.weight \in Nat
    BY <2>1, Limits
  <2> QED BY <1>1, <1>4, <2>2 DEF Unheard, UntoldInv
<1>5. CASE SecondTicks
  BY <1>1, <1>5 DEF SecondTicks, UntoldInv
<1> QED BY <1>2, <1>3, <1>4, <1>5
        DEF RestNext, restVars, WorkerRuns, Prepare, WakeUp, SendOut, Answered, RequestFails,
            Request, GiveUp

(* A second: within a period, or into the next. *)
LEMMA RemainderIs ==
  ASSUME NEW n \in Nat, NEW p \in Nat, n < p
  PROVE  (n + 1) % p = IF n + 1 < p THEN n + 1 ELSE 0
<1>1. CASE n + 1 < p
  BY <1>1
<1>2. CASE n + 1 = p
  BY <1>2
<1> QED BY <1>1, <1>2

LEMMA TickIs ==
  ASSUME RestShapes, SecondTicks
  PROVE  /\ instant' = IF instant + 1 < Period THEN instant + 1 ELSE 0
         /\ sent' = IF instant + 1 < Period THEN sent ELSE 0
         /\ queue' = queue
         /\ worker'.state = worker.state /\ worker'.weight = worker.weight
         /\ worker'.left = IF worker.left > 0 THEN worker.left - 1 ELSE 0
         /\ worker'.counts <=> worker.counts /\ instant + 1 < Period
         /\ limiter'.kind = limiter.kind /\ limiter'.tokens = limiter.tokens
         /\ limiter'.used = limiter.used
         /\ limiter'.age = IF limiter.age < Period THEN limiter.age + 1 ELSE Period
         /\ limiter'.usedAge = IF limiter.usedAge <= Period THEN limiter.usedAge + 1
                               ELSE Period + 1
         /\ RestShapes'
<1>1. instant' = IF instant + 1 < Period THEN instant + 1 ELSE 0
  <2>1. instant' = (instant + 1) % Period
    BY DEF SecondTicks
  <2> QED BY <2>1, LimiterIs, Limits, RemainderIs
<1>2. instant' = 0 <=> ~(instant + 1 < Period)
  BY <1>1, LimiterIs, Limits
<1>3. queue' = queue /\ sent' = IF instant + 1 < Period THEN sent ELSE 0
  BY <1>2 DEF SecondTicks
<1> DEFINE left == IF worker.left > 0 THEN worker.left - 1 ELSE 0
           counts == worker.counts /\ instant + 1 < Period
<1>4. worker' = [state |-> worker.state, left |-> left, weight |-> worker.weight,
                 counts |-> counts]
  <2> DEFINE w1 == [worker EXCEPT !.left = left]
  <2>1. w1 = [state |-> worker.state, left |-> left, weight |-> worker.weight,
              counts |-> worker.counts]
    BY DEF RestShapes
  <2>2. worker' = [w1 EXCEPT !.counts = counts]
    BY <1>2, <2>1 DEF SecondTicks
  <2> HIDE DEF w1, left, counts
  <2> QED BY <2>1, <2>2
<1> DEFINE age == IF limiter.age < Period THEN limiter.age + 1 ELSE Period
           usedAge == IF limiter.usedAge <= Period THEN limiter.usedAge + 1 ELSE Period + 1
<1>5. limiter' = [kind |-> limiter.kind, tokens |-> limiter.tokens, age |-> age,
                  used |-> limiter.used, usedAge |-> usedAge]
  <2> DEFINE l1 == [limiter EXCEPT !.age = age]
  <2>1. limiter = [kind |-> limiter.kind, tokens |-> limiter.tokens, age |-> limiter.age,
                   used |-> limiter.used, usedAge |-> limiter.usedAge]
    BY LimiterIs DEF Window
  <2>2. l1 = [kind |-> limiter.kind, tokens |-> limiter.tokens, age |-> age,
              used |-> limiter.used, usedAge |-> limiter.usedAge]
    BY <2>1
  <2>3. Min({Period, limiter.age + 1}) = age
    <3>1. limiter.age \in Nat /\ limiter.age + 1 \in Nat /\ Period \in Nat /\ limiter.age <= Period
      BY LimiterIs, Limits
    <3> QED BY <3>1, LesserOfTwo
  <2>4. Min({Period + 1, limiter.usedAge + 1}) = usedAge
    <3>1. /\ limiter.usedAge \in Nat /\ limiter.usedAge + 1 \in Nat /\ Period + 1 \in Nat
          /\ limiter.usedAge <= Period + 1 /\ Period \in Nat
      BY LimiterIs, Limits
    <3> QED BY <3>1, LesserOfTwo
  <2>5. limiter' = [l1 EXCEPT !.usedAge = usedAge]
    BY <2>2, <2>3, <2>4 DEF SecondTicks
  <2> HIDE DEF l1, age, usedAge
  <2> QED BY <2>2, <2>5
<1>6. /\ left \in 0 .. Period /\ counts \in BOOLEAN
      /\ age \in 0 .. Period /\ usedAge \in 0 .. Period + 1
  BY LimiterIs, Limits
<1> HIDE DEF left, counts, age, usedAge
<1>7. /\ worker' \in [state : {"ready", "sleep", "send", "sent"}, left : 0 .. Period,
                      weight : Weights \cup {0}, counts : BOOLEAN]
      /\ worker'.state = worker.state /\ worker'.weight = worker.weight
      /\ worker'.left = left /\ worker'.counts = counts
  BY <1>4, <1>6 DEF RestShapes
<1>8. /\ limiter' \in [kind : {"fixed", "header"}, tokens : 0 .. Budget, age : 0 .. Period,
                       used : Nat, usedAge : 0 .. Period + 1]
      /\ limiter'.kind = limiter.kind /\ limiter'.tokens = limiter.tokens
      /\ limiter'.used = limiter.used /\ limiter'.age = age /\ limiter'.usedAge = usedAge
  BY <1>5, <1>6 DEF RestShapes
<1>9. instant' \in 0 .. Period - 1 /\ sent' \in Nat
  BY <1>1, <1>3, LimiterIs, Limits
<1>10. RestShapes'
  BY <1>3, <1>7, <1>8, <1>9 DEF RestShapes
<1> QED BY <1>1, <1>3, <1>7, <1>8, <1>10 DEF left, counts, age, usedAge

LEMMA SecondTicksKeepsHeader ==
  ASSUME RestInv, SecondTicks
  PROVE  HeaderInv'
<1> SUFFICES ASSUME limiter.kind = "header" PROVE HeaderInv'
  <2>1. limiter'.kind = limiter.kind
    BY TickIs DEF RestInv
  <2> QED BY <2>1 DEF HeaderInv
<1>1. RestShapes
  BY DEF RestInv
<1>2. worker.state # "ready" => worker.weight \in Nat /\ worker.weight <= Budget
  BY <1>1, Limits DEF RestShapes
<1>3. CASE instant + 1 < Period
  <2>1. sent' = sent /\ instant' = instant + 1 /\ (worker'.counts <=> worker.counts)
    BY <1>1, <1>3, TickIs
  <2>2. ASSUME NEW n, Answers(n) PROVE n > 0 => limiter'.used >= n /\ limiter'.usedAge <= instant'
    BY <1>1, <1>3, <2>1, <2>2, TickIs, LimiterIs, Limits DEF Answers
  <2>3. worker.counts => sent <= Budget
    BY DEF RestInv, HeaderInv
  <2>4. CASE worker.state = "sleep"
    <3>1. sent > 0 => worker.left + instant = Period
      BY <2>4 DEF RestInv, HeaderInv
    <3>2. sent' > 0 => worker'.left + instant' = Period
      BY <1>1, <1>3, <2>1, <3>1, TickIs, LimiterIs, Limits
    <3>3. Answers(sent)
      BY <2>4 DEF RestInv, HeaderInv
    <3>4. sent' > 0 => limiter'.used >= sent' /\ limiter'.usedAge <= instant'
      BY <2>1, <2>2, <3>3
    <3>5. worker'.state = "sleep"
      BY <1>1, <2>4, TickIs
    <3> QED BY <2>1, <2>3, <3>2, <3>4, <3>5 DEF HeaderInv, Answers
  <2>5. CASE worker.state = "ready" \/ worker.state = "send"
    <3>1. Answers(sent) /\ (worker.state = "send" => sent + worker.weight <= Budget)
      BY <2>5 DEF RestInv, HeaderInv
    <3>2. sent' > 0 => limiter'.used >= sent' /\ limiter'.usedAge <= instant'
      BY <2>1, <2>2, <3>1
    <3>3. worker'.state = worker.state /\ worker'.weight = worker.weight
      BY <1>1, TickIs
    <3> QED BY <2>1, <2>5, <2>3, <3>1, <3>2, <3>3 DEF HeaderInv, Answers
  <2>6. CASE worker.state = "sent"
    <3>1. /\ worker.counts => sent >= worker.weight /\ Answers(sent - worker.weight)
          /\ ~worker.counts => sent = 0
      BY <2>6 DEF RestInv, HeaderInv
    <3>2. worker.counts => (sent - worker.weight > 0 =>
             limiter'.used >= sent - worker.weight /\ limiter'.usedAge <= instant')
      BY <2>2, <3>1
    <3>3. worker'.state = worker.state /\ worker'.weight = worker.weight
      BY <1>1, TickIs
    <3> QED BY <2>1, <2>6, <2>3, <3>1, <3>2, <3>3 DEF HeaderInv, Answers
  <2> QED BY <1>1, <2>4, <2>5, <2>6 DEF RestShapes
<1>4. CASE ~(instant + 1 < Period)
  <2>1. sent' = 0 /\ ~worker'.counts
    BY <1>1, <1>4, TickIs
  <2>2. worker'.state = worker.state /\ worker'.weight = worker.weight
    BY <1>1, TickIs
  <2> QED BY <1>2, <2>1, <2>2, Limits DEF HeaderInv, Answers
<1> QED BY <1>3, <1>4

LEMMA SecondTicksKeepsFixed ==
  ASSUME RestInv, SecondTicks
  PROVE  FixedInv'
<1>1. RestShapes
  BY DEF RestInv
<1> SUFFICES ASSUME limiter.kind = "fixed" PROVE FixedInv'
  BY <1>1, TickIs DEF FixedInv
<1> DEFINE good == Good(limiter.tokens)
           less == Good(OneLess(limiter.tokens))
<1>2. /\ good \in Nat /\ less \in Nat /\ good <= Good(Budget)
      /\ Good(Budget) \in Nat /\ Good(Budget) <= Budget
      /\ limiter.tokens < Budget => 1 + less <= Good(Budget)
  <2>1. OneLess(limiter.tokens) \in Nat
    BY <1>1, LimiterIs DEF OneLess
  <2>2. /\ good \in Nat /\ less \in Nat /\ good <= Good(Budget)
        /\ Good(Budget) \in Nat /\ Good(Budget) <= Budget
    <3>1. limiter.tokens \in Nat /\ Budget \in Nat /\ limiter.tokens <= Budget
      BY <1>1, LimiterIs, Limits
    <3> QED BY <2>1, <3>1, HalfOf, GoodIsMonotonic
  <2>3. ASSUME limiter.tokens < Budget PROVE 1 + less <= Good(Budget)
    <3>1. /\ OneLess(Budget - 1) \in Nat /\ OneLess(limiter.tokens) <= OneLess(Budget - 1)
          /\ Budget > 0 /\ Budget \in Nat
      BY <1>1, <2>3, LimiterIs, Limits DEF OneLess
    <3>2. Good(Budget) = 1 + Good(OneLess(Budget - 1))
      BY <3>1, HalfOf
    <3>3. less <= Good(OneLess(Budget - 1)) /\ Good(OneLess(Budget - 1)) \in Nat
      BY <2>1, <3>1, GoodIsMonotonic, HalfOf
    <3> HIDE DEF less
    <3> QED BY <2>2, <3>2, <3>3
  <2> QED BY <2>2, <2>3
<1>3. good' = good /\ less' = less
  BY <1>1, TickIs
<1>4. /\ worker'.state = worker.state /\ limiter'.tokens = limiter.tokens
      /\ worker'.left + limiter'.age >= Period \/ ~(worker.left + limiter.age >= Period)
  BY <1>1, TickIs, LimiterIs, Limits
<1> HIDE DEF good, less
<1>5. CASE instant + 1 < Period
  <2>1. /\ sent' = sent /\ instant' # 0 /\ (worker'.counts <=> worker.counts)
        /\ Fresh' <=> Fresh
        /\ limiter.age = Period => limiter'.age = Period
    <3>1. limiter'.age <= instant' <=> limiter.age <= instant
      BY <1>1, <1>5, TickIs, LimiterIs, Limits
    <3> QED BY <1>1, <1>5, <3>1, TickIs, LimiterIs, Limits DEF Fresh
  <2>2. ASSUME NEW n, Room(n)
        PROVE  sent' + n <= IF Fresh' THEN Budget + 1 ELSE Good(Budget)
    BY <2>1, <2>2 DEF Room
  <2>3. CASE worker.state = "ready"
    <3>1. Room(good)
      BY <2>3 DEF RestInv, FixedInv, good
    <3>2. Room(good)'
      BY <1>3, <2>2, <3>1 DEF Room
    <3> QED BY <1>4, <2>1, <2>3, <3>2 DEF FixedInv, good
  <2>4. CASE worker.state = "sleep"
    <3>1. limiter.tokens = 0 /\ worker.left + limiter.age >= Period /\ Room(0)
      BY <2>4 DEF RestInv, FixedInv
    <3>2. Room(0)'
      BY <2>1, <3>1 DEF Room
    <3> QED BY <1>4, <2>1, <2>4, <3>1, <3>2 DEF FixedInv
  <2>5. CASE worker.state = "send"
    <3>1. limiter.tokens < Budget /\ (Room(1 + less) \/ Slept(0))
      BY <2>5 DEF RestInv, FixedInv, less
    <3>2. Room(1 + less) => Room(1 + less)'
      BY <1>3, <2>1 DEF Room
    <3>3. Slept(0) => Slept(0)'
      BY <1>4, <2>1 DEF Slept
    <3> QED BY <1>4, <2>1, <2>5, <3>1, <3>2, <3>3 DEF FixedInv, less
  <2>6. CASE worker.state = "sent"
    <3>1. /\ worker.counts => sent > 0 /\ (Room(less) \/ Slept(1))
          /\ ~worker.counts => sent = 0
      BY <2>6 DEF RestInv, FixedInv, less
    <3>2. Room(less) => Room(less)'
      BY <1>3, <2>1 DEF Room
    <3>3. Slept(1) => Slept(1)'
      BY <1>4, <2>1 DEF Slept
    <3>4. /\ worker'.counts => sent' > 0 /\ (Room(less)' \/ Slept(1)')
          /\ ~worker'.counts => sent' = 0
      BY <2>1, <3>1, <3>2, <3>3
    <3> QED BY <1>4, <2>1, <2>6, <3>4 DEF FixedInv, less
  <2> QED BY <1>1, <2>3, <2>4, <2>5, <2>6 DEF RestShapes
<1>6. CASE ~(instant + 1 < Period)
  <2>1. sent' = 0 /\ ~worker'.counts
    BY <1>1, <1>6, TickIs
  <2>2. ASSUME NEW n \in Nat, n <= Good(Budget)
        PROVE  sent' + n <= IF Fresh' THEN Budget + 1 ELSE Good(Budget)
    BY <1>2, <2>1, <2>2, Limits
  <2>3. Room(good)'
    BY <1>2, <1>3, <2>2 DEF Room
  <2>4. Room(0)'
    BY <1>2, <2>1, Limits DEF Room
  <2>5. limiter.tokens < Budget => Room(1 + less)'
    <3>1. 1 + less \in Nat
      BY <1>2
    <3> QED BY <1>2, <1>3, <2>2, <3>1 DEF Room
  <2>6. /\ worker.state = "send" => limiter.tokens < Budget
        /\ worker.state = "sleep" => limiter.tokens = 0 /\ worker.left + limiter.age >= Period
    BY DEF RestInv, FixedInv
  <2> QED BY <1>4, <2>1, <2>3, <2>4, <2>5, <2>6 DEF FixedInv, good, less
<1> QED BY <1>5, <1>6

(* Only the queue changes, and stays the worker's. *)
LEMMA CallersKeepInv ==
  ASSUME RestInv, NEW c \in Callers, Request(c) \/ GiveUp(c)
  PROVE  RestInv'
<1>1. UNCHANGED <<instant, worker, limiter, sent>> /\ RestShapes
  BY DEF Request, GiveUp, RestInv
<1>2. queue' \in Seq(Commands) /\ queue' # <<>>
  BY <1>1, CallersKeepQueue
<1>3. RestShapes'
  BY <1>1, <1>2 DEF RestShapes
<1>4. HeaderInv' /\ FixedInv'
  BY <1>1 DEF RestInv, HeaderInv, Answers, FixedInv, Room, Fresh, Slept
<1> QED BY <1>3, <1>4 DEF RestInv

LEMMA RestInvIsInductive ==
  RestInv /\ UntoldInv /\ [RestNext]_restVars => RestInv' /\ UntoldInv'
<1> SUFFICES ASSUME RestInv, UntoldInv, [RestNext]_restVars PROVE RestInv'
  BY UntoldStaysBounded
<1>1. CASE RestNext
  <2>1. CASE Prepare
    BY <1>1, <2>1, PrepareKeepsInv
  <2>2. CASE WakeUp
    BY <2>2, WakeUpKeepsInv
  <2>3. CASE SendOut
    BY <2>3, SendOutKeepsInv
  <2>4. CASE Answered
    BY <1>1, <2>4, HeardKeepsInv, UnheardKeepsInv DEF Answered
  <2>5. CASE RequestFails
    BY <1>1, <2>5, UnheardKeepsInv DEF RequestFails
  <2>6. CASE SecondTicks
    <3>1. RestShapes'
      BY <2>6, TickIs DEF RestInv
    <3> QED BY <2>6, <3>1, SecondTicksKeepsHeader, SecondTicksKeepsFixed DEF RestInv
  <2>7. CASE \E c \in Callers : Request(c) \/ GiveUp(c)
    BY <2>7, CallersKeepInv
  <2> QED BY <1>1, <2>1, <2>2, <2>3, <2>4, <2>5, <2>6, <2>7 DEF RestNext, WorkerRuns
<1>2. CASE UNCHANGED restVars
  <2>1. UNCHANGED <<instant, queue, worker, limiter, sent>>
    BY <1>2 DEF restVars
  <2> QED BY <2>1 DEF RestInv, RestShapes, HeaderInv, Answers, FixedInv, Room, Fresh, Slept
<1> QED BY <1>1, <1>2

LEMMA RestInvBoundsSent == RestInv => RequestsStayWithinBudget
<1> SUFFICES ASSUME RestInv PROVE RequestsStayWithinBudget
  OBVIOUS
<1>1. /\ RestShapes /\ Budget \in Nat /\ sent \in Nat
      /\ limiter.tokens \in Nat /\ Good(Budget) \in Nat /\ Good(Budget) <= Budget
      /\ Good(limiter.tokens) \in Nat /\ Good(OneLess(limiter.tokens)) \in Nat
  <2>1. RestShapes /\ limiter.tokens \in Nat /\ OneLess(limiter.tokens) \in Nat
    BY LimiterIs DEF RestInv, OneLess
  <2> QED BY <2>1, LimiterIs, Limits, HalfOf
<1>2. CASE limiter.kind = "header"
  BY <1>2 DEF RestInv, HeaderInv, RequestsStayWithinBudget
<1>3. CASE limiter.kind = "fixed"
  <2>1. Max(Weights) = 1
    <3>1. Weights = {1, 1}
      BY <1>1, <1>3 DEF RestShapes
    <3> QED BY <3>1, MaxOfTwo
  <2>2. ASSUME NEW n \in Nat, Room(n) PROVE sent <= Budget + 1
    BY <1>1, <2>2 DEF Room
  <2>3. ASSUME Slept(0) \/ Slept(1) PROVE sent <= Budget + 1
    BY <1>1, <2>3 DEF Slept
  <2>4. sent <= Budget + 1
    <3>1. CASE worker.state = "ready"
      BY <1>1, <1>3, <2>2, <3>1 DEF RestInv, FixedInv
    <3>2. CASE worker.state = "sleep"
      BY <1>3, <2>2, <3>2 DEF RestInv, FixedInv
    <3>3. CASE worker.state = "send"
      <4>1. 1 + Good(OneLess(limiter.tokens)) \in Nat
        BY <1>1
      <4> QED BY <1>3, <2>2, <2>3, <3>3, <4>1 DEF RestInv, FixedInv
    <3>4. CASE worker.state = "sent"
      <4>1. CASE worker.counts
        BY <1>1, <1>3, <2>2, <2>3, <3>4, <4>1 DEF RestInv, FixedInv
      <4>2. CASE ~worker.counts
        <5>1. sent = 0
          BY <1>3, <3>4, <4>2 DEF RestInv, FixedInv
        <5> QED BY <1>1, <5>1
      <4> QED BY <4>1, <4>2
    <3> QED BY <1>1, <3>1, <3>2, <3>3, <3>4 DEF RestShapes
  <2> QED BY <1>3, <2>1, <2>4 DEF RequestsStayWithinBudget
<1> QED BY <1>1, <1>2, <1>3, LimiterIs

(* However the callers, the exchange and the clock interleave, and whatever comes back without *)
(* the header: with it no request goes out beyond the limit of a period, as far as the         *)
(* exchange has told; with a fixed window at most one more (in `sent`, which leaves out what    *)
(* the source lets through in a period's first second, and what fails).                        *)
THEOREM BudgetKept == RestSpec => []RequestsStayWithinBudget
<1>1. RestInit => RestInv /\ UntoldInv
  BY RestInvInitially, RestAssumption DEF RestInit, UntoldInv
<1>2. RestInv /\ UntoldInv /\ [RestNext]_restVars => RestInv' /\ UntoldInv'
  BY RestInvIsInductive
<1>3. RestInv => RequestsStayWithinBudget
  BY RestInvBoundsSent
<1> QED BY <1>1, <1>2, <1>3, PTL DEF RestSpec

(* The clock stays in its period, and neither the tokens of a window nor the ages of what the *)
(* limiter knows leave their ranges, however answers and seconds interleave.                  *)
THEOREM RestTypeCorrect == RestSpec => []RestTypeOK
<1>1. RestInv /\ UntoldInv => RestTypeOK
  <2> SUFFICES ASSUME RestInv, UntoldInv PROVE RestTypeOK
    OBVIOUS
  <2>1. \A i \in DOMAIN queue : queue[i] \in Commands
    BY DEF RestInv, RestShapes
  <2> QED BY <2>1 DEF RestInv, RestShapes, RestTypeOK, Commands, UntoldInv
<1>2. RestInit => RestInv /\ UntoldInv
  BY RestInvInitially, RestAssumption DEF RestInit, UntoldInv
<1>3. RestInv /\ UntoldInv /\ [RestNext]_restVars => RestInv' /\ UntoldInv'
  BY RestInvIsInductive
<1> QED BY <1>1, <1>2, <1>3, PTL DEF RestSpec
================================================================================
