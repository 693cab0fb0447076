------------------------------- MODULE RestWorker -------------------------------
(***************************************************************************)
(* The REST worker of a venue: the command queue (RequestPort,             *)
(* spawn_fetch_worker), the request with the limiter around it             *)
(* (exchange/src/adapter/http.rs), and the two limiters                    *)
(* (exchange/src/adapter/limiter.rs).                                      *)
(*                                                                         *)
(* Abstractions.  Time is in seconds, as positions in the aligned period   *)
(* of the limiter and as ages; the exchange counts in the same periods.    *)
(* A command is one request to one market.  What an answer holds is left   *)
(* out: only whether it has a usable header, and whether the exchange has  *)
(* counted the request.                                                    *)
(***************************************************************************)
EXTENDS Naturals, Sequences, FiniteSetsExt, SequencesExt

CONSTANTS Callers,    \* the tasks that fetch
          Period,     \* refill_rate, in seconds
          Budget,     \* the effective limit
          Weights,    \* of requests
          QueueCap,   \* COMMAND_BUFFER_CAPACITY
          MaxUntold   \* bound on the weight that is counted but not told of

ASSUME RestAssumption ==
    /\ {Period, Budget, QueueCap, MaxUntold} \subseteq Nat
    /\ Period > 0
    /\ Weights \subseteq 1..Budget

VARIABLES
    instant,   \* the second of the period
    queue,     \* commands, [caller, weight, gone]; those behind QueueCap wait to be sent
    worker,    \* the worker and its command
    limiter,   \* the limiter of its market
    sent,      \* weight sent in this period that is out or was told of; see SendOut
    untold     \* weight the exchange has counted in this period, and has not told of

restVars == <<instant, queue, worker, limiter, sent, untold>>

\* `tokens` and `age` are the fixed window (on its own, or as the fallback), `used` and
\* `usedAge` what the header said last, and how long ago.
NewLimiter(kind) ==
    [kind |-> kind, tokens |-> Budget, age |-> 0, used |-> 0, usedAge |-> 0]

\* `left` is what is left of its sleep, `counts` whether `sent` has the request that is out.
Ready == [state |-> "ready", left |-> 0, weight |-> 0, counts |-> FALSE]

\* The venues with a fixed window send requests of weight 1 only.
RestInit ==
    /\ instant = 0
    /\ queue = <<>>
    /\ worker = Ready
    /\ \E kind \in {"fixed", "header"} :
          (kind = "fixed" => Weights = {1}) /\ limiter = NewLimiter(kind)
    /\ sent = 0
    /\ untold = 0

--------------------------------------------------------------------------------
(* The limiters. *)

\* FixedWindowBucket::refill, which also refills throughout the first second of a period.
Refilled(l) ==
    IF l.age >= Period \/ instant = 0 THEN [l EXCEPT !.tokens = Budget, !.age = 0] ELSE l

\* prepare_request of the fixed window: takes the tokens, or says how long to wait.
FixedPrepared(l, weight) ==
    LET r == Refilled(l)
    IN IF r.tokens >= weight THEN [limiter |-> [r EXCEPT !.tokens = @ - weight], wait |-> 0]
       ELSE [limiter |-> r, wait |-> Period - r.age]

\* prepare_request of the dynamic bucket: with the header while that is recent.
Prepared(l, weight) ==
    IF l.kind = "header" /\ l.usedAge <= Period /\ l.used > 0
    THEN [limiter |-> l, wait |-> IF l.used + weight <= Budget THEN 0 ELSE Period - instant]
    ELSE FixedPrepared(l, weight)

\* Mutation of Learned: an answer takes no tokens.
LearnedNothing(l, weight, used) ==
    IF l.kind = "fixed" THEN l ELSE [l EXCEPT !.used = used, !.usedAge = 0]

\* update_from_response: a fixed window pays (again, when the request did not wait).
Learned(l, weight, used) ==
    IF l.kind = "fixed"
    THEN LET r == Refilled(l) IN [r EXCEPT !.tokens = @ - Min({weight, @})]
    ELSE [l EXCEPT !.used = used, !.usedAge = 0]

--------------------------------------------------------------------------------
(* RequestPort::request, and a caller that stops waiting. *)

WaitingFor(c) == \E i \in DOMAIN queue : queue[i].caller = c /\ ~queue[i].gone

Request(c) ==
    /\ ~WaitingFor(c)
    /\ \E weight \in Weights :
          queue' = Append(queue, [caller |-> c, weight |-> weight, gone |-> FALSE])
    /\ UNCHANGED <<instant, worker, limiter, sent, untold>>

\* A fetch is aborted or times out: a command that is in the channel stays there.
GiveUp(c) ==
    /\ \E i \in DOMAIN queue :
          /\ queue[i].caller = c /\ ~queue[i].gone
          /\ queue' = IF i <= QueueCap + 1 THEN [queue EXCEPT ![i].gone = TRUE]
                      ELSE RemoveAt(queue, i)
    /\ UNCHANGED <<instant, worker, limiter, sent, untold>>

--------------------------------------------------------------------------------
(* http_response_with_limiter_timeout, for the command at the head of the queue. *)

\* prepare_request, and the sleep.
Prepare ==
    /\ worker.state = "ready" /\ queue # <<>>
    /\ LET p == Prepared(limiter, Head(queue).weight)
       IN /\ limiter' = p.limiter
          /\ worker' = [state |-> IF p.wait = 0 THEN "send" ELSE "sleep", left |-> p.wait,
                        weight |-> Head(queue).weight, counts |-> FALSE]
    /\ UNCHANGED <<instant, queue, sent, untold>>

WakeUp ==
    /\ worker.state = "sleep" /\ worker.left = 0
    /\ worker' = [worker EXCEPT !.state = "send"]
    /\ UNCHANGED <<instant, queue, limiter, sent, untold>>

\* The request goes out.  For a fixed window, the first second of a period does not count.
SendOut ==
    /\ worker.state = "send"
    /\ LET counts == limiter.kind = "header" \/ instant # 0
       IN /\ worker' = [worker EXCEPT !.state = "sent", !.counts = counts]
          /\ sent' = IF counts THEN sent + worker.weight ELSE sent
    /\ UNCHANGED <<instant, queue, limiter, untold>>

Reply == queue' = Tail(queue) /\ worker' = Ready

\* Its header says what the exchange has counted of this address, whoever sent it, in this
\* period, or in the one before when the answer crosses into this.  With it, nothing is untold.
Heard ==
    LET counted == IF limiter.kind = "header" THEN sent + untold ELSE sent
    IN /\ \E used \in Max({counted, worker.weight}) .. Max({counted, Budget}) :
             limiter' = Learned(limiter, worker.weight, used)
       /\ sent' = counted
       /\ untold' = sent + untold - counted

\* The limiter learns nothing, and the exchange may have counted the request all the same.
Unheard ==
    /\ sent' = IF worker.counts THEN sent - worker.weight ELSE sent
    /\ \/ UNCHANGED untold
       \/ worker.counts /\ untold + worker.weight <= MaxUntold /\ untold' = untold + worker.weight
    /\ UNCHANGED limiter

\* An answer.  update_from_response of the dynamic limiter learns nothing from one whose
\* used-weight header is missing, no number, or 0.
Answered ==
    /\ worker.state = "sent" /\ Reply
    /\ Heard \/ (limiter.kind = "header" /\ Unheard)
    /\ UNCHANGED instant

\* Mutation of RequestFails: requests have no timeout.
RequestFailsNever == FALSE /\ UNCHANGED restVars

\* No answer within the timeout of the client, a broken connection, or an answer that says
\* the limit is reached (should_exit_on_response).
RequestFails ==
    /\ worker.state = "sent" /\ Reply
    /\ Unheard
    /\ UNCHANGED instant

SecondTicks ==
    /\ instant' = (instant + 1) % Period
    /\ worker' = [worker EXCEPT !.left = IF @ > 0 THEN @ - 1 ELSE 0,
                                !.counts = @ /\ instant' # 0]
    /\ limiter' = [limiter EXCEPT !.age = Min({Period, @ + 1}),
                                  !.usedAge = Min({Period + 1, @ + 1})]
    /\ sent' = IF instant' = 0 THEN 0 ELSE sent
    /\ untold' = IF instant' = 0 THEN 0 ELSE untold
    /\ UNCHANGED queue

\* What the worker does without being answered.
WorkerRuns == Prepare \/ WakeUp \/ SendOut

RestNext ==
    \/ WorkerRuns \/ Answered \/ RequestFails \/ SecondTicks
    \/ \E c \in Callers : Request(c) \/ GiveUp(c)

RestSpec == RestInit /\ [][RestNext]_restVars

--------------------------------------------------------------------------------

RestTypeOK ==
    /\ instant \in 0..(Period - 1)
    /\ worker.state \in {"ready", "sleep", "send", "sent"}
    /\ worker.left \in 0..Period
    /\ limiter.tokens \in 0..Budget
    /\ limiter.age \in 0..Period /\ limiter.usedAge \in 0..(Period + 1)
    /\ sent \in Nat /\ untold \in 0..MaxUntold
    /\ \A i \in DOMAIN queue : queue[i].caller \in Callers /\ queue[i].weight \in Weights

\* What the limiters keep within the limit.  With the header: when a request goes out, no more
\* than the limit was sent in this period of the exchange, as far as it has told, whatever
\* others send.  Excepted is what it has not told of yet: requests that failed or came back
\* without the header pass without a limit while an older header is recent, until the next
\* header counts them.  A fixed window lets anything pass in the first second of a period;
\* after it, of the requests that were answered, one more than the limit at most: a refill may
\* fall into the period, but requests pay twice, and the one that slept is sent before it pays.
RequestsStayWithinBudget ==
    worker.counts => sent <= IF limiter.kind = "header" THEN Budget ELSE Budget + Max(Weights)

\* Every command is answered or fails in the end, over full queues, waits for the limit, and
\* commands nobody waits for any more that are still ahead of it.  Callers are alike: what
\* holds of one holds of all.
CommandsAreServed ==
    LET caller == CHOOSE c \in Callers : TRUE
    IN WaitingFor(caller) ~> ~WaitingFor(caller)
================================================================================
