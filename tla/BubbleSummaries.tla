----------------------------- MODULE BubbleSummaries -----------------------------
(***************************************************************************)
(* The volume bubbles of a candlestick chart's history: which chunk the    *)
(* chart asks for next and what it takes for covered (src/chart/kline.rs), *)
(* the worker that fetches a chunk's gaps and merges them with the cache   *)
(* (src/connector/fetcher.rs), and the cached summaries                    *)
(* (src/connector/persistent_cache.rs).                                    *)
(*                                                                         *)
(* Abstractions.  A bubble is one execution, at most one happens at a      *)
(* point of time, and sizes differ; clustering is left out.  The settings  *)
(* are how many bubbles a candle keeps.  Pages are left out: a fetch ends  *)
(* at some execution.  A worker reads the cache as it starts, and stores   *)
(* and delivers in one step; several workers may be under way.             *)
(***************************************************************************)
EXTENDS Integers, FiniteSets, FiniteSetsExt

CONSTANTS Executions,    \* [at, size]
          CandleSpan,    \* timeframe_ms
          AskSpan,       \* BUBBLE_FETCH_CHUNK_MS
          LastCandle,    \* the end of time
          MaxJobs,       \* bound on workers under way
          MaxUpsets      \* bound on changes of settings, resets, clearings, gaps in answers

Keeps == {1, 2}   \* max_candidates_per_candle

ASSUME BubbleAssumption ==
    /\ {CandleSpan, AskSpan} \subseteq Nat \ {0}
    /\ {LastCandle, MaxJobs, MaxUpsets} \subseteq Nat
    /\ CandleSpan <= LastCandle
    /\ IsFiniteSet(Executions)
    /\ \A e \in Executions : e.at \in 0..LastCandle /\ e.size \in Nat
    /\ \A e, f \in Executions : e # f => e.at # f.at /\ e.size # f.size

VARIABLES
    until,      \* historical_trade_to, the start of the latest candle
    panel,      \* the chart: keep, its covered points (p for p..p + 1), bubbles shown
    jobs,       \* the workers
    store,      \* for each setting, the cached coverage and summaries, and what they lost
    doubt,      \* executions the chart may not show; see CoveredBubblesAreShown
    upsets

bubbleVars == <<until, panel, jobs, store, doubt, upsets>>

Candle(at) == at - (at % CandleSpan)
Candles == {Candle(at) : at \in 0..LastCandle}
NoBubbles == [c \in Candles |-> {}]
Between(from, to) == {e \in Executions : e.at \in from..to}

BubbleInit ==
    /\ until = CandleSpan
    /\ panel = [keep |-> 2, covered |-> {}, shown |-> NoBubbles]
    /\ jobs = {}
    /\ store = [n \in Keeps |-> [coverage |-> {}, summaries |-> NoBubbles, torn |-> {}]]
    /\ doubt = {}
    /\ upsets = 0

--------------------------------------------------------------------------------
(* Summaries. *)

\* The n largest of them.
Largest(n, set) == {e \in set : Cardinality({f \in set : f.size > e.size}) < n}

\* bubble_summaries_from_buckets.
Summarised(n, executions) ==
    [c \in Candles |-> Largest(n, {e \in executions : Candle(e.at) = c})]

\* merge_bubble_summaries.
Merged(n, s, t) == [c \in Candles |-> Largest(n, s[c] \cup t[c])]

\* TimeSeries::insert_bubble_summaries: a summary takes the place of the candle's.
InsertedSummaries(shown, summaries) ==
    [c \in Candles |-> IF summaries[c] # {} THEN summaries[c] ELSE shown[c]]

\* Mutation of ReadFrom: only candles that begin in the range are read.
ReadFromRange(from) == from

\* record_from of read_bubble_summaries: the candle the range begins in is read, too.
ReadFrom(from) == IF from < CandleSpan THEN 0 ELSE from - (CandleSpan - 1)

\* read_bubble_summaries: nothing, unless a part of the range is covered.
CachedSummaries(n, from, to) ==
    [c \in Candles |->
        IF store[n].coverage \cap from..to # {} /\ c \in ReadFrom(from)..to
        THEN store[n].summaries[c] ELSE {}]

--------------------------------------------------------------------------------
(* The chart asks. *)

\* What a chunk or an answer covers or replaces.
Reached(from, to, summaries) ==
    {e \in Executions : e.at \in from..to \/ summaries[Candle(e.at)] # {}}

\* latest_uncovered_bubble_summary_range, and its last chunk.
Uncovered == (0..(until - 1)) \ panel.covered
GapTop == Max(Uncovered) + 1
GapStart == Min({p \in Uncovered : p..(GapTop - 1) \subseteq Uncovered})
AskFrom == Max({GapStart, IF GapTop < AskSpan THEN 0 ELSE GapTop - AskSpan})

\* bubble_summary_fetch_task, up to the read of the cache.  A request inside one that is
\* pending is suppressed.
Ask ==
    /\ Uncovered # {} /\ Cardinality(jobs) < MaxJobs
    /\ \A j \in jobs : j.superseded \/ ~(j.from <= AskFrom /\ GapTop <= j.to)
    /\ jobs' = jobs \cup {[from |-> AskFrom, to |-> GapTop, keep |-> panel.keep,
                           superseded |-> FALSE, dated |-> FALSE,
                           cached |-> CachedSummaries(panel.keep, AskFrom, GapTop),
                           gaps |-> AskFrom..GapTop \ store[panel.keep].coverage]}
    /\ doubt' = doubt \cup store[panel.keep].torn
    /\ UNCHANGED <<until, panel, store, upsets>>

\* The chunk from the raw trades in memory (bubble_summaries_from_raw_trades), which holds
\* only this part of a candle that is longer than the chunk.
AskRaw ==
    /\ upsets < MaxUpsets /\ upsets' = upsets + 1
    /\ Uncovered # {}
    /\ LET here == Summarised(panel.keep, Between(AskFrom, GapTop))
       IN /\ panel' = [panel EXCEPT !.covered = @ \cup AskFrom..(GapTop - 1),
                                    !.shown = InsertedSummaries(@, here)]
          /\ doubt' = doubt \cup Reached(AskFrom, GapTop, here)
    /\ UNCHANGED <<until, jobs, store>>

--------------------------------------------------------------------------------
(* The worker answers: fetch_bubble_summaries_cached. *)

\* The first and last points of the gaps.
GapRanges(gaps) ==
    {r \in gaps \X gaps : /\ r[1] <= r[2] /\ r[1]..r[2] \subseteq gaps
                          /\ r[1] - 1 \notin gaps /\ r[2] + 1 \notin gaps}

\* fetch_bubble_summaries of a gap: where it ends (latest_trade_t): anywhere, after an empty
\* answer, or past the gap.  A gap of one point is not asked for.
Ends(range) ==
    {range[1]} \cup {e.at : e \in {f \in Executions : f.at >= range[1] /\ range[1] < range[2]}}

GapFetched(range, end) ==
    IF range[1] = range[2] THEN {} ELSE Between(range[1], Min({range[2], end}))

\* Mutation of Verified: all of the gap.
VerifiedWhole(range, end) == range[1]..range[2]

\* verified_to_exclusive.
Verified(range, end) == IF end > range[1] THEN range[1]..Min({range[2], end}) ELSE {}

\* What comes from the gaps, given where each fetch ends, and what of them is verified.
FetchedOf(gaps, end) == UNION {GapFetched(r, end[r]) : r \in GapRanges(gaps)}
VerifiedOf(gaps, end) == {Verified(r, end[r]) : r \in GapRanges(gaps)}

AnswerOf(job, fetched) == Merged(job.keep, job.cached, Summarised(job.keep, fetched))

\* The candles a verified range stores (verified_summaries).
Touched(points) == {Candle(at) : at \in points}

FilledRanges(verified, summaries) == {r \in verified : \E c \in Touched(r) : summaries[c] # {}}
Written(verified, summaries) == {c \in UNION {Touched(r) : r \in verified} : summaries[c] # {}}

\* What the cache covers and an answer does not continue, but replaces: in candles whose cached
\* summary is not the one the worker has, because another worker has written it since, or
\* because nothing of the chunk was covered and so nothing of the candle was read.
Replaced(job, summaries, fetched) ==
    {e \in Executions \ fetched :
        /\ e.at \in store[job.keep].coverage /\ summaries[Candle(e.at)] # {}
        /\ store[job.keep].summaries[Candle(e.at)] # job.cached[Candle(e.at)]}

\* store_bubble_summaries of the ranges: summaries take the place of those of their candles.
StoredSummaries(old, verified, summaries, replaced) ==
    [coverage |-> old.coverage \cup UNION FilledRanges(verified, summaries),
     summaries |-> [c \in Candles |-> IF c \in Written(verified, summaries) THEN summaries[c]
                                      ELSE old.summaries[c]],
     torn |-> old.torn \cup {e \in replaced : Candle(e.at) \in Written(verified, summaries)}]

Missed(job, fetched) == {e \in Executions : e.at \in job.gaps} \ fetched

\* insert_bubble_summaries and complete_bubble_summary_fetch, which covers the whole chunk
\* however far the worker came, whatever the settings are now.
Delivered(job, summaries) ==
    [panel EXCEPT !.covered = @ \cup job.from..(job.to - 1),
                  !.shown = InsertedSummaries(@, summaries)]

\* What the chart may not show from now on.
Doubtful(job, fetched, verified, summaries) ==
    Missed(job, fetched) \cup {e \in fetched : e.at \notin UNION verified}
      \cup store[job.keep].torn \cup Replaced(job, summaries, fetched)
      \cup (IF job.dated THEN Reached(job.from, job.to, summaries) ELSE {})

BubblesAnswered(job, fetched, verified, summaries) ==
    /\ IF Missed(job, fetched) = {} THEN UNCHANGED upsets
       ELSE upsets < MaxUpsets /\ upsets' = upsets + 1
    /\ store' = [store EXCEPT ![job.keep] =
                    StoredSummaries(@, verified, summaries, Replaced(job, summaries, fetched))]
    /\ jobs' = jobs \ {job}
    /\ IF job.superseded THEN UNCHANGED <<panel, doubt>>
       ELSE /\ panel' = Delivered(job, summaries)
            /\ doubt' = doubt \cup Doubtful(job, fetched, verified, summaries)
    /\ UNCHANGED until

AnswerArrives(job) ==
    \E end \in [GapRanges(job.gaps) -> 0..LastCandle] :
       /\ \A r \in GapRanges(job.gaps) : end[r] \in Ends(r)
       /\ BubblesAnswered(job, FetchedOf(job.gaps, end), VerifiedOf(job.gaps, end),
                          AnswerOf(job, FetchedOf(job.gaps, end)))

\* An error in one of the gaps: nothing is stored.
JobFails(job) ==
    /\ jobs' = jobs \ {job}
    /\ UNCHANGED <<until, panel, store, doubt, upsets>>

--------------------------------------------------------------------------------

CandleCloses ==
    /\ until + CandleSpan <= LastCandle /\ until' = until + CandleSpan
    /\ UNCHANGED <<panel, jobs, store, doubt, upsets>>

Upset == upsets < MaxUpsets /\ upsets' = upsets + 1

\* set_visual_config: the summaries and their coverage go, requests under way go on (dated).
KeepChanges ==
    /\ Upset
    /\ panel' = [keep |-> 3 - panel.keep, covered |-> {}, shown |-> NoBubbles]
    /\ jobs' = {[j EXCEPT !.dated = TRUE] : j \in jobs}
    /\ UNCHANGED <<until, store, doubt>>

SupersedeAll == jobs' = {[j EXCEPT !.superseded = TRUE] : j \in jobs}

\* reset_request_handler: only the coverage goes, requests under way are superseded.
PanelReset ==
    /\ Upset /\ SupersedeAll
    /\ panel' = [panel EXCEPT !.covered = {}]
    /\ UNCHANGED <<until, store, doubt>>

\* The cache is cleared, and invalidate_market_data_cache: the summaries go, and requests under
\* way are forgotten, but the coverage stays.
BubblesCleared ==
    /\ Upset /\ SupersedeAll
    /\ panel' = [panel EXCEPT !.shown = NoBubbles]
    /\ store' = [n \in Keeps |-> [coverage |-> {}, summaries |-> NoBubbles, torn |-> {}]]
    /\ doubt' = doubt \cup {e \in Executions : e.at \in panel.covered}
    /\ UNCHANGED until

BubbleNext ==
    \/ Ask \/ AskRaw \/ CandleCloses \/ KeepChanges \/ PanelReset \/ BubblesCleared
    \/ \E job \in jobs : AnswerArrives(job) \/ JobFails(job)

BubbleSpec == BubbleInit /\ [][BubbleNext]_bubbleVars

--------------------------------------------------------------------------------

BubbleTypeOK ==
    /\ until \in Candles
    /\ panel.keep \in Keeps /\ panel.covered \subseteq 0..(until - 1)
    /\ Cardinality(jobs) <= MaxJobs
    /\ \A job \in jobs : job.from < job.to /\ job.gaps \subseteq job.from..job.to
    /\ doubt \subseteq Executions /\ upsets \in 0..MaxUpsets

\* `summary` shows the execution, or as many larger ones as there is room for.
Accounts(summary, n, e) == e \in summary \/ Cardinality({f \in summary : f.size > e.size}) >= n

\* Where the chart takes its bubbles for loaded, it shows the largest of each candle: though
\* candles are loaded in parts, whose summaries replace each other, over settings that change,
\* resets and workers whose answers no longer count.  Excepted are the executions that the code
\* does lose: those a worker missed (the chart covers its whole chunk), those it found and did
\* not store (the only one of a gap, at its first instant), those that an answer of before a
\* change of the settings reaches, those of a candle a part of which came from the raw trades
\* in memory, those covered at a clearing, which leaves the coverage, and those of a candle whose
\* cached summary was replaced and not continued.
CoveredBubblesAreShown ==
    \A e \in Executions :
       e.at \in panel.covered /\ e \notin doubt
          => Accounts(panel.shown[Candle(e.at)], panel.keep, e)

\* What the cache takes for covered it has: each worker stores the summaries of its candles
\* whole, merged with what it read, over the coverage it verified.  Excepted are executions of
\* candles whose summary a worker did not read as it was when it replaced it (the read, the
\* merge and the store are not one transaction).
SummariesAreHeld ==
    \A n \in Keeps : \A e \in Executions :
       e.at \in store[n].coverage /\ e \notin store[n].torn
          => Accounts(store[n].summaries[Candle(e.at)], n, e)
================================================================================
