------------------------------- MODULE MarketCache -------------------------------
(***************************************************************************)
(* The persistent cache of trades (src/src/connector/persistent_cache.rs)  *)
(* and the workers that read, fill and share it                            *)
(* (fetch_trades_batched in src/src/connector/fetcher.rs).  A dataset is   *)
(* one coverage record and the buckets of its records.  A transaction of   *)
(* the database is atomic and durable, but a read takes two: the coverage  *)
(* first, the buckets after it.                                            *)
(*                                                                         *)
(* Abstractions.  A trade is a millisecond and its rank in it; coverage is *)
(* the set of the milliseconds its intervals hold.  A blob that fails its  *)
(* checksum, its schema or the validation of its records is "bad".  An     *)
(* invalidation goes with the read that found the bad blob.                *)
(***************************************************************************)
EXTENDS Naturals, FiniteSets, FiniteSetsExt

CONSTANTS Workers,
          Span,        \* milliseconds 0 .. Span-1
          BucketSpan,  \* TRADE_BUCKET_MS
          TradeSets,   \* the trades of the exchange, to explore
          PageTrades,  \* trades in one answer of the exchange
          MaxMishaps   \* bound on corrupted blobs and on clearings

ASSUME CacheAssumption ==
    /\ {Span, BucketSpan, PageTrades} \subseteq Nat \ {0}
    /\ MaxMishaps \in Nat
    /\ TradeSets \subseteq SUBSET [at : 0..(Span - 1), rank : Nat]
    /\ \A trades \in TradeSets : IsFiniteSet(trades)

VARIABLES
    market,   \* the trades of the exchange
    disk,     \* [coverage, buckets]
    job,      \* what each worker does
    torn,     \* trades the cache covers and does not hold, for a known reason
    mishaps

cacheVars == <<market, disk, job, torn, mishaps>>

Instant == 0..(Span - 1)

Bucket == 0..((Span - 1) \div BucketSpan)

BucketFor(t) == t \div BucketSpan

Absent == [kind |-> "absent"]

Bad == [kind |-> "bad"]

Blob(set) == [kind |-> "data", set |-> set]

Held(blob) == IF blob.kind = "data" THEN blob.set ELSE {}   \* decode_checked, or nothing

Idle == [pc |-> "idle"]

EmptyDisk == [coverage |-> Absent, buckets |-> [b \in Bucket |-> Absent]]

CacheInit ==
    /\ market \in TradeSets
    /\ disk = EmptyDisk
    /\ job = [w \in Workers |-> Idle]
    /\ torn = {}
    /\ mishaps = 0

--------------------------------------------------------------------------------
(* Reading. *)

Asked(w) == job[w].from .. job[w].to

At(trades, instants) == {r \in trades : r.at \in instants}

BucketsOf(instants) == {BucketFor(t) : t \in instants}

\* A slice of the cache: its trades, and the gaps the network must fill.
Answer(w, got, gaps) ==
    [pc |-> "fetch", from |-> job[w].from, to |-> job[w].to, got |-> got,
     gaps |-> gaps, open |-> gaps, cursor |-> 0]

Miss(w) == Answer(w, {}, Asked(w))

Begin(w) ==
    /\ job[w] = Idle
    /\ \E from, to \in Instant :
          from < to /\ job' = [job EXCEPT ![w] = [pc |-> "coverage", from |-> from, to |-> to,
                                                    stale |-> FALSE]]
    /\ UNCHANGED <<market, disk, torn, mishaps>>

\* Everyone who has read the coverage works with a stale one from now on.
Stale(jobs) ==
    [w \in Workers |-> IF jobs[w].pc = "buckets" THEN [jobs[w] EXCEPT !.stale = TRUE] ELSE jobs[w]]

\* The first transaction of read_records.  A bad coverage record is dropped.
ReadCoverage(w) ==
    /\ job[w].pc = "coverage"
    /\ LET seen == Held(disk.coverage) \cap Asked(w)
       IN job' = [job EXCEPT ![w] = IF seen = {} THEN Miss(w)
                    ELSE [pc |-> "buckets", from |-> job[w].from, to |-> job[w].to,
                          seen |-> seen, stale |-> FALSE]]
    /\ disk' = IF disk.coverage = Bad THEN [disk EXCEPT !.coverage = Absent] ELSE disk
    /\ UNCHANGED <<market, torn, mishaps>>

\* Mutation of ReadBuckets: a bucket without data is taken for an empty one.
ReadBucketsAnyway(w) ==
    /\ job[w].pc = "buckets"
    /\ LET found == At(UNION {Held(disk.buckets[b]) : b \in BucketsOf(job[w].seen)}, Asked(w))
       IN job' = [job EXCEPT ![w] = Answer(w, found, Asked(w) \ job[w].seen)]
    /\ UNCHANGED <<market, disk, torn, mishaps>>

\* The second one.  A bucket that is bad, or not there, costs the dataset its coverage.
ReadBuckets(w) ==
    /\ job[w].pc = "buckets"
    /\ LET needed == BucketsOf(job[w].seen)
           unusable == {b \in needed : disk.buckets[b].kind # "data"}
           found == At(UNION {Held(disk.buckets[b]) : b \in needed}, Asked(w))
       IN IF unusable = {}
          THEN /\ job' = [job EXCEPT ![w] = Answer(w, found, Asked(w) \ job[w].seen)]
               /\ UNCHANGED disk
          ELSE /\ job' = Stale([job EXCEPT ![w] = Miss(w)])
               /\ disk' = [coverage |-> Absent,
                           buckets |-> [disk.buckets EXCEPT ![Min(unusable)] = Absent]]
    /\ UNCHANGED <<market, torn, mishaps>>

--------------------------------------------------------------------------------
(* Filling: one page of the exchange, and store_trades. *)

\* Mutation of Stored: a bucket is written without what it held.
StoredOver(trades, instants) ==
    [coverage |-> Blob(Held(disk.coverage) \cup instants),
     buckets |-> [b \in Bucket |->
        IF b \in BucketsOf(instants) \cup BucketsOf({r.at : r \in trades})
        THEN Blob({r \in trades : BucketFor(r.at) = b})
        ELSE disk.buckets[b]]]

\* store_records_inner: the buckets, then the coverage, in one transaction.  What is
\* unreadable is replaced.
Stored(trades, instants) ==
    [coverage |-> Blob(Held(disk.coverage) \cup instants),
     buckets |-> [b \in Bucket |->
        IF b \in BucketsOf(instants) \cup BucketsOf({r.at : r \in trades})
        THEN Blob(Held(disk.buckets[b]) \cup {r \in trades : BucketFor(r.at) = b})
        ELSE disk.buckets[b]]]

\* The trades of the exchange from an instant on, a page of them.
Before(r, q) == r.at < q.at \/ (r.at = q.at /\ r.rank < q.rank)

PageFrom(t) ==
    LET later == {r \in market : r.at >= t}
    IN {r \in later : Cardinality({q \in later : Before(q, r)}) < PageTrades}

\* The end of the gap the worker is in.
GapEnd(w) == Max({t \in Instant : job[w].cursor .. t \subseteq job[w].gaps})

\* The cached trades are sent before anything is fetched.
NextGap(w) ==
    /\ job[w].pc = "fetch" /\ job[w].open # {}
    /\ job' = [job EXCEPT ![w] = [@ EXCEPT !.pc = "page", !.cursor = Min(job[w].open), !.got = {}]]
    /\ UNCHANGED <<market, disk, torn, mishaps>>

Fetched(w) ==
    /\ job[w].pc = "fetch" /\ job[w].open = {}
    /\ job' = [job EXCEPT ![w] = Idle]
    /\ UNCHANGED <<market, disk, torn, mishaps>>

\* An empty answer is not stored and ends the fetch.  The cursor stays on the last instant
\* of a page, whose trades may go on in the next one; a page within one instant moves it on,
\* and ends the fetch at the end of the gap.  Trades the worker has already are not stored.
Page(w) ==
    /\ job[w].pc = "page"
    /\ LET old == job[w]
           page == PageFrom(job[w].cursor)
           last == Max({r.at : r \in page})
           upto == Min({last, GapEnd(w)})
           kept == {r \in page : r.at <= GapEnd(w)} \ job[w].got   \* filter_new_fetched_trades
           covered == job[w].cursor .. upto
           rest == {r \in market : r.at = last /\ r \notin page}
           dropped == {r \in page \cap job[w].got : r \notin Held(disk.buckets[BucketFor(r.at)])}
           unreadable == {b \in BucketsOf(covered) : disk.buckets[b] = Bad}
           progress == last > job[w].cursor
       IN IF page = {}
          THEN job' = [job EXCEPT ![w] = Idle] /\ UNCHANGED <<disk, torn>>
          ELSE /\ IF kept = {} THEN UNCHANGED <<disk, torn>>
                  ELSE /\ disk' = Stored(kept, covered)
                       /\ torn' = (torn \cup At(rest \cup dropped, covered)
                                     \cup {r \in market : BucketFor(r.at) \in unreadable})
                                    \ kept
               /\ job' = [job EXCEPT ![w] =
                    IF ~progress /\ last + 1 >= GapEnd(w) THEN Idle
                    ELSE IF progress /\ last >= GapEnd(w)
                         THEN [old EXCEPT !.pc = "fetch", !.cursor = 0, !.got = {},
                                          !.open = {t \in old.open : t > GapEnd(w)}]
                         ELSE [old EXCEPT !.got = old.got \cup kept,
                                          !.cursor = IF progress THEN last ELSE last + 1]]
    /\ UNCHANGED <<market, mishaps>>

--------------------------------------------------------------------------------
(* Mishaps. *)

\* A timeout, an error, the end of the program: the worker stops wherever it is.
Stop(w) ==
    /\ job[w] # Idle
    /\ job' = [job EXCEPT ![w] = Idle]
    /\ UNCHANGED <<market, disk, torn, mishaps>>

Mishap == mishaps < MaxMishaps /\ mishaps' = mishaps + 1

\* clear_all, or a database that does not open and is quarantined.
ClearAll ==
    /\ Mishap
    /\ disk' = EmptyDisk /\ torn' = {}
    /\ job' = Stale(job)
    /\ UNCHANGED market

Corrupt ==
    /\ Mishap
    /\ \/ disk.coverage.kind = "data" /\ disk' = [disk EXCEPT !.coverage = Bad]
       \/ \E b \in Bucket : /\ disk.buckets[b].kind = "data"
                            /\ disk' = [disk EXCEPT !.buckets[b] = Bad]
    /\ UNCHANGED <<market, job, torn>>

CacheNext ==
    \/ \E w \in Workers : \/ Begin(w) \/ ReadCoverage(w) \/ ReadBuckets(w)
                          \/ NextGap(w) \/ Fetched(w) \/ Page(w) \/ Stop(w)
    \/ ClearAll \/ Corrupt

CacheSpec == CacheInit /\ [][CacheNext]_cacheVars

--------------------------------------------------------------------------------

CacheTypeOK ==
    /\ market \in TradeSets
    /\ disk.coverage = Bad \/ Held(disk.coverage) \subseteq Instant
    /\ \A b \in Bucket : \A r \in Held(disk.buckets[b]) : r \in market /\ BucketFor(r.at) = b
    /\ \A w \in Workers : job[w].pc \in {"idle", "coverage", "buckets", "fetch", "page"}
    /\ torn \subseteq market
    /\ mishaps \in 0..MaxMishaps

\* Whatever the workers, the corruptions and the clearings do to each other's transactions,
\* an instant the cache covers has all its trades in a bucket, or in one a reader will reject.
\* Torn trades are excepted: those of an instant a page ended in, those of an unreadable
\* bucket that new trades replaced, and those a worker stored before the cache was cleared and
\* does not store again with the instant's later trades.
CoverageIsBacked ==
    \A r \in market \ torn :
       r.at \in Held(disk.coverage) =>
          disk.buckets[BucketFor(r.at)].kind # "data" \/ r \in disk.buckets[BucketFor(r.at)].set

\* What a worker takes from the cache is whole although it reads in two transactions: each
\* trade of the range is among the cached ones or in a gap it fetches, unless the dataset was
\* cleared or invalidated between the two.
AnswerIsWhole ==
    [][\A w \in Workers : job[w].pc = "buckets" /\ job'[w].pc = "fetch" /\ ~job[w].stale =>
          At(market, Asked(w) \ job'[w].gaps) \subseteq job'[w].got \cup torn]_cacheVars
================================================================================
