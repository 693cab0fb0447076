-------------------------------- MODULE GexChain --------------------------------
(***************************************************************************)
(* One option chain of Deribit and the GEX history derived from it         *)
(* (src/src/connector/gex.rs): the instruments, the snapshots, what is     *)
(* asked for when, the history of one configuration, and what survives a   *)
(* restart: the last snapshot in a file, the history in the persistent     *)
(* cache (src/src/connector/persistent_cache.rs).                          *)
(*                                                                         *)
(* Abstractions.  A snapshot is the moment it was observed at; deriving it *)
(* depends on nothing else.  Retention is longer than a behaviour.         *)
(***************************************************************************)
EXTENDS Naturals, Sequences, FiniteSets, FiniteSetsExt, SequencesExt, Functions

CONSTANTS LastSecond,    \* the end of time
          ListTTL,       \* INSTRUMENT_TTL_MS
          ChainTTL,      \* MARKET_SNAPSHOT_TTL_MS
          ChainBackoff,  \* FAILURE_BACKOFF_BASE_MS; the doubling is left out
          MaxCrashes     \* bound on restarts and clearings

ASSUME ChainAssumption ==
    /\ {LastSecond, ListTTL, ChainTTL, ChainBackoff, MaxCrashes} \subseteq Nat
    /\ LastSecond > 0

VARIABLES
    second,   \* now
    chain,    \* the coordinator: instruments, raw snapshot, history, flags
    asked,    \* in_flight: requests, with the second they were sent
    kept,     \* on disk: file (the raw snapshot), series (the history)
    crashes   \* restarts and clearings so far

chainVars == <<second, chain, asked, kept, crashes>>

NoTime == 0   \* seconds start at 1

\* A raw snapshot: when it was observed, when it was received, whether it was derived.
NoChain == [observed |-> NoTime, received |-> NoTime, derived |-> FALSE]

NewChain(file) ==
    [consumer |-> FALSE, force |-> FALSE, listAt |-> NoTime, retryAfter |-> NoTime,
     raw |-> IF file = NoTime THEN NoChain
             ELSE [observed |-> file, received |-> file, derived |-> FALSE],
     history |-> <<>>, loaded |-> FALSE]

ChainInit ==
    /\ second = 1
    /\ chain = NewChain(NoTime)
    /\ asked = {}
    /\ kept = [file |-> NoTime, series |-> {}]
    /\ crashes = 0

--------------------------------------------------------------------------------
(* due_fetches, in Message::Tick. *)

\* Mutation of InFlight: a request in flight does not keep another from being sent.
InFlightNever(kind) == FALSE

InFlight(kind) == \E request \in asked : request.kind = kind

\* What is due: the instruments first, the snapshot when they are fresh.
Due(c) ==
    IF ~c.consumer \/ second < c.retryAfter THEN {}
    ELSE IF c.listAt = NoTime \/ second - c.listAt >= ListTTL THEN {"instruments"}
    ELSE IF c.force \/ c.raw = NoChain \/ second - c.raw.received >= ChainTTL THEN {"snapshot"}
    ELSE {}

\* derived, for the series on display: cached by revision, or computed and appended.
Position(history, observed) ==
    LET later == {i \in DOMAIN history : history[i] > observed}
    IN IF later = {} THEN Len(history) + 1 ELSE Min(later)

\* Mutation of Inserted: a new entry goes to the end.
InsertedLast(history, observed) == Append(history, observed)

Inserted(history, observed) == InsertAt(history, Position(history, observed), observed)

\* The moments of a set in the order of time.
InOrder(set) ==
    CHOOSE s \in [1..Cardinality(set) -> set] :
       Range(s) = set /\ \A i, j \in DOMAIN s : i < j => s[i] < s[j]

\* ensure_history_loaded reads the stored series, once, and sorts it.
WithHistory(c) ==
    IF c.loaded THEN c
    ELSE [c EXCEPT !.loaded = TRUE, !.history = @ \o InOrder(kept.series)]

\* append_history, unless the entry is there.
Derived(c) ==
    IF c.raw = NoChain \/ c.raw.derived THEN c
    ELSE LET d == WithHistory([c EXCEPT !.raw.derived = TRUE])
         IN IF c.raw.observed \in Range(d.history) THEN d
            ELSE [d EXCEPT !.history = Inserted(@, c.raw.observed)]

\* sync_gex_dashboard, while a pane shows the series: derived, and history.
Synced(c, shown) == IF shown THEN WithHistory(Derived(c)) ELSE c

Store(c, d) == [kept EXCEPT !.series = @ \cup (Range(d.history) \ Range(WithHistory(c).history))]

ChainTick ==
    /\ \E wanted, shown, online \in BOOLEAN :
          LET c == [chain EXCEPT !.consumer = wanted,
                                 !.force = @ \/ (wanted /\ ~chain.consumer)]
              d == Synced(c, shown)
          IN /\ shown => wanted
             /\ chain' = d
             /\ kept' = Store(c, d)
             /\ asked' = asked \cup {[kind |-> kind, sent |-> second] :
                                        kind \in {k \in Due(d) : online /\ ~InFlight(k)}}
    /\ UNCHANGED <<second, crashes>>

ChainReconnect ==
    /\ chain' = [chain EXCEPT !.force = @ \/ chain.consumer]
    /\ UNCHANGED <<second, asked, kept, crashes>>

\* record_failure, of an error or an empty answer.
Fails(c) == [c EXCEPT !.retryAfter = second + ChainBackoff]

\* complete, of the instruments.
InstrumentsArrive(request) ==
    /\ request.kind = "instruments"
    /\ chain' \in {[chain EXCEPT !.listAt = second, !.retryAfter = NoTime, !.force = TRUE],
                   Fails(chain)}
    /\ asked' = asked \ {request}
    /\ UNCHANGED <<second, kept, crashes>>

\* complete, of a snapshot observed after it was asked for.  The panes that show the series
\* are synced.  The file is replaced (atomic_write); an error, or the end of the program in
\* between, leaves the old one, or none once that is removed.
SnapshotArrives(request) ==
    /\ request.kind = "snapshot"
    /\ LET c == [chain EXCEPT !.force = FALSE]
       IN \/ \E observed \in request.sent .. second, shown \in BOOLEAN :
               LET raw == [observed |-> observed, received |-> second, derived |-> FALSE]
                   n == [c EXCEPT !.raw = raw, !.retryAfter = NoTime]
                   d == Synced(n, shown)
               IN /\ shown => chain.consumer
                  /\ chain' = d
                  /\ \E file \in {observed, kept.file, NoTime} :
                        kept' = [Store(n, d) EXCEPT !.file = file]
          \/ chain' = Fails(c) /\ UNCHANGED kept
    /\ asked' = asked \ {request}
    /\ UNCHANGED <<second, crashes>>

SecondPasses ==
    /\ second < LastSecond
    /\ second' = second + 1
    /\ UNCHANGED <<chain, asked, kept, crashes>>

ChainCrash == crashes < MaxCrashes /\ crashes' = crashes + 1

\* The program ends and starts again.
ChainRestarts ==
    /\ ChainCrash
    /\ chain' = NewChain(kept.file)
    /\ asked' = {}
    /\ UNCHANGED <<second, kept>>

\* InvalidateMarketDataCache: the cache, then invalidate_persistent.  What is in flight stays.
ChainCleared ==
    /\ ChainCrash
    /\ chain' = [chain EXCEPT !.raw = NoChain, !.history = <<>>, !.loaded = FALSE]
    /\ kept' \in [file : {NoTime, kept.file}, series : {{}, kept.series}]   \* either may fail
    /\ UNCHANGED <<second, asked>>

ChainNext ==
    \/ ChainTick \/ ChainReconnect \/ SecondPasses \/ ChainRestarts \/ ChainCleared
    \/ \E request \in asked : InstrumentsArrive(request) \/ SnapshotArrives(request)

ChainSpec == ChainInit /\ [][ChainNext]_chainVars

--------------------------------------------------------------------------------

ChainTypeOK ==
    /\ second \in 1..LastSecond
    /\ {chain.listAt, chain.raw.observed, chain.raw.received, kept.file} \subseteq 0..LastSecond
    /\ chain.raw.observed <= chain.raw.received
    /\ chain.retryAfter \in 0..(LastSecond + ChainBackoff)
    /\ Range(chain.history) \cup kept.series \subseteq 1..LastSecond
    /\ \A request \in asked : request.sent <= second
    /\ crashes \in 0..MaxCrashes

\* The heatmap's history is one line of time without repetition and holds what the cache has
\* of the series: over restarts that bring back an older snapshot, clearings that succeed in
\* part, and snapshots derived late.
HistoryIsOneLine ==
    /\ \A i \in DOMAIN chain.history : \A j \in 1..(i - 1) : chain.history[j] < chain.history[i]
    /\ chain.loaded => kept.series \subseteq Range(chain.history)

\* The chain on display never goes back to an older observation while the program runs: two
\* requests for it cannot overtake each other.
ChainNeverRewinds ==
    [][(crashes' = crashes) => chain'.raw.observed >= chain.raw.observed]_chainVars
================================================================================
