------------------------------ MODULE DeriveTrades ------------------------------
(***************************************************************************)
(* The maker trades of the Derive options exchange: how the coordinator    *)
(* (src/src/connector/gex.rs) keeps a day of them complete with requests   *)
(* that overlap, over failures, restarts and clearings of the cache, and   *)
(* what the client asks for (exchange/src/options/derive.rs).              *)
(*                                                                         *)
(* Abstractions.  One underlying.  A trade has a time, the moment it is    *)
(* settled (only settled trades are answered) and an option, of which the  *)
(* exchange lists those that live and are active.  All pages of an answer  *)
(* are one.  The cap of 50 000 trades is not reached.                      *)
(***************************************************************************)
EXTENDS Naturals, FiniteSets, FiniteSetsExt

CONSTANTS LastMoment,    \* the end of time
          Options,       \* the options that are ever listed
          Listing,       \* of each option: when it is listed
          Expiry,        \* and when it expires
          Overlap,       \* DERIVE_FETCH_OVERLAP_MS
          FirstSpan,     \* DERIVE_INITIAL_BACKFILL_MS
          Retention,     \* DERIVE_RETENTION_MS
          ListLife,      \* DERIVE_INSTRUMENT_REFRESH_MS
          BackoffBase,   \* FAILURE_BACKOFF_BASE_MS
          BackoffMax,    \* FAILURE_BACKOFF_MAX_MS
          Tapes,         \* the trades of the exchange, to explore
          MaxBreaks      \* bound on restarts and clearings

ASSUME DeriveAssumption ==
    /\ {LastMoment, Overlap, FirstSpan, Retention, ListLife, BackoffBase, BackoffMax,
        MaxBreaks} \subseteq Nat
    /\ LastMoment > 0 /\ BackoffBase <= BackoffMax
    /\ Listing \in [Options -> Nat] /\ Expiry \in [Options -> Nat]
    /\ \A trades \in Tapes : \A t \in trades :
          /\ t.at \in Nat /\ t.settled \in t.at .. t.at + Overlap /\ t.option \in Options
          /\ Listing[t.option] <= t.at /\ t.at < Expiry[t.option]

VARIABLES
    moment,   \* now
    tape,     \* the maker trades of the exchange, [at, settled, option]
    desk,     \* the coordinator: what it has, and what it has in flight
    stored,   \* the trades of the persistent cache, and where they begin
    dropped,  \* history: the trades the client threw away, as their option was not listed
    breaks    \* restarts and clearings so far

deriveVars == <<moment, tape, desk, stored, dropped, breaks>>

Unset == 0   \* no time: moments start at 1

NoRequest == [to |-> Unset]

Fine == [delay |-> 0, retryAfter |-> 0]

\* `asking` is when the options in flight were asked for; `since` is where the trades begin:
\* the start of the last request made without a watermark.
NewDesk ==
    [subscribed |-> FALSE, loaded |-> FALSE,
     options |-> {}, optionsAt |-> Unset, asking |-> Unset, forceOptions |-> FALSE,
     optionsFail |-> Fine,
     trades |-> {}, since |-> Unset, watermark |-> Unset, tradesAt |-> Unset,
     request |-> NoRequest, forceTrades |-> FALSE, tradesFail |-> Fine]

NoTrades == [trades |-> {}, since |-> Unset]

DeriveInit ==
    /\ moment = 1
    /\ tape \in Tapes
    /\ desk = NewDesk
    /\ stored = NoTrades
    /\ dropped = {}
    /\ breaks = 0

--------------------------------------------------------------------------------

Newest(trades) == Max({t.at : t \in trades})

\* ensure_derive_loaded: once, from the cache.
Loaded(d) ==
    IF d.loaded THEN d
    ELSE LET kept == {t \in stored.trades : t.at + Retention >= moment /\ t.at <= moment}
         IN IF kept = {} THEN [d EXCEPT !.loaded = TRUE]
            ELSE [d EXCEPT !.loaded = TRUE, !.trades = kept, !.since = stored.since,
                           !.watermark = Newest(kept)]

\* set_consumers: the first consumer forces a refresh of everything.
Consumers(d, wanted) ==
    IF wanted /\ ~d.subscribed
    THEN [Loaded(d) EXCEPT !.subscribed = TRUE, !.forceOptions = TRUE, !.forceTrades = TRUE]
    ELSE [d EXCEPT !.subscribed = wanted]

Forced(d) == [d EXCEPT !.forceOptions = @ \/ d.subscribed, !.forceTrades = @ \/ d.subscribed]

Waits(fail) == moment < fail.retryAfter

\* due_derive_instrument_fetches.
AskOptions(d) ==
    LET expired == d.optionsAt = Unset \/ moment - d.optionsAt >= ListLife
    IN IF /\ d.subscribed /\ d.asking = Unset
          /\ d.forceOptions \/ (expired /\ ~Waits(d.optionsFail))
       THEN [d EXCEPT !.asking = moment]
       ELSE d

Back(a, b) == IF a > b THEN a - b ELSE 0

\* Mutation of RequestFrom: the requests do not overlap.
RequestFromWatermark(d) ==
    IF d.watermark # Unset THEN d.watermark ELSE Back(moment, FirstSpan)

RequestFrom(d) ==
    IF d.watermark # Unset THEN Back(d.watermark, Overlap) ELSE Back(moment, FirstSpan)

\* due_derive_trade_fetches: needs the options, and asks again at every moment.
AskTrades(d) ==
    LET expired == d.tradesAt = Unset \/ moment > d.tradesAt
    IN IF /\ d.subscribed /\ d.options # {} /\ d.request = NoRequest
          /\ d.forceTrades \/ (expired /\ ~Waits(d.tradesFail))
       THEN [d EXCEPT !.request = [from |-> RequestFrom(d), to |-> moment,
                                   first |-> d.watermark = Unset, options |-> d.options]]
       ELSE d

\* record_derive_failure: the delay doubles with every failure in a row.
Failed(fail) ==
    LET delay == IF fail.delay = 0 THEN BackoffBase ELSE Min({2 * fail.delay, BackoffMax})
    IN [delay |-> delay, retryAfter |-> moment + delay]

--------------------------------------------------------------------------------
(* Message::Tick, with the GEX panes there are; offline, nothing is asked. *)

DeskTick ==
    /\ \E wanted, online \in BOOLEAN :
          LET d == Consumers(desk, wanted)
          IN desk' = IF online /\ wanted THEN AskTrades(AskOptions(Loaded(d))) ELSE d
    /\ UNCHANGED <<moment, tape, stored, dropped, breaks>>

\* ConnectivityTransition::Restored.
DeskReconnect ==
    /\ desk' = Forced(desk)
    /\ UNCHANGED <<moment, tape, stored, dropped, breaks>>

\* fetch_instruments: what had expired when it was asked for is not in the list, nor what the
\* exchange has made inactive.
Listed == {o \in Options : Listing[o] <= moment /\ desk.asking < Expiry[o]}

\* complete_derive_instruments: the list replaces the one before.
OptionsAnswered ==
    /\ desk.asking # Unset
    /\ LET d == [desk EXCEPT !.asking = Unset, !.forceOptions = FALSE]
       IN \/ \E listed \in SUBSET Listed \ {{}} :
               desk' = [d EXCEPT !.options = listed, !.optionsAt = moment,
                                 !.optionsFail = Fine, !.forceTrades = TRUE]
          \/ desk' = [d EXCEPT !.optionsFail = Failed(@)]   \* an error, or an empty list
    /\ UNCHANGED <<moment, tape, stored, dropped, breaks>>

\* public/get_trade_history: the trades of the time asked for that are settled by asOf.
HistoryPage(request, asOf) ==
    {t \in tape : request.from <= t.at /\ t.at <= request.to /\ t.settled <= asOf}

\* fetch_trade_history keeps those of the options that were known at the request.
DeriveAnswer(request, asOf) == {t \in HistoryPage(request, asOf) : t.option \in request.options}

Finished == [desk EXCEPT !.request = NoRequest, !.forceTrades = FALSE]

\* complete_derive_trades: they join those held, as long as those are retained.
TradesJoin(answer, rest) ==
    LET trades == {t \in desk.trades \cup answer : t.at + Retention >= moment}
        since == IF desk.request.first THEN desk.request.from ELSE desk.since
    IN /\ desk' = [Finished EXCEPT !.trades = trades, !.since = since,
                                   !.watermark = IF trades = {} THEN @ ELSE Newest(trades),
                                   !.tradesAt = moment, !.tradesFail = Fine]
       /\ stored' = [trades |-> trades, since |-> since]
       /\ dropped' = (dropped \cup (rest \ desk.trades)) \ answer

TradesAnswered ==
    /\ desk.request # NoRequest
    /\ \/ \E asOf \in desk.request.to .. moment :
             LET answer == DeriveAnswer(desk.request, asOf)
             IN TradesJoin(answer, HistoryPage(desk.request, asOf) \ answer)
       \/ desk' = [Finished EXCEPT !.tradesFail = Failed(@)] /\ UNCHANGED <<stored, dropped>>
    /\ UNCHANGED <<moment, tape, breaks>>

MomentPasses ==
    /\ moment < LastMoment
    /\ moment' = moment + 1
    /\ UNCHANGED <<tape, desk, stored, dropped, breaks>>

\* The program ends and starts again.
DeskRestarts ==
    /\ breaks < MaxBreaks /\ breaks' = breaks + 1
    /\ desk' = NewDesk
    /\ UNCHANGED <<moment, tape, stored, dropped>>

\* The user clears the cache: the trades in memory stay.
StoreCleared ==
    /\ breaks < MaxBreaks /\ breaks' = breaks + 1
    /\ stored' = NoTrades
    /\ UNCHANGED <<moment, tape, desk, dropped>>

DeriveNext ==
    \/ DeskTick \/ DeskReconnect \/ OptionsAnswered \/ TradesAnswered \/ MomentPasses
    \/ DeskRestarts \/ StoreCleared

DeriveSpec == DeriveInit /\ [][DeriveNext]_deriveVars

--------------------------------------------------------------------------------

DeriveTypeOK ==
    /\ moment \in 1..LastMoment
    /\ tape \in Tapes
    /\ {desk.trades, stored.trades, dropped} \subseteq SUBSET tape
    /\ {desk.asking, desk.watermark, desk.since, stored.since} \subseteq 0..LastMoment
    /\ desk.options \subseteq Options
    /\ {desk.optionsFail.delay, desk.tradesFail.delay} \subseteq 0..BackoffMax
    /\ breaks \in 0..MaxBreaks

\* No maker trade is lost behind the watermark: what is older than the next request reaches
\* back to is held for a day, whatever failed, was settled late, was cleared or restarted in
\* between.  Excepted is what the client itself has thrown away: a trade that came while its
\* option was not in the list - not listed yet, inactive, or expired before a refresh or a
\* restart - and that was not held.  The watermark passes such trades.
MakerTradesAreHeld ==
    desk.watermark # Unset =>
       \A t \in tape \ dropped :
          /\ desk.since <= t.at /\ t.at + Overlap < desk.watermark
          /\ t.at + Retention >= moment
          => t \in desk.trades
================================================================================
