------------------------------- MODULE ChartTrades -------------------------------
(***************************************************************************)
(* The trades of a candlestick chart and the footprints of its candles     *)
(* (src/src/chart/kline.rs, data/src/aggr/time.rs, data/src/chart/         *)
(* kline.rs): live trades, historical trades and candles come in any       *)
(* order, the trades in memory are capped, and the basis of the chart      *)
(* changes.  Which history is asked for is ChartFetch's.                   *)
(*                                                                         *)
(* Abstractions.  At most one execution happens at a point of time.  On    *)
(* Binance's linear futures the live stream has raw trades and the history *)
(* aggregates, under ids of their own; elsewhere both have the same id.    *)
(* Prices and quantities are left out, and so are tick sizes: re-binning   *)
(* takes nothing away from a candle.  Live trades are prompt: one does not *)
(* arrive later than an answer of the history with the same execution.     *)
(***************************************************************************)
EXTENDS Naturals, FiniteSets, FiniteSetsExt, Bags

CONSTANTS LastTick,    \* the end of time
          Steps,       \* timeframes of candles
          HeldCap,     \* MAX_RAW_TRADES
          LiveCap,     \* MAX_LIVE_TRADE_BUCKETS
          MaxTurns     \* bound on changes of the basis and clearings of the cache

ASSUME PlotAssumption ==
    /\ {LastTick, HeldCap, LiveCap, MaxTurns} \subseteq Nat
    /\ Steps \subseteq Nat \ {0}

VARIABLES
    tick,      \* now
    printed,   \* the executions so far, by their time
    linear,    \* whether live and historical trades have different ids
    plot,      \* KlineChart: basis, raw_trades, candles, live_trade_buckets
    past,      \* history: executions whose candle live_trade_buckets has forgotten, or has
               \* under another basis only
    turns      \* changes of the basis and clearings so far

plotVars == <<tick, printed, linear, plot, past, turns>>

OfTicks == 0   \* the basis of a chart of ticks, which has no candles here

NewPlot(basis) == [basis |-> basis, raw |-> {}, candles |-> <<>>, live |-> {}]

PlotInit ==
    /\ tick = 0 /\ printed = {}
    /\ linear \in BOOLEAN
    /\ \E basis \in Steps : plot = NewPlot(basis)
    /\ past = {}
    /\ turns = 0

--------------------------------------------------------------------------------

\* floor_to.
FloorTo(at, basis) == at - (at % basis)

\* A trade is its time and its id.
LiveTrade(at) == [at |-> at, id |-> IF linear THEN "raw" ELSE "any"]
PastTrade(at) == [at |-> at, id |-> IF linear THEN "aggregate" ELSE "any"]

\* KlineDataPoint::add_trade of each of the trades.
AddTrades(footprint, trades) ==
    footprint (+) SetToBag({t \in trades : ~BagIn(t, footprint)})

\* insert_trades_existing_buckets.
InCandles(candles, basis, trades) ==
    [b \in DOMAIN candles |->
        AddTrades(candles[b], {t \in trades : FloorTo(t.at, basis) = b})]

\* retain_latest_raw_trades: one of the ways to keep the newest.
Retained(raw) ==
    IF Cardinality(raw) <= HeldCap THEN {raw}
    ELSE {kept \in kSubset(HeldCap, raw) : \A t \in raw \ kept, k \in kept : t.at <= k.at}

\* deduplicate_incoming_trades.
Unheld(trades) == trades \ plot.raw

\* What insert_trades and insert_raw_trades have in common.
Insert(trades, live) ==
    \E raw \in Retained(plot.raw \cup trades) :
       plot' = [plot EXCEPT !.raw = raw, !.live = live,
                            !.candles = InCandles(@, plot.basis, trades)]

\* Mutation of HistoryKept: history joins what came live.
HistoryKeptAll(trades) == trades

\* exclude_historical_overlap_with_live.
HistoryKept(trades) == {t \in trades : FloorTo(t.at, plot.basis) \notin plot.live}

--------------------------------------------------------------------------------

\* The candles that stay in live_trade_buckets when the latest trade comes.
LiveKept(live, latest) ==
    IF Cardinality(live) <= LiveCap THEN live
    ELSE {b \in live : b + LiveCap * plot.basis >= latest}

\* Executions of candles that are more than LiveCap before the latest.
Outlived(latest) == {at \in printed : FloorTo(at, plot.basis) + LiveCap * plot.basis < latest}

\* insert_trades: the candle of the trade has live trades from now on, on the linear market.
LiveArrives ==
    LET trades == Unheld({LiveTrade(tick)})
        latest == FloorTo(tick, plot.basis)
        grown == plot.live \cup {latest}
        live == LiveKept(grown, latest)
    IN IF linear /\ plot.basis # OfTicks
       THEN /\ Insert(trades, live)
            /\ past' = IF live = grown THEN past ELSE past \cup Outlived(latest)
       ELSE Insert(trades, plot.live) /\ UNCHANGED past

\* Time passes, perhaps with an execution, which comes live unless the stream is down.
TickPasses ==
    /\ tick < LastTick /\ tick' = tick + 1
    /\ UNCHANGED <<linear, turns>>
    /\ \/ UNCHANGED <<printed, plot, past>>
       \/ printed' = printed \cup {tick} /\ UNCHANGED <<plot, past>>
       \/ printed' = printed \cup {tick} /\ LiveArrives

\* The executions of a range come from the history: insert_raw_trades.
HistoryArrives ==
    /\ \E from \in 0..(tick - 1) : \E to \in from..(tick - 1) :
          LET trades == Unheld({PastTrade(at) : at \in printed \cap from..to})
          IN /\ plot.basis # OfTicks
             /\ Insert(HistoryKept(trades), plot.live)
    /\ UNCHANGED <<tick, printed, linear, past, turns>>

\* Mutation of CandleArrives: a new candle starts empty.
CandleArrivesEmpty ==
    /\ plot.basis # OfTicks
    /\ \E at \in 0..tick :
          LET b == FloorTo(at, plot.basis)
          IN /\ b \notin DOMAIN plot.candles
             /\ plot' = [plot EXCEPT !.candles =
                            [c \in DOMAIN @ \cup {b} |-> IF c = b THEN EmptyBag ELSE @[c]]]
    /\ UNCHANGED <<tick, printed, linear, past, turns>>

\* A candle the chart does not have yet, of the stream (update_latest_kline) or of the history
\* (insert_hist_klines): it gets the trades in memory.
CandleArrives ==
    /\ plot.basis # OfTicks
    /\ \E at \in 0..tick :
          LET b == FloorTo(at, plot.basis)
              held == {t \in plot.raw : FloorTo(t.at, plot.basis) = b}
          IN /\ b \notin DOMAIN plot.candles
             /\ plot' = [plot EXCEPT !.candles =
                            [c \in DOMAIN @ \cup {b} |->
                                IF c = b THEN AddTrades(EmptyBag, held) ELSE @[c]]]
    /\ UNCHANGED <<tick, printed, linear, past, turns>>

Turn == turns < MaxTurns /\ turns' = turns + 1

\* set_basis: from and to ticks, the trades in memory go; live_trade_buckets stays.
BasisChanges ==
    /\ Turn
    /\ \E basis \in (Steps \cup {OfTicks}) \ {plot.basis} :
          plot' = [plot EXCEPT !.basis = basis, !.candles = <<>>,
                               !.raw = IF OfTicks \in {basis, plot.basis} THEN {} ELSE @]
    /\ past' = past \cup {t.at : t \in {u \in plot.raw : u = LiveTrade(u.at)}}
    /\ UNCHANGED <<tick, printed, linear>>

\* invalidate_market_data_cache: all trades go, live_trade_buckets stays.
PlotCleared ==
    /\ Turn
    /\ plot' = [plot EXCEPT !.raw = {}, !.candles = [b \in DOMAIN @ |-> EmptyBag]]
    /\ UNCHANGED <<tick, printed, linear, past>>

PlotNext ==
    \/ TickPasses \/ HistoryArrives \/ CandleArrives \/ BasisChanges \/ PlotCleared

PlotSpec == PlotInit /\ [][PlotNext]_plotVars

--------------------------------------------------------------------------------

PlotTypeOK ==
    /\ tick \in 0..LastTick /\ printed \subseteq 0..(tick - 1) /\ past \subseteq printed
    /\ plot.basis \in Steps \cup {OfTicks}
    /\ \A t \in plot.raw : t.at \in printed /\ t \in {LiveTrade(t.at), PastTrade(t.at)}
    /\ \A b \in DOMAIN plot.candles : IsABag(plot.candles[b])
    /\ turns \in 0..MaxTurns

\* How often a trade is in a footprint.
Copies(trade, footprint) == IF BagIn(trade, footprint) THEN footprint[trade] ELSE 0

\* No execution counts twice in the footprints, whatever came live, from the history, or both,
\* in what order, and how often.  Excepted is the sum of the live trade and the historical one
\* on the linear market, where their ids differ, for executions whose candle is not among the
\* live ones any more: they came live under another basis, or LiveCap candles and more before
\* the latest.  The history joins the live trades of these.
NothingCountsTwice ==
    \A b \in DOMAIN plot.candles : \A at \in printed :
       LET live == Copies(LiveTrade(at), plot.candles[b])
           older == Copies(PastTrade(at), plot.candles[b])
       IN live <= 1 /\ older <= 1 /\ (linear /\ at \notin past => live + older <= 1)

\* The trades in memory are in the footprint of their candle, whichever came first, the trade
\* or the candle.
HeldTradesAreShown ==
    plot.basis # OfTicks =>
       \A t \in plot.raw :
          FloorTo(t.at, plot.basis) \in DOMAIN plot.candles =>
             BagIn(t, plot.candles[FloorTo(t.at, plot.basis)])
================================================================================
