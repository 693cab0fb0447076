-------------------------------- MODULE MCStudio --------------------------------
(***************************************************************************)
(* One small instance of each part of the application that is modelled in  *)
(* a module of its own.  The parts share no state: a behaviour exercises   *)
(* one of them, and the others stay as they start.                         *)
(***************************************************************************)
EXTENDS WsSession, MarketOutage, MarketCache, DeriveTrades, GexChain, RestWorker, ChartTrades,
        BubbleSummaries

VARIABLE part   \* the one this behaviour exercises

vars == <<part, sessionVars, outageVars, cacheVars, deriveVars, chainVars, restVars, plotVars,
          bubbleVars>>

Init ==
    /\ part \in {"session", "outage", "cache", "derive", "chain", "rest", "plot", "bubbles"}
    /\ SessionInit /\ OutageInit /\ CacheInit /\ DeriveInit /\ ChainInit
    /\ RestInit /\ PlotInit /\ BubbleInit
    /\ part # "session" => adapter.kind = "batch"
    /\ part # "outage" => configured = Streams
    /\ part # "rest" => limiter = NewLimiter("fixed")
    /\ part # "plot" => linear /\ plot.basis = Max(Steps)

\* What stays as it is while one part is exercised: the others.
Rests(name, variables) == part # name => UNCHANGED variables

Others ==
    /\ UNCHANGED part
    /\ Rests("session", sessionVars) /\ Rests("outage", outageVars) /\ Rests("cache", cacheVars)
    /\ Rests("derive", deriveVars) /\ Rests("chain", chainVars)
    /\ Rests("rest", restVars) /\ Rests("plot", plotVars) /\ Rests("bubbles", bubbleVars)

Next ==
    \/ part = "session" /\ SessionNext /\ Others
    \/ part = "outage" /\ OutageNext /\ Others
    \/ part = "cache" /\ CacheNext /\ Others
    \/ part = "derive" /\ DeriveNext /\ Others
    \/ part = "chain" /\ ChainNext /\ Others
    \/ part = "rest" /\ RestNext /\ Others
    \/ part = "plot" /\ PlotNext /\ Others
    \/ part = "bubbles" /\ BubbleNext /\ Others

\* Of the part that is exercised, the tasks and the clocks run: the session task and the
\* I/O task with its heartbeat, or the worker, whose requests end at their timeout.  Nothing
\* is assumed of what an exchange sends, and nothing is asked of the other parts.
Fairness ==
    /\ WF_sessionVars(part = "session" /\ SendNext)
    /\ WF_sessionVars(part = "session" /\ Round)
    /\ WF_sessionVars(part = "session" /\ Heartbeat)
    /\ WF_restVars(part = "rest" /\ WorkerRuns)
    /\ WF_restVars(part = "rest" /\ RequestFails)
    /\ WF_restVars(part = "rest" /\ SecondTicks)

Spec == Init /\ [][Next]_vars /\ Fairness

TypeOK ==
    /\ SessionTypeOK /\ OutageTypeOK /\ CacheTypeOK /\ DeriveTypeOK /\ ChainTypeOK
    /\ RestTypeOK /\ PlotTypeOK /\ BubbleTypeOK

\* Two instants of one bucket and one of the next; a page ends inside the second.
Trade(at, rank) == [at |-> at, rank |-> rank]

Market == {{Trade(0, 1), Trade(1, 1), Trade(1, 2), Trade(2, 1)}}

\* Maker trades: one settled late, of an option that expires then; two of one listed late.
Maker(at, settled, option) == [at |-> at, settled |-> settled, option |-> option]

Makers == {{Maker(1, 3, "old"), Maker(2, 2, "old"), Maker(3, 3, "late"), Maker(4, 4, "late")}}

Known == {"old", "late"}

From == [o \in Known |-> IF o = "late" THEN 3 ELSE 0]

Until == [o \in Known |-> IF o = "old" THEN 3 ELSE 9]

\* Executions of two candles, the largest and the smallest in either half of the first, and one
\* where the second begins, which is also the end of a chunk.
Filled(at, size) == [at |-> at, size |-> size]

Prints == {Filled(1, 3), Filled(2, 1), Filled(3, 4), Filled(4, 5), Filled(5, 2), Filled(7, 6)}
================================================================================
