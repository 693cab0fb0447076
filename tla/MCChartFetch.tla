------------------------------ MODULE MCChartFetch ------------------------------
(* Small instances of ChartFetch: candles, and requests, of two points. *)
EXTENDS ChartFetch

\* A trade within each candle, the open one included, and none at the start of a candle.
OffBoundary == {{1, 3, 5}}

\* Trades everywhere, or within the candles only.
Dense == {0..4, {1, 3}}

\* A trade where one request's range ends and the next one's begins.
Boundary == {{1, 2, 3, 5}}
================================================================================
