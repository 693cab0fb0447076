----------------------------- MODULE MCDepthSync -----------------------------
(* A history of six updates over two levels; update 3 changes nothing. *)
EXTENDS DepthSync

CONSTANTS bid, ask

MCLevel == {bid, ask}

B(b, a) == [l \in MCLevel |-> IF l = bid THEN b ELSE a]

MCBook == [i \in 0..MaxId |->
             <<B(0, 0), B(1, 0), B(1, 1), B(1, 1), B(0, 1), B(1, 2), B(1, 0)>>[i + 1]]
===============================================================================
