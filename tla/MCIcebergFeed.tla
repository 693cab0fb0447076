---------------------------- MODULE MCIcebergFeed ----------------------------
(* Small markets for the detector. *)
EXTENDS IcebergFeed

\* One side, for the runs that go far in time.
MCBook == [k \in Key |-> IF k = <<"Bid", 2>> THEN 2 ELSE 1]

MCScored == {{}, Key}

MCAllScored == {Key}

\* Two bid levels under one ask level.
MCTwoSides == [k \in Key |-> IF k \in {<<"Bid", 2>>, <<"Ask", 3>>} THEN 2
                             ELSE IF k = <<"Bid", 1>> THEN 1 ELSE 0]
==============================================================================
