------------------------------ MODULE BookMirror ------------------------------
(***************************************************************************)
(* What a depth stream promises the consumers of its order-flow events.    *)
(* The exchange moves through the history Book[1], Book[2], ...  A         *)
(* consumer either knows that it has no book (Lost), or holds the image of *)
(* one update id of that history.  It may be given an image (Sync), an     *)
(* image may be moved forward (Advance), and it may be told that the image *)
(* is no longer good (Lose).  It never holds a book the exchange did not   *)
(* have, and an image never moves backwards without the consumer being     *)
(* told that it lost it first.                                             *)
(***************************************************************************)
EXTENDS Naturals

CONSTANTS MaxId,    \* the last update id of the exchange's history
          Book,     \* Book[i]: the exchange's book after update i
          Lost      \* the view of a consumer that knows it has no book

VARIABLES now,      \* the exchange's last update id
          view      \* Lost, or an image [id, depth] of the book

vars == <<now, view>>

Image(id) == [id |-> id, depth |-> Book[id]]

Init == now = 1 /\ view = Lost

Tick == now < MaxId /\ now' = now + 1 /\ UNCHANGED view

Sync == \E id \in 1..now : view = Lost /\ view' = Image(id) /\ UNCHANGED now

Advance == \E id \in 1..now : /\ view # Lost /\ id > view.id
                              /\ view' = Image(id)
                              /\ UNCHANGED now

Lose == view' = Lost /\ UNCHANGED now

Next == Tick \/ Sync \/ Advance \/ Lose

Spec == Init /\ [][Next]_vars
===============================================================================
