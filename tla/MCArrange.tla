------------------------------ MODULE MCArrange ------------------------------
(***************************************************************************)
(* Arrange over every saved layout of three windows (two columns, stacks   *)
(* of two and three, floating or without a place) beside two open columns, *)
(* one of them a stack.                                                    *)
(***************************************************************************)
EXTENDS Arrange

MCOpen == <<<<101>>, <<102, 103>>>>

New == {1, 2, 3}
At(c, t) == [column |-> c, tile |-> t, floating |-> FALSE]
Floating == [column |-> 0, tile |-> 1, floating |-> TRUE]
NoPlace == [column |-> 0, tile |-> 1, floating |-> FALSE]
Places == {At(c, t) : c \in {2, 5, 7}, t \in 1 .. 3} \cup {Floating, NoPlace}

\* Saved tiles of a column are numbered from 1 and no two windows share one.
MCLayouts ==
  {l \in [New -> Places] :
    /\ \A v, w \in New : v # w /\ l[v].column # 0 =>
         l[v].column # l[w].column \/ l[v].tile # l[w].tile
    /\ \A v \in New : l[v].tile > 1 =>
         \E w \in New : l[w].column = l[v].column /\ l[w].tile = l[v].tile - 1}
=============================================================================
