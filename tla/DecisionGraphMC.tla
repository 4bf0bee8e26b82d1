---------------------------- MODULE DecisionGraphMC ----------------------------
(* Graphs for TLC to check DecisionGraph with. *)
EXTENDS DecisionGraph

(* A graph of leaves 1..k and of the binary nodes after them. *)
Graph(k, ops, children, tops) ==
  LET size == k + Len(ops) IN
  [kind |-> [n \in 1..size |-> IF n <= k THEN "leaf" ELSE ops[n - k]],
   left |-> [n \in 1..size |-> IF n <= k THEN 0 ELSE children[n - k][1]],
   right |-> [n \in 1..size |-> IF n <= k THEN 0 ELSE children[n - k][2]],
   tops |-> tops]

Ops(k) == [1..k -> {"and", "or"}]

(* Every tree of and/or nodes over three and over four leaves, and two     *)
(* trees next to each other.                                               *)
Trees ==
  {Graph(3, ops, c, <<5>>) : ops \in Ops(2),
     c \in {<< <<1, 2>>, <<4, 3>> >>, << <<2, 3>>, <<1, 4>> >>}}
  \cup
  {Graph(4, ops, c, <<7>>) : ops \in Ops(3),
     c \in {<< <<1, 2>>, <<5, 3>>, <<6, 4>> >>, << <<2, 3>>, <<1, 5>>, <<6, 4>> >>,
            << <<1, 2>>, <<3, 4>>, <<5, 6>> >>, << <<2, 3>>, <<5, 4>>, <<1, 6>> >>,
            << <<3, 4>>, <<2, 5>>, <<1, 6>> >>}}
  \cup
  {Graph(4, ops, << <<1, 2>>, <<3, 4>> >>, <<5, 6>>) : ops \in Ops(2)}

(* Nodes asked by the start share their children, leaves or binary nodes.  *)
SharedBelowTops ==
  {Graph(2, ops, << <<1, 2>>, <<2, 1>> >>, <<3, 4>>) : ops \in Ops(2)}
  \cup
  {Graph(3, ops, << <<1, 2>>, <<3, 2>> >>, <<4, 5>>) : ops \in Ops(2)}
  \cup
  {Graph(3, ops, << <<1, 2>>, <<1, 3>>, <<3, 2>> >>, <<4, 5, 6>>) : ops \in Ops(3)}
  \cup
  {Graph(4, ops, << <<1, 2>>, <<3, 5>>, <<4, 5>> >>, <<6, 7>>) : ops \in Ops(3)}

(* One transition after the other. *)
Reused ==
  {Graph(2, ops, << <<1, 2>> >>, <<3>>) : ops \in Ops(1)}
  \cup {Graph(3, << >>, << >>, <<1, 2, 3>>)}
  \cup {Graph(3, ops, << <<2, 3>>, <<1, 4>> >>, <<5>>) : ops \in Ops(2)}

OneAnd == {Graph(2, <<"and">>, << <<1, 2>> >>, <<3>>)}

AllGraphs == Trees \cup SharedBelowTops \cup Reused
=============================================================================
