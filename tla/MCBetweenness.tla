--------------------------- MODULE MCBetweenness ---------------------------
(* Instances of Betweenness for TLC: every graph of five edges between four *)
(* vertices, in one order of the edges (their ids say nothing), parallel    *)
(* edges among them; a loop only where it stands last and twice             *)
EXTENDS Betweenness

Place(p) == p[1] + 4 * p[2]
Pairs == {p \in Node \X Node : p[1] # p[2]}
MCGraphs ==
  {g \in [Edge -> Pairs] : \A e \in 1..4 : Place(g[e]) <= Place(g[e + 1])} \cup
  {[e \in Edge |-> IF e > 3 THEN <<v, v>> ELSE g[e]] :
     g \in {f \in [1..3 -> Pairs] : Place(f[1]) <= Place(f[2]) /\ Place(f[2]) <= Place(f[3])}, v \in {1, 2}}
=============================================================================
