---------------------------- MODULE MCOlapKernel ----------------------------
(* Instances of OlapKernel for TLC: four vertices, the graphs as lists of   *)
(* edges in one order (ids of edges say nothing), the calls                 *)
EXTENDS OlapKernel

MCNode == 1..4
\* The order of the id texts is not the order of the rowids, and two texts agree
MCText == <<2, 4, 1, 2>>

\* n edges taken from ends, which are <<src, tgt, w>>, in a fixed order
Place(x) == x[1] + 4 * x[2] + 16 * (x[3] + 1)
Lists(ends, n) ==
  {[e \in 1..n |-> [src |-> f[e][1], tgt |-> f[e][2], w |-> f[e][3]]] :
     f \in {g \in [1..n -> ends] : \A i \in 1..(n - 1) : Place(g[i]) <= Place(g[i + 1])}}
Pairs == {p \in MCNode \X MCNode : p[1] # p[2]}

ThreeEdges == Lists({<<p[1], p[2], (p[1] + p[2]) % 3>> : p \in MCNode \X MCNode}, 3)
Pad(f, n) == [e \in 1..n |-> IF e \in DOMAIN f THEN f[e] ELSE f[Cardinality(DOMAIN f)]]
\* Undirected graphs without loops and parallels, as far as the clique of four
Cliques ==
  {Pad(LET n == Cardinality(S)
           nth(i) == CHOOSE p \in S : Cardinality({q \in S : Place(<<q[1], q[2], 0>>) < Place(<<p[1], p[2], 0>>)}) = i - 1
       IN [e \in 1..n |-> [src |-> nth(e)[1], tgt |-> nth(e)[2], w |-> (nth(e)[1] + nth(e)[2]) % 3]], 6) :
     S \in {T \in SUBSET {p \in MCNode \X MCNode : p[1] < p[2]} : T # {}}}
\* Two edges, some of them of negative weight
Signed == Lists({<<p[1], p[2], w>> : p \in Pairs, w \in {-1, 0, 2}}, 2)
MCGraphs == Cliques \cup {Pad(f, 6) : f \in ThreeEdges \cup Signed}

Call(algo, direction) ==
  [algo |-> algo, direction |-> direction, weighted |-> FALSE, threshold |-> 0, sources |-> MCNode]
MCJobs ==
  {Call("wcc", "both"), [Call("wcc", "both") EXCEPT !.weighted = TRUE, !.threshold = 1], Call("kcore", "both"),
   Call("peer", "out"), Call("peer", "both"), Call("scc", "out"), Call("closeness", "in"),
   [Call("path", "both") EXCEPT !.weighted = TRUE, !.sources = {1, 2}],
   [Call("path", "out") EXCEPT !.weighted = TRUE, !.sources = {1, 2}],
   [Call("path", "in") EXCEPT !.sources = {1}]}
=============================================================================
