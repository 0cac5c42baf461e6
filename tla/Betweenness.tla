----------------------------- MODULE Betweenness -----------------------------
(***************************************************************************)
(* call("betweenness") (services/catalog/olap/betweenness.ts): how many    *)
(* shortest paths run through each vertex, for all sources in one scratch  *)
(* table that keeps a round for each level. Forward, a level a statement,  *)
(* the paths are counted (sigma); backward, over the same levels, what     *)
(* each vertex carries of them is summed (delta); then over the sources.   *)
(* The scores are in parts of Scale, which divides by every sigma the      *)
(* graphs give: what is a REAL in the table is exact here.                 *)
(***************************************************************************)
EXTENDS Integers, FiniteSets, FiniteSetsExt

CONSTANTS Node, Edge, Graphs, Scale

ASSUME BetweennessAssumption ==
  /\ IsFiniteSet(Node) /\ IsFiniteSet(Edge) /\ Node \subseteq Nat \ {0}  \* rowids, and 0 is the scope of the result
  /\ Graphs \subseteq [Edge -> Node \X Node]
  /\ Scale \in Nat \ {0}

VARIABLES
  graph,    \* where each edge starts and ends, turned by the scope's direction
  state,    \* barrier_state of this run: <<round, scope, id, channel>> to the value
  level,    \* the level the next statement reads
  maxLevel, \* the last level a vertex was found at
  phase     \* "seed", "forward", "backward", "total", "done"
vars == <<graph, state, level, maxLevel, phase>>

Sigma == 0
Delta == 1

Hops(u, v) == Cardinality({e \in Edge : graph[e] = <<u, v>>})
At(round, s, v, channel) == <<round, s, v, channel>> \in DOMAIN state
Add(f, g) == [k \in DOMAIN f \cup DOMAIN g |-> IF k \in DOMAIN g THEN g[k] ELSE f[k]]

-----------------------------------------------------------------------------
Init ==
  /\ graph \in Graphs
  /\ state = [k \in {} |-> 0]
  /\ level = 0 /\ maxLevel = 0 /\ phase = "seed"

Seed ==
  /\ phase = "seed"
  /\ state' = [k \in {<<0, v, v, Sigma>> : v \in Node} |-> 1]
  /\ phase' = "forward"
  /\ UNCHANGED <<graph, level, maxLevel>>

\* nextf: the pairs one hop beyond the frontier, with the sum of the counts that lead there
Onward(s, v) ==
  MapThenSumSet(LAMBDA u : state[<<level, s, u, Sigma>>] * Hops(u, v), {u \in Node : At(level, s, u, Sigma)})
Reached(s, v) == \E l \in 0..level : At(l, s, v, Sigma)
Found == {<<level + 1, p[1], p[2], Sigma>> : p \in {q \in Node \X Node : Onward(q[1], q[2]) > 0 /\ ~Reached(q[1], q[2])}}
Forward ==
  /\ phase = "forward" /\ level < Cardinality(Node)
  /\ Found # {}
  /\ state' = Add(state, [k \in Found |-> Onward(k[2], k[3])])
  /\ level' = level + 1 /\ maxLevel' = level + 1
  /\ UNCHANGED <<graph, phase>>
\* Nothing was found (or the levels ran out): the walk turns at the last level
Turn ==
  /\ phase = "forward"
  /\ level = Cardinality(Node) \/ Found = {}
  /\ level' = maxLevel /\ phase' = "backward"
  /\ UNCHANGED <<graph, state, maxLevel>>

\* contrib: what v carries of the paths its successors of the level above lie on; a row of the level
\* above without a delta counts 0
DeltaOf(round, s, v) == IF At(round, s, v, Delta) THEN state[<<round, s, v, Delta>>] ELSE 0
CarriedBelow(s, v) == \* mutant: the level's own delta
  MapThenSumSet(
    LAMBDA w : Hops(v, w) * ((state[<<level, s, v, Sigma>>] * (Scale + DeltaOf(level, s, w))) \div state[<<level + 1, s, w, Sigma>>]),
    {w \in Node : At(level + 1, s, w, Sigma)})
Carried(s, v) ==
  MapThenSumSet(
    LAMBDA w : Hops(v, w) * ((state[<<level, s, v, Sigma>>] * (Scale + DeltaOf(level + 1, s, w))) \div state[<<level + 1, s, w, Sigma>>]),
    {w \in Node : At(level + 1, s, w, Sigma)})
Backward ==
  /\ phase = "backward"
  /\ LET cur == {p \in Node \X Node : At(level, p[1], p[2], Sigma)}
     IN state' = Add(state, [k \in {<<level, p[1], p[2], Delta>> : p \in cur} |-> Carried(k[2], k[3])])
  /\ IF level = 0 THEN phase' = "total" /\ level' = level ELSE level' = level - 1 /\ phase' = phase
  /\ UNCHANGED <<graph, maxLevel>>

\* The sum over the other sources, in a round no level used
Counts(k, v) == k[4] = Delta /\ k[3] = v /\ k[2] # v
Total ==
  /\ phase = "total"
  /\ state' = Add(state, [k \in {<<maxLevel + 1, 0, v, Sigma>> : v \in Node} |->
       MapThenSumSet(LAMBDA r : state[r], {r \in DOMAIN state : Counts(r, k[3])})])
  /\ phase' = "done"
  /\ UNCHANGED <<graph, level, maxLevel>>

Next == Seed \/ Forward \/ Turn \/ Backward \/ Total

Spec == Init /\ [][Next]_vars

-----------------------------------------------------------------------------
(* What the score means                                                    *)

\* The ways along n edges from s to t, and of those the shortest
Walks(s, t, n) ==
  {f \in [1..n -> Edge] :
    IF n = 0 THEN s = t
    ELSE /\ graph[f[1]][1] = s /\ graph[f[n]][2] = t
         /\ \A i \in 1..(n - 1) : graph[f[i]][2] = graph[f[i + 1]][1]}
Reachable(s, t) == \E n \in 0..(Cardinality(Node) - 1) : Walks(s, t, n) # {}
Hop(s, t) == CHOOSE n \in 0..(Cardinality(Node) - 1) :
  Walks(s, t, n) # {} /\ \A m \in 0..(n - 1) : Walks(s, t, m) = {}
Shortest(s, t) == Walks(s, t, Hop(s, t))
Inside(f, v) == \E i \in DOMAIN f : graph[f[i]][2] = v

\* In the end a pair has exactly the round of its distance and there the number of
\* its shortest paths, parallel edges each counting (the header: "Node v lands in round dist(s,v)").
SigmaRight ==
  phase = "done" =>
    \A s, v \in Node, l \in 0..Cardinality(Node) :
      /\ At(l, s, v, Sigma) <=> Reachable(s, v) /\ l = Hop(s, v)
      /\ At(l, s, v, Sigma) => state[<<l, s, v, Sigma>>] = Cardinality(Shortest(s, v))

\* The score of a vertex is, over every other source and every other target, the share of the shortest
\* paths between the two that run through it (the header of betweenness.ts).
SharesRight ==
  phase = "done" =>
    \A v \in Node :
      LET pairs == {p \in (Node \ {v}) \X (Node \ {v}) : p[1] # p[2] /\ Reachable(p[1], p[2])}
          through(p) == Cardinality({f \in Shortest(p[1], p[2]) : Inside(f, v)})
      IN state[<<maxLevel + 1, 0, v, Sigma>>] =
           MapThenSumSet(LAMBDA p : (Scale * through(p)) \div Cardinality(Shortest(p[1], p[2])), pairs)

\* Both passes of createBetweennessService count right: the paths and what runs through each vertex.
BetweennessRight == SigmaRight /\ SharesRight
=============================================================================
