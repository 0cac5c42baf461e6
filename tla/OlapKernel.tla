----------------------------- MODULE OlapKernel -----------------------------
(***************************************************************************)
(* The graph algorithms that iterate in SQL (services/catalog/olap): a     *)
(* scratch table whose two slots take turns, one INSERT..SELECT a round,   *)
(* until a round changes nothing or the rounds run out.                    *)
(*   kernel.ts         iterateInSql, the deltas, relaxShortestPath         *)
(*   wcc.ts            connectedComponent: the least id text spreads       *)
(*   kcore.ts          coreness: each round the h-index of the neighbours  *)
(*   peer-pressure.ts  clusters: each vertex takes what most voters have   *)
(*   scc.ts            strongly connected components, in one statement     *)
(*   centrality.ts     closeness: distances reduced to one score a vertex  *)
(*   shortestpath.ts   the paths rebuilt from the distances                *)
(* An apply is synchronous, so a round is a step only to be looked at.     *)
(***************************************************************************)
EXTENDS Integers, Sequences, FiniteSets, FiniteSetsExt

CONSTANTS
  Node,     \* the vertices
  Edge,     \* the edges
  Text,     \* the place of a vertex's external id among all id texts
  Graphs,   \* what the edges may be: functions from Edge to [src, tgt, w], w being 0 for an absent weight
  Jobs,     \* the calls: [algo, direction, weighted, threshold, sources]
  PeerRounds \* PP_MAX_ITERATIONS

ASSUME OlapAssumption ==
  /\ IsFiniteSet(Node) /\ Node # {} /\ IsFiniteSet(Edge)
  /\ Text \in [Node -> Nat]
  /\ Graphs \subseteq [Edge -> [src : Node, tgt : Node, w : Int]]
  /\ Jobs \subseteq [algo : {"wcc", "kcore", "peer", "scc", "path", "closeness"}, direction : {"out", "in", "both"},
                     weighted : BOOLEAN, threshold : Int, sources : SUBSET Node]
  /\ \A j \in Jobs :
       /\ (j.algo = "wcc" => j.direction = "both") /\ (j.algo = "scc" => j.direction = "out")
       /\ (j.algo = "peer" => ~j.weighted)
       /\ (j.algo = "closeness" => j.direction = "in" /\ ~j.weighted /\ j.sources = Node)
  /\ PeerRounds \in Nat

VARIABLES
  graph, \* the edges of this store
  job,   \* the call
  slot,  \* barrier_state: slot[0] and slot[1] hold a vector, slot[2] the score of a centrality
  cur,   \* the slot that holds the vector
  round, \* how many rounds went
  phase, \* "seed", "rounds", "fixed" (a round changed nothing), "exhausted", "walk", "done"
  walk   \* shortest paths: [src, path] of each traverser rebuilt so far
vars == <<graph, job, slot, cur, round, phase, walk>>

-----------------------------------------------------------------------------
(* Adjacency: one row per edge and direction                               *)

Row(e, rev) ==
  [src |-> IF rev THEN graph[e].tgt ELSE graph[e].src, tgt |-> IF rev THEN graph[e].src ELSE graph[e].tgt,
   w |-> IF job.weighted THEN graph[e].w ELSE 1, edge |-> e, rev |-> rev]
Adjacency ==
  {Row(e, FALSE) : e \in IF job.direction = "in" THEN {} ELSE Edge} \cup
  {Row(e, TRUE) : e \in IF job.direction = "out" THEN {} ELSE Edge}

\* und(x, y): both directions, no loops, no parallels
Und(x) == {y \in Node \ {x} : \E e \in Edge : {graph[e].src, graph[e].tgt} = {x, y}}

-----------------------------------------------------------------------------
(* connectedComponent                                                      *)

JoinsFrom(r) == job.weighted => r.w >= job.threshold \* mutant: the threshold itself joins
Joins(r) == job.weighted => r.w > job.threshold
WccSeed == [v \in Node |-> Text[v]]
WccRound(t) ==
  [v \in Node |-> Min({t[v]} \cup {t[r.src] : r \in {a \in Adjacency : a.tgt = v /\ Joins(a)}})]

(* kcore *)
KCoreSeed == [v \in Node |-> Cardinality(Und(v))]
\* Mutant: a rank counts from 0
HIndexFromZero(t, v) ==
  LET atMin(k) == Cardinality({y \in Und(v) : t[y] >= k})
  IN Max({0} \cup {k \in 1..Cardinality(Und(v)) : atMin(k) >= k - 1})
\* The largest rank whose estimate, in descending order, is not below it
HIndex(t, v) ==
  LET atMin(k) == Cardinality({y \in Und(v) : t[y] >= k})
  IN Max({0} \cup {k \in 1..Cardinality(Und(v)) : atMin(k) >= k})
KCoreRound(t) == [v \in Node |-> HIndex(t, v)]

(* peerPressure: a cluster is the vertex whose id names it *)
(* (between clusters of one text SQLite's order decides; here CHOOSE) *)
PeerSeed == [v \in Node |-> v]
Votes(t, v, c) == Cardinality({r \in Adjacency : r.tgt = v /\ t[r.src] = c}) + (IF t[v] = c THEN 1 ELSE 0)
PeerRound(t) ==
  [v \in Node |->
    LET ranked(c, d) == Votes(t, v, c) > Votes(t, v, d) \/ (Votes(t, v, c) = Votes(t, v, d) /\ Text[c] <= Text[d])
    IN CHOOSE c \in Node : \A d \in Node : ranked(c, d)]

(* scc: the closure of the edges, and of those that reach each other the least id text *)
Reach ==
  LET reach[n \in 0..Cardinality(Node)] ==
        IF n = 0 THEN {<<v, v>> : v \in Node}
        ELSE reach[n - 1] \cup {<<x[1][1], graph[x[2]].tgt>> : x \in {y \in reach[n - 1] \X Edge : graph[y[2]].src = y[1][2]}}
  IN reach[Cardinality(Node)]
Mutual(v) == {u \in Node : {<<v, u>>, <<u, v>>} \subseteq Reach}
SccScore == [v \in Node |-> Min({Text[u] : u \in Mutual(v)})]

(* relaxShortestPath: dist[<<s, v>>], absent when v was not reached from s *)
PathSeed == [p \in {<<s, s>> : s \in job.sources} |-> 0]
Relaxed(t, p) ==
  {t[q] : q \in DOMAIN t \cap {p}} \cup
  {t[<<p[1], r.src>>] + r.w : r \in {a \in Adjacency : a.tgt = p[2] /\ <<p[1], a.src>> \in DOMAIN t}}
PathRound(t) == [p \in {q \in job.sources \X Node : Relaxed(t, q) # {}} |-> Min(Relaxed(t, p))]

-----------------------------------------------------------------------------
(* The driver                                                              *)

Distances == job.algo \in {"path", "closeness"}

SeedOf ==
  CASE job.algo = "wcc" -> WccSeed [] job.algo = "kcore" -> KCoreSeed
    [] job.algo = "peer" -> PeerSeed [] job.algo = "scc" -> SccScore [] OTHER -> PathSeed
RoundOf(t) ==
  CASE job.algo = "wcc" -> WccRound(t) [] job.algo = "kcore" -> KCoreRound(t)
    [] job.algo = "peer" -> PeerRound(t) [] OTHER -> PathRound(t)
MaxRoundsShort == \* mutant: one round less than vertices, so none is left to see that nothing changes
  CASE job.algo = "peer" -> PeerRounds [] OTHER -> Cardinality(Node) - 1
MaxRounds ==
  CASE job.algo = "peer" -> PeerRounds [] Distances -> Cardinality(Node) [] OTHER -> Cardinality(Node) + 1

\* changedCount joins the two slots: rows of both that differ
ChangedCount(prev, next) == {k \in DOMAIN prev \cap DOMAIN next : prev[k] # next[k]}
\* changedOrNew starts from the next slot: its rows the other has not, or has with another value
ChangedOrNew(prev, next) == {k \in DOMAIN next : k \notin DOMAIN prev \/ prev[k] # next[k]}
ChangedJoined(prev, next) == ChangedCount(prev, next) \* mutant: the sparse vector compared by a join
Changed(prev, next) == IF Distances THEN ChangedOrNew(prev, next) ELSE ChangedCount(prev, next)

None == [k \in {} |-> 0]

Init ==
  /\ graph \in Graphs /\ job \in Jobs
  /\ slot = [s \in 0..2 |-> None]
  /\ cur = 0 /\ round = 0 /\ phase = "seed" /\ walk = {}

Seed ==
  /\ phase = "seed"
  /\ slot' = [slot EXCEPT ![0] = SeedOf]
  /\ phase' = IF job.algo = "scc" THEN "done" ELSE IF MaxRounds = 0 THEN "exhausted" ELSE "rounds"
  /\ UNCHANGED <<graph, job, cur, round, walk>>

\* Mutant: the slot the round writes is not emptied first, its old rows stay where the new ones do not fall
RoundOver ==
  /\ phase = "rounds"
  /\ LET next == 1 - cur
         new == RoundOf(slot[cur])
         left == slot[next]
     IN /\ slot' = [slot EXCEPT ![next] = [k \in DOMAIN new \cup DOMAIN left |-> IF k \in DOMAIN left THEN left[k] ELSE new[k]]]
        /\ cur' = next
        /\ phase' = IF Changed(slot[cur], slot'[next]) = {} THEN "fixed"
                    ELSE IF round + 1 = MaxRounds THEN "exhausted" ELSE "rounds"
  /\ round' = round + 1
  /\ UNCHANGED <<graph, job, walk>>

\* One iteration: the other slot is emptied and filled from the current one, the change between
\* them measured, and the slots swap
Round ==
  /\ phase = "rounds"
  /\ LET next == 1 - cur
     IN /\ slot' = [slot EXCEPT ![next] = RoundOf(slot[cur])]
        /\ cur' = next
        /\ phase' = IF Changed(slot[cur], slot'[next]) = {} THEN "fixed"
                    ELSE IF round + 1 = MaxRounds THEN "exhausted" ELSE "rounds"
  /\ round' = round + 1
  /\ UNCHANGED <<graph, job, walk>>

Ended == phase \in {"fixed", "exhausted"}

\* closeness: how many reach each vertex and the sum of their distances, into a round the relaxation
\* does not use. Of a scope's rows those with a distance above 0 count.
Reaching(s) == {p \in DOMAIN slot[cur] : p[1] = s /\ slot[cur][p] > 0}
Reduce ==
  /\ job.algo = "closeness" /\ Ended
  /\ slot' = [slot EXCEPT ![2] = [v \in Node |->
       [reached |-> Cardinality(Reaching(v)), farness |-> MapThenSumSet(LAMBDA p : slot[cur][p], Reaching(v))]]]
  /\ phase' = "done"
  /\ UNCHANGED <<graph, job, cur, round, walk>>

\* shortestPathReconstruct: a recursive query from the scopes of the table, along edges that account
\* for the whole difference of the distances, never to a vertex the path holds
TightEnough(s, r) == {<<s, r.src>>, <<s, r.tgt>>} \subseteq DOMAIN slot[cur] \* mutant: every edge between reached vertices
Tight(s, r) ==
  /\ {<<s, r.src>>, <<s, r.tgt>>} \subseteq DOMAIN slot[cur]
  /\ slot[cur][<<s, r.tgt>>] = slot[cur][<<s, r.src>>] + r.w
Extensions(x) ==
  {[x EXCEPT !.path = Append(@, r.tgt)] :
     r \in {a \in Adjacency : /\ a.src = x.path[Len(x.path)]
                              /\ \A i \in DOMAIN x.path : x.path[i] # a.tgt
                              /\ Tight(x.src, a)}}
WalkSources ==
  /\ job.algo = "path" /\ Ended
  /\ walk' = {[src |-> p[1], path |-> <<p[1]>>] : p \in DOMAIN slot[cur]}
  /\ phase' = "walk"
  /\ UNCHANGED <<graph, job, slot, cur, round>>
WalkEdges ==
  /\ phase = "walk"
  /\ walk' = walk \cup UNION {Extensions(x) : x \in walk}
  /\ phase' = IF walk' = walk THEN "done" ELSE "walk"
  /\ UNCHANGED <<graph, job, slot, cur, round>>

Next == Seed \/ Round \/ Reduce \/ WalkSources \/ WalkEdges

Spec == Init /\ [][Next]_vars

-----------------------------------------------------------------------------
(* What the algorithms mean                                                *)

\* Every set that holds u and is closed under the relation holds v
Reaches(u, v, rel(_, _)) ==
  \A S \in SUBSET Node : (u \in S /\ \A x \in S, y \in Node : rel(x, y) => y \in S) => v \in S
Linked(x, y) == \E e \in Edge : {graph[e].src, graph[e].tgt} = {x, y} /\ (job.weighted => graph[e].w > job.threshold)
Follows(x, y) ==
  \E e \in Edge :
    \/ job.direction # "in" /\ graph[e].src = x /\ graph[e].tgt = y
    \/ job.direction # "out" /\ graph[e].src = y /\ graph[e].tgt = x
Connected(u, v) == Reaches(u, v, Linked)
IsCore(k, S) == \A x \in S : Cardinality(Und(x) \cap S) >= k

\* The paths of distinct vertices, as the rows they run along, and their weight
Trails ==
  LET longer[n \in 1..(Cardinality(Node) - 1)] ==
        IF n = 1 THEN {<<r>> : r \in {a \in Adjacency : a.src # a.tgt}}
        ELSE {Append(x[1], x[2]) : x \in {y \in longer[n - 1] \X Adjacency :
                /\ y[1][n - 1].tgt = y[2].src
                /\ \A i \in DOMAIN y[1] : y[2].tgt # y[1][i].src
                /\ y[2].tgt # y[2].src}}
  IN UNION {longer[n] : n \in 1..(Cardinality(Node) - 1)}
From(trail) == trail[1].src
To(trail) == trail[Len(trail)].tgt
Weight(trail) ==
  LET upTo[n \in 0..Len(trail)] == IF n = 0 THEN 0 ELSE upTo[n - 1] + trail[n].w
  IN upTo[Len(trail)]
Visited(trail) == <<From(trail)>> \o [i \in DOMAIN trail |-> trail[i].tgt]
Between(s, v) == {x \in Trails : From(x) = s /\ To(x) = v}
NegativeCycle ==
  \/ \E r \in Adjacency : r.src = r.tgt /\ r.w < 0
  \/ \E x \in Trails, r \in Adjacency : r.src = To(x) /\ r.tgt = From(x) /\ Weight(x) + r.w < 0
Distance(s, v) == Min({Weight(x) : x \in Between(s, v)} \cup (IF s = v THEN {0} ELSE {}))

-----------------------------------------------------------------------------

\* connectedComponent gives every vertex the least id text of its undirected component, over the edges
\* above the threshold (wcc.ts), however far that vertex is and whichever ids share a text.
ComponentsRight ==
  job.algo = "wcc" /\ phase = "fixed" =>
    \A v \in Node : slot[cur][v] = Min({Text[u] : u \in {x \in Node : Connected(v, x)}})

\* scc gives vertices the same id text exactly when each reaches the other along the edges, and the
\* text is the least of theirs (scc.ts), whichever way the closure came to the pairs.
StrongRight ==
  job.algo = "scc" /\ phase = "done" =>
    \A v \in Node :
      slot[cur][v] = Min({Text[u] : u \in {x \in Node : Reaches(v, x, Follows) /\ Reaches(x, v, Follows)}})

\* kcore gives every vertex the largest k for which some set that holds it gives each member k
\* neighbours within the set (kcore.ts), although a round only looks at neighbours.
CorenessRight ==
  job.algo = "kcore" /\ phase = "fixed" =>
    \A v \in Node :
      /\ \E S \in SUBSET Node : v \in S /\ IsCore(slot[cur][v], S)
      /\ \A S \in SUBSET Node, k \in 0..Cardinality(Node) : v \in S /\ IsCore(k, S) => k <= slot[cur][v]

\* The rounds run out for peerPressure only, and where a cycle has a negative weight: the backstop of
\* the others (wcc.ts, kcore.ts, relaxShortestPath) never cuts a computation that still changes.
BackstopUnused ==
  phase = "exhausted" => job.algo = "peer" \/ (Distances /\ NegativeCycle)

\* The estimates only ever fall, which is why a round without a change is a fixpoint: a coreness, a
\* component's text and, once reached, a distance (kcore.ts, kernel.ts on changedOrNew).
EstimatesFall ==
  [][phase = "rounds" /\ job.algo # "peer" =>
       \A k \in DOMAIN slot[cur] : k \in DOMAIN slot'[cur'] /\ slot'[cur'][k] <= slot[cur][k]]_vars

\* A cluster is the id of a vertex whose votes got here along the scope's edges (peer-pressure.ts).
ClustersTravel ==
  job.algo = "peer" /\ phase \in {"fixed", "exhausted"} =>
    \A v \in Node : Reaches(slot[cur][v], v, Follows)

\* The distances are those of the shortest paths, present exactly for what a source reaches
\* (relaxShortestPath), wherever no cycle has a negative weight.
DistancesRight ==
  Distances /\ Ended /\ ~NegativeCycle =>
    slot[cur] = [p \in {q \in job.sources \X Node : q[1] = q[2] \/ Between(q[1], q[2]) # {}} |-> Distance(p[1], p[2])]

\* What is rebuilt from them is every shortest path and nothing else, cycles of weight 0 included
\* (shortestPathReconstruct: "Every emitted path IS a shortest path").
PathsRight ==
  job.algo = "path" /\ phase = "done" /\ ~NegativeCycle =>
    walk = {[src |-> s, path |-> <<s>>] : s \in job.sources} \cup
           {[src |-> From(x), path |-> Visited(x)] :
              x \in {y \in Trails : From(y) \in job.sources /\ Weight(y) = Distance(From(y), To(y))}}

\* closeness counts the others that reach a vertex and their distances to it along the edges (centrality.ts).
ClosenessRight ==
  job.algo = "closeness" /\ phase = "done" =>
    \A v \in Node :
      LET others == {u \in Node \ {v} : Between(v, u) # {}}
      IN slot[2][v] = [reached |-> Cardinality(others), farness |-> MapThenSumSet(LAMBDA p : Distance(p[1], p[2]), {v} \X others)]

\* What is computed along the edges in the scope's direction is right: strong components, clusters,
\* distances and closeness (scc.ts, peer-pressure.ts, kernel.ts, centrality.ts).
AlongEdgesRight == StrongRight /\ ClustersTravel /\ DistancesRight /\ ClosenessRight

\* What createShortestPathService says: from each source the shortest paths to every target it reaches.
PathsReachAll ==
  job.algo = "path" /\ phase = "done" =>
    \A s \in job.sources, v \in Node :
      Between(s, v) # {} => \E x \in walk : x.src = s /\ x.path[Len(x.path)] = v
=============================================================================
