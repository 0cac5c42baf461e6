-------------------------- MODULE OlapKernelProofs --------------------------
(***************************************************************************)
(* What the rounds compute, for every finite graph and every call: that    *)
(* they only ever hold sound estimates, that a round which changes nothing *)
(* leaves estimates closed under the relation they are about, and that the *)
(* rounds suffice to get there.                                            *)
(***************************************************************************)
EXTENDS OlapKernel, FiniteSetTheorems, SequenceTheorems, WellFoundedInduction, TLAPS

(***************************************************************************)
(* Least and greatest elements                                             *)
(***************************************************************************)
LEMMA LeastNatural ==
  ASSUME NEW S \in SUBSET Nat, S # {}
  PROVE  Min(S) \in S /\ \A y \in S : Min(S) <= y
<1>1. PICK x \in S : \A y \in S : <<y, x>> \notin OpToRel(<, Nat)
  BY NatLessThanWellFounded, WFMin
<1>2. \A y \in S : x <= y
  <2>1. TAKE y \in S
  <2>2. <<y, x>> \in Nat \X Nat
    OBVIOUS
  <2>3. ~(y < x)
    BY <1>1, <2>2 DEF OpToRel
  <2> QED BY <2>3
<1> QED BY <1>2 DEF Min

LEMMA GreatestBounded ==
  ASSUME NEW n \in Nat, NEW S \in SUBSET (0..n), S # {}
  PROVE  Max(S) \in S /\ \A y \in S : y <= Max(S)
<1> DEFINE T == {n - k : k \in S}
<1>1. T \in SUBSET Nat /\ T # {}
  <2>1. \A k \in S : n - k \in Nat
    OBVIOUS
  <2> QED BY <2>1
<1>2. Min(T) \in T /\ \A y \in T : Min(T) <= y
  BY <1>1, LeastNatural
<1>3. PICK k \in S : Min(T) = n - k
  BY <1>2
<1>4. \A y \in S : y <= k
  <2>1. TAKE y \in S
  <2>2. n - y \in T
    OBVIOUS
  <2>3. n - k <= n - y
    BY <1>2, <1>3, <2>2
  <2> QED BY <2>3
<1> QED BY <1>4 DEF Max

LEMMA LeastIs ==
  ASSUME NEW S \in SUBSET Nat, NEW x \in S, \A y \in S : x <= y
  PROVE  Min(S) = x
<1>1. Min(S) \in S /\ \A y \in S : Min(S) <= y
  BY LeastNatural
<1> DEFINE m == Min(S)
<1>2. m \in Nat /\ x \in Nat /\ m <= x /\ x <= m
  BY <1>1
<1> HIDE DEF m
<1>3. m = x
  BY <1>2
<1> QED BY <1>3 DEF m

(***************************************************************************)
(* The graph and the call never change                                     *)
(***************************************************************************)
Given ==
  /\ graph \in [Edge -> [src : Node, tgt : Node, w : Int]]
  /\ job \in Jobs
  /\ cur \in {0, 1} /\ (phase = "seed" => cur = 0)
  /\ DOMAIN slot = 0..2
  /\ phase \in {"seed", "rounds", "fixed", "exhausted", "walk", "done"}
  /\ job.algo = "scc" => phase \in {"seed", "done"} \* one statement, no rounds

THEOREM GivenInvariant == Spec => []Given
<1> USE OlapAssumption
<1>1. Init => Given
  BY DEF Init, Given
<1>2. Given /\ [Next]_vars => Given'
  <2> SUFFICES ASSUME Given, [Next]_vars PROVE Given'
    OBVIOUS
  <2> USE DEF Given
  <2>1. CASE Seed BY <2>1 DEF Seed
  <2>2. CASE Round BY <2>2 DEF Round
  <2>3. CASE Reduce BY <2>3 DEF Reduce
  <2>4. CASE WalkSources BY <2>4 DEF WalkSources
  <2>5. CASE WalkEdges BY <2>5 DEF WalkEdges
  <2>6. CASE UNCHANGED vars BY <2>6 DEF vars
  <2> QED BY <2>1, <2>2, <2>3, <2>4, <2>5, <2>6 DEF Next
<1> QED BY <1>1, <1>2, PTL DEF Spec

\* What a round of the driver is for a vector that every vertex has a row of
LEMMA FixedIsFixpoint ==
  ASSUME NEW p, NEW n, DOMAIN p = Node, DOMAIN n = Node, ChangedCount(p, n) = {},
         p = [v \in Node |-> p[v]], n = [v \in Node |-> n[v]]
  PROVE  p = n
<1>1. \A v \in Node : p[v] = n[v]
  BY DEF ChangedCount
<1>2. [v \in Node |-> p[v]] = [v \in Node |-> n[v]]
  BY <1>1
<1> QED BY <1>2

(***************************************************************************)
(* connectedComponent                                                      *)
(***************************************************************************)
LEMMA RowsLink ==
  ASSUME Given, job.algo = "wcc", NEW x \in Node, NEW y \in Node
  PROVE  Linked(x, y) <=> \E r \in Adjacency : r.src = x /\ r.tgt = y /\ Joins(r)
<1>1. job.direction = "both"
  BY OlapAssumption DEF Given
<1>2. ASSUME NEW e \in Edge, {graph[e].src, graph[e].tgt} = {x, y}, job.weighted => graph[e].w > job.threshold
      PROVE  \E r \in Adjacency : r.src = x /\ r.tgt = y /\ Joins(r)
  <2>1. Row(e, FALSE) \in Adjacency /\ Row(e, TRUE) \in Adjacency
    BY <1>1 DEF Adjacency
  <2>2. CASE graph[e].src = x /\ graph[e].tgt = y
    <3>1. Row(e, FALSE).src = x /\ Row(e, FALSE).tgt = y /\ Joins(Row(e, FALSE))
      BY <1>2, <2>2 DEF Row, Joins
    <3> QED BY <2>1, <3>1
  <2>3. CASE graph[e].src = y /\ graph[e].tgt = x
    <3>1. Row(e, TRUE).src = x /\ Row(e, TRUE).tgt = y /\ Joins(Row(e, TRUE))
      BY <1>2, <2>3 DEF Row, Joins
    <3> QED BY <2>1, <3>1
  <2> QED BY <1>2, <2>2, <2>3
<1>3. ASSUME NEW r \in Adjacency, r.src = x, r.tgt = y, Joins(r)
      PROVE  Linked(x, y)
  <2>1. PICK e \in Edge : r = Row(e, FALSE) \/ r = Row(e, TRUE)
    BY <1>1 DEF Adjacency
  <2>2. {graph[e].src, graph[e].tgt} = {x, y} /\ (job.weighted => graph[e].w > job.threshold)
    BY <1>3, <2>1 DEF Row, Joins
  <2> QED BY <2>2 DEF Linked
<1> QED BY <1>2, <1>3 DEF Linked

LEMMA LinkedIsSymmetric == \A x, y \in Node : Linked(x, y) => Linked(y, x)
BY DEF Linked

LEMMA ConnectedAcross ==
  ASSUME NEW x \in Node, NEW y \in Node, NEW u \in Node, Linked(x, y), Connected(y, u)
  PROVE  Connected(x, u)
BY DEF Connected, Reaches

LEMMA ConnectedSelf == \A v \in Node : Connected(v, v)
BY DEF Connected, Reaches

\* A round: the least of a vertex's own text and those of what it is linked to
LEMMA WccRoundIs ==
  ASSUME Given, job.algo = "wcc", NEW t \in [Node -> Nat], NEW v \in Node
  PROVE  LET m == WccRound(t)[v] IN
         /\ m \in Nat /\ m <= t[v]
         /\ m = t[v] \/ \E x \in Node : Linked(v, x) /\ m = t[x]
         /\ \A x \in Node : Linked(v, x) => m <= t[x]
<1> DEFINE from == {r.src : r \in {a \in Adjacency : a.tgt = v /\ Joins(a)}}
           S == {t[v]} \cup {t[r.src] : r \in {a \in Adjacency : a.tgt = v /\ Joins(a)}}
<1>1. \A r \in Adjacency : r.src \in Node
  BY DEF Adjacency, Row, Given
<1>2. S \in SUBSET Nat /\ S # {}
  BY <1>1
<1>3. WccRound(t)[v] = Min(S)
  BY DEF WccRound
<1>4. Min(S) \in S /\ \A y \in S : Min(S) <= y
  BY <1>2, LeastNatural
<1>5. \A x \in Node : Linked(v, x) <=> \E r \in Adjacency : r.src = x /\ r.tgt = v /\ Joins(r)
  BY RowsLink, LinkedIsSymmetric
<1>6. \A x \in Node : Linked(v, x) => t[x] \in S
  BY <1>5
<1>7. \A m \in S : m = t[v] \/ \E x \in Node : Linked(v, x) /\ m = t[x]
  BY <1>1, <1>5
<1> HIDE DEF S
<1>8. Min(S) \in Nat
  BY <1>2, <1>4
<1>9. Min(S) <= t[v]
  BY <1>4 DEF S
<1> QED BY <1>3, <1>4, <1>6, <1>7, <1>8, <1>9

\* Sound estimates, and a fixpoint where the rounds stopped because nothing changed
WccInv ==
  job.algo = "wcc" =>
    /\ phase \in {"seed", "rounds", "fixed", "exhausted"}
    /\ phase # "seed" =>
         /\ slot[cur] \in [Node -> Nat]
         /\ \A v \in Node : slot[cur][v] <= Text[v]
         /\ \A v \in Node : \E u \in Node : Connected(v, u) /\ slot[cur][v] = Text[u]
    /\ phase = "fixed" => WccRound(slot[cur]) = slot[cur]

LEMMA WccStep == Given /\ WccInv /\ [Next]_vars => WccInv'
<1> SUFFICES ASSUME Given, WccInv, [Next]_vars, job'.algo = "wcc" PROVE WccInv'
  BY DEF WccInv
<1>0. graph' = graph /\ job' = job
  BY DEF Next, vars, Seed, Round, Reduce, WalkSources, WalkEdges
<1>a. job.algo = "wcc"
  BY <1>0
<1>b. \A x, y \in Node : Connected(x, y)' = Connected(x, y)
  BY <1>0 DEF Connected, Reaches, Linked
<1>c. \A t : WccRound(t)' = WccRound(t)
  BY <1>0 DEF WccRound, Adjacency, Row, Joins
<1>1. CASE Seed
  <2>1. slot'[cur'] = WccSeed
    BY <1>1, <1>a DEF Seed, SeedOf, Given, WccInv
  <2>2. phase' \in {"rounds", "exhausted"}
    BY <1>1, <1>a DEF Seed
  <2>3. WccSeed \in [Node -> Nat] /\ \A v \in Node : WccSeed[v] = Text[v]
    BY OlapAssumption DEF WccSeed
  <2>4. \A v \in Node : Connected(v, v)
    BY ConnectedSelf
  <2>5. \A v \in Node : Text[v] <= Text[v]
    BY OlapAssumption
  <2> QED BY <1>b, <2>1, <2>2, <2>3, <2>4, <2>5 DEF WccInv
<1>2. CASE Round
  <2> DEFINE t == slot[cur]
  <2>1. t \in [Node -> Nat] /\ phase = "rounds"
    BY <1>2, <1>a DEF Round, WccInv
  <2>2. slot'[cur'] = WccRound(t)
    BY <1>2, <1>a DEF Round, RoundOf, Given
  <2>3. \A v \in Node : /\ WccRound(t)[v] \in Nat /\ WccRound(t)[v] <= t[v]
                        /\ WccRound(t)[v] = t[v] \/ \E x \in Node : Linked(v, x) /\ WccRound(t)[v] = t[x]
    BY <1>a, <2>1, WccRoundIs
  <2>4. WccRound(t) \in [Node -> Nat]
    BY <2>3 DEF WccRound
  <2>5. \A v \in Node : WccRound(t)[v] <= Text[v]
    BY <1>2, <1>a, <2>1, <2>3, OlapAssumption DEF WccInv
  <2>6. ASSUME NEW v \in Node
        PROVE  \E u \in Node : Connected(v, u) /\ WccRound(t)[v] = Text[u]
    <3>1. CASE WccRound(t)[v] = t[v]
      BY <1>a, <2>1, <3>1 DEF WccInv
    <3>2. CASE \E x \in Node : Linked(v, x) /\ WccRound(t)[v] = t[x]
      <4>1. PICK x \in Node : Linked(v, x) /\ WccRound(t)[v] = t[x]
        BY <3>2
      <4>2. PICK u \in Node : Connected(x, u) /\ t[x] = Text[u]
        BY <1>a, <2>1 DEF WccInv
      <4> QED BY <4>1, <4>2, ConnectedAcross
    <3> QED BY <2>3, <3>1, <3>2
  <2>7. phase' = "fixed" => WccRound(t) = t
    <3>1. SUFFICES ASSUME phase' = "fixed" PROVE WccRound(t) = t
      OBVIOUS
    <3>2. ChangedCount(t, WccRound(t)) = {}
      BY <1>2, <1>a, <2>2, <3>1 DEF Round, Changed, Distances
    <3>3. t = [v \in Node |-> t[v]] /\ WccRound(t) = [v \in Node |-> WccRound(t)[v]]
      BY <2>1, <2>4
    <3> QED BY <2>1, <2>4, <3>2, <3>3, FixedIsFixpoint
  <2>8. phase' \in {"rounds", "fixed", "exhausted"}
    BY <1>2 DEF Round
  <2> QED BY <1>b, <1>c, <2>2, <2>4, <2>5, <2>6, <2>7, <2>8 DEF WccInv
<1>3. CASE Reduce BY <1>3, <1>a DEF Reduce
<1>4. CASE WalkSources BY <1>4, <1>a DEF WalkSources
<1>5. CASE WalkEdges BY <1>5, <1>a DEF WalkEdges, WccInv
<1>6. CASE UNCHANGED vars BY <1>6, <1>a, <1>b, <1>c DEF vars, WccInv
<1> QED BY <1>1, <1>2, <1>3, <1>4, <1>5, <1>6 DEF Next

THEOREM WccInvariant == Spec => []WccInv
<1>1. Init => WccInv
  BY DEF Init, WccInv
<1> QED BY <1>1, GivenInvariant, WccStep, PTL DEF Spec

\* Connected vertices agree at a fixpoint
LEMMA FixpointAgrees ==
  ASSUME Given, job.algo = "wcc", NEW t \in [Node -> Nat], WccRound(t) = t,
         NEW v \in Node, NEW u \in Node, Connected(v, u)
  PROVE  t[u] = t[v]
<1> DEFINE S == {w \in Node : t[w] = t[v]}
<1>1. ASSUME NEW x \in S, NEW y \in Node, Linked(x, y)
      PROVE  y \in S
  <2>1. t[x] <= t[y] /\ t[y] <= t[x]
    BY <1>1, WccRoundIs, LinkedIsSymmetric
  <2> QED BY <2>1
<1>2. S \in SUBSET Node /\ v \in S
  OBVIOUS
<1>3. u \in S
  BY <1>1, <1>2 DEF Connected, Reaches
<1> QED BY <1>3

\* Wherever the rounds of connectedComponent end because one changed nothing, every vertex of every
\* graph holds the least id text of its component over the edges above the threshold (wcc.ts).
THEOREM ComponentsCorrect == Spec => []ComponentsRight
<1>1. Given /\ WccInv => ComponentsRight
  <2> SUFFICES ASSUME Given, WccInv, job.algo = "wcc", phase = "fixed", NEW v \in Node
               PROVE  slot[cur][v] = Min({Text[u] : u \in {x \in Node : Connected(v, x)}})
    BY DEF ComponentsRight
  <2> DEFINE t == slot[cur]
             S == {Text[u] : u \in {x \in Node : Connected(v, x)}}
  <2>1. /\ t \in [Node -> Nat] /\ WccRound(t) = t
        /\ \A u \in Node : t[u] <= Text[u]
        /\ \E u \in Node : Connected(v, u) /\ t[v] = Text[u]
    BY DEF WccInv
  <2>2. S \in SUBSET Nat /\ t[v] \in S
    BY <2>1, OlapAssumption
  <2>3. \A u \in Node : Connected(v, u) => t[v] <= Text[u]
    BY <2>1, FixpointAgrees
  <2>4. \A y \in S : t[v] <= y
    BY <2>3
  <2> HIDE DEF S
  <2>5. Min(S) = t[v]
    BY <2>2, <2>4, LeastIs
  <2> QED BY <2>5 DEF S
<1> QED BY <1>1, GivenInvariant, WccInvariant, PTL

(***************************************************************************)
(* kcore                                                                   *)
(***************************************************************************)
LEMMA UndFinite ==
  ASSUME NEW v \in Node
  PROVE  IsFiniteSet(Und(v)) /\ Cardinality(Und(v)) \in Nat
<1>1. Und(v) \in SUBSET Node
  BY DEF Und
<1> QED BY <1>1, OlapAssumption, FS_Subset, FS_CardinalityType

\* The h-index of the estimates around v is a rank that many estimates reach, and the largest
LEMMA HIndexIs ==
  ASSUME NEW t \in [Node -> Nat], NEW v \in Node
  PROVE  /\ HIndex(t, v) \in 0..Cardinality(Und(v))
         /\ HIndex(t, v) <= Cardinality({y \in Und(v) : t[y] >= HIndex(t, v)})
         /\ \A k \in 1..Cardinality(Und(v)) :
              k <= Cardinality({y \in Und(v) : t[y] >= k}) => k <= HIndex(t, v)
<1> DEFINE d == Cardinality(Und(v))
           atMin(k) == Cardinality({y \in Und(v) : t[y] >= k})
           S == {0} \cup {k \in 1..d : atMin(k) >= k}
<1>1. d \in Nat
  BY UndFinite
<1>2. \A k : atMin(k) \in Nat
  <2>1. TAKE k
  <2>2. {y \in Und(v) : t[y] >= k} \in SUBSET Und(v)
    OBVIOUS
  <2> QED BY <2>2, UndFinite, FS_Subset, FS_CardinalityType
<1>3. HIndex(t, v) = Max(S)
  BY DEF HIndex
<1> HIDE DEF d, atMin
<1>4. S \in SUBSET (0..d) /\ S # {}
  BY <1>1
<1>5. Max(S) \in S /\ \A k \in S : k <= Max(S)
  BY <1>1, <1>4, GreatestBounded
<1>6. \A k \in S : k <= atMin(k)
  BY <1>2
<1>7. \A k \in 1..d : k <= atMin(k) => k \in S
  BY <1>1, <1>2
<1> HIDE DEF S
<1> DEFINE h == Max(S)
<1>8. h \in 0..d /\ h <= atMin(h) /\ \A k \in 1..d : k <= atMin(k) => k <= h
  BY <1>4, <1>5, <1>6, <1>7
<1> QED BY <1>3, <1>8 DEF d, atMin

LEMMA HIndexNat ==
  ASSUME NEW t \in [Node -> Nat], NEW v \in Node
  PROVE  HIndex(t, v) \in Nat /\ HIndex(t, v) <= Cardinality(Und(v))
<1>1. Cardinality(Und(v)) \in Nat /\ HIndex(t, v) \in 0..Cardinality(Und(v))
  BY UndFinite, HIndexIs
<1> QED BY <1>1

\* Below no core of the vertex, not above its neighbours, and a fixpoint where nothing changed
KCoreInv ==
  job.algo = "kcore" =>
    /\ phase \in {"seed", "rounds", "fixed", "exhausted"}
    /\ phase # "seed" =>
         /\ slot[cur] \in [Node -> Nat]
         /\ \A S \in SUBSET Node, k \in Nat, v \in Node : v \in S /\ IsCore(k, S) => k <= slot[cur][v]
    /\ phase = "fixed" => KCoreRound(slot[cur]) = slot[cur]

LEMMA KCoreStep == Given /\ KCoreInv /\ [Next]_vars => KCoreInv'
<1> SUFFICES ASSUME Given, KCoreInv, [Next]_vars, job'.algo = "kcore" PROVE KCoreInv'
  BY DEF KCoreInv
<1>0. graph' = graph /\ job' = job
  BY DEF Next, vars, Seed, Round, Reduce, WalkSources, WalkEdges
<1>a. job.algo = "kcore"
  BY <1>0
<1>b. \A k, S : IsCore(k, S)' = IsCore(k, S)
  BY <1>0 DEF IsCore, Und
<1>c. \A t : KCoreRound(t)' = KCoreRound(t)
  BY <1>0 DEF KCoreRound, HIndex, Und
<1>1. CASE Seed
  <2>1. slot'[cur'] = KCoreSeed
    BY <1>1, <1>a DEF Seed, SeedOf, Given
  <2>2. phase' \in {"rounds", "exhausted"}
    BY <1>1, <1>a DEF Seed
  <2>3. KCoreSeed \in [Node -> Nat]
    BY UndFinite DEF KCoreSeed
  <2>4. ASSUME NEW S \in SUBSET Node, NEW k \in Nat, NEW v \in Node, v \in S, IsCore(k, S)
        PROVE  k <= KCoreSeed[v]
    <3> DEFINE among == Cardinality(Und(v) \cap S)
               degree == Cardinality(Und(v))
    <3>1. among >= k
      BY <2>4 DEF IsCore
    <3>2. among <= degree /\ among \in Nat /\ degree \in Nat
      BY UndFinite, FS_Subset, FS_CardinalityType
    <3>3. k <= degree
      <4> HIDE DEF among, degree
      <4> QED BY <3>1, <3>2
    <3> QED BY <3>3 DEF KCoreSeed
  <2> QED BY <1>b, <2>1, <2>2, <2>3, <2>4 DEF KCoreInv
<1>2. CASE Round
  <2> DEFINE t == slot[cur]
  <2>1. t \in [Node -> Nat] /\ phase = "rounds"
    BY <1>2, <1>a DEF Round, KCoreInv
  <2>2. slot'[cur'] = KCoreRound(t)
    BY <1>2, <1>a DEF Round, RoundOf, Given
  <2>3. KCoreRound(t) \in [Node -> Nat]
    <3>1. \A v \in Node : HIndex(t, v) \in Nat
      BY <2>1, HIndexNat
    <3> QED BY <3>1 DEF KCoreRound
  <2>4. ASSUME NEW S \in SUBSET Node, NEW k \in Nat, NEW v \in Node, v \in S, IsCore(k, S)
        PROVE  k <= KCoreRound(t)[v]
    <3> DEFINE among == Und(v) \cap S
               high == {y \in Und(v) : t[y] >= k}
    <3>1. KCoreRound(t)[v] = HIndex(t, v) /\ HIndex(t, v) \in Nat
      BY <2>1, HIndexNat DEF KCoreRound
    <3>2. among \in SUBSET high
      <4>1. \A y \in among : y \in Node /\ k <= t[y]
        BY <1>a, <2>1, <2>4 DEF KCoreInv
      <4>2. \A y \in among : t[y] >= k
        BY <4>1, <2>1
      <4> QED BY <4>2
    <3>3. IsFiniteSet(high) /\ Cardinality(high) \in Nat /\ Cardinality(high) <= Cardinality(Und(v))
      <4>1. high \in SUBSET Und(v)
        OBVIOUS
      <4> QED BY <4>1, UndFinite, FS_Subset, FS_CardinalityType
    <3>4. Cardinality(among) \in Nat /\ Cardinality(among) <= Cardinality(high)
      BY <3>2, <3>3, FS_Subset, FS_CardinalityType
    <3>5. Cardinality(among) >= k
      BY <2>4 DEF IsCore
    <3> HIDE DEF among
    <3>6. k <= Cardinality(high) /\ k <= Cardinality(Und(v))
      <4> DEFINE a == Cardinality(among)
                 b == Cardinality(high)
                 c == Cardinality(Und(v))
      <4>1. a \in Nat /\ b \in Nat /\ c \in Nat /\ k <= a /\ a <= b /\ b <= c
        BY <3>3, <3>4, <3>5, UndFinite
      <4> HIDE DEF a, b, c
      <4>2. k <= b /\ k <= c
        BY <4>1
      <4> QED BY <4>2 DEF b, c
    <3>7. CASE k = 0
      BY <3>1, <3>7
    <3>8. CASE k # 0
      <4>1. k \in 1..Cardinality(Und(v))
        BY <3>6, <3>8, UndFinite
      <4>2. k <= HIndex(t, v)
        BY <2>1, <3>6, <4>1, HIndexIs
      <4> QED BY <3>1, <4>2
    <3> QED BY <3>7, <3>8
  <2>5. phase' = "fixed" => KCoreRound(t) = t
    <3>1. SUFFICES ASSUME phase' = "fixed" PROVE KCoreRound(t) = t
      OBVIOUS
    <3>2. ChangedCount(t, KCoreRound(t)) = {}
      BY <1>2, <1>a, <2>2, <3>1 DEF Round, Changed, Distances
    <3>3. t = [v \in Node |-> t[v]] /\ KCoreRound(t) = [v \in Node |-> KCoreRound(t)[v]]
      BY <2>1, <2>3
    <3> QED BY <2>1, <2>3, <3>2, <3>3, FixedIsFixpoint
  <2>6. phase' \in {"rounds", "fixed", "exhausted"}
    BY <1>2 DEF Round
  <2> QED BY <1>b, <1>c, <2>2, <2>3, <2>4, <2>5, <2>6 DEF KCoreInv
<1>3. CASE Reduce BY <1>3, <1>a DEF Reduce
<1>4. CASE WalkSources BY <1>4, <1>a DEF WalkSources
<1>5. CASE WalkEdges BY <1>5, <1>a DEF WalkEdges, KCoreInv
<1>6. CASE UNCHANGED vars BY <1>6, <1>a, <1>b, <1>c DEF vars, KCoreInv
<1> QED BY <1>1, <1>2, <1>3, <1>4, <1>5, <1>6 DEF Next

THEOREM KCoreInvariant == Spec => []KCoreInv
<1>1. Init => KCoreInv
  BY DEF Init, KCoreInv
<1> QED BY <1>1, GivenInvariant, KCoreStep, PTL DEF Spec

\* At a fixpoint the vertices with at least the estimate of v are a core of that many
LEMMA FixpointIsCore ==
  ASSUME NEW t \in [Node -> Nat], KCoreRound(t) = t, NEW v \in Node
  PROVE  IsCore(t[v], {w \in Node : t[w] >= t[v]})
<1> DEFINE S == {w \in Node : t[w] >= t[v]}
<1> SUFFICES ASSUME NEW x \in S PROVE Cardinality(Und(x) \cap S) >= t[v]
  BY DEF IsCore
<1> DEFINE high == {y \in Und(x) : t[y] >= t[x]}
           inside == Und(x) \cap S
<1>1. HIndex(t, x) = t[x]
  BY DEF KCoreRound
<1>2. t[x] <= Cardinality(high)
  BY <1>1, HIndexIs
<1>3. high \in SUBSET inside
  <2>1. \A y \in Und(x) : y \in Node
    BY DEF Und
  <2>2. \A y \in Node : t[y] >= t[x] => t[y] >= t[v]
    OBVIOUS
  <2> QED BY <2>1, <2>2
<1>4. IsFiniteSet(inside) /\ Cardinality(inside) \in Nat
  <2>1. inside \in SUBSET Und(x)
    OBVIOUS
  <2> QED BY <2>1, UndFinite, FS_Subset, FS_CardinalityType
<1>5. Cardinality(high) \in Nat /\ Cardinality(high) <= Cardinality(inside)
  BY <1>3, <1>4, FS_Subset, FS_CardinalityType
<1> DEFINE a == Cardinality(high)
           b == Cardinality(inside)
<1>6. a \in Nat /\ b \in Nat /\ t[x] <= a /\ a <= b /\ t[v] <= t[x] /\ t[v] \in Nat /\ t[x] \in Nat
  BY <1>2, <1>4, <1>5
<1> HIDE DEF a, b
<1>7. b >= t[v]
  BY <1>6
<1> QED BY <1>7 DEF b

\* Wherever the rounds of kcore end because one changed nothing, every vertex of every graph holds its
\* coreness: some core of that many holds it, and no core of more does (kcore.ts).
THEOREM CorenessCorrect == Spec => []CorenessRight
<1>1. Given /\ KCoreInv => CorenessRight
  <2> SUFFICES ASSUME Given, KCoreInv, job.algo = "kcore", phase = "fixed", NEW v \in Node
               PROVE  /\ \E S \in SUBSET Node : v \in S /\ IsCore(slot[cur][v], S)
                      /\ \A S \in SUBSET Node, k \in 0..Cardinality(Node) :
                           v \in S /\ IsCore(k, S) => k <= slot[cur][v]
    BY DEF CorenessRight
  <2>1. slot[cur] \in [Node -> Nat] /\ KCoreRound(slot[cur]) = slot[cur]
    BY DEF KCoreInv
  <2>2. IsCore(slot[cur][v], {w \in Node : slot[cur][w] >= slot[cur][v]})
    BY <2>1, FixpointIsCore
  <2>3. v \in {w \in Node : slot[cur][w] >= slot[cur][v]}
    BY <2>1
  <2>4. {w \in Node : slot[cur][w] >= slot[cur][v]} \in SUBSET Node
    OBVIOUS
  <2>5. \A S \in SUBSET Node, k \in 0..Cardinality(Node) : v \in S /\ IsCore(k, S) => k <= slot[cur][v]
    BY FS_CardinalityType, OlapAssumption DEF KCoreInv
  <2> QED BY <2>2, <2>3, <2>4, <2>5
<1> QED BY <1>1, GivenInvariant, KCoreInvariant, PTL

(***************************************************************************)
(* The estimates fall                                                      *)
(***************************************************************************)
LEMMA LeastOfFinite ==
  ASSUME NEW S \in SUBSET Int, IsFiniteSet(S), S # {}
  PROVE  Min(S) \in S /\ \A y \in S : Min(S) <= y
<1> DEFINE below(x) == {y \in S : y <= x}
           F == {below(x) : x \in S}
<1>1. F \subseteq FiniteSubsetsOf(S) /\ F # {}
  <2>1. \A x \in S : below(x) \in SUBSET S
    OBVIOUS
  <2> HIDE DEF below
  <2>2. F \subseteq SUBSET S /\ F # {}
    BY <2>1
  <2> QED BY <2>2, FS_FiniteSubsetsOfFinite
<1>2. PICK B \in F : \A C \in F : <<C, B>> \notin StrictSubsetOrdering(S)
  BY <1>1, FS_StrictSubsetOrderingWellFounded, WFMin
<1>3. PICK x \in S : B = below(x)
  BY <1>2
<1>4. ASSUME NEW y \in S, y < x
      PROVE  FALSE
  <2>a. x \in Int /\ y \in Int /\ \A z \in S : z \in Int
    OBVIOUS
  <2>b. \A z \in S : z <= y => z <= x
    BY <1>4, <2>a
  <2>c. ~(x <= y) /\ x <= x
    BY <1>4, <2>a
  <2>1. below(y) \subseteq below(x) /\ x \in below(x) /\ x \notin below(y)
    BY <2>b, <2>c
  <2>2. <<below(y), below(x)>> \in StrictSubsetOrdering(S)
    BY <2>1 DEF StrictSubsetOrdering
  <2> QED BY <1>2, <1>3, <2>2
<1>5. \A y \in S : x <= y
  BY <1>4
<1> QED BY <1>5 DEF Min

LEMMA ImageFinite ==
  ASSUME NEW S, IsFiniteSet(S), NEW f, DOMAIN f = S, f = [x \in S |-> f[x]]
  PROVE  IsFiniteSet({f[x] : x \in S})
<1>1. f \in Surjection(S, {f[x] : x \in S})
  BY DEF Surjection
<1> QED BY <1>1, FS_Surjection

LEMMA AdjacencyFinite == ASSUME Given PROVE IsFiniteSet(Adjacency) /\ \A r \in Adjacency : r.src \in Node /\ r.w \in Int
<1> DEFINE f == [e \in Edge |-> Row(e, FALSE)]
           g == [e \in Edge |-> Row(e, TRUE)]
           A == {f[e] : e \in Edge}
           B == {g[e] : e \in Edge}
<1>1. IsFiniteSet(A)
  <2>1. DOMAIN f = Edge /\ f = [e \in Edge |-> f[e]]
    OBVIOUS
  <2> HIDE DEF f
  <2> QED BY <2>1, OlapAssumption, ImageFinite
<1>2. IsFiniteSet(B)
  <2>1. DOMAIN g = Edge /\ g = [e \in Edge |-> g[e]]
    OBVIOUS
  <2> HIDE DEF g
  <2> QED BY <2>1, OlapAssumption, ImageFinite
<1>3. IsFiniteSet(A \cup B)
  BY <1>1, <1>2, FS_Union
<1>4. Adjacency \in SUBSET (A \cup B)
  BY DEF Adjacency
<1>5. \A r \in Adjacency : r.src \in Node /\ r.w \in Int
  BY DEF Adjacency, Row, Given
<1> QED BY <1>3, <1>4, <1>5, FS_Subset

\* A round keeps every pair it has, at no greater distance
LEMMA PathRoundIs ==
  ASSUME Given, NEW t, DOMAIN t \subseteq job.sources \X Node, \A p \in DOMAIN t : t[p] \in Int,
         NEW p \in job.sources \X Node, Relaxed(t, p) # {}
  PROVE  /\ Min(Relaxed(t, p)) \in Int /\ Min(Relaxed(t, p)) \in Relaxed(t, p)
         /\ \A x \in Relaxed(t, p) : Min(Relaxed(t, p)) <= x
<1> DEFINE old == {q \in DOMAIN t : q = p}
           rows == {a \in Adjacency : a.tgt = p[2] /\ <<p[1], a.src>> \in DOMAIN t}
           f == [r \in rows |-> t[<<p[1], r.src>>] + r.w]
           A == {t[q] : q \in DOMAIN t \cap {p}}
           B == {f[r] : r \in rows}
<1>1. IsFiniteSet(rows)
  <2>1. rows \in SUBSET Adjacency
    OBVIOUS
  <2> QED BY <2>1, AdjacencyFinite, FS_Subset
<1>2. IsFiniteSet(B)
  <2> HIDE DEF rows
  <2> QED BY <1>1, ImageFinite
<1>3. IsFiniteSet(A)
  <2>1. A = {} \/ A = {t[p]}
    OBVIOUS
  <2> QED BY <2>1, FS_EmptySet, FS_Singleton
<1>4. Relaxed(t, p) = A \cup B
  BY DEF Relaxed
<1>5. A \in SUBSET Int /\ B \in SUBSET Int
  <2>1. \A q \in DOMAIN t \cap {p} : t[q] \in Int
    OBVIOUS
  <2>2. \A r \in rows : t[<<p[1], r.src>>] \in Int /\ r.w \in Int
    BY AdjacencyFinite
  <2>3. \A r \in rows : f[r] \in Int
    BY <2>2
  <2> HIDE DEF f, rows
  <2> QED BY <2>1, <2>3
<1>6. IsFiniteSet(A \cup B)
  BY <1>2, <1>3, FS_Union
<1> HIDE DEF A, B
<1>7. Relaxed(t, p) \in SUBSET Int /\ IsFiniteSet(Relaxed(t, p))
  BY <1>4, <1>5, <1>6
<1> QED BY <1>7, LeastOfFinite

LEMMA HIndexFalls ==
  ASSUME NEW t \in [Node -> Nat], NEW n \in [Node -> Nat], \A y \in Node : n[y] <= t[y], NEW v \in Node
  PROVE  HIndex(n, v) <= HIndex(t, v)
<1> DEFINE k == HIndex(n, v)
           low == {y \in Und(v) : n[y] >= k}
           high == {y \in Und(v) : t[y] >= k}
<1>1. k \in Nat /\ HIndex(t, v) \in Nat
  BY HIndexNat
<1>2. CASE k = 0
  BY <1>1, <1>2
<1>3. CASE k # 0
  <2>1. k \in 0..Cardinality(Und(v)) /\ k <= Cardinality(low)
    BY HIndexIs
  <2>2. low \in SUBSET high
    <3>1. \A y \in Und(v) : y \in Node
      BY DEF Und
    <3>2. \A y \in Node : n[y] >= k => t[y] >= k
      BY <1>1
    <3> QED BY <3>1, <3>2
  <2>3. IsFiniteSet(high) /\ Cardinality(high) \in Nat
    <3>1. high \in SUBSET Und(v)
      OBVIOUS
    <3> QED BY <3>1, UndFinite, FS_Subset, FS_CardinalityType
  <2>4. Cardinality(low) \in Nat /\ Cardinality(low) <= Cardinality(high)
    BY <2>2, <2>3, FS_Subset, FS_CardinalityType
  <2> DEFINE a == Cardinality(low)
             b == Cardinality(high)
  <2>5. k <= b
    <3>1. a \in Nat /\ b \in Nat /\ k <= a /\ a <= b /\ k \in Nat
      BY <1>1, <2>1, <2>3, <2>4
    <3> HIDE DEF a, b, k
    <3> QED BY <3>1
  <2>6. k \in 1..Cardinality(Und(v))
    BY <1>1, <1>3, <2>1, UndFinite
  <2> QED BY <2>5, <2>6, HIndexIs
<1> QED BY <1>2, <1>3

\* A round would not raise an estimate of kcore, and a distance is a number of a pair with a source
FallInv ==
  /\ job.algo = "kcore" /\ phase # "seed" => \A v \in Node : KCoreRound(slot[cur])[v] <= slot[cur][v]
  /\ Distances /\ phase # "seed" =>
       /\ DOMAIN slot[cur] \subseteq job.sources \X Node
       /\ \A p \in DOMAIN slot[cur] : slot[cur][p] \in Int

LEMMA FallStep == Given /\ KCoreInv /\ FallInv /\ [Next]_vars => FallInv'
<1> SUFFICES ASSUME Given, KCoreInv, FallInv, [Next]_vars PROVE FallInv'
  OBVIOUS
<1>0. graph' = graph /\ job' = job
  BY DEF Next, vars, Seed, Round, Reduce, WalkSources, WalkEdges
<1>c. \A t : KCoreRound(t)' = KCoreRound(t)
  BY <1>0 DEF KCoreRound, HIndex, Und
<1>d. Distances' = Distances
  BY <1>0 DEF Distances
<1>1. CASE Seed
  <2>1. slot'[cur'] = SeedOf
    BY <1>1 DEF Seed, Given
  <2>2. CASE job.algo = "kcore"
    <3>1. SeedOf = KCoreSeed
      BY <2>2 DEF SeedOf
    <3>2. KCoreSeed \in [Node -> Nat] /\ \A v \in Node : KCoreSeed[v] = Cardinality(Und(v))
      BY UndFinite DEF KCoreSeed
    <3>3. \A v \in Node : HIndex(KCoreSeed, v) <= Cardinality(Und(v))
      BY <3>2, HIndexNat
    <3>4. \A v \in Node : KCoreRound(KCoreSeed)[v] <= KCoreSeed[v]
      BY <3>2, <3>3 DEF KCoreRound
    <3> QED BY <1>0, <1>c, <2>1, <2>2, <3>1, <3>4 DEF FallInv, Distances
  <2>3. CASE Distances
    <3>1. SeedOf = PathSeed
      BY <2>3 DEF SeedOf, Distances
    <3>2. DOMAIN PathSeed \subseteq job.sources \X Node /\ \A p \in DOMAIN PathSeed : PathSeed[p] \in Int
      BY OlapAssumption DEF PathSeed, Given
    <3> QED BY <1>0, <2>1, <2>3, <3>1, <3>2 DEF FallInv, Distances
  <2> QED BY <1>0, <1>d, <2>2, <2>3 DEF FallInv
<1>2. CASE Round
  <2> DEFINE t == slot[cur]
  <2>1. slot'[cur'] = RoundOf(t) /\ phase = "rounds"
    BY <1>2 DEF Round, Given
  <2>2. CASE job.algo = "kcore"
    <3>1. RoundOf(t) = KCoreRound(t) /\ t \in [Node -> Nat] /\ \A v \in Node : KCoreRound(t)[v] <= t[v]
      BY <2>1, <2>2 DEF RoundOf, KCoreInv, FallInv
    <3>2. KCoreRound(t) \in [Node -> Nat]
      BY <3>1, HIndexNat DEF KCoreRound
    <3>3. \A v \in Node : HIndex(KCoreRound(t), v) <= HIndex(t, v)
      BY <3>1, <3>2, HIndexFalls
    <3>4. \A v \in Node : KCoreRound(KCoreRound(t))[v] <= KCoreRound(t)[v]
      BY <3>3 DEF KCoreRound
    <3> QED BY <1>0, <1>c, <2>1, <2>2, <3>1, <3>4 DEF FallInv, Distances
  <2>3. CASE Distances
    <3>1. RoundOf(t) = PathRound(t)
      BY <2>3 DEF RoundOf, Distances
    <3>2. DOMAIN t \subseteq job.sources \X Node /\ \A p \in DOMAIN t : t[p] \in Int
      BY <2>1, <2>3 DEF FallInv
    <3>3. DOMAIN PathRound(t) \subseteq job.sources \X Node
      BY DEF PathRound
    <3>4. \A p \in DOMAIN PathRound(t) : PathRound(t)[p] \in Int
      BY <3>2, PathRoundIs DEF PathRound
    <3> QED BY <1>0, <2>1, <2>3, <3>1, <3>3, <3>4 DEF FallInv, Distances
  <2> QED BY <1>0, <1>d, <2>2, <2>3 DEF FallInv
<1>3. CASE Reduce
  <2>1. slot'[cur'] = slot[cur] /\ phase # "seed" /\ job.algo # "kcore"
    BY <1>3 DEF Reduce, Ended, Given
  <2> QED BY <1>0, <1>d, <2>1 DEF FallInv
<1>4. CASE WalkSources
  BY <1>0, <1>c, <1>d, <1>4 DEF WalkSources, Ended, FallInv
<1>5. CASE WalkEdges
  BY <1>0, <1>c, <1>d, <1>5 DEF WalkEdges, FallInv
<1>6. CASE UNCHANGED vars
  BY <1>0, <1>c, <1>d, <1>6 DEF vars, FallInv
<1> QED BY <1>1, <1>2, <1>3, <1>4, <1>5, <1>6 DEF Next

\* In every graph, weights below 0 included, no round of connectedComponent, kcore or a relaxation
\* raises an estimate or loses a row: the invariant changedOrNew relies on (kernel.ts).
THEOREM EstimatesNeverRise == Spec => EstimatesFall
<1>1. Init => FallInv
  BY DEF Init, FallInv
<1>2. Given /\ WccInv /\ KCoreInv /\ FallInv /\ [Next]_vars =>
        [phase = "rounds" /\ job.algo # "peer" =>
           \A k \in DOMAIN slot[cur] : k \in DOMAIN slot'[cur'] /\ slot'[cur'][k] <= slot[cur][k]]_vars
  <2> SUFFICES ASSUME Given, WccInv, KCoreInv, FallInv, Next, phase = "rounds", job.algo # "peer",
                      NEW k \in DOMAIN slot[cur]
               PROVE  k \in DOMAIN slot'[cur'] /\ slot'[cur'][k] <= slot[cur][k]
    OBVIOUS
  <2> DEFINE t == slot[cur]
  <2>1. Round
    BY DEF Next, Seed, Reduce, Ended, WalkSources, WalkEdges
  <2>2. slot'[cur'] = RoundOf(t)
    BY <2>1 DEF Round, Given
  <2>3. CASE job.algo = "wcc"
    BY <2>2, <2>3, WccRoundIs DEF RoundOf, WccInv, WccRound
  <2>4. CASE job.algo = "kcore"
    BY <2>2, <2>4 DEF RoundOf, KCoreInv, FallInv, KCoreRound
  <2>5. CASE Distances
    <3>1. RoundOf(t) = PathRound(t)
      BY <2>5 DEF RoundOf, Distances
    <3>2. DOMAIN t \subseteq job.sources \X Node /\ \A p \in DOMAIN t : t[p] \in Int
      BY <2>5 DEF FallInv
    <3>3. t[k] \in Relaxed(t, k)
      BY DEF Relaxed
    <3> QED BY <2>2, <3>1, <3>2, <3>3, PathRoundIs DEF PathRound
  <2>6. job.algo # "scc"
    BY DEF Given
  <2> QED BY <2>3, <2>4, <2>5, <2>6, OlapAssumption DEF Given, Distances
<1> QED BY <1>1, <1>2, GivenInvariant, WccInvariant, KCoreInvariant, FallStep, PTL DEF Spec, EstimatesFall

(***************************************************************************)
(* peerPressure                                                            *)
(***************************************************************************)
LEMMA VotesNat ==
  ASSUME Given, NEW t, NEW v \in Node, NEW c
  PROVE  /\ Votes(t, v, c) \in 0..(Cardinality(Adjacency) + 1)
         /\ t[v] = c => Votes(t, v, c) > 0
         /\ Votes(t, v, c) > 0 => t[v] = c \/ \E r \in Adjacency : r.tgt = v /\ t[r.src] = c
<1> DEFINE rows == {r \in Adjacency : r.tgt = v /\ t[r.src] = c}
           a == Cardinality(rows)
           b == Cardinality(Adjacency)
<1>1. rows \in SUBSET Adjacency
  OBVIOUS
<1>2. IsFiniteSet(rows) /\ a \in Nat /\ b \in Nat /\ a <= b
  BY <1>1, AdjacencyFinite, FS_Subset, FS_CardinalityType
<1>3. a # 0 => \E r \in Adjacency : r.tgt = v /\ t[r.src] = c
  BY <1>2, FS_EmptySet
<1>4. Votes(t, v, c) = a + IF t[v] = c THEN 1 ELSE 0
  BY DEF Votes
<1> HIDE DEF a, b
<1>5. CASE t[v] = c
  <2>1. Votes(t, v, c) = a + 1
    BY <1>4, <1>5
  <2> QED BY <1>2, <1>5, <2>1 DEF b
<1>6. CASE t[v] # c
  <2>1. Votes(t, v, c) = a
    BY <1>2, <1>4, <1>6
  <2> QED BY <1>2, <1>3, <1>6, <2>1 DEF b
<1> QED BY <1>5, <1>6

\* Some cluster has the most votes and, among those that do, the least text; so the one a round takes
\* has a vote
LEMMA PeerRoundIs ==
  ASSUME Given, NEW t \in [Node -> Node], NEW v \in Node
  PROVE  LET c == PeerRound(t)[v] IN
         c \in Node /\ (t[v] = c \/ \E r \in Adjacency : r.tgt = v /\ t[r.src] = c)
<1> DEFINE votes == [c \in Node |-> Votes(t, v, c)]
           most == Cardinality(Adjacency) + 1
           cast == {votes[c] : c \in Node}
           m == Max(cast)
           texts == {Text[c] : c \in {d \in Node : votes[d] = m}}
           ranked(c, d) == Votes(t, v, c) > Votes(t, v, d) \/ (Votes(t, v, c) = Votes(t, v, d) /\ Text[c] <= Text[d])
<1>1. most \in Nat
  BY AdjacencyFinite, FS_CardinalityType
<1>2. \A c \in Node : votes[c] \in 0..most
  BY VotesNat
<1>3. cast \in SUBSET (0..most) /\ cast # {}
  BY <1>2, OlapAssumption
<1> HIDE DEF most, votes
<1>4. m \in cast /\ \A y \in cast : y <= m
  BY <1>1, <1>3, GreatestBounded
<1>5. texts \in SUBSET Nat /\ texts # {}
  <2>1. \E c \in Node : votes[c] = m
    BY <1>4
  <2> HIDE DEF m
  <2> QED BY <2>1, OlapAssumption
<1>6. Min(texts) \in texts /\ \A y \in texts : Min(texts) <= y
  BY <1>5, LeastNatural
<1>7. PICK c \in Node : votes[c] = m /\ Text[c] = Min(texts)
  BY <1>6
<1>8. \A d \in Node : votes[d] <= m /\ (votes[d] = m => Text[c] <= Text[d])
  BY <1>4, <1>6, <1>7
<1>9. \A d \in Node : votes[d] \in Nat
  BY <1>1, <1>2
<1> HIDE DEF m, texts, cast
<1>10. \A d \in Node : votes[c] > votes[d] \/ (votes[c] = votes[d] /\ Text[c] <= Text[d])
  BY <1>7, <1>8, <1>9
<1>11. \A d \in Node : ranked(c, d)
  BY <1>10 DEF votes
<1> DEFINE taken == CHOOSE x \in Node : \A d \in Node : ranked(x, d)
<1>12. taken \in Node /\ \A d \in Node : ranked(taken, d)
  BY <1>11
<1>13. PeerRound(t)[v] = taken
  BY DEF PeerRound
<1>14. Votes(t, v, taken) \in Nat /\ Votes(t, v, t[v]) \in Nat /\ Votes(t, v, t[v]) > 0
  BY <1>12, VotesNat, <1>2, <1>9 DEF votes
<1>15. ranked(taken, t[v])
  BY <1>12
<1> HIDE DEF taken
<1>16. Votes(t, v, taken) > 0
  BY <1>14, <1>15
<1> QED BY <1>12, <1>13, <1>16, VotesNat

LEMMA RowFollows ==
  ASSUME Given, NEW r \in Adjacency
  PROVE  r.src \in Node /\ Follows(r.src, r.tgt)
<1>1. PICK e \in Edge : (r = Row(e, FALSE) /\ job.direction # "in") \/ (r = Row(e, TRUE) /\ job.direction # "out")
  BY DEF Adjacency
<1> QED BY <1>1 DEF Row, Follows, Given

LEMMA ReachesOn ==
  ASSUME NEW u \in Node, NEW x \in Node, NEW y \in Node, Reaches(u, x, Follows), Follows(x, y)
  PROVE  Reaches(u, y, Follows)
BY DEF Reaches

PeerInv ==
  job.algo = "peer" /\ phase # "seed" =>
    /\ slot[cur] \in [Node -> Node]
    /\ \A v \in Node : Reaches(slot[cur][v], v, Follows)

LEMMA PeerStep == Given /\ PeerInv /\ [Next]_vars => PeerInv'
<1> SUFFICES ASSUME Given, PeerInv, [Next]_vars, job'.algo = "peer" PROVE PeerInv'
  BY DEF PeerInv
<1>0. graph' = graph /\ job' = job
  BY DEF Next, vars, Seed, Round, Reduce, WalkSources, WalkEdges
<1>a. job.algo = "peer"
  BY <1>0
<1>b. \A u, v \in Node : Reaches(u, v, Follows)' = Reaches(u, v, Follows)
  BY <1>0 DEF Reaches, Follows
<1>1. CASE Seed
  <2>1. slot'[cur'] = PeerSeed
    BY <1>1, <1>a DEF Seed, SeedOf, Given
  <2>2. PeerSeed \in [Node -> Node] /\ \A v \in Node : PeerSeed[v] = v /\ Reaches(v, v, Follows)
    BY DEF PeerSeed, Reaches
  <2> QED BY <1>b, <2>1, <2>2 DEF PeerInv
<1>2. CASE Round
  <2> DEFINE t == slot[cur]
  <2>1. t \in [Node -> Node] /\ \A v \in Node : Reaches(t[v], v, Follows)
    BY <1>2, <1>a DEF Round, PeerInv
  <2>2. slot'[cur'] = PeerRound(t)
    BY <1>2, <1>a DEF Round, RoundOf, Given
  <2>3. \A v \in Node : PeerRound(t)[v] \in Node
    BY <2>1, PeerRoundIs
  <2>4. PeerRound(t) \in [Node -> Node]
    BY <2>3 DEF PeerRound
  <2>5. ASSUME NEW v \in Node
        PROVE  Reaches(PeerRound(t)[v], v, Follows)
    <3>1. CASE PeerRound(t)[v] = t[v]
      BY <2>1, <3>1
    <3>2. CASE \E r \in Adjacency : r.tgt = v /\ t[r.src] = PeerRound(t)[v]
      <4>1. PICK r \in Adjacency : r.tgt = v /\ t[r.src] = PeerRound(t)[v]
        BY <3>2
      <4>2. r.src \in Node /\ Follows(r.src, v) /\ Reaches(PeerRound(t)[v], r.src, Follows)
        BY <2>1, <4>1, RowFollows
      <4> QED BY <2>3, <4>2, ReachesOn
    <3> QED BY <2>1, <3>1, <3>2, PeerRoundIs
  <2> QED BY <1>b, <2>2, <2>3, <2>4, <2>5 DEF PeerInv
<1>3. CASE Reduce BY <1>3, <1>a DEF Reduce
<1>4. CASE WalkSources BY <1>4, <1>a DEF WalkSources
<1>5. CASE WalkEdges BY <1>5, <1>a, <1>b DEF WalkEdges, PeerInv
<1>6. CASE UNCHANGED vars BY <1>6, <1>a, <1>b DEF vars, PeerInv
<1> QED BY <1>1, <1>2, <1>3, <1>4, <1>5, <1>6 DEF Next

\* In every graph and after any number of rounds, the cluster peerPressure leaves a vertex in is named
\* by a vertex that reaches it along the scope's edges (peer-pressure.ts).
THEOREM ClustersComeAlong == Spec => []ClustersTravel
<1>1. Init => PeerInv
  BY DEF Init, PeerInv
<1>2. PeerInv => ClustersTravel
  BY DEF PeerInv, ClustersTravel
<1> QED BY <1>1, <1>2, GivenInvariant, PeerStep, PTL DEF Spec

(***************************************************************************)
(* The backstop                                                            *)
(***************************************************************************)
\* The vertices whose estimate no later round changes
Settled(t) ==
  {v \in Node :
     IF job.algo = "wcc" THEN \A u \in Node : Connected(v, u) => t[v] <= Text[u]
     ELSE \E S \in SUBSET Node : v \in S /\ IsCore(t[v], S)}

\* One more member is one more to count
LEMMA OneMore ==
  ASSUME NEW A \in SUBSET Node, NEW B \in SUBSET Node, A \subseteq B, NEW x \in B, x \notin A
  PROVE  /\ Cardinality(A) \in Nat /\ Cardinality(B) \in Nat
         /\ Cardinality(A) + 1 <= Cardinality(B)
<1>1. IsFiniteSet(A) /\ IsFiniteSet(B)
  BY OlapAssumption, FS_Subset
<1>2. Cardinality(A \cup {x}) = Cardinality(A) + 1
  BY <1>1, FS_AddElement
<1>3. (A \cup {x}) \in SUBSET B
  OBVIOUS
<1>4. Cardinality(A \cup {x}) <= Cardinality(B)
  BY <1>1, <1>3, FS_Subset
<1> QED BY <1>1, <1>2, <1>4, FS_CardinalityType

LEMMA AtMostAll ==
  ASSUME NEW A \in SUBSET Node
  PROVE  /\ Cardinality(A) \in Nat /\ Cardinality(Node) \in Nat
         /\ Cardinality(A) <= Cardinality(Node)
         /\ Cardinality(A) = Cardinality(Node) => A = Node
BY OlapAssumption, FS_Subset, FS_CardinalityType

\* A vertex that is not settled has, where its component meets the settled ones, a link to one
LEMMA WccSettles ==
  ASSUME Given, job.algo = "wcc", NEW t \in [Node -> Nat], \A v \in Node : t[v] <= Text[v],
         NEW v \in Node, v \notin Settled(t)
  PROVE  \E x \in Node : x \notin Settled(t) /\ x \in Settled(WccRound(t))
<1> DEFINE C == {x \in Node : Connected(v, x)}
           texts == {Text[x] : x \in C}
           S == Node \ Settled(t)
<1>1. texts \in SUBSET Nat /\ texts # {}
  BY ConnectedSelf, OlapAssumption
<1>2. Min(texts) \in texts /\ \A y \in texts : Min(texts) <= y
  BY <1>1, LeastNatural
<1>3. PICK m \in C : Text[m] = Min(texts)
  BY <1>2
<1>4. \A u \in C : Text[m] <= Text[u]
  BY <1>2, <1>3
<1>5. \A u \in Node : Connected(m, u) => u \in C
  BY <1>3 DEF Connected, Reaches
<1>6. m \in Settled(t)
  <2>1. ASSUME NEW u \in Node, Connected(m, u)
        PROVE  t[m] <= Text[u]
    <3>1. u \in C
      BY <1>5, <2>1
    <3>2. Text[m] <= Text[u]
      BY <1>4, <3>1
    <3>3. t[m] <= Text[m] /\ t[m] \in Nat /\ Text[m] \in Nat /\ Text[u] \in Nat
      BY <1>3, OlapAssumption
    <3> QED BY <3>2, <3>3
  <2> QED BY <1>3, <2>1 DEF Settled
<1>7. PICK x \in S, y \in Node : Linked(x, y) /\ y \notin S
  <2>1. S \in SUBSET Node /\ v \in S /\ m \notin S /\ Connected(v, m)
    BY <1>3, <1>6
  <2> HIDE DEF S
  <2> QED BY <2>1 DEF Connected, Reaches
<1>8. ASSUME NEW u \in Node, Connected(x, u)
      PROVE  WccRound(t)[x] <= Text[u]
  <2>1. Connected(y, u)
    BY <1>7, <1>8, LinkedIsSymmetric, ConnectedAcross
  <2>2. t[y] <= Text[u]
    BY <1>7, <2>1 DEF Settled
  <2>3. WccRound(t)[x] \in Nat /\ WccRound(t)[x] <= t[y] /\ t[y] \in Nat /\ Text[u] \in Nat
    BY <1>7, WccRoundIs, OlapAssumption
  <2> QED BY <2>2, <2>3
<1>9. x \in Settled(WccRound(t))
  BY <1>8 DEF Settled
<1> QED BY <1>7, <1>9

LEMMA WccStaysSettled ==
  ASSUME Given, job.algo = "wcc", NEW t \in [Node -> Nat]
  PROVE  Settled(t) \subseteq Settled(WccRound(t))
<1> SUFFICES ASSUME NEW v \in Settled(t), NEW u \in Node, Connected(v, u)
             PROVE  WccRound(t)[v] <= Text[u]
  BY DEF Settled
<1>1. v \in Node /\ t[v] <= Text[u]
  BY DEF Settled
<1>2. WccRound(t)[v] \in Nat /\ WccRound(t)[v] <= t[v] /\ t[v] \in Nat /\ Text[u] \in Nat
  BY <1>1, WccRoundIs, OlapAssumption
<1> QED BY <1>1, <1>2

LEMMA WccAllSettled ==
  ASSUME Given, job.algo = "wcc", NEW t \in [Node -> Nat], Settled(t) = Node,
         \A v \in Node : \E u \in Node : Connected(v, u) /\ t[v] = Text[u]
  PROVE  \A v \in Node : WccRound(t)[v] = t[v]
<1> TAKE v \in Node
<1>1. WccRound(t)[v] \in Nat /\ t[v] \in Nat /\ WccRound(t)[v] <= t[v]
  BY WccRoundIs
<1>2. CASE WccRound(t)[v] = t[v]
  BY <1>2
<1>3. CASE \E x \in Node : Linked(v, x) /\ WccRound(t)[v] = t[x]
  <2>1. PICK x \in Node : Linked(v, x) /\ WccRound(t)[v] = t[x]
    BY <1>3
  <2>2. PICK u \in Node : Connected(x, u) /\ t[x] = Text[u]
    OBVIOUS
  <2>3. Connected(v, u)
    BY <2>1, <2>2, ConnectedAcross
  <2>4. t[v] <= Text[u]
    BY <2>3 DEF Settled
  <2> QED BY <1>1, <2>1, <2>2, <2>4
<1> QED BY <1>2, <1>3, WccRoundIs

\* No core of k holds a vertex whose estimate is below k
Bounded(t) == \A S \in SUBSET Node, k \in Nat, v \in Node : v \in S /\ IsCore(k, S) => k <= t[v]

LEMMA WithinUnd ==
  ASSUME NEW v \in Node, NEW S \in SUBSET Und(v), NEW T \in SUBSET S
  PROVE  /\ IsFiniteSet(S) /\ Cardinality(S) \in Nat /\ Cardinality(T) \in Nat
         /\ Cardinality(T) <= Cardinality(S)
BY UndFinite, FS_Subset, FS_CardinalityType

LEMMA LowerCore ==
  ASSUME NEW S \in SUBSET Node, NEW k \in Nat, NEW n \in Nat, k <= n, IsCore(n, S)
  PROVE  IsCore(k, S)
<1> SUFFICES ASSUME NEW x \in S PROVE Cardinality(Und(x) \cap S) >= k
  BY DEF IsCore
<1> DEFINE c == Cardinality(Und(x) \cap S)
<1>1. c \in Nat
  BY WithinUnd
<1>2. c >= n
  BY DEF IsCore
<1> HIDE DEF c
<1>3. c >= k
  BY <1>1, <1>2
<1> QED BY <1>3 DEF c

\* Among the vertices that are not settled the one of the least coreness whose neighbours of more are
\* few settles in the next round
LEMMA KCoreSettles ==
  ASSUME Given, job.algo = "kcore", NEW t \in [Node -> Nat], Bounded(t), Bounded(KCoreRound(t)),
         NEW u \in Node, u \notin Settled(t)
  PROVE  \E x \in Node : x \notin Settled(t) /\ x \in Settled(KCoreRound(t))
<1> DEFINE In(k, v) == \E S \in SUBSET Node : v \in S /\ IsCore(k, S)
           U == Node \ Settled(t)
           K == {k \in Nat : \E v \in U : ~In(k + 1, v)}
           k == Min(K)
           P == {v \in Node : In(k + 1, v)}
           W == U \cup P
<1>1. K \in SUBSET Nat /\ K # {}
  <2>1. ASSUME In(t[u] + 1, u)
        PROVE  FALSE
    <3>1. PICK S \in SUBSET Node : u \in S /\ IsCore(t[u] + 1, S)
      BY <2>1
    <3>2. t[u] \in Nat /\ t[u] + 1 \in Nat
      OBVIOUS
    <3>3. t[u] + 1 <= t[u]
      BY <3>1, <3>2 DEF Bounded
    <3> QED BY <3>2, <3>3
  <2>2. t[u] \in K
    BY <2>1
  <2> QED BY <2>2
<1>2. k \in K /\ \A y \in K : k <= y
  BY <1>1, LeastNatural
<1>3. k \in Nat
  BY <1>2
<1>4. PICK a \in U : ~In(k + 1, a)
  BY <1>2
<1> HIDE DEF k
<1>5. ASSUME NEW v \in U
      PROVE  In(k, v)
  <2>1. CASE k = 0
    <3>1. IsCore(0, Node)
      <4>1. \A x \in Node : Cardinality(Und(x) \cap Node) \in Nat
        BY WithinUnd
      <4> QED BY <4>1 DEF IsCore
    <3> QED BY <2>1, <3>1
  <2>2. CASE k # 0
    <3>1. k - 1 \in Nat /\ ~(k <= k - 1) /\ (k - 1) + 1 = k
      BY <1>3, <2>2
    <3>2. k - 1 \notin K
      BY <1>2, <3>1
    <3>3. In((k - 1) + 1, v)
      BY <3>1, <3>2
    <3> QED BY <3>1, <3>3
  <2> QED BY <2>1, <2>2
<1>6. \E w \in U : ~(Cardinality(Und(w) \cap W) >= k + 1)
  <2>1. SUFFICES ASSUME \A w \in U : Cardinality(Und(w) \cap W) >= k + 1
                 PROVE  FALSE
    OBVIOUS
  <2>2. ASSUME NEW x \in P
        PROVE  Cardinality(Und(x) \cap W) >= k + 1
    <3>1. PICK S \in SUBSET Node : x \in S /\ IsCore(k + 1, S)
      OBVIOUS
    <3>2. \A y \in S : y \in P
      BY <3>1
    <3>3. (Und(x) \cap S) \in SUBSET (Und(x) \cap W)
      BY <3>2
    <3> DEFINE c == Cardinality(Und(x) \cap S)
               d == Cardinality(Und(x) \cap W)
    <3>4. c \in Nat /\ d \in Nat /\ c <= d
      BY <3>3, WithinUnd
    <3>5. c >= k + 1
      BY <3>1 DEF IsCore
    <3> HIDE DEF c, d
    <3>6. d >= k + 1
      BY <1>3, <3>4, <3>5
    <3> QED BY <3>6 DEF d
  <2>3. IsCore(k + 1, W)
    BY <2>1, <2>2 DEF IsCore
  <2>4. W \in SUBSET Node /\ a \in W
    OBVIOUS
  <2> QED BY <1>4, <2>3, <2>4
<1>7. PICK w \in U : ~(Cardinality(Und(w) \cap W) >= k + 1)
  BY <1>6
<1> DEFINE h == KCoreRound(t)[w]
<1>8. h = HIndex(t, w) /\ h \in Nat /\ h <= Cardinality({y \in Und(w) : t[y] >= h})
  BY HIndexNat, HIndexIs DEF KCoreRound
<1>9. ASSUME NEW y \in Und(w), t[y] >= k + 1
      PROVE  y \in W
  <2>1. y \in Node
    BY DEF Und
  <2>2. CASE y \in Settled(t)
    <3>1. PICK S \in SUBSET Node : y \in S /\ IsCore(t[y], S)
      BY <2>2 DEF Settled
    <3>2. k + 1 \in Nat /\ t[y] \in Nat /\ k + 1 <= t[y]
      BY <1>3, <1>9, <2>1
    <3>3. IsCore(k + 1, S)
      BY <3>1, <3>2, LowerCore
    <3> QED BY <2>1, <3>1, <3>3
  <2> QED BY <2>1, <2>2
<1>10. h <= k
  <2>1. SUFFICES ASSUME ~(h <= k) PROVE FALSE
    OBVIOUS
  <2> DEFINE high == {y \in Und(w) : t[y] >= h}
             near == Und(w) \cap W
             b == Cardinality(high)
             c == Cardinality(near)
  <2>2. \A y \in Und(w) : t[y] >= h => t[y] >= k + 1
    <3>1. \A y \in Und(w) : t[y] \in Nat
      BY DEF Und
    <3> HIDE DEF h
    <3> QED BY <1>3, <1>8, <2>1, <3>1
  <2>3. high \in SUBSET near
    BY <1>9, <2>2
  <2>4. b \in Nat /\ c \in Nat /\ b <= c
    BY <2>3, WithinUnd
  <2>5. h <= b /\ ~(c >= k + 1)
    BY <1>7, <1>8
  <2> HIDE DEF b, c, h
  <2> QED BY <1>3, <1>8, <2>1, <2>4, <2>5
<1>11. PICK S \in SUBSET Node : w \in S /\ IsCore(k, S)
  BY <1>5
<1>12. k <= h
  BY <1>3, <1>11 DEF Bounded
<1>13. h = k
  <2> HIDE DEF h
  <2> QED BY <1>3, <1>8, <1>10, <1>12
<1>14. w \in Settled(KCoreRound(t))
  BY <1>11, <1>13 DEF Settled
<1> QED BY <1>14

LEMMA KCoreStaysSettled ==
  ASSUME Given, job.algo = "kcore", NEW t \in [Node -> Nat], Bounded(KCoreRound(t)),
         \A v \in Node : KCoreRound(t)[v] <= t[v],
         NEW v \in Settled(t)
  PROVE  KCoreRound(t)[v] = t[v] /\ v \in Settled(KCoreRound(t))
<1>1. PICK S \in SUBSET Node : v \in S /\ IsCore(t[v], S)
  BY DEF Settled
<1>2. v \in Node /\ t[v] \in Nat /\ KCoreRound(t)[v] \in Nat
  BY HIndexNat DEF Settled, KCoreRound
<1>3. t[v] <= KCoreRound(t)[v] /\ KCoreRound(t)[v] <= t[v]
  BY <1>1, <1>2 DEF Bounded
<1>4. KCoreRound(t)[v] = t[v]
  BY <1>2, <1>3
<1> QED BY <1>1, <1>2, <1>4 DEF Settled

\* Every round that changes something settles a vertex, so there are at least as many as rounds
BackstopInv ==
  job.algo \in {"wcc", "kcore"} =>
    /\ round \in Nat /\ (phase = "seed" => round = 0)
    /\ phase # "exhausted"
    /\ phase = "rounds" => round <= Cardinality(Settled(slot[cur]))

THEOREM FallInvariant == Spec => []FallInv
<1>1. Init => FallInv
  BY DEF Init, FallInv
<1> QED BY <1>1, GivenInvariant, KCoreInvariant, FallStep, PTL DEF Spec

LEMMA BackstopStep ==
  Given /\ WccInv /\ KCoreInv /\ FallInv /\ BackstopInv /\ [Next]_vars /\ WccInv' /\ KCoreInv' => BackstopInv'
<1> SUFFICES ASSUME Given, WccInv, KCoreInv, FallInv, BackstopInv, [Next]_vars, WccInv', KCoreInv',
                    job'.algo \in {"wcc", "kcore"}
             PROVE  BackstopInv'
  BY DEF BackstopInv
<1>0. graph' = graph /\ job' = job
  BY DEF Next, vars, Seed, Round, Reduce, WalkSources, WalkEdges
<1>a. job.algo \in {"wcc", "kcore"} /\ ~Distances
  BY <1>0 DEF Distances
<1>b. \A t : Settled(t)' = Settled(t)
  <2>1. \A x, y \in Node : Connected(x, y)' = Connected(x, y)
    BY <1>0 DEF Connected, Reaches, Linked
  <2>2. \A k, S : IsCore(k, S)' = IsCore(k, S)
    BY <1>0 DEF IsCore, Und
  <2> QED BY <1>0, <2>1, <2>2 DEF Settled
<1>c. MaxRounds = Cardinality(Node) + 1 /\ Cardinality(Node) \in Nat
  BY <1>a, AtMostAll DEF MaxRounds, Distances
<1>d. \A t : Settled(t) \in SUBSET Node
  BY DEF Settled
<1>1. CASE Seed
  <2>1. phase' = "rounds" /\ round' = 0
    <3>1. MaxRounds # 0
      BY <1>c
    <3> QED BY <1>1, <1>a, <3>1 DEF Seed, BackstopInv
  <2>2. Cardinality(Settled(slot'[cur'])) \in Nat
    BY <1>d, AtMostAll
  <2>3. Cardinality(Settled(slot[cur])') = Cardinality(Settled(slot'[cur']))
    BY <1>b
  <2> QED BY <1>b, <2>1, <2>2, <2>3 DEF BackstopInv
<1>2. CASE Round
  <2> DEFINE t == slot[cur]
             n == slot'[cur']
  <2>1. t \in [Node -> Nat] /\ n \in [Node -> Nat] /\ n = RoundOf(t) /\ phase = "rounds"
    <3>1. phase = "rounds" /\ phase' # "seed" /\ n = RoundOf(t)
      BY <1>2 DEF Round, Given
    <3>2. CASE job.algo = "wcc" BY <1>0, <3>1, <3>2 DEF WccInv
    <3>3. CASE job.algo = "kcore" BY <1>0, <3>1, <3>3 DEF KCoreInv
    <3> QED BY <1>a, <3>1, <3>2, <3>3
  <2>2. /\ Settled(t) \subseteq Settled(n)
        /\ Settled(t) = Node => \A v \in Node : n[v] = t[v]
        /\ Settled(t) # Node => \E x \in Node : x \notin Settled(t) /\ x \in Settled(n)
    <3>0. Settled(t) # Node => \E v \in Node : v \notin Settled(t)
      BY <1>d
    <3>1. CASE job.algo = "wcc"
      <4>1. n = WccRound(t)
        BY <2>1, <3>1 DEF RoundOf
      <4>2. /\ \A v \in Node : t[v] <= Text[v]
            /\ \A v \in Node : \E u \in Node : Connected(v, u) /\ t[v] = Text[u]
        BY <2>1, <3>1 DEF WccInv
      <4>3. Settled(t) \subseteq Settled(n)
        BY <2>1, <3>1, <4>1, WccStaysSettled
      <4>4. Settled(t) = Node => \A v \in Node : n[v] = t[v]
        BY <2>1, <3>1, <4>1, <4>2, WccAllSettled
      <4>5. \A v \in Node : v \notin Settled(t) => \E x \in Node : x \notin Settled(t) /\ x \in Settled(n)
        BY <2>1, <3>1, <4>1, <4>2, WccSettles
      <4> QED BY <3>0, <4>3, <4>4, <4>5
    <3>2. CASE job.algo = "kcore"
      <4>1. n = KCoreRound(t) /\ \A v \in Node : KCoreRound(t)[v] <= t[v]
        BY <2>1, <3>2 DEF RoundOf, FallInv
      <4>2. Bounded(t)
        BY <2>1, <3>2 DEF Bounded, KCoreInv
      <4>3. Bounded(n)
        <5>1. \A k, S : IsCore(k, S)' = IsCore(k, S)
          BY <1>0 DEF IsCore, Und
        <5>2. phase' # "seed" /\ job'.algo = "kcore"
          BY <1>0, <1>2, <3>2 DEF Round
        <5> QED BY <5>1, <5>2 DEF Bounded, KCoreInv
      <4>4. \A v \in Settled(t) : n[v] = t[v] /\ v \in Settled(n)
        BY <2>1, <3>2, <4>1, <4>3, KCoreStaysSettled
      <4>5. \A v \in Node : v \notin Settled(t) => \E x \in Node : x \notin Settled(t) /\ x \in Settled(n)
        BY <2>1, <3>2, <4>1, <4>2, <4>3, KCoreSettles
      <4> QED BY <3>0, <4>4, <4>5
    <3> QED BY <1>a, <3>1, <3>2
  <2>3. phase' \in {"rounds", "exhausted"} => Settled(t) # Node
    <3>1. SUFFICES ASSUME Settled(t) = Node PROVE phase' = "fixed"
      OBVIOUS
    <3>2. ChangedCount(t, n) = {}
      BY <2>1, <2>2, <3>1 DEF ChangedCount
    <3>3. slot'[1 - cur] = n
      BY <1>2 DEF Round
    <3> QED BY <1>2, <1>a, <3>2, <3>3 DEF Round, Changed
  <2> DEFINE a == Cardinality(Settled(t))
             b == Cardinality(Settled(n))
             m == Cardinality(Node)
  <2>4. Settled(t) # Node => a \in Nat /\ b \in Nat /\ a + 1 <= b /\ b <= m /\ m \in Nat
    BY <1>d, <2>2, OneMore, AtMostAll
  <2>5. round \in Nat /\ round <= a /\ round' = round + 1
    BY <1>2, <1>a, <2>1 DEF BackstopInv, Round
  <2>6. Cardinality(Settled(slot[cur])') = b
    BY <1>b
  <2>7. phase' \in {"rounds", "fixed"}
    <3>1. phase' \in {"rounds", "fixed", "exhausted"} /\ (phase' = "exhausted" => round + 1 = m + 1)
      BY <1>2, <1>c DEF Round
    <3> HIDE DEF a, b, m
    <3>2. Settled(t) # Node => round + 1 # m + 1
      BY <2>4, <2>5
    <3> QED BY <2>3, <3>1, <3>2
  <2>8. phase' = "rounds" => round' <= b
    <3> HIDE DEF a, b, m
    <3> QED BY <2>3, <2>4, <2>5
  <2> QED BY <2>5, <2>6, <2>7, <2>8 DEF BackstopInv
<1>3. CASE Reduce BY <1>3, <1>a DEF Reduce
<1>4. CASE WalkSources BY <1>4, <1>a DEF WalkSources
<1>5. CASE WalkEdges BY <1>5, <1>a DEF WalkEdges, WccInv, KCoreInv
<1>6. CASE UNCHANGED vars
  <2>1. Settled(slot[cur])' = Settled(slot[cur])
    BY <1>0, <1>b, <1>6 DEF vars
  <2> QED BY <1>6, <1>a, <2>1 DEF vars, BackstopInv
<1> QED BY <1>1, <1>2, <1>3, <1>4, <1>5, <1>6 DEF Next

\* In every graph the rounds of connectedComponent and kcore end because one changed nothing, never
\* because there were as many as vertices (wcc.ts, kcore.ts), so what ComponentsCorrect and
\* CorenessCorrect say of a fixpoint they say of every result; scc needs no rounds.
THEOREM BackstopSpare == Spec => [](~Distances => BackstopUnused)
<1>1. Init => BackstopInv
  BY DEF Init, BackstopInv
<1>2. Given /\ BackstopInv => (~Distances => BackstopUnused)
  BY OlapAssumption DEF Given, BackstopInv, BackstopUnused, Distances
<1> QED BY <1>1, <1>2, GivenInvariant, WccInvariant, KCoreInvariant, FallInvariant, BackstopStep, PTL DEF Spec

(***************************************************************************)
(* Induction, and functions defined by it                                  *)
(***************************************************************************)
LEMMA Induct ==
  ASSUME NEW S \in SUBSET Nat, 0 \in S, \A n \in S : n + 1 \in S
  PROVE  \A n \in Nat : n \in S
<1> DEFINE T == Nat \ S
<1> SUFFICES ASSUME T # {} PROVE FALSE
  OBVIOUS
<1>1. Min(T) \in T /\ \A y \in T : Min(T) <= y
  BY LeastNatural
<1> DEFINE m == Min(T)
<1> HIDE DEF m
<1>2. m \in Nat /\ m \notin S /\ m # 0 /\ \A y \in T : m <= y
  BY <1>1 DEF m
<1>3. m - 1 \in Nat /\ ~(m <= m - 1) /\ (m - 1) + 1 = m
  BY <1>2
<1>4. m - 1 \in S
  BY <1>2, <1>3
<1> QED BY <1>2, <1>3, <1>4

\* A function that starts with A at b and goes on by G
Unfolds(f, X, A, G, b, d) ==
  /\ f \in [b..(b + d) -> X] /\ f[b] = A
  /\ \A n \in b..(b + d) : n # b => f[n] = G[<<n, f[n - 1]>>]

LEMMA Recursion ==
  ASSUME NEW X, NEW A \in X, NEW G \in [Nat \X X -> X], NEW b \in Nat, NEW d \in Nat
  PROVE  \E f : Unfolds(f, X, A, G, b, d)
<1> DEFINE Is(f, m) == Unfolds(f, X, A, G, b, m)
           S == {m \in Nat : \E f : Is(f, m)}
<1> USE DEF Unfolds
<1>1. 0 \in S
  <2> DEFINE f == [n \in b..(b + 0) |-> A]
  <2>1. Is(f, 0)
    OBVIOUS
  <2> QED BY <2>1
<1>2. ASSUME NEW m \in S
      PROVE  m + 1 \in S
  <2>1. m \in Nat /\ m + 1 \in Nat
    OBVIOUS
  <2>2. PICK f : Is(f, m)
    OBVIOUS
  <2> DEFINE z == b + (m + 1)
             g == [n \in b..(b + (m + 1)) |-> IF n = z THEN G[<<z, f[z - 1]>>] ELSE f[n]]
  <2>3. z - 1 \in b..(b + m) /\ z \in Nat /\ z # b /\ b \in b..(b + m)
    BY <2>1
  <2>4. \A n \in b..(b + (m + 1)) : n # z => n \in b..(b + m)
    BY <2>1
  <2>5. \A n \in b..(b + (m + 1)) : n # b => n - 1 \in b..(b + m) /\ n - 1 \in b..(b + (m + 1)) /\ n - 1 # z
    BY <2>1
  <2>a. b \in b..(b + (m + 1))
    BY <2>1
  <2> HIDE DEF z
  <2>6. g \in [b..(b + (m + 1)) -> X]
    <3>1. G[<<z, f[z - 1]>>] \in X
      BY <2>2, <2>3
    <3>2. \A n \in b..(b + (m + 1)) : g[n] \in X
      BY <2>2, <2>4, <3>1
    <3> QED BY <3>2
  <2>7. g[b] = A
    BY <2>2, <2>3, <2>a
  <2>8. ASSUME NEW n \in b..(b + (m + 1)), n # b
        PROVE  g[n] = G[<<n, g[n - 1]>>]
    <3>1. g[n - 1] = f[n - 1]
      BY <2>5, <2>8
    <3>2. CASE n = z
      BY <3>1, <3>2
    <3>3. CASE n # z
      <4>1. n \in b..(b + m)
        BY <2>4, <3>3
      <4>2. f[n] = G[<<n, f[n - 1]>>]
        BY <2>2, <2>8, <4>1
      <4> QED BY <3>1, <3>3, <4>2
    <3> QED BY <3>2, <3>3
  <2> HIDE DEF g
  <2>9. Is(g, m + 1)
    BY <2>6, <2>7, <2>8
  <2> QED BY <2>1, <2>6, <2>9
<1>3. d \in S
  <2> HIDE DEF S
  <2>1. S \in SUBSET Nat
    BY DEF S
  <2> QED BY <1>1, <1>2, <2>1, Induct
<1> QED BY <1>3

(***************************************************************************)
(* scc                                                                     *)
(***************************************************************************)
\* One more edge behind the pairs there are
Onward(R) == R \cup {<<x[1][1], graph[x[2]].tgt>> : x \in {y \in R \X Edge : graph[y[2]].src = y[1][2]}}
Diagonal == {<<v, v>> : v \in Node}

\* The closure of at most n edges, and Reach is that of as many as there are vertices
LEMMA ReachIs ==
  ASSUME Given
  PROVE  \E f \in [0..Cardinality(Node) -> SUBSET (Node \X Node)] :
           /\ f[0] = Diagonal
           /\ \A n \in 1..Cardinality(Node) : f[n] = Onward(f[n - 1])
           /\ Reach = f[Cardinality(Node)]
<1> DEFINE N == Cardinality(Node)
           X == SUBSET (Node \X Node)
           G == [p \in Nat \X X |-> Onward(p[2])]
           Eq(f) == f = [n \in 0..N |-> IF n = 0 THEN Diagonal ELSE Onward(f[n - 1])]
           reach == CHOOSE f : Eq(f)
<1>0. N \in Nat /\ 0..(0 + N) = 0..N
  BY AtMostAll
<1>1. \A R \in X : Onward(R) \in X
  BY DEF Onward, Given
<1>2. Diagonal \in X
  BY DEF Diagonal
<1>3. G \in [Nat \X X -> X]
  BY <1>1
<1> HIDE DEF X, N
<1>z. PICK z \in Nat : z = 0
  OBVIOUS
<1>4. PICK f : Unfolds(f, X, Diagonal, G, z, N)
  <2> HIDE DEF G
  <2> QED BY <1>0, <1>2, <1>3, Recursion
<1>5. f \in [0..N -> X] /\ f[0] = Diagonal /\ \A n \in 0..N : n # 0 => f[n] = G[<<n, f[n - 1]>>]
  <2>1. z + N = N
    BY <1>0, <1>z
  <2> QED BY <1>z, <1>4, <2>1 DEF Unfolds
<1>a. \A n \in 0..N : n # 0 => n \in Nat /\ n - 1 \in 0..N
  BY <1>0
<1>6. \A n \in 0..N : n # 0 => n \in Nat /\ n - 1 \in 0..N /\ f[n - 1] \in X
  BY <1>a, <1>5
<1>7. \A n \in 0..N : n # 0 => G[<<n, f[n - 1]>>] = Onward(f[n - 1])
  BY <1>6
<1>8. Eq(f)
  <2>1. \A n \in 0..N : f[n] = IF n = 0 THEN Diagonal ELSE Onward(f[n - 1])
    BY <1>5, <1>7
  <2>2. f = [n \in 0..N |-> f[n]]
    BY <1>5
  <2> QED BY <2>1, <2>2
<1>9. Eq(reach)
  BY <1>8
<1>10. Reach = reach[N]
  BY DEF Reach, Onward, Diagonal, N
<1> HIDE DEF reach
<1>11. \A n \in 0..N : reach[n] = IF n = 0 THEN Diagonal ELSE Onward(reach[n - 1])
  BY <1>9
<1>12. reach \in [0..N -> X]
  <2> DEFINE S == {n \in Nat : n \in 0..N => reach[n] \in X}
  <2>1. 0 \in S
    BY <1>0, <1>2, <1>11
  <2>2. ASSUME NEW n \in S
        PROVE  n + 1 \in S
    <3>1. SUFFICES ASSUME n + 1 \in 0..N PROVE reach[n + 1] \in X
      OBVIOUS
    <3>2. n \in 0..N /\ n + 1 # 0 /\ (n + 1) - 1 = n
      BY <1>0, <3>1
    <3>3. reach[n + 1] = Onward(reach[n])
      BY <1>11, <3>1, <3>2
    <3> QED BY <1>1, <3>2, <3>3
  <2>3. \A n \in Nat : n \in S
    <3> HIDE DEF S
    <3>1. S \in SUBSET Nat
      BY DEF S
    <3> QED BY <2>1, <2>2, <3>1, Induct
  <2>4. \A n \in 0..N : reach[n] \in X
    BY <2>3
  <2>5. DOMAIN reach = 0..N
    BY <1>9
  <2>6. reach = [n \in 0..N |-> reach[n]]
    BY <1>9, <2>5
  <2> QED BY <2>4, <2>6
<1>13. \A n \in 1..N : n \in 0..N /\ n # 0
  BY <1>0
<1>14. reach[0] = Diagonal
  BY <1>0, <1>11
<1> QED BY <1>10, <1>11, <1>12, <1>13, <1>14 DEF N, X

LEMMA FollowsOut ==
  ASSUME Given, job.algo = "scc", NEW x, NEW y
  PROVE  Follows(x, y) <=> \E e \in Edge : graph[e].src = x /\ graph[e].tgt = y
<1>1. job.direction = "out"
  BY OlapAssumption DEF Given
<1> QED BY <1>1 DEF Follows

\* The closure of as many edges as there are vertices is closed: one that is not has another vertex
LEMMA ReachIsClosed ==
  ASSUME Given, NEW a \in Node
  PROVE  /\ <<a, a>> \in Reach
         /\ \A e \in Edge : <<a, graph[e].src>> \in Reach => <<a, graph[e].tgt>> \in Reach
<1> DEFINE N == Cardinality(Node)
<1>0. N \in Nat
  BY AtMostAll
<1>1. PICK f \in [0..N -> SUBSET (Node \X Node)] :
        /\ f[0] = Diagonal
        /\ \A n \in 1..N : f[n] = Onward(f[n - 1])
        /\ Reach = f[N]
  BY ReachIs
<1> DEFINE Row1(n) == {x \in Node : <<a, x>> \in f[n]}
           Closed(n) == \A e \in Edge : <<a, graph[e].src>> \in f[n] => <<a, graph[e].tgt>> \in f[n]
           S == {n \in Nat : n \in 0..N => /\ <<a, a>> \in f[n]
                                           /\ Closed(n) \/ n + 1 <= Cardinality(Row1(n))}
<1> HIDE DEF N
<1>2. 0 \in S
  <2>1. Row1(0) = {a} /\ <<a, a>> \in f[0]
    BY <1>1 DEF Diagonal
  <2>2. Cardinality(Row1(0)) = 1
    BY <2>1, FS_Singleton
  <2> QED BY <2>1, <2>2
<1>3. ASSUME NEW n \in S
      PROVE  n + 1 \in S
  <2>1. SUFFICES ASSUME n + 1 \in 0..N
                 PROVE  /\ <<a, a>> \in f[n + 1]
                        /\ Closed(n + 1) \/ (n + 1) + 1 <= Cardinality(Row1(n + 1))
    OBVIOUS
  <2>2. n \in Nat /\ n \in 0..N /\ n + 1 \in 1..N /\ (n + 1) - 1 = n
    BY <1>0, <2>1
  <2>3. f[n + 1] = Onward(f[n]) /\ f[n] \in SUBSET (Node \X Node) /\ f[n + 1] \in SUBSET (Node \X Node)
    BY <1>1, <2>1, <2>2
  <2>4. f[n] \subseteq f[n + 1] /\ <<a, a>> \in f[n]
    BY <2>2, <2>3 DEF Onward
  <2>5. \A e \in Edge : <<a, graph[e].src>> \in f[n] => <<a, graph[e].tgt>> \in f[n + 1]
    <3>1. TAKE e \in Edge
    <3>2. SUFFICES ASSUME <<a, graph[e].src>> \in f[n] PROVE <<a, graph[e].tgt>> \in f[n + 1]
      OBVIOUS
    <3> DEFINE y == <<<<a, graph[e].src>>, e>>
    <3>3. y \in f[n] \X Edge /\ graph[y[2]].src = y[1][2] /\ <<y[1][1], graph[y[2]].tgt>> = <<a, graph[e].tgt>>
      BY <3>2
    <3> QED BY <2>3, <3>3 DEF Onward
  <2>6. CASE Closed(n)
    <3>1. ASSUME NEW x, <<a, x>> \in f[n + 1]
          PROVE  <<a, x>> \in f[n]
      <4>1. CASE <<a, x>> \notin f[n]
        <5>1. PICK y \in f[n] \X Edge : graph[y[2]].src = y[1][2] /\ <<a, x>> = <<y[1][1], graph[y[2]].tgt>>
          BY <2>3, <3>1, <4>1 DEF Onward
        <5>2. y[1] = <<y[1][1], y[1][2]>> /\ y[1] \in f[n] /\ y[2] \in Edge
          BY <2>3, <5>1
        <5>3. <<a, graph[y[2]].src>> \in f[n] /\ x = graph[y[2]].tgt
          BY <5>1, <5>2
        <5> QED BY <2>6, <5>2, <5>3
      <4> QED BY <4>1
    <3>2. Closed(n + 1)
      BY <2>5, <3>1
    <3> QED BY <2>4, <3>2
  <2>7. CASE ~Closed(n)
    <3>1. n + 1 <= Cardinality(Row1(n))
      BY <2>2, <2>7
    <3>2. PICK e \in Edge : <<a, graph[e].src>> \in f[n] /\ <<a, graph[e].tgt>> \notin f[n]
      BY <2>7
    <3>3. /\ Row1(n) \in SUBSET Node /\ Row1(n + 1) \in SUBSET Node /\ Row1(n) \subseteq Row1(n + 1)
          /\ graph[e].tgt \in Row1(n + 1) /\ graph[e].tgt \notin Row1(n)
      BY <2>3, <2>4, <2>5, <3>2 DEF Given
    <3> DEFINE A == Row1(n)
               B == Row1(n + 1)
    <3> HIDE DEF A, B
    <3>4. Cardinality(A) \in Nat /\ Cardinality(B) \in Nat /\ Cardinality(A) + 1 <= Cardinality(B)
      BY <3>3, OneMore DEF A, B
    <3>5. n + 1 <= Cardinality(A)
      BY <3>1 DEF A
    <3>6. (n + 1) + 1 <= Cardinality(B)
      BY <2>2, <3>4, <3>5
    <3> QED BY <2>4, <3>6 DEF B
  <2> QED BY <2>6, <2>7
<1>4. N \in S
  <2> HIDE DEF S
  <2>1. S \in SUBSET Nat
    BY DEF S
  <2> QED BY <1>0, <1>2, <1>3, <2>1, Induct
<1>5. <<a, a>> \in f[N] /\ (Closed(N) \/ N + 1 <= Cardinality(Row1(N)))
  BY <1>0, <1>4
<1>6. ~(N + 1 <= Cardinality(Row1(N)))
  <2> DEFINE c == Cardinality(Row1(N))
  <2>1. c \in Nat /\ c <= N
    BY AtMostAll DEF N
  <2> HIDE DEF c
  <2>2. ~(N + 1 <= c)
    BY <1>0, <2>1
  <2> QED BY <2>2 DEF c
<1> QED BY <1>1, <1>5, <1>6

LEMMA ReachIsSound ==
  ASSUME Given, job.algo = "scc"
  PROVE  \A p \in Reach : p \in Node \X Node /\ Reaches(p[1], p[2], Follows)
<1> DEFINE N == Cardinality(Node)
<1>0. N \in Nat
  BY AtMostAll
<1>1. PICK f \in [0..N -> SUBSET (Node \X Node)] :
        /\ f[0] = Diagonal
        /\ \A n \in 1..N : f[n] = Onward(f[n - 1])
        /\ Reach = f[N]
  BY ReachIs
<1> DEFINE S == {n \in Nat : n \in 0..N => \A p \in f[n] : Reaches(p[1], p[2], Follows)}
<1> HIDE DEF N
<1>2. 0 \in S
  BY <1>1 DEF Diagonal, Reaches
<1>3. ASSUME NEW n \in S
      PROVE  n + 1 \in S
  <2>1. SUFFICES ASSUME n + 1 \in 0..N, NEW p \in f[n + 1] PROVE Reaches(p[1], p[2], Follows)
    OBVIOUS
  <2>2. n \in Nat /\ n \in 0..N /\ n + 1 \in 1..N /\ (n + 1) - 1 = n
    BY <1>0, <2>1
  <2>3. f[n + 1] = Onward(f[n]) /\ f[n] \in SUBSET (Node \X Node)
    BY <1>1, <2>2
  <2>4. CASE p \in f[n]
    BY <2>2, <2>4
  <2>5. CASE p \notin f[n]
    <3>1. PICK y \in f[n] \X Edge : graph[y[2]].src = y[1][2] /\ p = <<y[1][1], graph[y[2]].tgt>>
      BY <2>3, <2>5 DEF Onward
    <3>2. y[1] \in f[n] /\ y[1][1] \in Node /\ y[1][2] \in Node /\ y[2] \in Edge
      BY <2>3, <3>1
    <3>3. Reaches(y[1][1], y[1][2], Follows)
      BY <2>2, <3>2
    <3>4. Follows(y[1][2], p[2]) /\ p[1] = y[1][1] /\ p[2] \in Node
      BY <3>1, <3>2, FollowsOut DEF Given
    <3>5. PICK u \in Node, w \in Node, z \in Node : u = y[1][1] /\ w = y[1][2] /\ z = p[2]
      BY <3>2, <3>4
    <3>6. Reaches(u, w, Follows) /\ Follows(w, z)
      BY <3>3, <3>4, <3>5
    <3>7. Reaches(u, z, Follows)
      BY <3>6, ReachesOn
    <3> QED BY <3>4, <3>5, <3>7
  <2> QED BY <2>4, <2>5
<1>4. N \in S
  <2> HIDE DEF S
  <2>1. S \in SUBSET Nat
    BY DEF S
  <2> QED BY <1>0, <1>2, <1>3, <2>1, Induct
<1>5. \A p \in f[N] : p \in Node \X Node /\ Reaches(p[1], p[2], Follows)
  BY <1>0, <1>1, <1>4
<1> QED BY <1>1, <1>5

LEMMA ReachIsReaches ==
  ASSUME Given, job.algo = "scc", NEW a \in Node, NEW b \in Node
  PROVE  <<a, b>> \in Reach <=> Reaches(a, b, Follows)
<1>1. ASSUME <<a, b>> \in Reach
      PROVE  Reaches(a, b, Follows)
  <2> DEFINE p == <<a, b>>
  <2>1. p \in Reach /\ p[1] = a /\ p[2] = b
    BY <1>1
  <2> HIDE DEF p
  <2>2. Reaches(p[1], p[2], Follows)
    BY <2>1, ReachIsSound
  <2> QED BY <2>1, <2>2
<1>2. ASSUME Reaches(a, b, Follows)
      PROVE  <<a, b>> \in Reach
  <2> DEFINE S == {x \in Node : <<a, x>> \in Reach}
  <2>1. a \in S
    BY ReachIsClosed
  <2>2. ASSUME NEW x \in S, NEW y \in Node, Follows(x, y)
        PROVE  y \in S
    <3>1. PICK e \in Edge : graph[e].src = x /\ graph[e].tgt = y
      BY <2>2, FollowsOut
    <3>2. <<a, graph[e].src>> \in Reach
      BY <3>1
    <3>3. <<a, graph[e].tgt>> \in Reach
      BY <3>2, ReachIsClosed
    <3> QED BY <3>1, <3>3
  <2>3. b \in S
    <3> HIDE DEF S
    <3>1. S \in SUBSET Node
      BY DEF S
    <3> QED BY <1>2, <2>1, <2>2, <3>1 DEF Reaches
  <2> QED BY <2>3
<1> QED BY <1>1, <1>2

\* In every graph scc leaves a vertex with the least id text of those that it reaches along the edges
\* and that reach it (scc.ts): as many expansions as vertices close the relation.
THEOREM StrongComponents == Spec => []StrongRight
<1>1. Init => StrongRight
  BY DEF Init, StrongRight
<1>2. Given /\ StrongRight /\ [Next]_vars => StrongRight'
  <2> SUFFICES ASSUME Given, StrongRight, [Next]_vars, job'.algo = "scc", phase' = "done" PROVE StrongRight'
    BY DEF StrongRight
  <2>0. graph' = graph /\ job' = job
    BY DEF Next, vars, Seed, Round, Reduce, WalkSources, WalkEdges
  <2>a. job.algo = "scc"
    BY <2>0
  <2>b. \A u, v \in Node : Reaches(u, v, Follows)' = Reaches(u, v, Follows)
    BY <2>0 DEF Reaches, Follows
  <2> DEFINE Mates(v) == {x \in Node : Reaches(v, x, Follows) /\ Reaches(x, v, Follows)}
  <2>1. CASE Seed
    <3>1. slot'[cur'] = SccScore
      BY <2>1, <2>a DEF Seed, SeedOf, Given
    <3>2. \A v \in Node : Mutual(v) = Mates(v)
      BY <2>a, ReachIsReaches DEF Mutual
    <3>3. \A v \in Node : SccScore[v] = Min({Text[u] : u \in Mates(v)})
      BY <3>2 DEF SccScore
    <3>4. \A v \in Node : Mates(v)' = Mates(v)
      BY <2>b
    <3> HIDE DEF Mates
    <3>5. \A v \in Node : slot'[cur'][v] = Min({Text[u] : u \in Mates(v)})
      BY <3>1, <3>3
    <3>6. \A v \in Node : slot'[cur'][v] = Min({Text[u] : u \in Mates(v)'})
      BY <3>4, <3>5
    <3> QED BY <3>6 DEF Mates, StrongRight
  <2>2. CASE Round BY <2>2, <2>a DEF Round, Given
  <2>3. CASE Reduce BY <2>3, <2>a DEF Reduce
  <2>4. CASE WalkSources BY <2>4, <2>a DEF WalkSources
  <2>5. CASE WalkEdges BY <2>5, <2>a DEF WalkEdges, Given
  <2>6. CASE UNCHANGED vars
    <3>1. slot'[cur'] = slot[cur] /\ phase = "done"
      BY <2>6 DEF vars
    <3>2. \A v \in Node : Mates(v)' = Mates(v)
      BY <2>b
    <3>3. \A v \in Node : slot[cur][v] = Min({Text[u] : u \in Mates(v)})
      BY <2>a, <3>1 DEF StrongRight
    <3> HIDE DEF Mates
    <3>4. \A v \in Node : slot'[cur'][v] = Min({Text[u] : u \in Mates(v)'})
      BY <3>1, <3>2, <3>3
    <3> QED BY <3>4 DEF Mates, StrongRight
  <2> QED BY <2>1, <2>2, <2>3, <2>4, <2>5, <2>6 DEF Next
<1> QED BY <1>1, <1>2, GivenInvariant, PTL DEF Spec

(***************************************************************************)
(* Sequences of rows and their weight                                      *)
(***************************************************************************)
LEMMA SeqOf ==
  ASSUME NEW S, NEW n \in Nat, NEW x \in [1..n -> S]
  PROVE  x \in Seq(S) /\ Len(x) = n
<1>1. x \in Seq(S)
  BY SeqDef
<1>2. Len(x) \in Nat /\ DOMAIN x = 1..Len(x) /\ DOMAIN x = 1..n
  BY <1>1, LenProperties
<1> DEFINE l == Len(x)
<1>3. l \in Nat /\ 1..l = 1..n
  BY <1>2
<1> HIDE DEF l
<1>4. l = n
  <2>1. l > 0 => l \in 1..l
    BY <1>3
  <2>2. n > 0 => n \in 1..n
    OBVIOUS
  <2>3. (l > 0 => l <= n) /\ (n > 0 => n <= l)
    BY <1>3, <2>1, <2>2
  <2> QED BY <1>3, <2>3
<1> QED BY <1>1, <1>4 DEF l

LEMMA RowTyped ==
  ASSUME Given, NEW r \in Adjacency
  PROVE  r.src \in Node /\ r.tgt \in Node /\ r.w \in Int
BY DEF Adjacency, Row, Given

\* The sums along x
Sums(f, x, n) ==
  /\ f \in [0..n -> Int] /\ f[0] = 0
  /\ \A i \in 1..n : f[i] = f[i - 1] + x[i].w

LEMMA SumsGive ==
  ASSUME NEW S, \A r \in S : r.w \in Int, NEW n \in Nat, NEW x \in [1..n -> S], NEW f, Sums(f, x, n)
  PROVE  Weight(x) = f[n]
<1> DEFINE Eq(g) == g = [i \in 0..Len(x) |-> IF i = 0 THEN 0 ELSE g[i - 1] + x[i].w]
           upTo == CHOOSE g : Eq(g)
<1>1. Len(x) = n
  BY SeqOf
<1>2. Eq(f)
  <2>1. \A i \in 0..n : i # 0 => i \in 1..n
    OBVIOUS
  <2>2. \A i \in 0..n : f[i] = IF i = 0 THEN 0 ELSE f[i - 1] + x[i].w
    BY <2>1 DEF Sums
  <2>3. f = [i \in 0..n |-> f[i]]
    BY DEF Sums
  <2>4. f = [i \in 0..n |-> IF i = 0 THEN 0 ELSE f[i - 1] + x[i].w]
    BY <2>2, <2>3
  <2> QED BY <1>1, <2>4
<1>3. Eq(upTo)
  BY <1>2
<1>4. Weight(x) = upTo[Len(x)]
  BY DEF Weight
<1> HIDE DEF upTo
<1>5. \A i \in 0..n : upTo[i] = IF i = 0 THEN 0 ELSE upTo[i - 1] + x[i].w
  BY <1>1, <1>3
<1> DEFINE T == {i \in Nat : i \in 0..n => upTo[i] = f[i]}
<1>6. 0 \in T
  BY <1>5 DEF Sums
<1>7. ASSUME NEW i \in T
      PROVE  i + 1 \in T
  <2>1. SUFFICES ASSUME i + 1 \in 0..n PROVE upTo[i + 1] = f[i + 1]
    OBVIOUS
  <2>2. i \in 0..n /\ i + 1 \in 1..n /\ (i + 1) - 1 = i /\ i + 1 # 0
    BY <2>1
  <2>3. upTo[i + 1] = upTo[i] + x[i + 1].w
    BY <1>5, <2>1, <2>2
  <2>4. f[i + 1] = f[i] + x[i + 1].w
    BY <2>2 DEF Sums
  <2> QED BY <2>2, <2>3, <2>4
<1>8. n \in T
  <2> HIDE DEF T
  <2>1. T \in SUBSET Nat
    BY DEF T
  <2> QED BY <1>6, <1>7, <2>1, Induct
<1> QED BY <1>1, <1>4, <1>8

LEMMA SumsExist ==
  ASSUME NEW S, \A r \in S : r.w \in Int, NEW n \in Nat, NEW x \in [1..n -> S]
  PROVE  \E f : Sums(f, x, n)
<1> DEFINE T == {m \in Nat : m \in 0..n => \E f : Sums(f, x, m)}
<1>1. 0 \in T
  <2> DEFINE f == [i \in 0..0 |-> 0]
  <2>1. Sums(f, x, 0)
    BY DEF Sums
  <2> QED BY <2>1
<1>2. ASSUME NEW m \in T
      PROVE  m + 1 \in T
  <2>1. SUFFICES ASSUME m + 1 \in 0..n PROVE \E f : Sums(f, x, m + 1)
    OBVIOUS
  <2>2. m \in Nat /\ m \in 0..n /\ m + 1 \in 1..n
    BY <2>1
  <2>3. PICK f : Sums(f, x, m)
    BY <2>2
  <2> DEFINE g == [i \in 0..(m + 1) |-> IF i = m + 1 THEN f[m] + x[m + 1].w ELSE f[i]]
  <2>4. f[m] + x[m + 1].w \in Int /\ \A i \in 0..m : f[i] \in Int
    BY <2>2, <2>3 DEF Sums
  <2>5. \A i \in 0..(m + 1) : i # m + 1 => i \in 0..m
    BY <2>2
  <2>6. g \in [0..(m + 1) -> Int]
    BY <2>4, <2>5
  <2>7. g[0] = 0
    BY <2>2, <2>3 DEF Sums
  <2>8. \A i \in 1..(m + 1) : g[i] = g[i - 1] + x[i].w
    <3>1. TAKE i \in 1..(m + 1)
    <3>2. i \in 0..(m + 1) /\ i - 1 \in 0..(m + 1) /\ i - 1 # m + 1 /\ (i # m + 1 => i \in 1..m)
      BY <2>2
    <3>3. g[i - 1] = f[i - 1]
      BY <3>2
    <3>4. CASE i = m + 1
      <4>1. i - 1 = m
        BY <2>2, <3>4
      <4>2. g[i] = f[m] + x[m + 1].w
        BY <3>2, <3>4
      <4> QED BY <3>3, <3>4, <4>1, <4>2
    <3>5. CASE i # m + 1
      <4>1. g[i] = f[i]
        BY <3>2, <3>5
      <4>2. f[i] = f[i - 1] + x[i].w
        BY <2>3, <3>2, <3>5 DEF Sums
      <4> QED BY <3>3, <4>1, <4>2
    <3> QED BY <3>4, <3>5
  <2> HIDE DEF g
  <2>9. Sums(g, x, m + 1)
    BY <2>6, <2>7, <2>8 DEF Sums
  <2> QED BY <2>9
<1>3. n \in T
  <2> HIDE DEF T
  <2>1. T \in SUBSET Nat
    BY DEF T
  <2> QED BY <1>1, <1>2, <2>1, Induct
<1> QED BY <1>3

Prefix(x, i) == [j \in 1..i |-> x[j]]
Suffix(x, i, n) == [j \in 1..(n - i) |-> x[i + j]]

Weighted(S) == \A r \in S : r.w \in Int

\* The weight of the first i rows and of those behind them, where there is no i, n = 0
LEMMA WeightSplit ==
  ASSUME NEW S, Weighted(S), NEW n \in Nat, NEW x \in [1..n -> S], NEW i \in 0..n
  PROVE  /\ Prefix(x, i) \in [1..i -> S] /\ Suffix(x, i, n) \in [1..(n - i) -> S]
         /\ Weight(Prefix(x, i)) \in Int /\ Weight(Suffix(x, i, n)) \in Int
         /\ Weight(x) = Weight(Prefix(x, i)) + Weight(Suffix(x, i, n))
<1>0. i \in Nat /\ n - i \in Nat /\ i <= n
  OBVIOUS
<1>w. \A r \in S : r.w \in Int
  BY DEF Weighted
<1>1. PICK f : Sums(f, x, n)
  BY <1>w, SumsExist
<1>2. \A j \in 0..n : f[j] \in Int
  BY <1>1 DEF Sums
<1>3. Prefix(x, i) \in [1..i -> S]
  BY <1>0 DEF Prefix
<1>4. Suffix(x, i, n) \in [1..(n - i) -> S]
  <2>1. \A j \in 1..(n - i) : i + j \in 1..n
    BY <1>0
  <2> QED BY <2>1 DEF Suffix
<1> DEFINE g == [j \in 0..i |-> f[j]]
           h == [j \in 0..(n - i) |-> f[i + j] - f[i]]
<1>5. Sums(g, Prefix(x, i), i)
  <2>1. \A j \in 0..i : j \in 0..n
    BY <1>0
  <2>2. \A j \in 1..i : j \in 0..i /\ j - 1 \in 0..i /\ j \in 1..n
    BY <1>0
  <2>3. g \in [0..i -> Int] /\ g[0] = 0
    BY <1>0, <1>1, <1>2, <2>1 DEF Sums
  <2>4. \A j \in 1..i : g[j] = g[j - 1] + Prefix(x, i)[j].w
    BY <1>1, <2>2 DEF Sums, Prefix
  <2> HIDE DEF g
  <2> QED BY <2>3, <2>4 DEF Sums
<1>6. Sums(h, Suffix(x, i, n), n - i)
  <2>1. \A j \in 0..(n - i) : i + j \in 0..n
    BY <1>0
  <2>2. \A j \in 1..(n - i) : j \in 0..(n - i) /\ j - 1 \in 0..(n - i) /\ i + j \in 1..n /\ i + (j - 1) = (i + j) - 1
    BY <1>0
  <2>3. h \in [0..(n - i) -> Int]
    BY <1>0, <1>2, <2>1
  <2>4. h[0] = 0
    <3>1. f[i] \in Int /\ i + 0 = i /\ 0 \in 0..(n - i)
      BY <1>0, <1>2
    <3> QED BY <3>1
  <2>5. ASSUME NEW j \in 1..(n - i)
        PROVE  h[j] = h[j - 1] + Suffix(x, i, n)[j].w
    <3>1. h[j] = f[i + j] - f[i] /\ h[j - 1] = f[(i + j) - 1] - f[i] /\ Suffix(x, i, n)[j] = x[i + j]
      BY <2>2 DEF Suffix
    <3>2. f[i + j] = f[(i + j) - 1] + x[i + j].w
      BY <1>1, <2>2 DEF Sums
    <3>3. f[i] \in Int /\ f[(i + j) - 1] \in Int /\ x[i + j].w \in Int
      <4>1. (i + j) - 1 \in 0..n /\ i \in 0..n
        BY <1>0, <2>1, <2>2
      <4> QED BY <1>w, <1>2, <2>2, <4>1
    <3> HIDE DEF h
    <3> QED BY <3>1, <3>2, <3>3
  <2> HIDE DEF h
  <2> QED BY <2>3, <2>4, <2>5 DEF Sums
<1>7. Weight(x) = f[n]
  BY <1>w, <1>1, SumsGive
<1>8. Weight(Prefix(x, i)) = f[i]
  <2>1. Weight(Prefix(x, i)) = g[i]
    <3> HIDE DEF g
    <3> QED BY <1>w, <1>0, <1>3, <1>5, SumsGive
  <2> QED BY <1>0, <2>1
<1>9. Weight(Suffix(x, i, n)) = f[n] - f[i]
  <2>1. Weight(Suffix(x, i, n)) = h[n - i]
    <3> HIDE DEF h
    <3> DEFINE m == n - i
               y == Suffix(x, i, n)
    <3>1. m \in Nat /\ y \in [1..m -> S] /\ Sums(h, y, m)
      BY <1>0, <1>4, <1>6
    <3> HIDE DEF m, y
    <3>2. Weight(y) = h[m]
      BY <1>w, <3>1, SumsGive
    <3> QED BY <3>2 DEF m, y
  <2>2. n - i \in 0..(n - i) /\ i + (n - i) = n
    BY <1>0
  <2> QED BY <2>1, <2>2
<1>10. f[n] \in Int /\ f[i] \in Int
  BY <1>0, <1>2
<1> DEFINE a == f[n]
           b == f[i]
<1>11. a = b + (a - b) /\ b \in Int /\ a - b \in Int
  <2>1. a \in Int /\ b \in Int
    BY <1>10
  <2> HIDE DEF a, b
  <2> QED BY <2>1
<1> QED BY <1>3, <1>4, <1>7, <1>8, <1>9, <1>11

LEMMA WeightOne ==
  ASSUME NEW S, \A r \in S : r.w \in Int, NEW x \in [1..1 -> S]
  PROVE  Weight(x) = x[1].w
<1> DEFINE f == [i \in 0..1 |-> IF i = 0 THEN 0 ELSE x[1].w]
<1>1. PICK n \in 0..2 : n = 1
  OBVIOUS
<1>2. x[1].w \in Int
  OBVIOUS
<1>3. Sums(f, x, n)
  <2>1. f \in [0..n -> Int] /\ f[0] = 0
    BY <1>1, <1>2
  <2>2. f[1] = f[1 - 1] + x[1].w
    BY <1>2
  <2> HIDE DEF f
  <2>3. \A i \in 1..n : i = 1
    BY <1>1
  <2> QED BY <2>1, <2>2, <2>3 DEF Sums
<1>4. Weight(x) = f[n]
  <2>1. n \in Nat /\ x \in [1..n -> S]
    BY <1>1
  <2> HIDE DEF f
  <2> QED BY <1>3, <2>1, SumsGive
<1> QED BY <1>1, <1>4

(***************************************************************************)
(* Trails                                                                  *)
(***************************************************************************)
\* n rows one behind the other, none back to a vertex left before
IsTrail(x, n) ==
  /\ n \in Nat \ {0} /\ x \in [1..n -> Adjacency]
  /\ \A i \in 1..(n - 1) : x[i].tgt = x[i + 1].src
  /\ \A i, j \in 1..n : i <= j => x[j].tgt # x[i].src

\* WeightSplit, of the rows of the graph.
LEMMA RowSplit ==
  ASSUME Given, NEW n \in Nat, NEW x \in [1..n -> Adjacency], NEW i \in 0..n
  PROVE  /\ Prefix(x, i) \in [1..i -> Adjacency] /\ Suffix(x, i, n) \in [1..(n - i) -> Adjacency]
         /\ Weight(Prefix(x, i)) \in Int /\ Weight(Suffix(x, i, n)) \in Int
         /\ Weight(x) = Weight(Prefix(x, i)) + Weight(Suffix(x, i, n))
<1>1. Weighted(Adjacency)
  BY RowTyped DEF Weighted
<1> QED
  BY <1>1, WeightSplit

LEMMA WeightLast ==
  ASSUME NEW S, \A r \in S : r.w \in Int, NEW n \in Nat, NEW x \in [1..(n + 1) -> S]
  PROVE  Weight(x) \in Int /\ Weight(Prefix(x, n)) \in Int /\ Weight(x) = Weight(Prefix(x, n)) + x[n + 1].w
<1> DEFINE m == n + 1
           y == Suffix(x, n, m)
<1>1. m \in Nat /\ n \in 0..m /\ m - n = 1 /\ m \in 1..m
  OBVIOUS
<1>2. x \in [1..m -> S]
  OBVIOUS
<1>3. y \in [1..(m - n) -> S] /\ Weight(Prefix(x, n)) \in Int /\ Weight(x) = Weight(Prefix(x, n)) + Weight(y)
  <2> HIDE DEF m, y
  <2>1. m \in Nat /\ n \in 0..m
    BY <1>1
  <2>2. /\ Suffix(x, n, m) \in [1..(m - n) -> S]
        /\ Weight(Prefix(x, n)) \in Int
        /\ Weight(x) = Weight(Prefix(x, n)) + Weight(Suffix(x, n, m))
    <3>1. Weighted(S)
      BY DEF Weighted
    <3> QED BY <1>2, <2>1, <3>1, WeightSplit
  <2> QED BY <2>2 DEF y
<1>4. y \in [1..1 -> S]
  BY <1>1, <1>3
<1>5. Weight(y) = y[1].w
  <2> HIDE DEF y
  <2> QED BY <1>4, WeightOne
<1>6. y[1] = x[n + 1]
  BY <1>1 DEF Suffix
<1>7. x[n + 1].w \in Int
  BY <1>1
<1> HIDE DEF m, y
<1> QED BY <1>3, <1>5, <1>6, <1>7

LEMMA AppendRow ==
  ASSUME NEW S, NEW n \in Nat, NEW x \in [1..n -> S], NEW r \in S
  PROVE  /\ Append(x, r) \in [1..(n + 1) -> S] /\ Append(x, r)[n + 1] = r
         /\ \A i \in 1..n : Append(x, r)[i] = x[i]
         /\ Prefix(Append(x, r), n) = x
<1>1. x \in Seq(S) /\ Len(x) = n
  BY SeqOf
<1>2. /\ Append(x, r) \in Seq(S) /\ Len(Append(x, r)) = n + 1
      /\ \A i \in 1..n : Append(x, r)[i] = x[i]
      /\ Append(x, r)[n + 1] = r
  BY <1>1, AppendProperties
<1>3. Append(x, r) \in [1..(n + 1) -> S]
  BY <1>2, LenProperties
<1>4. Prefix(Append(x, r), n) = [i \in 1..n |-> x[i]]
  BY <1>2 DEF Prefix
<1> QED BY <1>2, <1>3, <1>4

LEMMA TrailPrefix ==
  ASSUME NEW n, NEW x, IsTrail(x, n), NEW i \in 1..n
  PROVE  IsTrail(Prefix(x, i), i) /\ Prefix(x, i)[1] = x[1] /\ Prefix(x, i)[i] = x[i]
<1>1. n \in Nat /\ i \in Nat \ {0} /\ (\A j \in 1..i : j \in 1..n) /\ 1 \in 1..i /\ i \in 1..i
  BY DEF IsTrail
<1>2. \A j \in 1..(i - 1) : j \in 1..i /\ j + 1 \in 1..i /\ j \in 1..(n - 1)
  BY <1>1
<1>3. \A j \in 1..i : Prefix(x, i)[j] = x[j]
  BY DEF Prefix
<1>4. Prefix(x, i) \in [1..i -> Adjacency]
  BY <1>1 DEF Prefix, IsTrail
<1>5. \A j \in 1..(i - 1) : Prefix(x, i)[j].tgt = Prefix(x, i)[j + 1].src
  BY <1>2, <1>3 DEF IsTrail
<1>6. \A j, k \in 1..i : j <= k => Prefix(x, i)[k].tgt # Prefix(x, i)[j].src
  BY <1>1, <1>3 DEF IsTrail
<1> QED BY <1>1, <1>3, <1>4, <1>5, <1>6 DEF IsTrail

LEMMA TrailSuffix ==
  ASSUME NEW n, NEW x, IsTrail(x, n), NEW i \in 0..(n - 1)
  PROVE  /\ IsTrail(Suffix(x, i, n), n - i)
         /\ Suffix(x, i, n)[1] = x[i + 1] /\ Suffix(x, i, n)[n - i] = x[n]
<1> DEFINE m == n - i
           y == Suffix(x, i, n)
<1>1. n \in Nat /\ i \in Nat /\ m \in Nat \ {0} /\ 1 \in 1..m /\ m \in 1..m /\ i + m = n
  BY DEF IsTrail
<1>2. \A j \in 1..m : i + j \in 1..n
  BY <1>1
<1>3. \A j \in 1..m : y[j] = x[i + j]
  BY DEF Suffix
<1>4. \A j \in 1..(m - 1) : j \in 1..m /\ j + 1 \in 1..m /\ i + j \in 1..(n - 1) /\ i + (j + 1) = (i + j) + 1
  BY <1>1
<1>5. \A j, k \in 1..m : j <= k => i + j <= i + k
  BY <1>1
<1>6. y \in [1..m -> Adjacency]
  BY <1>2 DEF Suffix, IsTrail
<1> HIDE DEF m, y
<1>7. \A j \in 1..(m - 1) : y[j].tgt = y[j + 1].src
  BY <1>3, <1>4 DEF IsTrail
<1>8. \A j, k \in 1..m : j <= k => y[k].tgt # y[j].src
  BY <1>2, <1>3, <1>5 DEF IsTrail
<1>9. y[1] = x[i + 1] /\ y[m] = x[n]
  BY <1>1, <1>3
<1>10. IsTrail(y, m)
  BY <1>1, <1>6, <1>7, <1>8 DEF IsTrail
<1> QED BY <1>9, <1>10 DEF m, y

LEMMA TrailOn ==
  ASSUME NEW n, NEW x, IsTrail(x, n), NEW r \in Adjacency, r.src = x[n].tgt,
         \A i \in 1..n : r.tgt # x[i].src, r.tgt # r.src
  PROVE  IsTrail(Append(x, r), n + 1)
<1> DEFINE y == Append(x, r)
           m == n + 1
<1>0. n \in Nat \ {0} /\ x \in [1..n -> Adjacency]
  BY DEF IsTrail
<1>a. n \in Nat
  BY <1>0
<1>1. y \in [1..m -> Adjacency] /\ y[m] = r /\ \A i \in 1..n : y[i] = x[i]
  <2>1. x \in [1..n -> Adjacency]
    BY <1>0
  <2>2. Append(x, r) \in [1..(n + 1) -> Adjacency]
    BY <1>a, <2>1, AppendRow
  <2>3. Append(x, r)[n + 1] = r
    BY <1>a, <2>1, AppendRow
  <2>4. \A i \in 1..n : Append(x, r)[i] = x[i]
    BY <1>a, <2>1, AppendRow
  <2> QED BY <2>2, <2>3, <2>4
<1>2. m \in Nat \ {0} /\ n \in 1..n /\ m - 1 = n
  BY <1>0
<1> HIDE DEF y
<1>3. ASSUME NEW i \in 1..(m - 1)
      PROVE  y[i].tgt = y[i + 1].src
  <2>1. CASE i = n
    BY <1>1, <1>2, <2>1
  <2>2. CASE i # n
    <3>1. i \in 1..n /\ i + 1 \in 1..n /\ i \in 1..(n - 1)
      BY <1>0, <2>2
    <3> QED BY <1>1, <3>1 DEF IsTrail
  <2> QED BY <2>1, <2>2
<1>4. ASSUME NEW i \in 1..m, NEW j \in 1..m, i <= j
      PROVE  y[j].tgt # y[i].src
  <2>1. CASE j = m
    <3>1. i = m \/ i \in 1..n
      BY <1>0
    <3> QED BY <1>1, <2>1, <3>1
  <2>2. CASE j # m
    <3>1. i \in 1..n /\ j \in 1..n
      BY <1>0, <1>4, <2>2
    <3> QED BY <1>1, <1>4, <3>1 DEF IsTrail
  <2> QED BY <2>1, <2>2
<1>5. IsTrail(y, m)
  <2> HIDE DEF m
  <2> QED BY <1>1, <1>2, <1>3, <1>4 DEF IsTrail
<1> QED BY <1>5 DEF y

\* The vertices of a trail are distinct, so there are fewer rows than vertices
LEMMA TrailShort ==
  ASSUME Given, NEW n, NEW x, IsTrail(x, n)
  PROVE  n + 1 <= Cardinality(Node)
<1> DEFINE g == [i \in 1..(n + 1) |-> IF i = n + 1 THEN x[n].tgt ELSE x[i].src]
<1>0. n \in Nat \ {0} /\ x \in [1..n -> Adjacency] /\ n \in 1..n
  BY DEF IsTrail
<1>1. \A i \in 1..(n + 1) : i # n + 1 => i \in 1..n
  BY <1>0
<1>2. \A i \in 1..n : x[i].src \in Node /\ x[i].tgt \in Node
  BY <1>0, RowTyped
<1>3. g \in [1..(n + 1) -> Node]
  BY <1>0, <1>1, <1>2
<1>4. ASSUME NEW i \in 1..(n + 1), NEW j \in 1..(n + 1), i < j
      PROVE  g[i] # g[j]
  <2>1. i \in 1..n /\ i # n + 1 /\ g[i] = x[i].src
    BY <1>0, <1>4
  <2>2. CASE j = n + 1
    <3>1. i <= n /\ g[j] = x[n].tgt
      BY <2>1, <2>2
    <3> QED BY <1>0, <2>1, <3>1 DEF IsTrail
  <2>3. CASE j # n + 1
    <3>1. j \in 1..n /\ j - 1 \in 1..(n - 1) /\ j - 1 \in 1..n /\ i <= j - 1 /\ (j - 1) + 1 = j
      BY <1>0, <1>4, <2>3
    <3>2. x[j - 1].tgt = x[j].src
      BY <3>1 DEF IsTrail
    <3>3. x[j - 1].tgt # x[i].src
      BY <2>1, <3>1 DEF IsTrail
    <3> QED BY <2>1, <2>3, <3>2, <3>3
  <2> QED BY <2>2, <2>3
<1>5. g \in Injection(1..(n + 1), Node)
  <2>1. \A i, j \in 1..(n + 1) : i < j \/ j < i \/ i = j
    BY <1>0
  <2> HIDE DEF g
  <2>2. \A i, j \in 1..(n + 1) : g[i] = g[j] => i = j
    BY <1>4, <2>1
  <2> QED BY <1>3, <2>2 DEF Injection, IsInjective
<1>6. Cardinality(1..(n + 1)) <= Cardinality(Node)
  <2> HIDE DEF g
  <2> QED BY <1>5, FS_Injection, OlapAssumption
<1>7. Cardinality(1..(n + 1)) = n + 1
  <2>1. 1 \in Int /\ n + 1 \in Int /\ ~(1 > n + 1)
    BY <1>0
  <2>2. Cardinality(1..(n + 1)) = (n + 1) - 1 + 1
    BY <2>1, FS_Interval
  <2> QED BY <1>0, <2>2
<1> QED BY <1>6, <1>7

TrailsOf(n) == {x \in [1..n -> Adjacency] : IsTrail(x, n)}
FirstRows == {<<r>> : r \in {a \in Adjacency : a.src # a.tgt}}
MoreRows(n, T) ==
  {Append(x[1], x[2]) : x \in {y \in T \X Adjacency :
     /\ y[1][n - 1].tgt = y[2].src
     /\ \A i \in DOMAIN y[1] : y[2].tgt # y[1][i].src
     /\ y[2].tgt # y[2].src}}

LEMMA TrailsOfOne == TrailsOf(1) = FirstRows
<1>1. ASSUME NEW r \in Adjacency, r.src # r.tgt
      PROVE  <<r>> \in TrailsOf(1)
  <2>1. PICK n \in Nat : n = 1
    OBVIOUS
  <2>2. <<r>> \in [1..n -> Adjacency] /\ <<r>>[1] = r
    BY <2>1
  <2>3. \A i \in 1..n : i = 1
    BY <2>1
  <2>4. 1..(n - 1) = {}
    BY <2>1
  <2> DEFINE x == <<r>>
  <2>5. x \in [1..n -> Adjacency] /\ x[1] = r
    BY <2>2
  <2> HIDE DEF x
  <2>6. \A i, j \in 1..n : i <= j => x[j].tgt # x[i].src
    BY <1>1, <2>3, <2>5
  <2>7. IsTrail(x, n)
    BY <2>1, <2>4, <2>5, <2>6 DEF IsTrail
  <2> QED BY <2>1, <2>5, <2>7 DEF x, TrailsOf
<1>2. ASSUME NEW x \in TrailsOf(1)
      PROVE  x \in FirstRows
  <2>1. x \in [1..1 -> Adjacency] /\ x[1].tgt # x[1].src
    BY DEF TrailsOf, IsTrail
  <2>2. x = <<x[1]>> /\ x[1] \in Adjacency
    BY <2>1
  <2> QED BY <2>1, <2>2 DEF FirstRows
<1> QED BY <1>1, <1>2 DEF FirstRows

LEMMA TrailsOfMore ==
  ASSUME NEW n \in Nat, n # 0
  PROVE  TrailsOf(n + 1) = MoreRows(n + 1, TrailsOf(n))
<1>0. (n + 1) - 1 = n /\ n \in 1..n
  OBVIOUS
<1>1. ASSUME NEW x \in TrailsOf(n), NEW r \in Adjacency, x[n].tgt = r.src,
             \A i \in DOMAIN x : r.tgt # x[i].src, r.tgt # r.src
      PROVE  Append(x, r) \in TrailsOf(n + 1)
  <2>1. IsTrail(x, n) /\ x \in [1..n -> Adjacency] /\ DOMAIN x = 1..n
    BY DEF TrailsOf
  <2>2. IsTrail(Append(x, r), n + 1)
    BY <1>1, <2>1, TrailOn
  <2>3. Append(x, r) \in [1..(n + 1) -> Adjacency]
    BY <2>1, AppendRow
  <2> QED BY <2>2, <2>3 DEF TrailsOf
<1>2. ASSUME NEW z \in MoreRows(n + 1, TrailsOf(n))
      PROVE  z \in TrailsOf(n + 1)
  <2>1. PICK y \in TrailsOf(n) \X Adjacency :
          /\ z = Append(y[1], y[2]) /\ y[1][n].tgt = y[2].src
          /\ \A i \in DOMAIN y[1] : y[2].tgt # y[1][i].src
          /\ y[2].tgt # y[2].src
    BY <1>0 DEF MoreRows
  <2>2. PICK x \in TrailsOf(n), r \in Adjacency : x = y[1] /\ r = y[2]
    OBVIOUS
  <2> QED BY <1>1, <2>1, <2>2
<1>3. ASSUME NEW z \in TrailsOf(n + 1)
      PROVE  z \in MoreRows(n + 1, TrailsOf(n))
  <2> DEFINE x == Prefix(z, n)
             r == z[n + 1]
  <2>1. z \in [1..(n + 1) -> Adjacency] /\ IsTrail(z, n + 1)
    BY DEF TrailsOf
  <2>2. PICK m \in Nat : m = n + 1
    OBVIOUS
  <2>3. n \in 1..m /\ n + 1 \in 1..m /\ n \in 1..(m - 1) /\ n + 1 <= n + 1 /\ n + 1 \in Nat /\ \A i \in 1..n : i \in 1..m /\ i <= n + 1
    BY <2>2
  <2>4. IsTrail(x, n) /\ x[n] = z[n]
    BY <2>1, <2>2, <2>3, TrailPrefix
  <2>5. r \in Adjacency /\ x \in TrailsOf(n) /\ DOMAIN x = 1..n
    BY <2>1, <2>3, <2>4, <2>2 DEF TrailsOf, IsTrail
  <2>6. x[n].tgt = r.src
    BY <2>1, <2>2, <2>3, <2>4 DEF IsTrail
  <2>7. \A i \in 1..n : r.tgt # x[i].src
    <3>1. \A i \in 1..n : x[i] = z[i]
      BY DEF Prefix
    <3> QED BY <2>1, <2>2, <2>3, <3>1 DEF IsTrail
  <2>8. r.tgt # r.src
    BY <2>1, <2>2, <2>3 DEF IsTrail
  <2>9. z = Append(x, r)
    <3>1. /\ Append(x, r) \in [1..(n + 1) -> Adjacency] /\ Append(x, r)[n + 1] = r
          /\ \A i \in 1..n : Append(x, r)[i] = x[i]
      <4>1. x \in [1..n -> Adjacency]
        BY <2>5 DEF TrailsOf
      <4>a. r \in Adjacency
        BY <2>5
      <4> HIDE DEF x, r
      <4>2. Append(x, r) \in [1..(n + 1) -> Adjacency]
        BY <4>1, <4>a, AppendRow
      <4>3. Append(x, r)[n + 1] = r
        BY <4>1, <4>a, AppendRow
      <4>4. \A i \in 1..n : Append(x, r)[i] = x[i]
        BY <4>1, <4>a, AppendRow
      <4> QED BY <4>2, <4>3, <4>4
    <3>2. \A i \in 1..(n + 1) : i = n + 1 \/ i \in 1..n
      OBVIOUS
    <3>3. \A i \in 1..(n + 1) : Append(x, r)[i] = z[i]
      BY <3>1, <3>2 DEF Prefix
    <3> DEFINE y == Append(x, r)
    <3>4. y \in [1..(n + 1) -> Adjacency] /\ \A i \in 1..(n + 1) : y[i] = z[i]
      BY <3>1, <3>3
    <3> HIDE DEF y
    <3>5. y = z
      BY <2>1, <3>4
    <3> QED BY <3>5 DEF y
  <2> DEFINE p == <<x, r>>
  <2>10. p \in TrailsOf(n) \X Adjacency /\ p[1] = x /\ p[2] = r
    BY <2>5
  <2> HIDE DEF x, r, p
  <2>11. /\ p[1][(n + 1) - 1].tgt = p[2].src
         /\ \A i \in DOMAIN p[1] : p[2].tgt # p[1][i].src
         /\ p[2].tgt # p[2].src
         /\ z = Append(p[1], p[2])
    BY <1>0, <2>5, <2>6, <2>7, <2>8, <2>9, <2>10
  <2> QED BY <2>10, <2>11 DEF MoreRows
<1> QED BY <1>2, <1>3

\* Trails are those of every length there can be
LEMMA TrailsAre ==
  ASSUME Given, NEW x
  PROVE  x \in Trails <=> \E n \in Nat : IsTrail(x, n)
<1> DEFINE M == Cardinality(Node) - 1
           Eq(g) == g = [n \in 1..M |-> IF n = 1 THEN FirstRows ELSE MoreRows(n, g[n - 1])]
           f == [n \in 1..M |-> TrailsOf(n)]
           longer == CHOOSE g : Eq(g)
<1>0. M \in Int /\ Cardinality(Node) \in Nat
  BY AtMostAll
<1>1. Trails = UNION {longer[n] : n \in 1..M}
  BY DEF Trails, FirstRows, MoreRows
<1> HIDE DEF M
<1>2. \A n \in 1..M : n # 1 => n - 1 \in 1..M /\ n - 1 \in Nat /\ n - 1 # 0 /\ (n - 1) + 1 = n
  BY <1>0
<1>3. \A n \in 1..M : TrailsOf(n) = IF n = 1 THEN FirstRows ELSE MoreRows(n, TrailsOf(n - 1))
  <2>1. TAKE n \in 1..M
  <2>2. CASE n = 1
    BY <2>2, TrailsOfOne
  <2>3. CASE n # 1
    <3>1. PICK m \in Nat : m = n - 1 /\ m # 0 /\ m + 1 = n
      BY <1>2, <2>3
    <3>2. TrailsOf(m + 1) = MoreRows(m + 1, TrailsOf(m))
      BY <3>1, TrailsOfMore
    <3> QED BY <2>3, <3>1, <3>2
  <2> QED BY <2>2, <2>3
<1>4. Eq(f)
  <2>1. \A n \in 1..M : f[n] = IF n = 1 THEN FirstRows ELSE MoreRows(n, f[n - 1])
    <3>1. TAKE n \in 1..M
    <3>2. n # 1 => f[n - 1] = TrailsOf(n - 1)
      BY <1>2
    <3>3. f[n] = TrailsOf(n)
      OBVIOUS
    <3> HIDE DEF f
    <3> QED BY <1>3, <3>2, <3>3
  <2>2. f = [n \in 1..M |-> f[n]]
    OBVIOUS
  <2> HIDE DEF f
  <2>3. [n \in 1..M |-> f[n]] = [n \in 1..M |-> IF n = 1 THEN FirstRows ELSE MoreRows(n, f[n - 1])]
    BY <2>1
  <2> QED BY <2>2, <2>3
<1>5. Eq(longer)
  BY <1>4
<1> HIDE DEF longer, f
<1>6. \A n \in 1..M : longer[n] = IF n = 1 THEN FirstRows ELSE MoreRows(n, longer[n - 1])
  BY <1>5
<1> DEFINE S == {n \in Nat : n \in 1..M => longer[n] = TrailsOf(n)}
<1>7. 0 \in S
  OBVIOUS
<1>8. ASSUME NEW n \in S
      PROVE  n + 1 \in S
  <2>1. SUFFICES ASSUME n + 1 \in 1..M PROVE longer[n + 1] = TrailsOf(n + 1)
    OBVIOUS
  <2>2. CASE n = 0
    <3>1. n + 1 = 1
      BY <2>2
    <3> QED BY <1>6, <2>1, <3>1, TrailsOfOne
  <2>3. CASE n # 0
    <3>1. n \in Nat /\ n + 1 # 1 /\ n \in 1..M /\ (n + 1) - 1 = n
      BY <1>0, <2>1, <2>3
    <3>2. longer[n + 1] = MoreRows(n + 1, longer[n])
      BY <1>6, <2>1, <3>1
    <3>3. longer[n] = TrailsOf(n)
      BY <3>1
    <3> QED BY <2>3, <3>1, <3>2, <3>3, TrailsOfMore
  <2> QED BY <2>2, <2>3
<1>9. \A n \in 1..M : longer[n] = TrailsOf(n)
  <2>1. \A n \in Nat : n \in S
    <3> HIDE DEF S
    <3>1. S \in SUBSET Nat
      BY DEF S
    <3> QED BY <1>7, <1>8, <3>1, Induct
  <2>2. \A n \in 1..M : n \in Nat
    BY <1>0
  <2> QED BY <2>1, <2>2
<1>10. ASSUME NEW n \in Nat, IsTrail(x, n)
       PROVE  x \in Trails
  <2>1. n # 0 /\ x \in [1..n -> Adjacency]
    BY <1>10 DEF IsTrail
  <2>2. n + 1 <= Cardinality(Node)
    BY <1>10, TrailShort
  <2>3. n \in 1..M
    BY <1>0, <2>1, <2>2 DEF M
  <2>4. x \in longer[n]
    BY <1>9, <1>10, <2>1, <2>3 DEF TrailsOf
  <2> QED BY <1>1, <2>3, <2>4
<1>11. ASSUME x \in Trails
       PROVE  \E n \in Nat : IsTrail(x, n)
  <2>1. PICK n \in 1..M : x \in longer[n]
    BY <1>1, <1>11
  <2>2. x \in TrailsOf(n) /\ n \in Nat
    BY <1>0, <1>9, <2>1
  <2> QED BY <2>2 DEF TrailsOf
<1> QED BY <1>10, <1>11

(***************************************************************************)
(* The relaxation                                                          *)
(***************************************************************************)
Leads(x, n, s, v) == IsTrail(x, n) /\ x[1].src = s /\ x[n].tgt = v
\* What a trail from s to v may cost, the one without rows included
Cost(s, v, d) ==
  \/ s = v /\ d = 0
  \/ \E n \in Nat : \E x \in [1..n -> Adjacency] : Leads(x, n, s, v) /\ d = Weight(x)
NoNegative ==
  /\ \A r \in Adjacency : r.src = r.tgt => r.w >= 0
  /\ \A n \in Nat : \A x \in [1..n -> Adjacency], r \in Adjacency :
       IsTrail(x, n) /\ r.src = x[n].tgt /\ r.tgt = x[1].src => Weight(x) + r.w >= 0

LEMMA TrailWeight ==
  ASSUME Given, NEW n \in Nat, NEW x \in [1..n -> Adjacency]
  PROVE  Weight(x) \in Int
<1>1. PICK f : Sums(f, x, n)
  BY RowTyped, SumsExist
<1>2. Weight(x) = f[n]
  BY <1>1, RowTyped, SumsGive
<1>3. n \in 0..n
  OBVIOUS
<1> QED BY <1>1, <1>2, <1>3 DEF Sums

LEMMA LeadsWithin ==
  ASSUME Given, NEW n, NEW x, NEW s, NEW v, Leads(x, n, s, v)
  PROVE  n \in Nat /\ n # 0 /\ x \in [1..n -> Adjacency] /\ s \in Node /\ v \in Node /\ Weight(x) \in Int
<1>1. n \in Nat /\ n # 0 /\ x \in [1..n -> Adjacency]
  BY DEF Leads, IsTrail
<1>2. 1 \in 1..n /\ n \in 1..n
  BY <1>1
<1>3. s \in Node /\ v \in Node
  BY <1>1, <1>2, RowTyped DEF Leads
<1>4. Weight(x) \in Int
  BY <1>1, TrailWeight
<1> QED BY <1>1, <1>3, <1>4

LEMMA CostInt ==
  ASSUME Given, NEW s \in Node, NEW v \in Node, NEW d, Cost(s, v, d)
  PROVE  d \in Int
BY LeadsWithin DEF Cost

\* Along one more row there is a trail that costs no more, unless a cycle has a negative weight
LEMMA CostOn ==
  ASSUME Given, NoNegative, NEW s \in Node, NEW r \in Adjacency, NEW d, Cost(s, r.src, d)
  PROVE  \E c \in Int : Cost(s, r.tgt, c) /\ c <= d + r.w
<1> DEFINE Goal == \E c \in Int : Cost(s, r.tgt, c) /\ c <= d + r.w
<1>0. r.src \in Node /\ r.tgt \in Node /\ r.w \in Int
  BY RowTyped
<1>1. d \in Int
  BY <1>0, CostInt
<1>2. Cost(s, s, 0)
  BY DEF Cost
<1>3. CASE r.src = r.tgt
  <2>1. r.w >= 0
    BY <1>3 DEF NoNegative
  <2>2. d <= d + r.w
    BY <1>0, <1>1, <2>1
  <2> QED BY <1>1, <1>3, <2>2
<1>4. CASE s = r.src /\ d = 0 /\ r.src # r.tgt
  <2> DEFINE x == <<r>>
  <2>1. x \in TrailsOf(1)
    BY <1>4, TrailsOfOne DEF FirstRows
  <2>2. PICK n \in Nat : n = 1
    OBVIOUS
  <2>3. x \in [1..n -> Adjacency] /\ IsTrail(x, n) /\ x[1] = r /\ x[n] = r
    BY <2>1, <2>2 DEF TrailsOf
  <2> HIDE DEF x
  <2>4. x \in [1..1 -> Adjacency]
    BY <2>2, <2>3
  <2>5. Weight(x) = x[1].w
    BY <2>4, RowTyped, WeightOne
  <2>6. Leads(x, n, s, r.tgt) /\ Weight(x) = r.w
    BY <1>4, <2>3, <2>5 DEF Leads
  <2>7. Cost(s, r.tgt, r.w)
    BY <2>3, <2>6 DEF Cost
  <2>8. r.w <= d + r.w
    BY <1>0, <1>4
  <2> QED BY <1>0, <2>7, <2>8
<1>5. CASE r.src # r.tgt /\ \E n \in Nat : \E x \in [1..n -> Adjacency] : Leads(x, n, s, r.src) /\ d = Weight(x)
  <2>1. PICK n \in Nat : \E x \in [1..n -> Adjacency] : Leads(x, n, s, r.src) /\ d = Weight(x)
    BY <1>5
  <2>2. PICK x \in [1..n -> Adjacency] : Leads(x, n, s, r.src) /\ d = Weight(x)
    BY <2>1
  <2>3. IsTrail(x, n) /\ x[1].src = s /\ x[n].tgt = r.src /\ n # 0 /\ n \in 1..n /\ 1 \in 1..n
    BY <2>2 DEF Leads, IsTrail
  <2>4. CASE r.tgt = s
    <3>1. Weight(x) + r.w >= 0
      BY <2>3, <2>4 DEF NoNegative
    <3>2. 0 <= d + r.w
      BY <1>0, <1>1, <2>2, <3>1
    <3> QED BY <1>2, <2>4, <3>2
  <2>5. CASE r.tgt # s /\ \E i \in 1..n : r.tgt = x[i].src
    <3>1. PICK i \in 1..n : r.tgt = x[i].src
      BY <2>5
    <3>2. i # 1
      BY <2>3, <2>5, <3>1
    <3>3. PICK k \in Nat : k = i - 1
      BY <3>2
    <3>4. k \in 1..n /\ k \in 0..n /\ k \in 0..(n - 1) /\ k \in 1..(n - 1) /\ k + 1 = i
      BY <3>2, <3>3
    <3> DEFINE y == Prefix(x, k)
               z == Suffix(x, k, n)
    <3>5. IsTrail(y, k) /\ y[1] = x[1] /\ y[k] = x[k]
      BY <2>3, <3>4, TrailPrefix
    <3>6. IsTrail(z, n - k) /\ z[1] = x[k + 1] /\ z[n - k] = x[n]
      BY <2>3, <3>4, TrailSuffix
    <3>7. /\ y \in [1..k -> Adjacency] /\ z \in [1..(n - k) -> Adjacency]
          /\ Weight(y) \in Int /\ Weight(z) \in Int /\ Weight(x) = Weight(y) + Weight(z)
      BY <3>4, RowSplit
    <3>8. PICK m \in Nat : m = n - k
      BY <3>4
    <3> HIDE DEF y, z
    <3>9. x[k].tgt = x[i].src
      BY <2>3, <3>4 DEF IsTrail
    <3>10. Weight(z) + r.w >= 0
      <4>1. IsTrail(z, m) /\ z \in [1..m -> Adjacency] /\ r.src = z[m].tgt /\ r.tgt = z[1].src
        BY <2>3, <3>1, <3>4, <3>6, <3>7, <3>8
      <4> QED BY <4>1 DEF NoNegative
    <3>11. Cost(s, r.tgt, Weight(y))
      <4>1. Leads(y, k, s, r.tgt)
        BY <2>3, <3>1, <3>5, <3>9 DEF Leads
      <4> QED BY <3>7, <4>1 DEF Cost
    <3>12. Weight(y) <= d + r.w
      BY <1>0, <2>2, <3>7, <3>10
    <3> QED BY <3>7, <3>11, <3>12
  <2>6. CASE \A i \in 1..n : r.tgt # x[i].src
    <3> DEFINE y == Append(x, r)
               m == n + 1
    <3>1. IsTrail(y, m)
      BY <1>5, <2>3, <2>6, TrailOn
    <3>2. y \in [1..m -> Adjacency]
      BY AppendRow
    <3>3. y[m] = r
      BY AppendRow
    <3>4. \A i \in 1..n : y[i] = x[i]
      BY AppendRow
    <3>5. Prefix(y, n) = x
      BY AppendRow
    <3> HIDE DEF y
    <3>6. Weight(y) \in Int /\ Weight(y) = Weight(x) + r.w
      BY <3>2, <3>3, <3>5, RowTyped, WeightLast
    <3>7. m \in Nat /\ Leads(y, m, s, r.tgt)
      BY <2>3, <3>1, <3>3, <3>4 DEF Leads
    <3>8. Cost(s, r.tgt, Weight(y))
      <4> HIDE DEF m
      <4> QED BY <3>2, <3>7 DEF Cost
    <3>9. Weight(y) <= d + r.w
      BY <1>0, <1>1, <2>2, <3>6
    <3> QED BY <3>6, <3>8, <3>9
  <2> QED BY <2>4, <2>5, <2>6
<1> QED BY <1>3, <1>4, <1>5 DEF Cost

\* A vector of distances
Vector(t) ==
  /\ t = [p \in DOMAIN t |-> t[p]] /\ DOMAIN t \subseteq job.sources \X Node
  /\ \A p \in DOMAIN t : t[p] \in Int
\* Every distance is at least what some trail costs
Sound(t) == \A p \in DOMAIN t : \E c \in Int : Cost(p[1], p[2], c) /\ c <= t[p]
\* A source is at most 0 away from itself
AtHome(t) == \A s \in job.sources : <<s, s>> \in DOMAIN t /\ t[<<s, s>>] <= 0
\* No trail of at most k rows is shorter than the distance to its end
Covers(t, k) ==
  \A n \in Nat : \A x \in [1..n -> Adjacency] :
    n <= k /\ IsTrail(x, n) /\ x[1].src \in job.sources =>
      <<x[1].src, x[n].tgt>> \in DOMAIN t /\ t[<<x[1].src, x[n].tgt>>] <= Weight(x)

LEMMA RoundKeeps ==
  ASSUME Given, NEW t, Vector(t), NEW p \in DOMAIN t
  PROVE  p \in DOMAIN PathRound(t) /\ PathRound(t)[p] \in Int /\ PathRound(t)[p] <= t[p]
<1>1. p \in job.sources \X Node /\ t[p] \in Relaxed(t, p)
  BY DEF Vector, Relaxed
<1>2. p \in DOMAIN PathRound(t) /\ PathRound(t)[p] = Min(Relaxed(t, p))
  BY <1>1 DEF PathRound
<1>3. Min(Relaxed(t, p)) \in Int /\ \A x \in Relaxed(t, p) : Min(Relaxed(t, p)) <= x
  BY <1>1, PathRoundIs DEF Vector
<1> QED BY <1>1, <1>2, <1>3

LEMMA RoundRelaxes ==
  ASSUME Given, NEW t, Vector(t), NEW r \in Adjacency, NEW s \in job.sources, <<s, r.src>> \in DOMAIN t
  PROVE  /\ <<s, r.tgt>> \in DOMAIN PathRound(t) /\ PathRound(t)[<<s, r.tgt>>] \in Int
         /\ PathRound(t)[<<s, r.tgt>>] <= t[<<s, r.src>>] + r.w
<1> DEFINE p == <<s, r.tgt>>
<1>1. p \in job.sources \X Node /\ p[1] = s /\ p[2] = r.tgt
  BY RowTyped
<1>2. t[<<s, r.src>>] + r.w \in Relaxed(t, p)
  BY <1>1 DEF Relaxed
<1> HIDE DEF p
<1>3. p \in DOMAIN PathRound(t) /\ PathRound(t)[p] = Min(Relaxed(t, p))
  BY <1>1, <1>2 DEF PathRound
<1>4. Min(Relaxed(t, p)) \in Int /\ \A x \in Relaxed(t, p) : Min(Relaxed(t, p)) <= x
  BY <1>1, <1>2, PathRoundIs DEF Vector
<1> QED BY <1>2, <1>3, <1>4 DEF p

LEMMA RoundFrom ==
  ASSUME Given, NEW t, Vector(t), NEW p \in DOMAIN PathRound(t)
  PROVE  /\ p \in job.sources \X Node /\ PathRound(t)[p] \in Int
         /\ \/ p \in DOMAIN t /\ PathRound(t)[p] = t[p]
            \/ \E r \in Adjacency : r.tgt = p[2] /\ <<p[1], r.src>> \in DOMAIN t
                                    /\ PathRound(t)[p] = t[<<p[1], r.src>>] + r.w
<1>1. p \in job.sources \X Node /\ Relaxed(t, p) # {} /\ PathRound(t)[p] = Min(Relaxed(t, p))
  BY DEF PathRound
<1>2. Min(Relaxed(t, p)) \in Int /\ Min(Relaxed(t, p)) \in Relaxed(t, p)
  BY <1>1, PathRoundIs DEF Vector
<1>3. \A x \in Relaxed(t, p) :
        \/ p \in DOMAIN t /\ x = t[p]
        \/ \E r \in Adjacency : r.tgt = p[2] /\ <<p[1], r.src>> \in DOMAIN t /\ x = t[<<p[1], r.src>>] + r.w
  BY DEF Relaxed
<1> QED BY <1>1, <1>2, <1>3

LEMMA RoundVector ==
  ASSUME Given, NEW t, Vector(t)
  PROVE  Vector(PathRound(t))
<1>1. DOMAIN PathRound(t) \subseteq job.sources \X Node
  BY DEF PathRound
<1>2. \A p \in DOMAIN PathRound(t) : PathRound(t)[p] \in Int
  BY RoundFrom
<1>3. PathRound(t) = [p \in DOMAIN PathRound(t) |-> PathRound(t)[p]]
  BY DEF PathRound
<1> QED BY <1>1, <1>2, <1>3 DEF Vector

LEMMA RoundSound ==
  ASSUME Given, NoNegative, NEW t, Vector(t), Sound(t)
  PROVE  Sound(PathRound(t))
<1> SUFFICES ASSUME NEW p \in DOMAIN PathRound(t)
             PROVE  \E c \in Int : Cost(p[1], p[2], c) /\ c <= PathRound(t)[p]
  BY DEF Sound
<1>1. CASE p \in DOMAIN t /\ PathRound(t)[p] = t[p]
  BY <1>1 DEF Sound
<1>2. CASE \E r \in Adjacency : r.tgt = p[2] /\ <<p[1], r.src>> \in DOMAIN t
                                /\ PathRound(t)[p] = t[<<p[1], r.src>>] + r.w
  <2>1. PICK r \in Adjacency : /\ r.tgt = p[2] /\ <<p[1], r.src>> \in DOMAIN t
                               /\ PathRound(t)[p] = t[<<p[1], r.src>>] + r.w
    BY <1>2
  <2> DEFINE q == <<p[1], r.src>>
  <2>2. q \in DOMAIN t /\ q[1] = p[1] /\ q[2] = r.src /\ t[q] \in Int
    BY <2>1 DEF Vector
  <2>3. PICK d \in Int : Cost(q[1], q[2], d) /\ d <= t[q]
    BY <2>2 DEF Sound
  <2>a. p \in job.sources \X Node
    BY RoundFrom
  <2>b. job.sources \in SUBSET Node
    BY OlapAssumption DEF Given
  <2>4. PICK s \in Node : s = p[1]
    BY <2>a, <2>b
  <2>5. Cost(s, r.src, d)
    BY <2>2, <2>3, <2>4
  <2>6. PICK c \in Int : Cost(s, r.tgt, c) /\ c <= d + r.w
    BY <2>5, CostOn
  <2>7. c <= t[q] + r.w
    BY <2>2, <2>3, <2>6, RowTyped
  <2> QED BY <2>1, <2>4, <2>6, <2>7
<1> QED BY <1>1, <1>2, RoundFrom

LEMMA RoundAtHome ==
  ASSUME Given, NEW t, Vector(t), AtHome(t)
  PROVE  AtHome(PathRound(t))
<1> SUFFICES ASSUME NEW s \in job.sources
             PROVE  <<s, s>> \in DOMAIN PathRound(t) /\ PathRound(t)[<<s, s>>] <= 0
  BY DEF AtHome
<1> DEFINE p == <<s, s>>
<1>1. p \in DOMAIN t /\ t[p] <= 0
  BY DEF AtHome
<1>2. t[p] \in Int
  BY <1>1 DEF Vector
<1> HIDE DEF p
<1>3. p \in DOMAIN PathRound(t) /\ PathRound(t)[p] \in Int /\ PathRound(t)[p] <= t[p]
  BY <1>1, RoundKeeps
<1> QED BY <1>1, <1>2, <1>3 DEF p

LEMMA RoundCovers ==
  ASSUME Given, NEW t, Vector(t), AtHome(t), NEW k \in Nat, Covers(t, k)
  PROVE  Covers(PathRound(t), k + 1)
<1> SUFFICES ASSUME NEW n \in Nat, NEW x \in [1..n -> Adjacency],
                    n <= k + 1, IsTrail(x, n), x[1].src \in job.sources
             PROVE  /\ <<x[1].src, x[n].tgt>> \in DOMAIN PathRound(t)
                    /\ PathRound(t)[<<x[1].src, x[n].tgt>>] <= Weight(x)
  BY DEF Covers
<1> DEFINE s == x[1].src
           r == x[n]
           u == PathRound(t)
<1>0. n # 0 /\ n \in 1..n /\ 1 \in 1..n /\ r \in Adjacency
  BY DEF IsTrail
<1>a. r.w \in Int /\ Weight(x) \in Int
  BY <1>0, RowTyped, TrailWeight
<1>1. CASE n = 1
  <2>1. Weight(x) = r.w /\ r.src = s
    BY <1>1, RowTyped, WeightOne
  <2>2. <<s, s>> \in DOMAIN t /\ t[<<s, s>>] <= 0
    BY DEF AtHome
  <2>3. t[<<s, s>>] \in Int
    BY <2>2 DEF Vector
  <2> HIDE DEF s, r, u
  <2>4. s \in job.sources
    BY DEF s
  <2>5. <<s, r.src>> \in DOMAIN t
    BY <2>1, <2>2
  <2>6. /\ <<s, r.tgt>> \in DOMAIN u /\ u[<<s, r.tgt>>] \in Int
        /\ u[<<s, r.tgt>>] <= t[<<s, r.src>>] + r.w
    BY <1>0, <2>4, <2>5, RoundRelaxes DEF u
  <2>7. u[<<s, r.tgt>>] <= Weight(x)
    BY <1>a, <2>1, <2>2, <2>3, <2>6
  <2> QED BY <2>6, <2>7 DEF s, r, u
<1>2. CASE n # 1
  <2>1. PICK m \in Nat : m = n - 1
    BY <1>0
  <2>2. m \in 1..n /\ m + 1 = n /\ m <= k /\ m \in 1..(n - 1) /\ m \in 0..n
    BY <1>0, <1>2, <2>1
  <2> DEFINE y == Prefix(x, m)
  <2>3. IsTrail(y, m) /\ y[1] = x[1] /\ y[m] = x[m]
    BY <2>2, TrailPrefix
  <2>4. y \in [1..m -> Adjacency]
    BY <2>3 DEF IsTrail
  <2>5. Weight(y) \in Int /\ Weight(x) = Weight(y) + r.w
    <3>1. x \in [1..(m + 1) -> Adjacency]
      BY <2>2
    <3>2. Weight(Prefix(x, m)) \in Int /\ Weight(x) = Weight(Prefix(x, m)) + x[m + 1].w
      BY <3>1, RowTyped, WeightLast
    <3> QED BY <2>2, <3>2
  <2> HIDE DEF y
  <2>6. <<y[1].src, y[m].tgt>> \in DOMAIN t /\ t[<<y[1].src, y[m].tgt>>] <= Weight(y)
    BY <2>2, <2>3, <2>4 DEF Covers
  <2>7. y[1].src = s /\ y[m].tgt = r.src
    BY <2>2, <2>3 DEF IsTrail
  <2>8. t[<<y[1].src, y[m].tgt>>] \in Int
    BY <2>6 DEF Vector
  <2> HIDE DEF s, r, u
  <2>9. s \in job.sources
    BY DEF s
  <2>10. <<s, r.src>> \in DOMAIN t /\ t[<<s, r.src>>] \in Int /\ t[<<s, r.src>>] <= Weight(y)
    BY <2>6, <2>7, <2>8
  <2>11. /\ <<s, r.tgt>> \in DOMAIN u /\ u[<<s, r.tgt>>] \in Int
         /\ u[<<s, r.tgt>>] <= t[<<s, r.src>>] + r.w
    BY <1>0, <2>9, <2>10, RoundRelaxes DEF u
  <2>12. u[<<s, r.tgt>>] <= Weight(x)
    BY <1>a, <2>5, <2>10, <2>11
  <2> QED BY <2>11, <2>12 DEF s, r, u
<1> QED BY <1>1, <1>2

\* No trail is longer than the vertices allow
LEMMA CoversAll ==
  ASSUME Given, NEW t, NEW k \in Nat, Cardinality(Node) <= k + 1, Covers(t, k), NEW l
  PROVE  Covers(t, l)
<1>1. ASSUME NEW n \in Nat, NEW x, IsTrail(x, n)
      PROVE  n <= k
  <2>1. n + 1 <= Cardinality(Node) /\ Cardinality(Node) \in Nat
    BY <1>1, TrailShort, AtMostAll
  <2> QED BY <2>1
<1> QED BY <1>1 DEF Covers

\* Where a round changes nothing every trail is covered
LEMMA FixedCovers ==
  ASSUME Given, NEW t, Vector(t), AtHome(t),
         \A p \in DOMAIN PathRound(t) : p \in DOMAIN t /\ t[p] = PathRound(t)[p], NEW l \in Nat
  PROVE  Covers(t, l)
<1> DEFINE S == {k \in Nat : Covers(t, k)}
<1>1. 0 \in S
  <2>1. \A n \in Nat : n <= 0 => \A x : ~IsTrail(x, n)
    BY DEF IsTrail
  <2> QED BY <2>1 DEF Covers
<1>2. ASSUME NEW k \in S
      PROVE  k + 1 \in S
  <2>1. Covers(PathRound(t), k + 1)
    BY RoundCovers
  <2>2. Covers(t, k + 1)
    BY <2>1 DEF Covers
  <2> QED BY <2>2
<1>3. l \in S
  <2> HIDE DEF S
  <2>1. S \in SUBSET Nat
    BY DEF S
  <2> QED BY <1>1, <1>2, <2>1, Induct
<1> QED BY <1>3

\* A vector that covers everything is below every cost
LEMMA CostAbove ==
  ASSUME Given, NEW t, Vector(t), AtHome(t), \A k \in Nat : Covers(t, k),
         NEW s \in job.sources, NEW v \in Node, NEW c, Cost(s, v, c)
  PROVE  <<s, v>> \in DOMAIN t /\ t[<<s, v>>] \in Int /\ t[<<s, v>>] <= c
<1>1. CASE s = v /\ c = 0
  BY <1>1 DEF AtHome, Vector
<1>2. CASE \E n \in Nat : \E x \in [1..n -> Adjacency] : Leads(x, n, s, v) /\ c = Weight(x)
  <2>1. PICK n \in Nat : \E x \in [1..n -> Adjacency] : Leads(x, n, s, v) /\ c = Weight(x)
    BY <1>2
  <2>2. PICK x \in [1..n -> Adjacency] : Leads(x, n, s, v) /\ c = Weight(x)
    BY <2>1
  <2>3. Covers(t, n) /\ n <= n
    OBVIOUS
  <2>4. <<s, v>> \in DOMAIN t /\ t[<<s, v>>] <= c
    BY <2>2, <2>3 DEF Covers, Leads
  <2> QED BY <2>4 DEF Vector
<1> QED BY <1>1, <1>2 DEF Cost

\* Such a vector a round leaves as it is
LEMMA CoveredStays ==
  ASSUME Given, NoNegative, NEW t, Vector(t), Sound(t), AtHome(t), \A k \in Nat : Covers(t, k)
  PROVE  \A p \in DOMAIN PathRound(t) : p \in DOMAIN t /\ t[p] = PathRound(t)[p]
<1> TAKE p \in DOMAIN PathRound(t)
<1>1. p \in job.sources \X Node /\ PathRound(t)[p] \in Int
  BY RoundFrom
<1>2. PICK c \in Int : Cost(p[1], p[2], c) /\ c <= PathRound(t)[p]
  BY RoundSound DEF Sound
<1>3. PICK s \in job.sources, v \in Node : s = p[1] /\ v = p[2] /\ p = <<s, v>>
  BY <1>1
<1>4. <<s, v>> \in DOMAIN t /\ t[<<s, v>>] \in Int /\ t[<<s, v>>] <= c
  BY <1>2, <1>3, CostAbove
<1>5. p \in DOMAIN t /\ t[p] \in Int /\ t[p] <= c
  BY <1>3, <1>4
<1>6. PathRound(t)[p] <= t[p]
  BY <1>5, RoundKeeps
<1> QED BY <1>1, <1>2, <1>5, <1>6

Good(t) == Vector(t) /\ Sound(t) /\ AtHome(t)
Covered(t) == \A k \in Nat : Covers(t, k)

\* Where no cycle has a negative weight: after k rounds every trail of k rows is covered
DistInv ==
  /\ phase = "seed" => round = 0
  /\ Distances /\ NoNegative /\ phase # "seed" =>
       /\ Good(slot[cur]) /\ round \in Nat
       /\ phase # "exhausted"
       /\ phase = "rounds" => round + 1 <= Cardinality(Node) /\ Covers(slot[cur], round)
       /\ phase \in {"fixed", "walk", "done"} => Covered(slot[cur])

LEMMA SeedGood ==
  ASSUME Given
  PROVE  Good(PathSeed) /\ Covers(PathSeed, 0)
<1> DEFINE D == {<<s, s>> : s \in job.sources}
<1>1. job.sources \in SUBSET Node
  BY OlapAssumption DEF Given
<1>2. D \subseteq job.sources \X Node
  BY <1>1
<1>3. PathSeed = [p \in D |-> 0]
  BY DEF PathSeed
<1>4. Vector(PathSeed)
  <2> HIDE DEF D
  <2> QED BY <1>2, <1>3 DEF Vector
<1>5. Sound(PathSeed)
  <2>1. \A p \in D : p[1] = p[2]
    OBVIOUS
  <2>2. \A p \in D : Cost(p[1], p[2], 0)
    BY <2>1 DEF Cost
  <2> HIDE DEF D
  <2> QED BY <1>3, <2>2 DEF Sound
<1>6. AtHome(PathSeed)
  BY <1>3 DEF AtHome
<1>7. Covers(PathSeed, 0)
  <2>1. \A n \in Nat : n <= 0 => \A x : ~IsTrail(x, n)
    BY DEF IsTrail
  <2> QED BY <2>1 DEF Covers
<1> QED BY <1>4, <1>5, <1>6, <1>7 DEF Good

LEMMA SameGraph ==
  ASSUME graph' = graph, job' = job
  PROVE  /\ NoNegative' = NoNegative
         /\ \A t : Good(t)' = Good(t)
         /\ \A t, k : Covers(t, k)' = Covers(t, k)
         /\ \A t : Covered(t)' = Covered(t)
<1>1. Adjacency' = Adjacency
  BY DEF Adjacency, Row
<1>2. \A x, n : IsTrail(x, n)' = IsTrail(x, n)
  BY <1>1 DEF IsTrail
<1>3. NoNegative' = NoNegative
  BY <1>1, <1>2 DEF NoNegative
<1>4. \A s, v, d : Cost(s, v, d)' = Cost(s, v, d)
  BY <1>1, <1>2 DEF Cost, Leads
<1>5. \A t : Good(t)' = Good(t)
  BY <1>4 DEF Good, Vector, Sound, AtHome
<1>6. \A t, k : Covers(t, k)' = Covers(t, k)
  BY <1>1, <1>2 DEF Covers
<1>7. \A t : Covered(t)' = Covered(t)
  BY <1>6 DEF Covered
<1> QED BY <1>3, <1>5, <1>6, <1>7

\* A round changes nothing exactly where there is nothing left to cover
LEMMA RoundFixed ==
  ASSUME Given, NEW t, Vector(t), AtHome(t), ChangedOrNew(t, PathRound(t)) = {}
  PROVE  Covered(PathRound(t))
<1> DEFINE u == PathRound(t)
<1>1. \A p \in DOMAIN u : p \in DOMAIN t /\ t[p] = u[p]
  BY DEF ChangedOrNew
<1>2. Covered(t)
  BY <1>1, FixedCovers DEF Covered
<1>3. \A p \in DOMAIN t : p \in DOMAIN u
  BY RoundKeeps
<1> HIDE DEF u
<1>4. Covered(u)
  BY <1>1, <1>2, <1>3 DEF Covered, Covers
<1> QED BY <1>4 DEF u

LEMMA DistStep == Given /\ DistInv /\ [Next]_vars => DistInv'
<1> SUFFICES ASSUME Given, DistInv, [Next]_vars PROVE DistInv'
  OBVIOUS
<1>0. graph' = graph /\ job' = job
  BY DEF Next, vars, Seed, Round, Reduce, WalkSources, WalkEdges
<1>a. /\ NoNegative' = NoNegative
      /\ \A t : Good(t)' = Good(t)
      /\ \A t, k : Covers(t, k)' = Covers(t, k)
      /\ \A t : Covered(t)' = Covered(t)
  BY <1>0, SameGraph
<1>b. Distances' = Distances /\ (Distances => job.algo \notin {"wcc", "kcore", "peer", "scc"})
  BY <1>0 DEF Distances
<1> DEFINE N == Cardinality(Node)
<1>c. N \in Nat /\ N # 0 /\ (Distances => MaxRounds = N)
  <2>1. N \in Nat /\ N # 0
    BY AtMostAll, FS_EmptySet, OlapAssumption
  <2>2. Distances => MaxRounds = N
    BY <1>b DEF MaxRounds
  <2> QED BY <2>1, <2>2
<1> HIDE DEF N
<1>1. CASE Seed
  <2>1. round = 0 /\ round' = 0 /\ phase' # "seed"
    BY <1>1 DEF Seed, DistInv
  <2>2. ASSUME Distances, NoNegative
        PROVE  /\ phase' = "rounds" /\ Good(slot'[cur']) /\ Covers(slot'[cur'], round')
               /\ round' + 1 <= N
    <3>1. phase' = "rounds"
      BY <1>1, <1>b, <1>c, <2>2 DEF Seed, Distances
    <3>2. slot'[cur'] = PathSeed
      BY <1>1, <1>b, <2>2 DEF Seed, SeedOf, Given, Distances
    <3>3. round' + 1 <= N
      BY <1>c, <2>1
    <3> QED BY <2>1, <3>1, <3>2, <3>3, SeedGood
  <2> QED BY <1>a, <1>b, <2>1, <2>2 DEF DistInv, N
<1>2. CASE Round
  <2>0. phase = "rounds" /\ round' = round + 1 /\ phase' \in {"rounds", "fixed", "exhausted"}
    BY <1>2 DEF Round
  <2>1. SUFFICES ASSUME Distances, NoNegative
                 PROVE  /\ Good(slot'[cur']) /\ round' \in Nat
                        /\ phase' # "exhausted"
                        /\ phase' = "rounds" => round' + 1 <= N /\ Covers(slot'[cur'], round')
                        /\ phase' = "fixed" => Covered(slot'[cur'])
    BY <1>a, <1>b, <2>0 DEF DistInv, N
  <2> DEFINE t == slot[cur]
             u == PathRound(t)
  <2>2. /\ Vector(t) /\ Sound(t) /\ AtHome(t)
        /\ round \in Nat /\ round + 1 <= N /\ Covers(t, round)
    BY <2>0, <2>1 DEF DistInv, Good, N
  <2>3. slot'[cur'] = u /\ slot'[1 - cur] = u
    BY <1>2, <1>b, <2>1 DEF Round, RoundOf, Given, Distances
  <2>4. Good(u)
    BY <2>1, <2>2, RoundVector, RoundSound, RoundAtHome DEF Good
  <2>5. phase' = IF ChangedOrNew(t, u) = {} THEN "fixed" ELSE IF round + 1 = N THEN "exhausted" ELSE "rounds"
    BY <1>2, <1>c, <2>1, <2>3 DEF Round, Changed
  <2>6. phase' = "fixed" => Covered(u)
    BY <2>2, <2>5, RoundFixed
  <2>7. Covers(u, round')
    BY <2>0, <2>2, RoundCovers
  <2>8. round + 1 = N => phase' = "fixed"
    <3>1. SUFFICES ASSUME round + 1 = N PROVE ChangedOrNew(t, u) = {}
      BY <2>5
    <3>2. \A k \in Nat : Covers(t, k)
      BY <2>2, <3>1, <1>c, CoversAll DEF N
    <3>3. \A p \in DOMAIN u : p \in DOMAIN t /\ t[p] = u[p]
      BY <2>1, <2>2, <3>2, CoveredStays
    <3> HIDE DEF u, t
    <3> QED BY <3>3 DEF ChangedOrNew
  <2>9. phase' = "rounds" => round' + 1 <= N
    <3>1. phase' = "rounds" => round + 1 # N
      BY <2>8
    <3> QED BY <1>c, <2>0, <2>2, <3>1
  <2>10. phase' # "exhausted" /\ round' \in Nat
    BY <2>0, <2>2, <2>5, <2>8
  <2> QED BY <2>3, <2>4, <2>6, <2>7, <2>9, <2>10
<1>3. CASE Reduce
  <2>1. slot'[cur'] = slot[cur] /\ phase' = "done" /\ round' = round /\ phase \in {"fixed", "exhausted"}
    BY <1>3 DEF Reduce, Ended, Given
  <2> QED BY <1>a, <1>b, <2>1 DEF DistInv
<1>4. CASE WalkSources
  <2>1. slot'[cur'] = slot[cur] /\ phase' = "walk" /\ round' = round /\ phase \in {"fixed", "exhausted"}
    BY <1>4 DEF WalkSources, Ended
  <2> QED BY <1>a, <1>b, <2>1 DEF DistInv
<1>5. CASE WalkEdges
  <2>1. slot'[cur'] = slot[cur] /\ phase' \in {"walk", "done"} /\ round' = round /\ phase = "walk"
    BY <1>5 DEF WalkEdges
  <2> QED BY <1>a, <1>b, <2>1 DEF DistInv
<1>6. CASE UNCHANGED vars
  <2>1. slot'[cur'] = slot[cur] /\ phase' = phase /\ round' = round
    BY <1>6 DEF vars
  <2> QED BY <1>a, <1>b, <2>1 DEF DistInv
<1> QED BY <1>1, <1>2, <1>3, <1>4, <1>5, <1>6 DEF Next

THEOREM DistInvariant == Spec => []DistInv
<1>1. Init => DistInv
  BY DEF Init, DistInv
<1> QED BY <1>1, GivenInvariant, DistStep, PTL DEF Spec

(***************************************************************************)
(* What the distances mean                                                 *)
(***************************************************************************)
LEMMA TrailEnds ==
  ASSUME NEW n, NEW x, IsTrail(x, n)
  PROVE  Len(x) = n /\ From(x) = x[1].src /\ To(x) = x[n].tgt
<1>1. n \in Nat /\ x \in [1..n -> Adjacency]
  BY DEF IsTrail
<1>2. Len(x) = n
  BY <1>1, SeqOf
<1> QED BY <1>2 DEF From, To

LEMMA NoCycle ==
  ASSUME Given, ~NegativeCycle
  PROVE  NoNegative
<1>1. ASSUME NEW r \in Adjacency, r.src = r.tgt
      PROVE  r.w >= 0
  BY <1>1, RowTyped DEF NegativeCycle
<1>2. ASSUME NEW n \in Nat, NEW x \in [1..n -> Adjacency], NEW r \in Adjacency,
             IsTrail(x, n), r.src = x[n].tgt, r.tgt = x[1].src
      PROVE  Weight(x) + r.w >= 0
  <2>1. x \in Trails
    BY <1>2, TrailsAre
  <2>2. r.src = To(x) /\ r.tgt = From(x)
    BY <1>2, TrailEnds
  <2>3. Weight(x) \in Int /\ r.w \in Int
    BY TrailWeight, RowTyped
  <2>4. ~(Weight(x) + r.w < 0)
    BY <2>1, <2>2 DEF NegativeCycle
  <2> QED BY <2>3, <2>4
<1> QED BY <1>1, <1>2 DEF NoNegative

LEMMA BetweenIs ==
  ASSUME Given, NEW s, NEW v, NEW x
  PROVE  x \in Between(s, v) <=> \E n \in Nat : Leads(x, n, s, v)
<1>1. ASSUME x \in Between(s, v)
      PROVE  \E n \in Nat : Leads(x, n, s, v)
  <2>1. x \in Trails /\ From(x) = s /\ To(x) = v
    BY <1>1 DEF Between
  <2>2. PICK n \in Nat : IsTrail(x, n)
    BY <2>1, TrailsAre
  <2> QED BY <2>1, <2>2, TrailEnds DEF Leads
<1>2. ASSUME NEW n \in Nat, Leads(x, n, s, v)
      PROVE  x \in Between(s, v)
  <2>1. IsTrail(x, n) /\ x[1].src = s /\ x[n].tgt = v
    BY <1>2 DEF Leads
  <2>2. x \in Trails /\ From(x) = s /\ To(x) = v
    BY <2>1, TrailsAre, TrailEnds
  <2> QED BY <2>2 DEF Between
<1> QED BY <1>1, <1>2

Costs(s, v) == {Weight(x) : x \in Between(s, v)} \cup (IF s = v THEN {0} ELSE {})

LEMMA CostsAre ==
  ASSUME Given, NEW s, NEW v, NEW d
  PROVE  d \in Costs(s, v) <=> Cost(s, v, d)
<1>1. ASSUME NEW x \in Between(s, v)
      PROVE  Cost(s, v, Weight(x))
  <2>1. PICK n \in Nat : Leads(x, n, s, v)
    BY BetweenIs
  <2>2. x \in [1..n -> Adjacency]
    BY <2>1, LeadsWithin
  <2> QED BY <2>1, <2>2 DEF Cost
<1>2. ASSUME NEW n \in Nat, NEW x \in [1..n -> Adjacency], Leads(x, n, s, v)
      PROVE  Weight(x) \in Costs(s, v)
  <2>1. x \in Between(s, v)
    BY <1>2, BetweenIs
  <2> QED BY <2>1 DEF Costs
<1>3. s = v => Cost(s, v, 0) /\ 0 \in Costs(s, v)
  BY DEF Cost, Costs
<1> QED BY <1>1, <1>2, <1>3 DEF Cost, Costs

\* A distance that is the least of the costs is what Distance says
LEMMA DistanceIs ==
  ASSUME Given, NEW s \in Node, NEW v \in Node, NEW d, Cost(s, v, d), \A c : Cost(s, v, c) => d <= c
  PROVE  Distance(s, v) = d
<1> DEFINE S == Costs(s, v)
           m == Min(S)
<1>1. d \in S /\ \A y \in S : d <= y
  BY CostsAre
<1>2. m \in S /\ \A y \in S : m <= y
  BY <1>1 DEF Min
<1>3. m \in Int /\ d \in Int
  BY <1>1, <1>2, CostsAre, CostInt
<1>4. Distance(s, v) = m
  BY DEF Distance, Costs
<1>5. m <= d /\ d <= m
  BY <1>1, <1>2
<1> HIDE DEF m
<1> QED BY <1>3, <1>4, <1>5

LEMMA GoodIs ==
  ASSUME Given, NEW t, Good(t), Covered(t), NEW p \in DOMAIN t
  PROVE  /\ p \in job.sources \X Node /\ t[p] \in Int
         /\ Cost(p[1], p[2], t[p]) /\ t[p] = Distance(p[1], p[2])
<1>1. p \in job.sources \X Node /\ t[p] \in Int
  BY DEF Good, Vector
<1>2. PICK s \in job.sources, v \in Node : p = <<s, v>> /\ p[1] = s /\ p[2] = v
  BY <1>1
<1>3. PICK c \in Int : Cost(p[1], p[2], c) /\ c <= t[p]
  BY DEF Good, Sound
<1>4. Vector(t) /\ AtHome(t) /\ \A k \in Nat : Covers(t, k)
  BY DEF Good, Covered
<1>5. \A d : Cost(s, v, d) => t[<<s, v>>] <= d
  BY <1>4, CostAbove
<1>6. c = t[p]
  <2>1. t[p] <= c
    BY <1>2, <1>3, <1>5
  <2> QED BY <1>1, <1>3, <2>1
<1>7. s \in Node
  BY OlapAssumption DEF Given
<1>8. Distance(s, v) = t[p]
  BY <1>2, <1>3, <1>5, <1>6, <1>7, DistanceIs
<1> QED BY <1>1, <1>2, <1>3, <1>6, <1>8

LEMMA Covering ==
  ASSUME Given, DistInv, Distances, ~NegativeCycle, phase # "seed"
  PROVE  /\ phase # "exhausted" /\ Good(slot[cur])
         /\ phase \in {"fixed", "walk", "done"} => Covered(slot[cur])
BY NoCycle DEF DistInv

LEMMA DistancesAre ==
  ASSUME Given, NEW t, Good(t), Covered(t)
  PROVE  t = [p \in {q \in job.sources \X Node : q[1] = q[2] \/ Between(q[1], q[2]) # {}} |-> Distance(p[1], p[2])]
<1> DEFINE D == {q \in job.sources \X Node : q[1] = q[2] \/ Between(q[1], q[2]) # {}}
<1>1. ASSUME NEW p \in DOMAIN t
      PROVE  p \in D
  <2>1. p \in job.sources \X Node /\ t[p] \in Costs(p[1], p[2])
    BY GoodIs, CostsAre
  <2> QED BY <2>1 DEF Costs
<1>2. ASSUME NEW p \in D
      PROVE  p \in DOMAIN t
  <2>1. PICK s \in job.sources, v \in Node : p = <<s, v>> /\ p[1] = s /\ p[2] = v
    OBVIOUS
  <2>2. \E c : c \in Costs(s, v)
    BY <2>1 DEF Costs
  <2>3. PICK c : Cost(s, v, c)
    BY <2>2, CostsAre
  <2>4. Vector(t) /\ AtHome(t) /\ \A k \in Nat : Covers(t, k)
    BY DEF Good, Covered
  <2>5. <<s, v>> \in DOMAIN t
    BY <2>3, <2>4, CostAbove
  <2> QED BY <2>1, <2>5
<1>3. DOMAIN t = D
  BY <1>1, <1>2
<1>4. \A p \in D : t[p] = Distance(p[1], p[2])
  BY <1>3, GoodIs
<1>5. t = [p \in D |-> t[p]]
  BY <1>3 DEF Good, Vector
<1> HIDE DEF D
<1>6. [p \in D |-> t[p]] = [p \in D |-> Distance(p[1], p[2])]
  BY <1>4
<1>7. t = [p \in D |-> Distance(p[1], p[2])]
  BY <1>5, <1>6
<1> QED BY <1>7 DEF D

\* In every graph without a cycle of negative weight the relaxation ends with the length of a shortest
\* path from each source to each vertex it reaches, and with no row for any other (relaxShortestPath).
THEOREM ShortestDistances == Spec => []DistancesRight
<1>1. Given /\ DistInv => DistancesRight
  <2> SUFFICES ASSUME Given, DistInv, Distances, Ended, ~NegativeCycle
               PROVE  slot[cur] = [p \in {q \in job.sources \X Node : q[1] = q[2] \/ Between(q[1], q[2]) # {}}
                                     |-> Distance(p[1], p[2])]
    BY DEF DistancesRight
  <2>1. phase \in {"fixed", "exhausted"}
    BY DEF Ended
  <2>2. Good(slot[cur]) /\ Covered(slot[cur])
    BY <2>1, Covering
  <2> QED BY <2>2, DistancesAre
<1> QED BY <1>1, GivenInvariant, DistInvariant, PTL

\* In every graph the rounds run out for peerPressure and where a cycle has a negative weight, and
\* nowhere else (wcc.ts, kcore.ts, relaxShortestPath): with as many rounds as vertices a distance has
\* settled, the last of them changing nothing.
THEOREM BackstopNeverCuts == Spec => []BackstopUnused
<1>1. Given /\ DistInv /\ (~Distances => BackstopUnused) => BackstopUnused
  BY Covering DEF BackstopUnused
<1> QED BY <1>1, GivenInvariant, DistInvariant, BackstopSpare, PTL

(***************************************************************************)
(* closeness                                                               *)
(***************************************************************************)
\* Where every row weighs 1 a trail weighs what it is long
LEMMA UnitWeight ==
  ASSUME Given, \A r \in Adjacency : r.w = 1, NEW n \in Nat, NEW x \in [1..n -> Adjacency]
  PROVE  Weight(x) = n
<1> DEFINE f == [i \in 0..n |-> i]
<1>1. f \in [0..n -> Int] /\ f[0] = 0
  OBVIOUS
<1>2. \A i \in 1..n : f[i] = f[i - 1] + x[i].w
  <2>1. TAKE i \in 1..n
  <2>2. i \in 0..n /\ i - 1 \in 0..n /\ x[i].w = 1
    OBVIOUS
  <2>3. f[i] = i /\ f[i - 1] = i - 1
    BY <2>2
  <2> HIDE DEF f
  <2> QED BY <2>2, <2>3
<1>3. n \in 0..n /\ f[n] = n
  OBVIOUS
<1> HIDE DEF f
<1>4. Sums(f, x, n)
  BY <1>1, <1>2 DEF Sums
<1>5. Weight(x) = f[n]
  BY <1>4, RowTyped, SumsGive
<1> QED BY <1>3, <1>5

LEMMA ClosenessRows ==
  ASSUME Given, job.algo = "closeness"
  PROVE  job.sources = Node /\ (\A r \in Adjacency : r.w = 1) /\ NoNegative
<1>1. job.sources = Node /\ ~job.weighted
  BY OlapAssumption DEF Given
<1>2. \A r \in Adjacency : r.w = 1
  BY <1>1 DEF Adjacency, Row
<1>3. ASSUME NEW n \in Nat, NEW x \in [1..n -> Adjacency], NEW r \in Adjacency
      PROVE  Weight(x) + r.w >= 0
  <2>1. Weight(x) = n /\ r.w = 1
    BY <1>2, UnitWeight
  <2> QED BY <2>1
<1>4. NoNegative
  BY <1>2, <1>3 DEF NoNegative
<1> QED BY <1>1, <1>2, <1>4

\* What Reduce counts and adds up
Near(t, v) == {p \in DOMAIN t : p[1] = v /\ t[p] > 0}
SumOver(t, S) == MapThenSumSet(LAMBDA p : t[p], S)
DistanceSum(S) == MapThenSumSet(LAMBDA p : Distance(p[1], p[2]), S)

LEMMA SameSum ==
  ASSUME NEW t, NEW S, \A p \in S : t[p] = Distance(p[1], p[2])
  PROVE  SumOver(t, S) = DistanceSum(S)
<1> DEFINE c(s) == CHOOSE p \in s : TRUE
           A(g) == g = [s \in SUBSET S |-> IF s = {} THEN 0 ELSE t[c(s)] + g[s \ {c(s)}]]
           B(g) == g = [s \in SUBSET S |-> IF s = {} THEN 0 ELSE Distance(c(s)[1], c(s)[2]) + g[s \ {c(s)}]]
<1>1. SumOver(t, S) = (CHOOSE g : A(g))[S]
  BY DEF SumOver, MapThenSumSet, MapThenFoldSet
<1>2. DistanceSum(S) = (CHOOSE g : B(g))[S]
  BY DEF DistanceSum, MapThenSumSet, MapThenFoldSet
<1>3. \A s \in SUBSET S : s # {} => c(s) \in S
  <2>1. \A s : s # {} => c(s) \in s
    OBVIOUS
  <2> HIDE DEF c
  <2> QED BY <2>1
<1>4. ASSUME NEW g
      PROVE  A(g) <=> B(g)
  <2> HIDE DEF c
  <2>1. \A s \in SUBSET S : s # {} => t[c(s)] = Distance(c(s)[1], c(s)[2])
    BY <1>3
  <2>2. [s \in SUBSET S |-> IF s = {} THEN 0 ELSE t[c(s)] + g[s \ {c(s)}]]
        = [s \in SUBSET S |-> IF s = {} THEN 0 ELSE Distance(c(s)[1], c(s)[2]) + g[s \ {c(s)}]]
    BY <2>1
  <2> QED BY <2>2
<1>5. (CHOOSE g : A(g)) = (CHOOSE g : B(g))
  <2> HIDE DEF A, B
  <2> QED BY <1>4, Zenon
<1> QED BY <1>1, <1>2, <1>5

\* The positive distances of a scope are those to the others it reaches
LEMMA NearIs ==
  ASSUME Given, job.algo = "closeness", NEW t, Good(t), Covered(t), NEW v \in Node
  PROVE  Near(t, v) = {v} \X {u \in Node \ {v} : Between(v, u) # {}}
<1> DEFINE others == {u \in Node \ {v} : Between(v, u) # {}}
<1>0. job.sources = Node /\ \A r \in Adjacency : r.w = 1
  BY ClosenessRows
<1>1. ASSUME NEW p \in Near(t, v)
      PROVE  p \in {v} \X others
  <2>1. p \in DOMAIN t /\ p[1] = v /\ t[p] > 0
    BY DEF Near
  <2>2. /\ p \in job.sources \X Node /\ t[p] \in Int
        /\ Cost(p[1], p[2], t[p])
    BY <2>1, GoodIs
  <2>3. PICK u \in Node : p[2] = u /\ p = <<v, u>>
    BY <2>1, <2>2
  <2>4. u # v
    <3>1. SUFFICES ASSUME u = v PROVE FALSE
      OBVIOUS
    <3>2. t[<<v, v>>] <= 0
      BY <1>0 DEF Good, AtHome
    <3> QED BY <2>1, <2>2, <2>3, <3>1, <3>2
  <2>5. t[p] \in Costs(v, u)
    BY <2>1, <2>2, <2>3, CostsAre
  <2>6. Between(v, u) # {}
    BY <2>4, <2>5 DEF Costs
  <2> QED BY <2>3, <2>4, <2>6
<1>2. ASSUME NEW u \in others
      PROVE  <<v, u>> \in Near(t, v)
  <2>1. u \in Node /\ u # v
    OBVIOUS
  <2>2. PICK x : x \in Between(v, u)
    OBVIOUS
  <2>3. Weight(x) \in Costs(v, u)
    BY <2>2 DEF Costs
  <2>4. Cost(v, u, Weight(x))
    BY <2>3, CostsAre
  <2>5. Vector(t) /\ AtHome(t) /\ \A k \in Nat : Covers(t, k)
    BY DEF Good, Covered
  <2>6. <<v, u>> \in DOMAIN t
    BY <1>0, <2>1, <2>4, <2>5, CostAbove
  <2> DEFINE p == <<v, u>>
  <2>7. p \in DOMAIN t /\ p[1] = v /\ p[2] = u
    BY <2>6
  <2> HIDE DEF p
  <2>8. Cost(v, u, t[p])
    BY <2>7, GoodIs
  <2>9. PICK n \in Nat : \E y \in [1..n -> Adjacency] : Leads(y, n, v, u) /\ t[p] = Weight(y)
    BY <2>1, <2>8 DEF Cost
  <2>10. PICK y \in [1..n -> Adjacency] : Leads(y, n, v, u) /\ t[p] = Weight(y)
    BY <2>9
  <2>11. Weight(y) = n /\ n # 0
    BY <1>0, <2>10, UnitWeight DEF Leads, IsTrail
  <2>12. t[p] > 0
    BY <2>10, <2>11
  <2>13. p \in Near(t, v)
    BY <2>7, <2>12 DEF Near
  <2> QED BY <2>13 DEF p
<1> QED BY <1>1, <1>2

\* The scores are those of the vector, which no later step touches
ScoreInv ==
  job.algo = "closeness" =>
    /\ phase # "walk"
    /\ phase = "done" =>
         \A v \in Node : slot[2][v] = [reached |-> Cardinality(Near(slot[cur], v)),
                                       farness |-> SumOver(slot[cur], Near(slot[cur], v))]

LEMMA ScoreStep == Given /\ ScoreInv /\ [Next]_vars => ScoreInv'
<1> SUFFICES ASSUME Given, ScoreInv, [Next]_vars, job'.algo = "closeness" PROVE ScoreInv'
  BY DEF ScoreInv
<1>0. job.algo = "closeness"
  BY DEF Next, vars, Seed, Round, Reduce, WalkSources, WalkEdges
<1>1. CASE Reduce
  <2> DEFINE t == slot[cur]
  <2>1. slot'[cur'] = t /\ phase' = "done"
    BY <1>1 DEF Reduce, Given
  <2>2. \A v : Reaching(v) = Near(t, v)
    BY DEF Reaching, Near
  <2>3. slot'[2] = [v \in Node |->
          [reached |-> Cardinality(Reaching(v)), farness |-> MapThenSumSet(LAMBDA p : slot[cur][p], Reaching(v))]]
    BY <1>1 DEF Reduce, Given
  <2>4. slot'[2] = [v \in Node |->
          [reached |-> Cardinality(Reaching(v)), farness |-> SumOver(slot[cur], Reaching(v))]]
    BY <2>3 DEF SumOver
  <2>5. \A v \in Node : slot'[2][v] = [reached |-> Cardinality(Near(t, v)), farness |-> SumOver(t, Near(t, v))]
    BY <2>2, <2>4
  <2> QED BY <2>1, <2>5 DEF ScoreInv
<1>2. CASE Seed
  BY <1>0, <1>2 DEF Seed, ScoreInv
<1>3. CASE Round
  BY <1>3 DEF Round, ScoreInv
<1>4. CASE WalkSources
  BY <1>0, <1>4 DEF WalkSources
<1>5. CASE WalkEdges
  BY <1>0, <1>5 DEF WalkEdges, ScoreInv
<1>6. CASE UNCHANGED vars
  <2>1. slot' = slot /\ cur' = cur /\ phase' = phase
    BY <1>6 DEF vars
  <2> QED BY <1>0, <2>1 DEF ScoreInv
<1> QED BY <1>1, <1>2, <1>3, <1>4, <1>5, <1>6 DEF Next

THEOREM ScoreInvariant == Spec => []ScoreInv
<1>1. Init => ScoreInv
  BY DEF Init, ScoreInv
<1> QED BY <1>1, GivenInvariant, ScoreStep, PTL DEF Spec

\* In every graph closeness counts, for every vertex, the others it has a path to along the scope's
\* edges, and adds up how far each is (centrality.ts): an edge weighs 1, so no cycle is negative and
\* the rounds suffice.
THEOREM ClosenessCorrect == Spec => []ClosenessRight
<1>1. Given /\ DistInv /\ ScoreInv => ClosenessRight
  <2> SUFFICES ASSUME Given, DistInv, ScoreInv, job.algo = "closeness", phase = "done", NEW v \in Node
               PROVE  slot[2][v] =
                        [reached |-> Cardinality({u \in Node \ {v} : Between(v, u) # {}}),
                         farness |-> MapThenSumSet(LAMBDA p : Distance(p[1], p[2]),
                                                   {v} \X {u \in Node \ {v} : Between(v, u) # {}})]
    BY DEF ClosenessRight
  <2> DEFINE t == slot[cur]
             others == {u \in Node \ {v} : Between(v, u) # {}}
             S == Near(t, v)
  <2>1. Good(t) /\ Covered(t)
    BY ClosenessRows DEF DistInv, Distances
  <2>2. S = {v} \X others
    BY <2>1, NearIs
  <2>3. slot[2][v] = [reached |-> Cardinality(S), farness |-> SumOver(t, S)]
    BY DEF ScoreInv
  <2>4. Cardinality(S) = Cardinality(others)
    <3>1. others \in SUBSET Node
      OBVIOUS
    <3> HIDE DEF others, S
    <3>2. IsFiniteSet(others) /\ Cardinality(others) \in Nat
      BY <3>1, AtMostAll, OlapAssumption, FS_Subset
    <3>3. IsFiniteSet({v}) /\ Cardinality({v}) = 1
      BY FS_Singleton
    <3>4. Cardinality({v} \X others) = Cardinality({v}) * Cardinality(others)
      BY <3>2, <3>3, FS_Product
    <3> QED BY <2>2, <3>2, <3>3, <3>4
  <2>5. SumOver(t, S) = DistanceSum(S)
    <3>1. \A p \in S : t[p] = Distance(p[1], p[2])
      BY <2>1, GoodIs DEF Near
    <3> HIDE DEF S, t
    <3> QED BY <3>1, SameSum
  <2>6. slot[2][v] = [reached |-> Cardinality(others), farness |-> DistanceSum({v} \X others)]
    BY <2>2, <2>3, <2>4, <2>5
  <2> QED BY <2>6 DEF DistanceSum
<1> QED BY <1>1, GivenInvariant, DistInvariant, ScoreInvariant, PTL

\* Whatever is computed along the scope's edges is right in every graph: strong components, clusters,
\* distances and closeness.
THEOREM AlongEdgesCorrect == Spec => []AlongEdgesRight
<1>1. StrongRight /\ ClustersTravel /\ DistancesRight /\ ClosenessRight => AlongEdgesRight
  BY DEF AlongEdgesRight
<1> QED BY <1>1, StrongComponents, ClustersComeAlong, ShortestDistances, ClosenessCorrect, PTL

(***************************************************************************)
(* The paths rebuilt                                                       *)
(***************************************************************************)
\* n rows that lead away from a source, none at all included
Way(x, n, s) ==
  /\ n \in Nat /\ x \in [1..n -> Adjacency] /\ s \in job.sources
  /\ n # 0 => IsTrail(x, n) /\ x[1].src = s
Stop(x, n, s) == IF n = 0 THEN s ELSE x[n].tgt
Stops(x, n, s) == [i \in 1..(n + 1) |-> IF i = 1 THEN s ELSE x[i - 1].tgt]
Taken(x, n, s) == [src |-> s, path |-> Stops(x, n, s)]

LEMMA StopsAre ==
  ASSUME Given, NEW x, NEW n, NEW s, Way(x, n, s)
  PROVE  /\ n \in Nat /\ s \in Node
         /\ Stops(x, n, s) \in [1..(n + 1) -> Node] /\ Stops(x, n, s)[n + 1] = Stop(x, n, s)
         /\ Len(Stops(x, n, s)) = n + 1
         /\ \A i \in 1..n : Stops(x, n, s)[i] = x[i].src
<1>1. n \in Nat /\ x \in [1..n -> Adjacency] /\ s \in job.sources
  BY DEF Way
<1>2. s \in Node
  BY <1>1, OlapAssumption DEF Given
<1>3. \A i \in 1..(n + 1) : i # 1 => i - 1 \in 1..n
  BY <1>1
<1>4. \A i \in 1..n : x[i].src \in Node /\ x[i].tgt \in Node
  BY <1>1, RowTyped
<1>5. Stops(x, n, s) \in [1..(n + 1) -> Node]
  BY <1>2, <1>3, <1>4 DEF Stops
<1>6. Stops(x, n, s)[n + 1] = Stop(x, n, s)
  <2>1. n + 1 \in 1..(n + 1) /\ (n + 1) - 1 = n /\ (n + 1 = 1 <=> n = 0)
    BY <1>1
  <2> QED BY <2>1 DEF Stops, Stop
<1>7. Len(Stops(x, n, s)) = n + 1
  <2>1. PICK m \in Nat : m = n + 1
    BY <1>1
  <2> QED BY <1>5, <2>1, SeqOf
<1>8. ASSUME NEW i \in 1..n
      PROVE  Stops(x, n, s)[i] = x[i].src
  <2>1. i \in 1..(n + 1) /\ n # 0
    BY <1>1
  <2>2. IsTrail(x, n) /\ x[1].src = s
    BY <2>1 DEF Way
  <2>3. CASE i = 1
    BY <2>1, <2>2, <2>3 DEF Stops
  <2>4. CASE i # 1
    <3>1. i - 1 \in 1..(n - 1) /\ (i - 1) + 1 = i
      BY <1>1, <2>4
    <3>2. x[i - 1].tgt = x[i].src
      BY <2>2, <3>1 DEF IsTrail
    <3> QED BY <2>1, <2>4, <3>2 DEF Stops
  <2> QED BY <2>3, <2>4
<1> QED BY <1>1, <1>2, <1>5, <1>6, <1>7, <1>8

LEMMA WeightNone ==
  ASSUME Given, NEW n \in Nat, n = 0, NEW x \in [1..n -> Adjacency]
  PROVE  Weight(x) = 0
<1> DEFINE f == [i \in 0..n |-> 0]
<1>1. f \in [0..n -> Int] /\ f[0] = 0 /\ f[n] = 0 /\ 1..n = {}
  OBVIOUS
<1> HIDE DEF f
<1>2. Sums(f, x, n)
  BY <1>1 DEF Sums
<1>3. Weight(x) = f[n]
  BY <1>2, RowTyped, SumsGive
<1> QED BY <1>1, <1>3

LEMMA SameFunction ==
  ASSUME NEW D, NEW S, NEW f \in [D -> S], NEW g \in [D -> S], \A i \in D : f[i] = g[i]
  PROVE  f = g
OBVIOUS

\* A row on to a vertex not seen yet
LEMMA WayOn ==
  ASSUME Given, NEW x, NEW n, NEW s, Way(x, n, s), NEW a \in Adjacency, a.src = Stop(x, n, s),
         \A i \in 1..(n + 1) : Stops(x, n, s)[i] # a.tgt
  PROVE  /\ Way(Append(x, a), n + 1, s) /\ Stop(Append(x, a), n + 1, s) = a.tgt
         /\ Stops(Append(x, a), n + 1, s) = Append(Stops(x, n, s), a.tgt)
         /\ Weight(Append(x, a)) = Weight(x) + a.w
<1> DEFINE y == Append(x, a)
           m == n + 1
           p == Stops(x, n, s)
<1>1. n \in Nat /\ x \in [1..n -> Adjacency] /\ s \in job.sources
  BY DEF Way
<1>2. p \in [1..m -> Node] /\ p[m] = a.src /\ \A i \in 1..n : p[i] = x[i].src
  BY StopsAre
<1>3. y \in [1..m -> Adjacency]
  BY <1>1, AppendRow
<1>4. y[m] = a
  BY <1>1, AppendRow
<1>5. \A i \in 1..n : y[i] = x[i]
  BY <1>1, AppendRow
<1>6. Prefix(y, n) = x
  <2>1. Prefix(y, n) = [i \in 1..n |-> x[i]]
    BY <1>5 DEF Prefix
  <2> QED BY <1>1, <2>1
<1>7. m \in Nat /\ m # 0 /\ m \in 1..m /\ 1 \in 1..m
  BY <1>1
<1>8. a.tgt # a.src /\ \A i \in 1..n : a.tgt # x[i].src
  <2>1. \A i \in 1..n : i \in 1..m
    BY <1>1
  <2> QED BY <1>2, <1>7, <2>1
<1> HIDE DEF y
<1>9. IsTrail(y, m) /\ y[1].src = s
  <2>1. CASE n = 0
    <3>1. y \in [1..1 -> Adjacency] /\ y[1] = a
      BY <1>3, <1>4, <2>1
    <3>2. y[1].tgt # y[1].src
      BY <1>8, <3>1
    <3>3. \A i, j \in 1..m : i = 1 /\ j = 1
      BY <2>1
    <3>4. 1..(m - 1) = {}
      BY <2>1
    <3>5. IsTrail(y, m)
      BY <1>3, <1>7, <3>2, <3>3, <3>4 DEF IsTrail
    <3> QED BY <2>1, <3>1, <3>5 DEF Stop
  <2>2. CASE n # 0
    <3>1. IsTrail(x, n) /\ x[1].src = s /\ a.src = x[n].tgt /\ 1 \in 1..n
      BY <1>1, <2>2 DEF Way, Stop
    <3>2. IsTrail(Append(x, a), n + 1)
      BY <1>8, <3>1, TrailOn
    <3> QED BY <1>5, <3>1, <3>2 DEF y
  <2> QED BY <2>1, <2>2
<1>10. Way(y, m, s) /\ Stop(y, m, s) = a.tgt
  BY <1>1, <1>3, <1>4, <1>7, <1>9 DEF Way, Stop
<1>11. Stops(y, m, s) = Append(p, a.tgt)
  <2> DEFINE q == Append(p, a.tgt)
             u == Stops(y, m, s)
  <2>0. a.tgt \in Node
    BY RowTyped
  <2>1. q \in [1..(m + 1) -> Node]
    BY <1>2, <1>7, <2>0, AppendRow
  <2>2. q[m + 1] = a.tgt
    BY <1>2, <1>7, <2>0, AppendRow
  <2>3. \A i \in 1..m : q[i] = p[i]
    BY <1>2, <1>7, <2>0, AppendRow
  <2>4. u \in [1..(m + 1) -> Node] /\ u[m + 1] = a.tgt
    BY <1>10, StopsAre
  <2>5. ASSUME NEW i \in 1..m
        PROVE  u[i] = p[i]
    <3>1. i \in 1..(m + 1) /\ (i # 1 => i - 1 \in 1..n)
      BY <1>1
    <3>2. u[i] = IF i = 1 THEN s ELSE y[i - 1].tgt
      BY <3>1 DEF Stops
    <3>3. p[i] = IF i = 1 THEN s ELSE x[i - 1].tgt
      BY DEF Stops
    <3> QED BY <1>5, <3>1, <3>2, <3>3
  <2>6. \A i \in 1..(m + 1) : i = m + 1 \/ i \in 1..m
    BY <1>7
  <2> HIDE DEF q, u, m
  <2>7. \A i \in 1..(m + 1) : u[i] = q[i]
    BY <2>2, <2>3, <2>4, <2>5, <2>6
  <2>8. u = q
    <3>1. PICK D : D = 1..(m + 1)
      OBVIOUS
    <3>2. u \in [D -> Node] /\ q \in [D -> Node] /\ \A i \in D : u[i] = q[i]
      BY <2>1, <2>4, <2>7, <3>1
    <3> QED BY <3>2, SameFunction
  <2> QED BY <2>8 DEF q, u
<1>12. Weight(y) = Weight(x) + a.w
  <2>1. y \in [1..(n + 1) -> Adjacency]
    BY <1>3
  <2>2. Weight(y) = Weight(Prefix(y, n)) + y[n + 1].w
    BY <1>1, <2>1, RowTyped, WeightLast
  <2> QED BY <1>4, <1>6, <2>2
<1> QED BY <1>10, <1>11, <1>12 DEF y

LEMMA SplitLast ==
  ASSUME NEW S, NEW n \in Nat, NEW x \in [1..(n + 1) -> S]
  PROVE  Prefix(x, n) \in [1..n -> S] /\ x[n + 1] \in S /\ x = Append(Prefix(x, n), x[n + 1])
<1> DEFINE y == Prefix(x, n)
           r == x[n + 1]
           z == Append(y, r)
<1>1. y \in [1..n -> S] /\ r \in S /\ \A i \in 1..n : y[i] = x[i]
  BY DEF Prefix
<1> HIDE DEF y, r
<1>2. z \in [1..(n + 1) -> S]
  BY <1>1, AppendRow
<1>3. z[n + 1] = r
  BY <1>1, AppendRow
<1>4. \A i \in 1..n : z[i] = y[i]
  BY <1>1, AppendRow
<1>5. \A i \in 1..(n + 1) : i = n + 1 \/ i \in 1..n
  OBVIOUS
<1> HIDE DEF z
<1>6. \A i \in 1..(n + 1) : z[i] = x[i]
  BY <1>1, <1>3, <1>4, <1>5 DEF r
<1>7. z = x
  BY <1>2, <1>6, SameFunction
<1> QED BY <1>1, <1>7 DEF y, r, z

\* The last row taken away again
LEMMA WayBack ==
  ASSUME Given, NEW n \in Nat, NEW x, NEW s, Way(x, n + 1, s)
  PROVE  LET y == Prefix(x, n) a == x[n + 1] IN
         /\ Way(y, n, s) /\ a \in Adjacency /\ a.src = Stop(y, n, s)
         /\ \A i \in 1..(n + 1) : Stops(y, n, s)[i] # a.tgt
         /\ x = Append(y, a)
<1> DEFINE m == n + 1
           y == Prefix(x, n)
           a == x[n + 1]
<1>1. x \in [1..(n + 1) -> Adjacency] /\ s \in job.sources /\ IsTrail(x, n + 1) /\ x[1].src = s
  BY DEF Way
<1>2. y \in [1..n -> Adjacency] /\ a \in Adjacency /\ x = Append(y, a)
  BY <1>1, SplitLast
<1>3. a.tgt # a.src /\ \A i \in 1..n : a.tgt # x[i].src
  <2>1. n + 1 \in 1..(n + 1) /\ n + 1 <= n + 1 /\ \A i \in 1..n : i \in 1..(n + 1) /\ i <= n + 1
    OBVIOUS
  <2> QED BY <1>1, <2>1 DEF IsTrail
<1>4. Way(y, n, s) /\ a.src = Stop(y, n, s)
  <2>1. CASE n = 0
    BY <1>1, <1>2, <2>1 DEF Way, Stop
  <2>2. CASE n # 0
    <3>1. n \in 1..(n + 1) /\ n \in 1..((n + 1) - 1) /\ n \in 1..n
      BY <2>2
    <3>2. IsTrail(y, n) /\ y[1] = x[1] /\ y[n] = x[n]
      BY <1>1, <3>1, TrailPrefix
    <3>3. x[n].tgt = a.src
      BY <1>1, <3>1 DEF IsTrail
    <3> QED BY <1>1, <1>2, <2>2, <3>2, <3>3 DEF Way, Stop
  <2> QED BY <2>1, <2>2
<1>5. ASSUME NEW i \in 1..(n + 1)
      PROVE  Stops(y, n, s)[i] # a.tgt
  <2>1. CASE i = n + 1
    <3>1. Stops(y, n, s)[i] = a.src
      BY <1>4, <2>1, StopsAre
    <3> QED BY <1>3, <3>1
  <2>2. CASE i # n + 1
    <3>1. i \in 1..n
      BY <2>2
    <3>2. Stops(y, n, s)[i] = y[i].src
      BY <1>4, <3>1, StopsAre
    <3>3. y[i] = x[i]
      BY <3>1 DEF Prefix
    <3> QED BY <1>3, <3>1, <3>2, <3>3
  <2> QED BY <2>1, <2>2
<1> QED BY <1>2, <1>4, <1>5

\* The rows Extensions looks at
Onto(x, n, s, a) ==
  a \in Adjacency /\ a.src = Stop(x, n, s) /\ (\A i \in 1..(n + 1) : Stops(x, n, s)[i] # a.tgt)

LEMMA ExtensionsAre ==
  ASSUME Given, NEW x, NEW n, NEW s, Way(x, n, s), NEW z
  PROVE  z \in Extensions(Taken(x, n, s)) <=>
           \E a \in Adjacency : Onto(x, n, s, a) /\ Tight(s, a) /\ z = Taken(Append(x, a), n + 1, s)
<1> DEFINE w == Taken(x, n, s)
           p == Stops(x, n, s)
<1>1. /\ w.src = s /\ w.path = p /\ DOMAIN p = 1..(n + 1) /\ Len(p) = n + 1
      /\ p[n + 1] = Stop(x, n, s)
  BY StopsAre DEF Taken
<1>2. \A q : [w EXCEPT !.path = q] = [src |-> s, path |-> q]
  BY DEF Taken
<1>3. \A a \in Adjacency : Onto(x, n, s, a) =>
        [w EXCEPT !.path = Append(@, a.tgt)] = Taken(Append(x, a), n + 1, s)
  <2>1. TAKE a \in Adjacency
  <2>2. HAVE Onto(x, n, s, a)
  <2>3. Stops(Append(x, a), n + 1, s) = Append(p, a.tgt)
    BY <2>2, WayOn DEF Onto
  <2>4. [w EXCEPT !.path = Append(@, a.tgt)] = [src |-> s, path |-> Append(p, a.tgt)]
    BY DEF Taken
  <2> QED BY <2>3, <2>4 DEF Taken
<1> HIDE DEF w, p
<1>4. z \in Extensions(w) <=>
        \E a \in Adjacency : /\ a.src = w.path[Len(w.path)]
                             /\ \A i \in DOMAIN w.path : w.path[i] # a.tgt
                             /\ Tight(w.src, a)
                             /\ z = [w EXCEPT !.path = Append(@, a.tgt)]
  BY DEF Extensions
<1>5. \A a \in Adjacency :
        Onto(x, n, s, a) <=> a.src = w.path[Len(w.path)] /\ \A i \in DOMAIN w.path : w.path[i] # a.tgt
  BY <1>1 DEF Onto, p
<1>6. z \in Extensions(w) <=>
        \E a \in Adjacency : Onto(x, n, s, a) /\ Tight(s, a) /\ z = Taken(Append(x, a), n + 1, s)
  BY <1>1, <1>3, <1>4, <1>5
<1> QED BY <1>6 DEF w

\* A way that weighs what the vector says of its end
Best(t, x, n, s) ==
  Way(x, n, s) /\ <<s, Stop(x, n, s)>> \in DOMAIN t /\ t[<<s, Stop(x, n, s)>>] = Weight(x)

LEMMA WayCosts ==
  ASSUME Given, NEW x, NEW n, NEW s, Way(x, n, s)
  PROVE  Stop(x, n, s) \in Node /\ Weight(x) \in Int /\ Cost(s, Stop(x, n, s), Weight(x))
<1>1. n \in Nat /\ x \in [1..n -> Adjacency]
  BY DEF Way
<1>2. Stop(x, n, s) \in Node
  <2>1. n + 1 \in 1..(n + 1)
    BY <1>1
  <2> QED BY <2>1, StopsAre
<1>3. Weight(x) \in Int
  BY <1>1, TrailWeight
<1>4. Cost(s, Stop(x, n, s), Weight(x))
  <2>1. CASE n = 0
    BY <1>1, <2>1, WeightNone DEF Cost, Stop
  <2>2. CASE n # 0
    <3>1. Leads(x, n, s, Stop(x, n, s))
      BY <2>2 DEF Way, Leads, Stop
    <3> QED BY <1>1, <3>1 DEF Cost
  <2> QED BY <2>1, <2>2
<1> QED BY <1>2, <1>3, <1>4

LEMMA BestStart ==
  ASSUME Given, NEW t, Good(t), Covered(t), NEW s \in job.sources, NEW n \in Nat, n = 0, NEW x \in [1..n -> Adjacency]
  PROVE  Best(t, x, n, s)
<1>1. Way(x, n, s) /\ Stop(x, n, s) = s /\ Weight(x) = 0
  BY WeightNone DEF Way, Stop
<1> DEFINE p == <<s, s>>
<1>2. p \in DOMAIN t /\ p[1] = s /\ p[2] = s
  BY DEF Good, AtHome
<1> HIDE DEF p
<1>3. Cost(s, s, t[p])
  BY <1>2, GoodIs
<1>4. ~\E m \in Nat : \E y \in [1..m -> Adjacency] : Leads(y, m, s, s) /\ t[p] = Weight(y)
  <2>1. SUFFICES ASSUME NEW m \in Nat, NEW y \in [1..m -> Adjacency], Leads(y, m, s, s) PROVE FALSE
    OBVIOUS
  <2>2. IsTrail(y, m) /\ y[1].src = s /\ y[m].tgt = s /\ 1 \in 1..m /\ m \in 1..m /\ 1 <= m
    BY <2>1 DEF Leads, IsTrail
  <2> QED BY <2>2 DEF IsTrail
<1>5. t[p] = 0
  BY <1>3, <1>4 DEF Cost
<1> QED BY <1>1, <1>2, <1>5 DEF Best, p

LEMMA BestOn ==
  ASSUME Given, NEW x, NEW n, NEW s, Best(slot[cur], x, n, s),
         NEW a \in Adjacency, Onto(x, n, s, a), Tight(s, a)
  PROVE  Best(slot[cur], Append(x, a), n + 1, s)
<1>1. Way(x, n, s) /\ a.src = Stop(x, n, s) /\ slot[cur][<<s, a.src>>] = Weight(x)
  BY DEF Best, Onto
<1>2. /\ Way(Append(x, a), n + 1, s) /\ Stop(Append(x, a), n + 1, s) = a.tgt
      /\ Weight(Append(x, a)) = Weight(x) + a.w
  BY <1>1, WayOn DEF Onto
<1>3. <<s, a.tgt>> \in DOMAIN slot[cur] /\ slot[cur][<<s, a.tgt>>] = slot[cur][<<s, a.src>>] + a.w
  BY DEF Tight
<1> QED BY <1>1, <1>2, <1>3 DEF Best

\* A shortest way is tight in its last row, and what is before it is a shortest way
LEMMA BestBack ==
  ASSUME Given, NoNegative, Good(slot[cur]), Covered(slot[cur]), NEW n \in Nat, NEW x, NEW s,
         Best(slot[cur], x, n + 1, s)
  PROVE  \E y \in [1..n -> Adjacency], a \in Adjacency :
           /\ Best(slot[cur], y, n, s) /\ Onto(y, n, s, a) /\ Tight(s, a) /\ x = Append(y, a)
<1> DEFINE t == slot[cur]
<1>0. Way(x, n + 1, s) /\ s \in job.sources
  BY DEF Best, Way
<1>1. PICK y \in [1..n -> Adjacency], a \in Adjacency : Way(y, n, s) /\ Onto(y, n, s, a) /\ x = Append(y, a)
  <2>1. /\ Way(Prefix(x, n), n, s) /\ x[n + 1] \in Adjacency /\ x[n + 1].src = Stop(Prefix(x, n), n, s)
        /\ \A i \in 1..(n + 1) : Stops(Prefix(x, n), n, s)[i] # x[n + 1].tgt
        /\ x = Append(Prefix(x, n), x[n + 1])
    BY <1>0, WayBack
  <2>2. Prefix(x, n) \in [1..n -> Adjacency]
    BY <2>1 DEF Way
  <2> QED BY <2>1, <2>2 DEF Onto
<1>2. a.src = Stop(y, n, s) /\ a.src \in Node /\ a.tgt \in Node /\ a.w \in Int
  BY <1>1, RowTyped DEF Onto
<1>3. Stop(x, n + 1, s) = a.tgt /\ Weight(x) = Weight(y) + a.w
  BY <1>1, WayOn DEF Onto
<1>4. Weight(y) \in Int /\ Cost(s, a.src, Weight(y))
  BY <1>1, <1>2, WayCosts
<1>5. <<s, a.tgt>> \in DOMAIN t /\ t[<<s, a.tgt>>] = Weight(y) + a.w
  BY <1>3 DEF Best
<1>6. Vector(t) /\ Sound(t) /\ AtHome(t) /\ \A k \in Nat : Covers(t, k)
  BY DEF Good, Covered
<1> HIDE DEF t
<1>7. <<s, a.src>> \in DOMAIN t /\ t[<<s, a.src>>] \in Int /\ t[<<s, a.src>>] <= Weight(y)
  BY <1>0, <1>2, <1>4, <1>6, CostAbove
<1>8. t[<<s, a.tgt>>] <= t[<<s, a.src>>] + a.w
  <2>1. /\ <<s, a.tgt>> \in DOMAIN PathRound(t)
        /\ PathRound(t)[<<s, a.tgt>>] <= t[<<s, a.src>>] + a.w
    BY <1>0, <1>6, <1>7, RoundRelaxes
  <2>2. t[<<s, a.tgt>>] = PathRound(t)[<<s, a.tgt>>]
    BY <1>6, <2>1, CoveredStays
  <2> QED BY <2>1, <2>2
<1>9. t[<<s, a.src>>] = Weight(y)
  BY <1>2, <1>4, <1>5, <1>7, <1>8
<1>10. Best(t, y, n, s)
  BY <1>1, <1>2, <1>7, <1>9 DEF Best
<1>11. Tight(s, a)
  BY <1>5, <1>7, <1>9 DEF Tight, t
<1> QED BY <1>1, <1>10, <1>11 DEF t

\* What is rebuilt are shortest ways, and at the end no row leads on from them
WalkInv ==
  job.algo = "path" /\ NoNegative /\ phase \in {"walk", "done"} =>
    /\ \A s \in job.sources : [src |-> s, path |-> <<s>>] \in walk
    /\ \A w \in walk : \E s \in job.sources, n \in Nat : \E x \in [1..n -> Adjacency] :
         Best(slot[cur], x, n, s) /\ w = Taken(x, n, s)
    /\ phase = "done" => \A w \in walk : Extensions(w) \subseteq walk

LEMMA TakenNone ==
  ASSUME NEW n \in Nat, n = 0, NEW x, NEW s
  PROVE  Taken(x, n, s) = [src |-> s, path |-> <<s>>]
<1> DEFINE p == Stops(x, n, s)
           q == <<s>>
<1>1. p \in [1..1 -> {s}] /\ q \in [1..1 -> {s}]
  BY DEF Stops
<1> HIDE DEF p, q
<1>2. \A i \in 1..1 : p[i] = q[i]
  BY <1>1
<1>3. p = q
  <2>1. PICK D : D = 1..1
    OBVIOUS
  <2>2. p \in [D -> {s}] /\ q \in [D -> {s}] /\ \A i \in D : p[i] = q[i]
    BY <1>1, <1>2, <2>1
  <2> QED BY <2>2, SameFunction
<1> QED BY <1>3 DEF p, q, Taken

LEMMA SameWays ==
  ASSUME graph' = graph, job' = job
  PROVE  /\ Adjacency' = Adjacency
         /\ \A t, x, n, s : Best(t, x, n, s)' = Best(t, x, n, s)
<1>1. Adjacency' = Adjacency
  BY DEF Adjacency, Row
<1>2. \A x, n : IsTrail(x, n)' = IsTrail(x, n)
  BY <1>1 DEF IsTrail
<1>3. \A t, x, n, s : Best(t, x, n, s)' = Best(t, x, n, s)
  BY <1>1, <1>2 DEF Best, Way, Stop
<1> QED BY <1>1, <1>3

\* What WalkInv says of a set of paths and a vector
Rebuilt(W, t) ==
  /\ \A s \in job.sources : [src |-> s, path |-> <<s>>] \in W
  /\ \A w \in W : \E s \in job.sources, n \in Nat : \E x \in [1..n -> Adjacency] :
       Best(t, x, n, s) /\ w = Taken(x, n, s)

LEMMA WalkStep == Given /\ DistInv /\ WalkInv /\ [Next]_vars => WalkInv'
<1> SUFFICES ASSUME Given, DistInv, WalkInv, [Next]_vars, job'.algo = "path", NoNegative', phase' \in {"walk", "done"}
             PROVE  Rebuilt(walk, slot[cur])' /\ (phase' = "done" => (\A w \in walk : Extensions(w) \subseteq walk)')
  BY DEF WalkInv, Rebuilt
<1>0. graph' = graph /\ job' = job
  BY DEF Next, vars, Seed, Round, Reduce, WalkSources, WalkEdges
<1>1. job.algo = "path" /\ NoNegative
  BY <1>0, SameGraph
<1>2. /\ Adjacency' = Adjacency
      /\ \A t, x, n, s : Best(t, x, n, s)' = Best(t, x, n, s)
  BY <1>0, SameWays
<1>3. ASSUME slot' = slot, cur' = cur, Rebuilt(walk', slot[cur])
      PROVE  Rebuilt(walk, slot[cur])'
  <2>1. slot'[cur'] = slot[cur]
    BY <1>3
  <2>2. \A s \in job'.sources : [src |-> s, path |-> <<s>>] \in walk'
    BY <1>0, <1>3 DEF Rebuilt
  <2>3. \A w \in walk' : \E s \in job'.sources, n \in Nat : \E x \in [1..n -> Adjacency'] :
          Best(slot[cur], x, n, s)' /\ w = Taken(x, n, s)
    BY <1>0, <1>2, <1>3, <2>1 DEF Rebuilt
  <2> QED BY <2>2, <2>3 DEF Rebuilt
<1>4. Distances /\ (phase \in {"fixed", "exhausted", "walk"} => phase # "exhausted" /\ Good(slot[cur]) /\ Covered(slot[cur]))
  BY <1>1 DEF DistInv, Distances
<1>5. CASE WalkSources
  <2>1. Good(slot[cur]) /\ Covered(slot[cur]) /\ slot' = slot /\ cur' = cur /\ phase' = "walk"
    BY <1>4, <1>5 DEF WalkSources, Ended
  <2>2. walk' = {[src |-> p[1], path |-> <<p[1]>>] : p \in DOMAIN slot[cur]}
    BY <1>5 DEF WalkSources
  <2>3. ASSUME NEW s \in job.sources
        PROVE  [src |-> s, path |-> <<s>>] \in walk'
    <3> DEFINE p == <<s, s>>
    <3>1. p \in DOMAIN slot[cur] /\ p[1] = s
      BY <2>1 DEF Good, AtHome
    <3> HIDE DEF p
    <3> QED BY <2>2, <3>1
  <2>4. ASSUME NEW w \in walk'
        PROVE  \E s \in job.sources, n \in Nat : \E x \in [1..n -> Adjacency] :
                 Best(slot[cur], x, n, s) /\ w = Taken(x, n, s)
    <3>1. PICK p \in DOMAIN slot[cur] : w = [src |-> p[1], path |-> <<p[1]>>]
      BY <2>2
    <3>2. p \in job.sources \X Node
      BY <2>1 DEF Good, Vector
    <3>3. PICK s \in job.sources : s = p[1]
      BY <3>2
    <3>4. PICK n \in Nat : n = 0
      OBVIOUS
    <3>5. PICK x : x \in [1..n -> Adjacency]
      <4>1. 1..n = {}
        BY <3>4
      <4>2. [i \in 1..n |-> i] \in [1..n -> Adjacency]
        BY <4>1
      <4> QED BY <4>2
    <3>6. Best(slot[cur], x, n, s)
      BY <2>1, <3>4, <3>5, BestStart
    <3>7. w = Taken(x, n, s)
      BY <3>1, <3>3, <3>4, TakenNone
    <3> QED BY <3>5, <3>6, <3>7
  <2>5. Rebuilt(walk', slot[cur])
    BY <2>3, <2>4 DEF Rebuilt
  <2>6. Rebuilt(walk, slot[cur])'
    BY <1>3, <2>1, <2>5
  <2> QED BY <2>1, <2>6
<1>6. CASE WalkEdges
  <2>1. /\ phase = "walk" /\ slot' = slot /\ cur' = cur
        /\ walk' = walk \cup UNION {Extensions(w) : w \in walk}
        /\ phase' = "done" => walk' = walk
    BY <1>6 DEF WalkEdges
  <2>2. Rebuilt(walk, slot[cur])
    BY <1>1, <2>1 DEF WalkInv, Rebuilt
  <2>3. ASSUME NEW w \in walk, NEW z \in Extensions(w)
        PROVE  \E s \in job.sources, n \in Nat : \E x \in [1..n -> Adjacency] :
                 Best(slot[cur], x, n, s) /\ z = Taken(x, n, s)
    <3>1. PICK s \in job.sources, n \in Nat : \E x \in [1..n -> Adjacency] :
            Best(slot[cur], x, n, s) /\ w = Taken(x, n, s)
      BY <2>2 DEF Rebuilt
    <3>2. PICK x \in [1..n -> Adjacency] : Best(slot[cur], x, n, s) /\ w = Taken(x, n, s)
      BY <3>1
    <3>3. PICK a \in Adjacency : Onto(x, n, s, a) /\ Tight(s, a) /\ z = Taken(Append(x, a), n + 1, s)
      BY <3>2, ExtensionsAre DEF Best
    <3>4. Best(slot[cur], Append(x, a), n + 1, s)
      BY <3>2, <3>3, BestOn
    <3>5. PICK m \in Nat : m = n + 1
      OBVIOUS
    <3>6. PICK y : y = Append(x, a)
      OBVIOUS
    <3>7. Best(slot[cur], y, m, s) /\ z = Taken(y, m, s)
      BY <3>3, <3>4, <3>5, <3>6
    <3>8. y \in [1..m -> Adjacency]
      BY <3>7 DEF Best, Way
    <3> QED BY <3>7, <3>8
  <2>4. Rebuilt(walk', slot[cur])
    BY <2>1, <2>2, <2>3 DEF Rebuilt
  <2>5. phase' = "done" => (\A w \in walk : Extensions(w) \subseteq walk)'
    <3>1. SUFFICES ASSUME phase' = "done" PROVE (\A w \in walk : Extensions(w) \subseteq walk)'
      OBVIOUS
    <3>2. \A w \in walk : Extensions(w) \subseteq walk
      BY <2>1, <3>1
    <3>3. \A w : Extensions(w)' = Extensions(w)
      BY <1>2, <2>1 DEF Extensions, Tight
    <3> QED BY <2>1, <3>1, <3>2, <3>3
  <2>6. Rebuilt(walk, slot[cur])'
    BY <1>3, <2>1, <2>4
  <2> QED BY <2>5, <2>6
<1>7. CASE Seed
  BY <1>1, <1>7 DEF Seed
<1>8. CASE Round
  BY <1>8 DEF Round
<1>9. CASE Reduce
  BY <1>1, <1>9 DEF Reduce
<1>10. CASE UNCHANGED vars
  <2>1. slot' = slot /\ cur' = cur /\ phase' = phase /\ walk' = walk
    BY <1>10 DEF vars
  <2>2. Rebuilt(walk, slot[cur]) /\ (phase' = "done" => \A w \in walk : Extensions(w) \subseteq walk)
    BY <1>1, <2>1 DEF WalkInv, Rebuilt
  <2>3. \A w : Extensions(w)' = Extensions(w)
    BY <1>2, <2>1 DEF Extensions, Tight
  <2>4. Rebuilt(walk', slot[cur])
    BY <2>1, <2>2
  <2>5. Rebuilt(walk, slot[cur])'
    BY <1>3, <2>1, <2>4
  <2>6. phase' = "done" => (\A w \in walk : Extensions(w) \subseteq walk)'
    BY <2>1, <2>2, <2>3
  <2> QED BY <2>5, <2>6
<1> QED BY <1>5, <1>6, <1>7, <1>8, <1>9, <1>10 DEF Next

THEOREM WalkInvariant == Spec => []WalkInv
<1>1. Init => WalkInv
  BY DEF Init, WalkInv
<1> QED BY <1>1, GivenInvariant, DistInvariant, WalkStep, PTL DEF Spec

LEMMA VisitedIs ==
  ASSUME Given, NEW n, NEW x, NEW s, Way(x, n, s), n # 0
  PROVE  From(x) = s /\ To(x) = Stop(x, n, s) /\ [src |-> From(x), path |-> Visited(x)] = Taken(x, n, s)
<1>1. n \in Nat /\ x \in [1..n -> Adjacency] /\ IsTrail(x, n) /\ x[1].src = s /\ DOMAIN x = 1..n
  BY DEF Way
<1>2. From(x) = s /\ To(x) = Stop(x, n, s)
  BY <1>1, TrailEnds DEF Stop
<1> DEFINE a == <<s>>
           b == [i \in 1..n |-> x[i].tgt]
           p == a \o b
           q == Stops(x, n, s)
<1>3. s \in Node /\ q \in [1..(n + 1) -> Node]
  BY StopsAre
<1>4. a \in Seq(Node) /\ Len(a) = 1 /\ a[1] = s
  BY <1>3
<1>5. b \in [1..n -> Node] /\ \A i \in 1..n : b[i] = x[i].tgt
  <2>1. \A i \in 1..n : x[i].tgt \in Node
    BY <1>1, RowTyped
  <2> QED BY <2>1
<1> HIDE DEF a, b
<1>6. b \in Seq(Node) /\ Len(b) = n
  BY <1>1, <1>5, SeqOf
<1>7. p \in Seq(Node) /\ Len(p) = Len(a) + Len(b)
  BY <1>4, <1>6, ConcatProperties
<1>8. \A i \in 1..(Len(a) + Len(b)) : p[i] = IF i <= Len(a) THEN a[i] ELSE b[i - Len(a)]
  BY <1>4, <1>6, ConcatProperties
<1>9. Len(a) + Len(b) = n + 1
  BY <1>1, <1>4, <1>6
<1>10. p \in [1..(n + 1) -> Node]
  BY <1>7, <1>9, LenProperties
<1>11. ASSUME NEW i \in 1..(n + 1)
       PROVE  p[i] = q[i]
  <2>1. p[i] = IF i <= 1 THEN a[i] ELSE b[i - 1]
    BY <1>4, <1>8, <1>9
  <2>2. q[i] = IF i = 1 THEN s ELSE x[i - 1].tgt
    BY DEF Stops
  <2>3. (i <= 1 <=> i = 1) /\ (i # 1 => i - 1 \in 1..n)
    BY <1>1
  <2> QED BY <1>4, <1>5, <2>1, <2>2, <2>3
<1> HIDE DEF p, q
<1>12. p = q
  <2>1. PICK D : D = 1..(n + 1)
    OBVIOUS
  <2>2. p \in [D -> Node] /\ q \in [D -> Node] /\ \A i \in D : p[i] = q[i]
    BY <1>3, <1>10, <1>11, <2>1
  <2> QED BY <2>2, SameFunction
<1>13. Visited(x) = p
  BY <1>1, <1>2 DEF Visited, p, a, b
<1> QED BY <1>2, <1>12, <1>13 DEF q, Taken

\* Every shortest way of any length is among what was rebuilt
LEMMA AllRebuilt ==
  ASSUME Given, NoNegative, Good(slot[cur]), Covered(slot[cur]), Rebuilt(walk, slot[cur]),
         \A w \in walk : Extensions(w) \subseteq walk,
         NEW n \in Nat, NEW x, NEW s, Best(slot[cur], x, n, s)
  PROVE  Taken(x, n, s) \in walk
<1> DEFINE S == {m \in Nat : \A y \in [1..m -> Adjacency], u \in job.sources :
                               Best(slot[cur], y, m, u) => Taken(y, m, u) \in walk}
<1>1. 0 \in S
  <2>1. PICK m \in Nat : m = 0
    OBVIOUS
  <2>2. \A y \in [1..m -> Adjacency], u \in job.sources : Taken(y, m, u) \in walk
    BY <2>1, TakenNone DEF Rebuilt
  <2> QED BY <2>1, <2>2
<1>2. ASSUME NEW m \in S
      PROVE  m + 1 \in S
  <2>1. m \in Nat
    OBVIOUS
  <2>2. SUFFICES ASSUME NEW y \in [1..(m + 1) -> Adjacency], NEW u \in job.sources, Best(slot[cur], y, m + 1, u)
                 PROVE  Taken(y, m + 1, u) \in walk
    BY <2>1
  <2>3. PICK z \in [1..m -> Adjacency], a \in Adjacency :
          Best(slot[cur], z, m, u) /\ Onto(z, m, u, a) /\ Tight(u, a) /\ y = Append(z, a)
    BY <2>1, <2>2, BestBack
  <2>4. Taken(z, m, u) \in walk /\ Way(z, m, u)
    BY <2>3 DEF Best
  <2>5. Taken(y, m + 1, u) \in Extensions(Taken(z, m, u))
    BY <2>3, <2>4, ExtensionsAre
  <2> QED BY <2>4, <2>5
<1>3. n \in S
  <2> HIDE DEF S
  <2>1. S \in SUBSET Nat
    BY DEF S
  <2> QED BY <1>1, <1>2, <2>1, Induct
<1> QED BY <1>3 DEF Best, Way

\* A way with rows is shortest exactly when it weighs the distance
LEMMA BestIs ==
  ASSUME Given, NoNegative, NEW t, Good(t), Covered(t), NEW n, n # 0, NEW x, NEW s, Way(x, n, s)
  PROVE  Best(t, x, n, s) <=> Weight(x) = Distance(s, Stop(x, n, s))
<1> DEFINE v == Stop(x, n, s)
           p == <<s, v>>
<1>1. v \in Node /\ Cost(s, v, Weight(x)) /\ s \in job.sources
  BY WayCosts DEF Way
<1>2. Vector(t) /\ AtHome(t) /\ \A k \in Nat : Covers(t, k)
  BY DEF Good, Covered
<1> HIDE DEF v
<1>3. p \in DOMAIN t /\ p[1] = s /\ p[2] = v
  BY <1>1, <1>2, CostAbove
<1> HIDE DEF p
<1>4. t[p] = Distance(s, v)
  BY <1>3, GoodIs
<1> QED BY <1>3, <1>4 DEF Best, p, v

\* In every graph without a cycle of negative weight what shortestPathReconstruct emits are the shortest
\* paths from the sources, all of them and no other, cycles of weight 0 included (shortestpath.ts).
THEOREM PathsCorrect == Spec => []PathsRight
<1>1. Given /\ DistInv /\ WalkInv => PathsRight
  <2> DEFINE A == {[src |-> s, path |-> <<s>>] : s \in job.sources}
             Y == {y \in Trails : From(y) \in job.sources /\ Weight(y) = Distance(From(y), To(y))}
             B == {[src |-> From(x), path |-> Visited(x)] : x \in Y}
  <2> SUFFICES ASSUME Given, DistInv, WalkInv, job.algo = "path", phase = "done", ~NegativeCycle
               PROVE  walk = A \cup B
    BY DEF PathsRight
  <2>1. NoNegative /\ Good(slot[cur]) /\ Covered(slot[cur])
    BY NoCycle, Covering DEF Distances
  <2>2. Rebuilt(walk, slot[cur]) /\ \A w \in walk : Extensions(w) \subseteq walk
    BY <2>1 DEF WalkInv, Rebuilt
  <2>3. ASSUME NEW w \in walk
        PROVE  w \in A \cup B
    <3>1. PICK s \in job.sources, n \in Nat : \E x \in [1..n -> Adjacency] :
            Best(slot[cur], x, n, s) /\ w = Taken(x, n, s)
      BY <2>2 DEF Rebuilt
    <3>2. PICK x \in [1..n -> Adjacency] : Best(slot[cur], x, n, s) /\ w = Taken(x, n, s)
      BY <3>1
    <3>3. Way(x, n, s)
      BY <3>2 DEF Best
    <3>4. CASE n = 0
      <4>1. w = [src |-> s, path |-> <<s>>]
        BY <3>2, <3>4, TakenNone
      <4> QED BY <4>1
    <3>5. CASE n # 0
      <4>1. /\ From(x) = s /\ To(x) = Stop(x, n, s)
            /\ w = [src |-> From(x), path |-> Visited(x)]
        BY <3>2, <3>3, <3>5, VisitedIs
      <4>2. Weight(x) = Distance(From(x), To(x))
        BY <2>1, <3>2, <3>3, <3>5, <4>1, BestIs
      <4>3. x \in Trails
        BY <3>3, <3>5, TrailsAre DEF Way
      <4>4. x \in Y
        BY <4>1, <4>2, <4>3
      <4> HIDE DEF Y
      <4> QED BY <4>1, <4>4
    <3> QED BY <3>4, <3>5
  <2>4. ASSUME NEW x \in Y
        PROVE  [src |-> From(x), path |-> Visited(x)] \in walk
    <3>1. PICK n \in Nat : IsTrail(x, n)
      BY TrailsAre
    <3>2. n # 0 /\ From(x) = x[1].src /\ x \in [1..n -> Adjacency]
      BY <3>1, TrailEnds DEF IsTrail
    <3>3. PICK s \in job.sources : s = From(x)
      OBVIOUS
    <3>4. Way(x, n, s)
      BY <3>1, <3>2, <3>3 DEF Way
    <3>5. To(x) = Stop(x, n, s) /\ [src |-> From(x), path |-> Visited(x)] = Taken(x, n, s)
      BY <3>2, <3>4, VisitedIs
    <3>6. Weight(x) = Distance(s, Stop(x, n, s))
      BY <3>3, <3>5
    <3>7. Best(slot[cur], x, n, s)
      BY <2>1, <3>2, <3>4, <3>6, BestIs
    <3>8. Taken(x, n, s) \in walk
      BY <2>1, <2>2, <3>7, AllRebuilt
    <3> QED BY <3>5, <3>8
  <2>5. A \subseteq walk
    BY <2>2 DEF Rebuilt
  <2>6. B \subseteq walk
    <3> HIDE DEF Y
    <3> QED BY <2>4
  <2> HIDE DEF A, B
  <2> QED BY <2>3, <2>5, <2>6
<1> QED BY <1>1, GivenInvariant, DistInvariant, WalkInvariant, PTL
=============================================================================
