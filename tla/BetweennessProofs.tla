------------------------- MODULE BetweennessProofs --------------------------
(***************************************************************************)
(* The scores of Betweenness, for any graph: a pair of vertices is found   *)
(* in the round of its distance and its shortest paths are counted there,  *)
(* and each vertex ends with its share of the paths that run through it.   *)
(* What carries the proof is that both walks count sets: the forward one   *)
(* the ways to a vertex, by their last stop but one; the backward one the  *)
(* parts of the shortest paths a vertex lies on that go on beyond it, by   *)
(* their next stop.  A part is one of Scale shared out evenly among the    *)
(* shortest paths of a pair, so a share is a number of parts.              *)
(***************************************************************************)
EXTENDS Betweenness, FiniteSetTheorems, FunctionTheorems, WellFoundedInduction, TLAPS

(***************************************************************************)
(* Counting                                                                *)
(***************************************************************************)
LEMMA LeastOf ==
  ASSUME NEW S \in SUBSET Nat, S # {}
  PROVE  \E x \in S : \A y \in S : x <= y
<1>1. PICK x \in S : \A y \in S : <<y, x>> \notin OpToRel(<, Nat)
  BY NatLessThanWellFounded, WFMin
<1>2. \A y \in S : x <= y
  <2>1. TAKE y \in S
  <2>2. <<y, x>> \in Nat \X Nat
    OBVIOUS
  <2>3. ~(y < x)
    BY <1>1, <2>2 DEF OpToRel
  <2> QED BY <2>3
<1> QED BY <1>2

\* Sets matched one to one have as many elements
LEMMA Paired ==
  ASSUME NEW S, NEW T, IsFiniteSet(S) \/ IsFiniteSet(T), NEW F \in [S -> T],
         \A a, b \in S : F[a] = F[b] => a = b, \A t \in T : \E s \in S : F[s] = t
  PROVE  IsFiniteSet(S) /\ IsFiniteSet(T) /\ Cardinality(S) = Cardinality(T)
<1>1. F \in Injection(S, T) /\ F \in Surjection(S, T)
  BY Fun_IsInj, Fun_IsSurj
<1>2. F \in Bijection(S, T)
  BY <1>1 DEF Bijection
<1>3. CASE IsFiniteSet(S)
  BY <1>2, <1>3, FS_Bijection DEF ExistsBijection
<1>4. CASE IsFiniteSet(T)
  BY <1>1, <1>4, FS_Injection
<1> QED BY <1>3, <1>4

\* A finite set can be numbered
LEMMA Numbered ==
  ASSUME NEW S, IsFiniteSet(S), NEW n, n = Cardinality(S)
  PROVE  \E b \in [S -> 1..n] : /\ \A x, y \in S : b[x] = b[y] => x = y
                                /\ \A i \in 1..n : \E x \in S : b[x] = i
<1>1. ExistsBijection(1..n, S)
  BY FS_CardinalityType
<1>2. ExistsBijection(S, 1..n)
  BY <1>1, Fun_ExistsBijSymmetric
<1> DEFINE N == 1..n
<1> HIDE DEF N
<1>3. PICK b \in Bijection(S, N) : TRUE
  BY <1>2 DEF ExistsBijection, N
<1>4. b \in [S -> 1..n] /\ (\A x, y \in S : b[x] = b[y] => x = y) /\ \A i \in 1..n : \E x \in S : b[x] = i
  <2>1. b \in [S -> N] /\ (\A x, y \in S : b[x] = b[y] => x = y) /\ \A i \in N : \E x \in S : b[x] = i
    BY <1>3, Fun_BijectionProperties
  <2> QED BY <2>1 DEF N
<1> QED BY <1>4

\* A sum, and what it counts
SumOf(F, S) == MapThenSumSet(LAMBDA x : F[x], S)
Heap(F, S) == {z \in S \X Nat : z[2] \in 1..F[z[1]]}

LEMMA PileCounts ==
  ASSUME NEW x, NEW n \in Nat
  PROVE  IsFiniteSet({x} \X (1..n)) /\ Cardinality({x} \X (1..n)) = n
<1> DEFINE S == 1..n
           T == {x} \X S
           F == [i \in S |-> <<x, i>>]
<1>1. IsFiniteSet(S) /\ Cardinality(S) = n
  BY FS_Interval
<1>2. F \in [S -> T] /\ (\A a, b \in S : F[a] = F[b] => a = b) /\ \A t \in T : \E s \in S : F[s] = t
  OBVIOUS
<1> HIDE DEF S, T, F
<1>3. IsFiniteSet(T) /\ Cardinality(S) = Cardinality(T)
  BY <1>1, <1>2, Paired
<1> QED BY <1>1, <1>3 DEF S, T

LEMMA HeapFinite ==
  ASSUME NEW S, IsFiniteSet(S), NEW F, \A x \in S : F[x] \in Nat
  PROVE  IsFiniteSet(Heap(F, S))
<1> DEFINE pile == [x \in S |-> {x} \X (1..F[x])]
           P == {pile[x] : x \in S}
<1>1. pile \in Surjection(S, P)
  BY DEF Surjection
<1>2. \A p \in P : IsFiniteSet(p)
  <2>1. \A x \in S : IsFiniteSet({x} \X (1..F[x]))
    BY PileCounts
  <2> QED BY <2>1
<1> HIDE DEF P
<1>3. IsFiniteSet(P)
  <2> HIDE DEF pile
  <2> QED BY <1>1, FS_Surjection
<1>4. IsFiniteSet(UNION P)
  BY <1>2, <1>3, FS_UNION
<1>5. \A z \in Heap(F, S) : z \in UNION P
  <2>1. TAKE z \in Heap(F, S)
  <2>2. z[1] \in S /\ z[2] \in 1..F[z[1]] /\ z = <<z[1], z[2]>>
    BY DEF Heap
  <2>3. z \in pile[z[1]] /\ pile[z[1]] \in P
    BY <2>2 DEF P
  <2> QED BY <2>3
<1> QED BY <1>4, <1>5, FS_Subset

LEMMA HeapMore ==
  ASSUME NEW S, IsFiniteSet(S), NEW F, \A x \in S : F[x] \in Nat, NEW c \in S
  PROVE  /\ Cardinality(Heap(F, S)) \in Nat /\ Cardinality(Heap(F, S \ {c})) \in Nat
         /\ Cardinality(Heap(F, S)) = F[c] + Cardinality(Heap(F, S \ {c}))
<1> DEFINE A == Heap(F, S \ {c})
           B == {c} \X (1..F[c])
<1>1. IsFiniteSet(S \ {c})
  BY FS_RemoveElement
<1>2. IsFiniteSet(A) /\ IsFiniteSet(Heap(F, S))
  BY <1>1, HeapFinite
<1>3. IsFiniteSet(B) /\ Cardinality(B) = F[c]
  BY PileCounts
<1>4. Heap(F, S) = A \cup B /\ A \cap B = {}
  BY DEF Heap
<1>5. Cardinality(A) \in Nat /\ Cardinality(Heap(F, S)) \in Nat
  BY <1>2, FS_CardinalityType
<1> HIDE DEF A, B
<1>6. Cardinality(A \cup B) = Cardinality(A) + Cardinality(B) - Cardinality(A \cap B)
  BY <1>2, <1>3, FS_Union
<1>7. Cardinality(A \cap B) = 0
  BY <1>4, FS_EmptySet
<1>8. Cardinality(A \cup B) = Cardinality(A) + F[c]
  BY <1>3, <1>5, <1>6, <1>7
<1>9. Cardinality(Heap(F, S)) = F[c] + Cardinality(A)
  BY <1>4, <1>5, <1>8
<1> QED BY <1>5, <1>9 DEF A

LEMMA SumHeap ==
  ASSUME NEW S, IsFiniteSet(S), NEW F, \A x \in S : F[x] \in Nat
  PROVE  SumOf(F, S) = Cardinality(Heap(F, S)) /\ SumOf(F, S) \in Nat
<1> DEFINE c(s) == CHOOSE x \in s : TRUE
           A(g) == g = [s \in SUBSET S |-> IF s = {} THEN 0 ELSE F[c(s)] + g[s \ {c(s)}]]
           G == [s \in SUBSET S |-> Cardinality(Heap(F, s))]
           f == CHOOSE g : A(g)
<1>1. SumOf(F, S) = f[S]
  BY DEF SumOf, MapThenSumSet, MapThenFoldSet
<1>2. \A s \in SUBSET S : s # {} => c(s) \in s
  OBVIOUS
<1> HIDE DEF c
<1>3. \A s \in SUBSET S : G[s] = IF s = {} THEN 0 ELSE F[c(s)] + G[s \ {c(s)}]
  <2>1. TAKE s \in SUBSET S
  <2>2. CASE s = {}
    <3>1. Heap(F, {}) = {}
      BY DEF Heap
    <3> QED BY <2>2, <3>1, FS_EmptySet
  <2>3. CASE s # {}
    <3>1. IsFiniteSet(s)
      BY FS_Subset
    <3>2. Cardinality(Heap(F, s)) = F[c(s)] + Cardinality(Heap(F, s \ {c(s)}))
      BY <1>2, <2>3, <3>1, HeapMore
    <3> QED BY <2>3, <3>2
  <2> QED BY <2>2, <2>3
<1>4. A(G)
  <2> HIDE DEF G
  <2>1. G = [s \in SUBSET S |-> G[s]]
    BY DEF G
  <2>2. [s \in SUBSET S |-> G[s]] = [s \in SUBSET S |-> IF s = {} THEN 0 ELSE F[c(s)] + G[s \ {c(s)}]]
    BY <1>3
  <2> QED BY <2>1, <2>2
<1>5. A(f)
  <2> HIDE DEF A
  <2> QED BY <1>4
<1>6. \A s \in SUBSET S : f[s] = IF s = {} THEN 0 ELSE F[c(s)] + f[s \ {c(s)}]
  <2> HIDE DEF f
  <2> QED BY <1>5
<1> HIDE DEF f
<1>7. \A s \in SUBSET S : IsFiniteSet(s) /\ Cardinality(s) \in Nat
  BY FS_Subset, FS_CardinalityType
<1>8. \A s \in SUBSET S : f[s] = G[s]
  <2> DEFINE N == {Cardinality(s) : s \in {r \in SUBSET S : f[r] # G[r]}}
  <2>1. SUFFICES ASSUME N # {} PROVE FALSE
    OBVIOUS
  <2>2. N \in SUBSET Nat
    BY <1>7
  <2>3. PICK n \in N : \A m \in N : n <= m
    <3> HIDE DEF N
    <3> QED BY <2>1, <2>2, LeastOf
  <2>4. PICK s \in SUBSET S : f[s] # G[s] /\ n = Cardinality(s)
    OBVIOUS
  <2>5. s # {}
    BY <1>3, <1>6, <2>4
  <2> DEFINE r == s \ {c(s)}
  <2>6. r \in SUBSET S /\ c(s) \in s
    BY <1>2, <2>5
  <2>7. Cardinality(r) = Cardinality(s) - 1 /\ Cardinality(s) \in Nat
    BY <1>7, <2>6, FS_RemoveElement
  <2>8. f[r] = G[r]
    <3>1. Cardinality(r) \notin N
      <4>1. n # Cardinality(r) /\ ~(n <= Cardinality(r))
        BY <2>4, <2>7
      <4> HIDE DEF N
      <4> QED BY <2>3, <4>1
    <3> QED BY <2>6, <3>1
  <2> QED BY <1>3, <1>6, <2>4, <2>5, <2>8
<1>9. f[S] = Cardinality(Heap(F, S))
  BY <1>8
<1>10. Cardinality(Heap(F, S)) \in Nat
  BY HeapFinite, FS_CardinalityType
<1> QED BY <1>1, <1>9, <1>10

\* A set sorted by a mark has as many elements as there are under each mark together
LEMMA Fibers ==
  ASSUME NEW S, IsFiniteSet(S), NEW F, \A x \in S : F[x] \in Nat, NEW T, NEW h \in [T -> S],
         \A x \in S : IsFiniteSet({t \in T : h[t] = x}) /\ Cardinality({t \in T : h[t] = x}) = F[x]
  PROVE  IsFiniteSet(T) /\ Cardinality(T) = SumOf(F, S)
<1> DEFINE fiber(x) == {t \in T : h[t] = x}
           P(x, b) == /\ b \in [fiber(x) -> 1..F[x]]
                      /\ \A u, v \in fiber(x) : b[u] = b[v] => u = v
                      /\ \A i \in 1..F[x] : \E u \in fiber(x) : b[u] = i
           B(x) == CHOOSE b : P(x, b)
           H == Heap(F, S)
           M == [t \in T |-> <<h[t], B(h[t])[t]>>]
<1>1. \A x \in S : P(x, B(x))
  <2>1. TAKE x \in S
  <2>2. \E b : P(x, b)
    <3> DEFINE U == fiber(x)
    <3>1. IsFiniteSet(U) /\ Cardinality(U) = F[x]
      OBVIOUS
    <3> HIDE DEF U
    <3>2. \E b \in [U -> 1..F[x]] : /\ \A u, v \in U : b[u] = b[v] => u = v
                                    /\ \A i \in 1..F[x] : \E u \in U : b[u] = i
      BY <3>1, Numbered
    <3> QED BY <3>2 DEF U
  <2> HIDE DEF P
  <2> QED BY <2>2
<1>a. ASSUME NEW x \in S, NEW u \in T, h[u] = x
      PROVE  B(x)[u] \in 1..F[x]
  <2>1. u \in fiber(x) /\ B(x) \in [fiber(x) -> 1..F[x]]
    BY <1>1, <1>a
  <2> HIDE DEF fiber, B
  <2> QED BY <2>1
<1>b. ASSUME NEW x \in S, NEW u \in T, NEW v \in T, h[u] = x, h[v] = x, B(x)[u] = B(x)[v]
      PROVE  u = v
  <2>1. u \in fiber(x) /\ v \in fiber(x) /\ \A y, z \in fiber(x) : B(x)[y] = B(x)[z] => y = z
    BY <1>1, <1>b
  <2> HIDE DEF fiber, B
  <2> QED BY <1>b, <2>1
<1>c. ASSUME NEW x \in S, NEW i \in 1..F[x]
      PROVE  \E u \in T : h[u] = x /\ B(x)[u] = i
  <2>1. \A j \in 1..F[x] : \E u \in fiber(x) : B(x)[u] = j
    BY <1>1
  <2>2. \A u \in fiber(x) : u \in T /\ h[u] = x
    OBVIOUS
  <2> HIDE DEF fiber, B
  <2> QED BY <2>1, <2>2
<1> HIDE DEF B, fiber, P
<1>2. M \in [T -> H]
  <2>1. ASSUME NEW t \in T PROVE <<h[t], B(h[t])[t]>> \in H
    <3>1. h[t] \in S
      OBVIOUS
    <3>2. B(h[t])[t] \in 1..F[h[t]] /\ F[h[t]] \in Nat
      BY <1>a, <3>1
    <3> QED BY <3>1, <3>2 DEF Heap
  <2> QED BY <2>1
<1>3. \A a, b \in T : M[a] = M[b] => a = b
  <2>1. SUFFICES ASSUME NEW a \in T, NEW b \in T, h[a] = h[b], B(h[a])[a] = B(h[b])[b] PROVE a = b
    OBVIOUS
  <2>2. h[a] \in S /\ B(h[a])[a] = B(h[a])[b]
    BY <2>1
  <2> QED BY <1>b, <2>1, <2>2
<1>4. \A z \in H : \E t \in T : M[t] = z
  <2>1. TAKE z \in H
  <2>2. z[1] \in S /\ z[2] \in 1..F[z[1]] /\ z = <<z[1], z[2]>>
    BY DEF Heap
  <2>3. PICK t \in T : h[t] = z[1] /\ B(z[1])[t] = z[2]
    BY <1>c, <2>2
  <2>4. M[t] = <<z[1], z[2]>>
    BY <2>3
  <2> QED BY <2>2, <2>4
<1>5. IsFiniteSet(H)
  BY HeapFinite
<1> HIDE DEF M, H
<1>6. IsFiniteSet(T) /\ Cardinality(T) = Cardinality(H)
  BY <1>2, <1>3, <1>4, <1>5, Paired
<1> QED BY <1>6, SumHeap DEF H

(***************************************************************************)
(* Walks                                                                   *)
(***************************************************************************)
Turned == graph \in [Edge -> Node \X Node]
\* The vertex a walk from s is at after i edges
Stop(f, s, i) == IF i = 0 THEN s ELSE graph[f[i]][2]
IsWalk(f, s, t, n) ==
  /\ f \in [1..n -> Edge]
  /\ \A i \in 1..n : graph[f[i]][1] = Stop(f, s, i - 1)
  /\ Stop(f, s, n) = t

LEMMA WalkIs ==
  ASSUME NEW s, NEW t, NEW n \in Nat, NEW f
  PROVE  f \in Walks(s, t, n) <=> IsWalk(f, s, t, n)
<1>1. CASE n = 0
  <2>1. 1..n = {}
    BY <1>1
  <2> QED BY <1>1, <2>1 DEF Walks, IsWalk, Stop
<1>2. CASE n # 0
  <2>1. ASSUME f \in Walks(s, t, n) PROVE IsWalk(f, s, t, n)
    <3>1. /\ f \in [1..n -> Edge] /\ graph[f[1]][1] = s /\ graph[f[n]][2] = t
          /\ \A i \in 1..(n - 1) : graph[f[i]][2] = graph[f[i + 1]][1]
      BY <1>2, <2>1 DEF Walks
    <3>2. ASSUME NEW i \in 1..n PROVE graph[f[i]][1] = Stop(f, s, i - 1)
      <4>1. CASE i = 1
        BY <3>1, <4>1 DEF Stop
      <4>2. CASE i # 1
        <5>1. i - 1 \in 1..(n - 1) /\ (i - 1) + 1 = i /\ i - 1 # 0
          BY <4>2
        <5> QED BY <3>1, <5>1 DEF Stop
      <4> QED BY <4>1, <4>2
    <3> QED BY <1>2, <3>1, <3>2 DEF IsWalk, Stop
  <2>2. ASSUME IsWalk(f, s, t, n) PROVE f \in Walks(s, t, n)
    <3>1. f \in [1..n -> Edge] /\ (\A i \in 1..n : graph[f[i]][1] = Stop(f, s, i - 1)) /\ graph[f[n]][2] = t
      BY <1>2, <2>2 DEF IsWalk, Stop
    <3>2. graph[f[1]][1] = s
      <4>1. 1 \in 1..n /\ 1 - 1 = 0
        BY <1>2
      <4> QED BY <3>1, <4>1 DEF Stop
    <3>3. \A i \in 1..(n - 1) : graph[f[i]][2] = graph[f[i + 1]][1]
      <4>1. TAKE i \in 1..(n - 1)
      <4>2. i + 1 \in 1..n /\ (i + 1) - 1 = i /\ i # 0
        OBVIOUS
      <4> QED BY <3>1, <4>2 DEF Stop
    <3> QED BY <1>2, <3>1, <3>2, <3>3 DEF Walks
  <2> QED BY <2>1, <2>2
<1> QED BY <1>1, <1>2

LEMMA StopIsNode ==
  ASSUME Turned, NEW s \in Node, NEW t, NEW n \in Nat, NEW f \in Walks(s, t, n), NEW i \in 0..n
  PROVE  Stop(f, s, i) \in Node
<1>1. f \in [1..n -> Edge]
  BY WalkIs DEF IsWalk
<1>2. CASE i = 0 BY <1>2 DEF Stop
<1>3. CASE i # 0
  <2>1. f[i] \in Edge
    BY <1>1, <1>3
  <2> QED BY <1>3, <2>1 DEF Turned, Stop
<1> QED BY <1>2, <1>3

Prefix(f, m) == [i \in 1..m |-> f[i]]
Suffix(f, m, n) == [i \in 1..n |-> f[m + i]]
Joint(f, m, g, n) == [i \in 1..(m + n) |-> IF i <= m THEN f[i] ELSE g[i - m]]

LEMMA Rejoined ==
  ASSUME NEW m \in Nat, NEW n \in Nat, NEW f \in [1..(m + n) -> Edge]
  PROVE  f = Joint(Prefix(f, m), m, Suffix(f, m, n), n)
<1> DEFINE p == Prefix(f, m)
           q == Suffix(f, m, n)
<1>1. \A i \in 1..m : p[i] = f[i]
  BY DEF Prefix
<1>2. \A i \in 1..n : q[i] = f[m + i]
  BY DEF Suffix
<1> HIDE DEF p, q
<1>3. \A i \in 1..(m + n) : f[i] = IF i <= m THEN p[i] ELSE q[i - m]
  <2>1. TAKE i \in 1..(m + n)
  <2>2. CASE i <= m BY <1>1, <2>2
  <2>3. CASE ~(i <= m)
    <3>1. i - m \in 1..n /\ m + (i - m) = i
      BY <2>3
    <3> QED BY <1>2, <2>3, <3>1
  <2> QED BY <2>2, <2>3
<1>4. f = [i \in 1..(m + n) |-> f[i]]
  OBVIOUS
<1>5. [i \in 1..(m + n) |-> f[i]] = [i \in 1..(m + n) |-> IF i <= m THEN p[i] ELSE q[i - m]]
  BY <1>3
<1> QED BY <1>4, <1>5 DEF Joint, p, q

LEMMA Split ==
  ASSUME NEW s, NEW t, NEW m \in Nat, NEW n \in Nat, NEW f \in Walks(s, t, m + n)
  PROVE  /\ Prefix(f, m) \in Walks(s, Stop(f, s, m), m)
         /\ Suffix(f, m, n) \in Walks(Stop(f, s, m), t, n)
         /\ f = Joint(Prefix(f, m), m, Suffix(f, m, n), n)
<1> DEFINE p == Prefix(f, m)
           q == Suffix(f, m, n)
           v == Stop(f, s, m)
<1>1. /\ f \in [1..(m + n) -> Edge]
      /\ \A i \in 1..(m + n) : graph[f[i]][1] = Stop(f, s, i - 1)
      /\ Stop(f, s, m + n) = t
  BY WalkIs DEF IsWalk
<1>2. p \in [1..m -> Edge] /\ \A i \in 1..m : p[i] = f[i]
  BY <1>1 DEF Prefix
<1>3. q \in [1..n -> Edge] /\ \A i \in 1..n : q[i] = f[m + i]
  BY <1>1 DEF Suffix
<1> HIDE DEF p, q
<1>4. \A i \in 0..m : Stop(p, s, i) = Stop(f, s, i)
  BY <1>2 DEF Stop
<1>5. \A i \in 0..n : Stop(q, v, i) = Stop(f, s, m + i)
  <2>1. TAKE i \in 0..n
  <2>2. CASE i = 0
    <3>1. m + i = m
      BY <2>2
    <3> QED BY <2>2, <3>1 DEF Stop
  <2>3. CASE i # 0
    <3>1. i \in 1..n /\ m + i # 0
      BY <2>3
    <3> QED BY <1>3, <2>3, <3>1 DEF Stop
  <2> QED BY <2>2, <2>3
<1> HIDE DEF v
<1>6. \A i \in 1..m : graph[p[i]][1] = Stop(p, s, i - 1)
  <2>1. TAKE i \in 1..m
  <2>2. i \in 1..(m + n) /\ i - 1 \in 0..m
    OBVIOUS
  <2> QED BY <1>1, <1>2, <1>4, <2>2
<1>7. \A i \in 1..n : graph[q[i]][1] = Stop(q, v, i - 1)
  <2>1. TAKE i \in 1..n
  <2>2. m + i \in 1..(m + n) /\ i - 1 \in 0..n /\ (m + i) - 1 = m + (i - 1)
    OBVIOUS
  <2>3. graph[f[m + i]][1] = Stop(f, s, m + (i - 1))
    BY <1>1, <2>2
  <2> QED BY <1>3, <1>5, <2>2, <2>3
<1>8. Stop(p, s, m) = v /\ Stop(q, v, n) = t
  <2>1. m \in 0..m /\ n \in 0..n
    OBVIOUS
  <2> QED BY <1>1, <1>4, <1>5, <2>1 DEF v
<1>9. p \in Walks(s, v, m) /\ q \in Walks(v, t, n)
  BY <1>2, <1>3, <1>6, <1>7, <1>8, WalkIs DEF IsWalk
<1>10. f = Joint(p, m, q, n)
  BY <1>1, Rejoined DEF p, q
<1> QED BY <1>9, <1>10 DEF p, q, v

LEMMA JointIs ==
  ASSUME NEW m \in Nat, NEW n \in Nat, NEW p \in [1..m -> Edge], NEW q \in [1..n -> Edge], NEW f, f = Joint(p, m, q, n)
  PROVE  f \in [1..(m + n) -> Edge] /\ (\A i \in 1..m : f[i] = p[i]) /\ \A i \in 1..n : f[m + i] = q[i]
<1>1. \A i \in 1..(m + n) : (IF i <= m THEN p[i] ELSE q[i - m]) \in Edge
  <2>1. TAKE i \in 1..(m + n)
  <2>2. CASE i <= m BY <2>2
  <2>3. CASE ~(i <= m)
    <3>1. i - m \in 1..n
      BY <2>3
    <3> QED BY <2>3, <3>1
  <2> QED BY <2>2, <2>3
<1>2. f \in [1..(m + n) -> Edge]
  BY <1>1 DEF Joint
<1>3. \A i \in 1..m : f[i] = p[i]
  BY DEF Joint
<1>4. \A i \in 1..n : f[m + i] = q[i]
  <2>1. TAKE i \in 1..n
  <2>2. m + i \in 1..(m + n) /\ ~(m + i <= m) /\ (m + i) - m = i
    OBVIOUS
  <2> QED BY <2>2 DEF Joint
<1> QED BY <1>2, <1>3, <1>4

LEMMA Joined ==
  ASSUME NEW s, NEW v, NEW t, NEW m \in Nat, NEW n \in Nat, NEW p \in Walks(s, v, m), NEW q \in Walks(v, t, n)
  PROVE  /\ Stop(Joint(p, m, q, n), s, m) = v
         /\ Prefix(Joint(p, m, q, n), m) = p /\ Suffix(Joint(p, m, q, n), m, n) = q
<1> DEFINE f == Joint(p, m, q, n)
<1>1. p \in [1..m -> Edge] /\ Stop(p, s, m) = v /\ q \in [1..n -> Edge]
  BY WalkIs DEF IsWalk
<1>2. (\A i \in 1..m : f[i] = p[i]) /\ \A i \in 1..n : f[m + i] = q[i]
  BY <1>1, JointIs
<1> HIDE DEF f
<1>3. Stop(f, s, m) = v
  BY <1>1, <1>2 DEF Stop
<1>4. Prefix(f, m) = p
  BY <1>1, <1>2 DEF Prefix
<1>5. Suffix(f, m, n) = q
  BY <1>1, <1>2 DEF Suffix
<1> QED BY <1>3, <1>4, <1>5 DEF f

LEMMA Join ==
  ASSUME NEW s, NEW v, NEW t, NEW m \in Nat, NEW n \in Nat, NEW p \in Walks(s, v, m), NEW q \in Walks(v, t, n)
  PROVE  Joint(p, m, q, n) \in Walks(s, t, m + n)
<1> DEFINE f == Joint(p, m, q, n)
<1>1. /\ p \in [1..m -> Edge] /\ (\A i \in 1..m : graph[p[i]][1] = Stop(p, s, i - 1)) /\ Stop(p, s, m) = v
      /\ q \in [1..n -> Edge] /\ (\A i \in 1..n : graph[q[i]][1] = Stop(q, v, i - 1)) /\ Stop(q, v, n) = t
  BY WalkIs DEF IsWalk
<1>a. p \in [1..m -> Edge] /\ q \in [1..n -> Edge]
  BY <1>1
<1>2. f \in [1..(m + n) -> Edge] /\ (\A i \in 1..m : f[i] = p[i]) /\ \A i \in 1..n : f[m + i] = q[i]
  BY <1>a, JointIs
<1> HIDE DEF f
<1>3. \A i \in 0..m : Stop(f, s, i) = Stop(p, s, i)
  BY <1>2 DEF Stop
<1>4. \A i \in 0..n : Stop(f, s, m + i) = Stop(q, v, i)
  <2>1. TAKE i \in 0..n
  <2>2. CASE i = 0
    <3>1. m + i = m /\ m \in 0..m
      BY <2>2
    <3> QED BY <1>1, <1>3, <2>2, <3>1 DEF Stop
  <2>3. CASE i # 0
    <3>1. i \in 1..n /\ m + i # 0
      BY <2>3
    <3> QED BY <1>2, <2>3, <3>1 DEF Stop
  <2> QED BY <2>2, <2>3
<1>5. \A i \in 1..(m + n) : graph[f[i]][1] = Stop(f, s, i - 1)
  <2>1. TAKE i \in 1..(m + n)
  <2>2. CASE i <= m
    <3>1. i \in 1..m /\ i - 1 \in 0..m
      BY <2>2
    <3> QED BY <1>1, <1>2, <1>3, <3>1
  <2>3. CASE ~(i <= m)
    <3>1. PICK j \in 1..n : j = i - m
      BY <2>3
    <3>2. i = m + j /\ i - 1 = m + (j - 1) /\ j - 1 \in 0..n
      BY <3>1
    <3>3. f[i] = q[j]
      BY <1>2, <3>2
    <3>4. graph[q[j]][1] = Stop(q, v, j - 1)
      BY <1>1
    <3>5. Stop(f, s, i - 1) = Stop(q, v, j - 1)
      BY <1>4, <3>2
    <3> QED BY <3>3, <3>4, <3>5
  <2> QED BY <2>2, <2>3
<1>6. Stop(f, s, m + n) = t 
  <2>1. n \in 0..n /\ m \in 0..m
    OBVIOUS
  <2> QED BY <1>1, <1>3, <1>4, <2>1
<1>7. IsWalk(f, s, t, m + n)
  BY <1>2, <1>5, <1>6 DEF IsWalk
<1>8. PICK k \in Nat : k = m + n
  OBVIOUS
<1>9. f \in Walks(s, t, k)
  BY <1>7, <1>8, WalkIs
<1> QED BY <1>8, <1>9 DEF f

\* The walks through a vertex at a place are the ways there with the ways on
Via(s, v, t, m, n) == {f \in Walks(s, t, m + n) : Stop(f, s, m) = v}

LEMMA ViaCount ==
  ASSUME NEW s, NEW v, NEW t, NEW m \in Nat, NEW n \in Nat,
         IsFiniteSet(Walks(s, v, m)), IsFiniteSet(Walks(v, t, n))
  PROVE  /\ IsFiniteSet(Via(s, v, t, m, n))
         /\ Cardinality(Via(s, v, t, m, n)) = Cardinality(Walks(s, v, m)) * Cardinality(Walks(v, t, n))
<1>a. \A p \in Walks(s, v, m), q \in Walks(v, t, n) :
        /\ Joint(p, m, q, n) \in Walks(s, t, m + n) /\ Stop(Joint(p, m, q, n), s, m) = v
        /\ Prefix(Joint(p, m, q, n), m) = p /\ Suffix(Joint(p, m, q, n), m, n) = q
  <2>1. TAKE p \in Walks(s, v, m), q \in Walks(v, t, n)
  <2>2. Joint(p, m, q, n) \in Walks(s, t, m + n)
    BY Join
  <2>3. Stop(Joint(p, m, q, n), s, m) = v /\ Prefix(Joint(p, m, q, n), m) = p /\ Suffix(Joint(p, m, q, n), m, n) = q
    BY Joined
  <2> QED BY <2>2, <2>3
<1> DEFINE A == Walks(s, v, m)
           B == Walks(v, t, n)
           C == Via(s, v, t, m, n)
           F == [f \in C |-> <<Prefix(f, m), Suffix(f, m, n)>>]
<1>1. \A f \in C : Prefix(f, m) \in A /\ Suffix(f, m, n) \in B /\ f = Joint(Prefix(f, m), m, Suffix(f, m, n), n)
  BY Split DEF Via
<1>2. \A p \in A, q \in B : /\ Joint(p, m, q, n) \in C
                            /\ Prefix(Joint(p, m, q, n), m) = p /\ Suffix(Joint(p, m, q, n), m, n) = q
  BY <1>a DEF Via
<1> HIDE DEF A, B, C
<1>3. F \in [C -> A \X B]
  BY <1>1
<1>4. \A f, g \in C : F[f] = F[g] => f = g
  BY <1>1
<1>5. \A z \in A \X B : \E f \in C : F[f] = z
  <2>1. TAKE z \in A \X B
  <2>2. z[1] \in A /\ z[2] \in B /\ z = <<z[1], z[2]>>
    OBVIOUS
  <2> DEFINE f == Joint(z[1], m, z[2], n)
  <2>3. f \in C /\ Prefix(f, m) = z[1] /\ Suffix(f, m, n) = z[2]
    BY <1>2, <2>2
  <2> HIDE DEF f
  <2> QED BY <2>2, <2>3
<1>6. IsFiniteSet(A \X B) /\ Cardinality(A \X B) = Cardinality(A) * Cardinality(B)
  BY FS_Product DEF A, B
<1> DEFINE P == A \X B
<1>7. /\ F \in [C -> P] /\ (\A f, g \in C : F[f] = F[g] => f = g)
      /\ (\A z \in P : \E f \in C : F[f] = z) /\ IsFiniteSet(P)
  BY <1>3, <1>4, <1>5, <1>6
<1> HIDE DEF F, P
<1>8. IsFiniteSet(C) /\ Cardinality(C) = Cardinality(P)
  BY <1>7, Paired
<1> QED BY <1>6, <1>8 DEF A, B, C, P

\* A single hop: the edges between the two
LEMMA OneHop ==
  ASSUME Turned, NEW u \in Node, NEW v \in Node
  PROVE  /\ IsFiniteSet(Walks(u, v, 1)) /\ Cardinality(Walks(u, v, 1)) = Hops(u, v)
         /\ Hops(u, v) \in Nat
<1> DEFINE S == {e \in Edge : graph[e] = <<u, v>>}
           F == [e \in S |-> [i \in 1..1 |-> e]]
<1>0. IsFiniteSet(S)
  BY BetweennessAssumption, FS_Subset
<1>1. \A e \in S : [i \in 1..1 |-> e] \in Walks(u, v, 1)
  BY DEF Walks
<1>2. \A f \in Walks(u, v, 1) : f[1] \in S /\ f = [i \in 1..1 |-> f[1]]
  <2>1. TAKE f \in Walks(u, v, 1)
  <2>2. f \in [1..1 -> Edge] /\ graph[f[1]][1] = u /\ graph[f[1]][2] = v
    BY DEF Walks
  <2>3. f[1] \in Edge /\ graph[f[1]] \in Node \X Node
    BY <2>2 DEF Turned
  <2>4. graph[f[1]] = <<u, v>>
    BY <2>2, <2>3
  <2>5. f = [i \in 1..1 |-> f[i]] /\ \A i \in 1..1 : i = 1
    BY <2>2
  <2> QED BY <2>3, <2>4, <2>5
<1>3. F \in [S -> Walks(u, v, 1)]
  BY <1>1
<1>4. \A a, b \in S : F[a] = F[b] => a = b
  <2>1. \A a \in S : F[a][1] = a
    OBVIOUS
  <2> QED BY <2>1
<1>5. \A f \in Walks(u, v, 1) : \E e \in S : F[e] = f
  <2>1. TAKE f \in Walks(u, v, 1)
  <2>2. f[1] \in S /\ F[f[1]] = f
    BY <1>2
  <2> QED BY <2>2
<1> HIDE DEF F, S
<1>6. IsFiniteSet(Walks(u, v, 1)) /\ Cardinality(S) = Cardinality(Walks(u, v, 1))
  BY <1>0, <1>3, <1>4, <1>5, Paired
<1>7. Cardinality(S) \in Nat
  BY <1>0, FS_CardinalityType
<1> QED BY <1>6, <1>7 DEF Hops, S

LEMMA NoHop ==
  ASSUME NEW s, NEW t, NEW f
  PROVE  f \in Walks(s, t, 0) <=> s = t /\ f = [i \in {} |-> 0]
<1>1. 1..0 = {}
  OBVIOUS
<1>2. \A g \in [{} -> Edge] : g = [i \in {} |-> 0]
  OBVIOUS
<1>3. [i \in {} |-> 0] \in [{} -> Edge]
  OBVIOUS
<1> QED BY <1>1, <1>2, <1>3 DEF Walks

LEMMA WalksFinite ==
  ASSUME Turned
  PROVE  \A n \in Nat : \A s, t \in Node : IsFiniteSet(Walks(s, t, n)) /\ Cardinality(Walks(s, t, n)) \in Nat
<1> DEFINE N == {n \in Nat : \E s, t \in Node : ~IsFiniteSet(Walks(s, t, n))}
<1>1. SUFFICES N = {}
  BY FS_CardinalityType
<1>2. SUFFICES ASSUME N # {} PROVE FALSE
  OBVIOUS
<1>3. PICK n \in N : \A m \in N : n <= m
  <2>1. N \in SUBSET Nat
    OBVIOUS
  <2> HIDE DEF N
  <2> QED BY <1>2, <2>1, LeastOf
<1>4. PICK s \in Node, t \in Node : ~IsFiniteSet(Walks(s, t, n))
  OBVIOUS
<1>5. CASE n = 0
  <2>1. Walks(s, t, 0) \subseteq {[i \in {} |-> 0]}
    BY NoHop
  <2> QED BY <1>4, <1>5, <2>1, FS_Singleton, FS_Subset
<1>6. CASE n # 0
  <2>1. PICK m \in Nat : m + 1 = n
    <3>1. n - 1 \in Nat /\ (n - 1) + 1 = n
      BY <1>6
    <3> QED BY <3>1
  <2>2. m \notin N
    <3>1. ~(n <= m)
      BY <2>1
    <3> HIDE DEF N
    <3> QED BY <1>3, <3>1
  <2>3. PICK one \in Nat : one = 1
    OBVIOUS
  <2>4. \A u \in Node : IsFiniteSet(Walks(s, u, m)) /\ IsFiniteSet(Walks(u, t, one))
    BY <2>2, <2>3, OneHop
  <2>5. \A u \in Node : IsFiniteSet(Via(s, u, t, m, one))
    BY <2>4, ViaCount
  <2> DEFINE via == [u \in Node |-> Via(s, u, t, m, one)]
             P == {via[u] : u \in Node}
  <2>6. IsFiniteSet(P)
    <3>1. via \in Surjection(Node, P)
      BY DEF Surjection
    <3> HIDE DEF via, P
    <3> QED BY <3>1, BetweennessAssumption, FS_Surjection
  <2>7. IsFiniteSet(UNION P)
    <3>1. \A p \in P : IsFiniteSet(p)
      BY <2>5
    <3> HIDE DEF P
    <3> QED BY <2>6, <3>1, FS_UNION
  <2>8. \A f \in Walks(s, t, n) : f \in UNION P
    <3>1. TAKE f \in Walks(s, t, n)
    <3>2. m \in 0..n
      BY <2>1
    <3>3. Stop(f, s, m) \in Node
      BY <3>2, StopIsNode
    <3>4. f \in via[Stop(f, s, m)]
      BY <2>1, <2>3, <3>3 DEF Via
    <3> QED BY <3>3, <3>4
  <2> QED BY <1>4, <2>7, <2>8, FS_Subset
<1> QED BY <1>5, <1>6

(***************************************************************************)
(* Distances                                                               *)
(***************************************************************************)
\* The shortest ways from s to v have l edges
Far(s, v, l) == l \in Nat /\ Walks(s, v, l) # {} /\ \A m \in 0..(l - 1) : Walks(s, v, m) = {}

LEMMA FarOne ==
  ASSUME NEW s, NEW v, NEW l, NEW k, Far(s, v, l), Far(s, v, k)
  PROVE  l = k
<1>1. l \in Nat /\ k \in Nat
  BY DEF Far
<1>2. CASE l < k
  <2>1. l \in 0..(k - 1)
    BY <1>1, <1>2
  <2> QED BY <2>1 DEF Far
<1>3. CASE k < l
  <2>1. k \in 0..(l - 1)
    BY <1>1, <1>3
  <2> QED BY <2>1 DEF Far
<1> QED BY <1>1, <1>2, <1>3

LEMMA FarLeast ==
  ASSUME NEW s, NEW v, NEW n \in Nat, Walks(s, v, n) # {}
  PROVE  \E l \in 0..n : Far(s, v, l)
<1> DEFINE S == {m \in Nat : Walks(s, v, m) # {}}
<1>1. S \in SUBSET Nat /\ n \in S
  OBVIOUS
<1>2. \A x \in S : x \in Nat /\ Walks(s, v, x) # {}
  OBVIOUS
<1>3. \A x \in Nat : x \notin S => Walks(s, v, x) = {}
  OBVIOUS
<1> HIDE DEF S
<1>4. PICK l \in S : \A y \in S : l <= y
  BY <1>1, LeastOf
<1>5. l \in 0..n
  BY <1>1, <1>2, <1>4
<1>6. \A m \in 0..(l - 1) : Walks(s, v, m) = {}
  <2>1. TAKE m \in 0..(l - 1)
  <2>2. m \in Nat /\ ~(l <= m)
    BY <1>5
  <2> QED BY <1>3, <1>4, <2>2
<1> QED BY <1>2, <1>5, <1>6 DEF Far

\* Every stop of a shortest way is as far as it stands along it
LEMMA FarStops ==
  ASSUME NEW s, NEW t, NEW l, Far(s, t, l), NEW f \in Walks(s, t, l), NEW i \in 0..l
  PROVE  Far(s, Stop(f, s, i), i)
<1>0. l \in Nat
  BY DEF Far
<1>1. PICK n \in Nat : l = i + n
  <2>1. l - i \in Nat /\ l = i + (l - i)
    BY <1>0
  <2> QED BY <2>1
<1> DEFINE v == Stop(f, s, i)
<1>2. Prefix(f, i) \in Walks(s, v, i) /\ Suffix(f, i, n) \in Walks(v, t, n)
  <2>1. i \in Nat /\ f \in Walks(s, t, i + n)
    BY <1>1
  <2> HIDE <1>1
  <2> QED BY <2>1, Split
<1> HIDE DEF v
<1>3. ASSUME NEW m \in 0..(i - 1), Walks(s, v, m) # {}
      PROVE  FALSE
  <2>1. PICK p \in Walks(s, v, m) : TRUE
    BY <1>3
  <2>a. m \in Nat /\ n \in Nat
    BY <1>1
  <2>b. PICK q \in Walks(v, t, n) : TRUE
    BY <1>2
  <2>2. Joint(p, m, q, n) \in Walks(s, t, m + n)
    BY <2>1, <2>a, <2>b, Join
  <2>3. m + n \in 0..(l - 1)
    BY <1>1
  <2> QED BY <2>2, <2>3 DEF Far
<1> QED BY <1>2, <1>3 DEF Far, v

LEMMA FarHop ==
  ASSUME Turned, NEW s \in Node, NEW t \in Node, NEW l, Far(s, t, l)
  PROVE  l < Cardinality(Node)
<1>0. l \in Nat
  BY DEF Far
<1>1. PICK f \in Walks(s, t, l) : TRUE
  BY DEF Far
<1> DEFINE S == 0..l
           F == [i \in S |-> Stop(f, s, i)]
<1>2. F \in [S -> Node]
  BY <1>0, StopIsNode
<1>3. \A i, j \in S : F[i] = F[j] => i = j
  <2>1. TAKE i \in S, j \in S
  <2>2. Far(s, Stop(f, s, i), i) /\ Far(s, Stop(f, s, j), j)
    BY FarStops
  <2> QED BY <2>2, FarOne
<1>4. IsFiniteSet(S) /\ Cardinality(S) = l + 1
  <2>1. PICK zero \in Int : zero = 0
    OBVIOUS
  <2>2. l \in Int /\ S = zero..l
    BY <1>0, <2>1
  <2>3. IsFiniteSet(zero..l) /\ Cardinality(zero..l) = IF zero > l THEN 0 ELSE l - zero + 1
    BY <2>2, FS_Interval
  <2> QED BY <1>0, <2>1, <2>2, <2>3
<1> HIDE DEF S, F
<1>5. F \in Injection(S, Node)
  BY <1>2, <1>3, Fun_IsInj
<1>6. Cardinality(S) <= Cardinality(Node) /\ Cardinality(Node) \in Nat
  BY <1>5, BetweennessAssumption, FS_Injection, FS_CardinalityType
<1> QED BY <1>0, <1>4, <1>6

LEMMA HopIs ==
  ASSUME Turned, NEW s \in Node, NEW t \in Node, NEW l, Far(s, t, l)
  PROVE  Reachable(s, t) /\ Hop(s, t) = l
<1> DEFINE N == 0..(Cardinality(Node) - 1)
           P(n) == Walks(s, t, n) # {} /\ \A m \in 0..(n - 1) : Walks(s, t, m) = {}
<1>1. Cardinality(Node) \in Nat /\ l \in Nat /\ l < Cardinality(Node)
  BY BetweennessAssumption, FS_CardinalityType, FarHop DEF Far
<1>2. l \in N /\ P(l)
  BY <1>1 DEF Far
<1>3. \A n \in N : P(n) => n = l
  <2>1. \A n \in N : P(n) => Far(s, t, n)
    BY <1>1 DEF Far
  <2> HIDE DEF P
  <2> QED BY <2>1, FarOne
<1>4. Hop(s, t) = CHOOSE n \in N : P(n)
  BY DEF Hop
<1>5. Reachable(s, t)
  BY <1>2 DEF Reachable
<1> HIDE DEF N, P
<1>6. (CHOOSE n \in N : P(n)) = l
  BY <1>2, <1>3
<1> QED BY <1>4, <1>5, <1>6

LEMMA FarIfReachable ==
  ASSUME Turned, NEW s \in Node, NEW t \in Node, Reachable(s, t)
  PROVE  Far(s, t, Hop(s, t))
<1>1. Cardinality(Node) \in Nat
  BY BetweennessAssumption, FS_CardinalityType
<1>2. PICK n \in 0..(Cardinality(Node) - 1) : Walks(s, t, n) # {}
  BY DEF Reachable
<1>3. n \in Nat
  BY <1>1
<1>4. PICK l \in 0..n : Far(s, t, l)
  BY <1>2, <1>3, FarLeast
<1> QED BY <1>4, HopIs

LEMMA SomeWay ==
  ASSUME Turned, NEW s \in Node, NEW t \in Node, NEW l, Far(s, t, l)
  PROVE  Cardinality(Walks(s, t, l)) \in Nat \ {0}
<1>1. l \in Nat /\ Walks(s, t, l) # {}
  BY DEF Far
<1>2. IsFiniteSet(Walks(s, t, l)) /\ Cardinality(Walks(s, t, l)) \in Nat
  BY <1>1, WalksFinite
<1> QED BY <1>1, <1>2, FS_EmptySet

\* The ways one hop beyond the frontier are counted over their last stop but one
LEMMA OneOn ==
  ASSUME Turned, NEW s \in Node, NEW v \in Node, NEW l \in Nat, \A m \in 0..l : Walks(s, v, m) = {},
         NEW F, \A u \in Node : Far(s, u, l) => F[u] = Cardinality(Walks(s, u, l)) * Hops(u, v)
  PROVE  Cardinality(Walks(s, v, l + 1)) = SumOf(F, {u \in Node : Far(s, u, l)})
<1> DEFINE S == {u \in Node : Far(s, u, l)}
           T == Walks(s, v, l + 1)
           h == [f \in T |-> Stop(f, s, l)]
<1>1. PICK one \in Nat : one = 1
  OBVIOUS
<1>2. PICK k \in Nat : k = l + 1
  OBVIOUS
<1>3. ASSUME NEW f \in T
      PROVE  Stop(f, s, l) \in S
  <2>1. Far(s, v, k)
    <3>1. \A m \in 0..(k - 1) : m \in 0..l
      BY <1>2
    <3> QED BY <1>2, <1>3, <3>1 DEF Far
  <2>2. l \in 0..k /\ f \in Walks(s, v, k)
    BY <1>2, <1>3
  <2>3. Far(s, Stop(f, s, l), l)
    BY <2>1, <2>2, FarStops
  <2>4. Stop(f, s, l) \in Node
    BY <2>2, StopIsNode
  <2> QED BY <2>3, <2>4
<1>4. h \in [T -> S]
  BY <1>3
<1>5. ASSUME NEW u \in S
      PROVE  /\ IsFiniteSet({f \in T : h[f] = u}) /\ Cardinality({f \in T : h[f] = u}) = F[u]
             /\ F[u] \in Nat
  <2>1. {f \in T : h[f] = u} = Via(s, u, v, l, one)
    BY <1>1 DEF Via
  <2>2. IsFiniteSet(Walks(s, u, l)) /\ Cardinality(Walks(s, u, l)) \in Nat
    BY WalksFinite
  <2>3. IsFiniteSet(Walks(u, v, one)) /\ Cardinality(Walks(u, v, one)) = Hops(u, v) /\ Hops(u, v) \in Nat
    BY <1>1, OneHop
  <2>4. /\ IsFiniteSet(Via(s, u, v, l, one))
        /\ Cardinality(Via(s, u, v, l, one)) = Cardinality(Walks(s, u, l)) * Cardinality(Walks(u, v, one))
    BY <2>2, <2>3, ViaCount
  <2>5. F[u] = Cardinality(Walks(s, u, l)) * Hops(u, v)
    OBVIOUS
  <2>6. F[u] \in Nat
    BY <2>2, <2>3, <2>5
  <2>7. Cardinality(Via(s, u, v, l, one)) = F[u]
    BY <2>3, <2>4, <2>5
  <2> QED BY <2>1, <2>4, <2>6, <2>7
<1>6. IsFiniteSet(S)
  BY BetweennessAssumption, FS_Subset
<1>8. /\ \A u \in S : F[u] \in Nat
      /\ \A u \in S : IsFiniteSet({f \in T : h[f] = u}) /\ Cardinality({f \in T : h[f] = u}) = F[u]
  BY <1>5
<1> HIDE DEF S, T, h
<1>7. Cardinality(T) = SumOf(F, S)
  BY <1>4, <1>6, <1>8, Fibers
<1> QED BY <1>7 DEF S, T

\* A sum over a set that holds no element twice is told by the terms alone
LEMMA SumAgree ==
  ASSUME NEW S, IsFiniteSet(S), NEW F, NEW G, \A x \in S : F[x] \in Nat /\ F[x] = G[x]
  PROVE  SumOf(F, S) = SumOf(G, S)
<1>1. Heap(F, S) = Heap(G, S)
  BY DEF Heap
<1> QED BY <1>1, SumHeap

OnwardSum(l, s, v, S) == MapThenSumSet(LAMBDA u : state[<<l, s, u, Sigma>>] * Hops(u, v), S)

LEMMA OnwardIs ==
  ASSUME NEW l, NEW s, NEW v, NEW S, NEW F, \A u \in S : F[u] = state[<<l, s, u, Sigma>>] * Hops(u, v)
  PROVE  OnwardSum(l, s, v, S) = SumOf(F, S)
<1> DEFINE c(r) == CHOOSE u \in r : TRUE
           A(g) == g = [r \in SUBSET S |-> IF r = {} THEN 0 ELSE F[c(r)] + g[r \ {c(r)}]]
           B(g) == g = [r \in SUBSET S |-> IF r = {} THEN 0 ELSE state[<<l, s, c(r), Sigma>>] * Hops(c(r), v) + g[r \ {c(r)}]]
<1>1. SumOf(F, S) = (CHOOSE g : A(g))[S]
  BY DEF SumOf, MapThenSumSet, MapThenFoldSet
<1>2. OnwardSum(l, s, v, S) = (CHOOSE g : B(g))[S]
  BY DEF OnwardSum, MapThenSumSet, MapThenFoldSet
<1>3. \A r \in SUBSET S : r # {} => c(r) \in S
  <2>1. \A r : r # {} => c(r) \in r
    OBVIOUS
  <2> HIDE DEF c
  <2> QED BY <2>1
<1>4. ASSUME NEW g
      PROVE  A(g) <=> B(g)
  <2> HIDE DEF c
  <2>1. \A r \in SUBSET S : r # {} => F[c(r)] = state[<<l, s, c(r), Sigma>>] * Hops(c(r), v)
    BY <1>3
  <2>2. [r \in SUBSET S |-> IF r = {} THEN 0 ELSE F[c(r)] + g[r \ {c(r)}]]
        = [r \in SUBSET S |-> IF r = {} THEN 0 ELSE state[<<l, s, c(r), Sigma>>] * Hops(c(r), v) + g[r \ {c(r)}]]
    BY <2>1
  <2> QED BY <2>2
<1>5. (CHOOSE g : A(g)) = (CHOOSE g : B(g))
  <2> HIDE DEF A, B
  <2> QED BY <1>4
<1> QED BY <1>1, <1>2, <1>5

(***************************************************************************)
(* The paths counted                                                       *)
(***************************************************************************)
\* The rows of the forward walk: each pair in the round of its distance
Front(m) == {k \in (0..m) \X Node \X Node \X {Sigma} : Far(k[2], k[3], k[1])}
Counted == \A k \in Front(maxLevel) : state[k] = Cardinality(Walks(k[2], k[3], k[1]))

LEMMA InFront ==
  ASSUME NEW m \in Nat, NEW l, NEW s \in Node, NEW v \in Node
  PROVE  <<l, s, v, Sigma>> \in Front(m) <=> l \in 0..m /\ Far(s, v, l)
BY DEF Front

LEMMA FoundIs ==
  ASSUME Turned, level = maxLevel, level \in Nat, DOMAIN state = Front(maxLevel), Counted
  PROVE  /\ \A s, v \in Node : <<level + 1, s, v, Sigma>> \in Found <=> Far(s, v, level + 1)
         /\ \A k \in Found : /\ k = <<level + 1, k[2], k[3], Sigma>> /\ k[2] \in Node /\ k[3] \in Node
                             /\ Onward(k[2], k[3]) = Cardinality(Walks(k[2], k[3], level + 1))
<1>1. ASSUME NEW s \in Node, NEW v \in Node
      PROVE  Reached(s, v) <=> \E m \in 0..level : Walks(s, v, m) # {}
  <2>1. Reached(s, v) <=> \E l \in 0..level : Far(s, v, l)
    BY InFront DEF Reached, At
  <2>2. ASSUME NEW m \in 0..level, Walks(s, v, m) # {}
        PROVE  \E l \in 0..level : Far(s, v, l)
    <3>1. PICK l \in 0..m : Far(s, v, l)
      BY <2>2, FarLeast
    <3>2. l \in 0..level
      OBVIOUS
    <3> QED BY <3>1, <3>2
  <2>3. \A l \in 0..level : Far(s, v, l) => Walks(s, v, l) # {}
    BY DEF Far
  <2> QED BY <2>1, <2>2, <2>3
<1>2. ASSUME NEW s \in Node, NEW v \in Node, ~Reached(s, v)
      PROVE  Onward(s, v) = Cardinality(Walks(s, v, level + 1))
  <2> DEFINE S == {u \in Node : At(level, s, u, Sigma)}
             R == {u \in Node : Far(s, u, level)}
             F == [u \in Node |-> state[<<level, s, u, Sigma>>] * Hops(u, v)]
  <2>1. S = R
    <3>1. \A u \in Node : At(level, s, u, Sigma) <=> Far(s, u, level)
      BY InFront DEF At
    <3> QED BY <3>1
  <2>2. \A u \in Node : Far(s, u, level) => F[u] = Cardinality(Walks(s, u, level)) * Hops(u, v)
    <3>1. TAKE u \in Node
    <3>2. HAVE Far(s, u, level)
    <3>3. <<level, s, u, Sigma>> \in Front(maxLevel)
      BY <3>2, InFront
    <3>4. state[<<level, s, u, Sigma>>] = Cardinality(Walks(s, u, level))
      BY <3>3 DEF Counted
    <3> QED BY <3>4
  <2>3. \A m \in 0..level : Walks(s, v, m) = {}
    BY <1>1, <1>2
  <2>4. \A u \in S : F[u] = state[<<level, s, u, Sigma>>] * Hops(u, v)
    OBVIOUS
  <2>5. Onward(s, v) = OnwardSum(level, s, v, S)
    BY DEF Onward, OnwardSum
  <2> HIDE DEF S, F
  <2>6. OnwardSum(level, s, v, S) = SumOf(F, S)
    BY <2>4, OnwardIs
  <2>7. Cardinality(Walks(s, v, level + 1)) = SumOf(F, R)
    BY <2>2, <2>3, OneOn
  <2> QED BY <2>1, <2>5, <2>6, <2>7
<1>3. \A k : k \in Found <=> \E s, v \in Node : k = <<level + 1, s, v, Sigma>> /\ Onward(s, v) > 0 /\ ~Reached(s, v)
  <2> DEFINE Q == {q \in Node \X Node : Onward(q[1], q[2]) > 0 /\ ~Reached(q[1], q[2])}
  <2>1. \A k : k \in Found <=> \E p \in Q : k = <<level + 1, p[1], p[2], Sigma>>
    BY DEF Found
  <2>2. \A p \in Q : p[1] \in Node /\ p[2] \in Node /\ Onward(p[1], p[2]) > 0 /\ ~Reached(p[1], p[2])
    OBVIOUS
  <2>3. \A s, v \in Node : Onward(s, v) > 0 /\ ~Reached(s, v) => <<s, v>> \in Q
    OBVIOUS
  <2> HIDE DEF Q
  <2>4. \A s, v : <<s, v>>[1] = s /\ <<s, v>>[2] = v
    OBVIOUS
  <2>5. ASSUME NEW k, k \in Found
        PROVE  \E s, v \in Node : k = <<level + 1, s, v, Sigma>> /\ Onward(s, v) > 0 /\ ~Reached(s, v)
    <3>1. PICK p \in Q : k = <<level + 1, p[1], p[2], Sigma>>
      BY <2>1, <2>5
    <3> QED BY <2>2, <3>1
  <2>6. ASSUME NEW s \in Node, NEW v \in Node, Onward(s, v) > 0, ~Reached(s, v)
        PROVE  <<level + 1, s, v, Sigma>> \in Found
    <3>1. <<s, v>> \in Q /\ <<s, v>>[1] = s /\ <<s, v>>[2] = v
      BY <2>3, <2>6
    <3> QED BY <2>1, <3>1
  <2> QED BY <2>5, <2>6
<1>4. ASSUME NEW s \in Node, NEW v \in Node
      PROVE  <<level + 1, s, v, Sigma>> \in Found <=> Far(s, v, level + 1)
  <2>1. <<level + 1, s, v, Sigma>> \in Found <=> Onward(s, v) > 0 /\ ~Reached(s, v)
    BY <1>3
  <2>2. \A m \in 0..((level + 1) - 1) : m \in 0..level
    OBVIOUS
  <2>3. ASSUME Onward(s, v) > 0, ~Reached(s, v)
        PROVE  Far(s, v, level + 1)
    <3>1. Cardinality(Walks(s, v, level + 1)) > 0
      BY <1>2, <2>3
    <3>2. Walks(s, v, level + 1) # {}
      BY <3>1, FS_EmptySet
    <3>3. level + 1 \in Nat
      OBVIOUS
    <3> QED BY <1>1, <2>2, <2>3, <3>2, <3>3 DEF Far
  <2>4. ASSUME Far(s, v, level + 1)
        PROVE  Onward(s, v) > 0 /\ ~Reached(s, v)
    <3>1. ~Reached(s, v)
      <4>1. \A m \in 0..level : m \in 0..((level + 1) - 1)
        OBVIOUS
      <4> QED BY <1>1, <2>4, <4>1 DEF Far
    <3>2. Cardinality(Walks(s, v, level + 1)) \in Nat \ {0}
      BY <2>4, SomeWay
    <3> QED BY <1>2, <3>1, <3>2
  <2> QED BY <2>1, <2>3, <2>4
<1>5. ASSUME NEW k \in Found
      PROVE  /\ k = <<level + 1, k[2], k[3], Sigma>> /\ k[2] \in Node /\ k[3] \in Node
             /\ Onward(k[2], k[3]) = Cardinality(Walks(k[2], k[3], level + 1))
  <2>1. PICK s \in Node, v \in Node : k = <<level + 1, s, v, Sigma>> /\ Onward(s, v) > 0 /\ ~Reached(s, v)
    BY <1>3
  <2>2. Onward(s, v) = Cardinality(Walks(s, v, level + 1))
    BY <1>2, <2>1
  <2> QED BY <2>1, <2>2
<1> QED BY <1>4, <1>5

\* No pair is farther apart than the last level
Farthest == \A s, v \in Node, l \in Nat : Far(s, v, l) => l <= maxLevel
\* The rows of the backward walk, from a level up
Rear(d) == {k \in (0..maxLevel) \X Node \X Node \X {Delta} : k[1] >= d /\ Far(k[2], k[3], k[1])}
Scores == {<<maxLevel + 1, 0, v, Sigma>> : v \in Node}

RowsInv ==
  /\ Turned
  /\ level \in Nat /\ maxLevel \in Nat /\ level <= maxLevel
  /\ phase \in {"seed", "forward", "backward", "total", "done"}
  /\ phase = "seed" => level = 0 /\ maxLevel = 0 /\ DOMAIN state = {}
  /\ phase # "seed" => Counted
  /\ phase = "forward" => level = maxLevel /\ DOMAIN state = Front(maxLevel)
  /\ phase \in {"backward", "total", "done"} => Farthest
  /\ phase = "backward" => DOMAIN state = Front(maxLevel) \cup Rear(level + 1)
  /\ phase = "total" => DOMAIN state = Front(maxLevel) \cup Rear(0)
  /\ phase = "done" => DOMAIN state = Front(maxLevel) \cup Rear(0) \cup Scores

LEMMA SameWays ==
  ASSUME graph' = graph
  PROVE  /\ \A s, t, n : Walks(s, t, n)' = Walks(s, t, n)
         /\ \A s, t, n : Far(s, t, n)' <=> Far(s, t, n)
         /\ Turned' <=> Turned
<1>1. \A s, t, n : Walks(s, t, n)' = Walks(s, t, n)
  BY DEF Walks
<1>2. \A s, t, n : Far(s, t, n)' <=> Far(s, t, n)
  BY <1>1 DEF Far
<1>3. Turned' <=> Turned
  BY DEF Turned
<1> QED BY <1>1, <1>2, <1>3

LEMMA SameRows ==
  ASSUME graph' = graph
  PROVE  /\ Front(maxLevel)' = Front(maxLevel')
         /\ Farthest' <=> \A s, v \in Node, l \in Nat : Far(s, v, l) => l <= maxLevel'
         /\ Counted' <=> \A k \in Front(maxLevel') : state'[k] = Cardinality(Walks(k[2], k[3], k[1]))
<1>1. Front(maxLevel)' = Front(maxLevel')
  BY SameWays DEF Front
<1>2. Farthest' <=> \A s, v \in Node, l \in Nat : Far(s, v, l) => l <= maxLevel'
  BY SameWays DEF Farthest
<1>3. Counted' <=> \A k \in Front(maxLevel)' : state'[k] = Cardinality(Walks(k[2], k[3], k[1])')
  BY DEF Counted
<1>4. Counted' <=> \A k \in Front(maxLevel') : state'[k] = Cardinality(Walks(k[2], k[3], k[1]))
  BY <1>1, <1>3, SameWays
<1> QED BY <1>1, <1>2, <1>4

LEMMA RowsInit == Init => RowsInv
<1> SUFFICES ASSUME Init PROVE RowsInv
  OBVIOUS
<1>1. Turned
  BY BetweennessAssumption DEF Init, Turned
<1> QED BY <1>1 DEF Init, RowsInv

LEMMA AtHome ==
  ASSUME NEW s \in Node, NEW v \in Node
  PROVE  /\ Far(s, v, 0) <=> s = v
         /\ s = v => Cardinality(Walks(s, v, 0)) = 1
<1>1. 0..(0 - 1) = {}
  OBVIOUS
<1>2. Far(s, v, 0) <=> s = v
  BY <1>1, NoHop DEF Far
<1>3. ASSUME s = v
      PROVE  Cardinality(Walks(s, v, 0)) = 1
  <2>1. Walks(s, v, 0) = {[i \in {} |-> 0]}
    BY <1>3, NoHop
  <2> QED BY <2>1, FS_Singleton
<1> QED BY <1>2, <1>3

LEMMA RowsSeed ==
  ASSUME RowsInv, Seed
  PROVE  RowsInv'
<1>1. /\ phase = "seed" /\ phase' = "forward" /\ graph' = graph
      /\ level = 0 /\ level' = 0 /\ maxLevel = 0 /\ maxLevel' = 0
      /\ state' = [k \in {<<0, v, v, Sigma>> : v \in Node} |-> 1]
  BY DEF RowsInv, Seed
<1>2. DOMAIN state' = Front(0)
  <2>1. ASSUME NEW k \in Front(0)
        PROVE  \E v \in Node : k = <<0, v, v, Sigma>>
    <3>1. k[1] \in 0..0 /\ k[2] \in Node /\ k[3] \in Node /\ k = <<k[1], k[2], k[3], Sigma>> /\ Far(k[2], k[3], k[1])
      BY DEF Front
    <3>2. k[1] = 0
      BY <3>1
    <3>3. k[2] = k[3]
      BY <3>1, <3>2, AtHome
    <3> QED BY <3>1, <3>2, <3>3
  <2>2. ASSUME NEW v \in Node
        PROVE  <<0, v, v, Sigma>> \in Front(0)
    <3>1. Far(v, v, 0)
      BY AtHome
    <3> QED BY <3>1 DEF Front
  <2>3. DOMAIN state' = {<<0, v, v, Sigma>> : v \in Node}
    BY <1>1
  <2> QED BY <2>1, <2>2, <2>3
<1>3. ASSUME NEW k \in Front(0)
      PROVE  state'[k] = Cardinality(Walks(k[2], k[3], k[1]))
  <2>1. k[1] \in 0..0 /\ k[2] \in Node /\ k[3] \in Node /\ Far(k[2], k[3], k[1])
    BY DEF Front
  <2>2. k[1] = 0
    BY <2>1
  <2>3. Cardinality(Walks(k[2], k[3], 0)) = 1
    BY <2>1, <2>2, AtHome
  <2>4. state'[k] = 1
    BY <1>1, <1>2
  <2> QED BY <2>2, <2>3, <2>4
<1>4. Counted' /\ Front(maxLevel)' = Front(0) /\ Turned'
  <2>1. Turned
    BY DEF RowsInv
  <2>2. Turned'
    BY <1>1, <2>1, SameWays
  <2>3. Front(maxLevel)' = Front(maxLevel')
    BY <1>1, SameRows
  <2>4. \A k \in Front(maxLevel') : state'[k] = Cardinality(Walks(k[2], k[3], k[1]))
    BY <1>1, <1>3
  <2>5. Counted'
    BY <1>1, <2>4, SameRows
  <2> QED BY <1>1, <2>2, <2>3, <2>5
<1> QED BY <1>1, <1>2, <1>4 DEF RowsInv

LEMMA RowsForward ==
  ASSUME RowsInv, Forward
  PROVE  RowsInv'
<1>1. /\ phase = "forward" /\ phase' = "forward" /\ graph' = graph
      /\ level = maxLevel /\ level' = level + 1 /\ maxLevel' = level + 1 /\ level \in Nat
      /\ DOMAIN state = Front(maxLevel) /\ Counted /\ Turned
      /\ state' = Add(state, [k \in Found |-> Onward(k[2], k[3])])
  BY DEF RowsInv, Forward
<1>2. DOMAIN state' = Front(level) \cup Found
  BY <1>1 DEF Add
<1>3. /\ \A s, v \in Node : <<level + 1, s, v, Sigma>> \in Found <=> Far(s, v, level + 1)
      /\ \A k \in Found : /\ k = <<level + 1, k[2], k[3], Sigma>> /\ k[2] \in Node /\ k[3] \in Node
                          /\ Onward(k[2], k[3]) = Cardinality(Walks(k[2], k[3], level + 1))
  BY <1>1, FoundIs
<1>4. ASSUME NEW k
      PROVE  k \in Front(level + 1) <=> k \in Front(level) \/ k \in Found
  <2>1. ASSUME k \in Front(level + 1), k \notin Front(level)
        PROVE  k \in Found
    <3>1. k[1] \in 0..(level + 1) /\ k[2] \in Node /\ k[3] \in Node /\ k = <<k[1], k[2], k[3], Sigma>> /\ Far(k[2], k[3], k[1])
      BY <2>1 DEF Front
    <3>2. k[1] \notin 0..level
      BY <2>1, <3>1 DEF Front
    <3>3. k[1] = level + 1
      BY <1>1, <3>1, <3>2
    <3> QED BY <1>3, <3>1, <3>3
  <2>2. ASSUME k \in Front(level)
        PROVE  k \in Front(level + 1)
    <3>1. 0..level \subseteq 0..(level + 1)
      BY <1>1
    <3> QED BY <2>2, <3>1 DEF Front
  <2>3. ASSUME k \in Found
        PROVE  k \in Front(level + 1)
    <3>1. k = <<level + 1, k[2], k[3], Sigma>> /\ k[2] \in Node /\ k[3] \in Node
      BY <1>3, <2>3
    <3>2. Far(k[2], k[3], level + 1)
      BY <1>3, <2>3, <3>1
    <3>3. level + 1 \in 0..(level + 1)
      BY <1>1
    <3> QED BY <3>1, <3>2, <3>3 DEF Front
  <2> QED BY <2>1, <2>2, <2>3
<1>5. ASSUME NEW k \in Front(level + 1)
      PROVE  state'[k] = Cardinality(Walks(k[2], k[3], k[1]))
  <2>1. CASE k \in Found
    <3>1. state'[k] = Onward(k[2], k[3])
      BY <1>1, <2>1 DEF Add
    <3>2. k = <<level + 1, k[2], k[3], Sigma>> /\ Onward(k[2], k[3]) = Cardinality(Walks(k[2], k[3], level + 1))
      BY <1>3, <2>1
    <3>3. k[1] = level + 1
      BY <3>2
    <3> QED BY <3>1, <3>2, <3>3
  <2>2. CASE k \notin Found
    <3>1. k \in Front(level)
      BY <1>4, <2>2
    <3>2. state'[k] = state[k]
      BY <1>1, <2>2, <3>1 DEF Add
    <3> QED BY <1>1, <3>1, <3>2 DEF Counted
  <2> QED BY <2>1, <2>2
<1>6. Front(maxLevel)' = Front(level + 1) /\ Turned'
  BY <1>1, SameRows, SameWays
<1>7. Counted'
  BY <1>1, <1>5, SameRows
<1>8. DOMAIN state' = Front(maxLevel)'
  BY <1>2, <1>4, <1>6
<1>9. level' = maxLevel' /\ level' \in Nat
  BY <1>1
<1> QED BY <1>1, <1>6, <1>7, <1>8, <1>9 DEF RowsInv

LEMMA RowsTurn ==
  ASSUME RowsInv, Turn
  PROVE  RowsInv'
<1>1. /\ phase = "forward" /\ phase' = "backward" /\ graph' = graph /\ state' = state
      /\ level = maxLevel /\ level' = maxLevel /\ maxLevel' = maxLevel /\ level \in Nat
      /\ DOMAIN state = Front(maxLevel) /\ Counted /\ Turned
      /\ level = Cardinality(Node) \/ Found = {}
  BY DEF RowsInv, Turn
<1>2. ASSUME NEW s \in Node, NEW v \in Node, NEW l \in Nat, Far(s, v, l), ~(l <= maxLevel)
      PROVE  FALSE
  <2>1. l < Cardinality(Node) /\ Cardinality(Node) \in Nat
    BY <1>1, <1>2, FarHop, BetweennessAssumption, FS_CardinalityType
  <2>2. Found = {}
    BY <1>1, <1>2, <2>1
  <2>3. PICK f \in Walks(s, v, l) : TRUE
    BY <1>2 DEF Far
  <2>4. PICK i \in 0..l : i = level + 1
    BY <1>1, <1>2
  <2>5. Far(s, Stop(f, s, i), i) /\ Stop(f, s, i) \in Node
    BY <1>1, <1>2, FarStops, StopIsNode
  <2>6. Far(s, Stop(f, s, i), level + 1)
    BY <2>4, <2>5
  <2>7. \A u \in Node : <<level + 1, s, u, Sigma>> \in Found <=> Far(s, u, level + 1)
    BY <1>1, FoundIs
  <2> QED BY <2>2, <2>5, <2>6, <2>7
<1>3. Farthest'
  BY <1>1, <1>2, SameRows
<1>4. Front(maxLevel)' = Front(maxLevel) /\ Turned' /\ Counted'
  <2>1. \A k \in Front(maxLevel') : state'[k] = Cardinality(Walks(k[2], k[3], k[1]))
    BY <1>1 DEF Counted
  <2> QED BY <1>1, <2>1, SameRows, SameWays
<1>5. Rear(level + 1)' = {}
  <2>1. \A l \in 0..maxLevel' : ~(l >= level' + 1)
    BY <1>1
  <2> QED BY <2>1 DEF Rear
<1> QED BY <1>1, <1>3, <1>4, <1>5 DEF RowsInv

\* The rows a statement of the backward walk writes
Layer == {<<level, p[1], p[2], Delta>> : p \in {p \in Node \X Node : At(level, p[1], p[2], Sigma)}}

LEMMA SigmaRows ==
  ASSUME RowsInv, phase \in {"backward", "total", "done"}, NEW l, NEW s \in Node, NEW v \in Node
  PROVE  At(l, s, v, Sigma) <=> Far(s, v, l)
<1>1. \A d : <<l, s, v, Sigma>> \notin Rear(d)
  BY DEF Rear, Sigma, Delta
<1>2. <<l, s, v, Sigma>> \notin Scores
  <2>1. s # 0
    BY BetweennessAssumption
  <2> QED BY <2>1 DEF Scores
<1>3. At(l, s, v, Sigma) <=> <<l, s, v, Sigma>> \in Front(maxLevel)
  BY <1>1, <1>2 DEF RowsInv, At
<1>4. <<l, s, v, Sigma>> \in Front(maxLevel) <=> l \in 0..maxLevel /\ Far(s, v, l)
  BY InFront DEF RowsInv
<1>5. Far(s, v, l) => l \in 0..maxLevel
  <2>1. Far(s, v, l) => l \in Nat
    BY DEF Far
  <2> QED BY <2>1 DEF RowsInv, Farthest
<1> QED BY <1>3, <1>4, <1>5

LEMMA LayerIs ==
  ASSUME RowsInv, phase = "backward"
  PROVE  \A k : k \in Layer <=> k \in Rear(level) /\ k[1] = level
<1>1. ASSUME NEW k \in Layer
      PROVE  k \in Rear(level) /\ k[1] = level
  <2>1. PICK p \in Node \X Node : At(level, p[1], p[2], Sigma) /\ k = <<level, p[1], p[2], Delta>>
    BY DEF Layer
  <2>2. Far(p[1], p[2], level)
    BY <2>1, SigmaRows
  <2>3. level \in 0..maxLevel
    BY DEF RowsInv
  <2> QED BY <2>1, <2>2, <2>3 DEF Rear
<1>2. ASSUME NEW k \in Rear(level), k[1] = level
      PROVE  k \in Layer
  <2>1. k = <<level, k[2], k[3], Delta>> /\ k[2] \in Node /\ k[3] \in Node /\ Far(k[2], k[3], level)
    BY <1>2 DEF Rear
  <2>2. At(level, k[2], k[3], Sigma)
    BY <2>1, SigmaRows
  <2> DEFINE p == <<k[2], k[3]>>
  <2>3. p \in Node \X Node /\ p[1] = k[2] /\ p[2] = k[3]
    BY <2>1
  <2>4. At(level, p[1], p[2], Sigma) /\ k = <<level, p[1], p[2], Delta>>
    BY <2>1, <2>2, <2>3
  <2> HIDE DEF p
  <2> QED BY <2>3, <2>4 DEF Layer
<1> QED BY <1>1, <1>2

LEMMA RowsBackward ==
  ASSUME RowsInv, Backward
  PROVE  RowsInv' /\ state' = Add(state, [k \in Layer |-> Carried(k[2], k[3])])
<1>1. /\ phase = "backward" /\ graph' = graph /\ maxLevel' = maxLevel /\ maxLevel \in Nat
      /\ level \in Nat /\ level <= maxLevel
      /\ DOMAIN state = Front(maxLevel) \cup Rear(level + 1) /\ Counted /\ Turned /\ Farthest
      /\ \/ level = 0 /\ level' = 0 /\ phase' = "total"
         \/ level # 0 /\ level' = level - 1 /\ phase' = "backward"
  BY DEF RowsInv, Backward
<1>2. state' = Add(state, [k \in Layer |-> Carried(k[2], k[3])])
  BY DEF Backward, Layer
<1>3. ASSUME NEW k
      PROVE  k \in Rear(level) <=> k \in Rear(level + 1) \/ k \in Layer
  <2>1. k \in Rear(level) => k[1] \in Nat
    BY DEF Rear
  <2>2. k \in Rear(level + 1) => k[1] \in Nat
    BY DEF Rear
  <2>3. k \in Rear(level) /\ k[1] # level => k \in Rear(level + 1)
    BY <1>1, <2>1 DEF Rear
  <2>4. k \in Rear(level + 1) => k \in Rear(level)
    BY <1>1, <2>2 DEF Rear
  <2> QED BY <1>1, <2>3, <2>4, LayerIs
<1>4. DOMAIN state' = Front(maxLevel) \cup Rear(level)
  <2>1. DOMAIN state' = DOMAIN state \cup Layer
    BY <1>2 DEF Add
  <2> QED BY <1>1, <1>3, <2>1
<1>5. \A k \in Front(maxLevel) : k \in DOMAIN state /\ k \notin Layer
  <2>1. \A k \in Front(maxLevel) : k[4] = Sigma
    BY DEF Front
  <2>2. \A k \in Layer : k[4] = Delta
    BY DEF Layer
  <2> QED BY <1>1, <2>1, <2>2 DEF Sigma, Delta
<1>6. \A k \in Front(maxLevel) : state'[k] = state[k]
  BY <1>2, <1>5 DEF Add
<1>7. Front(maxLevel)' = Front(maxLevel) /\ Turned' /\ Counted' /\ Farthest'
  <2>1. \A k \in Front(maxLevel') : state'[k] = Cardinality(Walks(k[2], k[3], k[1]))
    BY <1>1, <1>6 DEF Counted
  <2>2. \A s, v \in Node, l \in Nat : Far(s, v, l) => l <= maxLevel'
    BY <1>1 DEF Farthest
  <2> QED BY <1>1, <2>1, <2>2, SameRows, SameWays
<1>8. \A d : {k \in (0..maxLevel') \X Node \X Node \X {Delta} : k[1] >= d /\ Far(k[2], k[3], k[1])'} = Rear(d)
  BY <1>1, SameWays DEF Rear
<1>9. CASE level = 0
  <2>1. level' = 0 /\ phase' = "total"
    BY <1>1, <1>9
  <2>2. Rear(0)' = Rear(0)
    BY <1>8 DEF Rear
  <2>3. DOMAIN state' = Front(maxLevel)' \cup Rear(0)'
    BY <1>4, <1>7, <1>9, <2>2
  <2> QED BY <1>1, <1>2, <1>7, <2>1, <2>3 DEF RowsInv
<1>10. CASE level # 0
  <2>1. level' = level - 1 /\ phase' = "backward" /\ level' + 1 = level /\ level' \in Nat /\ level' <= maxLevel'
    BY <1>1, <1>10
  <2>2. Rear(level + 1)' = Rear(level)
    BY <1>8, <2>1 DEF Rear
  <2>3. DOMAIN state' = Front(maxLevel)' \cup Rear(level + 1)'
    BY <1>4, <1>7, <2>2
  <2> QED BY <1>1, <1>2, <1>7, <2>1, <2>3 DEF RowsInv
<1> QED BY <1>9, <1>10

LEMMA RowsTotal ==
  ASSUME RowsInv, Total
  PROVE  RowsInv'
<1>1. /\ phase = "total" /\ phase' = "done" /\ graph' = graph /\ level' = level /\ maxLevel' = maxLevel
      /\ DOMAIN state = Front(maxLevel) \cup Rear(0) /\ Counted /\ Turned /\ Farthest
  BY DEF RowsInv, Total
<1>2. DOMAIN state' = Front(maxLevel) \cup Rear(0) \cup Scores
  BY <1>1 DEF Total, Add, Scores
<1>3. \A k \in Front(maxLevel) : state'[k] = state[k]
  <2>1. \A k \in Front(maxLevel) : k[2] # 0
    BY BetweennessAssumption DEF Front
  <2>2. \A k \in Scores : k[2] = 0
    BY DEF Scores
  <2>3. \A k \in Front(maxLevel) : k \in DOMAIN state /\ k \notin Scores
    BY <1>1, <2>1, <2>2
  <2> QED BY <2>3 DEF Total, Add, Scores
<1>4. Front(maxLevel)' = Front(maxLevel) /\ Turned' /\ Counted' /\ Farthest'
  <2>1. \A k \in Front(maxLevel') : state'[k] = Cardinality(Walks(k[2], k[3], k[1]))
    BY <1>1, <1>3 DEF Counted
  <2>2. \A s, v \in Node, l \in Nat : Far(s, v, l) => l <= maxLevel'
    BY <1>1 DEF Farthest
  <2> QED BY <1>1, <2>1, <2>2, SameRows, SameWays
<1>5. Rear(0)' = Rear(0) /\ Scores' = Scores
  BY <1>1, SameWays DEF Rear, Scores
<1> QED BY <1>1, <1>2, <1>4, <1>5 DEF RowsInv

LEMMA RowsStutter ==
  ASSUME RowsInv, UNCHANGED vars
  PROVE  RowsInv'
<1>1. graph' = graph /\ state' = state /\ level' = level /\ maxLevel' = maxLevel /\ phase' = phase
  BY DEF vars
<1>2. Turned' <=> Turned
  BY <1>1, SameWays
<1>3. \A m : {k \in (0..m) \X Node \X Node \X {Sigma} : Far(k[2], k[3], k[1])'} = Front(m)
  BY <1>1, SameWays DEF Front
<1>4. Front(maxLevel)' = Front(maxLevel)
  BY <1>1, <1>3 DEF Front
<1>5. (Counted' <=> Counted) /\ (Farthest' <=> Farthest)
  BY <1>1, SameRows DEF Counted, Farthest
<1>6. Rear(level + 1)' = Rear(level + 1) /\ Rear(0)' = Rear(0) /\ Scores' = Scores
  BY <1>1, SameWays DEF Rear, Scores
<1> QED BY <1>1, <1>2, <1>4, <1>5, <1>6 DEF RowsInv

LEMMA RowsInvariant == Spec => []RowsInv
<1>1. Init => RowsInv
  BY RowsInit
<1>2. RowsInv /\ [Next]_vars => RowsInv'
  BY RowsSeed, RowsForward, RowsTurn, RowsBackward, RowsTotal, RowsStutter DEF Next
<1> QED BY <1>1, <1>2, PTL DEF Spec

LEMMA CountedRight ==
  ASSUME RowsInv
  PROVE  SigmaRight
<1> SUFFICES ASSUME phase = "done", NEW s \in Node, NEW v \in Node, NEW l \in 0..Cardinality(Node)
             PROVE  /\ At(l, s, v, Sigma) <=> Reachable(s, v) /\ l = Hop(s, v)
                    /\ At(l, s, v, Sigma) => state[<<l, s, v, Sigma>>] = Cardinality(Shortest(s, v))
  BY DEF SigmaRight
<1>0. Turned /\ maxLevel \in Nat /\ Counted
  BY DEF RowsInv
<1>1. At(l, s, v, Sigma) <=> Far(s, v, l)
  BY SigmaRows
<1>2. Far(s, v, l) => Reachable(s, v) /\ l = Hop(s, v)
  BY <1>0, HopIs
<1>3. Reachable(s, v) => Far(s, v, Hop(s, v))
  BY <1>0, FarIfReachable
<1>4. Far(s, v, l) => state[<<l, s, v, Sigma>>] = Cardinality(Shortest(s, v))
  <2>1. HAVE Far(s, v, l)
  <2>2. l \in 0..maxLevel
    <3>1. l \in Nat
      BY <2>1 DEF Far
    <3> QED BY <2>1, <3>1 DEF RowsInv, Farthest
  <2>3. <<l, s, v, Sigma>> \in Front(maxLevel)
    BY <1>0, <2>1, <2>2, InFront
  <2>4. state[<<l, s, v, Sigma>>] = Cardinality(Walks(s, v, l))
    BY <1>0, <2>3 DEF Counted
  <2> QED BY <1>2, <2>1, <2>4 DEF Shortest
<1> QED BY <1>1, <1>2, <1>3, <1>4

\* When the run is done a pair of vertices has a row in the round of its distance and in no other, and
\* the row holds how many shortest paths there are between the two.
THEOREM PathsCounted == Spec => []SigmaRight
BY RowsInvariant, CountedRight, PTL

(***************************************************************************)
(* The shares                                                              *)
(***************************************************************************)
\* Scale can be shared out evenly among the shortest paths of any pair, and what one of them gets
Divides == \A s, t \in Node : Reachable(s, t) => \E k \in Nat : k * Cardinality(Shortest(s, t)) = Scale
Part(s, t) == CHOOSE k \in Nat : k * Cardinality(Shortest(s, t)) = Scale

Ways == UNION {[1..n -> Edge] : n \in Nat}
\* The parts of the shortest paths from s that go on from v, l edges away, and those that have it at l
Tails(s, v, l) ==
  {z \in Node \X Nat \X Ways :
    /\ Reachable(s, z[1]) /\ l <= Hop(s, z[1]) /\ z[2] \in 1..Part(s, z[1])
    /\ z[3] \in Walks(v, z[1], Hop(s, z[1]) - l)}
Lying(s, v, l) ==
  {z \in Node \X Nat \X Ways :
    /\ Reachable(s, z[1]) /\ l <= Hop(s, z[1]) /\ z[2] \in 1..Part(s, z[1])
    /\ z[3] \in Shortest(s, z[1]) /\ Stop(z[3], s, l) = v}
\* and go on beyond it
Ending(s, v, l) == {z \in Lying(s, v, l) : l # Hop(s, z[1])}

LEMMA WaysAre ==
  ASSUME NEW s, NEW t, NEW n \in Nat, NEW f \in Walks(s, t, n)
  PROVE  f \in Ways
<1>1. f \in [1..n -> Edge]
  BY WalkIs DEF IsWalk
<1> QED BY <1>1 DEF Ways

LEMMA PartIs ==
  ASSUME Divides, NEW s \in Node, NEW t \in Node, Reachable(s, t)
  PROVE  Part(s, t) \in Nat /\ Part(s, t) * Cardinality(Shortest(s, t)) = Scale
<1>1. \E k \in Nat : k * Cardinality(Shortest(s, t)) = Scale
  BY DEF Divides
<1> DEFINE P(k) == k * Cardinality(Shortest(s, t)) = Scale
<1>2. (\E k \in Nat : P(k)) /\ Part(s, t) = CHOOSE k \in Nat : P(k)
  BY <1>1 DEF Part
<1> HIDE DEF P
<1>3. Part(s, t) \in Nat /\ P(Part(s, t))
  BY <1>2
<1> QED BY <1>3 DEF P

\* As many parts of each of some ways
Parts(t, n, W) == {t} \X (1..n) \X W

LEMMA PartsCount ==
  ASSUME NEW t, NEW n \in Nat, NEW W, IsFiniteSet(W)
  PROVE  IsFiniteSet(Parts(t, n, W)) /\ Cardinality(Parts(t, n, W)) = n * Cardinality(W)
<1> DEFINE N == 1..n
           T == Parts(t, n, W)
           P == N \X W
           F == [x \in P |-> <<t, x[1], x[2]>>]
<1>1. IsFiniteSet(N) /\ Cardinality(N) = n
  BY FS_Interval
<1>2. \A x \in P : x[1] \in N /\ x[2] \in W /\ x = <<x[1], x[2]>>
  OBVIOUS
<1>3. F \in [P -> T]
  <2>1. \A x \in P : <<t, x[1], x[2]>> \in T
    BY <1>2 DEF Parts
  <2> QED BY <2>1
<1>4. \A a, b \in P : F[a] = F[b] => a = b
  BY <1>2
<1>5. \A z \in T : \E x \in P : F[x] = z
  <2>1. TAKE z \in T
  <2>2. PICK i \in N, f \in W : z = <<t, i, f>>
    BY DEF Parts
  <2>3. <<i, f>> \in P /\ F[<<i, f>>] = z
    BY <2>2
  <2> QED BY <2>3
<1> HIDE DEF N, T
<1>6. IsFiniteSet(P) /\ Cardinality(P) = Cardinality(N) * Cardinality(W)
  BY <1>1, FS_Product
<1> HIDE DEF P, F
<1>7. IsFiniteSet(T) /\ Cardinality(P) = Cardinality(T)
  BY <1>3, <1>4, <1>5, <1>6, Paired
<1> QED BY <1>1, <1>6, <1>7 DEF T

LEMMA TailsFinite ==
  ASSUME Turned, Divides, NEW s \in Node, NEW v \in Node, NEW l \in Nat
  PROVE  IsFiniteSet(Tails(s, v, l)) /\ Cardinality(Tails(s, v, l)) \in Nat
<1> DEFINE S == {t \in Node : Reachable(s, t) /\ l <= Hop(s, t)}
           T == Tails(s, v, l)
           h == [z \in T |-> z[1]]
           fiber(t) == {z \in T : h[z] = t}
           F == [t \in S |-> Cardinality(fiber(t))]
<1>1. IsFiniteSet(S)
  BY BetweennessAssumption, FS_Subset
<1>2. h \in [T -> S]
  BY DEF Tails
<1>3. ASSUME NEW t \in S
      PROVE  IsFiniteSet(fiber(t)) /\ F[t] \in Nat /\ F[t] = Cardinality(fiber(t))
  <2> DEFINE W == Walks(v, t, Hop(s, t) - l)
             U == fiber(t)
  <2>1. Part(s, t) \in Nat
    BY PartIs
  <2>2. Hop(s, t) - l \in Nat
    <3>1. Hop(s, t) \in Nat
      BY FarIfReachable DEF Far
    <3> QED BY <3>1
  <2>3. IsFiniteSet(W)
    <3>1. PICK k \in Nat : k = Hop(s, t) - l
      BY <2>2
    <3> QED BY <3>1, WalksFinite
  <2>4. U = Parts(t, Part(s, t), W)
    <3>1. ASSUME NEW z \in U
          PROVE  z[2] \in 1..Part(s, t) /\ z[3] \in W /\ z = <<t, z[2], z[3]>>
      BY DEF Tails
    <3>2. ASSUME NEW i \in 1..Part(s, t), NEW f \in W
          PROVE  <<t, i, f>> \in U
      <4>1. PICK k \in Nat : k = Hop(s, t) - l
        BY <2>2
      <4>2. f \in Ways
        BY <4>1, WaysAre
      <4>3. <<t, i, f>> \in Node \X Nat \X Ways
        BY <2>1, <4>2
      <4>4. <<t, i, f>> \in T
        BY <4>3 DEF Tails
      <4> QED BY <4>4
    <3> HIDE DEF U, W
    <3> QED BY <3>1, <3>2 DEF Parts
  <2> HIDE DEF U, W
  <2>5. IsFiniteSet(U)
    BY <2>1, <2>3, <2>4, PartsCount
  <2>6. Cardinality(U) \in Nat
    BY <2>5, FS_CardinalityType
  <2> QED BY <2>5, <2>6 DEF U
<1>4. /\ \A t \in S : F[t] \in Nat
      /\ \A t \in S : IsFiniteSet({z \in T : h[z] = t}) /\ Cardinality({z \in T : h[z] = t}) = F[t]
  BY <1>3
<1> HIDE DEF S, T, h, F
<1>5. IsFiniteSet(T)
  BY <1>1, <1>2, <1>4, Fibers
<1> QED BY <1>5, FS_CardinalityType DEF T

LEMMA Apart ==
  ASSUME Turned, NEW s, NEW w, NEW k \in Nat, NEW z \in Lying(s, w, k), s \in Node
  PROVE  \E n \in Nat : /\ n = Hop(s, z[1]) - k /\ Hop(s, z[1]) = k + n
                        /\ Prefix(z[3], k) \in Walks(s, w, k)
                        /\ <<z[1], z[2], Suffix(z[3], k, n)>> \in Tails(s, w, k)
                        /\ z[3] = Joint(Prefix(z[3], k), k, Suffix(z[3], k, n), n)
<1>1. /\ z[1] \in Node /\ z[2] \in Nat /\ Reachable(s, z[1]) /\ k <= Hop(s, z[1]) /\ z[2] \in 1..Part(s, z[1])
      /\ z[3] \in Walks(s, z[1], Hop(s, z[1])) /\ Stop(z[3], s, k) = w
  BY DEF Lying, Shortest
<1>2. Hop(s, z[1]) \in Nat
  BY <1>1, FarIfReachable DEF Far
<1>3. PICK n \in Nat : n = Hop(s, z[1]) - k /\ Hop(s, z[1]) = k + n
  <2>1. Hop(s, z[1]) - k \in Nat /\ Hop(s, z[1]) = k + (Hop(s, z[1]) - k)
    BY <1>1, <1>2
  <2> QED BY <2>1
<1>4. PICK t, f : t = z[1] /\ f = z[3]
  OBVIOUS
<1>5. f \in Walks(s, t, k + n)
  BY <1>1, <1>3, <1>4
<1>6. /\ Prefix(f, k) \in Walks(s, Stop(f, s, k), k)
      /\ Suffix(f, k, n) \in Walks(Stop(f, s, k), t, n)
      /\ f = Joint(Prefix(f, k), k, Suffix(f, k, n), n)
  <2>1. Prefix(f, k) \in Walks(s, Stop(f, s, k), k)
    BY <1>5, Split
  <2>2. Suffix(f, k, n) \in Walks(Stop(f, s, k), t, n)
    BY <1>5, Split
  <2>3. f = Joint(Prefix(f, k), k, Suffix(f, k, n), n)
    <3>1. PICK m \in Nat : m = k + n
      OBVIOUS
    <3>2. f \in [1..m -> Edge]
      BY <1>5, <3>1, WalkIs DEF IsWalk
    <3>3. f \in [1..(k + n) -> Edge]
      BY <3>1, <3>2
    <3> QED BY <3>3, Rejoined
  <2> QED BY <2>1, <2>2, <2>3
<1>7. Suffix(f, k, n) \in Walks(w, t, n)
  BY <1>1, <1>4, <1>6
<1>8. Suffix(f, k, n) \in Ways
  BY <1>7, WaysAre
<1>9. <<t, z[2], Suffix(f, k, n)>> \in Tails(s, w, k)
  BY <1>1, <1>3, <1>4, <1>7, <1>8 DEF Tails
<1> QED BY <1>1, <1>3, <1>4, <1>6, <1>9

LEMMA Together ==
  ASSUME Turned, NEW s \in Node, NEW w, NEW k \in Nat, NEW p \in Walks(s, w, k), NEW y \in Tails(s, w, k)
  PROVE  \E n \in Nat : /\ n = Hop(s, y[1]) - k
                        /\ <<y[1], y[2], Joint(p, k, y[3], n)>> \in Lying(s, w, k)
                        /\ Prefix(Joint(p, k, y[3], n), k) = p /\ Suffix(Joint(p, k, y[3], n), k, n) = y[3]
<1>1. /\ y[1] \in Node /\ y[2] \in Nat /\ Reachable(s, y[1]) /\ k <= Hop(s, y[1]) /\ y[2] \in 1..Part(s, y[1])
      /\ y[3] \in Walks(w, y[1], Hop(s, y[1]) - k)
  BY DEF Tails
<1>2. Hop(s, y[1]) \in Nat
  BY <1>1, FarIfReachable DEF Far
<1>3. PICK n \in Nat : n = Hop(s, y[1]) - k /\ Hop(s, y[1]) = k + n
  <2>1. Hop(s, y[1]) - k \in Nat /\ Hop(s, y[1]) = k + (Hop(s, y[1]) - k)
    BY <1>1, <1>2
  <2> QED BY <2>1
<1>4. PICK t, q : t = y[1] /\ q = y[3]
  OBVIOUS
<1>5. q \in Walks(w, t, n)
  BY <1>1, <1>3, <1>4
<1> DEFINE f == Joint(p, k, q, n)
<1>6. f \in Walks(s, t, k + n)
  BY <1>5, Join
<1>7. Stop(f, s, k) = w /\ Prefix(f, k) = p /\ Suffix(f, k, n) = q
  BY <1>5, Joined
<1> HIDE DEF f
<1>8. f \in Shortest(s, t)
  BY <1>3, <1>4, <1>6 DEF Shortest
<1>9. f \in Ways
  <2>1. PICK m \in Nat : m = k + n
    OBVIOUS
  <2> QED BY <1>6, <2>1, WaysAre
<1>10. <<t, y[2], f>> \in Lying(s, w, k)
  BY <1>1, <1>4, <1>7, <1>8, <1>9 DEF Lying
<1> QED BY <1>3, <1>4, <1>7, <1>10 DEF f

\* The shortest paths over some of the ways to a vertex: any of these with any of its tails
Over(s, w, k, P) == {z \in Lying(s, w, k) : Prefix(z[3], k) \in P}

LEMMA OverCount ==
  ASSUME Turned, Divides, NEW s \in Node, NEW w \in Node, NEW k \in Nat,
         NEW P \in SUBSET Walks(s, w, k), IsFiniteSet(P)
  PROVE  /\ IsFiniteSet(Over(s, w, k, P))
         /\ Cardinality(Over(s, w, k, P)) = Cardinality(P) * Cardinality(Tails(s, w, k))
<1> DEFINE T == Over(s, w, k, P)
           Y == Tails(s, w, k)
           R == P \X Y
           n(z) == Hop(s, z[1]) - k
           F == [z \in T |-> <<Prefix(z[3], k), <<z[1], z[2], Suffix(z[3], k, n(z))>>>>]
<1>0. IsFiniteSet(Y)
  BY TailsFinite
<1>1. ASSUME NEW z \in T
      PROVE  /\ Prefix(z[3], k) \in P /\ <<z[1], z[2], Suffix(z[3], k, n(z))>> \in Y
             /\ z[3] = Joint(Prefix(z[3], k), k, Suffix(z[3], k, n(z)), n(z))
             /\ z = <<z[1], z[2], z[3]>>
  <2>1. z \in Lying(s, w, k) /\ Prefix(z[3], k) \in P
    BY DEF Over
  <2>2. z = <<z[1], z[2], z[3]>>
    BY <2>1 DEF Lying
  <2>3. PICK h \in Nat : /\ h = Hop(s, z[1]) - k
                         /\ <<z[1], z[2], Suffix(z[3], k, h)>> \in Y
                         /\ z[3] = Joint(Prefix(z[3], k), k, Suffix(z[3], k, h), h)
    BY <2>1, Apart
  <2> QED BY <2>1, <2>2, <2>3
<1>2. ASSUME NEW p \in P, NEW y \in Y
      PROVE  LET z == <<y[1], y[2], Joint(p, k, y[3], n(y))>>
             IN  z \in T /\ Prefix(z[3], k) = p /\ <<z[1], z[2], Suffix(z[3], k, n(z))>> = y
  <2>1. p \in Walks(s, w, k)
    OBVIOUS
  <2> DEFINE j == Joint(p, k, y[3], n(y))
  <2>2. <<y[1], y[2], j>> \in Lying(s, w, k) /\ Prefix(j, k) = p /\ Suffix(j, k, n(y)) = y[3]
    <3>1. PICK m \in Nat :
            /\ m = Hop(s, y[1]) - k
            /\ <<y[1], y[2], Joint(p, k, y[3], m)>> \in Lying(s, w, k)
            /\ Prefix(Joint(p, k, y[3], m), k) = p /\ Suffix(Joint(p, k, y[3], m), k, m) = y[3]
      BY <2>1, Together
    <3> QED BY <3>1
  <2>3. y = <<y[1], y[2], y[3]>>
    BY DEF Tails
  <2> HIDE DEF j
  <2>4. <<y[1], y[2], j>>[1] = y[1] /\ <<y[1], y[2], j>>[2] = y[2] /\ <<y[1], y[2], j>>[3] = j
    OBVIOUS
  <2>5. <<y[1], y[2], j>> \in T
    BY <2>2, <2>4 DEF Over
  <2> QED BY <2>2, <2>3, <2>4, <2>5 DEF j
<1> HIDE DEF T, Y, n
<1>3. F \in [T -> R]
  BY <1>1
<1>4. \A a, b \in T : F[a] = F[b] => a = b
  <2>1. TAKE a \in T, b \in T
  <2>2. HAVE F[a] = F[b]
  <2>3. /\ Prefix(a[3], k) = Prefix(b[3], k) /\ a[1] = b[1] /\ a[2] = b[2]
        /\ Suffix(a[3], k, n(a)) = Suffix(b[3], k, n(b))
    BY <2>2
  <2>4. n(a) = n(b)
    BY <2>3 DEF n
  <2>5. a[3] = b[3]
    <3>1. a[3] = Joint(Prefix(a[3], k), k, Suffix(a[3], k, n(a)), n(a))
      BY <1>1
    <3>2. b[3] = Joint(Prefix(b[3], k), k, Suffix(b[3], k, n(b)), n(b))
      BY <1>1
    <3> QED BY <2>3, <2>4, <3>1, <3>2
  <2> QED BY <1>1, <2>3, <2>5
<1>5. \A x \in R : \E z \in T : F[z] = x
  <2>1. TAKE x \in R
  <2>2. x[1] \in P /\ x[2] \in Y /\ x = <<x[1], x[2]>>
    OBVIOUS
  <2>a. PICK p \in P, y \in Y : x = <<p, y>>
    BY <2>2
  <2>b. PICK z : z = <<y[1], y[2], Joint(p, k, y[3], n(y))>>
    OBVIOUS
  <2>c. z \in T /\ Prefix(z[3], k) = p /\ <<z[1], z[2], Suffix(z[3], k, n(z))>> = y
    BY <1>2, <2>b
  <2>3. PICK a \in T : Prefix(a[3], k) = x[1] /\ <<a[1], a[2], Suffix(a[3], k, n(a))>> = x[2]
    BY <2>a, <2>c
  <2>4. F[a] = <<x[1], x[2]>>
    BY <2>3
  <2> QED BY <2>2, <2>4
<1>6. IsFiniteSet(R) /\ Cardinality(R) = Cardinality(P) * Cardinality(Y)
  BY <1>0, FS_Product
<1> HIDE DEF R, F
<1>7. IsFiniteSet(T) /\ Cardinality(T) = Cardinality(R)
  BY <1>3, <1>4, <1>5, <1>6, Paired
<1> QED BY <1>6, <1>7 DEF T, Y

LEMMA WayEnds ==
  ASSUME NEW s, NEW t, NEW n \in Nat, NEW f \in Walks(s, t, n)
  PROVE  Stop(f, s, n) = t
BY WalkIs DEF IsWalk

\* The parts of the paths on which a vertex lies are those that go on beyond it and those that end there,
\* Scale of them
LEMMA Shared ==
  ASSUME Turned, Divides, NEW s \in Node, NEW v \in Node, NEW l, Far(s, v, l)
  PROVE  /\ IsFiniteSet(Ending(s, v, l)) /\ Cardinality(Ending(s, v, l)) \in Nat
         /\ Scale + Cardinality(Ending(s, v, l)) = Cardinality(Walks(s, v, l)) * Cardinality(Tails(s, v, l))
<1> DEFINE W == Walks(s, v, l)
           own == Parts(v, Part(s, v), W)
           on == Ending(s, v, l)
           all == Lying(s, v, l)
<1>0. l \in Nat
  BY DEF Far
<1>1. Reachable(s, v) /\ Hop(s, v) = l
  BY HopIs
<1>2. IsFiniteSet(W) /\ Cardinality(W) \in Nat
  BY <1>0, WalksFinite
<1>3. Part(s, v) \in Nat /\ Part(s, v) * Cardinality(W) = Scale
  BY <1>1, PartIs DEF Shortest
<1>4. IsFiniteSet(all) /\ Cardinality(all) = Cardinality(W) * Cardinality(Tails(s, v, l))
  <2>1. all = Over(s, v, l, W)
    <3>1. \A z \in all : Prefix(z[3], l) \in W
      BY <1>0, Apart
    <3> QED BY <3>1 DEF Over
  <2>2. W \in SUBSET Walks(s, v, l)
    OBVIOUS
  <2> HIDE DEF W
  <2>3. /\ IsFiniteSet(Over(s, v, l, W))
        /\ Cardinality(Over(s, v, l, W)) = Cardinality(W) * Cardinality(Tails(s, v, l))
    BY <1>0, <1>2, <2>2, OverCount
  <2> QED BY <2>1, <2>3
<1>5. ASSUME NEW z \in all, z \notin on
      PROVE  z \in own
  <2>1. /\ z[1] \in Node /\ Reachable(s, z[1]) /\ z[2] \in 1..Part(s, z[1])
        /\ z[3] \in Shortest(s, z[1]) /\ Stop(z[3], s, l) = v /\ Hop(s, z[1]) = l
        /\ z = <<z[1], z[2], z[3]>>
    BY <1>5 DEF Lying, Ending
  <2>2. z[3] \in Walks(s, z[1], l)
    BY <2>1 DEF Shortest
  <2>3. z[1] = v
    BY <1>0, <2>1, <2>2, WayEnds
  <2> QED BY <2>1, <2>2, <2>3 DEF Parts
<1>6. ASSUME NEW z \in own
      PROVE  z \in all /\ z \notin on
  <2>1. z[1] = v /\ z[2] \in 1..Part(s, v) /\ z[3] \in W /\ z = <<v, z[2], z[3]>>
    BY DEF Parts
  <2>2. z[3] \in Ways /\ Stop(z[3], s, l) = v
    BY <1>0, <2>1, WaysAre, WayEnds
  <2>3. z \in Node \X Nat \X Ways
    BY <1>3, <2>1, <2>2
  <2>4. z \in all
    BY <1>0, <1>1, <2>1, <2>2, <2>3 DEF Lying, Shortest
  <2> QED BY <1>1, <2>1, <2>4 DEF Ending
<1>7. on \subseteq all
  BY DEF Ending
<1>8. IsFiniteSet(own) /\ Cardinality(own) = Scale
  <2> HIDE DEF W
  <2> QED BY <1>2, <1>3, PartsCount
<1> HIDE DEF W, own, on, all
<1>9. all = own \cup on /\ own \cap on = {}
  BY <1>5, <1>6, <1>7
<1>10. IsFiniteSet(on) /\ Cardinality(on) \in Nat
  BY <1>4, <1>7, FS_Subset, FS_CardinalityType
<1>11. Cardinality(own \cup on) = Cardinality(own) + Cardinality(on) - Cardinality(own \cap on)
  BY <1>8, <1>10, FS_Union
<1>12. Cardinality(own \cap on) = 0
  BY <1>9, FS_EmptySet
<1>13. Cardinality(all) = Scale + Cardinality(on)
  BY <1>8, <1>9, <1>10, <1>11, <1>12, BetweennessAssumption
<1> QED BY <1>4, <1>10, <1>13 DEF W, on, all

\* Those that go on from v over w
OnOverTo(s, v, l, w) == {z \in Ending(s, v, l) : Stop(z[3], s, l + 1) = w}
LEMMA OnOver ==
  ASSUME Turned, Divides, NEW s \in Node, NEW v \in Node, NEW w \in Node, NEW l \in Nat
  PROVE  /\ IsFiniteSet(OnOverTo(s, v, l, w))
         /\ Cardinality(OnOverTo(s, v, l, w))
              = (Cardinality(Walks(s, v, l)) * Hops(v, w)) * Cardinality(Tails(s, w, l + 1))
<1> DEFINE T == OnOverTo(s, v, l, w)
           H == Cardinality(Walks(s, v, l)) * Hops(v, w)
<1>1. PICK one \in Nat : one = 1
  OBVIOUS
<1>2. PICK k \in Nat : k = l + 1
  OBVIOUS
<1> DEFINE P == Via(s, v, w, l, one)
<1>3. IsFiniteSet(Walks(s, v, l)) /\ Cardinality(Walks(s, v, l)) \in Nat
  BY WalksFinite
<1>4. IsFiniteSet(Walks(v, w, one)) /\ Cardinality(Walks(v, w, one)) = Hops(v, w) /\ Hops(v, w) \in Nat
  BY <1>1, OneHop
<1>5. IsFiniteSet(P) /\ Cardinality(P) = H
  <2>1. /\ IsFiniteSet(Via(s, v, w, l, one))
        /\ Cardinality(Via(s, v, w, l, one)) = Cardinality(Walks(s, v, l)) * Cardinality(Walks(v, w, one))
    BY <1>3, <1>4, ViaCount
  <2> QED BY <1>4, <2>1
<1>7. P \in SUBSET Walks(s, w, k)
  BY <1>1, <1>2 DEF Via
<1>a. \A f : Stop(Prefix(f, k), s, l) = Stop(f, s, l)
  <2>1. l # 0 => l \in 1..k
    BY <1>2
  <2> QED BY <2>1 DEF Stop, Prefix
<1>8. ASSUME NEW z \in T
      PROVE  z \in Over(s, w, k, P)
  <2>1. /\ z \in Node \X Nat \X Ways /\ Reachable(s, z[1]) /\ l <= Hop(s, z[1]) /\ l # Hop(s, z[1]) /\ z[2] \in 1..Part(s, z[1])
        /\ z[3] \in Shortest(s, z[1]) /\ Stop(z[3], s, l) = v /\ Stop(z[3], s, k) = w
    BY <1>2 DEF Ending, Lying, OnOverTo
  <2>2. Hop(s, z[1]) \in Nat
    BY <2>1, FarIfReachable DEF Far
  <2>3. k <= Hop(s, z[1])
    BY <1>2, <2>1, <2>2
  <2>4. z \in Lying(s, w, k)
    BY <2>1, <2>3 DEF Lying
  <2>5. Prefix(z[3], k) \in Walks(s, w, k)
    BY <2>4, Apart
  <2>6. Prefix(z[3], k) \in P
    BY <1>1, <1>2, <1>a, <2>1, <2>5 DEF Via
  <2> QED BY <2>4, <2>6 DEF Over
<1>9. ASSUME NEW z \in Over(s, w, k, P)
      PROVE  z \in T
  <2>1. /\ z \in Node \X Nat \X Ways /\ Reachable(s, z[1]) /\ k <= Hop(s, z[1]) /\ z[2] \in 1..Part(s, z[1])
        /\ z[3] \in Shortest(s, z[1]) /\ Stop(z[3], s, k) = w /\ Prefix(z[3], k) \in P
    BY DEF Over, Lying
  <2>2. Hop(s, z[1]) \in Nat
    BY <2>1, FarIfReachable DEF Far
  <2>3. l <= Hop(s, z[1]) /\ l # Hop(s, z[1])
    BY <1>2, <2>1, <2>2
  <2>4. Stop(z[3], s, l) = v
    BY <1>a, <2>1 DEF Via
  <2>5. z \in Lying(s, v, l)
    BY <2>1, <2>3, <2>4 DEF Lying
  <2> QED BY <1>2, <2>1, <2>3, <2>5 DEF Ending, OnOverTo
<1>10. T = Over(s, w, k, P)
  BY <1>8, <1>9
<1> HIDE DEF P, T, H
<1>11. IsFiniteSet(Over(s, w, k, P)) /\ Cardinality(Over(s, w, k, P)) = Cardinality(P) * Cardinality(Tails(s, w, k))
  BY <1>5, <1>7, OverCount
<1> QED BY <1>2, <1>5, <1>10, <1>11 DEF T, H

LEMMA DivTimes ==
  ASSUME NEW a \in Nat, NEW c \in Nat \ {0}
  PROVE  (a * c) \div c = a
OBVIOUS

CarriedSum(l, s, v, S) ==
  MapThenSumSet(
    LAMBDA w : Hops(v, w) * ((state[<<l, s, v, Sigma>>] * (Scale + DeltaOf(l + 1, s, w))) \div state[<<l + 1, s, w, Sigma>>]), S)

LEMMA CarriedIs ==
  ASSUME NEW l, NEW s, NEW v, NEW S, NEW F,
         \A w \in S : F[w] = Hops(v, w) * ((state[<<l, s, v, Sigma>>] * (Scale + DeltaOf(l + 1, s, w))) \div state[<<l + 1, s, w, Sigma>>])
  PROVE  CarriedSum(l, s, v, S) = SumOf(F, S)
<1> DEFINE c(r) == CHOOSE w \in r : TRUE
           T(w) == Hops(v, w) * ((state[<<l, s, v, Sigma>>] * (Scale + DeltaOf(l + 1, s, w))) \div state[<<l + 1, s, w, Sigma>>])
           A(g) == g = [r \in SUBSET S |-> IF r = {} THEN 0 ELSE F[c(r)] + g[r \ {c(r)}]]
           B(g) == g = [r \in SUBSET S |-> IF r = {} THEN 0 ELSE T(c(r)) + g[r \ {c(r)}]]
<1>1. SumOf(F, S) = (CHOOSE g : A(g))[S]
  BY DEF SumOf, MapThenSumSet, MapThenFoldSet
<1>2. CarriedSum(l, s, v, S) = (CHOOSE g : B(g))[S]
  BY DEF CarriedSum, MapThenSumSet, MapThenFoldSet
<1>3. \A r \in SUBSET S : r # {} => c(r) \in S
  <2>1. \A r : r # {} => c(r) \in r
    OBVIOUS
  <2> HIDE DEF c
  <2> QED BY <2>1
<1>a. \A w \in S : F[w] = T(w)
  OBVIOUS
<1>4. ASSUME NEW g
      PROVE  A(g) <=> B(g)
  <2> HIDE DEF c, T
  <2>1. \A r \in SUBSET S : r # {} => F[c(r)] = T(c(r))
    BY <1>3, <1>a
  <2>2. [r \in SUBSET S |-> IF r = {} THEN 0 ELSE F[c(r)] + g[r \ {c(r)}]]
        = [r \in SUBSET S |-> IF r = {} THEN 0 ELSE T(c(r)) + g[r \ {c(r)}]]
    BY <2>1
  <2> QED BY <2>2
<1>5. (CHOOSE g : A(g)) = (CHOOSE g : B(g))
  <2> HIDE DEF A, B
  <2> QED BY <1>4
<1> QED BY <1>1, <1>2, <1>5

Shown(d) == \A k \in Rear(d) : state[k] = Cardinality(Ending(k[2], k[3], k[1]))

LEMMA CarriedCount ==
  ASSUME RowsInv, Divides, phase = "backward", Shown(level + 1), NEW s \in Node, NEW v \in Node, Far(s, v, level)
  PROVE  Carried(s, v) = Cardinality(Ending(s, v, level))
<1>0. Turned /\ level \in Nat /\ maxLevel \in Nat /\ level <= maxLevel /\ Counted /\ Farthest
      /\ DOMAIN state = Front(maxLevel) \cup Rear(level + 1)
  BY DEF RowsInv
<1>1. PICK k \in Nat : k = level + 1
  BY <1>0
<1> DEFINE S == {w \in Node : At(level + 1, s, w, Sigma)}
           T == Ending(s, v, level)
           h == [z \in T |-> Stop(z[3], s, k)]
           F == [w \in S |-> Hops(v, w) * ((state[<<level, s, v, Sigma>>] * (Scale + DeltaOf(level + 1, s, w)))
                                              \div state[<<level + 1, s, w, Sigma>>])]
<1>2. \A w \in Node : w \in S <=> Far(s, w, k)
  BY <1>1, SigmaRows
<1>3. IsFiniteSet(S)
  BY BetweennessAssumption, FS_Subset
<1>4. ASSUME NEW z \in T
      PROVE  Stop(z[3], s, k) \in S
  <2>1. /\ z[1] \in Node /\ Reachable(s, z[1]) /\ level <= Hop(s, z[1]) /\ level # Hop(s, z[1])
        /\ z[3] \in Walks(s, z[1], Hop(s, z[1]))
    BY DEF Ending, Lying, Shortest
  <2>2. Far(s, z[1], Hop(s, z[1])) /\ Hop(s, z[1]) \in Nat
    BY <1>0, <2>1, FarIfReachable DEF Far
  <2>3. k \in 0..Hop(s, z[1])
    BY <1>0, <1>1, <2>1, <2>2
  <2>4. Far(s, Stop(z[3], s, k), k)
    BY <2>1, <2>2, <2>3, FarStops
  <2>5. Stop(z[3], s, k) \in Node
    BY <1>0, <2>1, <2>2, <2>3, StopIsNode
  <2> QED BY <1>2, <2>4, <2>5
<1>5. h \in [T -> S]
  BY <1>4
<1>6. ASSUME NEW w \in S
      PROVE  F[w] \in Nat /\ IsFiniteSet({z \in T : h[z] = w}) /\ Cardinality({z \in T : h[z] = w}) = F[w]
  <2> DEFINE a == Cardinality(Walks(s, v, level))
             b == Cardinality(Walks(s, w, k))
             tails == Cardinality(Tails(s, w, k))
             hops == Hops(v, w)
             U == {z \in T : h[z] = w}
  <2>1. w \in Node /\ Far(s, w, k)
    BY <1>2
  <2>2. /\ state[<<level, s, v, Sigma>>] = a
        /\ state[<<level + 1, s, w, Sigma>>] = b
    <3>1. k \in 0..maxLevel /\ level \in 0..maxLevel
      BY <1>0, <1>1, <2>1 DEF Farthest
    <3>2. <<level, s, v, Sigma>> \in Front(maxLevel) /\ <<k, s, w, Sigma>> \in Front(maxLevel)
      BY <1>0, <2>1, <3>1, InFront
    <3> QED BY <1>0, <1>1, <3>2 DEF Counted
  <2>3. DeltaOf(level + 1, s, w) = Cardinality(Ending(s, w, k))
    <3>1. k \in 0..maxLevel /\ k >= level + 1
      BY <1>0, <1>1, <2>1 DEF Farthest
    <3>2. <<k, s, w, Delta>> \in Rear(level + 1)
      BY <2>1, <3>1 DEF Rear
    <3> QED BY <1>0, <1>1, <3>2 DEF Shown, DeltaOf, At
  <2>4. Scale + Cardinality(Ending(s, w, k)) = b * tails
    BY <1>0, <2>1, Shared
  <2>5. b \in Nat \ {0}
    BY <1>0, <2>1, SomeWay
  <2>6. tails \in Nat
    BY <1>0, <2>1, TailsFinite
  <2>7. U = OnOverTo(s, v, level, w)
    BY <1>1 DEF OnOverTo
  <2>8. IsFiniteSet(U) /\ Cardinality(U) = (a * hops) * tails
    <3>1. /\ IsFiniteSet(OnOverTo(s, v, level, w))
          /\ Cardinality(OnOverTo(s, v, level, w))
               = (Cardinality(Walks(s, v, level)) * Hops(v, w)) * Cardinality(Tails(s, w, level + 1))
      BY <1>0, <2>1, OnOver
    <3>2. Tails(s, w, level + 1) = Tails(s, w, k)
      BY <1>1
    <3>3. Cardinality(OnOverTo(s, v, level, w)) = (Cardinality(Walks(s, v, level)) * Hops(v, w)) * Cardinality(Tails(s, w, k))
      BY <3>1, <3>2
    <3> HIDE DEF U, a, hops, tails
    <3>4. Cardinality(OnOverTo(s, v, level, w)) = (a * hops) * tails
      BY <3>3, Zenon DEF a, hops, tails
    <3> QED BY <2>7, <3>1, <3>4
  <2>9. a \in Nat /\ hops \in Nat
    BY <1>0, <2>1, WalksFinite, OneHop
  <2>10. F[w] = hops * ((a * (b * tails)) \div b)
    BY <2>2, <2>3, <2>4
  <2> HIDE DEF a, b, tails, hops, U, F
  <2>11. (a * (b * tails)) \div b = a * tails
    <3>1. a * (b * tails) = (a * tails) * b
      BY <2>5, <2>6, <2>9
    <3>2. a * tails \in Nat
      BY <2>6, <2>9
    <3>3. ((a * tails) * b) \div b = a * tails
      BY <2>5, <3>2, DivTimes
    <3> QED BY <3>1, <3>3
  <2>12. hops * (a * tails) = (a * hops) * tails /\ (a * hops) * tails \in Nat
    BY <2>6, <2>9
  <2>13. F[w] = Cardinality(U) /\ F[w] \in Nat
    BY <2>8, <2>10, <2>11, <2>12
  <2> QED BY <2>8, <2>13 DEF U
<1>7. /\ \A w \in S : F[w] \in Nat
      /\ \A w \in S : IsFiniteSet({z \in T : h[z] = w}) /\ Cardinality({z \in T : h[z] = w}) = F[w]
  BY <1>6
<1>8. Carried(s, v) = CarriedSum(level, s, v, S)
  BY DEF Carried, CarriedSum
<1>9. CarriedSum(level, s, v, S) = SumOf(F, S)
  <2>1. \A w \in S : F[w] = Hops(v, w) * ((state[<<level, s, v, Sigma>>] * (Scale + DeltaOf(level + 1, s, w)))
                                              \div state[<<level + 1, s, w, Sigma>>])
    OBVIOUS
  <2> HIDE DEF S, F
  <2> QED BY <2>1, CarriedIs
<1> HIDE DEF S, T, h, F
<1>10. Cardinality(T) = SumOf(F, S)
  BY <1>3, <1>5, <1>7, Fibers
<1> QED BY <1>8, <1>9, <1>10 DEF T

\* All that runs through a vertex, by the source it comes from
Through(v) ==
  {z \in Node \X (Node \X Nat \X Ways) : z[1] # v /\ Reachable(z[1], v) /\ z[2] \in Ending(z[1], v, Hop(z[1], v))}
Scored == \A v \in Node : state[<<maxLevel + 1, 0, v, Sigma>>] = Cardinality(Through(v))

SharesInv ==
  Divides =>
    /\ phase = "backward" => Shown(level + 1)
    /\ phase \in {"total", "done"} => Shown(0)
    /\ phase = "done" => Scored

LEMMA RowOf ==
  ASSUME RowsInv, phase = "total", NEW v \in Node
  PROVE  LET S == {r \in DOMAIN state : Counts(r, v)}
         IN  /\ \A r \in S : /\ r \in Rear(0) /\ r[2] \in Node \ {v} /\ r = <<Hop(r[2], v), r[2], v, Delta>>
                             /\ Reachable(r[2], v) /\ r[1] = Hop(r[2], v)
             /\ \A s \in Node \ {v} : Reachable(s, v) => <<Hop(s, v), s, v, Delta>> \in S
<1> DEFINE S == {r \in DOMAIN state : Counts(r, v)}
<1>0. Turned /\ maxLevel \in Nat /\ Farthest /\ DOMAIN state = Front(maxLevel) \cup Rear(0)
  BY DEF RowsInv
<1>1. ASSUME NEW r \in S
      PROVE  /\ r \in Rear(0) /\ r[2] \in Node \ {v} /\ r = <<Hop(r[2], v), r[2], v, Delta>>
             /\ Reachable(r[2], v) /\ r[1] = Hop(r[2], v)
  <2>1. r \in DOMAIN state /\ r[4] = Delta /\ r[3] = v /\ r[2] # v
    BY DEF Counts
  <2>2. \A k \in Front(maxLevel) : k[4] = Sigma
    BY DEF Front
  <2>3. r \in Rear(0)
    BY <1>0, <2>1, <2>2 DEF Sigma, Delta
  <2>4. r = <<r[1], r[2], r[3], r[4]>> /\ r[2] \in Node /\ Far(r[2], r[3], r[1])
    BY <2>3 DEF Rear
  <2>5. Reachable(r[2], v) /\ Hop(r[2], v) = r[1]
    BY <1>0, <2>1, <2>4, HopIs
  <2> QED BY <2>1, <2>3, <2>4, <2>5
<1>2. ASSUME NEW s \in Node \ {v}, Reachable(s, v)
      PROVE  <<Hop(s, v), s, v, Delta>> \in S
  <2>1. Far(s, v, Hop(s, v)) /\ Hop(s, v) \in Nat
    BY <1>0, <1>2, FarIfReachable DEF Far
  <2>2. Hop(s, v) \in 0..maxLevel
    BY <1>0, <2>1 DEF Farthest
  <2>3. <<Hop(s, v), s, v, Delta>> \in Rear(0)
    BY <2>1, <2>2 DEF Rear
  <2> QED BY <1>0, <2>3 DEF Counts
<1> QED BY <1>1, <1>2

LEMMA ScoreCount ==
  ASSUME RowsInv, Divides, phase = "total", Shown(0), NEW v \in Node
  PROVE  MapThenSumSet(LAMBDA r : state[r], {r \in DOMAIN state : Counts(r, v)}) = Cardinality(Through(v))
<1> DEFINE S == {r \in DOMAIN state : Counts(r, v)}
           T == Through(v)
           N == {s \in Node \ {v} : Reachable(s, v)}
           row(s) == <<Hop(s, v), s, v, Delta>>
           h == [z \in T |-> row(z[1])]
<1>0. Turned
  BY DEF RowsInv
<1>1. /\ \A r \in S : /\ r \in Rear(0) /\ r[2] \in Node \ {v} /\ r = row(r[2])
                      /\ Reachable(r[2], v) /\ r[1] = Hop(r[2], v)
      /\ \A s \in Node \ {v} : Reachable(s, v) => row(s) \in S
  BY RowOf
<1>2. IsFiniteSet(S)
  <2> DEFINE G == [s \in N |-> row(s)]
  <2>1. IsFiniteSet(N)
    BY BetweennessAssumption, FS_RemoveElement, FS_Subset
  <2>2. G \in [N -> S]
    BY <1>1
  <2>3. \A a, b \in N : G[a] = G[b] => a = b
    OBVIOUS
  <2>4. \A r \in S : \E s \in N : G[s] = r
    <3>1. TAKE r \in S
    <3>2. r[2] \in N /\ G[r[2]] = r
      BY <1>1
    <3> QED BY <3>2
  <2> HIDE DEF S, N, G
  <2> QED BY <2>1, <2>2, <2>3, <2>4, Paired
<1>3. \A z \in T : z[1] \in Node \ {v} /\ Reachable(z[1], v) /\ z[2] \in Ending(z[1], v, Hop(z[1], v)) /\ z = <<z[1], z[2]>>
  BY DEF Through
<1>4. h \in [T -> S]
  <2>1. \A z \in T : row(z[1]) \in S
    BY <1>1, <1>3
  <2> QED BY <2>1
<1>5. ASSUME NEW r \in S
      PROVE  state[r] \in Nat /\ IsFiniteSet({z \in T : h[z] = r}) /\ Cardinality({z \in T : h[z] = r}) = state[r]
  <2> DEFINE s == r[2]
             E == Ending(s, v, Hop(s, v))
             U == {z \in T : h[z] = r}
             G == [y \in E |-> <<s, y>>]
  <2>1. r \in Rear(0) /\ s \in Node \ {v} /\ r = row(s) /\ Reachable(s, v) /\ r[1] = Hop(s, v) /\ r[3] = v
    BY <1>1
  <2>2. Far(s, v, Hop(s, v))
    BY <1>0, <2>1, FarIfReachable
  <2>3. IsFiniteSet(E) /\ Cardinality(E) \in Nat
    BY <1>0, <2>1, <2>2, Shared
  <2>4. state[r] = Cardinality(E)
    BY <2>1 DEF Shown
  <2>5. \A y \in E : <<s, y>> \in U
    <3>1. TAKE y \in E
    <3>2. y \in Node \X Nat \X Ways
      BY DEF Ending, Lying
    <3>3. <<s, y>> \in T
      BY <2>1, <3>2 DEF Through
    <3> QED BY <2>1, <3>3
  <2>6. \A z \in U : z[2] \in E /\ z = <<s, z[2]>>
    <3>1. TAKE z \in U
    <3>2. row(z[1]) = row(s)
      BY <2>1
    <3>3. z[1] = s
      BY <3>2
    <3> QED BY <1>3, <3>3
  <2> HIDE DEF E, U
  <2>7. G \in [E -> U] /\ (\A a, b \in E : G[a] = G[b] => a = b) /\ \A z \in U : \E y \in E : G[y] = z
    <3>1. G \in [E -> U]
      BY <2>5
    <3>2. \A a, b \in E : G[a] = G[b] => a = b
      OBVIOUS
    <3>3. \A z \in U : G[z[2]] = z
      BY <2>6
    <3> QED BY <2>6, <3>1, <3>2, <3>3
  <2> HIDE DEF G
  <2>8. IsFiniteSet(U) /\ Cardinality(E) = Cardinality(U)
    BY <2>3, <2>7, Paired
  <2> QED BY <2>3, <2>4, <2>8 DEF U
<1>6. /\ \A r \in S : state[r] \in Nat
      /\ \A r \in S : IsFiniteSet({z \in T : h[z] = r}) /\ Cardinality({z \in T : h[z] = r}) = state[r]
  BY <1>5
<1>7. MapThenSumSet(LAMBDA r : state[r], S) = SumOf(state, S)
  BY DEF SumOf
<1> HIDE DEF S, T, h
<1>8. Cardinality(T) = SumOf(state, S)
  BY <1>2, <1>4, <1>6, Fibers
<1> QED BY <1>7, <1>8 DEF S, T

LEMMA SameEndings ==
  ASSUME graph' = graph
  PROVE  /\ Divides' <=> Divides
         /\ \A s, v, l : Ending(s, v, l)' = Ending(s, v, l)
         /\ \A v : Through(v)' = Through(v)
<1>1. \A s, t, n : Walks(s, t, n)' = Walks(s, t, n)
  BY SameWays
<1>2. \A s, t : (Reachable(s, t)' <=> Reachable(s, t)) /\ Hop(s, t)' = Hop(s, t)
  BY <1>1 DEF Reachable, Hop
<1>3. \A s, t : Shortest(s, t)' = Shortest(s, t)
  BY <1>1, <1>2 DEF Shortest
<1>4. \A f, s, i : Stop(f, s, i)' = Stop(f, s, i)
  BY DEF Stop
<1>5. Divides' <=> Divides
  BY <1>2, <1>3 DEF Divides
<1>6. \A s, t : Part(s, t)' = Part(s, t)
  BY <1>3 DEF Part
<1>7. \A s, v, l : Lying(s, v, l)' = Lying(s, v, l)
  BY <1>2, <1>3, <1>4, <1>6 DEF Lying
<1>8. \A s, v, l : Ending(s, v, l)' = Ending(s, v, l)
  BY <1>2, <1>7 DEF Ending
<1>9. \A v : Through(v)' = Through(v)
  BY <1>2, <1>8 DEF Through
<1> QED BY <1>5, <1>8, <1>9

LEMMA SharesInit == Init => SharesInv
BY DEF Init, SharesInv

LEMMA SharesTurn ==
  ASSUME RowsInv, Turn
  PROVE  SharesInv'
<1>1. phase' = "backward" /\ level' = maxLevel' /\ maxLevel' \in Nat /\ level' \in Nat
  BY DEF RowsInv, Turn
<1>2. Rear(level + 1)' = {}
  <2>1. PICK m \in Nat : m = level' /\ m = maxLevel'
    BY <1>1
  <2>2. \A l \in 0..m : ~(l >= m + 1)
    OBVIOUS
  <2> QED BY <2>1, <2>2 DEF Rear
<1> QED BY <1>1, <1>2 DEF SharesInv, Shown

LEMMA SharesBackward ==
  ASSUME RowsInv, SharesInv, Backward, Divides
  PROVE  SharesInv'
<1>1. /\ phase = "backward" /\ graph' = graph /\ maxLevel' = maxLevel /\ level \in Nat
      /\ DOMAIN state = Front(maxLevel) \cup Rear(level + 1) /\ Shown(level + 1)
      /\ state' = Add(state, [k \in Layer |-> Carried(k[2], k[3])])
      /\ \/ level = 0 /\ level' = 0 /\ phase' = "total"
         \/ level # 0 /\ level' = level - 1 /\ phase' = "backward"
  BY RowsBackward DEF RowsInv, SharesInv, Backward
<1>2. ASSUME NEW k \in Rear(level)
      PROVE  state'[k] = Cardinality(Ending(k[2], k[3], k[1]))
  <2>1. k[1] \in Nat /\ k[1] >= level /\ k[2] \in Node /\ k[3] \in Node /\ Far(k[2], k[3], k[1])
    BY DEF Rear
  <2>2. CASE k[1] = level
    <3>1. k \in Layer
      BY <1>1, <2>2, LayerIs
    <3>2. state'[k] = Carried(k[2], k[3])
      BY <1>1, <3>1 DEF Add
    <3>3. Carried(k[2], k[3]) = Cardinality(Ending(k[2], k[3], level))
      BY <1>1, <2>1, <2>2, CarriedCount
    <3> QED BY <2>2, <3>2, <3>3
  <2>3. CASE k[1] # level
    <3>1. k \in Rear(level + 1)
      BY <1>1, <2>1, <2>3 DEF Rear
    <3>2. k \notin Layer
      BY <1>1, <2>3, LayerIs
    <3>3. state'[k] = state[k]
      BY <1>1, <3>1, <3>2 DEF Add
    <3> QED BY <1>1, <3>1, <3>3 DEF Shown
  <2> QED BY <2>2, <2>3
<1>3. \A s, v, l : Ending(s, v, l)' = Ending(s, v, l)
  BY <1>1, SameEndings
<1>4. \A k : Far(k[2], k[3], k[1])' <=> Far(k[2], k[3], k[1])
  BY <1>1, SameWays
<1>5. CASE level = 0
  <2>1. Rear(0)' = Rear(0)
    BY <1>1, <1>4 DEF Rear
  <2>2. \A k \in Rear(0)' : state'[k] = Cardinality(Ending(k[2], k[3], k[1])')
    BY <1>2, <1>3, <1>5, <2>1
  <2>3. Shown(0)'
    BY <2>2 DEF Shown
  <2> QED BY <1>1, <1>5, <2>3 DEF SharesInv
<1>6. CASE level # 0
  <2>1. level' = level - 1 /\ phase' = "backward" /\ level' + 1 = level
    BY <1>1, <1>6
  <2>2. Rear(level + 1)' = Rear(level)
    BY <1>1, <1>4, <2>1 DEF Rear
  <2>3. \A k \in Rear(level + 1)' : state'[k] = Cardinality(Ending(k[2], k[3], k[1])')
    BY <1>2, <1>3, <2>2
  <2>4. Shown(level + 1)'
    BY <2>3 DEF Shown
  <2> QED BY <2>1, <2>4 DEF SharesInv
<1> QED BY <1>5, <1>6

LEMMA SharesTotal ==
  ASSUME RowsInv, SharesInv, Total, Divides
  PROVE  SharesInv'
<1>1. /\ phase = "total" /\ phase' = "done" /\ graph' = graph /\ maxLevel' = maxLevel /\ maxLevel \in Nat
      /\ DOMAIN state = Front(maxLevel) \cup Rear(0) /\ Shown(0)
  BY DEF RowsInv, SharesInv, Total
<1>2. ASSUME NEW k \in Rear(0)
      PROVE  state'[k] = Cardinality(Ending(k[2], k[3], k[1]))
  <2>1. k[2] # 0
    BY BetweennessAssumption DEF Rear
  <2>2. k \notin Scores
    BY <2>1 DEF Scores
  <2>3. state'[k] = state[k]
    BY <1>1, <2>2 DEF Total, Add, Scores
  <2> QED BY <1>1, <2>3 DEF Shown
<1>3. ASSUME NEW v \in Node
      PROVE  state'[<<maxLevel + 1, 0, v, Sigma>>] = Cardinality(Through(v))
  <2> DEFINE k == <<maxLevel + 1, 0, v, Sigma>>
             score(u) == MapThenSumSet(LAMBDA r : state[r], {r \in DOMAIN state : Counts(r, u)})
  <2>1. state' = Add(state, [j \in Scores |-> score(j[3])])
    BY DEF Total, Scores
  <2> HIDE DEF score
  <2>2. k \in Scores /\ k[3] = v
    BY DEF Scores
  <2> HIDE DEF k
  <2>3. state'[k] = score(v)
    BY <2>1, <2>2 DEF Add
  <2>4. score(v) = Cardinality(Through(v))
    BY <1>1, ScoreCount DEF score
  <2> QED BY <2>3, <2>4 DEF k
<1>4. \A s, v, l : Ending(s, v, l)' = Ending(s, v, l)
  BY <1>1, SameEndings
<1>5. \A k : Far(k[2], k[3], k[1])' <=> Far(k[2], k[3], k[1])
  BY <1>1, SameWays
<1>6. Rear(0)' = Rear(0)
  BY <1>1, <1>5 DEF Rear
<1>7. \A k \in Rear(0)' : state'[k] = Cardinality(Ending(k[2], k[3], k[1])')
  BY <1>2, <1>4, <1>6
<1>8. Shown(0)'
  BY <1>7 DEF Shown
<1>9. \A v : Through(v)' = Through(v)
  BY <1>1, SameEndings
<1>10. Scored'
  BY <1>1, <1>3, <1>9 DEF Scored
<1> QED BY <1>1, <1>8, <1>10 DEF SharesInv

LEMMA SharesStutter ==
  ASSUME SharesInv, UNCHANGED vars
  PROVE  SharesInv'
<1>1. graph' = graph /\ state' = state /\ level' = level /\ maxLevel' = maxLevel /\ phase' = phase
  BY DEF vars
<1>2. /\ Divides' <=> Divides
      /\ \A s, v, l : Ending(s, v, l)' = Ending(s, v, l)
      /\ \A v : Through(v)' = Through(v)
  BY <1>1, SameEndings
<1>3. \A k : Far(k[2], k[3], k[1])' <=> Far(k[2], k[3], k[1])
  BY <1>1, SameWays
<1>4. Rear(level + 1)' = Rear(level + 1) /\ Rear(0)' = Rear(0)
  BY <1>1, <1>3 DEF Rear
<1>5. (Shown(level + 1)' <=> Shown(level + 1)) /\ (Shown(0)' <=> Shown(0))
  BY <1>1, <1>2, <1>4 DEF Shown
<1>6. Scored' <=> Scored
  BY <1>1, <1>2 DEF Scored
<1> QED BY <1>1, <1>2, <1>5, <1>6 DEF SharesInv

LEMMA SharesInvariant == Spec => []SharesInv
<1>1. Init => SharesInv
  BY SharesInit
<1>2. RowsInv /\ SharesInv /\ [Next]_vars => SharesInv'
  <2> SUFFICES ASSUME RowsInv, SharesInv, [Next]_vars PROVE SharesInv'
    OBVIOUS
  <2>1. CASE Seed
    BY <2>1 DEF Seed, SharesInv
  <2>2. CASE Forward
    BY <2>2 DEF Forward, SharesInv
  <2>3. CASE Turn
    BY <2>3, SharesTurn
  <2>4. CASE Backward
    <3>1. Divides' <=> Divides
      BY <2>4, SameEndings DEF Backward
    <3>2. CASE Divides
      BY <2>4, <3>2, SharesBackward
    <3>3. CASE ~Divides
      BY <3>1, <3>3 DEF SharesInv
    <3> QED BY <3>2, <3>3
  <2>5. CASE Total
    <3>1. Divides' <=> Divides
      BY <2>5, SameEndings DEF Total
    <3>2. CASE Divides
      BY <2>5, <3>2, SharesTotal
    <3>3. CASE ~Divides
      BY <3>1, <3>3 DEF SharesInv
    <3> QED BY <3>2, <3>3
  <2>6. CASE UNCHANGED vars
    BY <2>6, SharesStutter
  <2> QED BY <2>1, <2>2, <2>3, <2>4, <2>5, <2>6 DEF Next
<1> QED BY <1>1, <1>2, RowsInvariant, PTL DEF Spec

\* A shortest path meets another vertex at its distance from the source, if at all
LEMMA MeetsAt ==
  ASSUME Turned, NEW s \in Node, NEW t \in Node, NEW v \in Node, s # v, Reachable(s, t), NEW f \in Shortest(s, t)
  PROVE  /\ Inside(f, v) /\ t # v => Reachable(s, v) /\ Hop(s, v) < Hop(s, t) /\ Stop(f, s, Hop(s, v)) = v
         /\ Reachable(s, v) /\ Hop(s, v) <= Hop(s, t) /\ Stop(f, s, Hop(s, v)) = v => Inside(f, v)
<1>1. Far(s, t, Hop(s, t)) /\ Hop(s, t) \in Nat
  BY FarIfReachable DEF Far
<1>2. f \in Walks(s, t, Hop(s, t))
  BY DEF Shortest
<1>3. PICK n \in Nat : n = Hop(s, t)
  BY <1>1
<1>4. f \in Walks(s, t, n) /\ Far(s, t, n)
  BY <1>1, <1>2, <1>3
<1>5. f \in [1..n -> Edge] /\ Stop(f, s, n) = t
  BY <1>4, WalkIs DEF IsWalk
<1>6. Inside(f, v) <=> \E i \in 1..n : graph[f[i]][2] = v
  BY <1>5 DEF Inside
<1>7. ASSUME Inside(f, v), t # v
      PROVE  Reachable(s, v) /\ Hop(s, v) < Hop(s, t) /\ Stop(f, s, Hop(s, v)) = v
  <2>1. PICK i \in 1..n : graph[f[i]][2] = v
    BY <1>6, <1>7
  <2>2. i \in 0..n /\ i # 0
    OBVIOUS
  <2>3. Stop(f, s, i) = v
    BY <2>1, <2>2 DEF Stop
  <2>4. Far(s, v, i)
    BY <1>4, <2>2, <2>3, FarStops
  <2>5. Reachable(s, v) /\ Hop(s, v) = i
    BY <2>4, HopIs
  <2>6. i # n
    BY <1>5, <1>7, <2>3
  <2> QED BY <1>3, <2>2, <2>3, <2>5, <2>6
<1>8. ASSUME Reachable(s, v), Hop(s, v) <= Hop(s, t), Stop(f, s, Hop(s, v)) = v
      PROVE  Inside(f, v)
  <2>1. Far(s, v, Hop(s, v)) /\ Hop(s, v) \in Nat
    BY <1>8, FarIfReachable DEF Far
  <2>2. Hop(s, v) # 0
    BY <2>1, AtHome
  <2>3. Hop(s, v) \in 1..n
    BY <1>3, <1>8, <2>1, <2>2
  <2>4. graph[f[Hop(s, v)]][2] = v
    BY <1>8, <2>2 DEF Stop
  <2> QED BY <1>6, <2>3, <2>4
<1> QED BY <1>7, <1>8

Crossing(p, v) == {f \in Shortest(p[1], p[2]) : Inside(f, v)}
ShareSum(v, S) ==
  MapThenSumSet(LAMBDA p : (Scale * Cardinality(Crossing(p, v))) \div Cardinality(Shortest(p[1], p[2])), S)

LEMMA ShareIs ==
  ASSUME NEW v, NEW S, NEW F,
         \A p \in S : F[p] = (Scale * Cardinality(Crossing(p, v))) \div Cardinality(Shortest(p[1], p[2]))
  PROVE  ShareSum(v, S) = SumOf(F, S)
<1> DEFINE c(r) == CHOOSE p \in r : TRUE
           T(p) == (Scale * Cardinality(Crossing(p, v))) \div Cardinality(Shortest(p[1], p[2]))
           A(g) == g = [r \in SUBSET S |-> IF r = {} THEN 0 ELSE F[c(r)] + g[r \ {c(r)}]]
           B(g) == g = [r \in SUBSET S |-> IF r = {} THEN 0 ELSE T(c(r)) + g[r \ {c(r)}]]
<1>1. SumOf(F, S) = (CHOOSE g : A(g))[S]
  BY DEF SumOf, MapThenSumSet, MapThenFoldSet
<1>2. ShareSum(v, S) = (CHOOSE g : B(g))[S]
  BY DEF ShareSum, MapThenSumSet, MapThenFoldSet
<1>3. \A r \in SUBSET S : r # {} => c(r) \in S
  <2>1. \A r : r # {} => c(r) \in r
    OBVIOUS
  <2> HIDE DEF c
  <2> QED BY <2>1
<1>a. \A p \in S : F[p] = T(p)
  OBVIOUS
<1>4. ASSUME NEW g
      PROVE  A(g) <=> B(g)
  <2> HIDE DEF c, T
  <2>1. \A r \in SUBSET S : r # {} => F[c(r)] = T(c(r))
    BY <1>3, <1>a
  <2>2. [r \in SUBSET S |-> IF r = {} THEN 0 ELSE F[c(r)] + g[r \ {c(r)}]]
        = [r \in SUBSET S |-> IF r = {} THEN 0 ELSE T(c(r)) + g[r \ {c(r)}]]
    BY <2>1
  <2> QED BY <2>2
<1>5. (CHOOSE g : A(g)) = (CHOOSE g : B(g))
  <2> HIDE DEF A, B
  <2> QED BY <1>4
<1> QED BY <1>1, <1>2, <1>5

LEMMA ShareCount ==
  ASSUME Turned, Divides, NEW v \in Node,
         NEW S, S = {p \in (Node \ {v}) \X (Node \ {v}) : p[1] # p[2] /\ Reachable(p[1], p[2])}
  PROVE  ShareSum(v, S) = Cardinality(Through(v))
<1> DEFINE T == Through(v)
           h == [z \in T |-> <<z[1], z[2][1]>>]
           F == [p \in S |-> (Scale * Cardinality(Crossing(p, v))) \div Cardinality(Shortest(p[1], p[2]))]
<1>1. IsFiniteSet(S)
  <2> DEFINE M == Node \ {v}
  <2>1. IsFiniteSet(M)
    BY BetweennessAssumption, FS_RemoveElement
  <2> HIDE DEF M
  <2>2. IsFiniteSet(M \X M)
    BY <2>1, FS_Product
  <2>3. S \subseteq M \X M
    BY DEF M
  <2> QED BY <2>2, <2>3, FS_Subset
<1>2. ASSUME NEW z \in T
      PROVE  /\ z[1] \in Node \ {v} /\ z[2][1] \in Node \ {v} /\ z[1] # z[2][1] /\ Reachable(z[1], z[2][1])
             /\ z[2][2] \in 1..Part(z[1], z[2][1])
             /\ z[2][3] \in Crossing(<<z[1], z[2][1]>>, v)
             /\ z = <<z[1], <<z[2][1], z[2][2], z[2][3]>>>>
  <2> DEFINE s == z[1]
             y == z[2]
             t == z[2][1]
  <2>1. s \in Node \ {v} /\ Reachable(s, v) /\ y \in Ending(s, v, Hop(s, v)) /\ z = <<s, y>>
    BY DEF Through
  <2>2. /\ t \in Node /\ Reachable(s, t) /\ Hop(s, v) <= Hop(s, t) /\ Hop(s, v) # Hop(s, t) /\ y[2] \in 1..Part(s, t)
        /\ y[3] \in Shortest(s, t) /\ Stop(y[3], s, Hop(s, v)) = v /\ y = <<t, y[2], y[3]>>
    BY <2>1 DEF Ending, Lying
  <2>3. Inside(y[3], v)
    BY <2>1, <2>2, MeetsAt
  <2>4. t # v
    BY <2>2
  <2>5. s # t
    <3>1. Far(s, v, Hop(s, v)) /\ Far(s, t, Hop(s, t))
      BY <2>1, <2>2, FarIfReachable
    <3>2. Hop(s, v) \in Nat /\ Hop(s, t) \in Nat
      BY <3>1 DEF Far
    <3>3. Hop(s, t) # 0
      BY <2>2, <3>2
    <3>4. s = t => Far(s, t, 0)
      BY <2>1, AtHome
    <3> QED BY <3>1, <3>3, <3>4, FarOne
  <2>6. y[3] \in Crossing(<<s, t>>, v)
    BY <2>2, <2>3 DEF Crossing
  <2> QED BY <2>1, <2>2, <2>4, <2>5, <2>6
<1>3. h \in [T -> S]
  <2>1. \A z \in T : <<z[1], z[2][1]>> \in S
    BY <1>2
  <2> QED BY <2>1
<1>4. ASSUME NEW p \in S
      PROVE  F[p] \in Nat /\ IsFiniteSet({z \in T : h[z] = p}) /\ Cardinality({z \in T : h[z] = p}) = F[p]
  <2> DEFINE s == p[1]
             t == p[2]
             W == Crossing(p, v)
             n == Part(s, t)
             all == Cardinality(Shortest(s, t))
             U == {z \in T : h[z] = p}
             P == Parts(t, n, W)
             G == [y \in P |-> <<s, y>>]
  <2>1. p = <<s, t>> /\ s \in Node \ {v} /\ t \in Node \ {v} /\ s # t /\ Reachable(s, t)
    OBVIOUS
  <2>2. n \in Nat /\ n * all = Scale
    BY <2>1, PartIs
  <2>3. all \in Nat \ {0} /\ IsFiniteSet(Shortest(s, t))
    <3>1. Far(s, t, Hop(s, t)) /\ Hop(s, t) \in Nat
      BY <2>1, FarIfReachable DEF Far
    <3> QED BY <2>1, <3>1, SomeWay, WalksFinite DEF Shortest
  <2>4. IsFiniteSet(W) /\ Cardinality(W) \in Nat
    <3>1. W \subseteq Shortest(s, t)
      BY DEF Crossing
    <3> QED BY <2>3, <3>1, FS_Subset, FS_CardinalityType
  <2>5. F[p] = n * Cardinality(W) /\ n * Cardinality(W) \in Nat
    <3> DEFINE w == Cardinality(W)
    <3>1. F[p] = (Scale * w) \div all
      OBVIOUS
    <3> HIDE DEF n, all, w, F
    <3>2. w \in Nat
      BY <2>4 DEF w
    <3>3. Scale * w = (n * w) * all /\ n * w \in Nat
      BY <2>2, <2>3, <3>2
    <3>4. ((n * w) * all) \div all = n * w
      BY <2>3, <3>3, DivTimes
    <3>5. F[p] = n * w
      BY <3>1, <3>3, <3>4
    <3> QED BY <3>3, <3>5 DEF w
  <2>6. ASSUME NEW y \in P
        PROVE  <<s, y>> \in U
    <3>1. y[1] = t /\ y[2] \in 1..n /\ y[3] \in W /\ y = <<t, y[2], y[3]>>
      BY DEF Parts
    <3>2. y[3] \in Shortest(s, t) /\ Inside(y[3], v)
      BY <3>1 DEF Crossing
    <3>3. Reachable(s, v) /\ Hop(s, v) < Hop(s, t) /\ Stop(y[3], s, Hop(s, v)) = v
      BY <2>1, <3>2, MeetsAt
    <3>4. Hop(s, t) \in Nat /\ Hop(s, v) \in Nat
      BY <2>1, <3>3, FarIfReachable DEF Far
    <3>5. y[3] \in Ways
      BY <3>2, <3>4, WaysAre DEF Shortest
    <3>6. y \in Node \X Nat \X Ways
      BY <2>1, <2>2, <3>1, <3>5
    <3>7. y \in Ending(s, v, Hop(s, v))
      BY <2>1, <3>1, <3>2, <3>3, <3>4, <3>6 DEF Ending, Lying
    <3>8. <<s, y>> \in T
      BY <2>1, <3>3, <3>6, <3>7 DEF Through
    <3> QED BY <2>1, <3>1, <3>8
  <2>7. ASSUME NEW z \in U
        PROVE  z[2] \in P /\ z = <<s, z[2]>>
    <3>1. z \in T /\ <<z[1], z[2][1]>> = <<s, t>>
      BY <2>1
    <3>2. z[1] = s /\ z[2][1] = t
      BY <3>1
    <3>3. z[2][2] \in 1..Part(z[1], z[2][1]) /\ z[2][3] \in Crossing(<<z[1], z[2][1]>>, v)
          /\ z = <<z[1], <<z[2][1], z[2][2], z[2][3]>>>>
      BY <1>2, <3>1
    <3>4. z[2] = <<t, z[2][2], z[2][3]>>
      BY <3>2, <3>3
    <3>5. z[2][2] \in 1..n /\ z[2][3] \in W
      BY <2>1, <3>2, <3>3
    <3> QED BY <3>2, <3>3, <3>4, <3>5 DEF Parts
  <2>8. IsFiniteSet(P) /\ Cardinality(P) = n * Cardinality(W)
    <3> HIDE DEF n, W
    <3> QED BY <2>2, <2>4, PartsCount
  <2> HIDE DEF P, U
  <2>9. G \in [P -> U] /\ (\A a, b \in P : G[a] = G[b] => a = b) /\ \A z \in U : \E y \in P : G[y] = z
    <3>1. G \in [P -> U]
      BY <2>6
    <3>2. \A a, b \in P : G[a] = G[b] => a = b
      OBVIOUS
    <3>3. \A z \in U : G[z[2]] = z
      BY <2>7
    <3> QED BY <2>7, <3>1, <3>2, <3>3
  <2> HIDE DEF G
  <2>10. IsFiniteSet(U) /\ Cardinality(P) = Cardinality(U)
    BY <2>8, <2>9, Paired
  <2> QED BY <2>5, <2>8, <2>10 DEF U
<1>5. /\ \A p \in S : F[p] \in Nat
      /\ \A p \in S : IsFiniteSet({z \in T : h[z] = p}) /\ Cardinality({z \in T : h[z] = p}) = F[p]
  BY <1>4
<1>6. \A p \in S : F[p] = (Scale * Cardinality(Crossing(p, v))) \div Cardinality(Shortest(p[1], p[2]))
  OBVIOUS
<1> HIDE DEF T, h, F
<1>7. ShareSum(v, S) = SumOf(F, S)
  BY <1>6, ShareIs
<1>8. Cardinality(T) = SumOf(F, S)
  BY <1>1, <1>3, <1>5, Fibers
<1> QED BY <1>7, <1>8 DEF T

LEMMA SharedRight ==
  ASSUME RowsInv, SharesInv, Divides
  PROVE  SharesRight
<1> SUFFICES ASSUME phase = "done", NEW v \in Node
             PROVE  LET pairs == {p \in (Node \ {v}) \X (Node \ {v}) : p[1] # p[2] /\ Reachable(p[1], p[2])}
                        through(p) == Cardinality({f \in Shortest(p[1], p[2]) : Inside(f, v)})
                    IN  state[<<maxLevel + 1, 0, v, Sigma>>] =
                          MapThenSumSet(LAMBDA p : (Scale * through(p)) \div Cardinality(Shortest(p[1], p[2])), pairs)
  BY DEF SharesRight
<1> DEFINE pairs == {p \in (Node \ {v}) \X (Node \ {v}) : p[1] # p[2] /\ Reachable(p[1], p[2])}
<1>1. Turned
  BY DEF RowsInv
<1>2. state[<<maxLevel + 1, 0, v, Sigma>>] = Cardinality(Through(v))
  BY DEF SharesInv, Scored
<1>3. ShareSum(v, pairs) = Cardinality(Through(v))
  BY <1>1, ShareCount
<1> QED BY <1>2, <1>3 DEF ShareSum, Crossing

\* When the run is done every score is right in any graph whose shortest paths Scale can be shared out
\* among: the paths of each pair are counted, and each vertex holds its share of them, over all pairs.
THEOREM BetweennessCorrect == Spec => [](Divides => BetweennessRight)
<1>1. RowsInv /\ SharesInv => (Divides => BetweennessRight)
  BY CountedRight, SharedRight DEF BetweennessRight
<1> QED BY <1>1, RowsInvariant, SharesInvariant, PTL

(***************************************************************************)
(* The rows written                                                        *)
(***************************************************************************)
\* No row a statement is about to insert is there
RowsFresh ==
  /\ phase = "seed" => DOMAIN state = {}
  /\ phase = "forward" => Found \cap DOMAIN state = {}
  /\ phase = "backward" => Layer \cap DOMAIN state = {}
  /\ phase = "total" => Scores \cap DOMAIN state = {}

LEMMA Fresh ==
  ASSUME RowsInv
  PROVE  RowsFresh
<1>0. Turned /\ level \in Nat /\ maxLevel \in Nat
  BY DEF RowsInv
<1>1. ASSUME phase = "forward", NEW k \in Found, k \in DOMAIN state
      PROVE  FALSE
  <2>1. level = maxLevel /\ DOMAIN state = Front(maxLevel) /\ Counted
    BY <1>1 DEF RowsInv
  <2>2. k = <<level + 1, k[2], k[3], Sigma>>
    BY <1>0, <1>1, <2>1, FoundIs
  <2>3. k[1] \in 0..maxLevel
    BY <1>1, <2>1 DEF Front
  <2>4. k[1] = level + 1
    BY <2>2
  <2> QED BY <1>0, <2>1, <2>3, <2>4
<1>2. ASSUME phase = "backward", NEW k \in Layer, k \in DOMAIN state
      PROVE  FALSE
  <2>1. DOMAIN state = Front(maxLevel) \cup Rear(level + 1)
    BY <1>2 DEF RowsInv
  <2>2. k[1] = level /\ k[4] = Delta
    BY <1>2, LayerIs DEF Rear
  <2>3. k \notin Front(maxLevel)
    BY <2>2 DEF Front, Sigma, Delta
  <2>4. k \notin Rear(level + 1)
    <3>1. ~(level >= level + 1)
      BY <1>0
    <3> QED BY <2>2, <3>1 DEF Rear
  <2> QED BY <1>2, <2>1, <2>3, <2>4
<1>3. ASSUME phase = "total", NEW k \in Scores, k \in DOMAIN state
      PROVE  FALSE
  <2>1. DOMAIN state = Front(maxLevel) \cup Rear(0)
    BY <1>3 DEF RowsInv
  <2>2. k[2] = 0
    BY <1>3 DEF Scores
  <2>3. 0 \notin Node
    BY BetweennessAssumption
  <2>4. k[2] \in Node
    BY <1>3, <2>1 DEF Front, Rear
  <2> QED BY <2>2, <2>3, <2>4
<1>4. phase = "seed" => DOMAIN state = {}
  BY DEF RowsInv
<1> QED BY <1>1, <1>2, <1>3, <1>4 DEF RowsFresh

\* No statement meets a row that is there: each is a plain INSERT, and the primary key is the row's place
\* (barrier_state in storage.ts, STATE_INSERT in kernel.ts), so one that did would fail the call.
THEOREM InsertsFresh == Spec => []RowsFresh
BY RowsInvariant, Fresh, PTL
=============================================================================
