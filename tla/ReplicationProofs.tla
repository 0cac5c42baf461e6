------------------------- MODULE ReplicationProofs -------------------------
(***************************************************************************)
(* What replication promises for any number of peers and workers, whatever *)
(* the checkpoints, pages, filters and hash order: the tables' types and   *)
(* the feed's order, live or deleted but never both, every change enters   *)
(* the feed, no version is lost, and no checkpoint passes a live version   *)
(* its target does not hold.                                               *)
(* Then what copying a graph one way onto one nobody writes to promises,   *)
(* for any graph: the copy goes through stages the original has been       *)
(* through, in their order, and neither graph ever shows an edge without   *)
(* both its ends or loses a version.  Fed unpaged and unfiltered the copy  *)
(* is level with the original up to the checkpoint, and no batch is ever   *)
(* refused.                                                                *)
(***************************************************************************)
EXTENDS ReplicationMirrors, FiniteSetTheorems, SequenceTheorems, TLAPS

-----------------------------------------------------------------------------
\* Listings of finite sets.

\* A listing of a finite set has its elements and no other, each once.
LEMMA Listed ==
    ASSUME NEW S, IsFiniteSet(S), NEW s \in SetToSeqs(S)
    PROVE  /\ s \in Seq(S) /\ ToSet(s) = S
           /\ \A i, j \in DOMAIN s : s[i] = s[j] => i = j
<1> DEFINE D == 1 .. Cardinality(S)
<1>1. /\ s \in [D -> S]
      /\ \A i, j \in D : i # j => s[i] # s[j]
  BY DEF SetToSeqs
<1>2. Cardinality(S) \in Nat
  BY FS_CardinalityType
<1>3. s \in Injection(D, S)
  BY <1>1 DEF Injection, IsInjective
<1>4. IsFiniteSet(D) /\ Cardinality(D) = Cardinality(S)
  BY <1>2, FS_Interval
<1>5. s \in Surjection(D, S)
  BY <1>3, <1>4, FS_Injection
<1>6. ToSet(s) = S
  BY <1>1, <1>5 DEF ToSet, Surjection
<1>7. s \in Seq(S)
  BY <1>1, <1>2
<1> QED
  BY <1>1, <1>6, <1>7

\* What two lists joined hold.
LEMMA Joined ==
    ASSUME NEW S, NEW vs \in Seq(S), NEW es \in Seq(S)
    PROVE  vs \o es \in Seq(S) /\ ToSet(vs \o es) = ToSet(vs) \cup ToSet(es)
<1> DEFINE s == vs \o es
<1>1. s \in Seq(S) /\ Len(s) = Len(vs) + Len(es) /\ Len(vs) \in Nat /\ Len(es) \in Nat
  OBVIOUS
<1>2. \A i \in 1 .. Len(vs) : s[i] = vs[i] /\ i \in 1 .. Len(s)
  BY <1>1
<1>3. \A i \in 1 .. Len(es) : s[Len(vs) + i] = es[i] /\ Len(vs) + i \in 1 .. Len(s)
  BY <1>1
<1>4. \A i \in 1 .. Len(s) : i \in 1 .. Len(vs) \/ \E j \in 1 .. Len(es) : i = Len(vs) + j
  <2> TAKE i \in 1 .. Len(s)
  <2>1. i \in 1 .. Len(vs) \/ (i - Len(vs) \in 1 .. Len(es) /\ i = Len(vs) + (i - Len(vs)))
    BY <1>1
  <2> QED
    BY <2>1
<1>5. DOMAIN s = 1 .. Len(s) /\ DOMAIN vs = 1 .. Len(vs) /\ DOMAIN es = 1 .. Len(es)
  BY <1>1
<1> HIDE DEF s
<1>6. ASSUME NEW i \in 1 .. Len(s)
      PROVE  s[i] \in ToSet(vs) \cup ToSet(es)
  BY <1>2, <1>3, <1>4, <1>5 DEF ToSet
<1>7. \A x \in ToSet(vs) \cup ToSet(es) : \E i \in 1 .. Len(s) : x = s[i]
  BY <1>2, <1>3, <1>5 DEF ToSet
<1>8. ToSet(s) = ToSet(vs) \cup ToSet(es)
  BY <1>5, <1>6, <1>7, Zenon DEF ToSet
<1> QED
  BY <1>1, <1>8 DEF s

\* The refresh's order over a set of elements lists it, vertices first.
LEMMA RowOrdered ==
    ASSUME NEW S \in SUBSET Gid, IsFiniteSet(S), NEW s \in RowOrders(S)
    PROVE  s \in Seq(Gid) /\ ToSet(s) = S
<1>1. PICK vs \in SetToSeqs(S \cap VGid), es \in SetToSeqs(S \cap EGid) : s = vs \o es
  <2>1. PICK o \in SetToSeqs(S \cap VGid) \X SetToSeqs(S \cap EGid) : s = o[1] \o o[2]
    BY DEF RowOrders
  <2> QED
    BY <2>1
<1>2. IsFiniteSet(S \cap VGid) /\ IsFiniteSet(S \cap EGid)
  BY FS_Intersection
<1>3. vs \in Seq(S \cap VGid) /\ ToSet(vs) = S \cap VGid
  BY <1>2, Listed
<1>4. es \in Seq(S \cap EGid) /\ ToSet(es) = S \cap EGid
  BY <1>2, Listed
<1>5. vs \in Seq(Gid) /\ es \in Seq(Gid)
  BY <1>3, <1>4 DEF Gid
<1>6. s \in Seq(Gid) /\ ToSet(s) = ToSet(vs) \cup ToSet(es)
  BY <1>1, <1>5, Joined
<1> QED
  BY <1>3, <1>4, <1>6 DEF Gid

\* A listed element's position is a place it is listed at.
LEMMA Positioned ==
    ASSUME NEW s, NEW x \in ToSet(s)
    PROVE  Position(s, x) \in DOMAIN s /\ s[Position(s, x)] = x
BY DEF ToSet, Position

-----------------------------------------------------------------------------
\* Rows of a feed in the order of their seqs.

\* How many members of a set have a key no higher than one of them.
Rank(S, key, x) == Cardinality({y \in S : key[y] <= key[x]})

\* Ranks number finitely many members with distinct keys from 1 on, in order.
LEMMA Ranked ==
    ASSUME NEW S, IsFiniteSet(S), NEW key \in [S -> Nat],
           \A x, y \in S : key[x] = key[y] => x = y
    PROVE  /\ Cardinality(S) \in Nat
           /\ \A x \in S : Rank(S, key, x) \in 1 .. Cardinality(S)
           /\ \A x, y \in S : key[x] < key[y] => Rank(S, key, x) < Rank(S, key, y)
           /\ \A n \in 1 .. Cardinality(S) : \E x \in S : Rank(S, key, x) = n
<1> DEFINE upto(x) == {y \in S : key[y] <= key[x]}
           n == Cardinality(S)
           rank == [x \in S |-> Rank(S, key, x)]
<1>1. n \in Nat
  BY FS_CardinalityType
<1>2. ASSUME NEW x \in S
      PROVE  IsFiniteSet(upto(x)) /\ Cardinality(upto(x)) \in 1 .. n
  <2>1. upto(x) \in SUBSET S /\ x \in upto(x)
    OBVIOUS
  <2>2. IsFiniteSet(upto(x)) /\ Cardinality(upto(x)) <= n
    BY <2>1, FS_Subset
  <2>3. Cardinality(upto(x)) \in Nat /\ Cardinality(upto(x)) # 0
    BY <2>1, <2>2, FS_CardinalityType, FS_EmptySet
  <2> QED
    BY <2>2, <2>3, <1>1
<1>3. ASSUME NEW x \in S, NEW y \in S, key[x] < key[y]
      PROVE  Rank(S, key, x) < Rank(S, key, y)
  <2>1. upto(x) \in SUBSET upto(y) /\ y \in upto(y) /\ y \notin upto(x)
    BY <1>3
  <2>2. Cardinality(upto(x)) <= Cardinality(upto(y)) /\ Cardinality(upto(x)) # Cardinality(upto(y))
    BY <2>1, <1>2, FS_Subset
  <2>3. Cardinality(upto(x)) \in Nat /\ Cardinality(upto(y)) \in Nat
    BY <1>2, FS_CardinalityType
  <2> QED
    BY <2>2, <2>3 DEF Rank
<1>4. rank \in Injection(S, 1 .. n)
  <2>1. rank \in [S -> 1 .. n]
    BY <1>2 DEF Rank
  <2>2. ASSUME NEW x \in S, NEW y \in S, Rank(S, key, x) = Rank(S, key, y)
        PROVE  x = y
    <3>1. Rank(S, key, x) \in Nat
      BY <1>1, <1>2 DEF Rank
    <3>2. ~(key[x] < key[y]) /\ ~(key[y] < key[x])
      BY <1>3, <2>2, <3>1
    <3> QED
      BY <3>2
  <2> QED
    BY <2>1, <2>2 DEF Injection, IsInjective
<1>5. rank \in Surjection(S, 1 .. n)
  <2>1. IsFiniteSet(1 .. n) /\ Cardinality(1 .. n) = n
    BY <1>1, FS_Interval
  <2> QED
    BY <2>1, <1>4, FS_Injection
<1> QED
  BY <1>1, <1>2, <1>3, <1>5 DEF Surjection, Rank

\* The member of each rank is the member that has it.
LEMMA OfRank ==
    ASSUME NEW S, IsFiniteSet(S), NEW key \in [S -> Nat],
           \A x, y \in S : key[x] = key[y] => x = y
    PROVE  LET at(n) == CHOOSE x \in S : Rank(S, key, x) = n
           IN  /\ \A n \in 1 .. Cardinality(S) : at(n) \in S
               /\ \A x \in S : \E n \in 1 .. Cardinality(S) : at(n) = x
<1> DEFINE at(n) == CHOOSE x \in S : Rank(S, key, x) = n
<1>1. \A n \in 1 .. Cardinality(S) : at(n) \in S /\ Rank(S, key, at(n)) = n
  BY Ranked
<1>2. ASSUME NEW x \in S
      PROVE  Rank(S, key, x) \in 1 .. Cardinality(S) /\ at(Rank(S, key, x)) = x
  <2> DEFINE y == at(Rank(S, key, x))
  <2>1. Rank(S, key, x) \in 1 .. Cardinality(S)
    BY Ranked
  <2>2. y \in S /\ Rank(S, key, y) = Rank(S, key, x)
    BY <2>1, <1>1
  <2> HIDE DEF y
  <2>3. /\ ~(key[x] < key[y]) /\ ~(key[y] < key[x])
        /\ key[x] \in Nat /\ key[y] \in Nat
    BY <2>1, <2>2, Ranked
  <2> QED
    BY <2>1, <2>2, <2>3 DEF y
<1> QED
  BY <1>1, <1>2

\* The rows in feed order are rows, and all of them.
LEMMA InFeedOrder ==
    ASSUME NEW rows, IsFiniteSet(rows), \A r \in rows : r.seq \in Nat,
           \A q, r \in rows : q.seq = r.seq => q = r
    PROVE  /\ BySeq(rows) \in Seq(rows)
           /\ \A r \in rows : \E i \in DOMAIN BySeq(rows) : BySeq(rows)[i] = r
<1> DEFINE n == Cardinality(rows)
           key == [r \in rows |-> r.seq]
           at(i) == CHOOSE r \in rows : Rank(rows, key, r) = i
<1>1. n \in Nat
  BY FS_CardinalityType
<1>2. key \in [rows -> Nat] /\ \A q, r \in rows : key[q] = key[r] => q = r
  OBVIOUS
<1>3. /\ \A i \in 1 .. n : at(i) \in rows
      /\ \A r \in rows : \E i \in 1 .. n : at(i) = r
  <2> HIDE DEF key
  <2> QED
    BY <1>2, OfRank
<1>4. \A r \in rows : Rank(rows, key, r) = Cardinality({q \in rows : q.seq <= r.seq})
  <2> TAKE r \in rows
  <2>1. {q \in rows : key[q] <= key[r]} = {q \in rows : q.seq <= r.seq}
    OBVIOUS
  <2> QED
    BY <2>1 DEF Rank
<1>5. BySeq(rows) = [i \in 1 .. n |-> at(i)]
  <2> DEFINE nth(i) == CHOOSE r \in rows : Cardinality({q \in rows : q.seq <= r.seq}) = i
  <2>1. \A i : at(i) = nth(i)
    BY <1>4
  <2>2. BySeq(rows) = [i \in 1 .. n |-> nth(i)]
    BY Zenon DEF BySeq
  <2> HIDE DEF at, nth
  <2> QED
    BY <2>1, <2>2
<1> HIDE DEF at
<1> QED
  BY <1>1, <1>3, <1>5

\* The deletes outside a set are those of the list whose element is not in it.
LEMMA Outside ==
    ASSUME NEW dels \in Seq(Leaf), NEW gids
    PROVE  LET out == DeletesOutside(dels, gids)
           IN  /\ out \in Seq(Leaf)
               /\ ToSet(out) = {d \in ToSet(dels) : d.gid \notin gids}
<1> DEFINE places == {i \in DOMAIN dels : dels[i].gid \notin gids}
           n == Cardinality(places)
           key == [i \in places |-> i]
           at(k) == CHOOSE i \in places : Rank(places, key, i) = k
           out == DeletesOutside(dels, gids)
<1>1. DOMAIN dels = 1 .. Len(dels) /\ Len(dels) \in Nat
  OBVIOUS
<1>2. places \in SUBSET (1 .. Len(dels)) /\ IsFiniteSet(places) /\ n \in Nat
  <2>1. places \in SUBSET (1 .. Len(dels)) /\ IsFiniteSet(1 .. Len(dels))
    BY <1>1, FS_Interval
  <2> QED
    BY <2>1, FS_Subset, FS_CardinalityType
<1>3. key \in [places -> Nat] /\ \A i, j \in places : key[i] = key[j] => i = j
  BY <1>2
<1>4. /\ \A k \in 1 .. n : at(k) \in places
      /\ \A i \in places : \E k \in 1 .. n : at(k) = i
  <2> HIDE DEF key
  <2> QED
    BY <1>2, <1>3, OfRank
<1>5. \A i \in places : Rank(places, key, i) = Cardinality({j \in places : j <= i})
  <2> TAKE i \in places
  <2>1. {j \in places : key[j] <= key[i]} = {j \in places : j <= i}
    OBVIOUS
  <2> QED
    BY <2>1 DEF Rank
<1>6. out = [k \in 1 .. n |-> dels[at(k)]]
  <2> DEFINE nth(k) == CHOOSE i \in places : Cardinality({j \in places : j <= i}) = k
  <2>1. \A k : at(k) = nth(k)
    BY <1>5
  <2>2. out = [k \in 1 .. n |-> dels[nth(k)]]
    BY Zenon DEF DeletesOutside
  <2> HIDE DEF at, nth, out
  <2> QED
    BY <2>1, <2>2
<1> HIDE DEF at, out
<1>7. out \in Seq(Leaf) /\ DOMAIN out = 1 .. n /\ \A k \in 1 .. n : out[k] = dels[at(k)]
  BY <1>1, <1>2, <1>4, <1>6
<1>8. ToSet(out) = {d \in ToSet(dels) : d.gid \notin gids}
  <2>1. \A k \in 1 .. n : out[k] \in ToSet(dels) /\ out[k].gid \notin gids
    BY <1>4, <1>7 DEF ToSet
  <2>2. ASSUME NEW d \in ToSet(dels), d.gid \notin gids
        PROVE  \E k \in 1 .. n : out[k] = d
    <3>1. PICK i \in places : dels[i] = d
      BY <2>2 DEF ToSet
    <3> QED
      BY <1>4, <1>7, <3>1
  <2> QED
    BY <1>7, <2>1, <2>2 DEF ToSet
<1> QED
  BY <1>7, <1>8 DEF out

-----------------------------------------------------------------------------
\* One graph's tables.

\* The live rows outside S and the tombstones hold distinct seqs up to
\* update_seq.
Numbered(st, S) ==
    /\ \A g \in Live(st) \ S : st.live[g].seq \in 1 .. st.counter
    /\ \A g, h \in Live(st) \ S : st.live[g].seq = st.live[h].seq => g = h
    /\ \A t \in st.tombs : t.seq \in 1 .. st.counter
    /\ \A t, u \in st.tombs : t.seq = u.seq => t = u
    /\ \A g \in Live(st) \ S, t \in st.tombs : st.live[g].seq # t.seq

Exclusive(st) == Live(st) \cap Buried(st) = {}

\* What every operation on a graph relies on and leaves.
Sound(st) == st \in Store /\ Numbered(st, {}) /\ Exclusive(st) /\ IsFiniteSet(st.conflicts)

LEMMA Typed ==
    ASSUME NEW st \in Store
    PROVE  /\ st.live \in [Gid -> [rev : Rev \cup {NoRev}, seq : Nat]]
           /\ st.weak \in SUBSET EGid /\ st.counter \in Nat
           /\ st.tombs \in SUBSET [gid : Gid, rev : Rev, seq : Nat]
           /\ st.conflicts \in SUBSET [gid : Gid, rev : Rev, deleted : BOOLEAN]
           /\ \A g \in Gid : /\ st.live[g].rev \in Rev \cup {NoRev} /\ st.live[g].seq \in Nat
                              /\ st.live[g] = [rev |-> st.live[g].rev, seq |-> st.live[g].seq]
                              /\ g \in Live(st) => st.live[g].rev \in Rev
           /\ \A t \in st.tombs : t.gid \in Gid /\ t.rev \in Rev /\ t.seq \in Nat
BY DEF Store, Live

\* A store is its five tables, and assignments to some leave the others.
Tables(live, weak, tombs, conflicts, counter) ==
    [live |-> live, weak |-> weak, tombs |-> tombs, conflicts |-> conflicts, counter |-> counter]

LEMMA Parts ==
    ASSUME NEW st \in Store
    PROVE  st = Tables(st.live, st.weak, st.tombs, st.conflicts, st.counter)
BY DEF Store, Tables

LEMMA Table ==
    ASSUME NEW st, NEW l, NEW w, NEW t, NEW f, NEW n, st = Tables(l, w, t, f, n)
    PROVE  /\ st.live = l /\ st.weak = w /\ st.tombs = t /\ st.conflicts = f /\ st.counter = n
           /\ l \in [Gid -> [rev : Rev \cup {NoRev}, seq : Nat]] /\ w \in SUBSET EGid
                 /\ t \in SUBSET [gid : Gid, rev : Rev, seq : Nat]
                 /\ f \in SUBSET [gid : Gid, rev : Rev, deleted : BOOLEAN] /\ n \in Nat
              => st \in Store
BY DEF Tables, Store

\* The assignments the operations make, named so that lemmas can speak of them.
SetLive(st, live)                == [st EXCEPT !.live = live]
SetWeak(st, weak)                == [st EXCEPT !.weak = weak]
SetConflicts(st, conflicts)      == [st EXCEPT !.conflicts = conflicts]
SetRows(st, live, weak)          == [st EXCEPT !.live = live, !.weak = weak]
SetGraves(st, tombs, conflicts)  == [st EXCEPT !.tombs = tombs, !.conflicts = conflicts]
SetSeqs(st, live, tombs, counter) ==
    [st EXCEPT !.live = live, !.tombs = tombs, !.counter = counter]

LEMMA AssignedOne ==
    ASSUME NEW st \in Store, NEW x
    PROVE  /\ SetLive(st, x) = Tables(x, st.weak, st.tombs, st.conflicts, st.counter)
           /\ SetWeak(st, x) = Tables(st.live, x, st.tombs, st.conflicts, st.counter)
           /\ SetConflicts(st, x) = Tables(st.live, st.weak, st.tombs, x, st.counter)
BY Parts DEF Tables, SetLive, SetWeak, SetConflicts

LEMMA AssignedRows ==
    ASSUME NEW st \in Store, NEW x, NEW y
    PROVE  SetRows(st, x, y) = Tables(x, y, st.tombs, st.conflicts, st.counter)
<1> DEFINE first == [st EXCEPT !.live = x]
<1>1. first = Tables(x, st.weak, st.tombs, st.conflicts, st.counter)
  BY Parts DEF Tables
<1>2. SetRows(st, x, y) = [first EXCEPT !.weak = y]
  BY Zenon DEF SetRows
<1> HIDE DEF first
<1>3. [first EXCEPT !.weak = y] = Tables(x, y, st.tombs, st.conflicts, st.counter)
  BY <1>1 DEF Tables
<1> QED
  BY <1>2, <1>3, Zenon

LEMMA AssignedGraves ==
    ASSUME NEW st \in Store, NEW x, NEW y
    PROVE  SetGraves(st, x, y) = Tables(st.live, st.weak, x, y, st.counter)
<1> DEFINE first == [st EXCEPT !.tombs = x]
<1>1. first = Tables(st.live, st.weak, x, st.conflicts, st.counter)
  BY Parts DEF Tables
<1>2. SetGraves(st, x, y) = [first EXCEPT !.conflicts = y]
  BY Zenon DEF SetGraves
<1> HIDE DEF first
<1>3. [first EXCEPT !.conflicts = y] = Tables(st.live, st.weak, x, y, st.counter)
  BY <1>1 DEF Tables
<1> QED
  BY <1>2, <1>3, Zenon

LEMMA AssignedSeqs ==
    ASSUME NEW st \in Store, NEW x, NEW y, NEW z
    PROVE  SetSeqs(st, x, y, z) = Tables(x, st.weak, y, st.conflicts, z)
<1> DEFINE first == [st EXCEPT !.live = x]
           second == [first EXCEPT !.tombs = y]
<1>1. first = Tables(x, st.weak, st.tombs, st.conflicts, st.counter)
  BY Parts DEF Tables
<1>2. SetSeqs(st, x, y, z) = [second EXCEPT !.counter = z]
  BY Zenon DEF SetSeqs
<1> HIDE DEF first
<1>3. second = Tables(x, st.weak, y, st.conflicts, st.counter)
  BY <1>1 DEF Tables
<1> HIDE DEF second
<1>4. [second EXCEPT !.counter = z] = Tables(x, st.weak, y, st.conflicts, z)
  BY <1>3 DEF Tables
<1> QED
  BY <1>2, <1>4, Zenon

LEMMA Renumber ==
    ASSUME NEW st \in Store, NEW g \in Gid, NEW n
    PROVE  [st.live[g] EXCEPT !.seq = n] = [rev |-> st.live[g].rev, seq |-> n]
<1>1. st.live[g] \in [rev : Rev \cup {NoRev}, seq : Nat]
  BY Typed
<1> QED
  BY <1>1

\* A graph is numbered when no two rows of its feed share a seq.
LEMMA FeedNumbered ==
    ASSUME NEW st \in Store
    PROVE  Numbered(st, {}) <=>
              \A q, r \in FeedRows(st, Unfiltered) :
                  q.seq \in 1 .. st.counter /\ (q.seq = r.seq => q = r)
<1> DEFINE row(g) == [gid |-> g, rev |-> st.live[g].rev, seq |-> st.live[g].seq,
                      deleted |-> FALSE, losers |-> Losers(st, g)]
           grave(t) == [gid |-> t.gid, rev |-> t.rev, seq |-> t.seq, deleted |-> TRUE, losers |-> {}]
<1>1. FeedRows(st, Unfiltered) = {row(g) : g \in Live(st)} \cup {grave(t) : t \in st.tombs}
  BY DEF FeedRows, Selected
<1>2. /\ \A g : row(g).seq = st.live[g].seq /\ row(g).gid = g /\ row(g).deleted = FALSE
      /\ \A t : grave(t).seq = t.seq /\ grave(t).gid = t.gid /\ grave(t).rev = t.rev
                /\ grave(t).deleted = TRUE
  OBVIOUS
<1>3. \A t, u \in st.tombs : grave(t) = grave(u) => t = u
  <2> TAKE t, u \in st.tombs
  <2> HAVE grave(t) = grave(u)
  <2>1. t.gid = u.gid /\ t.rev = u.rev /\ t.seq = u.seq
    BY <1>2
  <2>2. t \in [gid : Gid, rev : Rev, seq : Nat] /\ u \in [gid : Gid, rev : Rev, seq : Nat]
    BY Typed
  <2> QED
    BY <2>1, <2>2
<1>4. \A g \in Live(st), t \in st.tombs : row(g) # grave(t)
  BY <1>2
<1> HIDE DEF row, grave
<1>5. ASSUME Numbered(st, {}), NEW q \in FeedRows(st, Unfiltered), NEW r \in FeedRows(st, Unfiltered)
      PROVE  q.seq \in 1 .. st.counter /\ (q.seq = r.seq => q = r)
  BY <1>1, <1>2, <1>5 DEF Numbered
<1>6. ASSUME \A q, r \in FeedRows(st, Unfiltered) :
                q.seq \in 1 .. st.counter /\ (q.seq = r.seq => q = r)
      PROVE  Numbered(st, {})
  <2>1. /\ \A g \in Live(st) : row(g) \in FeedRows(st, Unfiltered)
        /\ \A t \in st.tombs : grave(t) \in FeedRows(st, Unfiltered)
    BY <1>1
  <2>2. \A g \in Live(st) : st.live[g].seq \in 1 .. st.counter
    BY <2>1, <1>2, <1>6
  <2>3. \A g, h \in Live(st) : st.live[g].seq = st.live[h].seq => g = h
    BY <2>1, <1>2, <1>6
  <2>4. \A t \in st.tombs : t.seq \in 1 .. st.counter
    BY <2>1, <1>2, <1>6
  <2>5. \A t, u \in st.tombs : t.seq = u.seq => t = u
    BY <2>1, <1>2, <1>3, <1>6
  <2>6. \A g \in Live(st), t \in st.tombs : st.live[g].seq # t.seq
    BY <2>1, <1>2, <1>4, <1>6
  <2> QED
    BY <2>2, <2>3, <2>4, <2>5, <2>6 DEF Numbered
<1> QED
  BY <1>5, <1>6

\* Seqs up to update_seq bound the tables and every feed.
LEMMA FiniteFeed ==
    ASSUME NEW st \in Store, Numbered(st, {})
    PROVE  /\ IsFiniteSet(Live(st)) /\ IsFiniteSet(st.tombs)
           /\ \A filter : IsFiniteSet(FeedRows(st, filter))
<1> DEFINE rows == FeedRows(st, Unfiltered)
           n == st.counter
<1>1. IsFiniteSet(1 .. n)
  BY Typed, FS_Interval
<1>2. [g \in Live(st) |-> st.live[g].seq] \in Injection(Live(st), 1 .. n)
  BY DEF Numbered, Injection, IsInjective
<1>3. [r \in rows |-> r.seq] \in Injection(rows, 1 .. n)
  BY FeedNumbered DEF Injection, IsInjective
<1>4. [t \in st.tombs |-> t.seq] \in Injection(st.tombs, 1 .. n)
  BY DEF Numbered, Injection, IsInjective
<1>5. IsFiniteSet(Live(st)) /\ IsFiniteSet(rows) /\ IsFiniteSet(st.tombs)
  BY <1>1, <1>2, <1>3, <1>4, FS_Injection
<1>6. ASSUME NEW filter
      PROVE  FeedRows(st, filter) \in SUBSET rows
  <2>1. Selected(st, filter) \in SUBSET Selected(st, Unfiltered)
    BY DEF Selected
  <2> QED
    BY <2>1 DEF FeedRows
<1> QED
  BY <1>5, <1>6, FS_Subset

\* What the refresh makes of a graph: the touched rows and the new tombstones
\* take seqs past the old update_seq, and nothing else changes.
Renumbers(st, touched, buried, new) ==
    /\ new \in Store /\ Numbered(new, {})
    /\ new.weak = st.weak /\ new.conflicts = st.conflicts
    /\ new.counter = st.counter + Len(touched) + Len(buried)
    /\ \A g \in Gid : new.live[g].rev = st.live[g].rev
    /\ \A g \in ToSet(touched) : new.live[g].seq > st.counter
    /\ \A g \in Gid \ ToSet(touched) : new.live[g] = st.live[g]
    /\ st.tombs \subseteq new.tombs
    /\ \A t \in new.tombs \ st.tombs : \E i \in DOMAIN buried :
          t.gid = buried[i].gid /\ t.rev = buried[i].rev /\ t.seq > st.counter
    /\ \A i \in DOMAIN buried : \E t \in new.tombs :
          t.gid = buried[i].gid /\ t.rev = buried[i].rev /\ t.seq > st.counter

LEMMA Refreshed ==
    ASSUME NEW st \in Store, NEW touched \in Seq(Gid), NEW buried \in Seq(Leaf),
           Numbered(st, ToSet(touched))
    PROVE  Renumbers(st, touched, buried, Refresh(st, touched, buried))
<1> DEFINE T == ToSet(touched)
           n == st.counter
           k == Len(touched)
           m == Len(buried)
           grave(i) == [gid |-> buried[i].gid, rev |-> buried[i].rev, seq |-> n + k + i]
           live == [g \in Gid |-> IF g \in T THEN [st.live[g] EXCEPT !.seq = n + Position(touched, g)]
                                  ELSE st.live[g]]
           tombs == st.tombs \cup {grave(i) : i \in DOMAIN buried}
           new == Refresh(st, touched, buried)
<1>1. /\ DOMAIN touched = 1 .. k /\ DOMAIN buried = 1 .. m /\ k \in Nat /\ m \in Nat /\ n \in Nat
  BY Typed
<1>2. \A i \in 1 .. m : buried[i] \in Leaf
  BY <1>1
<1>3. /\ new.live = live /\ new.weak = st.weak /\ new.conflicts = st.conflicts
      /\ new.counter = n + k + m
      /\ new.tombs = st.tombs \cup {grave(i) : i \in 1 .. m}
      /\ new = Tables(new.live, new.weak, new.tombs, new.conflicts, new.counter)
  <2>1. new = SetSeqs(st, live, tombs, n + k + m)
    BY Zenon DEF Refresh, SetSeqs
  <2> HIDE DEF live, tombs, new
  <2>2. new = Tables(live, st.weak, tombs, st.conflicts, n + k + m)
    BY <2>1, AssignedSeqs
  <2>3. /\ new.live = live /\ new.weak = st.weak /\ new.tombs = tombs
        /\ new.conflicts = st.conflicts /\ new.counter = n + k + m
    BY <2>2, Table
  <2>4. tombs = st.tombs \cup {grave(i) : i \in 1 .. m}
    BY <1>1 DEF tombs
  <2> QED
    BY <2>2, <2>3, <2>4, Zenon
<1>4. \A g \in T : Position(touched, g) \in 1 .. k /\ touched[Position(touched, g)] = g
  BY <1>1, Positioned
<1>5. \A g \in Gid : /\ live[g].rev = st.live[g].rev
                     /\ g \in T => live[g].seq = n + Position(touched, g)
                     /\ g \notin T => live[g] = st.live[g]
                     /\ live[g] \in [rev : Rev \cup {NoRev}, seq : Nat]
  <2> TAKE g \in Gid
  <2>1. st.live[g].rev \in Rev \cup {NoRev} /\ st.live[g] \in [rev : Rev \cup {NoRev}, seq : Nat]
    BY Typed
  <2>2. live[g] = IF g \in T THEN [rev |-> st.live[g].rev, seq |-> n + Position(touched, g)]
                  ELSE st.live[g]
    BY Renumber
  <2> HIDE DEF live
  <2> QED
    BY <1>1, <1>4, <2>1, <2>2
<1>6. \A i \in 1 .. m : /\ grave(i).gid = buried[i].gid /\ grave(i).rev = buried[i].rev
                        /\ grave(i).seq = n + k + i
                        /\ grave(i) \in [gid : Gid, rev : Rev, seq : Nat]
  BY <1>1, <1>2 DEF Leaf
<1>7. T \subseteq Gid
  BY <1>1 DEF ToSet
<1>8. new \in Store
  <2>1. new.live \in [Gid -> [rev : Rev \cup {NoRev}, seq : Nat]]
    BY <1>3, <1>5
  <2>2. new.tombs \in SUBSET [gid : Gid, rev : Rev, seq : Nat]
    <3>1. st.tombs \in SUBSET [gid : Gid, rev : Rev, seq : Nat]
      BY Typed
    <3>2. {grave(i) : i \in 1 .. m} \in SUBSET [gid : Gid, rev : Rev, seq : Nat]
      BY <1>6
    <3> HIDE DEF grave
    <3> QED
      BY <1>3, <3>1, <3>2
  <2>3. new.counter \in Nat
    BY <1>1, <1>3
  <2> HIDE DEF new
  <2> QED
    BY <1>3, <2>1, <2>2, <2>3, Typed DEF Store, Tables
<1> HIDE DEF live, grave, T, new
<1>9. Live(new) = Live(st)
  BY <1>3, <1>5 DEF Live
<1>10. Numbered(st, T)
  BY DEF T
<1>11. Numbered(new, {})
  <2>1. ASSUME NEW g \in Live(st)
        PROVE  live[g].seq \in 1 .. n + k + m
    <3>1. g \in Gid
      BY DEF Live
    <3>2. CASE g \in T
      <4>1. PICK i \in 1 .. k : i = Position(touched, g)
        BY <1>4, <3>2
      <4>2. live[g].seq = n + i
        BY <1>5, <3>1, <3>2, <4>1
      <4> QED
        BY <1>1, <4>1, <4>2
    <3>3. CASE g \notin T
      <4>1. live[g].seq \in 1 .. n
        BY <1>5, <1>10, <3>1, <3>3 DEF Numbered
      <4> QED
        BY <1>1, <4>1
    <3> QED
      BY <3>2, <3>3
  <2>2. ASSUME NEW g \in Live(st), NEW h \in Live(st), live[g].seq = live[h].seq
        PROVE  g = h
    <3>1. g \in Gid /\ h \in Gid
      BY DEF Live
    <3>2. CASE g \in T /\ h \in T
      BY <3>1, <3>2, <2>2, <1>1, <1>4, <1>5
    <3>3. CASE g \notin T /\ h \notin T
      BY <3>1, <3>3, <2>2, <1>5, <1>10 DEF Numbered
    <3>4. CASE g \in T /\ h \notin T
      BY <3>1, <3>4, <2>2, <1>1, <1>4, <1>5, <1>10 DEF Numbered
    <3>5. CASE g \notin T /\ h \in T
      BY <3>1, <3>5, <2>2, <1>1, <1>4, <1>5, <1>10 DEF Numbered
    <3> QED
      BY <3>2, <3>3, <3>4, <3>5
  <2>3. \A t \in new.tombs : t.seq \in 1 .. n + k + m
    BY <1>1, <1>3, <1>6, <1>10 DEF Numbered
  <2>4. ASSUME NEW t \in new.tombs, NEW u \in new.tombs, t.seq = u.seq
        PROVE  t = u
    BY <1>1, <1>3, <1>6, <1>10, <2>4 DEF Numbered
  <2>5. ASSUME NEW g \in Live(st), NEW t \in new.tombs
        PROVE  live[g].seq # t.seq
    <3>1. g \in Gid /\ (t \in st.tombs \/ \E i \in 1 .. m : t = grave(i))
      BY <1>3 DEF Live
    <3>2. \/ t \in st.tombs /\ t.seq \in 1 .. n
          \/ \E i \in 1 .. m : t.seq = n + k + i
      BY <3>1, <1>6, <1>10 DEF Numbered
    <3>3. CASE g \in T
      <4>1. live[g].seq = n + Position(touched, g) /\ Position(touched, g) \in 1 .. k
        BY <3>1, <3>3, <1>4, <1>5
      <4> QED
        BY <4>1, <3>2, <1>1
    <3>4. CASE g \notin T
      <4>1. live[g] = st.live[g] /\ st.live[g].seq \in 1 .. n
        BY <3>1, <3>4, <1>5, <1>10 DEF Numbered
      <4>2. t \in st.tombs => st.live[g].seq # t.seq
        BY <3>4, <1>10 DEF Numbered
      <4> QED
        BY <4>1, <4>2, <3>2, <1>1
    <3> QED
      BY <3>3, <3>4
  <2> QED
    BY <1>3, <1>9, <2>1, <2>2, <2>3, <2>4, <2>5 DEF Numbered
<1>12. /\ \A g \in T : live[g].seq > n
       /\ \A i \in 1 .. m : grave(i).seq > n
  BY <1>1, <1>4, <1>5, <1>6, <1>7
<1>13. \A t \in new.tombs \ st.tombs : \E i \in 1 .. m :
          t.gid = buried[i].gid /\ t.rev = buried[i].rev /\ t.seq > n
  BY <1>3, <1>6, <1>12
<1>14. \A i \in 1 .. m : \E t \in new.tombs :
          t.gid = buried[i].gid /\ t.rev = buried[i].rev /\ t.seq > n
  BY <1>3, <1>6, <1>12
<1>15. /\ new.counter = st.counter + Len(touched) + Len(buried) /\ st.tombs \subseteq new.tombs
       /\ new.weak = st.weak /\ new.conflicts = st.conflicts
  BY <1>1, <1>3
<1>16. /\ \A g \in Gid : new.live[g].rev = st.live[g].rev
       /\ \A g \in T : new.live[g].seq > st.counter
       /\ \A g \in Gid \ T : new.live[g] = st.live[g]
  BY <1>3, <1>5, <1>12
<1>17. Renumbers(st, touched, buried, new)
  BY <1>1, <1>8, <1>11, <1>13, <1>14, <1>15, <1>16 DEF T, Renumbers
<1> QED
  BY <1>17 DEF new

-----------------------------------------------------------------------------
\* Revisions.

LEMMA GenIsNat == ASSUME NEW rev \in Rev PROVE Gen(rev) \in Nat
BY DEF Gen, Rev

LEMMA InIds ==
    ASSUME NEW r, NEW n \in 1 .. Len(r), n + RevsLimit > Len(r)
    PROVE  SubSeq(r, 1, n) \in Ids(r)
BY DEF Ids

LEMMA Self ==
    ASSUME NEW r \in Rev
    PROVE  DescendsFrom(r, r)
<1>1. r \in Seq(Content) /\ Len(r) \in Nat /\ Len(r) # 0
  BY EmptySeq DEF Rev, NoRev
<1>2. SubSeq(r, 1, Len(r)) = r
  BY <1>1, SubSeqFull
<1>3. r \in Ids(r)
  <2>1. Len(r) \in 1 .. Len(r) /\ Len(r) + RevsLimit > Len(r)
    BY <1>1, RevsLimitAssumption
  <2> QED
    BY <1>2, <2>1, InIds
<1> QED
  BY <1>1, <1>3 DEF DescendsFrom, Gen

LEMMA Appended ==
    ASSUME NEW r \in Rev \cup {NoRev}, NEW c \in Content
    PROVE  ComputeRev(r, c) \in Rev
<1>1. r \in Seq(Content)
  BY EmptySeq DEF Rev, NoRev
<1>2. Append(r, c) \in Seq(Content) /\ Len(Append(r, c)) = Len(r) + 1 /\ Len(r) \in Nat
  BY <1>1
<1>3. Append(r, c) # << >>
  BY <1>2, EmptySeq
<1> QED
  BY <1>2, <1>3 DEF ComputeRev, Rev, NoRev

\* A write's revision descends from the one it edits, unless the ancestry is
\* cut off at the leaf.
LEMMA Chained ==
    ASSUME RevsLimit > 1, NEW r \in Rev, NEW c \in Content
    PROVE  ComputeRev(r, c) \in Rev /\ DescendsFrom(ComputeRev(r, c), r)
<1> DEFINE s == Append(r, c)
<1>1. r \in Seq(Content) /\ Len(r) \in Nat /\ Len(r) # 0
  BY EmptySeq DEF Rev, NoRev
<1>2. s \in Seq(Content) /\ Len(s) = Len(r) + 1 /\ \A i \in 1 .. Len(r) : s[i] = r[i]
  BY <1>1
<1>3. SubSeq(s, 1, Len(r)) = r
  <2>1. SubSeq(s, 1, Len(r)) = [i \in 1 .. Len(r) |-> s[i]]
    BY <1>1, <1>2
  <2> QED
    BY <1>1, <1>2, <2>1
<1>4. r \in Ids(s)
  <2>1. Len(r) \in 1 .. Len(s) /\ Len(r) + RevsLimit > Len(s)
    BY <1>1, <1>2, RevsLimitAssumption
  <2> QED
    BY <1>3, <2>1, InIds
<1>5. s \in Rev
  BY Appended DEF ComputeRev
<1> QED
  BY <1>1, <1>2, <1>4, <1>5 DEF DescendsFrom, Gen, ComputeRev

-----------------------------------------------------------------------------
\* Local writes.

\* The refresh's promises that outlive it: rows it did not touch are as they
\* were, and what changed took a seq past the old update_seq.
Settled(st, new) ==
    \A g \in Live(new) : new.live[g].seq <= st.counter => g \in Live(st) /\ new.live[g] = st.live[g]

Enters(st, new) ==
    \A g \in Gid : Shown(st, g) # Shown(new, g) =>
        \E r \in FeedRows(new, Unfiltered) : r.gid = g /\ r.seq > st.counter

Advances(st, new) ==
    Sound(new) /\ new.counter >= st.counter /\ Settled(st, new) /\ Enters(st, new)

\* A leaf stays on some line the graph holds.
OnLine(st, l) == \E k \in Leaves(st) : k.gid = l.gid /\ DescendsFrom(k.rev, l.rev)
Keeps(st, new) == \A l \in Leaves(st) : OnLine(new, l)

\* A live row, and a tombstone, are rows of the feed.
LEMMA InFeed ==
    ASSUME NEW st
    PROVE  /\ \A g \in Live(st) : \E r \in FeedRows(st, Unfiltered) :
                  r.gid = g /\ r.seq = st.live[g].seq /\ r.rev = st.live[g].rev
           /\ \A t \in st.tombs : \E r \in FeedRows(st, Unfiltered) :
                  r.gid = t.gid /\ r.seq = t.seq /\ r.rev = t.rev
<1> DEFINE row(g) == [gid |-> g, rev |-> st.live[g].rev, seq |-> st.live[g].seq,
                      deleted |-> FALSE, losers |-> Losers(st, g)]
           grave(t) == [gid |-> t.gid, rev |-> t.rev, seq |-> t.seq, deleted |-> TRUE, losers |-> {}]
<1>1. FeedRows(st, Unfiltered) = {row(g) : g \in Live(st)} \cup {grave(t) : t \in st.tombs}
  BY DEF FeedRows, Selected
<1>2. /\ \A g : row(g).seq = st.live[g].seq /\ row(g).gid = g /\ row(g).rev = st.live[g].rev
      /\ \A t : grave(t).seq = t.seq /\ grave(t).gid = t.gid /\ grave(t).rev = t.rev
  OBVIOUS
<1> HIDE DEF row, grave
<1> QED
  BY <1>1, <1>2

LEMMA AreLeaves ==
    ASSUME NEW st
    PROVE  /\ \A g \in Live(st) : \E k \in Leaves(st) : k.gid = g /\ k.rev = st.live[g].rev
           /\ \A t \in st.tombs \cup st.conflicts : \E k \in Leaves(st) : k.gid = t.gid /\ k.rev = t.rev
           /\ \A k \in Leaves(st) :
                 \/ k.gid \in Live(st) /\ k.rev = st.live[k.gid].rev
                 \/ \E t \in st.tombs \cup st.conflicts : k.gid = t.gid /\ k.rev = t.rev
<1> DEFINE row(g) == [gid |-> g, rev |-> st.live[g].rev]
           wire(t) == [gid |-> t.gid, rev |-> t.rev]
<1>1. Leaves(st) = {row(g) : g \in Live(st)} \cup {wire(t) : t \in st.tombs}
                   \cup {wire(t) : t \in st.conflicts}
  BY DEF Leaves, InWire
<1>2. /\ \A g : row(g).gid = g /\ row(g).rev = st.live[g].rev
      /\ \A t : wire(t).gid = t.gid /\ wire(t).rev = t.rev
  OBVIOUS
<1> HIDE DEF row, wire
<1>3. \A k \in Leaves(st) :
          \/ \E g \in Live(st) : k = row(g)
          \/ \E t \in st.tombs \cup st.conflicts : k = wire(t)
  BY <1>1
<1>4. /\ \A g \in Live(st) : row(g) \in Leaves(st)
      /\ \A t \in st.tombs \cup st.conflicts : wire(t) \in Leaves(st)
  BY <1>1
<1> QED
  BY <1>2, <1>3, <1>4

LEMMA Wrote ==
    ASSUME NEW st, Sound(st), NEW g \in Gid, NEW c \in Content
    PROVE  LET new == Write(st, g, c)
           IN  /\ new \in Store /\ Numbered(new, {})
               /\ new.weak = st.weak /\ new.tombs = st.tombs /\ new.conflicts = st.conflicts
               /\ new.counter = st.counter + 1
               /\ new.live[g].rev = ComputeRev(st.live[g].rev, c) /\ new.live[g].rev \in Rev
               /\ new.live[g].seq > st.counter
               /\ \A h \in Gid \ {g} : new.live[h] = st.live[h]
<1> DEFINE row == [st.live[g] EXCEPT !.rev = ComputeRev(@, c)]
           live == [st.live EXCEPT ![g] = row]
           mid == SetLive(st, live)
           new == Refresh(mid, <<g>>, << >>)
<1>1. st \in Store /\ Numbered(st, {})
  BY DEF Sound
<1>2. Write(st, g, c) = new
  BY Zenon DEF Write, SetLive
<1>3. ComputeRev(st.live[g].rev, c) \in Rev
  <2>1. st.live[g].rev \in Rev \cup {NoRev}
    BY <1>1, Typed
  <2> QED
    BY <2>1, Appended
<1>4. row = [rev |-> ComputeRev(st.live[g].rev, c), seq |-> st.live[g].seq]
  <2>1. st.live[g] \in [rev : Rev \cup {NoRev}, seq : Nat]
    BY <1>1, Typed
  <2> QED
    BY <2>1
<1> HIDE DEF row
<1>5. /\ live \in [Gid -> [rev : Rev \cup {NoRev}, seq : Nat]]
      /\ live[g] = row /\ \A h \in Gid \ {g} : live[h] = st.live[h]
  BY <1>1, <1>3, <1>4, Typed
<1> HIDE DEF live
<1>6. mid = Tables(live, st.weak, st.tombs, st.conflicts, st.counter)
  BY <1>1, AssignedOne
<1>7. /\ mid \in Store /\ mid.live = live /\ mid.weak = st.weak /\ mid.tombs = st.tombs
      /\ mid.conflicts = st.conflicts /\ mid.counter = st.counter
  BY <1>1, <1>5, <1>6, Table, Typed
<1> HIDE DEF mid, new
<1>8. <<g>> \in Seq(Gid) /\ Len(<<g>>) = 1 /\ ToSet(<<g>>) = {g}
  BY DEF ToSet
<1>9. << >> \in Seq(Leaf) /\ Len(<< >>) = 0 /\ DOMAIN << >> = {}
  OBVIOUS
<1>10. Live(mid) \ {g} = Live(st) \ {g}
  BY <1>5, <1>7 DEF Live
<1>11. Numbered(mid, {g})
  BY <1>1, <1>5, <1>7, <1>10 DEF Numbered, Live
<1> DEFINE none == << >>
           one == <<g>>
<1>12. Renumbers(mid, one, none, new)
  BY <1>7, <1>8, <1>9, <1>11, Refreshed DEF new
<1> HIDE DEF one, none
<1>13. /\ ToSet(one) = {g} /\ Len(one) = 1 /\ Len(none) = 0 /\ DOMAIN none = {}
  BY <1>8, <1>9 DEF one, none
<1>14. /\ new \in Store /\ Numbered(new, {})
       /\ new.weak = mid.weak /\ new.conflicts = mid.conflicts
       /\ new.counter = mid.counter + 1 + 0
       /\ \A h \in Gid : new.live[h].rev = mid.live[h].rev
       /\ new.live[g].seq > mid.counter
       /\ \A h \in Gid \ {g} : new.live[h] = mid.live[h]
       /\ new.tombs = mid.tombs
  BY <1>12, <1>13 DEF Renumbers
<1> QED
  BY <1>1, <1>2, <1>3, <1>4, <1>5, <1>7, <1>14, Typed

LEMMA SameShown ==
    ASSUME NEW st, NEW new, NEW g,
           new.live[g].rev = st.live[g].rev,
           {u \in new.tombs : u.gid = g} = {u \in st.tombs : u.gid = g}
    PROVE  Shown(st, g) = Shown(new, g)
BY DEF Shown

\* An addV, addE or property() on an element that is not deleted.
LEMMA WriteAdvances ==
    ASSUME NEW st, Sound(st), NEW g \in Gid \ Buried(st), NEW c \in Content
    PROVE  /\ Advances(st, Write(st, g, c))
           /\ Live(Write(st, g, c)) = Live(st) \cup {g}
<1> DEFINE new == Write(st, g, c)
<1>1. /\ new \in Store /\ Numbered(new, {})
      /\ new.weak = st.weak /\ new.tombs = st.tombs /\ new.conflicts = st.conflicts
      /\ new.counter = st.counter + 1
      /\ new.live[g].rev \in Rev /\ new.live[g].seq > st.counter
      /\ \A h \in Gid \ {g} : new.live[h] = st.live[h]
  BY Wrote
<1>2. st \in Store /\ Exclusive(st) /\ IsFiniteSet(st.conflicts) /\ st.counter \in Nat
  BY Typed DEF Sound
<1> HIDE DEF new
<1>3. Live(new) = Live(st) \cup {g}
  BY <1>1 DEF Live, Rev
<1>4. Sound(new)
  BY <1>1, <1>2, <1>3 DEF Sound, Exclusive, Buried
<1>5. Settled(st, new)
  <2> SUFFICES ASSUME NEW h \in Live(new), new.live[h].seq <= st.counter
               PROVE  h \in Live(st) /\ new.live[h] = st.live[h]
    BY DEF Settled
  <2>1. h # g
    BY <1>1, <1>2, Typed
  <2> QED
    BY <2>1, <1>1, <1>3 DEF Live
<1>6. Enters(st, new)
  <2> SUFFICES ASSUME NEW h \in Gid, Shown(st, h) # Shown(new, h)
               PROVE  \E r \in FeedRows(new, Unfiltered) : r.gid = h /\ r.seq > st.counter
    BY DEF Enters
  <2>1. h = g
    BY <1>1, SameShown
  <2> QED
    BY <2>1, <1>1, <1>3, InFeed
<1>7. new.counter >= st.counter
  BY <1>1, <1>2
<1> QED
  BY <1>3, <1>4, <1>5, <1>6, <1>7 DEF Advances, new

LEMMA WriteKeeps ==
    ASSUME NEW st, Sound(st), NEW g \in Gid, NEW c \in Content,
           g \in Live(st) => RevsLimit > 1
    PROVE  Keeps(st, Write(st, g, c))
<1> DEFINE new == Write(st, g, c)
<1>1. /\ new \in Store
      /\ new.tombs = st.tombs /\ new.conflicts = st.conflicts
      /\ new.live[g].rev = ComputeRev(st.live[g].rev, c) /\ new.live[g].rev \in Rev
      /\ \A h \in Gid \ {g} : new.live[h] = st.live[h]
  BY Wrote
<1>2. st \in Store
  BY DEF Sound
<1> HIDE DEF new
<1> SUFFICES ASSUME NEW l \in Leaves(st)
             PROVE  OnLine(new, l)
  BY DEF Keeps, new
<1>3. CASE l.gid \in Live(st) /\ l.rev = st.live[l.gid].rev
  <2>1. l.gid \in Gid /\ l.rev \in Rev
    BY <1>2, <1>3, Typed DEF Live
  <2>2. l.gid \in Live(new) /\ DescendsFrom(new.live[l.gid].rev, l.rev)
    <3>1. CASE l.gid = g
      BY <3>1, <1>1, <1>3, <2>1, Chained DEF Live, Rev
    <3>2. CASE l.gid # g
      BY <3>2, <1>1, <1>3, <2>1, Self DEF Live
    <3> QED
      BY <3>1, <3>2
  <2> QED
    BY <2>2, AreLeaves DEF OnLine
<1>4. CASE \E t \in st.tombs \cup st.conflicts : l.gid = t.gid /\ l.rev = t.rev
  <2>1. l.rev \in Rev
    BY <1>2, <1>4, Typed
  <2> QED
    BY <1>1, <1>4, <2>1, Self, AreLeaves DEF OnLine
<1> QED
  BY <1>3, <1>4, AreLeaves

\* Marking an edge weak changes nothing the feed or the leaves show.
LEMMA WeakAside ==
    ASSUME NEW st, NEW mid \in Store, Advances(st, mid), Keeps(st, mid), NEW weak \in SUBSET EGid
    PROVE  LET new == SetWeak(mid, weak)
           IN  Advances(st, new) /\ Keeps(st, new) /\ Live(new) = Live(mid)
<1> DEFINE new == SetWeak(mid, weak)
<1>1. new = Tables(mid.live, weak, mid.tombs, mid.conflicts, mid.counter)
  BY AssignedOne
<1>2. /\ new.live = mid.live /\ new.tombs = mid.tombs
      /\ new.conflicts = mid.conflicts /\ new.counter = mid.counter /\ new \in Store
  BY <1>1, Table, Typed
<1> HIDE DEF new
<1>3. Live(new) = Live(mid) /\ Buried(new) = Buried(mid) /\ Leaves(new) = Leaves(mid)
  BY <1>2 DEF Live, Buried, Leaves
<1>4. FeedRows(new, Unfiltered) = FeedRows(mid, Unfiltered)
  BY <1>2, <1>3 DEF FeedRows, Selected, Losers
<1>5. \A g : Shown(new, g) = Shown(mid, g)
  BY <1>2 DEF Shown
<1>6. Sound(new)
  BY <1>2, <1>3 DEF Advances, Sound, Numbered, Exclusive
<1>7. Advances(st, new)
  BY <1>2, <1>3, <1>4, <1>5, <1>6 DEF Advances, Settled, Enters
<1>8. Keeps(st, new)
  BY <1>3 DEF Keeps, OnLine
<1> QED
  BY <1>3, <1>7, <1>8 DEF new

\* Removing some elements' rows leaves every other table and row.
LEMMA Erased ==
    ASSUME NEW st \in Store, NEW S
    PROVE  LET new == Erase(st, S)
           IN  /\ new \in Store /\ Live(new) = Live(st) \ S
               /\ \A g \in Gid \ S : new.live[g] = st.live[g]
               /\ new.weak = st.weak \ S /\ new.tombs = st.tombs
               /\ new.conflicts = st.conflicts /\ new.counter = st.counter
               /\ \A T : Numbered(st, T) => Numbered(new, T)
<1> DEFINE live == [g \in Gid |-> IF g \in S THEN NoRow ELSE st.live[g]]
           weak == st.weak \ S
           new == Erase(st, S)
<1>1. new = SetRows(st, live, weak)
  BY Zenon DEF Erase, SetRows
<1>2. NoRow \in [rev : Rev \cup {NoRev}, seq : Nat] /\ NoRow.rev = NoRev
  BY DEF NoRow
<1>3. /\ live \in [Gid -> [rev : Rev \cup {NoRev}, seq : Nat]]
      /\ \A g \in Gid : live[g] = IF g \in S THEN NoRow ELSE st.live[g]
  BY <1>2, Typed
<1> HIDE DEF live, new
<1>4. new = Tables(live, weak, st.tombs, st.conflicts, st.counter)
  BY <1>1, AssignedRows
<1>5. /\ new \in Store /\ new.live = live /\ new.weak = weak /\ new.tombs = st.tombs
      /\ new.conflicts = st.conflicts /\ new.counter = st.counter
  BY <1>3, <1>4, Table, Typed
<1>6. Live(new) = Live(st) \ S
  BY <1>2, <1>3, <1>5 DEF Live
<1>7. \A g \in Live(new) : new.live[g] = st.live[g] /\ g \in Live(st)
  BY <1>3, <1>5, <1>6 DEF Live
<1>8. ASSUME NEW T, Numbered(st, T)
      PROVE  Numbered(new, T)
  BY <1>5, <1>7, <1>8 DEF Numbered
<1> QED
  BY <1>3, <1>5, <1>6, <1>8 DEF new

\* Tombstones are recorded at the revisions the elements have.
LEMMA Entombed ==
    ASSUME NEW st \in Store, NEW order \in Seq(Gid), ToSet(order) \subseteq Live(st)
    PROVE  /\ Entomb(st, order) \in Seq(Leaf) /\ DOMAIN Entomb(st, order) = DOMAIN order
           /\ \A i \in DOMAIN order : /\ Entomb(st, order)[i].gid = order[i]
                                     /\ Entomb(st, order)[i].rev = st.live[order[i]].rev
<1> DEFINE grave(i) == [gid |-> order[i], rev |-> st.live[order[i]].rev]
<1>1. Len(order) \in Nat /\ DOMAIN order = 1 .. Len(order)
  OBVIOUS
<1>2. \A i \in 1 .. Len(order) : order[i] \in Live(st)
  BY <1>1 DEF ToSet
<1>3. \A i \in 1 .. Len(order) :
          /\ grave(i) \in Leaf /\ grave(i).gid = order[i] /\ grave(i).rev = st.live[order[i]].rev
  BY <1>1, <1>2, Typed DEF Leaf, Live
<1> HIDE DEF grave
<1>4. Entomb(st, order) = [i \in 1 .. Len(order) |-> grave(i)]
  BY <1>1 DEF Entomb, grave
<1> QED
  BY <1>1, <1>3, <1>4

\* A graph some elements of which are gone, buried at the listed revisions.
Buries(st, S, buried, new) ==
    /\ Live(new) = Live(st) \ S /\ new.conflicts = st.conflicts
    /\ \A g \in Gid \ S : new.live[g] = st.live[g]
    /\ st.tombs \subseteq new.tombs
    /\ \A t \in new.tombs \ st.tombs : \E i \in DOMAIN buried :
          t.gid = buried[i].gid /\ t.rev = buried[i].rev /\ t.seq > st.counter
    /\ \A i \in DOMAIN buried : \E t \in new.tombs :
          t.gid = buried[i].gid /\ t.rev = buried[i].rev

\* Elements removed and buried, at revisions that descend from theirs, are a
\* change like another.
LEMMA Removed ==
    ASSUME NEW st, Sound(st), NEW S \in SUBSET Live(st), NEW buried \in Seq(Leaf),
           \A i \in DOMAIN buried : buried[i].gid \in S,
           \A g \in S : \E i \in DOMAIN buried :
               buried[i].gid = g /\ DescendsFrom(buried[i].rev, st.live[g].rev)
    PROVE  LET new == Refresh(Erase(st, S), << >>, buried)
           IN  Advances(st, new) /\ Keeps(st, new) /\ Buries(st, S, buried, new)
<1> DEFINE mid == Erase(st, S)
           none == << >>
           new == Refresh(mid, none, buried)
<1>1. st \in Store /\ Numbered(st, {}) /\ Exclusive(st) /\ IsFiniteSet(st.conflicts)
  BY DEF Sound
<1>2. /\ mid \in Store /\ Live(mid) = Live(st) \ S /\ Numbered(mid, {})
      /\ \A g \in Gid \ S : mid.live[g] = st.live[g]
      /\ mid.tombs = st.tombs /\ mid.conflicts = st.conflicts /\ mid.counter = st.counter
  BY <1>1, Erased
<1>3. none \in Seq(Gid) /\ ToSet(none) = {} /\ Len(none) = 0
  BY DEF ToSet
<1>4. Len(buried) \in Nat /\ st.counter \in Nat
  BY <1>1, Typed
<1> HIDE DEF mid, none
<1>5. Renumbers(mid, none, buried, new)
  BY <1>2, <1>3, Refreshed
<1> HIDE DEF new
<1>6. /\ new \in Store /\ Numbered(new, {}) /\ new.conflicts = st.conflicts
      /\ new.counter >= st.counter
      /\ \A g \in Gid : new.live[g] = mid.live[g]
      /\ st.tombs \subseteq new.tombs
      /\ \A t \in new.tombs \ st.tombs : t.gid \in S
      /\ \A i \in DOMAIN buried : \E t \in new.tombs :
            t.gid = buried[i].gid /\ t.rev = buried[i].rev /\ t.seq > st.counter
  <2>1. \A t \in new.tombs \ st.tombs : \E i \in DOMAIN buried : t.gid = buried[i].gid
    BY <1>2, <1>5 DEF Renumbers
  <2>2. new.counter = st.counter + 0 + Len(buried)
    BY <1>2, <1>3, <1>5 DEF Renumbers
  <2> QED
    BY <1>2, <1>3, <1>4, <1>5, <2>1, <2>2 DEF Renumbers
<1>7. Live(new) = Live(st) \ S
  BY <1>2, <1>6 DEF Live
<1>8. Sound(new)
  BY <1>1, <1>6, <1>7 DEF Sound, Exclusive, Buried
<1>9. Settled(st, new)
  BY <1>2, <1>6, <1>7 DEF Settled, Live
<1>10. Enters(st, new)
  <2> SUFFICES ASSUME NEW g \in Gid, Shown(st, g) # Shown(new, g)
               PROVE  \E r \in FeedRows(new, Unfiltered) : r.gid = g /\ r.seq > st.counter
    BY DEF Enters
  <2>1. g \in S
    <3>1. CASE g \notin S
      <4>1. new.live[g].rev = st.live[g].rev
        BY <1>2, <1>6, <3>1
      <4>2. {u \in new.tombs : u.gid = g} = {u \in st.tombs : u.gid = g}
        BY <1>6, <3>1
      <4> QED
        BY <4>1, <4>2, SameShown
    <3> QED
      BY <3>1
  <2>2. PICK t \in new.tombs : t.gid = g /\ t.seq > st.counter
    BY <1>6, <2>1
  <2> QED
    BY <2>2, InFeed
<1>11. Keeps(st, new)
  <2> SUFFICES ASSUME NEW l \in Leaves(st)
               PROVE  OnLine(new, l)
    BY DEF Keeps
  <2>1. CASE l.gid \in Live(st) /\ l.rev = st.live[l.gid].rev
    <3>1. CASE l.gid \in S
      <4>1. PICK t \in new.tombs : t.gid = l.gid /\ DescendsFrom(t.rev, l.rev)
        BY <1>6, <2>1, <3>1
      <4> QED
        BY <4>1, AreLeaves DEF OnLine
    <3>2. CASE l.gid \notin S
      <4>1. l.gid \in Live(new) /\ new.live[l.gid].rev = l.rev /\ l.rev \in Rev
        BY <1>1, <1>2, <1>6, <1>7, <2>1, <3>2, Typed DEF Live
      <4> QED
        BY <4>1, AreLeaves, Self DEF OnLine
    <3> QED
      BY <3>1, <3>2
  <2>2. CASE \E t \in st.tombs \cup st.conflicts : l.gid = t.gid /\ l.rev = t.rev
    BY <1>1, <1>6, <2>2, Typed, Self, AreLeaves DEF OnLine
  <2> QED
    BY <2>1, <2>2, AreLeaves
<1>12. Buries(st, S, buried, new)
  <2>1. \A t \in new.tombs \ st.tombs : \E i \in DOMAIN buried :
            t.gid = buried[i].gid /\ t.rev = buried[i].rev /\ t.seq > st.counter
    BY <1>2, <1>5 DEF Renumbers
  <2>2. \A g \in Gid \ S : new.live[g] = st.live[g]
    BY <1>2, <1>6
  <2> QED
    BY <1>6, <1>7, <2>1, <2>2 DEF Buries
<1> QED
  BY <1>6, <1>8, <1>9, <1>10, <1>11, <1>12 DEF Advances, new, mid, none

\* What drop() makes of a graph: the element is gone, and with a vertex its
\* edges, each buried at the revision it had.
Drops(st, new) ==
    \E S \in SUBSET Live(st) :
        /\ Live(new) = Live(st) \ S /\ new.conflicts = st.conflicts
        /\ \A g \in Gid \ S : new.live[g] = st.live[g]
        /\ st.tombs \subseteq new.tombs
        /\ \A t \in new.tombs \ st.tombs :
              t.gid \in S /\ t.rev = st.live[t.gid].rev /\ t.seq > st.counter
        /\ \A g \in S : \E t \in new.tombs : t.gid = g /\ t.rev = st.live[g].rev
        /\ \A e \in (EGid \cap Live(st)) \ S : Ends(e) \cap S = {}

\* drop().
LEMMA Dropped ==
    ASSUME NEW st, Sound(st), NEW g \in Live(st), NEW new \in Drop(st, g)
    PROVE  Advances(st, new) /\ Keeps(st, new) /\ Drops(st, new)
<1> DEFINE cascade == IF g \in VGid THEN Incident(st, {g}) ELSE {}
           S == {g} \cup cascade
<1>1. st \in Store /\ Numbered(st, {}) /\ g \in Gid
  BY DEF Sound, Live
<1>2. cascade \in SUBSET Live(st)
  BY DEF Incident
<1>3. IsFiniteSet(cascade)
  BY <1>1, <1>2, FiniteFeed, FS_Subset
<1>4. PICK order \in SetToSeqs(cascade) : new = Refresh(Erase(st, S), << >>, Entomb(st, <<g>> \o order))
  BY Zenon DEF Drop
<1> DEFINE first == <<g>>
           list == first \o order
           buried == Entomb(st, list)
<1>5. order \in Seq(cascade) /\ ToSet(order) = cascade
  BY <1>3, Listed
<1>12. \A e \in (EGid \cap Live(st)) \ S : Ends(e) \cap S = {}
  <2> TAKE e \in (EGid \cap Live(st)) \ S
  <2>1. Ends(e) \subseteq VGid /\ cascade \subseteq EGid
    BY GidAssumption DEF Ends, Incident
  <2>2. g \notin Ends(e)
    BY <2>1 DEF Incident
  <2> QED
    BY <2>1, <2>2, GidAssumption
<1> HIDE DEF cascade
<1>6. list \in Seq(Gid) /\ ToSet(list) = S
  <2>1. order \in Seq(Gid) /\ first \in Seq(Gid)
    BY <1>1, <1>2, <1>5 DEF Live
  <2>2. ToSet(first) = {g}
    BY DEF ToSet
  <2> HIDE DEF first
  <2> QED
    BY <1>5, <2>1, <2>2, Joined
<1> HIDE DEF list, first
<1>7. /\ buried \in Seq(Leaf) /\ DOMAIN buried = DOMAIN list
      /\ \A i \in DOMAIN list : buried[i].gid = list[i] /\ buried[i].rev = st.live[list[i]].rev
  BY <1>1, <1>2, <1>6, Entombed
<1> HIDE DEF buried
<1>8. \A i \in DOMAIN buried : buried[i].gid \in S
  BY <1>6, <1>7 DEF ToSet
<1>9. ASSUME NEW h \in S
      PROVE  \E i \in DOMAIN buried : buried[i].gid = h /\ DescendsFrom(buried[i].rev, st.live[h].rev)
  <2>1. PICK i \in DOMAIN list : list[i] = h
    BY <1>6 DEF ToSet
  <2>2. st.live[h].rev \in Rev
    BY <1>1, <1>2, Typed DEF Live
  <2> QED
    BY <1>7, <2>1, <2>2, Self
<1>10. S \in SUBSET Live(st)
  BY <1>2
<1> HIDE DEF S
<1>11. new = Refresh(Erase(st, S), << >>, buried)
  BY <1>4 DEF list, buried, S, first
<1>13. Advances(st, new) /\ Keeps(st, new) /\ Buries(st, S, buried, new)
  BY <1>7, <1>8, <1>9, <1>10, <1>11, Removed
<1>14. \A i \in DOMAIN buried : buried[i].gid \in S /\ buried[i].rev = st.live[buried[i].gid].rev
  BY <1>7, <1>8
<1>15. \A h \in S : \E i \in DOMAIN buried : buried[i].gid = h
  BY <1>9
<1>16. /\ \A t \in new.tombs \ st.tombs :
             t.gid \in S /\ t.rev = st.live[t.gid].rev /\ t.seq > st.counter
       /\ \A h \in S : \E t \in new.tombs : t.gid = h /\ t.rev = st.live[h].rev
  BY <1>13, <1>14, <1>15 DEF Buries
<1>17. Drops(st, new)
  BY <1>10, <1>12, <1>13, <1>16 DEF Buries, Drops
<1> QED
  BY <1>13, <1>17

-----------------------------------------------------------------------------
\* A peer's changes.

\* The live bodies fetched for some gids: one for each that has one.
LEMMA BodiesRead ==
    ASSUME NEW st \in Store, Numbered(st, {}), NEW gids
    PROVE  LET bodies == LiveBodies(st, gids)
           IN  /\ bodies \in SUBSET Leaf /\ IsFiniteSet(bodies)
               /\ \A d \in bodies : /\ d.gid \in gids \cap Live(st)
                                    /\ d.rev = st.live[d.gid].rev
               /\ \A g \in gids \cap Live(st) : (g \in EGid => Ends(g) \subseteq Live(st)) =>
                      \E d \in bodies : d.gid = g /\ d.rev = st.live[g].rev
<1> DEFINE S == {h \in gids \cap Live(st) : h \in EGid => Ends(h) \subseteq Live(st)}
           body(g) == [gid |-> g, rev |-> st.live[g].rev]
           bodies == LiveBodies(st, gids)
<1>1. bodies = {body(g) : g \in S}
  BY DEF LiveBodies
<1>2. \A g \in S : body(g).gid = g /\ body(g).rev = st.live[g].rev /\ body(g) \in Leaf
  BY Typed DEF Leaf, Live
<1>3. S \in SUBSET Live(st) /\ IsFiniteSet(S)
  BY FiniteFeed, FS_Subset
<1> HIDE DEF body, bodies
<1>4. [g \in S |-> body(g)] \in Surjection(S, bodies)
  BY <1>1 DEF Surjection
<1>5. IsFiniteSet(bodies)
  BY <1>3, <1>4, FS_Surjection
<1> QED
  BY <1>1, <1>2, <1>5 DEF bodies

\* The shadow store's keys cover a set of versions.
Covers(conflicts, docs) == \A d \in docs : \E c \in conflicts : c.gid = d.gid /\ c.rev = d.rev

LEMMA Marked ==
    ASSUME NEW docs, IsFiniteSet(docs), \A d \in docs : d.gid \in Gid /\ d.rev \in Rev,
           NEW isDelete \in BOOLEAN
    PROVE  LET marks == Marks(docs, isDelete)
           IN  /\ marks \in SUBSET [gid : Gid, rev : Rev, deleted : BOOLEAN]
               /\ IsFiniteSet(marks) /\ Covers(marks, docs)
<1> DEFINE mark(d) == [gid |-> d.gid, rev |-> d.rev, deleted |-> isDelete]
           marks == Marks(docs, isDelete)
<1>1. marks = {mark(d) : d \in docs}
  BY DEF Marks
<1>2. \A d \in docs : /\ mark(d).gid = d.gid /\ mark(d).rev = d.rev
                      /\ mark(d) \in [gid : Gid, rev : Rev, deleted : BOOLEAN]
  OBVIOUS
<1> HIDE DEF mark, marks
<1>3. [d \in docs |-> mark(d)] \in Surjection(docs, marks)
  BY <1>1 DEF Surjection
<1>4. IsFiniteSet(marks)
  BY <1>3, FS_Surjection
<1> QED
  BY <1>1, <1>2, <1>4 DEF Covers, marks

\* Shadowing keeps what the store holds and covers what is new.
LEMMA Shadowed ==
    ASSUME NEW conflicts \in SUBSET [gid : Gid, rev : Rev, deleted : BOOLEAN], IsFiniteSet(conflicts),
           NEW new \in SUBSET [gid : Gid, rev : Rev, deleted : BOOLEAN], IsFiniteSet(new)
    PROVE  LET all == Shadow(conflicts, new)
           IN  /\ all \in SUBSET [gid : Gid, rev : Rev, deleted : BOOLEAN] /\ IsFiniteSet(all)
               /\ conflicts \subseteq all /\ Covers(all, new)
<1> DEFINE added == {n \in new : \A c \in conflicts : ~(c.gid = n.gid /\ c.rev = n.rev)}
<1>1. IsFiniteSet(added)
  <2>1. added \in SUBSET new
    OBVIOUS
  <2> QED
    BY <2>1, FS_Subset
<1>2. Shadow(conflicts, new) = conflicts \cup added
  BY DEF Shadow
<1>3. IsFiniteSet(conflicts \cup added)
  <2> HIDE DEF added
  <2> QED
    BY <1>1, FS_Union
<1> QED
  BY <1>2, <1>3 DEF Covers

\* classifyWire: only the shadow store changes; it takes in each live version
\* that loses to an incoming one and each incoming version that loses.
LEMMA Classified ==
    ASSUME NEW st, Sound(st), NEW docs \in SUBSET Leaf, IsFiniteSet(docs)
    PROVE  LET new == ClassifyWire(st, docs)
           IN  /\ new \in Store /\ new.live = st.live /\ new.weak = st.weak
               /\ new.tombs = st.tombs /\ new.counter = st.counter
               /\ IsFiniteSet(new.conflicts) /\ st.conflicts \subseteq new.conflicts
               /\ Covers(new.conflicts, {d \in docs : Clash(st, d) /\ ~Wins(st, d)})
               /\ Covers(new.conflicts, LiveBodies(st, Gids({d \in docs : Wins(st, d)})))
<1> DEFINE beaten == LiveBodies(st, Gids({d \in docs : Wins(st, d)}))
           losing == {d \in docs : Clash(st, d) /\ ~Wins(st, d)}
           marks == Marks(beaten, FALSE) \cup Marks(losing, FALSE)
           conflicts == Shadow(st.conflicts, marks)
           new == ClassifyWire(st, docs)
<1>1. st \in Store /\ Numbered(st, {}) /\ IsFiniteSet(st.conflicts)
  BY DEF Sound
<1>2. beaten \in SUBSET Leaf /\ IsFiniteSet(beaten)
  BY <1>1, BodiesRead
<1>3. losing \in SUBSET Leaf /\ IsFiniteSet(losing)
  <2>1. losing \in SUBSET docs
    OBVIOUS
  <2> QED
    BY <2>1, FS_Subset
<1>4. new = SetConflicts(st, conflicts)
  BY Zenon DEF ClassifyWire, SetConflicts
<1> HIDE DEF beaten, losing, new
<1>5. /\ marks \in SUBSET [gid : Gid, rev : Rev, deleted : BOOLEAN] /\ IsFiniteSet(marks)
      /\ Covers(marks, beaten) /\ Covers(marks, losing)
  <2>1. \A d \in beaten \cup losing : d.gid \in Gid /\ d.rev \in Rev
    BY <1>2, <1>3 DEF Leaf
  <2>2. /\ Marks(beaten, FALSE) \in SUBSET [gid : Gid, rev : Rev, deleted : BOOLEAN]
        /\ IsFiniteSet(Marks(beaten, FALSE)) /\ Covers(Marks(beaten, FALSE), beaten)
    BY <1>2, <2>1, Marked
  <2>3. /\ Marks(losing, FALSE) \in SUBSET [gid : Gid, rev : Rev, deleted : BOOLEAN]
        /\ IsFiniteSet(Marks(losing, FALSE)) /\ Covers(Marks(losing, FALSE), losing)
    BY <1>3, <2>1, Marked
  <2>4. IsFiniteSet(marks)
    BY <2>2, <2>3, FS_Union
  <2> QED
    BY <2>2, <2>3, <2>4 DEF Covers
<1> HIDE DEF marks
<1>6. /\ conflicts \in SUBSET [gid : Gid, rev : Rev, deleted : BOOLEAN] /\ IsFiniteSet(conflicts)
      /\ st.conflicts \subseteq conflicts /\ Covers(conflicts, marks)
  BY <1>1, <1>5, Shadowed, Typed
<1> HIDE DEF conflicts
<1>7. Covers(conflicts, beaten) /\ Covers(conflicts, losing)
  BY <1>5, <1>6 DEF Covers
<1>8. new = Tables(st.live, st.weak, st.tombs, conflicts, st.counter)
  BY <1>1, <1>4, AssignedOne
<1>9. /\ new \in Store /\ new.live = st.live /\ new.weak = st.weak
      /\ new.tombs = st.tombs /\ new.counter = st.counter /\ new.conflicts = conflicts
  BY <1>1, <1>6, <1>8, Table, Typed
<1> QED
  BY <1>6, <1>7, <1>9 DEF new, beaten, losing

\* What applying deletes makes of a graph: some elements are gone, each is
\* buried at a revision that descends from its own, and nothing that stays
\* live is buried.
CutFrom(st, cut, S) ==
    /\ cut.store \in Store /\ Numbered(cut.store, {}) /\ IsFiniteSet(cut.store.conflicts)
    /\ Live(cut.store) = Live(st) \ S
    /\ \A g \in Gid \ S : cut.store.live[g] = st.live[g]
    /\ cut.store.tombs = st.tombs /\ cut.store.counter = st.counter
    /\ st.conflicts \subseteq cut.store.conflicts
    /\ cut.buried \in Seq(Leaf)
    /\ \A i \in DOMAIN cut.buried : cut.buried[i].gid \notin Live(st) \ S
    /\ \A g \in S : \E i \in DOMAIN cut.buried :
          cut.buried[i].gid = g /\ DescendsFrom(cut.buried[i].rev, st.live[g].rev)

\* A delete that nothing refuses: no row it names is newer than it, and no
\* strong edge pins the vertex it names but those the list names too.
Admits(st, dels, g) ==
    /\ \A d \in ToSet(dels) : d.gid = g => DescendsFrom(d.rev, st.live[g].rev)
    /\ \A e \in EGid \cap Live(st) : g \in Ends(e) => e \in st.weak \cup Gids(ToSet(dels))

\* Which elements go, and which are buried: those the list names and weak
\* edges.  An edge that stays keeps its ends, unless it refused its delete.
Takes(st, dels, cut, S) ==
    /\ S \subseteq Gids(ToSet(dels)) \cup st.weak
    /\ \A g \in Gids(ToSet(dels)) \cap Live(st) : Admits(st, dels, g) => g \in S
    /\ cut.store.weak = st.weak \ S
    /\ \A i \in DOMAIN cut.buried : cut.buried[i].gid \in Gids(ToSet(dels)) \cup S
    /\ (\A d \in ToSet(dels) : d.gid \in EGid \cap Live(st) => DescendsFrom(d.rev, st.live[d.gid].rev))
          => \A e \in (EGid \cap Live(st)) \ S : Ends(e) \cap S = {}

\* applyDeletes.
LEMMA DeletesApplied ==
    ASSUME NEW st, Sound(st), NEW dels \in Seq(Leaf), NEW cut \in ApplyDeletes(st, dels)
    PROVE  \E S \in SUBSET Live(st) :
              /\ CutFrom(st, cut, S) /\ (dels = << >> => S = {} /\ cut.buried = << >>)
              /\ Takes(st, dels, cut, S)
<1> DEFINE refused == Refusals(st, dels)
           applied == DeletesOutside(dels, Gids(refused) \cup Buried(st))
           removed == (Gids(ToSet(dels)) \ Gids(refused)) \cap Live(st)
           cascade == Incident(st, removed \cap VGid) \cap st.weak
           S == removed \cup cascade
           conflicts == Shadow(st.conflicts, Marks(refused, TRUE))
           mid == SetConflicts(st, conflicts)
           swept == Erase(mid, S)
<1>1. st \in Store /\ Numbered(st, {}) /\ Exclusive(st) /\ IsFiniteSet(st.conflicts)
  BY DEF Sound
<1>2. PICK order \in SetToSeqs(cascade) :
          cut = [store |-> swept, buried |-> NewTombs(st, dels, refused, order)]
  BY Zenon DEF ApplyDeletes, SetConflicts
<1>3. DOMAIN dels = 1 .. Len(dels) /\ Len(dels) \in Nat
  OBVIOUS
<1>4. ToSet(dels) \in SUBSET Leaf /\ IsFiniteSet(ToSet(dels))
  <2>1. \A i \in 1 .. Len(dels) : dels[i] \in Leaf
    BY <1>3
  <2>2. IsFiniteSet(1 .. Len(dels))
    BY <1>3, FS_Interval
  <2>3. dels \in Surjection(1 .. Len(dels), ToSet(dels))
    BY <1>3 DEF Surjection, ToSet
  <2> QED
    BY <1>3, <2>1, <2>2, <2>3, FS_Surjection DEF ToSet
<1>5. refused \in SUBSET ToSet(dels) /\ IsFiniteSet(refused)
  <2>1. refused \in SUBSET ToSet(dels)
    BY DEF Refusals
  <2> QED
    BY <1>4, <2>1, FS_Subset
<1>6. \A d \in ToSet(dels) : d.gid \in Live(st) /\ d.gid \notin Gids(refused) =>
          DescendsFrom(d.rev, st.live[d.gid].rev)
  BY DEF Refusals, Gids
<1>30. \A v \in removed \cap VGid : v \notin Pinned(st, dels)
  <2> TAKE v \in removed \cap VGid
  <2>1. PICK d \in ToSet(dels) : d.gid = v
    BY DEF Gids
  <2>2. d \notin refused /\ v \in Live(st)
    BY <2>1 DEF Gids
  <2> QED
    BY <2>1, <2>2 DEF Refusals
<1>32. \A e \in EGid \cap Live(st) : \A v \in Ends(e) : v \in removed /\ e \notin cascade =>
           e \in Gids(ToSet(dels))
  <2> TAKE e \in EGid \cap Live(st)
  <2> TAKE v \in Ends(e)
  <2> HAVE v \in removed /\ e \notin cascade
  <2>1. v \in VGid
    BY GidAssumption DEF Ends
  <2>2. e \notin st.weak
    BY <2>1 DEF Incident
  <2>3. v \notin Pinned(st, dels)
    BY <1>30, <2>1
  <2>4. e \in {dels[i].gid : i \in DOMAIN dels}
    BY <2>2, <2>3 DEF Pinned
  <2> QED
    BY <2>4 DEF ToSet, Gids
<1>33. \A e \in EGid \cap Live(st) : e \in Gids(ToSet(dels)) => e \in removed \cup Gids(refused)
  OBVIOUS
<1>34. removed \subseteq Gids(ToSet(dels)) /\ cascade \subseteq st.weak
  OBVIOUS
<1>31. \A e \in EGid \cap Live(st) : e \in Gids(refused) =>
           \E d \in ToSet(dels) : d.gid = e /\ ~DescendsFrom(d.rev, st.live[e].rev)
  BY GidAssumption DEF Refusals, Gids
<1>38. \A g \in Gids(ToSet(dels)) \cap Live(st) : Admits(st, dels, g) => g \in removed
  <2> SUFFICES ASSUME NEW d \in ToSet(dels), d.gid \in Live(st), Admits(st, dels, d.gid),
                      d.gid \in Gids(refused)
               PROVE  FALSE
    BY DEF Gids
  <2>1. PICK x \in ToSet(dels) : x.gid = d.gid /\ x \in refused
    BY <1>5 DEF Gids
  <2>2. DescendsFrom(x.rev, st.live[x.gid].rev)
    BY <2>1 DEF Admits
  <2>3. x.gid \in Pinned(st, dels)
    BY <2>1, <2>2 DEF Refusals
  <2>4. PICK e \in EGid \cap Live(st) :
            x.gid \in Ends(e) /\ e \notin st.weak /\ e \notin {dels[i].gid : i \in DOMAIN dels}
    BY <2>3 DEF Pinned
  <2>5. e \notin Gids(ToSet(dels))
    BY <2>4 DEF Gids, ToSet
  <2> QED
    BY <2>1, <2>4, <2>5 DEF Admits
<1> HIDE DEF refused
<1>7. /\ applied \in Seq(Leaf)
      /\ ToSet(applied) = {d \in ToSet(dels) : d.gid \notin Gids(refused) \cup Buried(st)}
  BY Outside
<1>8. dels = << >> => ToSet(dels) = {}
  BY DEF ToSet
<1> HIDE DEF applied
<1>9. removed \in SUBSET Live(st) /\ cascade \in SUBSET Live(st)
  BY DEF Incident
<1>10. IsFiniteSet(cascade)
  BY <1>1, <1>9, FiniteFeed, FS_Subset
<1>11. \A g \in removed : \E d \in ToSet(applied) :
          d.gid = g /\ DescendsFrom(d.rev, st.live[g].rev)
  BY <1>1, <1>6, <1>7 DEF Gids, Exclusive
<1>12. \A d \in ToSet(applied) : d.gid \in Live(st) => d.gid \in removed
  BY <1>7 DEF Gids
<1>13. dels = << >> => removed = {} /\ cascade = {}
  BY <1>8 DEF Gids, Incident
<1> HIDE DEF removed
<1>14. order \in Seq(cascade) /\ ToSet(order) = cascade
  BY <1>10, Listed
<1> DEFINE graves == Entomb(st, order)
           marked == DeletesOutside(graves, Buried(st))
           buried == applied \o marked
<1>15. /\ graves \in Seq(Leaf) /\ DOMAIN graves = DOMAIN order
       /\ \A i \in DOMAIN order : graves[i].gid = order[i] /\ graves[i].rev = st.live[order[i]].rev
  <2> HIDE DEF cascade
  <2>1. cascade \subseteq Gid
    BY <1>9 DEF Live
  <2>2. order \in Seq(Gid)
    BY <1>14, <2>1
  <2> QED
    BY <1>1, <1>9, <1>14, <2>2, Entombed
<1> HIDE DEF cascade, graves
<1>16. marked \in Seq(Leaf) /\ ToSet(marked) = {d \in ToSet(graves) : d.gid \notin Buried(st)}
  BY <1>15, Outside
<1>17. \A d \in ToSet(graves) : d.gid \in cascade /\ d.rev = st.live[d.gid].rev
  BY <1>14, <1>15 DEF ToSet
<1>18. \A g \in cascade : \E d \in ToSet(graves) : d.gid = g
  <2> TAKE g \in cascade
  <2>1. PICK i \in DOMAIN order : order[i] = g
    BY <1>14 DEF ToSet
  <2>2. graves[i] \in ToSet(graves) /\ graves[i].gid = g
    BY <1>15, <2>1 DEF ToSet
  <2> QED
    BY <2>2
<1> HIDE DEF marked
<1>19. buried \in Seq(Leaf) /\ ToSet(buried) = ToSet(applied) \cup ToSet(marked)
  BY <1>7, <1>16, Joined
<1> HIDE DEF buried
<1>20. mid = Tables(st.live, st.weak, st.tombs, conflicts, st.counter)
  BY <1>1, AssignedOne
<1>21. /\ conflicts \in SUBSET [gid : Gid, rev : Rev, deleted : BOOLEAN] /\ IsFiniteSet(conflicts)
       /\ st.conflicts \subseteq conflicts
  <2>1. \A d \in refused : d.gid \in Gid /\ d.rev \in Rev
    BY <1>4, <1>5 DEF Leaf
  <2>2. Marks(refused, TRUE) \in SUBSET [gid : Gid, rev : Rev, deleted : BOOLEAN]
        /\ IsFiniteSet(Marks(refused, TRUE))
    BY <1>5, <2>1, Marked
  <2> QED
    BY <1>1, <2>2, Shadowed, Typed
<1> HIDE DEF conflicts, mid
<1>22. /\ mid \in Store /\ mid.live = st.live /\ mid.weak = st.weak /\ mid.tombs = st.tombs
       /\ mid.conflicts = conflicts /\ mid.counter = st.counter
  BY <1>1, <1>20, <1>21, Table, Typed
<1>23. Live(mid) = Live(st) /\ Numbered(mid, {})
  <2>1. Live(mid) = Live(st)
    BY <1>22 DEF Live
  <2> QED
    BY <1>1, <1>22, <2>1 DEF Numbered
<1> HIDE DEF S
<1>24. /\ swept \in Store /\ Live(swept) = Live(st) \ S /\ Numbered(swept, {})
       /\ swept.weak = st.weak \ S
       /\ \A g \in Gid \ S : swept.live[g] = st.live[g]
       /\ swept.tombs = st.tombs /\ swept.conflicts = conflicts /\ swept.counter = st.counter
  BY <1>22, <1>23, Erased
<1>25. cut.store = swept /\ cut.buried = buried
  BY <1>2 DEF NewTombs, buried, marked, applied, graves
<1> HIDE DEF swept
<1>26. \A i \in DOMAIN buried : buried[i].gid \notin Live(st) \ S
  <2> TAKE i \in DOMAIN buried
  <2>1. buried[i] \in ToSet(applied) \cup ToSet(graves)
    <3>1. buried[i] \in ToSet(buried)
      BY DEF ToSet
    <3> QED
      BY <1>16, <1>19, <3>1
  <2> QED
    BY <2>1, <1>12, <1>17 DEF S
<1>27. ASSUME NEW g \in S
       PROVE  \E i \in DOMAIN buried : buried[i].gid = g /\ DescendsFrom(buried[i].rev, st.live[g].rev)
  <2>1. g \in Live(st) /\ st.live[g].rev \in Rev
    BY <1>1, <1>9, Typed DEF S, Live
  <2>2. g \notin Buried(st)
    BY <1>1, <2>1 DEF Exclusive
  <2>3. PICK d \in ToSet(buried) : d.gid = g /\ DescendsFrom(d.rev, st.live[g].rev)
    <3>1. CASE g \in removed
      BY <1>11, <1>19, <3>1
    <3>2. CASE g \in cascade
      BY <1>16, <1>17, <1>18, <1>19, <2>1, <2>2, <3>2, Self
    <3> QED
      BY <3>1, <3>2 DEF S
  <2> QED
    BY <2>3 DEF ToSet
<1>28. S \in SUBSET Live(st) /\ CutFrom(st, cut, S)
  BY <1>9, <1>19, <1>21, <1>24, <1>25, <1>26, <1>27 DEF CutFrom, S
<1>29. dels = << >> => S = {} /\ buried = << >>
  <2> HAVE dels = << >>
  <2>1. ToSet(applied) = {}
    BY <1>7, <1>8
  <2>2. ToSet(buried) = {}
    BY <1>13, <1>16, <1>17, <1>19, <2>1
  <2>3. buried # << >> => Len(buried) \in Nat \ {0}
    BY <1>19, EmptySeq
  <2>4. Len(buried) \in Nat \ {0} => buried[1] \in ToSet(buried)
    BY <1>19 DEF ToSet
  <2> QED
    BY <1>13, <2>2, <2>3, <2>4 DEF S
<1>35. \A i \in DOMAIN buried : buried[i].gid \in Gids(ToSet(dels)) \cup S
  <2> TAKE i \in DOMAIN buried
  <2>1. buried[i] \in ToSet(buried)
    BY DEF ToSet
  <2>2. buried[i] \in ToSet(dels) \/ buried[i].gid \in cascade
    BY <1>7, <1>16, <1>17, <1>19, <2>1
  <2> QED
    BY <2>2 DEF S, Gids
<1>36. ASSUME \A d \in ToSet(dels) : d.gid \in EGid \cap Live(st) => DescendsFrom(d.rev, st.live[d.gid].rev),
              NEW e \in (EGid \cap Live(st)) \ S, NEW v \in Ends(e)
       PROVE  v \notin S
  <2>1. v \notin cascade
    <3>1. v \in VGid
      BY GidAssumption DEF Ends
    <3> QED
      BY <1>1, <1>34, <3>1, GidAssumption, Typed
  <2>2. v \notin removed
    <3>1. e \notin removed /\ e \notin cascade
      BY DEF S
    <3>2. e \notin Gids(refused)
      BY <1>31, <1>36
    <3> QED
      BY <1>32, <1>33, <3>1, <3>2
  <2> QED
    BY <2>1, <2>2 DEF S
<1>37. Takes(st, dels, cut, S)
  <2>1. S \subseteq Gids(ToSet(dels)) \cup st.weak
    BY <1>34 DEF S
  <2>2. cut.store.weak = st.weak \ S
    BY <1>24, <1>25
  <2> QED
    BY <1>25, <1>35, <1>36, <1>38, <2>1, <2>2 DEF Takes, S
<1> QED
  BY <1>25, <1>28, <1>29, <1>37

\* The upsert lands each accepted body, its seq unset.
LEMMA Upserted ==
    ASSUME NEW st \in Store, NEW docs \in SUBSET Leaf,
           \A a, b \in docs : a.gid = b.gid => a = b
    PROVE  LET new == Upsert(st, docs)
           IN  /\ new \in Store /\ Live(new) = Live(st) \cup Gids(docs)
               /\ \A d \in docs : new.live[d.gid].rev = d.rev
               /\ \A g \in Gid \ Gids(docs) : new.live[g] = st.live[g]
               /\ new.weak = st.weak \ Gids(docs) /\ new.tombs = st.tombs
               /\ new.conflicts = st.conflicts /\ new.counter = st.counter
               /\ Numbered(st, {}) => Numbered(new, Gids(docs))
<1> DEFINE of(g) == CHOOSE d \in docs : d.gid = g
           row(g) == [rev |-> of(g).rev, seq |-> 0]
           live == [g \in Gid |-> IF g \in Gids(docs) THEN row(g) ELSE st.live[g]]
           weak == st.weak \ Gids(docs)
           new == Upsert(st, docs)
<1>1. new = SetRows(st, live, weak)
  BY Zenon DEF Upsert, SetRows
<1>2. \A d \in docs : d.gid \in Gids(docs) /\ of(d.gid) = d /\ d.gid \in Gid /\ d.rev \in Rev
  BY DEF Gids, Leaf
<1>3. \A g \in Gids(docs) : \E d \in docs : d.gid = g
  BY DEF Gids
<1>4. \A g \in Gids(docs) : row(g).rev = of(g).rev /\ row(g) \in [rev : Rev \cup {NoRev}, seq : Nat]
  BY <1>2, <1>3
<1> HIDE DEF of, row, new
<1>5. live \in [Gid -> [rev : Rev \cup {NoRev}, seq : Nat]]
  BY <1>4, Typed
<1>6. /\ \A d \in docs : live[d.gid].rev = d.rev
      /\ \A g \in Gid \ Gids(docs) : live[g] = st.live[g]
  BY <1>2, <1>4
<1> HIDE DEF live
<1>7. new = Tables(live, weak, st.tombs, st.conflicts, st.counter)
  BY <1>1, AssignedRows
<1>8. /\ new \in Store /\ new.live = live /\ new.weak = weak /\ new.tombs = st.tombs
      /\ new.conflicts = st.conflicts /\ new.counter = st.counter
  BY <1>5, <1>7, Table, Typed
<1>9. Live(new) = Live(st) \cup Gids(docs)
  <2>1. \A g \in Gids(docs) : g \in Gid /\ new.live[g].rev # NoRev
    BY <1>2, <1>3, <1>6, <1>8 DEF Rev
  <2> QED
    BY <1>6, <1>8, <2>1 DEF Live
<1>10. ASSUME Numbered(st, {})
       PROVE  Numbered(new, Gids(docs))
  <2>1. \A g \in Live(new) \ Gids(docs) : g \in Live(st) /\ new.live[g] = st.live[g]
    BY <1>6, <1>8, <1>9 DEF Live
  <2> QED
    BY <1>8, <1>10, <2>1 DEF Numbered
<1> QED
  BY <1>6, <1>8, <1>9, <1>10 DEF new

\* resurrect: the tombstones of the gids move to the shadow store.
LEMMA Resurrected ==
    ASSUME NEW st \in Store, Numbered(st, {}), IsFiniteSet(st.conflicts), NEW gids
    PROVE  LET new == Resurrect(st, gids)
           IN  /\ new \in Store /\ Numbered(new, {}) /\ IsFiniteSet(new.conflicts)
               /\ new.live = st.live /\ Live(new) = Live(st) /\ new.counter = st.counter
               /\ new.weak = st.weak /\ new.tombs \subseteq st.tombs
               /\ \A t \in st.tombs : t \in new.tombs <=> t.gid \notin gids
               /\ st.conflicts \subseteq new.conflicts
               /\ \A t \in st.tombs : t.gid \in gids =>
                     \E c \in new.conflicts : c.gid = t.gid /\ c.rev = t.rev
<1> DEFINE lifted == {t \in st.tombs : t.gid \in gids}
           marks == Marks(lifted, TRUE)
           conflicts == Shadow(st.conflicts, marks)
           tombs == st.tombs \ lifted
           new == Resurrect(st, gids)
<1>1. new = SetGraves(st, tombs, conflicts)
  BY Zenon DEF Resurrect, SetGraves
<1>2. /\ IsFiniteSet(lifted) /\ \A t \in lifted : t.gid \in Gid /\ t.rev \in Rev
      /\ tombs = {t \in st.tombs : t.gid \notin gids} /\ tombs \subseteq st.tombs
  <2>1. lifted \in SUBSET st.tombs
    OBVIOUS
  <2>2. IsFiniteSet(lifted)
    BY <2>1, FiniteFeed, FS_Subset
  <2> QED
    BY <2>2, Typed
<1> HIDE DEF lifted, new
<1>3. /\ marks \in SUBSET [gid : Gid, rev : Rev, deleted : BOOLEAN]
      /\ IsFiniteSet(marks) /\ Covers(marks, lifted)
  BY <1>2, Marked
<1> HIDE DEF marks
<1>4. /\ conflicts \in SUBSET [gid : Gid, rev : Rev, deleted : BOOLEAN] /\ IsFiniteSet(conflicts)
      /\ st.conflicts \subseteq conflicts /\ Covers(conflicts, marks)
  BY <1>3, Shadowed, Typed
<1>5. Covers(conflicts, lifted)
  BY <1>3, <1>4 DEF Covers
<1> HIDE DEF conflicts, tombs
<1>6. new = Tables(st.live, st.weak, tombs, conflicts, st.counter)
  BY <1>1, AssignedGraves
<1>7. /\ new \in Store /\ new.live = st.live /\ new.weak = st.weak /\ new.tombs = tombs
      /\ new.conflicts = conflicts /\ new.counter = st.counter
  BY <1>2, <1>4, <1>6, Table, Typed
<1>8. Live(new) = Live(st)
  BY <1>7 DEF Live
<1>9. Numbered(new, {})
  BY <1>2, <1>7, <1>8 DEF Numbered
<1> QED
  BY <1>2, <1>4, <1>5, <1>7, <1>8, <1>9 DEF new, lifted, Covers

\* What landing the accepted bodies makes of a graph the deletes have cut:
\* they are live at fresh seqs, nothing they bring back stays buried, and
\* every leaf the cut left or buried is a leaf still.
Lands(st, cut, S, acc, new) ==
    /\ new \in Store /\ Numbered(new, {}) /\ IsFiniteSet(new.conflicts)
    /\ new.counter >= st.counter
    /\ Live(new) = (Live(st) \ S) \cup Gids(acc)
    /\ new.weak = cut.store.weak \ Gids(acc)
    /\ \A d \in acc : new.live[d.gid].rev = d.rev /\ new.live[d.gid].seq > st.counter
    /\ \A g \in Gid \ (S \cup Gids(acc)) : new.live[g] = st.live[g]
    /\ \A t \in new.tombs : /\ t.gid \notin Gids(acc)
                            /\ \/ t \in st.tombs
                               \/ /\ t.seq > st.counter
                                  /\ \E i \in DOMAIN cut.buried : t.gid = cut.buried[i].gid
    /\ \A t \in st.tombs : t.gid \notin Gids(acc) => t \in new.tombs
    /\ Covers(new.tombs \cup new.conflicts, st.tombs)
    /\ \A i \in DOMAIN cut.buried :
          /\ \E t \in new.tombs \cup new.conflicts :
                t.gid = cut.buried[i].gid /\ t.rev = cut.buried[i].rev
          /\ cut.buried[i].gid \notin Gids(acc) =>
                \E t \in new.tombs : t.gid = cut.buried[i].gid /\ t.seq > st.counter
    /\ cut.store.conflicts \subseteq new.conflicts

LEMMA FiniteGids ==
    ASSUME NEW docs \in SUBSET Leaf, IsFiniteSet(docs)
    PROVE  Gids(docs) \in SUBSET Gid /\ IsFiniteSet(Gids(docs))
<1>1. [d \in docs |-> d.gid] \in Surjection(docs, Gids(docs))
  BY DEF Surjection, Gids
<1>2. IsFiniteSet(Gids(docs))
  BY <1>1, FS_Surjection
<1> QED
  BY <1>2 DEF Gids, Leaf

LEMMA Landed ==
    ASSUME NEW st \in Store, NEW cut, NEW S, CutFrom(st, cut, S),
           NEW acc \in SUBSET Leaf, IsFiniteSet(acc),
           \A a, b \in acc : a.gid = b.gid => a = b,
           NEW order \in RowOrders(Gids(acc))
    PROVE  Lands(st, cut, S, acc,
                 Resurrect(Refresh(Upsert(cut.store, acc), order, cut.buried), Gids(acc)))
<1> DEFINE put == Upsert(cut.store, acc)
           fresh == Refresh(put, order, cut.buried)
           new == Resurrect(fresh, Gids(acc))
           n == st.counter
<1>1. /\ cut.store \in Store /\ Numbered(cut.store, {}) /\ IsFiniteSet(cut.store.conflicts)
      /\ Live(cut.store) = Live(st) \ S
      /\ \A g \in Gid \ S : cut.store.live[g] = st.live[g]
      /\ cut.store.tombs = st.tombs /\ cut.store.counter = n
      /\ cut.buried \in Seq(Leaf)
  BY DEF CutFrom
<1>2. order \in Seq(Gid) /\ ToSet(order) = Gids(acc)
  BY FiniteGids, RowOrdered
<1>3. /\ put \in Store /\ Live(put) = (Live(st) \ S) \cup Gids(acc)
      /\ \A d \in acc : put.live[d.gid].rev = d.rev
      /\ \A g \in Gid \ Gids(acc) : put.live[g] = cut.store.live[g]
      /\ put.weak = cut.store.weak \ Gids(acc)
      /\ put.tombs = st.tombs /\ put.conflicts = cut.store.conflicts /\ put.counter = n
      /\ Numbered(put, ToSet(order))
  BY <1>1, <1>2, Upserted
<1> HIDE DEF put
<1>4. Renumbers(put, order, cut.buried, fresh)
  BY <1>1, <1>2, <1>3, Refreshed
<1> HIDE DEF fresh
<1>5. Len(order) \in Nat /\ Len(cut.buried) \in Nat /\ n \in Nat
  BY <1>1, <1>2, Typed
<1>6. /\ fresh \in Store /\ Numbered(fresh, {}) /\ fresh.conflicts = cut.store.conflicts
      /\ fresh.weak = cut.store.weak \ Gids(acc)
      /\ fresh.counter >= n
      /\ \A g \in Gid : fresh.live[g].rev = put.live[g].rev
      /\ \A g \in Gids(acc) : fresh.live[g].seq > n
      /\ \A g \in Gid \ Gids(acc) : fresh.live[g] = put.live[g]
      /\ st.tombs \subseteq fresh.tombs
      /\ \A t \in fresh.tombs \ st.tombs : \E i \in DOMAIN cut.buried :
            t.gid = cut.buried[i].gid /\ t.rev = cut.buried[i].rev /\ t.seq > n
      /\ \A i \in DOMAIN cut.buried : \E t \in fresh.tombs :
            t.gid = cut.buried[i].gid /\ t.rev = cut.buried[i].rev /\ t.seq > n
  <2>1. fresh.counter = n + Len(order) + Len(cut.buried)
    BY <1>3, <1>4 DEF Renumbers
  <2>2. fresh.counter >= n
    BY <1>5, <2>1
  <2> QED
    BY <1>2, <1>3, <1>4, <2>2 DEF Renumbers
<1>7. Live(fresh) = (Live(st) \ S) \cup Gids(acc)
  BY <1>3, <1>6 DEF Live
<1>8. /\ new \in Store /\ Numbered(new, {}) /\ IsFiniteSet(new.conflicts)
      /\ new.live = fresh.live /\ Live(new) = Live(fresh) /\ new.counter = fresh.counter
      /\ new.weak = fresh.weak
      /\ new.tombs \subseteq fresh.tombs
      /\ \A t \in fresh.tombs : t \in new.tombs <=> t.gid \notin Gids(acc)
      /\ fresh.conflicts \subseteq new.conflicts
      /\ \A t \in fresh.tombs : t.gid \in Gids(acc) =>
            \E c \in new.conflicts : c.gid = t.gid /\ c.rev = t.rev
  <2>1. IsFiniteSet(fresh.conflicts)
    BY <1>1, <1>6
  <2> QED
    BY <1>6, <2>1, Resurrected
<1> HIDE DEF new
<1>9. \A d \in acc : d.gid \in Gids(acc) /\ d.gid \in Gid
  BY DEF Gids, Leaf
<1>10. \A t \in fresh.tombs : \E u \in new.tombs \cup new.conflicts : u.gid = t.gid /\ u.rev = t.rev
  BY <1>8
<1>11. Covers(new.tombs \cup new.conflicts, st.tombs)
  BY <1>6, <1>10 DEF Covers
<1>12. ASSUME NEW i \in DOMAIN cut.buried
       PROVE  /\ \E t \in new.tombs \cup new.conflicts :
                    t.gid = cut.buried[i].gid /\ t.rev = cut.buried[i].rev
              /\ cut.buried[i].gid \notin Gids(acc) =>
                    \E t \in new.tombs : t.gid = cut.buried[i].gid /\ t.seq > n
  <2>1. PICK t \in fresh.tombs :
            t.gid = cut.buried[i].gid /\ t.rev = cut.buried[i].rev /\ t.seq > n
    BY <1>6
  <2> QED
    BY <2>1, <1>8, <1>10
<1>13. \A t \in new.tombs : /\ t.gid \notin Gids(acc)
                            /\ \/ t \in st.tombs
                               \/ t.seq > n /\ \E i \in DOMAIN cut.buried : t.gid = cut.buried[i].gid
  BY <1>6, <1>8
<1>14. \A d \in acc : new.live[d.gid].rev = d.rev /\ new.live[d.gid].seq > n
  BY <1>3, <1>6, <1>8, <1>9
<1>15. \A g \in Gid \ (S \cup Gids(acc)) : new.live[g] = st.live[g]
  BY <1>1, <1>3, <1>6, <1>8
<1> QED
  BY <1>6, <1>7, <1>8, <1>11, <1>12, <1>13, <1>14, <1>15 DEF Lands, new, fresh, put

\* Every live edge has live ends.
Attached(st) == \A e \in EGid \cap Live(st) : Ends(e) \subseteq Live(st)

\* A body, and one of a list of wanted bodies, that a graph has taken in.
Holds(st, d) == OnLine(st, d) \/ (d.gid \in Live(st) /\ DescendsFrom(st.live[d.gid].rev, d.rev))

\* What a change set does to a graph: the elements S go, each named by a delete
\* or a weak edge, and the bodies acc land, edges on ends that are there.
Moves(st, docs, dels, acc, S, new) ==
    /\ Live(new) = (Live(st) \ S) \cup Gids(acc)
    /\ \A d \in acc : Accepts(st, d) /\ new.live[d.gid].rev = d.rev
    /\ \A d \in docs : Accepts(st, d) => d.gid \in Gids(acc)
    /\ \A g \in Gid \ (S \cup Gids(acc)) : new.live[g] = st.live[g]
    /\ S \subseteq Gids(ToSet(dels)) \cup st.weak
    /\ \A g \in Gids(ToSet(dels)) \cap Live(st) : Admits(st, dels, g) => g \in S
    /\ new.weak = st.weak \ (S \cup Gids(acc))
    /\ Buried(st) \ Gids(acc) \subseteq Buried(new) /\ S \ Gids(acc) \subseteq Buried(new)
    /\ Buried(new) \subseteq Buried(st) \cup Gids(ToSet(dels)) \cup S
    /\ \A e \in Gids(acc) \cap EGid : Ends(e) \subseteq Live(new)
    /\ (\A d \in ToSet(dels) : d.gid \in EGid \cap Live(st) => DescendsFrom(d.rev, st.live[d.gid].rev))
          => \A e \in (EGid \cap Live(st)) \ S : Ends(e) \cap S = {}

\* applyWire.
LEMMA Applied ==
    ASSUME NEW st, Sound(st), NEW docs \in SUBSET Leaf, IsFiniteSet(docs),
           NEW dels \in Seq(Leaf), NEW new \in ApplyWire(st, docs, dels)
    PROVE  /\ Advances(st, new)
           /\ Attached(st) => Keeps(st, new)
           /\ \A d \in docs : \/ OnLine(new, d)
                              \/ d.gid \in Live(st) /\ DescendsFrom(st.live[d.gid].rev, d.rev)
                              \/ \E o \in docs : o.gid = d.gid /\ o # d
           /\ dels = << >> => /\ Live(st) \subseteq Live(new) /\ new.tombs \subseteq st.tombs
                              /\ Attached(st) => Attached(new)
           /\ Live(new) \subseteq Live(st) \cup Gids({d \in docs : Accepts(st, d)})
           /\ \E acc \in SUBSET docs, S \in SUBSET Live(st) : Moves(st, docs, dels, acc, S, new)
<1> DEFINE ok == {d \in docs : Accepts(st, d)}
           mid == ClassifyWire(st, docs)
<1>1. PICK acc \in OnePerGid(ok) : new \in
          UNION {Landings(cut, acc) : cut \in {c \in ApplyDeletes(mid, dels) : Resolves(c.store, acc)}}
  BY Zenon DEF ApplyWire
<1>2. PICK cut \in ApplyDeletes(mid, dels) : Resolves(cut.store, acc) /\ new \in Landings(cut, acc)
  BY <1>1
<1>3. PICK order \in RowOrders(Gids(acc)) :
          new = Resurrect(Refresh(Upsert(cut.store, acc), order, cut.buried), Gids(acc))
  BY <1>2 DEF Landings
<1>4. /\ acc \in SUBSET docs /\ IsFiniteSet(acc) /\ acc \in SUBSET Leaf
      /\ \A a, b \in acc : a.gid = b.gid => a = b
      /\ \A d \in acc : Accepts(st, d)
      /\ Gids(acc) = Gids(ok)
  <2>1. acc \in SUBSET docs
    BY DEF OnePerGid
  <2>2. IsFiniteSet(acc)
    BY <2>1, FS_Subset
  <2> QED
    BY <2>1, <2>2 DEF OnePerGid
<1>5. /\ st \in Store /\ Numbered(st, {}) /\ Exclusive(st)
  BY DEF Sound
<1>6. /\ mid \in Store /\ mid.live = st.live /\ mid.weak = st.weak
      /\ mid.tombs = st.tombs /\ mid.counter = st.counter
      /\ IsFiniteSet(mid.conflicts) /\ st.conflicts \subseteq mid.conflicts
      /\ Covers(mid.conflicts, {d \in docs : Clash(st, d) /\ ~Wins(st, d)})
      /\ Covers(mid.conflicts, LiveBodies(st, Gids({d \in docs : Wins(st, d)})))
  BY Classified
<1> HIDE DEF mid
<1>7. Live(mid) = Live(st) /\ Buried(mid) = Buried(st)
  BY <1>6 DEF Live, Buried
<1>8. Sound(mid)
  BY <1>5, <1>6, <1>7 DEF Sound, Numbered, Exclusive
<1>9. PICK S \in SUBSET Live(mid) :
          /\ CutFrom(mid, cut, S) /\ (dels = << >> => S = {} /\ cut.buried = << >>)
          /\ Takes(mid, dels, cut, S)
  BY <1>8, DeletesApplied
<1>10. Lands(mid, cut, S, acc, new)
  BY <1>3, <1>4, <1>6, <1>9, Landed
<1>11. \A g \in Gids(acc) : \E d \in acc : d.gid = g
  BY DEF Gids
<1>12. /\ new \in Store /\ Numbered(new, {}) /\ IsFiniteSet(new.conflicts)
       /\ new.counter >= st.counter
       /\ Live(new) = (Live(st) \ S) \cup Gids(acc)
       /\ \A d \in acc : new.live[d.gid].rev = d.rev /\ new.live[d.gid].seq > st.counter
       /\ \A g \in Gid \ (S \cup Gids(acc)) : new.live[g] = st.live[g]
       /\ \A t \in new.tombs : /\ t.gid \notin Gids(acc)
                               /\ \/ t \in st.tombs
                                  \/ /\ t.seq > st.counter
                                     /\ \E i \in DOMAIN cut.buried : t.gid = cut.buried[i].gid
       /\ \A t \in st.tombs : t.gid \notin Gids(acc) => t \in new.tombs
       /\ Covers(new.tombs \cup new.conflicts, st.tombs)
       /\ \A i \in DOMAIN cut.buried :
             /\ \E t \in new.tombs \cup new.conflicts :
                   t.gid = cut.buried[i].gid /\ t.rev = cut.buried[i].rev
             /\ cut.buried[i].gid \notin Gids(acc) =>
                   \E t \in new.tombs : t.gid = cut.buried[i].gid /\ t.seq > st.counter
       /\ cut.store.conflicts \subseteq new.conflicts
  BY <1>6, <1>7, <1>10 DEF Lands
<1>13. /\ mid.conflicts \subseteq new.conflicts
       /\ \A i \in DOMAIN cut.buried : cut.buried[i].gid \notin Live(st) \ S
       /\ \A g \in S : \E i \in DOMAIN cut.buried :
             cut.buried[i].gid = g /\ DescendsFrom(cut.buried[i].rev, st.live[g].rev)
       /\ Live(cut.store) = Live(st) \ S
  BY <1>6, <1>7, <1>9, <1>12 DEF CutFrom
<1>14. Sound(new)
  <2>1. \A t \in new.tombs : t.gid \notin Live(new)
    BY <1>5, <1>12, <1>13 DEF Exclusive, Buried
  <2> QED
    BY <1>12, <2>1 DEF Sound, Exclusive, Buried
<1>15. Settled(st, new)
  <2> SUFFICES ASSUME NEW g \in Live(new), new.live[g].seq <= st.counter
               PROVE  g \in Live(st) /\ new.live[g] = st.live[g]
    BY DEF Settled
  <2>1. g \notin Gids(acc)
    <3>1. new.live[g].seq \in Nat /\ st.counter \in Nat
      BY <1>5, <1>12, Typed DEF Live
    <3>2. g \in Gids(acc) => new.live[g].seq > st.counter
      BY <1>11, <1>12
    <3> QED
      BY <3>1, <3>2
  <2> QED
    BY <2>1, <1>12 DEF Live
<1>16. Enters(st, new)
  <2> SUFFICES ASSUME NEW g \in Gid, Shown(st, g) # Shown(new, g)
               PROVE  \E r \in FeedRows(new, Unfiltered) : r.gid = g /\ r.seq > st.counter
    BY DEF Enters
  <2>1. CASE g \in Gids(acc)
    BY <2>1, <1>11, <1>12, InFeed
  <2>2. CASE \E t \in new.tombs : t.gid = g /\ t.seq > st.counter
    BY <2>2, InFeed
  <2>3. CASE g \notin Gids(acc) /\ ~ \E t \in new.tombs : t.gid = g /\ t.seq > st.counter
    <3>1. g \notin S
      BY <1>12, <1>13, <2>3
    <3>2. new.live[g].rev = st.live[g].rev
      BY <1>12, <2>3, <3>1
    <3>3. {u \in new.tombs : u.gid = g} = {u \in st.tombs : u.gid = g}
      BY <1>12, <2>3
    <3> QED
      BY <3>2, <3>3, SameShown
  <2> QED
    BY <2>1, <2>2, <2>3
<1>17. ASSUME Attached(st)
       PROVE  Keeps(st, new)
  <2> SUFFICES ASSUME NEW l \in Leaves(st)
               PROVE  OnLine(new, l)
    BY DEF Keeps
  <2>1. CASE l.gid \in Live(st) /\ l.rev = st.live[l.gid].rev
    <3>1. l.gid \in Gid /\ l.rev \in Rev
      BY <1>5, <2>1, Typed DEF Live
    <3>2. CASE l.gid \in S
      <4>1. PICK i \in DOMAIN cut.buried :
                cut.buried[i].gid = l.gid /\ DescendsFrom(cut.buried[i].rev, l.rev)
        BY <1>13, <2>1, <3>2
      <4>2. PICK t \in new.tombs \cup new.conflicts :
                t.gid = l.gid /\ t.rev = cut.buried[i].rev
        BY <1>12, <4>1
      <4>3. \E k \in Leaves(new) : k.gid = t.gid /\ k.rev = t.rev
        BY <4>2, AreLeaves
      <4> QED
        BY <4>1, <4>2, <4>3 DEF OnLine
    <3>3. CASE l.gid \in Gids(acc)
      <4>1. PICK d \in acc : d.gid = l.gid
        BY <1>11, <3>3
      <4>2. DescendsFrom(d.rev, l.rev) \/ Wins(st, d)
        BY <1>4, <2>1, <4>1 DEF Accepts, Live
      <4>3. CASE DescendsFrom(d.rev, l.rev)
        BY <1>12, <3>3, <4>1, <4>3, AreLeaves DEF OnLine
      <4>4. CASE Wins(st, d)
        <5>1. l.gid \in Gids({o \in docs : Wins(st, o)}) \cap Live(st)
          BY <1>4, <2>1, <4>1, <4>4 DEF Gids
        <5>2. l.gid \in EGid => Ends(l.gid) \subseteq Live(st)
          BY <1>17, <2>1 DEF Attached
        <5>3. \E b \in LiveBodies(st, Gids({o \in docs : Wins(st, o)})) : b.gid = l.gid /\ b.rev = l.rev
          <6> DEFINE gids == Gids({o \in docs : Wins(st, o)})
          <6>1. l.gid \in gids \cap Live(st)
            BY <5>1
          <6> HIDE DEF gids
          <6>2. \E b \in LiveBodies(st, gids) : b.gid = l.gid /\ b.rev = st.live[l.gid].rev
            BY <1>5, <5>2, <6>1, BodiesRead
          <6> QED
            BY <2>1, <6>2 DEF gids
        <5>4. \E c \in new.conflicts : c.gid = l.gid /\ c.rev = l.rev
          BY <1>6, <1>13, <5>3 DEF Covers
        <5> QED
          BY <3>1, <5>4, Self, AreLeaves DEF OnLine
      <4> QED
        BY <4>2, <4>3, <4>4
    <3>4. CASE l.gid \notin S \cup Gids(acc)
      <4>1. l.gid \in Live(new) /\ new.live[l.gid].rev = l.rev
        BY <1>12, <2>1, <3>1, <3>4
      <4> QED
        BY <3>1, <4>1, Self, AreLeaves DEF OnLine
    <3> QED
      BY <3>2, <3>3, <3>4
  <2>2. CASE \E t \in st.tombs : l.gid = t.gid /\ l.rev = t.rev
    <3>1. l.rev \in Rev
      BY <1>5, <2>2, Typed
    <3>2. \E t \in new.tombs \cup new.conflicts : l.gid = t.gid /\ l.rev = t.rev
      BY <1>12, <2>2 DEF Covers
    <3> QED
      BY <3>1, <3>2, Self, AreLeaves DEF OnLine
  <2>3. CASE \E t \in st.conflicts : l.gid = t.gid /\ l.rev = t.rev
    BY <1>5, <1>6, <1>13, <2>3, Typed, Self, AreLeaves DEF OnLine
  <2> QED
    BY <2>1, <2>2, <2>3, AreLeaves
<1>18. ASSUME NEW d \in docs, ~ \E o \in docs : o.gid = d.gid /\ o # d
       PROVE  OnLine(new, d) \/ (d.gid \in Live(st) /\ DescendsFrom(st.live[d.gid].rev, d.rev))
  <2>1. d.gid \in Gid /\ d.rev \in Rev
    BY DEF Leaf
  <2>2. CASE Accepts(st, d)
    <3>1. d \in acc
      <4>1. d.gid \in Gids(acc)
        BY <1>4, <2>2 DEF Gids
      <4> QED
        BY <1>4, <1>11, <1>18, <4>1
    <3>2. d.gid \in Live(new) /\ new.live[d.gid].rev = d.rev
      BY <1>12, <3>1 DEF Gids
    <3> QED
      BY <2>1, <3>2, Self, AreLeaves DEF OnLine
  <2>3. CASE ~Accepts(st, d)
    <3>1. d.gid \in Live(st)
      BY <2>1, <2>3 DEF Accepts, Live
    <3>2. CASE d.rev = st.live[d.gid].rev
      BY <2>1, <3>1, <3>2, Self
    <3>3. CASE Clash(st, d) /\ ~Wins(st, d)
      <4>1. \E c \in new.conflicts : c.gid = d.gid /\ c.rev = d.rev
        BY <1>6, <1>13, <3>3 DEF Covers
      <4> QED
        BY <2>1, <4>1, Self, AreLeaves DEF OnLine
    <3>4. CASE d.rev # st.live[d.gid].rev /\ ~(Clash(st, d) /\ ~Wins(st, d))
      BY <2>3, <3>1, <3>4 DEF Accepts, Clash, Diverges, Live
    <3> QED
      BY <3>2, <3>3, <3>4
  <2> QED
    BY <2>2, <2>3
<1>19. ASSUME dels = << >>
       PROVE  /\ Live(st) \subseteq Live(new) /\ new.tombs \subseteq st.tombs
              /\ Attached(st) => Attached(new)
  <2>1. S = {} /\ \A i \in DOMAIN cut.buried : FALSE
    BY <1>9, <1>19
  <2>2. Live(new) = Live(st) \cup Gids(acc)
    BY <1>12, <2>1
  <2>3. \A e \in Gids(acc) \cap EGid : Ends(e) \subseteq Live(st) \cup Gids(acc)
    BY <1>2, <1>13, <2>1 DEF Resolves
  <2> QED
    BY <1>12, <2>1, <2>2, <2>3 DEF Attached
<1>20. Live(new) \subseteq Live(st) \cup Gids({d \in docs : Accepts(st, d)})
  BY <1>4, <1>12
<1>21. Moves(st, docs, dels, acc, S, new)
  <2>1. new.weak = cut.store.weak \ Gids(acc) /\ cut.store.weak = st.weak \ S
    BY <1>6, <1>9, <1>10 DEF Lands, Takes
  <2>2. \A e \in Gids(acc) \cap EGid : Ends(e) \subseteq Live(new)
    BY <1>2, <1>12, <1>13 DEF Resolves
  <2>7. \A g : Admits(mid, dels, g) <=> Admits(st, dels, g)
    BY <1>6, <1>7 DEF Admits
  <2>8. \A g \in Gids(ToSet(dels)) \cap Live(st) : Admits(st, dels, g) => g \in S
    BY <1>7, <1>9, <2>7 DEF Takes
  <2>9. \A d \in docs : Accepts(st, d) => d.gid \in Gids(acc)
    BY <1>4 DEF Gids
  <2>3. /\ S \subseteq Gids(ToSet(dels)) \cup st.weak
        /\ \A i \in DOMAIN cut.buried : cut.buried[i].gid \in Gids(ToSet(dels)) \cup S
        /\ (\A d \in ToSet(dels) : d.gid \in EGid \cap Live(st) => DescendsFrom(d.rev, st.live[d.gid].rev))
              => \A e \in (EGid \cap Live(st)) \ S : Ends(e) \cap S = {}
    BY <1>6, <1>7, <1>9 DEF Takes
  <2>4. Buried(new) \subseteq Buried(st) \cup Gids(ToSet(dels)) \cup S
    BY <1>12, <2>3 DEF Buried
  <2>5. Buried(st) \ Gids(acc) \subseteq Buried(new)
    BY <1>12 DEF Buried
  <2>6. S \ Gids(acc) \subseteq Buried(new)
    <3> SUFFICES ASSUME NEW g \in S \ Gids(acc)
                 PROVE  g \in Buried(new)
      OBVIOUS
    <3>1. PICK i \in DOMAIN cut.buried : cut.buried[i].gid = g
      BY <1>13
    <3> QED
      BY <1>12, <3>1 DEF Buried
  <2> QED
    BY <1>4, <1>12, <2>1, <2>2, <2>3, <2>4, <2>5, <2>6, <2>8, <2>9 DEF Moves
<1>22. acc \in SUBSET docs /\ S \in SUBSET Live(st)
  BY <1>4, <1>7
<1> QED
  BY <1>12, <1>14, <1>15, <1>16, <1>17, <1>18, <1>19, <1>20, <1>21, <1>22 DEF Advances

-----------------------------------------------------------------------------
\* The feed, page by page.

\* What the rows of a feed are.
LEMMA FeedTyped ==
    ASSUME NEW st, Sound(st), NEW filter, NEW rows, rows = FeedRows(st, filter)
    PROVE  /\ IsFiniteSet(rows)
           /\ \A r \in rows : /\ r.gid \in Gid /\ r.rev \in Rev /\ r.seq \in 1 .. st.counter
                              /\ r.seq \in Nat /\ r.seq <= st.counter
           /\ \A q, r \in rows : q.seq = r.seq => q = r
           /\ \A r \in rows : ~r.deleted =>
                 /\ r.gid \in Live(st) /\ r.rev = st.live[r.gid].rev
                 /\ r.seq = st.live[r.gid].seq /\ r.losers = Losers(st, r.gid)
           /\ \A r \in rows : r.deleted => \E t \in st.tombs : t.gid = r.gid /\ t.rev = r.rev
           /\ \A t \in st.tombs : \E r \in rows :
                 r.gid = t.gid /\ r.deleted /\ r.rev = t.rev /\ r.seq = t.seq
           /\ filter = Unfiltered => \A g \in Live(st) : \E r \in rows :
                 /\ r.gid = g /\ ~r.deleted
                 /\ r.rev = st.live[g].rev /\ r.seq = st.live[g].seq
<1> DEFINE row(g) == [gid |-> g, rev |-> st.live[g].rev, seq |-> st.live[g].seq,
                      deleted |-> FALSE, losers |-> Losers(st, g)]
           grave(t) == [gid |-> t.gid, rev |-> t.rev, seq |-> t.seq, deleted |-> TRUE, losers |-> {}]
<1>1. st \in Store /\ Numbered(st, {}) /\ st.counter \in Nat
  BY Typed DEF Sound
<1>2. IsFiniteSet(rows)
  BY <1>1, FiniteFeed
<1>3. FeedRows(st, filter) = {row(g) : g \in Selected(st, filter)} \cup {grave(t) : t \in st.tombs}
  BY DEF FeedRows
<1>4. /\ \A g : /\ row(g).seq = st.live[g].seq /\ row(g).gid = g /\ row(g).deleted = FALSE
                /\ row(g).rev = st.live[g].rev /\ row(g).losers = Losers(st, g)
      /\ \A t : grave(t).seq = t.seq /\ grave(t).gid = t.gid /\ grave(t).rev = t.rev
                /\ grave(t).deleted = TRUE
  OBVIOUS
<1> HIDE DEF row, grave
<1>5. \A r \in rows : \/ \E g \in Live(st) : r = row(g)
                      \/ \E t \in st.tombs : r = grave(t)
  BY <1>3 DEF Selected
<1>6. FeedRows(st, filter) \subseteq FeedRows(st, Unfiltered)
  <2>1. Selected(st, filter) \in SUBSET Selected(st, Unfiltered)
    BY DEF Selected
  <2> QED
    BY <2>1 DEF FeedRows
<1>7. \A q, r \in rows : q.seq \in 1 .. st.counter /\ (q.seq = r.seq => q = r)
  <2>1. \A q, r \in FeedRows(st, Unfiltered) : q.seq \in 1 .. st.counter /\ (q.seq = r.seq => q = r)
    BY <1>1, FeedNumbered
  <2> QED
    BY <1>6, <2>1
<1>8. \A r \in rows : r.gid \in Gid /\ r.rev \in Rev
  <2>1. \A g \in Live(st) : g \in Gid /\ st.live[g].rev \in Rev
    BY <1>1, Typed DEF Live
  <2>2. \A t \in st.tombs : t.gid \in Gid /\ t.rev \in Rev
    BY <1>1, Typed
  <2> QED
    BY <1>4, <1>5, <2>1, <2>2
<1>9. \A r \in rows : ~r.deleted =>
          /\ r.gid \in Live(st) /\ r.rev = st.live[r.gid].rev
          /\ r.seq = st.live[r.gid].seq /\ r.losers = Losers(st, r.gid)
  BY <1>4, <1>5
<1>12. \A r \in rows : r.deleted => \E t \in st.tombs : t.gid = r.gid /\ t.rev = r.rev
  BY <1>4, <1>5
<1>10. filter = Unfiltered => \A g \in Live(st) : row(g) \in rows
  BY <1>3 DEF Selected
<1>11. \A r \in rows : r.seq \in Nat /\ r.seq <= st.counter
  BY <1>1, <1>7
<1>13. \A t \in st.tombs : grave(t) \in rows
  BY <1>3
<1> QED
  BY <1>2, <1>4, <1>7, <1>8, <1>9, <1>10, <1>11, <1>12, <1>13

\* The lowest rows up to a limit: all of them, or as many as the limit and
\* every row not past the highest of them.
LEMMA Paged ==
    ASSUME NEW rows, IsFiniteSet(rows), \A r \in rows : r.seq \in Nat,
           \A q, r \in rows : q.seq = r.seq => q = r, NEW limit \in Nat \ {0}
    PROVE  LET page == {r \in rows : Cardinality({q \in rows : q.seq <= r.seq}) <= limit}
           IN  IF Cardinality(page) = limit
               THEN \E h \in page : /\ Max({r.seq : r \in page}) = h.seq
                                    /\ \A r \in rows : r.seq <= h.seq => r \in page
               ELSE page = rows
<1> DEFINE key == [r \in rows |-> r.seq]
           upto(r) == {q \in rows : q.seq <= r.seq}
           page == {r \in rows : Cardinality(upto(r)) <= limit}
           n == Cardinality(rows)
<1>1. key \in [rows -> Nat] /\ \A q, r \in rows : key[q] = key[r] => q = r
  OBVIOUS
<1>2. \A r \in rows : Rank(rows, key, r) = Cardinality(upto(r)) /\ key[r] = r.seq
  <2> TAKE r \in rows
  <2>1. {q \in rows : key[q] <= key[r]} = upto(r)
    OBVIOUS
  <2> QED
    BY <2>1 DEF Rank
<1>3. /\ n \in Nat /\ \A r \in rows : Cardinality(upto(r)) \in 1 .. n
      /\ \A q, r \in rows : q.seq < r.seq => Cardinality(upto(q)) < Cardinality(upto(r))
      /\ \A i \in 1 .. n : \E r \in rows : Cardinality(upto(r)) = i
  <2>1. /\ n \in Nat
        /\ \A r \in rows : Rank(rows, key, r) \in 1 .. n
        /\ \A q, r \in rows : key[q] < key[r] => Rank(rows, key, q) < Rank(rows, key, r)
        /\ \A i \in 1 .. n : \E r \in rows : Rank(rows, key, r) = i
    <3> HIDE DEF key
    <3> QED
      BY <1>1, Ranked
  <2> HIDE DEF key, upto
  <2> QED
    BY <1>2, <2>1
<1> HIDE DEF key, upto
<1>4. IsFiniteSet(page) /\ page \in SUBSET rows
  BY FS_Subset
<1>5. CASE Cardinality(page) = limit
  <2>1. n >= limit
    BY <1>4, <1>5, FS_Subset
  <2>2. PICK h \in rows : Cardinality(upto(h)) = limit
    BY <1>3, <2>1
  <2>3. h \in page
    BY <2>2
  <2>4. \A r \in page : r.seq <= h.seq
    <3> TAKE r \in page
    <3>1. r.seq \in Nat /\ h.seq \in Nat /\ Cardinality(upto(r)) \in Nat
      BY <1>3, <2>2
    <3>2. h.seq < r.seq => limit < Cardinality(upto(r))
      BY <1>3, <2>2
    <3> QED
      BY <3>1, <3>2
  <2>5. Max({r.seq : r \in page}) = h.seq
    <3> DEFINE seqs == {r.seq : r \in page}
    <3>1. h.seq \in seqs /\ \A x \in seqs : h.seq >= x /\ x \in Nat
      BY <2>3, <2>4
    <3> HIDE DEF seqs
    <3>2. Max(seqs) = h.seq
      <4>1. \A x \in seqs : (\A y \in seqs : x >= y) => x = h.seq
        BY <3>1
      <4> QED
        BY <3>1, <4>1 DEF Max
    <3> QED
      BY <3>2 DEF seqs
  <2>6. \A r \in rows : r.seq <= h.seq => r \in page
    <3> TAKE r \in rows
    <3> HAVE r.seq <= h.seq
    <3>1. r.seq = h.seq \/ r.seq < h.seq
      BY <2>2
    <3>2. r.seq < h.seq => Cardinality(upto(r)) < limit /\ Cardinality(upto(r)) \in Nat
      BY <1>3, <2>2
    <3> QED
      BY <2>2, <2>3, <3>1, <3>2
  <2> QED
    BY <1>5, <2>3, <2>5, <2>6, Zenon DEF upto
<1>6. CASE Cardinality(page) # limit
  <2>1. n <= limit
    <3>1. CASE n > limit
      <4> DEFINE rank == [r \in page |-> Cardinality(upto(r))]
      <4>1. rank \in [page -> 1 .. limit]
        BY <1>3
      <4>2. \A q, r \in page : rank[q] = rank[r] => q = r
        <5> TAKE q, r \in page
        <5> HAVE rank[q] = rank[r]
        <5>1. Cardinality(upto(q)) \in Nat /\ Cardinality(upto(q)) = Cardinality(upto(r))
          BY <1>3
        <5>2. ~(q.seq < r.seq) /\ ~(r.seq < q.seq)
          BY <1>3, <5>1
        <5> QED
          BY <5>2
      <4>3. \A i \in 1 .. limit : \E r \in page : rank[r] = i
        <5> TAKE i \in 1 .. limit
        <5>1. PICK r \in rows : Cardinality(upto(r)) = i
          BY <1>3, <3>1
        <5>2. r \in page
          BY <5>1
        <5> QED
          BY <5>1, <5>2
      <4>4. rank \in Bijection(page, 1 .. limit)
        <5> HIDE DEF rank, page
        <5> QED
          BY <4>1, <4>2, <4>3 DEF Bijection, Injection, Surjection, IsInjective
      <4>5. IsFiniteSet(1 .. limit) /\ Cardinality(1 .. limit) = limit
        BY FS_Interval
      <4>6. Cardinality(page) = limit
        <5> HIDE DEF rank, page
        <5>1. ExistsBijection(page, 1 .. limit)
          BY <4>4 DEF ExistsBijection
        <5> QED
          BY <1>4, <4>5, <5>1, FS_Bijection
      <4> QED
        BY <1>6, <4>6
    <3> QED
      BY <1>3, <3>1
  <2>2. \A r \in rows : Cardinality(upto(r)) <= limit
    BY <1>3, <2>1
  <2>3. page = rows
    BY <2>2
  <2> QED
    BY <1>6, <2>3, Zenon DEF upto
<1> QED
  BY <1>5, <1>6

-----------------------------------------------------------------------------
\* What a pass carries between its calls.

Message == [call : Calls, docs : SUBSET Leaf, losers : SUBSET Leaf, deletes : Seq(Leaf),
            last_seq : Nat]

Unique(docs) == \A a, b \in docs : a.gid = b.gid => a = b

Carried(m) == m \in Message /\ IsFiniteSet(m.docs) /\ IsFiniteSet(m.losers) /\ Unique(m.docs)

Parcel(call, docs, losers, deletes, last_seq) ==
    [call |-> call, docs |-> docs, losers |-> losers, deletes |-> deletes, last_seq |-> last_seq]

\* A pass as the feed fills it, as a batch leaves it, and at its next call.
Filled(docs, losers, deletes, last_seq) ==
    [Idle EXCEPT !.docs = docs, !.losers = losers, !.deletes = deletes, !.last_seq = last_seq]
Emptied(m, losers)   == [m EXCEPT !.docs = {}, !.deletes = << >>, !.losers = losers]
At(m, call)          == [m EXCEPT !.call = call]
WithDocs(m, docs)    == [m EXCEPT !.docs = docs]
WithLosers(m, losers) == [m EXCEPT !.losers = losers]
WithDeletes(m, deletes) == [m EXCEPT !.deletes = deletes]
WithSeq(m, seq)      == [m EXCEPT !.last_seq = seq]
None                 == << >>

LEMMA AsParcel ==
    ASSUME NEW m \in Message
    PROVE  /\ m = Parcel(m.call, m.docs, m.losers, m.deletes, m.last_seq)
           /\ m.call \in Calls /\ m.docs \in SUBSET Leaf /\ m.losers \in SUBSET Leaf
           /\ m.deletes \in Seq(Leaf) /\ m.last_seq \in Nat
BY DEF Message, Parcel

LEMMA OfParcel ==
    ASSUME NEW m, NEW c, NEW d, NEW l, NEW x, NEW n, m = Parcel(c, d, l, x, n)
    PROVE  /\ m.call = c /\ m.docs = d /\ m.losers = l /\ m.deletes = x /\ m.last_seq = n
           /\ c \in Calls /\ d \in SUBSET Leaf /\ l \in SUBSET Leaf /\ x \in Seq(Leaf) /\ n \in Nat
                 => m \in Message
BY DEF Parcel, Message

LEMMA OneChanged ==
    ASSUME NEW m, NEW c, NEW d, NEW l, NEW x, NEW n, m = Parcel(c, d, l, x, n), NEW y
    PROVE  /\ At(m, y) = Parcel(y, d, l, x, n)
           /\ WithDocs(m, y) = Parcel(c, y, l, x, n)
           /\ WithLosers(m, y) = Parcel(c, d, y, x, n)
           /\ WithDeletes(m, y) = Parcel(c, d, l, y, n)
           /\ WithSeq(m, y) = Parcel(c, d, l, x, y)
<1>1. At(m, y) = Parcel(y, d, l, x, n)
  BY DEF Parcel, At
<1>2. WithDocs(m, y) = Parcel(c, y, l, x, n)
  BY DEF Parcel, WithDocs
<1>3. WithLosers(m, y) = Parcel(c, d, y, x, n)
  BY DEF Parcel, WithLosers
<1>4. WithDeletes(m, y) = Parcel(c, d, l, y, n)
  BY DEF Parcel, WithDeletes
<1>5. WithSeq(m, y) = Parcel(c, d, l, x, y)
  BY DEF Parcel, WithSeq
<1> QED
  BY <1>1, <1>2, <1>3, <1>4, <1>5

LEMMA IdleIs ==
    /\ Idle = Parcel("changes", {}, {}, None, 0)
    /\ "changes" \in Calls /\ None \in Seq(Leaf)
BY DEF Idle, Parcel, None, Calls

LEMMA FilledIs ==
    ASSUME NEW d, NEW l, NEW x, NEW n
    PROVE  Filled(d, l, x, n) = Parcel("changes", d, l, x, n)
<1> DEFINE one == WithDocs(Idle, d)
           two == WithLosers(one, l)
           three == WithDeletes(two, x)
<1>1. Filled(d, l, x, n) = WithSeq(three, n)
  BY Zenon DEF Filled, WithDocs, WithLosers, WithDeletes, WithSeq
<1>2. one = Parcel("changes", d, {}, None, 0)
  BY IdleIs, OneChanged
<1> HIDE DEF one
<1>3. two = Parcel("changes", d, l, None, 0)
  BY <1>2, OneChanged
<1> HIDE DEF two
<1>4. three = Parcel("changes", d, l, x, 0)
  BY <1>3, OneChanged
<1> HIDE DEF three
<1> QED
  BY <1>1, <1>4, OneChanged

LEMMA EmptiedIs ==
    ASSUME NEW m \in Message, NEW l
    PROVE  Emptied(m, l) = Parcel(m.call, {}, l, None, m.last_seq)
<1> DEFINE one == WithDocs(m, {})
           two == WithDeletes(one, None)
<1>1. Emptied(m, l) = WithLosers(two, l)
  BY Zenon DEF Emptied, WithDocs, WithLosers, WithDeletes, None
<1>2. one = Parcel(m.call, {}, m.losers, m.deletes, m.last_seq)
  BY AsParcel, OneChanged
<1> HIDE DEF one
<1>3. two = Parcel(m.call, {}, m.losers, None, m.last_seq)
  BY <1>2, OneChanged
<1> HIDE DEF two
<1> QED
  BY <1>1, <1>3, OneChanged

LEMMA NextCalled ==
    ASSUME NEW m, NEW call \in Calls, Carried(m)
    PROVE  /\ Carried(At(m, call))
           /\ At(m, call).call = call /\ At(m, call).docs = m.docs
           /\ At(m, call).last_seq = m.last_seq
<1>1. m \in Message
  BY DEF Carried
<1> DEFINE new == At(m, call)
<1>2. new = Parcel(call, m.docs, m.losers, m.deletes, m.last_seq)
  BY <1>1, AsParcel, OneChanged
<1> HIDE DEF new
<1>3. /\ new \in Message /\ new.call = call /\ new.docs = m.docs /\ new.losers = m.losers
      /\ new.last_seq = m.last_seq
  BY <1>1, <1>2, OfParcel, AsParcel
<1> QED
  BY <1>3 DEF Carried, new

LEMMA Idles == Carried(Idle) /\ Idle.call = "changes" /\ Idle.docs = {} /\ Idle.last_seq = 0
<1>1. /\ Idle \in Message /\ Idle.call = "changes" /\ Idle.docs = {}
      /\ Idle.losers = {} /\ Idle.last_seq = 0
  BY IdleIs, OfParcel
<1> QED
  BY <1>1, FS_EmptySet DEF Carried, Unique

\* Where a pass goes after a call is one of its calls, and it leaves the
\* landing of bodies only with none left.
LEMMA Onward ==
    ASSUME NEW m
    PROVE  /\ AfterGet(m) \in Calls /\ AfterDiff(m) \in Calls /\ AfterFeed(m) \in Calls
           /\ AfterGet(m) \in {"losersDiff", "checkpoint"} => m.docs = {}
           /\ AfterDiff(m) \in {"losersDiff", "checkpoint"} => m.docs = {}
           /\ AfterFeed(m) \in {"losersDiff", "checkpoint"} => m.docs = {}
           /\ AfterGet(m) \in {"bulkDocs", "losersDiff", "checkpoint"}
           /\ AfterDiff(m) \in {"bulkGet", "bulkDocs", "losersDiff", "checkpoint"}
           /\ AfterFeed(m) \in {"revsDiff", "bulkDocs", "losersDiff", "checkpoint"}
BY DEF AfterGet, AfterDiff, AfterFeed, Calls

\* The [gid, rev] of rows, as wire records.
LEMMA Wired ==
    ASSUME NEW rows, IsFiniteSet(rows), \A r \in rows : r.gid \in Gid /\ r.rev \in Rev
    PROVE  /\ InWire(rows) \in SUBSET Leaf /\ IsFiniteSet(InWire(rows))
           /\ \A r \in rows : \E d \in InWire(rows) : d.gid = r.gid /\ d.rev = r.rev
           /\ \A d \in InWire(rows) : \E r \in rows : d.gid = r.gid /\ d.rev = r.rev
<1> DEFINE wire(r) == [gid |-> r.gid, rev |-> r.rev]
<1>1. InWire(rows) = {wire(r) : r \in rows}
  BY DEF InWire
<1>2. \A r \in rows : wire(r) \in Leaf /\ wire(r).gid = r.gid /\ wire(r).rev = r.rev
  BY DEF Leaf
<1> HIDE DEF wire
<1>3. [r \in rows |-> wire(r)] \in Surjection(rows, InWire(rows))
  BY <1>1 DEF Surjection
<1>4. IsFiniteSet(InWire(rows))
  BY <1>3, FS_Surjection
<1> QED
  BY <1>1, <1>2, <1>4

LEMMA SameLeaf ==
    ASSUME NEW a \in Leaf, NEW b \in Leaf, a.gid = b.gid, a.rev = b.rev
    PROVE  a = b
BY DEF Leaf

\* What a read of the feed gives the pass to carry.
Offer(st, since, limit, filter) ==
    LET feed == ChangesFeed(st, since, limit, filter)
        live == {r \in feed.results : ~r.deleted}
        dels == BySeq(feed.results \ live)
    IN  Filled(InWire(live),
               UNION {{[gid |-> r.gid, rev |-> l] : l \in r.losers} : r \in live},
               [i \in DOMAIN dels |-> [gid |-> dels[i].gid, rev |-> dels[i].rev]],
               feed.last_seq)

\* changesFeed: an unfiltered page holds every live row past the checkpoint
\* up to the page's own last_seq.
LEMMA Offered ==
    ASSUME NEW st, Sound(st), NEW since \in Nat, NEW limit \in Nat, NEW filter
    PROVE  LET m == Offer(st, since, limit, filter)
           IN  /\ Carried(m) /\ m.last_seq <= st.counter
               /\ limit = 0 => m.last_seq = st.counter
               /\ \A t \in st.tombs : t.seq > since /\ t.seq <= m.last_seq =>
                     t.gid \in Gids(ToSet(m.deletes))
               /\ filter = Unfiltered => \A g \in Live(st) :
                     st.live[g].seq > since /\ st.live[g].seq <= m.last_seq =>
                        \E d \in m.docs : d.gid = g /\ d.rev = st.live[g].rev
               /\ \A d \in m.docs : d.gid \in Live(st) /\ d.rev = st.live[d.gid].rev
               /\ st.conflicts = {} => m.losers = {}
               /\ \A d \in ToSet(m.deletes) : \E t \in st.tombs : t.gid = d.gid /\ t.rev = d.rev
<1> DEFINE all == FeedRows(st, filter)
           rows == {r \in all : r.seq > since}
           low == {r \in rows : Cardinality({q \in rows : q.seq <= r.seq}) <= limit}
           page == IF limit = 0 THEN rows ELSE low
           seqs == {r.seq : r \in page}
           last == IF limit > 0 /\ Cardinality(page) = limit THEN Max(seqs) ELSE st.counter
           live == {r \in page : ~r.deleted}
           gone == page \ live
           dels == BySeq(gone)
           docs == InWire(live)
           losers == UNION {{[gid |-> r.gid, rev |-> l] : l \in r.losers} : r \in live}
           wire(r) == [gid |-> r.gid, rev |-> r.rev]
           deletes == [i \in DOMAIN dels |-> wire(dels[i])]
           m == Offer(st, since, limit, filter)
<1>1. m = Filled(docs, losers, deletes, last)
  <2> DEFINE feed == ChangesFeed(st, since, limit, filter)
  <2>1. feed = [results |-> page, last_seq |-> last]
    BY Zenon DEF ChangesFeed
  <2>2. feed.results = page /\ feed.last_seq = last
    <3> HIDE DEF page, last, feed
    <3> QED
      BY <2>1
  <2>3. m = Filled(InWire({r \in feed.results : ~r.deleted}),
                   UNION {{[gid |-> r.gid, rev |-> l] : l \in r.losers} : r \in {r \in feed.results : ~r.deleted}},
                   [i \in DOMAIN BySeq(feed.results \ {r \in feed.results : ~r.deleted}) |->
                      wire(BySeq(feed.results \ {r \in feed.results : ~r.deleted})[i])],
                   feed.last_seq)
    BY Zenon DEF Offer
  <2> HIDE DEF page, last, feed
  <2> QED
    BY <2>2, <2>3, Zenon
<1>2. /\ IsFiniteSet(all)
      /\ \A r \in all : /\ r.gid \in Gid /\ r.rev \in Rev
                        /\ r.seq \in Nat /\ r.seq <= st.counter
      /\ \A q, r \in all : q.seq = r.seq => q = r
      /\ \A r \in all : ~r.deleted =>
            /\ r.gid \in Live(st) /\ r.rev = st.live[r.gid].rev
            /\ r.seq = st.live[r.gid].seq /\ r.losers = Losers(st, r.gid)
      /\ \A r \in all : r.deleted => \E t \in st.tombs : t.gid = r.gid /\ t.rev = r.rev
      /\ \A t \in st.tombs : \E r \in all :
            r.gid = t.gid /\ r.deleted /\ r.rev = t.rev /\ r.seq = t.seq
      /\ filter = Unfiltered => \A g \in Live(st) : \E r \in all :
            /\ r.gid = g /\ ~r.deleted
            /\ r.rev = st.live[g].rev /\ r.seq = st.live[g].seq
  <2> HIDE DEF all
  <2>1. all = FeedRows(st, filter)
    BY DEF all
  <2> QED
    BY <2>1, FeedTyped
<1> HIDE DEF all, m
<1>3. IsFiniteSet(rows) /\ rows \in SUBSET all
  BY <1>2, FS_Subset
<1>4. st \in Store /\ st.counter \in Nat /\ IsFiniteSet(st.conflicts)
      /\ \A c \in st.conflicts : c.gid \in Gid /\ c.rev \in Rev
  BY Typed DEF Sound
<1>5. /\ page \in SUBSET all /\ IsFiniteSet(page)
      /\ last \in Nat /\ last <= st.counter
      /\ \A r \in rows : r.seq <= last => r \in page
  <2>1. page \in SUBSET rows /\ IsFiniteSet(page)
    <3>1. page \in SUBSET rows
      OBVIOUS
    <3> QED
      BY <1>3, <3>1, FS_Subset
  <2>2. CASE limit > 0 /\ Cardinality(page) = limit
    <3>1. page = low
      BY <2>2
    <3>2. \E h \in low : Max({r.seq : r \in low}) = h.seq /\ \A r \in rows : r.seq <= h.seq => r \in low
      <4>1. \A r \in rows : r.seq \in Nat
        BY <1>2
      <4>2. \A q, r \in rows : q.seq = r.seq => q = r
        BY <1>2
      <4>3. limit \in Nat \ {0} /\ Cardinality(low) = limit
        BY <2>2, <3>1
      <4> HIDE DEF rows
      <4> QED
        BY <1>3, <4>1, <4>2, <4>3, Paged
    <3>3. PICK h \in page : last = h.seq /\ \A r \in rows : r.seq <= h.seq => r \in page
      BY <2>2, <3>1, <3>2, Zenon
    <3>4. page \in SUBSET all
      BY <1>3, <2>1
    <3> HIDE DEF last, page, rows
    <3>5. last = h.seq /\ h \in all
      BY <3>3, <3>4
    <3> QED
      BY <1>2, <2>1, <3>3, <3>4, <3>5
  <2>3. CASE ~(limit > 0 /\ Cardinality(page) = limit)
    <3>1. last = st.counter
      BY <2>3, Zenon
    <3>2. page = rows
      <4>1. CASE limit = 0
        BY <4>1
      <4>2. CASE limit # 0
        <5>1. \A r \in rows : r.seq \in Nat
          BY <1>2
        <5>2. \A q, r \in rows : q.seq = r.seq => q = r
          BY <1>2
        <5>3. limit \in Nat \ {0} /\ Cardinality(low) # limit /\ page = low
          BY <2>3, <4>2
        <5> HIDE DEF rows, page
        <5> QED
          BY <1>3, <5>1, <5>2, <5>3, Paged
      <4> QED
        BY <4>1, <4>2
    <3> HIDE DEF last, page
    <3> QED
      BY <1>3, <1>4, <2>1, <3>1, <3>2
  <2> QED
    BY <2>2, <2>3
<1>20. limit = 0 => last = st.counter
  BY <1>4
<1> HIDE DEF last, page
<1>6. /\ live \in SUBSET page /\ IsFiniteSet(live) /\ gone \in SUBSET page /\ IsFiniteSet(gone)
  <2>1. live \in SUBSET page /\ gone \in SUBSET page
    OBVIOUS
  <2> QED
    BY <1>5, <2>1, FS_Subset
<1>7. \A r \in live : /\ r \in all /\ r.gid \in Live(st) /\ r.rev = st.live[r.gid].rev
                      /\ r.gid \in Gid /\ r.rev \in Rev
                      /\ r.losers = Losers(st, r.gid)
  BY <1>2, <1>5
<1>8. \A g \in Live(st) : filter = Unfiltered /\ st.live[g].seq > since /\ st.live[g].seq <= last =>
          \E r \in live : r.gid = g
  BY <1>2, <1>5
<1> HIDE DEF live
<1>9. /\ docs \in SUBSET Leaf /\ IsFiniteSet(docs)
      /\ \A r \in live : \E d \in docs : d.gid = r.gid /\ d.rev = r.rev
      /\ \A d \in docs : \E r \in live : d.gid = r.gid /\ d.rev = r.rev
  BY <1>6, <1>7, Wired
<1>10. Unique(docs)
  <2> SUFFICES ASSUME NEW a \in docs, NEW b \in docs, a.gid = b.gid
               PROVE  a = b
    BY DEF Unique
  <2>1. a.rev = st.live[a.gid].rev /\ b.rev = st.live[b.gid].rev
    BY <1>7, <1>9
  <2> QED
    BY <1>9, <2>1, SameLeaf
<1> HIDE DEF docs
<1>11. losers \in SUBSET Leaf /\ IsFiniteSet(losers) /\ (st.conflicts = {} => losers = {})
  <2> DEFINE held == InWire(st.conflicts)
  <2>1. held \in SUBSET Leaf /\ IsFiniteSet(held)
    BY <1>4, Wired
  <2>2. ASSUME NEW r \in live, NEW l \in r.losers
        PROVE  [gid |-> r.gid, rev |-> l] \in held
    <3>1. PICK c \in st.conflicts : c.gid = r.gid /\ c.rev = l
      BY <1>7, <2>2 DEF Losers
    <3> QED
      BY <3>1 DEF InWire
  <2>3. losers \in SUBSET held
    BY <2>2
  <2>4. st.conflicts = {} => held = {}
    BY DEF InWire
  <2> HIDE DEF losers, held
  <2> QED
    BY <2>1, <2>3, <2>4, FS_Subset
<1> HIDE DEF losers
<1>12. \A r \in gone : r \in all /\ wire(r) \in Leaf /\ r.deleted
  <2>1. \A r \in gone : r \in page /\ ~(r \in page /\ ~r.deleted)
    BY DEF live
  <2> QED
    BY <1>2, <1>5, <1>6, <2>1 DEF Leaf
<1>21. \A t \in st.tombs : t.seq > since /\ t.seq <= last => \E r \in gone : r.gid = t.gid
  <2> SUFFICES ASSUME NEW t \in st.tombs, t.seq > since, t.seq <= last
               PROVE  \E r \in gone : r.gid = t.gid
    OBVIOUS
  <2>1. PICK r \in all : r.gid = t.gid /\ r.deleted /\ r.seq = t.seq
    BY <1>2
  <2>2. r \in page
    BY <1>5, <2>1
  <2> QED
    BY <2>1, <2>2 DEF live
<1>13. dels \in Seq(gone) /\ \A r \in gone : \E i \in DOMAIN dels : dels[i] = r
  <2>1. \A r \in gone : r.seq \in Nat
    BY <1>2, <1>12
  <2> HIDE DEF gone
  <2>3. \A r \in gone : r \in all
    BY <1>12
  <2>4. \A q, r \in all : q.seq = r.seq => q = r
    BY <1>2
  <2>2. \A q, r \in gone : q.seq = r.seq => q = r
    BY <2>3, <2>4
  <2> QED
    BY <1>6, <2>1, <2>2, InFeedOrder
<1> HIDE DEF gone, dels
<1>18. \A i \in DOMAIN deletes : \E t \in st.tombs :
           t.gid = deletes[i].gid /\ t.rev = deletes[i].rev
  <2> TAKE i \in DOMAIN deletes
  <2>1. i \in DOMAIN dels
    OBVIOUS
  <2>2. dels[i] \in gone
    BY <1>13, <2>1
  <2>3. deletes[i].gid = dels[i].gid /\ deletes[i].rev = dels[i].rev
    BY <2>1
  <2> HIDE DEF deletes
  <2>4. dels[i] \in all /\ dels[i].deleted
    BY <1>12, <2>2
  <2>5. PICK t \in st.tombs : t.gid = dels[i].gid /\ t.rev = dels[i].rev
    BY <1>2, <2>4
  <2> QED
    BY <2>3, <2>5
<1>14. deletes \in Seq(Leaf)
  <2>1. Len(dels) \in Nat /\ DOMAIN dels = 1 .. Len(dels) /\ \A i \in 1 .. Len(dels) : dels[i] \in gone
    BY <1>13
  <2>2. \A i \in 1 .. Len(dels) : wire(dels[i]) \in Leaf
    BY <1>12, <2>1
  <2> HIDE DEF wire
  <2> QED
    BY <2>1, <2>2
<1>22. \A t \in st.tombs : t.seq > since /\ t.seq <= last =>
           \E i \in DOMAIN deletes : deletes[i].gid = t.gid
  <2> SUFFICES ASSUME NEW t \in st.tombs, t.seq > since, t.seq <= last
               PROVE  \E i \in DOMAIN deletes : deletes[i].gid = t.gid
    OBVIOUS
  <2>1. PICK r \in gone : r.gid = t.gid
    BY <1>21
  <2>2. PICK i \in DOMAIN dels : dels[i] = r
    BY <1>13
  <2>3. i \in DOMAIN deletes /\ deletes[i].gid = dels[i].gid
    BY <2>2
  <2> HIDE DEF deletes
  <2> QED
    BY <2>1, <2>2, <2>3
<1> HIDE DEF deletes
<1>15. m = Parcel("changes", docs, losers, deletes, last)
  BY <1>1, FilledIs
<1>16. /\ m \in Message /\ m.docs = docs /\ m.losers = losers /\ m.last_seq = last
       /\ m.deletes = deletes
  BY <1>5, <1>9, <1>11, <1>14, <1>15, OfParcel, IdleIs
<1>17. Carried(m)
  BY <1>9, <1>10, <1>11, <1>16 DEF Carried
<1>19. \A d \in ToSet(m.deletes) : \E t \in st.tombs : t.gid = d.gid /\ t.rev = d.rev
  BY <1>16, <1>18 DEF ToSet
<1>23. \A t \in st.tombs : t.seq > since /\ t.seq <= m.last_seq =>
           t.gid \in Gids(ToSet(m.deletes))
  BY <1>16, <1>22 DEF Gids, ToSet
<1> QED
  BY <1>5, <1>7, <1>8, <1>9, <1>11, <1>16, <1>17, <1>19, <1>20, <1>23 DEF m

\* _revs_diff drops an offered version only if the graph holds it on a line.
LEMMA Asked ==
    ASSUME NEW st \in Store, NEW docs \in SUBSET Leaf, IsFiniteSet(docs)
    PROVE  /\ RevsDiff(st, docs) \in SUBSET docs /\ IsFiniteSet(RevsDiff(st, docs))
           /\ \A d \in docs \ RevsDiff(st, docs) :
                 /\ OnLine(st, d)
                 /\ \/ d.gid \in Live(st) /\ DescendsFrom(st.live[d.gid].rev, d.rev)
                    \/ d.gid \in Buried(st)
<1>1. RevsDiff(st, docs) \in SUBSET docs /\ IsFiniteSet(RevsDiff(st, docs))
  <2>1. RevsDiff(st, docs) \in SUBSET docs
    BY DEF RevsDiff
  <2> QED
    BY <2>1, FS_Subset
<1>2. ASSUME NEW d \in docs, d.rev \in Held(st, d.gid)
      PROVE  /\ OnLine(st, d)
             /\ \/ d.gid \in Live(st) /\ DescendsFrom(st.live[d.gid].rev, d.rev)
                \/ d.gid \in Buried(st)
  <2>1. \A r : d.rev \in Ids(r) /\ r \in Rev \cup {NoRev} => r \in Rev /\ DescendsFrom(r, d.rev)
    <3> TAKE r
    <3> HAVE d.rev \in Ids(r) /\ r \in Rev \cup {NoRev}
    <3>1. PICK n \in 1 .. Len(r) : d.rev = SubSeq(r, 1, n)
      BY DEF Ids
    <3>2. r \in Seq(Content) /\ Len(r) \in Nat
      BY EmptySeq DEF Rev, NoRev
    <3>3. Len(SubSeq(r, 1, n)) = n
      BY <3>1, <3>2, SubSeqProperties
    <3>4. r # NoRev
      BY <3>1, <3>2, EmptySeq DEF NoRev
    <3> QED
      BY <3>1, <3>2, <3>3, <3>4 DEF DescendsFrom, Gen
  <2>2. CASE d.rev \in Ids(st.live[d.gid].rev)
    <3>1. d.gid \in Gid
      BY DEF Leaf
    <3>2. d.gid \in Live(st) /\ DescendsFrom(st.live[d.gid].rev, d.rev)
      BY <2>1, <2>2, <3>1, Typed DEF Live, Rev
    <3> QED
      BY <3>2, AreLeaves DEF OnLine
  <2>3. CASE \E t \in st.tombs : t.gid = d.gid /\ d.rev \in Ids(t.rev)
    BY <2>1, <2>3, Typed, AreLeaves DEF OnLine, Buried
  <2> QED
    BY <1>2, <2>2, <2>3 DEF Held
<1>3. \A d \in docs \ RevsDiff(st, docs) : d.rev \in Held(st, d.gid)
  BY DEF RevsDiff
<1> QED
  BY <1>1, <1>2, <1>3

\* _bulk_get by revision.
LEMMA RevsFetched ==
    ASSUME NEW st \in Store, Numbered(st, {}), NEW refs \in SUBSET Leaf, IsFiniteSet(refs)
    PROVE  BulkGetRevs(st, refs) \in SUBSET Leaf /\ IsFiniteSet(BulkGetRevs(st, refs))
<1> DEFINE shadows(ref) == {c \in st.conflicts : c.gid = ref.gid /\ c.rev = ref.rev}
           some == {ref \in refs : \E c \in shadows(ref) : ~c.deleted}
           gids == Gids({ref \in refs : shadows(ref) = {}})
<1>1. BulkGetRevs(st, refs) = some \cup LiveBodies(st, gids)
  BY Zenon DEF BulkGetRevs
<1>2. some \in SUBSET refs /\ IsFiniteSet(some)
  <2>1. some \in SUBSET refs
    OBVIOUS
  <2> QED
    BY <2>1, FS_Subset
<1> HIDE DEF some, gids
<1>3. LiveBodies(st, gids) \in SUBSET Leaf /\ IsFiniteSet(LiveBodies(st, gids))
  BY BodiesRead
<1>4. IsFiniteSet(some \cup LiveBodies(st, gids))
  BY <1>2, <1>3, FS_Union
<1> QED
  BY <1>1, <1>2, <1>3, <1>4

-----------------------------------------------------------------------------
\* The system: graphs, passes and counts.

Graphs == store \in [Peer -> Store] /\ \A p \in Peer : Sound(store[p])
Passes == pass \in [Worker -> Message] /\ \A w \in Worker : Carried(pass[w])
Counts == /\ checkpoint \in [{Cursor[w] : w \in Worker} -> Nat]
          /\ writes \in 0 .. MaxWrites /\ aborts \in 0 .. MaxAborts
Sane   == Graphs /\ Passes /\ Counts

\* What a step does to a graph it changes: it only grows older, and while no
\* edge dangles and ancestries reach past the leaf it loses no version.
Changed(st, new) == Advances(st, new) /\ (RevsLimit > 1 /\ Attached(st) => Keeps(st, new))
OneChanges == \E p \in Peer, new \in Store : store' = [store EXCEPT ![p] = new] /\ Changed(store[p], new)

LEMMA OneChanged1 ==
    ASSUME Graphs, OneChanges
    PROVE  Graphs' /\ \A p \in Peer : store'[p] = store[p] \/ Changed(store[p], store'[p])
<1>1. PICK p \in Peer, new \in Store : store' = [store EXCEPT ![p] = new] /\ Changed(store[p], new)
  BY DEF OneChanges
<1>2. Sound(new)
  BY <1>1 DEF Changed, Advances
<1> QED
  BY <1>1, <1>2 DEF Graphs

\* addV, addE, property(): a local write, and a placement's graft.
LEMMA WritesChange ==
    ASSUME Graphs, NEW p \in Peer, NEW g \in Gid, NEW c \in Content,
           g \notin Buried(store[p]),
           store' = [store EXCEPT ![p] = Write(store[p], g, c)]
    PROVE  OneChanges
<1> DEFINE st == store[p]
           new == Write(st, g, c)
<1>1. Sound(st)
  BY DEF Graphs
<1>2. Advances(st, new)
  BY <1>1, WriteAdvances
<1>3. RevsLimit > 1 => Keeps(st, new)
  BY <1>1, WriteKeeps
<1>4. new \in Store
  BY <1>2 DEF Advances, Sound
<1> QED
  BY <1>2, <1>3, <1>4 DEF OneChanges, Changed

LEMMA CreateChanges ==
    ASSUME Graphs, NEW p \in Peer, NEW g \in Gid, NEW c \in Content, Create(p, g, c)
    PROVE  OneChanges
BY WritesChange DEF Create, LocalWrite, Unseen

LEMMA EditChanges ==
    ASSUME Graphs, NEW p \in Peer, NEW g \in Gid, NEW c \in Content, Edit(p, g, c)
    PROVE  OneChanges
<1>1. g \notin Buried(store[p])
  BY DEF Graphs, Sound, Exclusive, Edit
<1> QED
  BY <1>1, WritesChange DEF Edit, LocalWrite

LEMMA DropChanges ==
    ASSUME Graphs, NEW p \in Peer, NEW g \in Gid, DropElement(p, g)
    PROVE  OneChanges
<1>1. PICK new \in Drop(store[p], g) : store' = [store EXCEPT ![p] = new]
  BY DEF DropElement, LocalWrite
<1>2. Advances(store[p], new) /\ Keeps(store[p], new)
  BY Dropped DEF Graphs, DropElement
<1> QED
  BY <1>1, <1>2 DEF OneChanges, Changed, Advances, Sound

LEMMA GraftChanges ==
    ASSUME Graphs, NEW w \in Worker, NEW e \in EGid, NEW c \in Content, Graft(w, e, c)
    PROVE  OneChanges /\ pass' = pass /\ checkpoint' = checkpoint /\ writes' = writes /\ aborts' = aborts
<1> DEFINE p == Target[w]
           st == store[p]
           mid == Write(st, e, c)
           weak == mid.weak \cup {e}
           new == SetWeak(mid, weak)
<1>1. p \in Peer /\ e \in Gid
  BY ReplicationAssumption DEF Gid
<1>2. Sound(st) /\ e \notin Buried(st)
  BY <1>1 DEF Graphs, Graft, Unseen
<1>3. store' = [store EXCEPT ![p] = [mid EXCEPT !.weak = @ \cup {e}]]
  BY Zenon DEF Graft
<1>4. [mid EXCEPT !.weak = @ \cup {e}] = new
  BY Zenon DEF SetWeak
<1>5. Advances(st, mid)
  BY <1>1, <1>2, WriteAdvances
<1>6. mid \in Store /\ weak \in SUBSET EGid
  <2>1. mid \in Store
    BY <1>5 DEF Advances, Sound
  <2> HIDE DEF mid
  <2> QED
    BY <2>1, Typed
<1>7. e \notin Live(st)
  BY <1>1 DEF Graft, Unseen
<1>8. Keeps(st, mid)
  BY <1>1, <1>2, <1>7, WriteKeeps
<1> HIDE DEF mid, weak
<1>9. Advances(st, new) /\ Keeps(st, new)
  BY <1>5, <1>6, <1>8, WeakAside
<1>10. new \in Store
  BY <1>9 DEF Advances, Sound
<1> HIDE DEF new
<1>11. store' = [store EXCEPT ![p] = new]
  BY <1>3, <1>4
<1>12. OneChanges
  BY <1>1, <1>9, <1>10, <1>11 DEF OneChanges, Changed
<1> QED
  BY <1>12 DEF Graft

\* _bulk_docs.
LEMMA LandChanges ==
    ASSUME Graphs, NEW w \in Worker, NEW docs \in SUBSET Leaf, IsFiniteSet(docs),
           NEW dels \in Seq(Leaf), NEW rest, Land(w, docs, dels, rest)
    PROVE  OneChanges
<1>1. PICK new \in ApplyWire(store[Target[w]], docs, dels) :
          store' = [store EXCEPT ![Target[w]] = new]
  BY DEF Land
<1>2. Target[w] \in Peer /\ Sound(store[Target[w]])
  BY ReplicationAssumption DEF Graphs
<1>3. Advances(store[Target[w]], new) /\ (Attached(store[Target[w]]) => Keeps(store[Target[w]], new))
  BY <1>2, Applied
<1> QED
  BY <1>1, <1>2, <1>3 DEF OneChanges, Changed, Advances, Sound

-----------------------------------------------------------------------------
\* The calls of a pass.

\* A pass turns to what it carries next, and the other passes stay.
Turns(w, m) ==
    /\ Carried(m) /\ pass' = [pass EXCEPT ![w] = m]
    /\ UNCHANGED <<checkpoint, writes, aborts>>

LEMMA Continued ==
    ASSUME NEW w, NEW m, NEW call \in Calls, Carried(m), Continue(w, m, call)
    PROVE  Turns(w, At(m, call))
<1>1. pass' = [pass EXCEPT ![w] = At(m, call)]
  BY Zenon DEF Continue, At
<1>2. Carried(At(m, call))
  BY NextCalled
<1> QED
  BY <1>1, <1>2 DEF Turns, Continue

LEMMA TurnedPasses ==
    ASSUME Passes, NEW w \in Worker, NEW m, Carried(m), pass' = [pass EXCEPT ![w] = m]
    PROVE  Passes' /\ pass'[w] = m /\ \A v \in Worker \ {w} : pass'[v] = pass[v]
<1>1. m \in Message
  BY DEF Carried
<1> QED
  BY <1>1 DEF Passes

LEMMA ChangesTurns ==
    ASSUME Sane, NEW w \in Worker, Changes(w)
    PROVE  LET m == Offer(store[Source[w]], checkpoint[Cursor[w]], Limit[w], Filter[w])
           IN  Carried(m) /\ Turns(w, At(m, AfterFeed(m)))
<1> DEFINE m == Offer(store[Source[w]], checkpoint[Cursor[w]], Limit[w], Filter[w])
<1>1. Continue(w, m, AfterFeed(m))
  BY Zenon DEF Changes, Offer, Filled
<1>2. Carried(m)
  BY Offered, ReplicationAssumption DEF Sane, Graphs, Counts
<1> HIDE DEF m
<1> QED
  BY <1>1, <1>2, Continued, Onward DEF m

LEMMA AskMissingTurns ==
    ASSUME Sane, NEW w \in Worker, AskMissing(w)
    PROVE  LET m == WithDocs(pass[w], RevsDiff(store[Target[w]], pass[w].docs))
           IN  /\ Carried(m) /\ Turns(w, At(m, AfterDiff(m)))
               /\ m.docs = RevsDiff(store[Target[w]], pass[w].docs) /\ m.last_seq = pass[w].last_seq
<1> DEFINE docs == RevsDiff(store[Target[w]], pass[w].docs)
           m == WithDocs(pass[w], docs)
<1>1. Continue(w, m, AfterDiff(m))
  BY Zenon DEF AskMissing, WithDocs
<1>2. Carried(pass[w]) /\ pass[w] \in Message /\ store[Target[w]] \in Store
  BY ReplicationAssumption DEF Sane, Graphs, Passes
<1>3. docs \in SUBSET pass[w].docs /\ IsFiniteSet(docs)
  BY <1>2, Asked, AsParcel DEF Carried
<1> HIDE DEF docs
<1>4. m = Parcel(pass[w].call, docs, pass[w].losers, pass[w].deletes, pass[w].last_seq)
  BY <1>2, AsParcel, OneChanged
<1> HIDE DEF m
<1>5. /\ m \in Message /\ m.docs = docs /\ m.losers = pass[w].losers
      /\ m.last_seq = pass[w].last_seq
  <2>1. docs \in SUBSET Leaf
    BY <1>2, <1>3, AsParcel
  <2> QED
    BY <1>2, <1>4, <2>1, AsParcel, OfParcel
<1>6. Carried(m)
  BY <1>2, <1>3, <1>5 DEF Carried, Unique
<1> QED
  BY <1>1, <1>5, <1>6, Continued, Onward DEF m, docs

LEMMA FetchTurns ==
    ASSUME Sane, NEW w \in Worker, Fetch(w)
    PROVE  LET m == WithDocs(pass[w], LiveBodies(store[Source[w]], Gids(pass[w].docs)))
           IN  /\ Carried(m) /\ Turns(w, At(m, AfterGet(m)))
               /\ m.docs = LiveBodies(store[Source[w]], Gids(pass[w].docs))
               /\ m.last_seq = pass[w].last_seq
<1> DEFINE gids == Gids(pass[w].docs)
           st == store[Source[w]]
           docs == LiveBodies(st, gids)
           m == WithDocs(pass[w], docs)
<1>1. Continue(w, m, AfterGet(m))
  BY Zenon DEF Fetch, WithDocs
<1>2. Carried(pass[w]) /\ pass[w] \in Message /\ st \in Store /\ Numbered(st, {})
  BY ReplicationAssumption DEF Sane, Graphs, Passes, Sound
<1>3. docs \in SUBSET Leaf /\ IsFiniteSet(docs) /\ \A d \in docs : d.rev = st.live[d.gid].rev
  <2> HIDE DEF gids, st
  <2> QED
    BY <1>2, BodiesRead
<1> HIDE DEF docs
<1>4. Unique(docs)
  <2>1. ASSUME NEW a \in docs, NEW b \in docs, a.gid = b.gid
        PROVE  a = b
    BY <1>3, <2>1, SameLeaf
  <2> QED
    BY <2>1 DEF Unique
<1>5. m = Parcel(pass[w].call, docs, pass[w].losers, pass[w].deletes, pass[w].last_seq)
  BY <1>2, AsParcel, OneChanged
<1> HIDE DEF m
<1>6. /\ m \in Message /\ m.docs = docs /\ m.losers = pass[w].losers
      /\ m.last_seq = pass[w].last_seq
  BY <1>2, <1>3, <1>5, AsParcel, OfParcel
<1>7. Carried(m)
  BY <1>2, <1>3, <1>4, <1>6 DEF Carried
<1> QED
  BY <1>1, <1>6, <1>7, Continued, Onward DEF m, docs

LEMMA LandTurns ==
    ASSUME Sane, NEW w \in Worker, NEW docs, NEW dels, NEW rest \in SUBSET Leaf, IsFiniteSet(rest),
           Land(w, docs, dels, rest)
    PROVE  LET m == Emptied(pass[w], rest)
           IN  /\ Carried(m) /\ Turns(w, At(m, AfterGet(m)))
               /\ m.docs = {} /\ m.last_seq = pass[w].last_seq
<1> DEFINE m == Emptied(pass[w], rest)
<1>1. Continue(w, m, AfterGet(m))
  BY Zenon DEF Land, Emptied
<1>2. Carried(pass[w]) /\ pass[w] \in Message
  BY DEF Sane, Passes
<1>3. m = Parcel(pass[w].call, {}, rest, None, pass[w].last_seq)
  BY <1>2, EmptiedIs
<1> HIDE DEF m
<1>4. /\ m \in Message /\ m.docs = {} /\ m.losers = rest
      /\ m.last_seq = pass[w].last_seq
  BY <1>2, <1>3, AsParcel, OfParcel, IdleIs
<1>5. Carried(m)
  BY <1>4, FS_EmptySet DEF Carried, Unique
<1> QED
  BY <1>1, <1>4, <1>5, Continued, Onward DEF m

LEMMA LosersTurn ==
    ASSUME Sane, NEW w \in Worker, NEW losers \in SUBSET Leaf, IsFiniteSet(losers), NEW call \in Calls,
           Continue(w, WithLosers(pass[w], losers), call)
    PROVE  LET m == WithLosers(pass[w], losers)
           IN  /\ Carried(m) /\ Turns(w, At(m, call))
               /\ m.docs = pass[w].docs /\ m.last_seq = pass[w].last_seq
<1> DEFINE m == WithLosers(pass[w], losers)
<1>1. Carried(pass[w]) /\ pass[w] \in Message
  BY DEF Sane, Passes
<1>2. m = Parcel(pass[w].call, pass[w].docs, losers, pass[w].deletes, pass[w].last_seq)
  BY <1>1, AsParcel, OneChanged
<1>3. Continue(w, m, call)
  OBVIOUS
<1> HIDE DEF m
<1>4. /\ m \in Message /\ m.docs = pass[w].docs /\ m.losers = losers
      /\ m.last_seq = pass[w].last_seq
  BY <1>1, <1>2, AsParcel, OfParcel
<1>5. Carried(m)
  BY <1>1, <1>4 DEF Carried
<1> QED
  BY <1>3, <1>4, <1>5, Continued DEF m

LEMMA AskLosersTurns ==
    ASSUME Sane, NEW w \in Worker, AskLosers(w)
    PROVE  \E m : \E call \in {"losersGet", "checkpoint"} :
              /\ Carried(m) /\ Turns(w, At(m, call))
              /\ m.docs = pass[w].docs /\ m.last_seq = pass[w].last_seq
<1> DEFINE losers == RevsDiff(store[Target[w]], pass[w].losers)
           m == WithLosers(pass[w], losers)
           call == IF m.losers # {} THEN "losersGet" ELSE "checkpoint"
<1>1. Continue(w, m, call)
  BY Zenon DEF AskLosers, WithLosers
<1>2. Carried(pass[w]) /\ pass[w] \in Message /\ store[Target[w]] \in Store
  BY ReplicationAssumption DEF Sane, Graphs, Passes
<1>3. losers \in SUBSET Leaf /\ IsFiniteSet(losers)
  BY <1>2, Asked, AsParcel DEF Carried
<1>4. call \in {"losersGet", "checkpoint"} /\ call \in Calls
  BY DEF Calls
<1> HIDE DEF losers, call
<1>5. /\ Carried(m) /\ Turns(w, At(m, call))
      /\ m.docs = pass[w].docs /\ m.last_seq = pass[w].last_seq
  BY <1>1, <1>3, <1>4, LosersTurn
<1> QED
  BY <1>4, <1>5

LEMMA FetchLosersTurns ==
    ASSUME Sane, NEW w \in Worker, FetchLosers(w)
    PROVE  \E m : /\ Carried(m) /\ Turns(w, At(m, "losersDocs"))
                  /\ m.docs = pass[w].docs /\ m.last_seq = pass[w].last_seq
<1> DEFINE losers == BulkGetRevs(store[Source[w]], pass[w].losers)
           m == WithLosers(pass[w], losers)
<1>1. Continue(w, m, "losersDocs")
  BY Zenon DEF FetchLosers, WithLosers
<1>2. /\ Carried(pass[w]) /\ pass[w] \in Message
      /\ store[Source[w]] \in Store /\ Numbered(store[Source[w]], {})
  BY ReplicationAssumption DEF Sane, Graphs, Passes, Sound
<1>3. losers \in SUBSET Leaf /\ IsFiniteSet(losers)
  BY <1>2, RevsFetched, AsParcel DEF Carried
<1>4. "losersDocs" \in Calls
  BY DEF Calls
<1> HIDE DEF losers
<1> QED
  BY <1>1, <1>3, <1>4, LosersTurn

\* The initial state and every step.
LEMMA SaneInit == Init => Sane
<1> SUFFICES ASSUME Init PROVE Sane
  OBVIOUS
<1>1. EmptyStore = Tables([g \in Gid |-> NoRow], {}, {}, {}, 0)
  BY DEF EmptyStore, Tables
<1>2. /\ EmptyStore \in Store /\ EmptyStore.live = [g \in Gid |-> NoRow]
      /\ EmptyStore.tombs = {} /\ EmptyStore.conflicts = {}
  <2>1. [g \in Gid |-> NoRow] \in [Gid -> [rev : Rev \cup {NoRev}, seq : Nat]]
    BY DEF NoRow
  <2> QED
    BY <1>1, <2>1, Table
<1>3. Live(EmptyStore) = {} /\ Buried(EmptyStore) = {}
  BY <1>2 DEF Live, Buried, NoRow
<1>4. Sound(EmptyStore)
  BY <1>2, <1>3, FS_EmptySet DEF Sound, Numbered, Exclusive
<1>5. Graphs
  BY <1>2, <1>4 DEF Graphs, Init
<1>6. Passes
  BY Idles DEF Passes, Init, Carried
<1>7. Counts
  BY ReplicationAssumption DEF Counts, Init
<1> QED
  BY <1>5, <1>6, <1>7 DEF Sane

LEMMA AppliesChange ==
    ASSUME Sane, NEW w \in Worker
    PROVE  Apply(w) \/ ApplyLosers(w) => OneChanges
<1>1. /\ pass[w].docs \in SUBSET Leaf /\ IsFiniteSet(pass[w].docs)
      /\ pass[w].losers \in SUBSET Leaf /\ IsFiniteSet(pass[w].losers)
      /\ pass[w].deletes \in Seq(Leaf)
  BY AsParcel DEF Sane, Passes, Carried
<1>2. Apply(w) => OneChanges
  BY <1>1, LandChanges DEF Sane, Apply
<1> DEFINE none == << >>
<1>3. none \in Seq(Leaf)
  OBVIOUS
<1>4. ApplyLosers(w) => Land(w, pass[w].losers, none, {})
  BY DEF ApplyLosers
<1> HIDE DEF none
<1>5. ApplyLosers(w) => OneChanges
  BY <1>1, <1>3, <1>4, LandChanges DEF Sane
<1> QED
  BY <1>2, <1>5

\* A step changes one graph or none, and the passes carry what they must.
LEMMA SaneStep ==
    ASSUME Sane, [Next]_vars
    PROVE  Sane' /\ (OneChanges \/ UNCHANGED store)
<1> USE DEF Sane
<1>1. ASSUME NEW p \in Peer, NEW g \in Gid, NEW c \in Content, Create(p, g, c) \/ Edit(p, g, c)
      PROVE  Sane' /\ OneChanges
  <2>1. OneChanges
    BY <1>1, CreateChanges, EditChanges
  <2>2. /\ UNCHANGED <<checkpoint, pass, aborts>> /\ writes' = writes + 1 /\ writes < MaxWrites
    BY <1>1 DEF Create, Edit, LocalWrite
  <2> QED
    BY <2>1, <2>2, OneChanged1, ReplicationAssumption DEF Passes, Counts
<1>2. ASSUME NEW p \in Peer, NEW g \in Gid, DropElement(p, g)
      PROVE  Sane' /\ OneChanges
  <2>1. OneChanges
    BY <1>2, DropChanges
  <2>2. /\ UNCHANGED <<checkpoint, pass, aborts>> /\ writes' = writes + 1 /\ writes < MaxWrites
    BY <1>2 DEF DropElement, LocalWrite
  <2> QED
    BY <2>1, <2>2, OneChanged1, ReplicationAssumption DEF Passes, Counts
<1>3. ASSUME NEW w \in Worker, NEW e \in EGid, NEW c \in Content, Graft(w, e, c)
      PROVE  Sane' /\ OneChanges
  BY <1>3, GraftChanges, OneChanged1 DEF Passes, Counts
<1>4. ASSUME NEW w \in Worker, NEW m, Turns(w, m)
      PROVE  Passes' /\ Counts'
  BY <1>4, TurnedPasses DEF Turns, Counts
<1>5. ASSUME NEW w \in Worker, Changes(w) \/ AskMissing(w) \/ Fetch(w) \/ AskLosers(w) \/ FetchLosers(w)
      PROVE  Sane' /\ UNCHANGED store
  <2>1. UNCHANGED store
    BY <1>5 DEF Changes, AskMissing, Fetch, AskLosers, FetchLosers
  <2>2. \E m : Turns(w, m)
    BY <1>5, ChangesTurns, AskMissingTurns, FetchTurns, AskLosersTurns, FetchLosersTurns
  <2> QED
    BY <1>4, <2>1, <2>2 DEF Graphs
<1>6. ASSUME NEW w \in Worker, Apply(w) \/ ApplyLosers(w)
      PROVE  Sane' /\ OneChanges
  <2>1. OneChanges
    BY <1>6, AppliesChange
  <2>2. pass[w].losers \in SUBSET Leaf /\ IsFiniteSet(pass[w].losers)
    BY AsParcel DEF Passes, Carried
  <2>3. \E m : Turns(w, m)
    <3>1. {} \in SUBSET Leaf /\ IsFiniteSet({})
      BY FS_EmptySet
    <3> DEFINE nothing == {}
    <3> HIDE DEF nothing
    <3>2. nothing \in SUBSET Leaf /\ IsFiniteSet(nothing)
      BY <3>1 DEF nothing
    <3>3. Apply(w) => \E m : Turns(w, m)
      BY <2>2, LandTurns DEF Apply
    <3>4. ApplyLosers(w) => Land(w, pass[w].losers, << >>, nothing)
      BY DEF ApplyLosers, nothing
    <3>5. ApplyLosers(w) => \E m : Turns(w, m)
      BY <3>2, <3>4, LandTurns
    <3> QED
      BY <1>6, <3>3, <3>5
  <2> QED
    BY <1>4, <2>1, <2>3, OneChanged1
<1>7. ASSUME NEW w \in Worker, WriteCheckpoint(w)
      PROVE  Sane' /\ UNCHANGED store
  <2>1. UNCHANGED store /\ UNCHANGED <<writes, aborts>>
        /\ pass' = [pass EXCEPT ![w] = Idle]
        /\ checkpoint' = [checkpoint EXCEPT ![Cursor[w]] = pass[w].last_seq]
    BY <1>7 DEF WriteCheckpoint
  <2>2. Passes'
    BY <2>1, Idles, TurnedPasses
  <2>3. pass[w].last_seq \in Nat
    BY AsParcel DEF Passes
  <2>4. Counts'
    BY <2>1, <2>3 DEF Counts
  <2> QED
    BY <2>1, <2>2, <2>4 DEF Graphs
<1>8. ASSUME NEW w \in Worker, Reject(w) \/ Abort(w)
      PROVE  Sane' /\ UNCHANGED store
  <2>1. UNCHANGED store /\ UNCHANGED <<checkpoint, writes>> /\ pass' = [pass EXCEPT ![w] = Idle]
        /\ (aborts' = aborts \/ (aborts < MaxAborts /\ aborts' = aborts + 1))
    BY <1>8 DEF Reject, Abort
  <2>2. Passes'
    BY <2>1, Idles, TurnedPasses
  <2> QED
    BY <2>1, <2>2, ReplicationAssumption DEF Graphs, Counts
<1>9. CASE UNCHANGED vars
  BY <1>9 DEF vars, Graphs, Passes, Counts
<1> QED
  BY <1>1, <1>2, <1>3, <1>5, <1>6, <1>7, <1>8, <1>9, Zenon DEF Next, Advance

LEMMA AlwaysSane == Spec => []Sane
<1>1. Sane /\ [Next]_vars => Sane'
  BY SaneStep
<1> QED
  BY <1>1, SaneInit, PTL DEF Spec

-----------------------------------------------------------------------------
\* The tables' and the awaited calls' types: no two rows of any feed ever
\* share a seq and none is past update_seq (manager.ts changesFeed), whatever
\* order SQLite numbers a batch's rows in.
THEOREM TypesHold == Spec => []TypeOK
<1>1. Sane => TypeOK
  <2> SUFFICES ASSUME Sane PROVE TypeOK
    OBVIOUS
  <2>1. DistinctSeqs
    BY FeedNumbered DEF DistinctSeqs, Sane, Graphs, Sound
  <2> QED
    BY <2>1 DEF TypeOK, Sane, Graphs, Passes, Counts, Message
<1> QED
  BY <1>1, AlwaysSane, PTL

\* replicate.ts resurrect, applyDeletes and refresh.ts: no element is ever
\* live and tombstoned at once.
THEOREM NeverBothHolds == Spec => []LiveOrTombstone
<1>1. Sane => LiveOrTombstone
  BY DEF Sane, Graphs, Sound, Exclusive, LiveOrTombstone
<1> QED
  BY <1>1, AlwaysSane, PTL

\* refreshElements: whatever a step does to what an element shows, a row of
\* the feed past the old update_seq tells it, so no checkpoint taken before
\* the step hides the change.
THEOREM ChangesEnterFeed == Spec => EveryChangeEntersFeed
<1>1. ASSUME Sane, [Next]_vars
      PROVE  \A p \in Peer, g \in Gid :
                Shown(store[p], g) # Shown(store'[p], g) =>
                    \E r \in FeedRows(store'[p], Unfiltered) :
                        r.gid = g /\ r.seq > store[p].counter
  <2>1. \A p \in Peer : store'[p] = store[p] \/ Changed(store[p], store'[p])
    BY <1>1, SaneStep, OneChanged1 DEF Sane
  <2> QED
    BY <2>1 DEF Changed, Advances, Enters
<1> QED
  BY <1>1, AlwaysSane, PTL DEF Spec, EveryChangeEntersFeed

\* classifyWire, resurrect, shadowDelete: as long as no live edge has lost an
\* end (the loser of an edge without one is not fetched, so not shadowed) and
\* ancestries reach past the leaf, every version a peer holds, live, deleted
\* or shadowed, stays on some line that peer holds.
THEOREM VersionsKept ==
    ASSUME RevsLimit > 1
    PROVE  Spec /\ []NoDangling => NeverLosesAVersion
<1>1. ASSUME Sane, NoDangling, [Next]_vars
      PROVE  \A p \in Peer : \A l \in Leaves(store[p]) :
                \E k \in Leaves(store'[p]) : k.gid = l.gid /\ DescendsFrom(k.rev, l.rev)
  <2> SUFFICES ASSUME NEW p \in Peer, NEW l \in Leaves(store[p])
               PROVE  \E k \in Leaves(store'[p]) : k.gid = l.gid /\ DescendsFrom(k.rev, l.rev)
    OBVIOUS
  <2>1. CASE store'[p] = store[p]
    <3>1. l.rev \in Rev
      <4>1. store[p] \in Store
        BY <1>1 DEF Sane, Graphs
      <4> QED
        BY <4>1, Typed, AreLeaves DEF Live
    <3> QED
      BY <2>1, <3>1, Self
  <2>2. CASE Changed(store[p], store'[p])
    <3>1. Attached(store[p])
      BY <1>1 DEF NoDangling, Attached
    <3> QED
      BY <2>2, <3>1 DEF Changed, Keeps, OnLine
  <2> QED
    BY <1>1, <2>1, <2>2, SaneStep, OneChanged1 DEF Sane
<1> QED
  BY <1>1, AlwaysSane, PTL DEF Spec, NeverLosesAVersion

-----------------------------------------------------------------------------
\* Checkpoints.

\* The versions of a source's live rows up to a seq that a pass carries or
\* its target has taken in.
Covered(source, target, seq, docs) ==
    \A g \in Live(source) : source.live[g].seq <= seq =>
        \/ \E d \in docs : d.gid = g /\ d.rev = source.live[g].rev
        \/ TakenIn(target, g, source.live[g].rev)

CheckpointsCovered ==
    \A w \in Worker : Filter[w] = Unfiltered =>
        Covered(store[Source[w]], store[Target[w]], checkpoint[Cursor[w]], {})

\* No leaf any peer holds has outgrown its stemmed ancestry.
Unstemmed == \A p \in Peer : \A k \in Leaves(store[p]) : Gen(k.rev) <= RevsLimit

\* Workers on one checkpoint copy the same source to the same target through
\* the same filter.  replicationId (replicate.ts) names the two graphs and the
\* direction; that the filter is the same is up to who calls.
OneJobPerCursor ==
    \A v, w \in Worker : Cursor[v] = Cursor[w] =>
        Source[v] = Source[w] /\ Target[v] = Target[w] /\ Filter[v] = Filter[w]

\* What every step keeps: neither a checkpoint nor a pass is ahead of its
\* source, a pass is done with the bodies before it goes on to the losers or
\* the checkpoint, and what it has read past is carried or taken in.
Landing == {"losersDiff", "losersGet", "losersDocs", "checkpoint"}

Behind(w) ==
    /\ checkpoint[Cursor[w]] <= store[Source[w]].counter
    /\ pass[w].last_seq <= store[Source[w]].counter
    /\ pass[w].call \in Landing => pass[w].docs = {}

PassHolds(w) ==
    Filter[w] = Unfiltered =>
        Covered(store[Source[w]], store[Target[w]], pass[w].last_seq, pass[w].docs)

Promised == CheckpointsCovered /\ \A w \in Worker : Behind(w) /\ PassHolds(w)

LEMMA Transitive ==
    ASSUME NEW a \in Rev, NEW b \in Rev, NEW c \in Rev, Gen(a) <= RevsLimit,
           DescendsFrom(a, b), DescendsFrom(b, c)
    PROVE  DescendsFrom(a, c)
<1>1. a \in Seq(Content) /\ Len(a) \in Nat
  BY DEF Rev
<1>2. PICK n \in 1 .. Len(a) : b = SubSeq(a, 1, n)
  BY DEF DescendsFrom, Ids
<1>3. Len(b) = n /\ \A i \in 1 .. n : b[i] = a[i]
  BY <1>1, <1>2
<1>4. PICK m \in 1 .. Len(b) : c = SubSeq(b, 1, m)
  BY DEF DescendsFrom, Ids
<1>5. m \in 1 .. Len(a) /\ m + RevsLimit > Len(a)
  BY <1>1, <1>2, <1>3, <1>4, RevsLimitAssumption DEF Gen
<1>6. c = SubSeq(a, 1, m)
  <2>1. b \in Seq(Content)
    BY DEF Rev
  <2>2. SubSeq(b, 1, m) = [i \in 1 .. m |-> b[i]] /\ SubSeq(a, 1, m) = [i \in 1 .. m |-> a[i]]
    BY <1>1, <1>3, <1>5, <2>1
  <2>3. \A i \in 1 .. m : b[i] = a[i]
    BY <1>3, <1>4
  <2> QED
    BY <1>4, <2>2, <2>3
<1>7. c \in Ids(a)
  BY <1>5, <1>6, InIds
<1>8. Gen(a) >= Gen(c)
  BY <1>1, <1>2, <1>3 DEF DescendsFrom, Gen, Rev
<1> QED
  BY <1>7, <1>8 DEF DescendsFrom

LEMMA LeafRevs ==
    ASSUME NEW st \in Store
    PROVE  \A k \in Leaves(st) : k.rev \in Rev
<1>1. \A g \in Live(st) : st.live[g].rev \in Rev
  BY Typed DEF Live
<1>2. \A t \in st.tombs \cup st.conflicts : t.rev \in Rev
  BY Typed
<1> QED
  BY <1>1, <1>2, AreLeaves

\* What a graph has taken in it still has after a step.
LEMMA StillTakenIn ==
    ASSUME NEW st, NEW new, Sound(st), Sound(new), st = new \/ Keeps(st, new),
           \A k \in Leaves(new) : Gen(k.rev) <= RevsLimit,
           NEW g, NEW rev \in Rev, TakenIn(st, g, rev)
    PROVE  TakenIn(new, g, rev)
<1>1. CASE st = new
  BY <1>1
<1>2. CASE Keeps(st, new)
  <2>1. PICK k \in Leaves(st) : k.gid = g /\ DescendsFrom(k.rev, rev)
    BY DEF TakenIn
  <2>2. PICK l \in Leaves(new) : l.gid = k.gid /\ DescendsFrom(l.rev, k.rev)
    BY <1>2 DEF Keeps, OnLine
  <2>3. /\ \A x \in Leaves(st) : x.rev \in Rev
        /\ \A x \in Leaves(new) : x.rev \in Rev
    BY LeafRevs DEF Sound
  <2>4. DescendsFrom(l.rev, rev)
    BY <2>1, <2>2, <2>3, Transitive
  <2> QED
    BY <2>1, <2>2, <2>4 DEF TakenIn
<1> QED
  BY <1>1, <1>2

\* Rows up to a seq the source had reached are covered still after a step.
LEMMA StillCovered ==
    ASSUME NEW src, NEW src2, NEW tgt, NEW tgt2, NEW seq \in Nat, NEW docs,
           Sound(src), Sound(tgt), Sound(src2), Sound(tgt2),
           src2 = src \/ Settled(src, src2), tgt = tgt2 \/ Keeps(tgt, tgt2),
           \A k \in Leaves(tgt2) : Gen(k.rev) <= RevsLimit,
           seq <= src.counter, Covered(src, tgt, seq, docs)
    PROVE  Covered(src2, tgt2, seq, docs)
<1> SUFFICES ASSUME NEW g \in Live(src2), src2.live[g].seq <= seq
             PROVE  \/ \E d \in docs : d.gid = g /\ d.rev = src2.live[g].rev
                    \/ TakenIn(tgt2, g, src2.live[g].rev)
  BY DEF Covered
<1>1. src2 \in Store /\ src \in Store
  BY DEF Sound
<1>2. g \in Live(src) /\ src2.live[g] = src.live[g]
  <2>1. src2.live[g].seq \in Nat /\ src.counter \in Nat
    BY <1>1, Typed DEF Live
  <2>2. src2.live[g].seq <= src.counter
    BY <2>1
  <2> QED
    BY <2>2 DEF Settled
<1>3. src.live[g].rev \in Rev
  BY <1>1, <1>2, Typed DEF Live
<1>4. \/ \E d \in docs : d.gid = g /\ d.rev = src.live[g].rev
      \/ TakenIn(tgt, g, src.live[g].rev)
  BY <1>2 DEF Covered
<1>5. TakenIn(tgt, g, src.live[g].rev) => TakenIn(tgt2, g, src.live[g].rev)
  BY <1>3, StillTakenIn
<1> QED
  BY <1>2, <1>4, <1>5

\* All that a step leaves where it was, it still promises.
LEMMA StillPromised ==
    ASSUME Sane, Sane', NoDangling, Unstemmed', RevsLimit > 1,
           \A p \in Peer : store'[p] = store[p] \/ Changed(store[p], store'[p]),
           NEW w \in Worker, NEW seq \in Nat, NEW docs,
           Covered(store[Source[w]], store[Target[w]], seq, docs), seq <= store[Source[w]].counter
    PROVE  /\ Covered(store'[Source[w]], store'[Target[w]], seq, docs)
           /\ seq <= store'[Source[w]].counter
<1> DEFINE s == Source[w]
           t == Target[w]
<1>1. s \in Peer /\ t \in Peer
  BY ReplicationAssumption
<1>2. /\ Sound(store[s]) /\ Sound(store[t]) /\ Sound(store'[s]) /\ Sound(store'[t])
  BY <1>1 DEF Sane, Graphs
<1>3. store'[s] = store[s] \/ Settled(store[s], store'[s])
  BY <1>1 DEF Changed, Advances
<1>4. store[t] = store'[t] \/ Keeps(store[t], store'[t])
  <2>1. Attached(store[t])
    BY <1>1 DEF NoDangling, Attached
  <2> QED
    BY <1>1, <2>1 DEF Changed
<1>5. \A k \in Leaves(store'[t]) : Gen(k.rev) <= RevsLimit
  BY <1>1 DEF Unstemmed
<1>6. store'[s].counter >= store[s].counter
  <2>1. store[s].counter \in Nat
    BY <1>2, Typed DEF Sound
  <2> QED
    BY <1>1, <2>1 DEF Changed, Advances
<1>7. store[s].counter \in Nat /\ store'[s].counter \in Nat
  BY <1>2, Typed DEF Sound
<1> HIDE DEF s, t
<1>8. Covered(store'[s], store'[t], seq, docs)
  <2>1. Covered(store[s], store[t], seq, docs) /\ seq <= store[s].counter
    BY DEF s, t
  <2> QED
    BY <1>2, <1>3, <1>4, <1>5, <2>1, StillCovered
<1>9. seq <= store'[s].counter
  <2>1. seq <= store[s].counter
    BY DEF s
  <2> QED
    BY <1>6, <1>7, <2>1
<1> QED
  BY <1>8, <1>9 DEF s, t

\* A pass that has read nothing promises nothing.
LEMMA IdleHolds ==
    ASSUME NEW src, Sound(src), NEW tgt
    PROVE  Covered(src, tgt, 0, {}) /\ 0 <= src.counter
<1>1. src.counter \in Nat /\ \A g \in Live(src) : src.live[g].seq \in 1 .. src.counter
  BY Typed DEF Sound, Numbered
<1> QED
  BY <1>1 DEF Covered

LEMMA PromisedInit == Init => Promised
<1> SUFFICES ASSUME Init PROVE Promised
  OBVIOUS
<1>1. Sane
  BY SaneInit
<1>2. \A w \in Worker : /\ Sound(store[Source[w]])
                        /\ checkpoint[Cursor[w]] = 0 /\ pass[w] = Idle
  BY <1>1, ReplicationAssumption DEF Sane, Graphs, Init
<1> QED
  BY <1>2, IdleHolds, Idles DEF Promised, CheckpointsCovered, Behind, PassHolds, Landing

\* A worker whose checkpoint and pass stay keeps its promises.
LEMMA StaysPromised ==
    ASSUME Sane, Sane', NoDangling, Unstemmed', RevsLimit > 1, Promised,
           \A p \in Peer : store'[p] = store[p] \/ Changed(store[p], store'[p]),
           NEW w \in Worker
    PROVE  /\ checkpoint'[Cursor[w]] = checkpoint[Cursor[w]] =>
                 /\ Filter[w] = Unfiltered =>
                       Covered(store'[Source[w]], store'[Target[w]], checkpoint'[Cursor[w]], {})
                 /\ checkpoint'[Cursor[w]] <= store'[Source[w]].counter
           /\ pass'[w] = pass[w] =>
                 /\ PassHolds(w)' /\ pass'[w].last_seq <= store'[Source[w]].counter
                 /\ pass'[w].call \in Landing => pass'[w].docs = {}
<1>1. checkpoint[Cursor[w]] \in Nat /\ pass[w].last_seq \in Nat
  BY AsParcel DEF Sane, Counts, Passes
<1>2. /\ checkpoint[Cursor[w]] <= store[Source[w]].counter
      /\ pass[w].last_seq <= store[Source[w]].counter
      /\ pass[w].call \in Landing => pass[w].docs = {}
      /\ Filter[w] = Unfiltered =>
            /\ Covered(store[Source[w]], store[Target[w]], checkpoint[Cursor[w]], {})
            /\ Covered(store[Source[w]], store[Target[w]], pass[w].last_seq, pass[w].docs)
  BY DEF Promised, CheckpointsCovered, Behind, PassHolds
<1>3. \A n \in Nat : n <= store[Source[w]].counter => n <= store'[Source[w]].counter
  <2>1. Source[w] \in Peer
    BY ReplicationAssumption
  <2>2. store[Source[w]].counter \in Nat /\ store'[Source[w]].counter \in Nat
    BY <2>1, Typed DEF Sane, Graphs
  <2>3. store'[Source[w]].counter >= store[Source[w]].counter
    BY <2>1, <2>2 DEF Changed, Advances
  <2> QED
    BY <2>2, <2>3
<1>4. ASSUME Filter[w] = Unfiltered
      PROVE  /\ Covered(store'[Source[w]], store'[Target[w]], checkpoint[Cursor[w]], {})
             /\ Covered(store'[Source[w]], store'[Target[w]], pass[w].last_seq, pass[w].docs)
  <2> DEFINE n == pass[w].last_seq
             d == pass[w].docs
             e == {}
             c == checkpoint[Cursor[w]]
  <2>1. /\ n \in Nat /\ c \in Nat /\ n <= store[Source[w]].counter /\ c <= store[Source[w]].counter
        /\ Covered(store[Source[w]], store[Target[w]], c, e)
        /\ Covered(store[Source[w]], store[Target[w]], n, d)
    BY <1>1, <1>2, <1>4
  <2> HIDE DEF n, d, e, c
  <2>2. Covered(store'[Source[w]], store'[Target[w]], c, e)
    BY <2>1, StillPromised
  <2>3. Covered(store'[Source[w]], store'[Target[w]], n, d)
    BY <2>1, StillPromised
  <2> QED
    BY <2>2, <2>3 DEF n, d, e, c
<1> QED
  BY <1>1, <1>2, <1>3, <1>4 DEF PassHolds

LEMMA TurnPromises ==
    ASSUME Sane, Sane', NoDangling, Unstemmed', RevsLimit > 1, Promised,
           \A p \in Peer : store'[p] = store[p] \/ Changed(store[p], store'[p]),
           NEW w \in Worker, NEW m, Turns(w, m),
           m.call \in Landing => m.docs = {},
           m.last_seq <= store'[Source[w]].counter,
           Filter[w] = Unfiltered =>
               Covered(store'[Source[w]], store'[Target[w]], m.last_seq, m.docs)
    PROVE  Promised'
<1>1. checkpoint' = checkpoint
  BY DEF Turns
<1>2. pass'[w] = m /\ \A v \in Worker \ {w} : pass'[v] = pass[v]
  BY TurnedPasses DEF Turns, Sane
<1>3. ASSUME NEW v \in Worker
      PROVE  /\ Filter[v] = Unfiltered =>
                   Covered(store'[Source[v]], store'[Target[v]], checkpoint'[Cursor[v]], {})
             /\ checkpoint'[Cursor[v]] <= store'[Source[v]].counter
  BY <1>1, StaysPromised
<1>4. ASSUME NEW v \in Worker
      PROVE  /\ PassHolds(v)' /\ pass'[v].last_seq <= store'[Source[v]].counter
             /\ pass'[v].call \in Landing => pass'[v].docs = {}
  <2>1. CASE v = w
    BY <1>2, <2>1 DEF PassHolds
  <2>2. CASE v # w
    BY <1>2, <2>2, StaysPromised
  <2> QED
    BY <2>1, <2>2
<1> QED
  BY <1>3, <1>4 DEF Promised, CheckpointsCovered, Behind

\* The calls that leave the graphs as they are.
LEMMA ReadsPromise ==
    ASSUME Sane, Sane', NoDangling, Unstemmed', RevsLimit > 1, Promised, UNCHANGED store,
           NEW w \in Worker,
           Changes(w) \/ AskMissing(w) \/ Fetch(w) \/ AskLosers(w) \/ FetchLosers(w)
    PROVE  Promised'
<1> DEFINE src == store[Source[w]]
           tgt == store[Target[w]]
           old == pass[w]
<1>1. /\ Source[w] \in Peer /\ Target[w] \in Peer /\ Limit[w] \in Nat
      /\ Sound(src) /\ Sound(tgt) /\ src \in Store /\ tgt \in Store
      /\ \A p \in Peer : store'[p] = store[p] \/ Changed(store[p], store'[p])
  BY ReplicationAssumption DEF Sane, Graphs, Sound
<1>2. /\ Carried(old) /\ old.docs \in SUBSET Leaf /\ IsFiniteSet(old.docs) /\ old.last_seq \in Nat
      /\ checkpoint[Cursor[w]] \in Nat
  BY AsParcel DEF Sane, Passes, Counts, Carried
<1>3. /\ old.last_seq <= src.counter /\ checkpoint[Cursor[w]] <= src.counter
      /\ old.call \in Landing => old.docs = {}
      /\ Filter[w] = Unfiltered => /\ Covered(src, tgt, checkpoint[Cursor[w]], {})
                                   /\ Covered(src, tgt, old.last_seq, old.docs)
  BY DEF Promised, CheckpointsCovered, Behind, PassHolds
<1>4. ASSUME NEW m, NEW call \in Calls, Carried(m), Turns(w, At(m, call)),
             call \in Landing => m.docs = {}, m.last_seq <= src.counter,
             Filter[w] = Unfiltered => Covered(src, tgt, m.last_seq, m.docs)
      PROVE  Promised'
  <2> DEFINE next == At(m, call)
  <2>1. next.call = call /\ next.docs = m.docs /\ next.last_seq = m.last_seq
    BY <1>4, NextCalled
  <2>2. Turns(w, next)
    BY <1>4
  <2> HIDE DEF next
  <2> QED
    BY <1>1, <1>4, <2>1, <2>2, TurnPromises
<1>5. CASE Changes(w)
  <2> DEFINE since == checkpoint[Cursor[w]]
             m == Offer(src, since, Limit[w], Filter[w])
  <2>1. Carried(m) /\ Turns(w, At(m, AfterFeed(m)))
    BY <1>5, ChangesTurns
  <2>2. /\ m.last_seq <= src.counter
        /\ Filter[w] = Unfiltered => \A g \in Live(src) :
              src.live[g].seq > since /\ src.live[g].seq <= m.last_seq =>
                 \E d \in m.docs : d.gid = g /\ d.rev = src.live[g].rev
    BY <1>1, <1>2, Offered
  <2> HIDE DEF m
  <2>3. ASSUME Filter[w] = Unfiltered
        PROVE  Covered(src, tgt, m.last_seq, m.docs)
    <3> SUFFICES ASSUME NEW g \in Live(src), src.live[g].seq <= m.last_seq
                 PROVE  \/ \E d \in m.docs : d.gid = g /\ d.rev = src.live[g].rev
                        \/ TakenIn(tgt, g, src.live[g].rev)
      BY DEF Covered
    <3>1. src.live[g].seq \in Nat
      BY <1>1, Typed DEF Live
    <3>2. CASE src.live[g].seq > since
      BY <2>2, <2>3, <3>2
    <3>3. CASE src.live[g].seq <= since
      BY <1>3, <2>3, <3>3 DEF Covered
    <3> QED
      BY <1>2, <3>1, <3>2, <3>3
  <2>4. AfterFeed(m) \in Calls /\ (AfterFeed(m) \in Landing => m.docs = {})
    BY Onward DEF Landing
  <2> QED
    BY <1>4, <2>1, <2>2, <2>3, <2>4
<1>6. CASE AskMissing(w)
  <2> DEFINE docs == RevsDiff(tgt, old.docs)
             m == WithDocs(old, docs)
  <2>1. /\ Carried(m) /\ Turns(w, At(m, AfterDiff(m)))
        /\ m.docs = docs /\ m.last_seq = old.last_seq
    BY <1>6, AskMissingTurns
  <2> HIDE DEF m
  <2>2. ASSUME Filter[w] = Unfiltered
        PROVE  Covered(src, tgt, m.last_seq, m.docs)
    <3> SUFFICES ASSUME NEW g \in Live(src), src.live[g].seq <= old.last_seq
                 PROVE  \/ \E d \in docs : d.gid = g /\ d.rev = src.live[g].rev
                        \/ TakenIn(tgt, g, src.live[g].rev)
      BY <2>1 DEF Covered
    <3>1. CASE \E d \in old.docs : d.gid = g /\ d.rev = src.live[g].rev
      <4>1. \A d \in old.docs \ docs : OnLine(tgt, d)
        BY <1>1, <1>2, Asked
      <4> QED
        BY <3>1, <4>1 DEF OnLine, TakenIn
    <3>2. CASE TakenIn(tgt, g, src.live[g].rev)
      BY <3>2
    <3> QED
      BY <1>3, <2>2, <3>1, <3>2 DEF Covered
  <2>3. AfterDiff(m) \in Calls /\ (AfterDiff(m) \in Landing => m.docs = {})
    BY Onward DEF Landing
  <2> QED
    BY <1>3, <1>4, <2>1, <2>2, <2>3
<1>7. CASE Fetch(w)
  <2> DEFINE docs == LiveBodies(src, Gids(old.docs))
             m == WithDocs(old, docs)
  <2>1. /\ Carried(m) /\ Turns(w, At(m, AfterGet(m)))
        /\ m.docs = docs /\ m.last_seq = old.last_seq
    BY <1>7, FetchTurns
  <2> HIDE DEF m
  <2>2. ASSUME Filter[w] = Unfiltered
        PROVE  Covered(src, tgt, m.last_seq, m.docs)
    <3> SUFFICES ASSUME NEW g \in Live(src), src.live[g].seq <= old.last_seq
                 PROVE  \/ \E d \in docs : d.gid = g /\ d.rev = src.live[g].rev
                        \/ TakenIn(tgt, g, src.live[g].rev)
      BY <2>1 DEF Covered
    <3>1. CASE \E d \in old.docs : d.gid = g /\ d.rev = src.live[g].rev
      <4> DEFINE gids == Gids(old.docs)
      <4>1. g \in gids \cap Live(src)
        BY <3>1 DEF Gids
      <4>2. g \in EGid => Ends(g) \subseteq Live(src)
        BY <1>1 DEF NoDangling
      <4>3. Numbered(src, {})
        BY <1>1 DEF Sound
      <4> HIDE DEF gids, src
      <4>4. \E d \in LiveBodies(src, gids) : d.gid = g /\ d.rev = src.live[g].rev
        BY <1>1, <4>1, <4>2, <4>3, BodiesRead
      <4> QED
        BY <4>4 DEF gids
    <3>2. CASE TakenIn(tgt, g, src.live[g].rev)
      BY <3>2
    <3> QED
      BY <1>3, <2>2, <3>1, <3>2 DEF Covered
  <2>3. AfterGet(m) \in Calls /\ (AfterGet(m) \in Landing => m.docs = {})
    BY Onward DEF Landing
  <2> QED
    BY <1>3, <1>4, <2>1, <2>2, <2>3
<1>8. CASE AskLosers(w)
  <2>1. old.docs = {}
    BY <1>3, <1>8 DEF AskLosers, Landing
  <2>2. PICK m, call : /\ call \in {"losersGet", "checkpoint"}
                       /\ Carried(m) /\ Turns(w, At(m, call))
                       /\ m.docs = old.docs /\ m.last_seq = old.last_seq
    BY <1>8, AskLosersTurns
  <2>3. call \in Calls
    BY <2>2 DEF Calls
  <2> QED
    BY <1>3, <1>4, <2>1, <2>2, <2>3
<1>9. CASE FetchLosers(w)
  <2>1. old.docs = {}
    BY <1>3, <1>9 DEF FetchLosers, Landing
  <2>2. PICK m : /\ Carried(m) /\ Turns(w, At(m, "losersDocs"))
                 /\ m.docs = old.docs /\ m.last_seq = old.last_seq
    BY <1>9, FetchLosersTurns
  <2>3. "losersDocs" \in Calls
    BY DEF Calls
  <2> QED
    BY <1>3, <1>4, <2>1, <2>2, <2>3
<1> QED
  BY <1>5, <1>6, <1>7, <1>8, <1>9

\* A batch lands: what the pass carried, its target has taken in.
LEMMA LandPromises ==
    ASSUME Sane, Sane', NoDangling, Unstemmed', RevsLimit > 1, Promised,
           \A p \in Peer : store'[p] = store[p] \/ Changed(store[p], store'[p]),
           NEW w \in Worker, Apply(w) \/ ApplyLosers(w)
    PROVE  Promised'
<1> DEFINE src == store[Source[w]]
           tgt == store[Target[w]]
           src2 == store'[Source[w]]
           tgt2 == store'[Target[w]]
           old == pass[w]
<1>1. /\ Source[w] \in Peer /\ Target[w] \in Peer
      /\ Sound(src) /\ Sound(tgt) /\ Sound(src2) /\ Sound(tgt2) /\ src \in Store
      /\ store' \in [Peer -> Store] /\ store \in [Peer -> Store]
  BY ReplicationAssumption DEF Sane, Graphs, Sound
<1>2. /\ Carried(old) /\ old.docs \in SUBSET Leaf /\ IsFiniteSet(old.docs) /\ Unique(old.docs)
      /\ old.losers \in SUBSET Leaf /\ IsFiniteSet(old.losers)
      /\ old.deletes \in Seq(Leaf) /\ old.last_seq \in Nat
  BY AsParcel DEF Sane, Passes, Carried
<1>3. /\ old.last_seq <= src.counter
      /\ old.call \in Landing => old.docs = {}
      /\ Filter[w] = Unfiltered => Covered(src, tgt, old.last_seq, old.docs)
  BY DEF Promised, Behind, PassHolds
<1>4. ASSUME Filter[w] = Unfiltered
      PROVE  Covered(src2, tgt2, old.last_seq, {})
  <2>1. Covered(src2, tgt2, old.last_seq, old.docs) /\ old.last_seq <= src2.counter
    BY <1>2, <1>3, <1>4, StillPromised
  <2>2. CASE ApplyLosers(w)
    BY <1>3, <2>1, <2>2 DEF ApplyLosers, Landing
  <2>3. CASE Apply(w)
    <3>1. PICK new \in ApplyWire(tgt, old.docs, old.deletes) :
              store' = [store EXCEPT ![Target[w]] = new]
      BY <2>3 DEF Apply, Land
    <3>2. tgt2 = new
      BY <1>1, <3>1
    <3>3. Attached(tgt)
      BY <1>1 DEF NoDangling, Attached
    <3>4. Keeps(tgt, new) /\ \A d \in old.docs :
              \/ OnLine(new, d)
              \/ d.gid \in Live(tgt) /\ DescendsFrom(tgt.live[d.gid].rev, d.rev)
      <4>1. \A d \in old.docs : ~ \E o \in old.docs : o.gid = d.gid /\ o # d
        BY <1>2 DEF Unique
      <4> HIDE DEF tgt, old
      <4> QED
        BY <1>1, <1>2, <3>1, <3>3, <4>1, Applied
    <3>5. \A k \in Leaves(tgt2) : Gen(k.rev) <= RevsLimit
      BY <1>1 DEF Unstemmed
    <3>6. ASSUME NEW d \in old.docs
          PROVE  TakenIn(tgt2, d.gid, d.rev)
      <4>1. CASE OnLine(new, d)
        BY <3>2, <4>1 DEF OnLine, TakenIn
      <4>2. CASE d.gid \in Live(tgt) /\ DescendsFrom(tgt.live[d.gid].rev, d.rev)
        <5>1. TakenIn(tgt, d.gid, d.rev)
          BY <4>2, AreLeaves DEF TakenIn
        <5>2. d.rev \in Rev
          BY <1>2 DEF Leaf
        <5> HIDE DEF tgt, tgt2
        <5> QED
          BY <1>1, <3>2, <3>4, <3>5, <5>1, <5>2, StillTakenIn
      <4> QED
        BY <3>4, <4>1, <4>2
    <3> HIDE DEF src2, tgt2
    <3> QED
      BY <2>1, <3>6 DEF Covered
  <2> QED
    BY <2>2, <2>3
<1>5. PICK m : Carried(m) /\ Turns(w, At(m, AfterGet(m))) /\ m.docs = {} /\ m.last_seq = old.last_seq
  <2> DEFINE nothing == {}
  <2>1. nothing \in SUBSET Leaf /\ IsFiniteSet(nothing)
    BY FS_EmptySet
  <2> HIDE DEF nothing
  <2>2. Apply(w) => Land(w, old.docs, old.deletes, old.losers)
    BY DEF Apply
  <2>3. ApplyLosers(w) => Land(w, old.losers, << >>, nothing)
    BY DEF ApplyLosers, nothing
  <2>4. CASE Apply(w)
    BY <1>2, <2>2, <2>4, LandTurns
  <2>5. CASE ApplyLosers(w)
    BY <2>1, <2>3, <2>5, LandTurns
  <2> QED
    BY <2>4, <2>5
<1>6. AfterGet(m) \in Calls
  BY Onward
<1> DEFINE next == At(m, AfterGet(m))
<1>7. next.docs = {} /\ next.last_seq = old.last_seq /\ Turns(w, next)
  BY <1>5, <1>6, NextCalled
<1>8. old.last_seq <= src2.counter
  <2>1. src.counter \in Nat /\ src2.counter \in Nat
    BY <1>1, Typed DEF Sound
  <2>2. src2.counter >= src.counter
    BY <1>1, <2>1 DEF Changed, Advances
  <2> QED
    BY <1>2, <1>3, <2>1, <2>2
<1> HIDE DEF next, old
<1> QED
  BY <1>4, <1>7, <1>8, TurnPromises

\* A pass that ends, in one way or another.
LEMMA EndPromises ==
    ASSUME Sane, Sane', NoDangling, Unstemmed', RevsLimit > 1, OneJobPerCursor, Promised,
           UNCHANGED store, NEW w \in Worker, WriteCheckpoint(w) \/ Reject(w) \/ Abort(w)
    PROVE  Promised'
<1>1. /\ Source[w] \in Peer /\ Sound(store[Source[w]])
      /\ \A p \in Peer : store'[p] = store[p] \/ Changed(store[p], store'[p])
  BY ReplicationAssumption DEF Sane, Graphs
<1>2. pass' = [pass EXCEPT ![w] = Idle]
  BY DEF WriteCheckpoint, Reject, Abort
<1>3. pass'[w] = Idle /\ \A v \in Worker \ {w} : pass'[v] = pass[v]
  BY <1>2, Idles, TurnedPasses DEF Sane
<1>4. ASSUME NEW v \in Worker
      PROVE  /\ PassHolds(v)' /\ pass'[v].last_seq <= store'[Source[v]].counter
             /\ pass'[v].call \in Landing => pass'[v].docs = {}
  <2>1. CASE v = w
    <3>1. /\ pass'[v].docs = {} /\ pass'[v].last_seq = 0
      BY <1>3, <2>1, Idles
    <3>2. Covered(store[Source[w]], store[Target[w]], 0, {}) /\ 0 <= store[Source[w]].counter
      BY <1>1, IdleHolds
    <3> QED
      BY <2>1, <3>1, <3>2 DEF PassHolds
  <2>2. CASE v # w
    BY <1>1, <1>3, <2>2, StaysPromised
  <2> QED
    BY <2>1, <2>2
<1>5. ASSUME NEW v \in Worker
      PROVE  /\ Filter[v] = Unfiltered =>
                   Covered(store'[Source[v]], store'[Target[v]], checkpoint'[Cursor[v]], {})
             /\ checkpoint'[Cursor[v]] <= store'[Source[v]].counter
  <2>1. CASE checkpoint'[Cursor[v]] = checkpoint[Cursor[v]]
    BY <1>1, <2>1, StaysPromised
  <2>2. CASE checkpoint'[Cursor[v]] # checkpoint[Cursor[v]]
    <3>1. WriteCheckpoint(w)
      BY <2>2 DEF Reject, Abort
    <3>2. /\ pass[w].call = "checkpoint"
          /\ checkpoint' = [checkpoint EXCEPT ![Cursor[w]] = pass[w].last_seq]
      BY <3>1 DEF WriteCheckpoint
    <3>3. Cursor[v] = Cursor[w] /\ checkpoint'[Cursor[v]] = pass[w].last_seq
      BY <2>2, <3>2 DEF Sane, Counts
    <3>4. Source[v] = Source[w] /\ Target[v] = Target[w] /\ Filter[v] = Filter[w]
      BY <3>3 DEF OneJobPerCursor
    <3>5. /\ pass[w].docs = {} /\ pass[w].last_seq <= store[Source[w]].counter
          /\ Filter[w] = Unfiltered =>
                Covered(store[Source[w]], store[Target[w]], pass[w].last_seq, pass[w].docs)
      BY <3>2 DEF Promised, Behind, PassHolds, Landing
    <3> QED
      BY <3>3, <3>4, <3>5
  <2> QED
    BY <2>1, <2>2
<1> QED
  BY <1>4, <1>5 DEF Promised, CheckpointsCovered, Behind

LEMMA PromisedStep ==
    ASSUME Sane, NoDangling, Unstemmed', RevsLimit > 1, OneJobPerCursor, Promised, [Next]_vars
    PROVE  Promised'
<1>1. Sane' /\ (OneChanges \/ UNCHANGED store)
  BY SaneStep
<1>2. \A p \in Peer : store'[p] = store[p] \/ Changed(store[p], store'[p])
  BY <1>1, OneChanged1 DEF Sane
<1>3. ASSUME UNCHANGED <<pass, checkpoint>>
      PROVE  Promised'
  BY <1>1, <1>2, <1>3, StaysPromised DEF Promised, CheckpointsCovered, Behind
<1>4. ASSUME NEW w \in Worker,
             Changes(w) \/ AskMissing(w) \/ Fetch(w) \/ AskLosers(w) \/ FetchLosers(w)
      PROVE  Promised'
  <2>1. UNCHANGED store
    BY <1>4 DEF Changes, AskMissing, Fetch, AskLosers, FetchLosers
  <2> QED
    BY <1>1, <1>4, <2>1, ReadsPromise
<1>5. ASSUME NEW w \in Worker, Apply(w) \/ ApplyLosers(w)
      PROVE  Promised'
  BY <1>1, <1>2, <1>5, LandPromises
<1>6. ASSUME NEW w \in Worker, WriteCheckpoint(w) \/ Reject(w) \/ Abort(w)
      PROVE  Promised'
  <2>1. UNCHANGED store
    BY <1>6 DEF WriteCheckpoint, Reject, Abort
  <2> QED
    BY <1>1, <1>6, <2>1, EndPromises
<1>7. ASSUME NEW p \in Peer, NEW g \in Gid, NEW c \in Content,
             Create(p, g, c) \/ Edit(p, g, c) \/ DropElement(p, g)
      PROVE  UNCHANGED <<pass, checkpoint>>
  BY <1>7 DEF Create, Edit, DropElement, LocalWrite
<1>8. ASSUME NEW p \in Peer, NEW g \in Gid, DropElement(p, g)
      PROVE  UNCHANGED <<pass, checkpoint>>
  BY <1>8 DEF DropElement, LocalWrite
<1>9. ASSUME NEW w \in Worker, NEW e \in EGid, NEW c \in Content, Graft(w, e, c)
      PROVE  UNCHANGED <<pass, checkpoint>>
  BY <1>9 DEF Graft
<1>10. UNCHANGED vars => UNCHANGED <<pass, checkpoint>>
  BY DEF vars
<1> QED
  BY <1>3, <1>4, <1>5, <1>6, <1>7, <1>8, <1>9, <1>10, Zenon DEF Next, Advance

\* runReplicationPass: whatever is written, replicated by others, repeated or
\* cut short meanwhile, an unfiltered worker's checkpoint is never past a live
\* version of the source that is on no line its target holds.  (While no live
\* edge has lost an end, as in VersionsKept, and no leaf has outgrown
\* REVS_LIMIT, past which lines are cut.)
THEOREM CheckpointsHold ==
    ASSUME RevsLimit > 1, OneJobPerCursor
    PROVE  Spec /\ []NoDangling /\ []Unstemmed => []CheckpointHeld
<1>1. Sane /\ NoDangling /\ Unstemmed' /\ Promised /\ [Next]_vars => Promised'
  BY PromisedStep
<1>2. Promised => CheckpointHeld
  BY DEF Promised, CheckpointsCovered, Covered, CheckpointHeld
<1> QED
  BY <1>1, <1>2, PromisedInit, AlwaysSane, PTL DEF Spec

-----------------------------------------------------------------------------
\* Graphs that nobody drops elements on.

\* A graph that only grew: nothing is buried and no edge has lost an end.
Whole(st) == st.tombs = {} /\ Attached(st)

Undeleted == /\ \A p \in Peer : Whole(store[p])
             /\ \A w \in Worker : pass[w].deletes = None

LEMMA OfferedNone ==
    ASSUME NEW st, st.tombs = {}, NEW since, NEW limit, NEW filter
    PROVE  Offer(st, since, limit, filter).deletes = None
<1> DEFINE rows == FeedRows(st, filter)
           feed == ChangesFeed(st, since, limit, filter)
           live == {r \in feed.results : ~r.deleted}
           gone == feed.results \ live
           dels == BySeq(gone)
           docs == InWire(live)
           losers == UNION {{[gid |-> r.gid, rev |-> l] : l \in r.losers} : r \in live}
           deletes == [i \in DOMAIN dels |-> [gid |-> dels[i].gid, rev |-> dels[i].rev]]
           m == Offer(st, since, limit, filter)
<1>1. m = Filled(docs, losers, deletes, feed.last_seq)
  BY Zenon DEF Offer
<1>2. \A r \in rows : r.deleted = FALSE
  <2> DEFINE row(g) == [gid |-> g, rev |-> st.live[g].rev, seq |-> st.live[g].seq,
                        deleted |-> FALSE, losers |-> Losers(st, g)]
  <2>1. rows = {row(g) : g \in Selected(st, filter)}
    BY DEF FeedRows
  <2>2. \A g : row(g).deleted = FALSE
    OBVIOUS
  <2> HIDE DEF row, rows
  <2> QED
    BY <2>1, <2>2
<1>3. feed.results \in SUBSET rows
  <2> DEFINE past == {r \in rows : r.seq > since}
             page == IF limit = 0 THEN past
                     ELSE {r \in past : Cardinality({q \in past : q.seq <= r.seq}) <= limit}
  <2>1. feed.results = page
    BY DEF ChangesFeed
  <2>2. page \in SUBSET past /\ past \in SUBSET rows
    OBVIOUS
  <2> HIDE DEF page, past, feed
  <2> QED
    BY <2>1, <2>2
<1> HIDE DEF rows, feed
<1>4. gone = {}
  BY <1>2, <1>3
<1> HIDE DEF gone, live
<1>5. DOMAIN dels = {}
  <2>1. Cardinality(gone) = 0
    BY <1>4, FS_EmptySet
  <2>2. dels = [i \in 1 .. Cardinality(gone) |->
                   CHOOSE r \in gone : Cardinality({q \in gone : q.seq <= r.seq}) = i]
    BY Zenon DEF BySeq
  <2>3. DOMAIN dels = 1 .. 0
    BY <2>1, <2>2
  <2> QED
    BY <2>3
<1>6. deletes = None
  BY <1>5 DEF None
<1> HIDE DEF m, docs, losers, deletes
<1>7. m = Parcel("changes", docs, losers, deletes, feed.last_seq)
  BY <1>1, FilledIs
<1>8. m.deletes = deletes
  BY <1>7, OfParcel
<1> QED
  BY <1>6, <1>8 DEF m

\* A pass only ever empties the deletes it carries, but when it reads a feed.
LEMMA DeletesCarried ==
    ASSUME NEW m \in Message, m.deletes = None, NEW d, NEW l, NEW c
    PROVE  /\ At(WithDocs(m, d), c).deletes = None
           /\ At(WithLosers(m, l), c).deletes = None
           /\ At(Emptied(m, l), c).deletes = None
           /\ At(m, c).deletes = None
<1>1. m = Parcel(m.call, m.docs, m.losers, None, m.last_seq)
  BY AsParcel
<1>2. /\ WithDocs(m, d) = Parcel(m.call, d, m.losers, None, m.last_seq)
      /\ WithLosers(m, l) = Parcel(m.call, m.docs, l, None, m.last_seq)
      /\ At(m, c) = Parcel(c, m.docs, m.losers, None, m.last_seq)
  BY <1>1, OneChanged
<1>3. Emptied(m, l) = Parcel(m.call, {}, l, None, m.last_seq)
  BY EmptiedIs
<1>4. /\ At(WithDocs(m, d), c) = Parcel(c, d, m.losers, None, m.last_seq)
      /\ At(WithLosers(m, l), c) = Parcel(c, m.docs, l, None, m.last_seq)
      /\ At(Emptied(m, l), c) = Parcel(c, {}, l, None, m.last_seq)
  BY <1>2, <1>3, OneChanged
<1> QED
  BY <1>2, <1>4, OfParcel

LEMMA NoneCarried ==
    ASSUME Sane, Undeleted, NEW w \in Worker,
           Changes(w) \/ AskMissing(w) \/ Fetch(w) \/ Apply(w) \/ AskLosers(w) \/ FetchLosers(w)
           \/ ApplyLosers(w)
    PROVE  \A v \in Worker : pass'[v].deletes = None
<1>1. pass[w] \in Message /\ pass[w].deletes = None /\ pass \in [Worker -> Message]
  BY DEF Sane, Passes, Undeleted
<1>2. ASSUME NEW m, NEW c, Continue(w, m, c), At(m, c).deletes = None
      PROVE  \A v \in Worker : pass'[v].deletes = None
  <2>1. pass' = [pass EXCEPT ![w] = At(m, c)]
    BY <1>2, Zenon DEF Continue, At
  <2> QED
    BY <1>1, <1>2, <2>1 DEF Undeleted
<1>3. CASE Changes(w)
  <2> DEFINE m == Offer(store[Source[w]], checkpoint[Cursor[w]], Limit[w], Filter[w])
  <2>1. Continue(w, m, AfterFeed(m))
    BY <1>3, Zenon DEF Changes, Offer, Filled
  <2>2. Carried(m) /\ m.deletes = None
    <3>1. store[Source[w]].tombs = {}
      BY ReplicationAssumption DEF Undeleted, Whole
    <3> QED
      BY <1>3, <3>1, ChangesTurns, OfferedNone
  <2> HIDE DEF m
  <2>3. At(m, AfterFeed(m)).deletes = None
    BY <2>2, DeletesCarried DEF Carried
  <2> QED
    BY <1>2, <2>1, <2>3
<1>4. CASE AskMissing(w)
  <2>1. \E d, c : Continue(w, WithDocs(pass[w], d), c)
    BY <1>4, Zenon DEF AskMissing, WithDocs
  <2> QED
    BY <1>1, <1>2, <2>1, DeletesCarried
<1>5. CASE Fetch(w)
  <2>1. \E d, c : Continue(w, WithDocs(pass[w], d), c)
    BY <1>5, Zenon DEF Fetch, WithDocs
  <2> QED
    BY <1>1, <1>2, <2>1, DeletesCarried
<1>6. CASE AskLosers(w)
  <2>1. \E l, c : Continue(w, WithLosers(pass[w], l), c)
    BY <1>6, Zenon DEF AskLosers, WithLosers
  <2> QED
    BY <1>1, <1>2, <2>1, DeletesCarried
<1>7. CASE FetchLosers(w)
  <2>1. \E l, c : Continue(w, WithLosers(pass[w], l), c)
    BY <1>7, Zenon DEF FetchLosers, WithLosers
  <2> QED
    BY <1>1, <1>2, <2>1, DeletesCarried
<1>8. CASE Apply(w) \/ ApplyLosers(w)
  <2>1. \E docs, dels, l : Land(w, docs, dels, l)
    BY <1>8 DEF Apply, ApplyLosers
  <2>2. \E l, c : Continue(w, Emptied(pass[w], l), c)
    BY <2>1, Zenon DEF Land, Emptied
  <2> QED
    BY <1>1, <1>2, <2>2, DeletesCarried
<1> QED
  BY <1>3, <1>4, <1>5, <1>6, <1>7, <1>8

\* A write of an element whose ends, if it has any, are live.
LEMMA WroteWhole ==
    ASSUME NEW st, Sound(st), Whole(st), NEW g \in Gid, NEW c \in Content,
           g \in EGid => Ends(g) \subseteq Live(st)
    PROVE  Whole(Write(st, g, c))
<1>1. g \notin Buried(st)
  BY DEF Whole, Buried
<1>2. Live(Write(st, g, c)) = Live(st) \cup {g}
  BY <1>1, WriteAdvances
<1>3. Write(st, g, c).tombs = {}
  BY Wrote DEF Whole
<1> QED
  BY <1>2, <1>3 DEF Whole, Attached

LEMMA UndeletedStep ==
    ASSUME Droppers = {}, Sane, Undeleted, [Next]_vars
    PROVE  Undeleted'
<1>1. /\ store \in [Peer -> Store] /\ \A p \in Peer : Sound(store[p]) /\ Whole(store[p])
      /\ \A w \in Worker : pass[w].deletes = None
  BY DEF Sane, Graphs, Undeleted
<1>2. ASSUME NEW p \in Peer, NEW new, Whole(new), store' = [store EXCEPT ![p] = new]
      PROVE  \A q \in Peer : Whole(store'[q])
  BY <1>1, <1>2
<1>3. ASSUME NEW p \in Peer, NEW g \in Gid, NEW c \in Content, Create(p, g, c) \/ Edit(p, g, c)
      PROVE  Undeleted'
  <2>1. /\ g \in EGid => Ends(g) \subseteq Live(store[p])
        /\ store' = [store EXCEPT ![p] = Write(store[p], g, c)] /\ pass' = pass
    BY <1>3 DEF Create, Edit, LocalWrite
  <2>2. Whole(Write(store[p], g, c))
    BY <1>1, <2>1, WroteWhole
  <2> QED
    BY <1>1, <1>2, <2>1, <2>2 DEF Undeleted
<1>4. ASSUME NEW w \in Worker, NEW e \in EGid, NEW c \in Content, Graft(w, e, c)
      PROVE  Undeleted'
  <2> DEFINE p == Target[w]
             mid == Write(store[p], e, c)
             new == SetWeak(mid, mid.weak \cup {e})
  <2>1. p \in Peer /\ e \in Gid /\ Ends(e) \subseteq Live(store[p]) /\ pass' = pass
    BY <1>4, ReplicationAssumption DEF Graft, Gid
  <2>2. store' = [store EXCEPT ![p] = new]
    BY <1>4, Zenon DEF Graft, SetWeak
  <2>3. Whole(mid) /\ mid \in Store
    <3>1. e \notin Buried(store[p])
      BY <1>1, <2>1 DEF Whole, Buried
    <3> QED
      BY <1>1, <2>1, <3>1, WroteWhole, WriteAdvances DEF Advances, Sound
  <2> HIDE DEF mid
  <2>4. new = Tables(mid.live, mid.weak \cup {e}, mid.tombs, mid.conflicts, mid.counter)
    BY <2>3, AssignedOne
  <2> HIDE DEF new
  <2>5. new.live = mid.live /\ new.tombs = mid.tombs
    BY <2>4, Table
  <2>6. Whole(new)
    BY <2>3, <2>5 DEF Whole, Attached, Live
  <2> QED
    BY <1>1, <1>2, <2>1, <2>2, <2>6 DEF Undeleted
<1>5. ASSUME NEW w \in Worker, NEW docs \in SUBSET Leaf, IsFiniteSet(docs), NEW rest,
             Land(w, docs, None, rest)
      PROVE  \A q \in Peer : Whole(store'[q])
  <2>1. PICK new \in ApplyWire(store[Target[w]], docs, None) :
            store' = [store EXCEPT ![Target[w]] = new]
    BY <1>5 DEF Land
  <2>2. Target[w] \in Peer /\ None \in Seq(Leaf)
    BY ReplicationAssumption, IdleIs
  <2>3. new.tombs \subseteq store[Target[w]].tombs /\ (Attached(store[Target[w]]) => Attached(new))
    <3>1. None = << >>
      BY DEF None
    <3> QED
      BY <1>1, <1>5, <2>1, <2>2, <3>1, Applied
  <2>4. Whole(new)
    BY <1>1, <2>2, <2>3 DEF Whole
  <2> QED
    BY <1>2, <2>1, <2>2, <2>4
<1>6. ASSUME NEW w \in Worker,
             Changes(w) \/ AskMissing(w) \/ Fetch(w) \/ AskLosers(w) \/ FetchLosers(w)
      PROVE  Undeleted'
  <2>1. UNCHANGED store
    BY <1>6 DEF Changes, AskMissing, Fetch, AskLosers, FetchLosers
  <2>2. \A v \in Worker : pass'[v].deletes = None
    BY <1>6, NoneCarried
  <2> QED
    BY <1>1, <2>1, <2>2 DEF Undeleted
<1>7. ASSUME NEW w \in Worker, Apply(w) \/ ApplyLosers(w)
      PROVE  Undeleted'
  <2>1. \A v \in Worker : pass'[v].deletes = None
    BY <1>7, NoneCarried
  <2>2. /\ pass[w].docs \in SUBSET Leaf /\ IsFiniteSet(pass[w].docs)
        /\ pass[w].losers \in SUBSET Leaf /\ IsFiniteSet(pass[w].losers)
    BY AsParcel DEF Sane, Passes, Carried
  <2>3. Apply(w) => Land(w, pass[w].docs, None, pass[w].losers)
    BY <1>1 DEF Apply
  <2>4. ApplyLosers(w) => Land(w, pass[w].losers, None, {})
    BY DEF ApplyLosers, None
  <2>5. \A q \in Peer : Whole(store'[q])
    BY <1>5, <1>7, <2>2, <2>3, <2>4
  <2> QED
    BY <2>1, <2>5 DEF Undeleted
<1>8. ASSUME NEW w \in Worker, WriteCheckpoint(w) \/ Reject(w) \/ Abort(w)
      PROVE  Undeleted'
  <2>1. UNCHANGED store /\ pass' = [pass EXCEPT ![w] = Idle]
    BY <1>8 DEF WriteCheckpoint, Reject, Abort
  <2>2. Idle.deletes = None
    BY IdleIs, OfParcel
  <2> QED
    BY <1>1, <2>1, <2>2 DEF Undeleted, Sane, Passes
<1>9. ~ \E p \in Peer, g \in Gid : DropElement(p, g)
  BY DEF DropElement
<1>10. CASE UNCHANGED vars
  BY <1>10 DEF vars, Undeleted
<1> QED
  BY <1>3, <1>4, <1>6, <1>7, <1>8, <1>9, <1>10, Zenon DEF Next, Advance

\* replicate.ts applyChangeSet: where nobody drops elements, every edge that
\* lands, in whatever pages, order and passes, has both its ends.
THEOREM NoEdgeDangles == Droppers = {} => (Spec => []NoDangling)
<1> SUFFICES ASSUME Droppers = {}
             PROVE  Spec => []NoDangling
  OBVIOUS
<1>1. Init => Undeleted
  <2> SUFFICES ASSUME Init PROVE Undeleted
    OBVIOUS
  <2>1. EmptyStore.tombs = {} /\ EmptyStore.live = [g \in Gid |-> NoRow]
    BY DEF EmptyStore
  <2>2. Live(EmptyStore) = {}
    BY <2>1 DEF Live, NoRow
  <2>3. Whole(EmptyStore)
    BY <2>1, <2>2 DEF Whole, Attached
  <2>4. Idle.deletes = None
    BY IdleIs, OfParcel
  <2> QED
    BY <2>3, <2>4 DEF Init, Undeleted
<1>2. Sane /\ Undeleted /\ [Next]_vars => Undeleted'
  BY UndeletedStep
<1>3. Undeleted => NoDangling
  BY DEF Undeleted, Whole, Attached, NoDangling
<1> QED
  BY <1>1, <1>2, <1>3, AlwaysSane, PTL DEF Spec

(***************************************************************************)
(* Copying one way                                                         *)
(***************************************************************************)
-----------------------------------------------------------------------------
\* What one graph has shown.

\* A graph shows an element at a version that descends from a given one, or
\* has deleted it at such a version.
Past(st, g, r) ==
    \/ g \in Live(st) /\ DescendsFrom(st.live[g].rev, r)
    \/ \E t \in st.tombs : t.gid = g /\ DescendsFrom(t.rev, r)

\* What a graph has shown or deleted it has shown or deleted for good.
Aged(st, new) ==
    /\ \A g \in Gid, r \in Rev : Past(st, g, r) => Past(new, g, r)
    /\ st.tombs \subseteq new.tombs

\* The graph users write to: it is nobody's target, so it holds no placed
\* edge and no losing version, and an element is deleted once.
Origin(st) ==
    /\ Sound(st) /\ Attached(st) /\ st.conflicts = {}
    /\ (Live(st) \cup Buried(st)) \cap Placed = {}
    /\ \A g \in Live(st) : Gen(st.live[g].rev) <= RevsLimit
    /\ \A t, u \in st.tombs : t.gid = u.gid => t.rev = u.rev
    /\ \A t \in st.tombs : Gen(t.rev) <= RevsLimit

\* The stages of an element, in their order.
Follows(a, b) ==
    \/ a = b \/ a = Unborn \/ b = Gone
    \/ a \in Rev /\ b \in Rev /\ NewerThan(b, a)

LEMMA InOrder ==
    ASSUME NEW a, NEW b
    PROVE  Abstract!Reaches(a, b) <=> Follows(a, b)
BY DEF Abstract!Reaches, Follows

LEMMA Staged ==
    ASSUME NEW st \in Store, NEW g \in Gid
    PROVE  StageOf(st, g) \in Abstract!Stage
BY Typed DEF StageOf, Abstract!Stage

LEMMA LiveRevs ==
    ASSUME NEW st, Sound(st)
    PROVE  \A g \in Live(st) : g \in Gid /\ st.live[g].rev \in Rev
<1>1. st \in Store
  BY DEF Sound
<1> QED
  BY <1>1, Typed DEF Live

LEMMA WrittenOrigin ==
    ASSUME NEW st, Origin(st), NEW g \in Gid \ (Buried(st) \cup Placed), NEW c \in Content,
           g \in Live(st) => Gen(st.live[g].rev) < RevsLimit,
           g \in EGid => Ends(g) \subseteq Live(st)
    PROVE  LET new == Write(st, g, c)
           IN  /\ Origin(new) /\ Aged(st, new)
               /\ \A h \in Gid : Follows(StageOf(st, h), StageOf(new, h))
<1> DEFINE new == Write(st, g, c)
<1>1. /\ Sound(st) /\ st \in Store
      /\ \A h \in Live(st) : Gen(st.live[h].rev) <= RevsLimit
      /\ \A h \in Live(st) : st.live[h].rev \in Rev
      /\ st.live[g].rev \in Rev \cup {NoRev}
  <2>1. Sound(st) /\ st \in Store
    BY DEF Origin, Sound
  <2>2. \A h \in Live(st) : st.live[h].rev \in Rev
    BY <2>1, LiveRevs
  <2>3. st.live[g].rev \in Rev \cup {NoRev}
    BY <2>1, Typed
  <2> QED
    BY <2>1, <2>2, <2>3 DEF Origin
<1>2. /\ Live(new) = Live(st) \cup {g} /\ Sound(new)
      /\ new.tombs = st.tombs /\ new.conflicts = st.conflicts
      /\ new.live[g].rev = ComputeRev(st.live[g].rev, c) /\ new.live[g].rev \in Rev
      /\ \A h \in Gid \ {g} : new.live[h] = st.live[h]
  BY <1>1, Wrote, WriteAdvances DEF Advances
<1> HIDE DEF new
<1>3. Buried(new) = Buried(st)
  BY <1>2 DEF Buried
<1>4. Gen(new.live[g].rev) <= RevsLimit
  <2>1. st.live[g].rev \in Seq(Content)
    BY <1>1, EmptySeq DEF Rev, NoRev
  <2>2. Gen(new.live[g].rev) = Gen(st.live[g].rev) + 1 /\ Gen(st.live[g].rev) \in Nat
    BY <1>2, <2>1 DEF ComputeRev, Gen
  <2>3. CASE g \in Live(st)
    BY <2>2, <2>3, RevsLimitAssumption
  <2>4. CASE g \notin Live(st)
    <3>1. st.live[g].rev = << >>
      BY <2>4 DEF Live, NoRev
    <3>2. Gen(st.live[g].rev) = 0
      BY <3>1 DEF Gen
    <3> QED
      BY <2>2, <3>2, RevsLimitAssumption
  <2> QED
    BY <2>3, <2>4
<1>5. g \in Live(st) => NewerThan(new.live[g].rev, st.live[g].rev)
  <2> SUFFICES ASSUME g \in Live(st)
               PROVE  NewerThan(new.live[g].rev, st.live[g].rev)
    OBVIOUS
  <2>1. st.live[g].rev \in Rev /\ st.live[g].rev \in Seq(Content) /\ Len(st.live[g].rev) \in Nat
    BY <1>1 DEF Rev
  <2>2. Len(st.live[g].rev) # 0
    BY <2>1, EmptySeq DEF Rev, NoRev
  <2>3. RevsLimit > 1
    BY <2>1, <2>2, RevsLimitAssumption DEF Gen
  <2>4. Len(new.live[g].rev) = Len(st.live[g].rev) + 1
    BY <1>2, <2>1 DEF ComputeRev
  <2> QED
    BY <1>2, <2>1, <2>3, <2>4, Chained DEF NewerThan
<1>6. Origin(new)
  <2>1. Attached(new)
    BY <1>2 DEF Attached, Origin
  <2>2. \A h \in Live(new) : Gen(new.live[h].rev) <= RevsLimit
    BY <1>1, <1>2, <1>4 DEF Live
  <2>3. (Live(new) \cup Buried(new)) \cap Placed = {}
    BY <1>2, <1>3 DEF Origin
  <2> QED
    BY <1>2, <2>1, <2>2, <2>3 DEF Origin
<1>7. ASSUME NEW h \in Gid, NEW r \in Rev, Past(st, h, r)
      PROVE  Past(new, h, r)
  <2>1. CASE \E t \in st.tombs : t.gid = h /\ DescendsFrom(t.rev, r)
    BY <1>2, <2>1 DEF Past
  <2>2. CASE h \in Live(st) /\ DescendsFrom(st.live[h].rev, r)
    <3>1. CASE h = g
      <4>1. DescendsFrom(new.live[g].rev, st.live[g].rev)
        BY <1>5, <2>2, <3>1 DEF NewerThan
      <4>2. DescendsFrom(new.live[g].rev, r)
        BY <1>1, <1>2, <1>4, <2>2, <3>1, <4>1, Transitive
      <4> QED
        BY <1>2, <3>1, <4>2 DEF Past
    <3>2. CASE h # g
      BY <1>2, <2>2, <3>2 DEF Past
    <3> QED
      BY <3>1, <3>2
  <2> QED
    BY <1>7, <2>1, <2>2 DEF Past
<1>8. ASSUME NEW h \in Gid
      PROVE  Follows(StageOf(st, h), StageOf(new, h))
  <2>1. CASE h = g
    BY <1>1, <1>2, <1>5, <2>1 DEF StageOf, Follows
  <2>2. CASE h # g
    BY <1>2, <1>3, <2>2 DEF StageOf, Follows
  <2> QED
    BY <2>1, <2>2
<1> QED
  BY <1>2, <1>6, <1>7, <1>8 DEF Aged, new

LEMMA DroppedOrigin ==
    ASSUME NEW st, Origin(st), NEW new, Sound(new), Drops(st, new)
    PROVE  /\ Origin(new) /\ Aged(st, new)
           /\ \A h \in Gid : Follows(StageOf(st, h), StageOf(new, h))
<1>1. PICK S \in SUBSET Live(st) :
        /\ Live(new) = Live(st) \ S /\ new.conflicts = st.conflicts
        /\ \A g \in Gid \ S : new.live[g] = st.live[g]
        /\ st.tombs \subseteq new.tombs
        /\ \A t \in new.tombs \ st.tombs : t.gid \in S /\ t.rev = st.live[t.gid].rev
        /\ \A g \in S : \E t \in new.tombs : t.gid = g /\ t.rev = st.live[g].rev
        /\ \A e \in (EGid \cap Live(st)) \ S : Ends(e) \cap S = {}
  BY DEF Drops
<1>2. Live(st) \subseteq Gid /\ Live(st) \cap Buried(st) = {}
  BY DEF Origin, Sound, Exclusive, Live
<1>3. /\ Buried(st) \subseteq Buried(new) /\ S \subseteq Buried(new)
      /\ Buried(new) \subseteq Buried(st) \cup S
  BY <1>1 DEF Buried
<1>4. Origin(new)
  <2>1. Attached(new)
    BY <1>1 DEF Attached, Origin
  <2>2. \A h \in Live(new) : Gen(new.live[h].rev) <= RevsLimit
    BY <1>1, <1>2 DEF Origin
  <2>3. (Live(new) \cup Buried(new)) \cap Placed = {}
    BY <1>1, <1>3 DEF Origin
  <2>4. \A t \in new.tombs : Gen(t.rev) <= RevsLimit
    BY <1>1 DEF Origin
  <2>5. ASSUME NEW t \in new.tombs, NEW u \in new.tombs, t.gid = u.gid
        PROVE  t.rev = u.rev
    <3>1. \A x \in st.tombs : x.gid \notin S
      BY <1>2 DEF Buried
    <3>2. t \in st.tombs <=> u \in st.tombs
      BY <1>1, <2>5, <3>1
    <3> QED
      BY <1>1, <2>5, <3>2 DEF Origin
  <2> QED
    BY <1>1, <2>1, <2>2, <2>3, <2>4, <2>5 DEF Origin
<1>5. ASSUME NEW h \in Gid, NEW r \in Rev, Past(st, h, r)
      PROVE  Past(new, h, r)
  <2>1. CASE h \in S
    BY <1>1, <1>5, <2>1 DEF Past
  <2>2. CASE h \notin S
    BY <1>1, <1>5, <2>2 DEF Past
  <2> QED
    BY <2>1, <2>2
<1>6. ASSUME NEW h \in Gid
      PROVE  Follows(StageOf(st, h), StageOf(new, h))
  BY <1>1, <1>3 DEF StageOf, Follows
<1> QED
  BY <1>1, <1>4, <1>5, <1>6 DEF Aged

-----------------------------------------------------------------------------
\* The copy, and what is on its way to it.

\* All the copy shows but for placed edges the original has shown, and all
\* that is deleted on the copy is deleted on the original.
Copy(o, c) ==
    /\ Sound(c) /\ Attached(c) /\ c.weak \subseteq Placed
    /\ \A g \in Live(c) \ Placed : Past(o, g, c.live[g].rev)
    /\ Buried(c) \ Placed \subseteq Buried(o)

\* A body under way is a version the original has shown, and lands on an older
\* one or where nothing was deleted; a delete under way is one of the original's.
OnWay(o, c, m) ==
    /\ m.losers = {}
    /\ \A d \in m.docs :
          /\ d.gid \notin Placed /\ d.gid \notin Buried(c) /\ d.gid \notin Gids(ToSet(m.deletes))
          /\ Past(o, d.gid, d.rev)
          /\ d.gid \in Live(c) => DescendsFrom(d.rev, c.live[d.gid].rev)
    /\ \A d \in ToSet(m.deletes) : \E t \in o.tombs : t.gid = d.gid /\ t.rev = d.rev

\* A write to the original takes nothing from what the copy relies on.
LEMMA AgedCopy ==
    ASSUME NEW o, NEW new, Aged(o, new), NEW c, Copy(o, c), NEW m \in Message
    PROVE  /\ Copy(new, c)
           /\ OnWay(o, c, m) => OnWay(new, c, m)
<1>1. \A g \in Live(c) : g \in Gid /\ c.live[g].rev \in Rev
  BY Typed DEF Copy, Sound, Live
<1>2. Copy(new, c)
  BY <1>1 DEF Copy, Aged, Buried
<1>3. \A d \in m.docs : d.gid \in Gid /\ d.rev \in Rev
  BY AsParcel DEF Leaf
<1>4. OnWay(o, c, m) => OnWay(new, c, m)
  BY <1>3 DEF OnWay, Aged
<1> QED
  BY <1>2, <1>4

\* A placement's graft on the copy.
LEMMA GraftedCopy ==
    ASSUME NEW o, NEW c, Copy(o, c), NEW e \in EGid \cap Placed, e \notin Live(c) \cup Buried(c),
           Ends(e) \subseteq Live(c), NEW x \in Content, NEW m
    PROVE  LET mid == Write(c, e, x)
               new == SetWeak(mid, mid.weak \cup {e})
           IN  /\ Copy(o, new) /\ (OnWay(o, c, m) => OnWay(o, new, m))
               /\ \A g \in Element : StageOf(new, g) = StageOf(c, g)
<1> DEFINE mid == Write(c, e, x)
           weak == mid.weak \cup {e}
           new == SetWeak(mid, weak)
<1>1. e \in Gid /\ Sound(c)
  BY DEF Gid, Copy
<1>2. /\ Live(mid) = Live(c) \cup {e} /\ Sound(mid) /\ mid \in Store /\ mid.weak = c.weak
      /\ mid.tombs = c.tombs /\ \A h \in Gid \ {e} : mid.live[h] = c.live[h]
  BY <1>1, Wrote, WriteAdvances DEF Advances
<1> HIDE DEF mid
<1>3. weak \in SUBSET EGid /\ weak \subseteq Placed
  BY <1>2, Typed DEF Copy
<1> HIDE DEF weak
<1>4. new = Tables(mid.live, weak, mid.tombs, mid.conflicts, mid.counter)
  BY <1>2, AssignedOne
<1> HIDE DEF new
<1>5. /\ new \in Store /\ new.live = mid.live /\ new.weak = weak /\ new.tombs = mid.tombs
      /\ new.conflicts = mid.conflicts /\ new.counter = mid.counter
  BY <1>2, <1>3, <1>4, Table, Typed
<1>6. Live(new) = Live(c) \cup {e} /\ Buried(new) = Buried(c) /\ Live(new) = Live(mid)
      /\ Buried(new) = Buried(mid)
  BY <1>2, <1>5 DEF Live, Buried
<1>7. Sound(new)
  BY <1>2, <1>5, <1>6 DEF Sound, Numbered, Exclusive
<1>8. Attached(new)
  BY <1>6 DEF Attached, Copy
<1>9. Copy(o, new)
  <2>1. \A g \in Live(new) \ Placed : g \in Live(c) \ Placed /\ new.live[g] = c.live[g]
    BY <1>2, <1>5, <1>6 DEF Live
  <2> QED
    BY <1>3, <1>5, <1>6, <1>7, <1>8, <2>1 DEF Copy
<1>10. OnWay(o, c, m) => OnWay(o, new, m)
  <2>1. \A d \in m.docs : d.gid \in Live(new) /\ d.gid \notin Placed =>
            d.gid \in Live(c) /\ new.live[d.gid] = c.live[d.gid]
    BY <1>2, <1>5, <1>6 DEF Live
  <2> QED
    BY <1>6, <2>1 DEF OnWay
<1>11. ASSUME NEW g \in Element
       PROVE  StageOf(new, g) = StageOf(c, g)
  BY <1>2, <1>5, <1>6, <1>11 DEF StageOf, Element
<1> QED
  BY <1>9, <1>10, <1>11 DEF new, weak, mid

\* The copy shows nothing the original has not.
LEMMA NotAhead ==
    ASSUME NEW o, Origin(o), NEW c, Copy(o, c), NEW g \in Element
    PROVE  Follows(StageOf(c, g), StageOf(o, g))
<1>1. g \in Gid /\ g \notin Placed /\ Live(o) \cap Buried(o) = {}
  BY DEF Element, Origin, Sound, Exclusive
<1>2. CASE g \in Live(c)
  <2>1. Past(o, g, c.live[g].rev) /\ c.live[g].rev \in Rev
    BY <1>1, <1>2, LiveRevs DEF Copy
  <2>2. CASE g \in Live(o)
    <3>1. DescendsFrom(o.live[g].rev, c.live[g].rev)
      BY <1>1, <2>1, <2>2 DEF Past, Buried
    <3>2. o.live[g].rev \in Rev
      BY <2>2, LiveRevs DEF Origin
    <3> QED
      BY <1>2, <2>1, <2>2, <3>1, <3>2 DEF StageOf, Follows, NewerThan
  <2>3. CASE g \notin Live(o)
    <3>1. g \in Buried(o)
      BY <2>1, <2>3 DEF Past, Buried
    <3> QED
      BY <2>3, <3>1 DEF StageOf, Follows
  <2> QED
    BY <2>2, <2>3
<1>3. CASE g \notin Live(c) /\ g \in Buried(c)
  <2>1. g \in Buried(o)
    BY <1>1, <1>3 DEF Copy
  <2> QED
    BY <1>1, <2>1 DEF StageOf, Follows
<1>4. CASE g \notin Live(c) /\ g \notin Buried(c)
  BY <1>4 DEF StageOf, Follows
<1> QED
  BY <1>2, <1>3, <1>4

\* What the copy's deletes say is no older than what it shows.
LEMMA DeletesNewer ==
    ASSUME NEW o, Origin(o), NEW c, Copy(o, c), NEW dels,
           \A d \in ToSet(dels) : \E t \in o.tombs : t.gid = d.gid /\ t.rev = d.rev
    PROVE  /\ \A d \in ToSet(dels) : d.gid \in Live(c) => DescendsFrom(d.rev, c.live[d.gid].rev)
           /\ Gids(ToSet(dels)) \subseteq Buried(o)
<1>1. Gids(ToSet(dels)) \subseteq Buried(o)
  BY DEF Gids, Buried
<1> SUFFICES ASSUME NEW d \in ToSet(dels), d.gid \in Live(c)
             PROVE  DescendsFrom(d.rev, c.live[d.gid].rev)
  BY <1>1
<1>2. PICK t \in o.tombs : t.gid = d.gid /\ t.rev = d.rev
  OBVIOUS
<1>3. d.gid \notin Live(o) /\ d.gid \notin Placed
  BY <1>2 DEF Buried, Origin, Sound, Exclusive
<1>4. PICK u \in o.tombs : u.gid = d.gid /\ DescendsFrom(u.rev, c.live[d.gid].rev)
  BY <1>3 DEF Copy, Past
<1> QED
  BY <1>2, <1>4 DEF Origin

\* Landing what is on its way: the copy moves on, element by element, and no
\* further than the original is.
LEMMA LandedCopy ==
    ASSUME NEW o, Origin(o), NEW c, Copy(o, c), NEW docs \in SUBSET Leaf, NEW dels,
           \A d \in docs :
              /\ d.gid \notin Placed /\ d.gid \notin Buried(c) /\ d.gid \notin Gids(ToSet(dels))
              /\ Past(o, d.gid, d.rev)
              /\ d.gid \in Live(c) => DescendsFrom(d.rev, c.live[d.gid].rev),
           \A d \in ToSet(dels) : \E t \in o.tombs : t.gid = d.gid /\ t.rev = d.rev,
           NEW acc \in SUBSET docs, NEW S \in SUBSET Live(c), NEW new, Sound(new),
           Moves(c, docs, dels, acc, S, new)
    PROVE  /\ Copy(o, new)
           /\ \A g \in Element : /\ Follows(StageOf(c, g), StageOf(new, g))
                                 /\ Follows(StageOf(new, g), StageOf(o, g))
<1>1. /\ Live(new) = (Live(c) \ S) \cup Gids(acc)
      /\ \A d \in acc : Accepts(c, d) /\ new.live[d.gid].rev = d.rev
      /\ \A g \in Gid \ (S \cup Gids(acc)) : new.live[g] = c.live[g]
      /\ S \subseteq Gids(ToSet(dels)) \cup c.weak /\ new.weak \subseteq c.weak
      /\ Buried(c) \ Gids(acc) \subseteq Buried(new) /\ S \ Gids(acc) \subseteq Buried(new)
      /\ Buried(new) \subseteq Buried(c) \cup Gids(ToSet(dels)) \cup S
      /\ \A e \in Gids(acc) \cap EGid : Ends(e) \subseteq Live(new)
      /\ (\A d \in ToSet(dels) : d.gid \in EGid \cap Live(c) => DescendsFrom(d.rev, c.live[d.gid].rev))
            => \A e \in (EGid \cap Live(c)) \ S : Ends(e) \cap S = {}
  BY DEF Moves
<1>2. /\ Live(c) \subseteq Gid /\ Live(c) \cap Buried(c) = {} /\ Live(new) \cap Buried(new) = {}
      /\ Live(new) \subseteq Gid /\ Live(o) \cap Buried(o) = {}
  BY DEF Copy, Origin, Sound, Exclusive, Live
<1>3. Gids(ToSet(dels)) \subseteq Buried(o)
  BY DeletesNewer
<1>4. \A d \in ToSet(dels) : d.gid \in Live(c) => DescendsFrom(d.rev, c.live[d.gid].rev)
  BY DeletesNewer
<1>5. \A g \in Gids(acc) : \E d \in acc : d.gid = g
  BY DEF Gids
<1>6. Attached(new)
  <2> SUFFICES ASSUME NEW e \in EGid \cap Live(new)
               PROVE  Ends(e) \subseteq Live(new)
    BY DEF Attached
  <2>1. CASE e \in Gids(acc)
    BY <1>1, <2>1
  <2>2. CASE e \in Live(c) \ S
    <3>1. Ends(e) \subseteq Live(c)
      BY <2>2 DEF Copy, Attached
    <3>2. Ends(e) \cap S = {}
      BY <1>1, <1>4, <2>2
    <3> QED
      BY <1>1, <3>1, <3>2
  <2> QED
    BY <1>1, <2>1, <2>2
<1>7. Copy(o, new)
  <2>1. new.weak \subseteq Placed
    BY <1>1 DEF Copy
  <2>2. ASSUME NEW g \in Live(new) \ Placed
        PROVE  Past(o, g, new.live[g].rev)
    <3>1. CASE g \in Gids(acc)
      BY <1>1, <1>5, <3>1
    <3>2. CASE g \notin Gids(acc)
      <4>1. g \in Live(c) \ Placed /\ new.live[g] = c.live[g]
        BY <1>1, <1>2, <2>2, <3>2
      <4> QED
        BY <4>1 DEF Copy
    <3> QED
      BY <3>1, <3>2
  <2>3. Buried(new) \ Placed \subseteq Buried(o)
    BY <1>1, <1>3 DEF Copy
  <2> QED
    BY <1>6, <2>1, <2>2, <2>3 DEF Copy
<1>8. \A g \in Element : Follows(StageOf(new, g), StageOf(o, g))
  BY <1>7, NotAhead
<1>9. ASSUME NEW g \in Element
      PROVE  Follows(StageOf(c, g), StageOf(new, g))
  <2>1. g \in Gid /\ g \notin Placed
    BY DEF Element
  <2>2. CASE g \in Gids(acc)
    <3>1. PICK d \in acc : d.gid = g
      BY <1>5, <2>2
    <3>2. /\ g \in Live(new) /\ new.live[g].rev = d.rev /\ d.rev \in Rev /\ g \notin Buried(c)
          /\ g \in Live(c) => DescendsFrom(d.rev, c.live[g].rev)
          /\ g \in Live(c) => d.rev # c.live[g].rev
      BY <1>1, <2>2, <3>1 DEF Leaf, Accepts, Live
    <3>3. g \in Live(c) => c.live[g].rev \in Rev
      BY LiveRevs DEF Copy
    <3> QED
      BY <3>2, <3>3 DEF StageOf, Follows, NewerThan
  <2>3. CASE g \in S \ Gids(acc)
    <3>1. g \in Buried(new) /\ g \notin Live(new)
      BY <1>1, <1>2, <2>3
    <3> QED
      BY <3>1 DEF StageOf, Follows
  <2>4. CASE g \in Live(c) /\ g \notin S \cup Gids(acc)
    BY <1>1, <2>1, <2>4 DEF StageOf, Follows
  <2>5. CASE g \notin Live(c) /\ g \notin Gids(acc)
    <3>1. g \notin Live(new) /\ (g \in Buried(c) => g \in Buried(new))
      BY <1>1, <2>5
    <3> QED
      BY <2>5, <3>1 DEF StageOf, Follows
  <2> QED
    BY <2>2, <2>3, <2>4, <2>5
<1> QED
  BY <1>7, <1>8, <1>9
\* A live row of the original is fit to be on its way.
LEMMA LiveOnWay ==
    ASSUME NEW o, Origin(o), NEW c, Copy(o, c), NEW d, d.gid \in Live(o), d.rev = o.live[d.gid].rev,
           NEW dels, \A x \in ToSet(dels) : \E t \in o.tombs : t.gid = x.gid /\ t.rev = x.rev
    PROVE  /\ d.gid \notin Placed /\ d.gid \notin Buried(c) /\ d.gid \notin Gids(ToSet(dels))
           /\ Past(o, d.gid, d.rev)
           /\ d.gid \in Live(c) => DescendsFrom(d.rev, c.live[d.gid].rev)
<1>1. d.gid \notin Buried(o) /\ d.gid \notin Placed /\ Sound(o)
  BY DEF Origin, Sound, Exclusive
<1>2. d.gid \notin Buried(c)
  BY <1>1 DEF Copy
<1>3. d.gid \notin Gids(ToSet(dels))
  BY <1>1 DEF Gids, Buried
<1>4. d.rev \in Rev
  BY <1>1, LiveRevs
<1>5. Past(o, d.gid, d.rev)
  BY <1>4, Self DEF Past
<1>6. d.gid \in Live(c) => DescendsFrom(d.rev, c.live[d.gid].rev)
  BY <1>1 DEF Copy, Past, Buried
<1> QED
  BY <1>1, <1>2, <1>3, <1>5, <1>6

-----------------------------------------------------------------------------
\* The passes.

\* What a pass carries after each kind of call.
LEMMA TurnedTo ==
    ASSUME NEW m \in Message, NEW call, NEW n, n = At(m, call)
    PROVE  /\ n.docs = m.docs /\ n.losers = m.losers /\ n.deletes = m.deletes
           /\ n.call = call /\ n.last_seq = m.last_seq
BY AsParcel, OneChanged, OfParcel

LEMMA TurnedDocs ==
    ASSUME NEW m \in Message, NEW d, NEW call, NEW n, n = At(WithDocs(m, d), call)
    PROVE  /\ n.docs = d /\ n.losers = m.losers /\ n.deletes = m.deletes
           /\ n.call = call /\ n.last_seq = m.last_seq
<1>1. WithDocs(m, d) = Parcel(m.call, d, m.losers, m.deletes, m.last_seq)
  BY AsParcel, OneChanged
<1>2. n = Parcel(call, d, m.losers, m.deletes, m.last_seq)
  BY <1>1, OneChanged
<1> QED
  BY <1>2, OfParcel

LEMMA TurnedLosers ==
    ASSUME NEW m \in Message, NEW l, NEW call, NEW n, n = At(WithLosers(m, l), call)
    PROVE  n.docs = m.docs /\ n.losers = l /\ n.deletes = m.deletes
<1>1. WithLosers(m, l) = Parcel(m.call, m.docs, l, m.deletes, m.last_seq)
  BY AsParcel, OneChanged
<1>2. n = Parcel(call, m.docs, l, m.deletes, m.last_seq)
  BY <1>1, OneChanged
<1> QED
  BY <1>2, OfParcel

LEMMA TurnedEmpty ==
    ASSUME NEW m \in Message, NEW l, NEW call, NEW n, n = At(Emptied(m, l), call)
    PROVE  /\ n.docs = {} /\ n.losers = l /\ n.deletes = None
           /\ n.call = call /\ n.last_seq = m.last_seq
<1>1. Emptied(m, l) = Parcel(m.call, {}, l, None, m.last_seq)
  BY EmptiedIs
<1>2. n = Parcel(call, {}, l, None, m.last_seq)
  BY <1>1, OneChanged
<1> QED
  BY <1>2, OfParcel

\* A pass with nothing but the original's deletes, or nothing at all, to move.
LEMMA EmptyOnWay ==
    ASSUME NEW o, NEW c, NEW m, m.docs = {}, m.losers = {}, m.deletes = None
    PROVE  OnWay(o, c, m)
<1>1. ToSet(m.deletes) = {}
  BY DEF None, ToSet
<1> QED
  BY <1>1 DEF OnWay

\* The calls of the pass that fills the copy.
LEMMA MirrorReads ==
    ASSUME Sane, NEW w \in Worker, NEW o, NEW c, o = store[Source[w]], c = store[Target[w]],
           Origin(o), Copy(o, c), OnWay(o, c, pass[w]),
           Changes(w) \/ AskMissing(w) \/ Fetch(w) \/ AskLosers(w) \/ FetchLosers(w)
    PROVE  OnWay(o, c, pass'[w])
<1>1. pass[w] \in Message /\ pass \in [Worker -> Message] /\ Sound(o) /\ Sound(c)
  BY DEF Sane, Passes, Origin, Copy
<1>2. ASSUME NEW m, NEW call, Continue(w, m, call)
      PROVE  pass'[w] = At(m, call)
  <2>1. pass' = [pass EXCEPT ![w] = At(m, call)]
    BY <1>2, Zenon DEF Continue, At
  <2> QED
    BY <1>1, <2>1
<1>3. CASE Changes(w)
  <2> DEFINE m == Offer(o, checkpoint[Cursor[w]], Limit[w], Filter[w])
  <2>1. Continue(w, m, AfterFeed(m))
    BY <1>3, Zenon DEF Changes, Offer, Filled
  <2>2. checkpoint[Cursor[w]] \in Nat /\ Limit[w] \in Nat
    BY ReplicationAssumption DEF Sane, Counts
  <2>3. /\ Carried(m)
        /\ \A d \in m.docs : d.gid \in Live(o) /\ d.rev = o.live[d.gid].rev
        /\ o.conflicts = {} => m.losers = {}
        /\ \A d \in ToSet(m.deletes) : \E t \in o.tombs : t.gid = d.gid /\ t.rev = d.rev
    BY <1>1, <2>2, Offered
  <2> HIDE DEF m
  <2>4. OnWay(o, c, m)
    <3>1. o.conflicts = {}
      BY DEF Origin
    <3>2. ASSUME NEW d \in m.docs
          PROVE  /\ d.gid \notin Placed /\ d.gid \notin Buried(c) /\ d.gid \notin Gids(ToSet(m.deletes))
                 /\ Past(o, d.gid, d.rev)
                 /\ d.gid \in Live(c) => DescendsFrom(d.rev, c.live[d.gid].rev)
      BY <2>3, LiveOnWay
    <3> QED
      BY <2>3, <3>1, <3>2 DEF OnWay
  <2>5. pass'[w] = At(m, AfterFeed(m))
    BY <1>2, <2>1
  <2> DEFINE n == At(m, AfterFeed(m))
  <2>8. n = At(m, AfterFeed(m))
    OBVIOUS
  <2> HIDE DEF n
  <2>6. n.docs = m.docs /\ n.losers = m.losers /\ n.deletes = m.deletes
    BY <2>3, <2>8, TurnedTo DEF Carried
  <2>7. OnWay(o, c, n)
    BY <2>4, <2>6 DEF OnWay
  <2> QED
    BY <2>5, <2>7 DEF n
<1>4. CASE AskMissing(w)
  <2> DEFINE docs == RevsDiff(c, pass[w].docs)
             call == AfterDiff(WithDocs(pass[w], docs))
             n == At(WithDocs(pass[w], docs), call)
  <2>1. Continue(w, WithDocs(pass[w], docs), call)
    BY <1>4, Zenon DEF AskMissing, WithDocs
  <2>2. docs \subseteq pass[w].docs
    BY DEF RevsDiff
  <2> HIDE DEF docs, call
  <2>3. pass'[w] = n
    BY <1>2, <2>1
  <2>8. n = At(WithDocs(pass[w], docs), call)
    OBVIOUS
  <2> HIDE DEF n
  <2>4. n.docs = docs /\ n.losers = pass[w].losers /\ n.deletes = pass[w].deletes
    BY <1>1, <2>8, TurnedDocs
  <2>5. OnWay(o, c, n)
    BY <2>2, <2>4 DEF OnWay
  <2> QED
    BY <2>3, <2>5
<1>5. CASE Fetch(w)
  <2> DEFINE gids == Gids(pass[w].docs)
             docs == LiveBodies(o, gids)
             call == AfterGet(WithDocs(pass[w], docs))
             n == At(WithDocs(pass[w], docs), call)
  <2>1. Continue(w, WithDocs(pass[w], docs), call)
    BY <1>5, Zenon DEF Fetch, WithDocs
  <2>2. \A d \in docs : d.gid \in Live(o) /\ d.rev = o.live[d.gid].rev
    <3> HIDE DEF gids
    <3>1. o \in Store /\ Numbered(o, {})
      BY <1>1 DEF Sound
    <3> QED
      BY <3>1, BodiesRead
  <2> HIDE DEF docs, call
  <2>3. pass'[w] = n
    BY <1>2, <2>1
  <2>8. n = At(WithDocs(pass[w], docs), call)
    OBVIOUS
  <2> HIDE DEF n
  <2>4. n.docs = docs /\ n.losers = pass[w].losers /\ n.deletes = pass[w].deletes
    BY <1>1, <2>8, TurnedDocs
  <2>5. /\ pass[w].losers = {}
        /\ \A d \in ToSet(pass[w].deletes) : \E t \in o.tombs : t.gid = d.gid /\ t.rev = d.rev
    BY DEF OnWay
  <2>6. ASSUME NEW d \in docs
        PROVE  /\ d.gid \notin Placed /\ d.gid \notin Buried(c)
               /\ d.gid \notin Gids(ToSet(pass[w].deletes))
               /\ Past(o, d.gid, d.rev)
               /\ d.gid \in Live(c) => DescendsFrom(d.rev, c.live[d.gid].rev)
    BY <2>2, <2>5, LiveOnWay
  <2>7. OnWay(o, c, n)
    BY <2>4, <2>5, <2>6 DEF OnWay
  <2> QED
    BY <2>3, <2>7
<1>6. CASE AskLosers(w) \/ FetchLosers(w)
  <2>1. pass[w].losers = {}
    BY DEF OnWay
  <2>2. RevsDiff(c, pass[w].losers) = {}
    BY <2>1 DEF RevsDiff
  <2>3. BulkGetRevs(o, pass[w].losers) = {}
    BY <2>1 DEF BulkGetRevs, LiveBodies, Gids
  <2>4. \E call : Continue(w, WithLosers(pass[w], {}), call)
    <3>1. AskLosers(w) => \E call : Continue(w, WithLosers(pass[w], RevsDiff(c, pass[w].losers)), call)
      BY Zenon DEF AskLosers, WithLosers
    <3>2. FetchLosers(w) => \E call : Continue(w, WithLosers(pass[w], BulkGetRevs(o, pass[w].losers)), call)
      BY Zenon DEF FetchLosers, WithLosers
    <3> QED
      BY <1>6, <2>2, <2>3, <3>1, <3>2
  <2>5. PICK call : Continue(w, WithLosers(pass[w], {}), call)
    BY <2>4
  <2> DEFINE n == At(WithLosers(pass[w], {}), call)
  <2>6. pass'[w] = n
    BY <1>2, <2>5
  <2>9. n = At(WithLosers(pass[w], {}), call)
    OBVIOUS
  <2> HIDE DEF n
  <2>7. n.docs = pass[w].docs /\ n.losers = {} /\ n.deletes = pass[w].deletes
    BY <1>1, <2>9, TurnedLosers
  <2>8. OnWay(o, c, n)
    BY <2>7 DEF OnWay
  <2> QED
    BY <2>6, <2>8
<1> QED
  BY <1>3, <1>4, <1>5, <1>6
-----------------------------------------------------------------------------
\* The system.

\* One graph that users may write to is mirrored: no worker copies to it, one
\* worker alone copies to its mirror, from it, and users do not write to the
\* mirror.  Other graphs and workers are as they may be.
Mirrored ==
    /\ Original # Copied /\ Copied \notin Writers /\ MaxGen <= RevsLimit
    /\ \A w \in Worker : Target[w] # Original /\ (Target[w] = Copied => Source[w] = Original)
    /\ \A v, w \in Worker : Target[v] = Copied /\ Target[w] = Copied => v = w

MirrorInv ==
    /\ Origin(store[Original]) /\ Copy(store[Original], store[Copied])
    /\ \A w \in Worker : Target[w] = Copied => OnWay(store[Original], store[Copied], pass[w])

\* The original goes on alone, or the copy does and stays behind it.
WritesOn == /\ store'[Copied] = store[Copied]
            /\ \A g \in Element : Follows(StageOf(store[Original], g), StageOf(store'[Original], g))
CatchesUp == /\ store'[Original] = store[Original]
             /\ \A g \in Element : /\ Follows(StageOf(store[Copied], g), StageOf(store'[Copied], g))
                                   /\ Follows(StageOf(store'[Copied], g), StageOf(store[Original], g))

LEMMA EmptyMirrors ==
    ASSUME Init
    PROVE  /\ MirrorInv
           /\ \A g \in Element : /\ StageOf(store[Original], g) = Unborn
                                 /\ StageOf(store[Copied], g) = Unborn
<1>1. store[Original] = EmptyStore /\ store[Copied] = EmptyStore /\ Sound(EmptyStore)
  <2>1. Original \in Peer /\ Copied \in Peer
    BY MirrorAssumption
  <2>2. store[Original] = EmptyStore /\ store[Copied] = EmptyStore
    BY <2>1 DEF Init
  <2> QED
    BY <2>1, <2>2, SaneInit DEF Sane, Graphs
<1>2. /\ EmptyStore.live = [g \in Gid |-> NoRow] /\ EmptyStore.tombs = {}
      /\ EmptyStore.weak = {} /\ EmptyStore.conflicts = {}
  BY DEF EmptyStore
<1>3. Live(EmptyStore) = {} /\ Buried(EmptyStore) = {}
  BY <1>2 DEF Live, Buried, NoRow
<1>4. Origin(EmptyStore)
  BY <1>1, <1>2, <1>3 DEF Origin, Attached
<1>5. Copy(EmptyStore, EmptyStore)
  BY <1>1, <1>2, <1>3 DEF Copy, Attached
<1>6. \A w \in Worker : OnWay(EmptyStore, EmptyStore, pass[w])
  <2>1. Idle.docs = {} /\ Idle.losers = {} /\ Idle.deletes = None
    BY IdleIs, OfParcel
  <2> QED
    BY <2>1, EmptyOnWay DEF Init
<1> QED
  BY <1>1, <1>3, <1>4, <1>5, <1>6 DEF MirrorInv, StageOf

\* A step of the original: the rest stays.
LEMMA OriginalGoesOn ==
    ASSUME Mirrored, Sane, MirrorInv, NEW new, Origin(new), Aged(store[Original], new),
           \A g \in Gid : Follows(StageOf(store[Original], g), StageOf(new, g)),
           store' = [store EXCEPT ![Original] = new], pass' = pass
    PROVE  MirrorInv' /\ WritesOn
<1>1. store'[Original] = new /\ store'[Copied] = store[Copied]
  BY MirrorAssumption DEF Mirrored, Sane, Graphs
<1>2. \A w \in Worker : pass[w] \in Message
  BY DEF Sane, Passes
<1>3. Copy(new, store[Copied])
  <2>1. Idle \in Message
    BY Idles DEF Carried
  <2> QED
    BY <2>1, AgedCopy DEF MirrorInv
<1>4. \A w \in Worker : Target[w] = Copied => OnWay(new, store[Copied], pass[w])
  BY <1>2, AgedCopy DEF MirrorInv
<1>5. MirrorInv'
  BY <1>1, <1>3, <1>4 DEF MirrorInv
<1>6. WritesOn
  BY <1>1 DEF WritesOn, Element
<1> QED
  BY <1>5, <1>6

\* A step that neither the original nor the copy notices.
LEMMA MirrorsStay ==
    ASSUME MirrorInv, store'[Original] = store[Original], store'[Copied] = store[Copied],
           \A w \in Worker : Target[w] = Copied => OnWay(store[Original], store[Copied], pass'[w])
    PROVE  MirrorInv' /\ WritesOn
<1>1. MirrorInv'
  BY DEF MirrorInv
<1>2. WritesOn
  BY DEF WritesOn, Follows
<1> QED
  BY <1>1, <1>2

LEMMA LocalMirrors ==
    ASSUME Mirrored, Sane, MirrorInv, NEW p \in Peer, NEW g \in Gid,
           (\E c \in Content : Create(p, g, c) \/ Edit(p, g, c)) \/ DropElement(p, g)
    PROVE  MirrorInv' /\ WritesOn
<1>1. /\ p \in Writers /\ pass' = pass /\ Original \in Peer /\ Copied \in Peer
      /\ store \in [Peer -> Store] /\ \E st : store' = [store EXCEPT ![p] = st]
  BY ReplicationAssumption, MirrorAssumption DEF Create, Edit, DropElement, LocalWrite, Sane, Graphs
<1>2. CASE p # Original
  <2>1. store'[Original] = store[Original] /\ store'[Copied] = store[Copied]
    BY <1>1, <1>2 DEF Mirrored
  <2> QED
    BY <1>1, <2>1, MirrorsStay DEF MirrorInv
<1>3. CASE p = Original
  <2> DEFINE o == store[Original]
  <2>1. Origin(o) /\ Sound(o)
    BY DEF MirrorInv, Origin
  <2>2. ASSUME NEW c \in Content, Create(p, g, c) \/ Edit(p, g, c)
        PROVE  MirrorInv' /\ WritesOn
    <3>1. /\ store' = [store EXCEPT ![Original] = Write(o, g, c)]
          /\ g \in EGid => Ends(g) \subseteq Live(o)
      BY <1>3, <2>2 DEF Create, Edit, LocalWrite
    <3>2. /\ g \notin Buried(o) /\ g \notin Placed
          /\ g \in Live(o) => Gen(o.live[g].rev) < RevsLimit
      <4>1. CASE Create(p, g, c)
        <5>1. g \notin Live(o) \cup Buried(o) /\ g \notin Placed
          BY <1>1, <4>1 DEF Create, Unseen
        <5> QED
          BY <5>1
      <4>2. CASE Edit(p, g, c)
        <5>1. g \in Live(o) /\ Gen(o.live[g].rev) < MaxGen
          BY <1>3, <4>2 DEF Edit
        <5>2. g \notin Buried(o) /\ g \notin Placed
          BY <2>1, <5>1 DEF Origin, Sound, Exclusive
        <5>3. Gen(o.live[g].rev) \in Nat
          <6>1. o.live[g].rev \in Rev
            BY <2>1, <5>1, LiveRevs
          <6> QED
            BY <6>1, GenIsNat
        <5>4. Gen(o.live[g].rev) < RevsLimit
          BY <5>1, <5>3, ReplicationAssumption, RevsLimitAssumption DEF Mirrored
        <5> QED
          BY <5>2, <5>4
      <4> QED
        BY <2>2, <4>1, <4>2
    <3> DEFINE new == Write(o, g, c)
    <3>3. /\ Origin(new) /\ Aged(o, new)
          /\ \A h \in Gid : Follows(StageOf(o, h), StageOf(new, h))
      BY <2>1, <3>1, <3>2, WrittenOrigin
    <3> HIDE DEF new
    <3>4. store' = [store EXCEPT ![Original] = new]
      BY <3>1 DEF new
    <3> QED
      BY <1>1, <3>3, <3>4, OriginalGoesOn
  <2>3. CASE DropElement(p, g)
    <3>1. PICK new \in Drop(o, g) : store' = [store EXCEPT ![Original] = new]
      BY <1>3, <2>3 DEF DropElement, LocalWrite
    <3>2. Advances(o, new) /\ Drops(o, new)
      <4>1. g \in Live(o)
        BY <1>3, <2>3 DEF DropElement
      <4> QED
        BY <2>1, <3>1, <4>1, Dropped
    <3>3. /\ Origin(new) /\ Aged(o, new)
          /\ \A h \in Gid : Follows(StageOf(o, h), StageOf(new, h))
      BY <2>1, <3>2, DroppedOrigin DEF Advances
    <3> QED
      BY <1>1, <3>1, <3>3, OriginalGoesOn
  <2> QED
    BY <2>2, <2>3
<1> QED
  BY <1>2, <1>3

\* A step of another worker's target, or of the copy with what is on its way.
LEMMA CopyGoesOn ==
    ASSUME Mirrored, Sane, MirrorInv, NEW w \in Worker, NEW new,
           store' = [store EXCEPT ![Target[w]] = new],
           \A v \in Worker \ {w} : pass'[v] = pass[v],
           Target[w] = Copied =>
               /\ Copy(store[Original], new) /\ OnWay(store[Original], new, pass'[w])
               /\ \A g \in Element : /\ Follows(StageOf(store[Copied], g), StageOf(new, g))
                                     /\ Follows(StageOf(new, g), StageOf(store[Original], g))
    PROVE  MirrorInv' /\ (WritesOn \/ CatchesUp)
<1>1. store \in [Peer -> Store] /\ Original \in Peer /\ Copied \in Peer /\ Target[w] \in Peer
  BY ReplicationAssumption, MirrorAssumption DEF Sane, Graphs
<1>2. store'[Original] = store[Original]
  BY <1>1 DEF Mirrored
<1>3. CASE Target[w] = Copied
  <2>1. store'[Copied] = new
    BY <1>1, <1>3
  <2>2. \A v \in Worker : Target[v] = Copied => v = w
    BY <1>3 DEF Mirrored
  <2>3. MirrorInv'
    BY <1>2, <1>3, <2>1, <2>2 DEF MirrorInv
  <2>4. CatchesUp
    BY <1>2, <1>3, <2>1 DEF CatchesUp
  <2> QED
    BY <2>3, <2>4
<1>4. CASE Target[w] # Copied
  <2>1. store'[Copied] = store[Copied]
    BY <1>1, <1>4
  <2>2. \A v \in Worker : Target[v] = Copied => pass'[v] = pass[v]
    BY <1>4
  <2> QED
    BY <1>2, <2>1, <2>2, MirrorsStay DEF MirrorInv
<1> QED
  BY <1>3, <1>4

LEMMA GraftMirrors ==
    ASSUME Mirrored, Sane, MirrorInv, NEW w \in Worker, NEW e \in EGid, NEW x \in Content,
           Graft(w, e, x)
    PROVE  MirrorInv' /\ (WritesOn \/ CatchesUp)
<1> DEFINE c == store[Target[w]]
           mid == Write(c, e, x)
           new == SetWeak(mid, mid.weak \cup {e})
<1>1. store' = [store EXCEPT ![Target[w]] = new] /\ pass' = pass
  BY Zenon DEF Graft, SetWeak
<1>2. ASSUME Target[w] = Copied
      PROVE  /\ Copy(store[Original], new) /\ OnWay(store[Original], new, pass'[w])
             /\ \A g \in Element : /\ Follows(StageOf(store[Copied], g), StageOf(new, g))
                                   /\ Follows(StageOf(new, g), StageOf(store[Original], g))
  <2>1. /\ Copy(store[Original], c) /\ OnWay(store[Original], c, pass[w])
        /\ Origin(store[Original])
    BY <1>2 DEF MirrorInv
  <2>2. e \in Placed /\ e \notin Live(c) \cup Buried(c) /\ Ends(e) \subseteq Live(c)
    BY ReplicationAssumption DEF Graft, Unseen
  <2>3. /\ Copy(store[Original], new) /\ OnWay(store[Original], new, pass[w])
        /\ \A g \in Element : StageOf(new, g) = StageOf(c, g)
    BY <2>1, <2>2, GraftedCopy
  <2> HIDE DEF new
  <2>4. \A g \in Element : Follows(StageOf(new, g), StageOf(store[Original], g))
    BY <2>1, <2>3, NotAhead
  <2> QED
    BY <1>1, <1>2, <2>3, <2>4 DEF Follows
<1> HIDE DEF new
<1> QED
  BY <1>1, <1>2, CopyGoesOn

LEMMA LandMirrors ==
    ASSUME Mirrored, Sane, MirrorInv, NEW w \in Worker,
           NEW docs \in SUBSET Leaf, IsFiniteSet(docs), NEW dels \in Seq(Leaf), NEW rest,
           Land(w, docs, dels, rest),
           Target[w] = Copied =>
              /\ rest = {}
              /\ \A d \in docs :
                    /\ d.gid \notin Placed /\ d.gid \notin Buried(store[Copied])
                    /\ d.gid \notin Gids(ToSet(dels)) /\ Past(store[Original], d.gid, d.rev)
                    /\ d.gid \in Live(store[Copied]) =>
                          DescendsFrom(d.rev, store[Copied].live[d.gid].rev)
              /\ \A d \in ToSet(dels) : \E t \in store[Original].tombs : t.gid = d.gid /\ t.rev = d.rev
    PROVE  MirrorInv' /\ (WritesOn \/ CatchesUp)
<1> DEFINE o == store[Original]
           c == store[Target[w]]
           call == AfterGet(Emptied(pass[w], rest))
           n == At(Emptied(pass[w], rest), call)
<1>1. PICK new \in ApplyWire(c, docs, dels) : store' = [store EXCEPT ![Target[w]] = new]
  BY DEF Land
<1>2. Sound(c) /\ pass \in [Worker -> Message]
  BY ReplicationAssumption DEF Sane, Graphs, Passes
<1>3. pass' = [pass EXCEPT ![w] = n]
  BY Zenon DEF Land, Continue, Emptied, At
<1>4. n = At(Emptied(pass[w], rest), call)
  OBVIOUS
<1> HIDE DEF n, call
<1>5. n.docs = {} /\ n.losers = rest /\ n.deletes = None
  BY <1>2, <1>4, TurnedEmpty
<1>6. pass'[w] = n /\ \A v \in Worker \ {w} : pass'[v] = pass[v]
  BY <1>2, <1>3
<1>7. Sound(new) /\ \E acc \in SUBSET docs, S \in SUBSET Live(c) : Moves(c, docs, dels, acc, S, new)
  BY <1>1, <1>2, Applied DEF Advances
<1>8. ASSUME Target[w] = Copied
      PROVE  /\ Copy(o, new) /\ OnWay(o, new, pass'[w])
             /\ \A g \in Element : /\ Follows(StageOf(store[Copied], g), StageOf(new, g))
                                   /\ Follows(StageOf(new, g), StageOf(o, g))
  <2>1. Copy(o, c) /\ Origin(o) /\ c = store[Copied]
    BY <1>8 DEF MirrorInv
  <2>2. PICK acc \in SUBSET docs, S \in SUBSET Live(c) : Moves(c, docs, dels, acc, S, new)
    BY <1>7
  <2>3. OnWay(o, new, pass'[w])
    BY <1>5, <1>6, <1>8, EmptyOnWay
  <2>4. /\ Copy(o, new)
        /\ \A g \in Element : /\ Follows(StageOf(c, g), StageOf(new, g))
                              /\ Follows(StageOf(new, g), StageOf(o, g))
    <3>1. \A d \in docs :
              /\ d.gid \notin Placed /\ d.gid \notin Buried(c) /\ d.gid \notin Gids(ToSet(dels))
              /\ Past(o, d.gid, d.rev)
              /\ d.gid \in Live(c) => DescendsFrom(d.rev, c.live[d.gid].rev)
      BY <1>8
    <3>2. \A d \in ToSet(dels) : \E t \in o.tombs : t.gid = d.gid /\ t.rev = d.rev
      BY <1>8
    <3> HIDE DEF o, c
    <3> QED
      BY <1>7, <2>1, <2>2, <3>1, <3>2, LandedCopy
  <2> QED
    BY <2>1, <2>3, <2>4
<1> QED
  BY <1>1, <1>6, <1>8, CopyGoesOn

LEMMA MirrorStep ==
    ASSUME Mirrored, Sane, MirrorInv, [Next]_vars
    PROVE  MirrorInv' /\ (WritesOn \/ CatchesUp)
<1>1. ASSUME NEW p \in Peer, NEW g \in Gid,
             (\E c \in Content : Create(p, g, c) \/ Edit(p, g, c)) \/ DropElement(p, g)
      PROVE  MirrorInv' /\ (WritesOn \/ CatchesUp)
  BY <1>1, LocalMirrors
<1>2. ASSUME NEW w \in Worker, NEW e \in EGid, NEW x \in Content, Graft(w, e, x)
      PROVE  MirrorInv' /\ (WritesOn \/ CatchesUp)
  BY <1>2, GraftMirrors
<1>3. ASSUME NEW w \in Worker,
             Changes(w) \/ AskMissing(w) \/ Fetch(w) \/ AskLosers(w) \/ FetchLosers(w)
      PROVE  MirrorInv' /\ (WritesOn \/ CatchesUp)
  <2>1. store' = store
    BY <1>3 DEF Changes, AskMissing, Fetch, AskLosers, FetchLosers
  <2>2. \A v \in Worker \ {w} : pass'[v] = pass[v]
    <3>1. \E m, call : Continue(w, m, call)
      BY <1>3, Zenon DEF Changes, AskMissing, Fetch, AskLosers, FetchLosers
    <3> QED
      BY <3>1 DEF Continue, Sane, Passes
  <2>3. Target[w] = Copied => OnWay(store[Original], store[Copied], pass'[w])
    <3> SUFFICES ASSUME Target[w] = Copied
                 PROVE  OnWay(store[Original], store[Copied], pass'[w])
      OBVIOUS
    <3>1. Source[w] = Original
      BY DEF Mirrored
    <3>2. /\ Origin(store[Source[w]]) /\ Copy(store[Source[w]], store[Target[w]])
          /\ OnWay(store[Source[w]], store[Target[w]], pass[w])
      BY <3>1 DEF MirrorInv
    <3>3. OnWay(store[Source[w]], store[Target[w]], pass'[w])
      BY <1>3, <3>2, MirrorReads
    <3> QED
      BY <3>1, <3>3
  <2>4. \A v \in Worker : Target[v] = Copied => OnWay(store[Original], store[Copied], pass'[v])
    BY <2>2, <2>3 DEF MirrorInv
  <2> QED
    BY <2>1, <2>4, MirrorsStay
<1>4. ASSUME NEW w \in Worker, Apply(w) \/ ApplyLosers(w)
      PROVE  MirrorInv' /\ (WritesOn \/ CatchesUp)
  <2>1. /\ pass[w].docs \in SUBSET Leaf /\ IsFiniteSet(pass[w].docs)
        /\ pass[w].losers \in SUBSET Leaf /\ IsFiniteSet(pass[w].losers)
        /\ pass[w].deletes \in Seq(Leaf)
    BY AsParcel DEF Sane, Passes, Carried
  <2>2. Target[w] = Copied => OnWay(store[Original], store[Copied], pass[w])
    BY DEF MirrorInv
  <2>3. CASE Apply(w)
    <3>1. Land(w, pass[w].docs, pass[w].deletes, pass[w].losers)
      BY <2>3 DEF Apply
    <3> QED
      BY <2>1, <2>2, <3>1, LandMirrors DEF OnWay
  <2>4. CASE ApplyLosers(w)
    <3> DEFINE nothing == {}
    <3>1. Land(w, pass[w].losers, None, nothing)
      BY <2>4 DEF ApplyLosers, None
    <3>2. None \in Seq(Leaf) /\ ToSet(None) = {}
      BY IdleIs DEF None, ToSet
    <3>3. nothing = {}
      OBVIOUS
    <3> HIDE DEF nothing
    <3>4. Target[w] = Copied => pass[w].losers = {}
      BY <2>2 DEF OnWay
    <3> QED
      BY <2>1, <3>1, <3>2, <3>3, <3>4, LandMirrors
  <2> QED
    BY <1>4, <2>3, <2>4
<1>5. ASSUME NEW w \in Worker, WriteCheckpoint(w) \/ Reject(w) \/ Abort(w)
      PROVE  MirrorInv' /\ (WritesOn \/ CatchesUp)
  <2>1. store' = store /\ pass' = [pass EXCEPT ![w] = Idle]
    BY <1>5 DEF WriteCheckpoint, Reject, Abort
  <2>2. Idle.docs = {} /\ Idle.losers = {} /\ Idle.deletes = None
    BY IdleIs, OfParcel
  <2>3. \A v \in Worker : pass'[v] = pass[v] \/ pass'[v] = Idle
    BY <2>1 DEF Sane, Passes
  <2>4. OnWay(store[Original], store[Copied], Idle)
    BY <2>2, EmptyOnWay
  <2>5. \A v \in Worker : Target[v] = Copied => OnWay(store[Original], store[Copied], pass'[v])
    BY <2>3, <2>4 DEF MirrorInv
  <2> QED
    BY <2>1, <2>5, MirrorsStay
<1>6. CASE UNCHANGED vars
  BY <1>6, MirrorsStay DEF vars, MirrorInv
<1> QED
  BY <1>1, <1>2, <1>3, <1>4, <1>5, <1>6, Zenon DEF Next, Advance

\* The copy lags behind the original and never leads it.
LEMMA AlwaysMirrors == Mirrored => (Spec => []MirrorInv)
<1> SUFFICES ASSUME Mirrored
             PROVE  Spec => []MirrorInv
  OBVIOUS
<1>1. Init => MirrorInv
  BY EmptyMirrors
<1>2. Sane /\ MirrorInv /\ [Next]_vars => MirrorInv'
  BY MirrorStep
<1> QED
  BY <1>1, <1>2, AlwaysSane, PTL DEF Spec

\* runReplicationPass, applyWire: a graph nobody writes to, filled by one
\* worker, goes through stages its original has been through, in their order,
\* and is never ahead of it; neither an older revision nor a deleted element
\* comes back, whatever is written during a pass, cut short or repeated.
THEOREM MirrorFollows == Mirrored => (Spec => ImplementsMirror)
<1> SUFFICES ASSUME Mirrored
             PROVE  Spec => ImplementsMirror
  OBVIOUS
<1> DEFINE original == [g \in Element |-> StageOf(store[Original], g)]
           copy == [g \in Element |-> StageOf(store[Copied], g)]
<1>1. Init => Abstract!Init
  BY EmptyMirrors DEF Abstract!Init
<1>2. ASSUME Sane, Sane', MirrorInv, [Next]_vars
      PROVE  [Abstract!Next]_<<original, copy>>
  <2>1. WritesOn \/ CatchesUp
    BY <1>2, MirrorStep
  <2>2. \A g \in Element : /\ StageOf(store'[Original], g) \in Abstract!Stage
                           /\ StageOf(store'[Copied], g) \in Abstract!Stage
    BY <1>2, MirrorAssumption, Staged DEF Sane, Graphs, Element
  <2>3. ASSUME WritesOn
        PROVE  Abstract!Write
    BY <2>2, <2>3, InOrder DEF WritesOn, Abstract!Write
  <2>4. ASSUME CatchesUp
        PROVE  Abstract!CatchUp
    BY <2>2, <2>4, InOrder DEF CatchesUp, Abstract!CatchUp
  <2> QED
    BY <2>1, <2>3, <2>4 DEF Abstract!Next
<1> QED
  BY <1>1, <1>2, AlwaysMirrors, AlwaysSane, PTL DEF Spec, ImplementsMirror, Abstract!Spec

\* applyDeletes, applyChangeSet: a graph and its mirror never show an edge
\* without both its ends, although elements are dropped while passes run.
THEOREM NoEndMissing == Mirrored /\ Peer = {Original, Copied} => (Spec => []NoDangling)
<1> SUFFICES ASSUME Mirrored, Peer = {Original, Copied}
             PROVE  Spec => []NoDangling
  OBVIOUS
<1>1. MirrorInv => NoDangling
  BY DEF MirrorInv, Origin, Copy, Attached, NoDangling
<1> QED
  BY <1>1, AlwaysMirrors, PTL

\* classifyWire, resurrect, shadowDelete: with ancestries that reach past the
\* leaf, a graph and its mirror lose no version they held.
THEOREM MirrorKeepsVersions ==
    ASSUME RevsLimit > 1
    PROVE  Mirrored /\ Peer = {Original, Copied} => (Spec => NeverLosesAVersion)
BY NoEndMissing, VersionsKept, PTL

-----------------------------------------------------------------------------
\* A mirror fed unpaged and unfiltered.

\* The copy shows what the original does of every change up to a seq.
Level(o, c, n) ==
    /\ \A g \in Live(o) : o.live[g].seq <= n => g \in Live(c) /\ c.live[g].rev = o.live[g].rev
    /\ \A t \in o.tombs : t.seq <= n => t.gid \notin Live(c)

\* A vertex deleted up to a seq took its edges with it by then.  A page may
\* end between the vertex's tombstone and its edges', so this asks for no paging.
EndsLast(o, n) ==
    \A t \in o.tombs : t.seq <= n =>
        \A e \in EGid \ Placed : t.gid \in Ends(e) /\ e \in Live(o) \cup Buried(o) =>
            \E u \in o.tombs : u.gid = e /\ u.seq <= n

\* What a pass has read past is on the copy or on its way to it, and an edge
\* on its way finds its ends there or travels with them.
Carries(o, c, m) ==
    /\ m.last_seq <= o.counter
    /\ \A g \in Live(o) : o.live[g].seq <= m.last_seq =>
          \/ g \in Live(c) /\ c.live[g].rev = o.live[g].rev
          \/ \E d \in m.docs : d.gid = g /\ d.rev = o.live[g].rev
    /\ \A t \in o.tombs : t.seq <= m.last_seq =>
          /\ t.gid \notin Gids(m.docs)
          /\ t.gid \in Live(c) => t.gid \in Gids(ToSet(m.deletes))
    /\ EndsLast(o, m.last_seq)
    /\ \A e \in Gids(m.docs) \cap EGid :
          /\ Ends(e) \subseteq Live(c) \cup Gids(m.docs)
          /\ Ends(e) \cap Gids(ToSet(m.deletes)) = {}

MirrorCalls == {"changes", "revsDiff", "bulkGet", "bulkDocs", "checkpoint"}

\* A pass and its checkpoint k.
Laden(o, c, m, k) ==
    /\ Level(o, c, k) /\ k <= o.counter
    /\ m.call \in MirrorCalls
    /\ m.call # "changes" => Carries(o, c, m) /\ k <= m.last_seq
    /\ m.call = "checkpoint" => m.docs = {} /\ m.deletes = None

\* What a write leaves to a pass that has read up to some seq before it.
Grown(o, new) ==
    /\ o.counter <= new.counter /\ Settled(o, new)
    /\ o.tombs \subseteq new.tombs
    /\ \A t \in new.tombs \ o.tombs : t.seq > o.counter
    /\ \A e \in EGid \cap (Live(new) \cup Buried(new)) :
          e \in Live(o) \cup Buried(o) \/ Ends(e) \subseteq Live(o)

LEMMA Antisymmetric ==
    ASSUME NEW a \in Rev, NEW b \in Rev, DescendsFrom(a, b), DescendsFrom(b, a)
    PROVE  a = b
<1>1. /\ a \in Seq(Content) /\ b \in Seq(Content) /\ Len(a) \in Nat /\ Len(b) \in Nat
  BY DEF Rev
<1>2. PICK n \in 1 .. Len(a) : b = SubSeq(a, 1, n)
  BY DEF DescendsFrom, Ids
<1>3. Len(a) = Len(b)
  BY <1>1 DEF DescendsFrom, Gen
<1>4. Len(b) = n
  BY <1>1, <1>2
<1> QED
  BY <1>1, <1>2, <1>3, <1>4, SubSeqFull

LEMMA GrownLaden ==
    ASSUME NEW o, Sound(o), NEW new, Sound(new), Grown(o, new), NEW c, NEW m \in Message,
           NEW k \in Nat, Laden(o, c, m, k)
    PROVE  Laden(new, c, m, k)
<1>1. /\ o.counter \in Nat /\ new.counter \in Nat /\ m.last_seq \in Nat
      /\ \A g \in Live(new) : new.live[g].seq \in Nat
      /\ \A t \in new.tombs : t.seq \in Nat
  BY Typed DEF Sound, Message, Live
<1>2. ASSUME NEW n \in Nat, n <= o.counter
      PROVE  /\ n <= new.counter
             /\ \A g \in Live(new) : new.live[g].seq <= n =>
                   g \in Live(o) /\ new.live[g] = o.live[g]
             /\ \A t \in new.tombs : t.seq <= n => t \in o.tombs
  BY <1>1, <1>2 DEF Grown, Settled
<1>3. Level(new, c, k) /\ k <= new.counter
  BY <1>2 DEF Laden, Level
<1>4. ASSUME Carries(o, c, m)
      PROVE  Carries(new, c, m)
  <2> DEFINE n == m.last_seq
  <2>1. n \in Nat /\ n <= o.counter
    BY <1>1, <1>4 DEF Carries
  <2>2. EndsLast(new, n)
    <3> SUFFICES ASSUME NEW t \in new.tombs, t.seq <= n, NEW e \in EGid \ Placed,
                        t.gid \in Ends(e), e \in Live(new) \cup Buried(new)
                 PROVE  \E u \in new.tombs : u.gid = e /\ u.seq <= n
      BY DEF EndsLast
    <3>1. t \in o.tombs
      BY <1>2, <2>1
    <3>2. t.gid \notin Live(o)
      BY <3>1 DEF Sound, Exclusive, Buried
    <3>3. e \in Live(o) \cup Buried(o)
      BY <3>2 DEF Grown
    <3>4. EndsLast(o, n)
      BY <1>4 DEF Carries
    <3>5. PICK u \in o.tombs : u.gid = e /\ u.seq <= n
      BY <3>1, <3>3, <3>4 DEF EndsLast
    <3> QED
      BY <3>5 DEF Grown
  <2>3. /\ \A g \in Live(new) : new.live[g].seq <= n =>
             \/ g \in Live(c) /\ c.live[g].rev = new.live[g].rev
             \/ \E d \in m.docs : d.gid = g /\ d.rev = new.live[g].rev
        /\ \A t \in new.tombs : t.seq <= n =>
             /\ t.gid \notin Gids(m.docs)
             /\ t.gid \in Live(c) => t.gid \in Gids(ToSet(m.deletes))
    BY <1>2, <1>4, <2>1 DEF Carries
  <2> QED
    BY <1>2, <1>4, <2>1, <2>2, <2>3 DEF Carries
<1> QED
  BY <1>3, <1>4 DEF Laden

LEMMA WrittenGrown ==
    ASSUME NEW st, Sound(st), NEW g \in Gid \ Buried(st), NEW c \in Content,
           g \in EGid => Ends(g) \subseteq Live(st)
    PROVE  Grown(st, Write(st, g, c))
<1> DEFINE new == Write(st, g, c)
<1>1. /\ Live(new) = Live(st) \cup {g} /\ new.tombs = st.tombs
      /\ Settled(st, new) /\ new.counter >= st.counter
  BY Wrote, WriteAdvances DEF Advances
<1> HIDE DEF new
<1>2. Buried(new) = Buried(st)
  BY <1>1 DEF Buried
<1>4. Grown(st, new)
  BY <1>1, <1>2 DEF Grown
<1> QED
  BY <1>4 DEF new

LEMMA DroppedGrown ==
    ASSUME NEW st, Sound(st), NEW new, Advances(st, new), Drops(st, new)
    PROVE  Grown(st, new)
<1>1. PICK S \in SUBSET Live(st) :
        /\ Live(new) = Live(st) \ S
        /\ st.tombs \subseteq new.tombs
        /\ \A t \in new.tombs \ st.tombs : t.gid \in S /\ t.seq > st.counter
  BY DEF Drops
<1>2. \A g \in Buried(new) : g \in Live(st) \cup Buried(st)
  BY <1>1 DEF Buried
<1> QED
  BY <1>1, <1>2 DEF Grown, Advances

\* A body under way that the copy shows a descendant of is what it shows.
LEMMA Overtaken ==
    ASSUME NEW c, Sound(c), NEW d \in Leaf, d.gid \in Live(c),
           DescendsFrom(d.rev, c.live[d.gid].rev), DescendsFrom(c.live[d.gid].rev, d.rev)
    PROVE  c.live[d.gid].rev = d.rev
<1>1. c.live[d.gid].rev \in Rev /\ d.rev \in Rev
  BY LiveRevs DEF Leaf
<1> QED
  BY <1>1, Antisymmetric

\* The feed carries all that is past the checkpoint.
LEMMA OfferedCarries ==
    ASSUME NEW o, Origin(o), NEW c, NEW k \in Nat, Level(o, c, k), NEW m \in Message,
           m.last_seq = o.counter,
           \A t \in o.tombs : t.seq > k /\ t.seq <= m.last_seq => t.gid \in Gids(ToSet(m.deletes)),
           \A g \in Live(o) : o.live[g].seq > k /\ o.live[g].seq <= m.last_seq =>
                 \E d \in m.docs : d.gid = g /\ d.rev = o.live[g].rev,
           \A d \in m.docs : d.gid \in Live(o) /\ d.rev = o.live[d.gid].rev,
           \A d \in ToSet(m.deletes) : \E t \in o.tombs : t.gid = d.gid /\ t.rev = d.rev
    PROVE  Carries(o, c, m)
<1>1. /\ Attached(o) /\ Sound(o) /\ o.counter \in Nat
      /\ \A g \in Live(o) : g \notin Buried(o) /\ o.live[g].seq \in 1 .. o.counter
      /\ \A t \in o.tombs : t.seq \in 1 .. o.counter
  BY Typed DEF Origin, Sound, Numbered, Exclusive
<1>2. /\ Gids(m.docs) \subseteq Live(o) /\ Gids(ToSet(m.deletes)) \subseteq Buried(o)
      /\ \A d \in m.docs : d.gid \in Gids(m.docs)
  BY DEF Gids, Buried
<1>3. \A g \in Live(o) : \/ g \in Live(c) /\ c.live[g].rev = o.live[g].rev
                         \/ \E d \in m.docs : d.gid = g /\ d.rev = o.live[g].rev
  BY <1>1 DEF Level
<1>4. ASSUME NEW t \in o.tombs, t.seq <= m.last_seq
      PROVE  /\ t.gid \notin Gids(m.docs)
             /\ t.gid \in Live(c) => t.gid \in Gids(ToSet(m.deletes))
  <2>1. t.gid \in Buried(o)
    BY DEF Buried
  <2> QED
    BY <1>1, <1>2, <1>4, <2>1 DEF Level
<1>5. EndsLast(o, m.last_seq)
  <2> SUFFICES ASSUME NEW t \in o.tombs, NEW e \in EGid \ Placed,
                      t.gid \in Ends(e), e \in Live(o) \cup Buried(o)
               PROVE  \E u \in o.tombs : u.gid = e /\ u.seq <= m.last_seq
    BY DEF EndsLast
  <2>1. t.gid \in Buried(o)
    BY DEF Buried
  <2>2. e \in Buried(o)
    BY <1>1, <2>1 DEF Attached
  <2> QED
    BY <1>1, <2>2 DEF Buried
<1>6. ASSUME NEW e \in Gids(m.docs) \cap EGid
      PROVE  /\ Ends(e) \subseteq Live(c) \cup Gids(m.docs)
             /\ Ends(e) \cap Gids(ToSet(m.deletes)) = {}
  <2>1. Ends(e) \subseteq Live(o)
    BY <1>1, <1>2 DEF Attached
  <2>2. \A g \in Live(o) : g \in Live(c) \cup Gids(m.docs)
    BY <1>2, <1>3
  <2> QED
    BY <1>1, <1>2, <2>1, <2>2
<1> QED
  BY <1>1, <1>3, <1>4, <1>5, <1>6 DEF Carries

\* Bodies the copy has, or has something newer for, may be left behind.
LEMMA AskedCarries ==
    ASSUME NEW o, NEW c, Sound(c), NEW m \in Message, Carries(o, c, m), OnWay(o, c, m),
           NEW n, n.deletes = m.deletes, n.last_seq = m.last_seq, n.docs \subseteq m.docs,
           \A d \in m.docs \ n.docs : \/ d.gid \in Live(c) /\ DescendsFrom(c.live[d.gid].rev, d.rev)
                                      \/ d.gid \in Buried(c)
    PROVE  Carries(o, c, n)
<1>1. \A d \in m.docs \ n.docs : d.gid \in Live(c) /\ c.live[d.gid].rev = d.rev
  <2> SUFFICES ASSUME NEW d \in m.docs \ n.docs
               PROVE  d.gid \in Live(c) /\ c.live[d.gid].rev = d.rev
    OBVIOUS
  <2>1. d \in Leaf
    BY AsParcel
  <2>2. d.gid \in Live(c) /\ DescendsFrom(c.live[d.gid].rev, d.rev)
    BY DEF OnWay
  <2>3. DescendsFrom(d.rev, c.live[d.gid].rev)
    BY <2>2 DEF OnWay
  <2> QED
    BY <2>1, <2>2, <2>3, Overtaken
<1>2. Gids(n.docs) \subseteq Gids(m.docs) /\ Gids(m.docs) \subseteq Gids(n.docs) \cup Live(c)
  BY <1>1 DEF Gids
<1> QED
  BY <1>1, <1>2 DEF Carries

\* The bodies are of the rows as they are when they are read.
LEMMA FetchedCarries ==
    ASSUME NEW o, Attached(o), NEW c, NEW m \in Message, Carries(o, c, m),
           NEW n, n.deletes = m.deletes, n.last_seq = m.last_seq,
           \A d \in n.docs : d.gid \in Gids(m.docs) \cap Live(o),
           \A g \in Gids(m.docs) \cap Live(o) : (g \in EGid => Ends(g) \subseteq Live(o)) =>
                \E d \in n.docs : d.gid = g /\ d.rev = o.live[g].rev
    PROVE  Carries(o, c, n)
<1>1. \A g \in Gids(m.docs) \cap Live(o) : \E d \in n.docs : d.gid = g /\ d.rev = o.live[g].rev
  BY DEF Attached
<1>2. /\ Gids(n.docs) \subseteq Gids(m.docs) \cap Live(o)
      /\ Gids(m.docs) \cap Live(o) \subseteq Gids(n.docs)
      /\ \A d \in m.docs : d.gid \in Gids(m.docs)
  BY <1>1 DEF Gids
<1>3. \A e \in Gids(n.docs) \cap EGid : Ends(e) \subseteq Live(o)
  BY <1>2 DEF Attached
<1>4. \A g \in Live(o) : o.live[g].seq <= n.last_seq =>
          \/ g \in Live(c) /\ c.live[g].rev = o.live[g].rev
          \/ \E d \in n.docs : d.gid = g /\ d.rev = o.live[g].rev
  BY <1>1, <1>2 DEF Carries
<1> QED
  BY <1>2, <1>3, <1>4 DEF Carries

\* A delete under way finds nothing to refuse it.
LEMMA Admitted ==
    ASSUME NEW o, Origin(o), NEW c, Copy(o, c), NEW m \in Message, OnWay(o, c, m), Carries(o, c, m),
           Live(c) \cap Placed \subseteq c.weak,
           NEW t \in o.tombs, t.seq <= m.last_seq, t.gid \in Live(c)
    PROVE  t.gid \in Gids(ToSet(m.deletes)) /\ Admits(c, m.deletes, t.gid)
<1>1. t.gid \in Gids(ToSet(m.deletes))
  BY DEF Carries
<1>2. \A d \in ToSet(m.deletes) : d.gid = t.gid => DescendsFrom(d.rev, c.live[t.gid].rev)
  BY DeletesNewer DEF OnWay
<1>3. ASSUME NEW e \in EGid \cap Live(c), t.gid \in Ends(e)
      PROVE  e \in c.weak \cup Gids(ToSet(m.deletes))
  <2>1. CASE e \in Placed
    BY <2>1
  <2>2. CASE e \notin Placed
    <3>1. e \in Live(o) \cup Buried(o)
      BY <2>2 DEF Copy, Past, Buried
    <3>2. PICK u \in o.tombs : u.gid = e /\ u.seq <= m.last_seq
      BY <1>3, <2>2, <3>1 DEF Carries, EndsLast
    <3> QED
      BY <3>2 DEF Carries
  <2> QED
    BY <2>1, <2>2
<1> QED
  BY <1>1, <1>2, <1>3 DEF Admits

\* Once a batch is down the copy is level with the original up to where the
\* pass read.
LEMMA LandedLevel ==
    ASSUME NEW o, Origin(o), NEW c, Copy(o, c), NEW m \in Message, Unique(m.docs),
           OnWay(o, c, m), Carries(o, c, m), Live(c) \cap Placed \subseteq c.weak,
           NEW acc \in SUBSET m.docs, NEW S \in SUBSET Live(c), NEW new,
           Moves(c, m.docs, m.deletes, acc, S, new)
    PROVE  Level(o, new, m.last_seq) /\ Live(new) \cap Placed \subseteq new.weak
<1>1. /\ Live(new) = (Live(c) \ S) \cup Gids(acc)
      /\ \A d \in acc : Accepts(c, d) /\ new.live[d.gid].rev = d.rev
      /\ \A d \in m.docs : Accepts(c, d) => d.gid \in Gids(acc)
      /\ \A g \in Gid \ (S \cup Gids(acc)) : new.live[g] = c.live[g]
      /\ S \subseteq Gids(ToSet(m.deletes)) \cup c.weak
      /\ \A g \in Gids(ToSet(m.deletes)) \cap Live(c) : Admits(c, m.deletes, g) => g \in S
      /\ new.weak = c.weak \ (S \cup Gids(acc))
  BY DEF Moves
<1>2. /\ Sound(c) /\ c.weak \subseteq Placed /\ Live(c) \subseteq Gid
      /\ Live(o) \cap (Placed \cup Buried(o)) = {}
      /\ Gids(ToSet(m.deletes)) \subseteq Buried(o)
      /\ \A d \in m.docs : d \in Leaf /\ d.gid \notin Placed
      /\ \A g \in Live(o) : o.live[g].rev \in Rev
  <2>1. Gids(ToSet(m.deletes)) \subseteq Buried(o)
    BY DeletesNewer DEF OnWay
  <2>2. \A d \in m.docs : d \in Leaf /\ d.gid \notin Placed
    BY AsParcel DEF OnWay
  <2>3. \A g \in Live(o) : o.live[g].rev \in Rev
    BY LiveRevs DEF Origin
  <2> QED
    BY <2>1, <2>2, <2>3 DEF Copy, Origin, Sound, Exclusive, Live
<1>3. \A g \in Gids(acc) : \E d \in acc : d.gid = g
  BY DEF Gids
<1>4. ASSUME NEW g \in Live(o), o.live[g].seq <= m.last_seq
      PROVE  g \in Live(new) /\ new.live[g].rev = o.live[g].rev
  <2>1. g \notin S
    BY <1>1, <1>2
  <2>2. CASE g \in Gids(acc)
    <3>1. PICK d \in acc : d.gid = g
      BY <1>3, <2>2
    <3>2. d.rev = o.live[g].rev
      <4>1. CASE g \in Live(c) /\ c.live[g].rev = o.live[g].rev
        <5>1. DescendsFrom(d.rev, c.live[g].rev)
          BY <3>1, <4>1 DEF OnWay
        <5>2. DescendsFrom(c.live[g].rev, d.rev)
          BY <1>2, <3>1, <4>1 DEF OnWay, Past, Buried
        <5> QED
          BY <1>2, <3>1, <4>1, <5>1, <5>2, Overtaken
      <4>2. CASE \E b \in m.docs : b.gid = g /\ b.rev = o.live[g].rev
        BY <3>1, <4>2 DEF Unique
      <4> QED
        BY <1>4, <4>1, <4>2 DEF Carries
    <3> QED
      BY <1>1, <2>2, <3>1, <3>2
  <2>3. CASE g \notin Gids(acc)
    <3>1. g \in Live(c) /\ c.live[g].rev = o.live[g].rev
      <4> SUFFICES ASSUME NEW d \in m.docs, d.gid = g, d.rev = o.live[g].rev
                   PROVE  g \in Live(c) /\ c.live[g].rev = o.live[g].rev
        BY <1>4 DEF Carries
      <4>1. ~Accepts(c, d)
        BY <1>1, <2>3
      <4>2. d.gid \in Gid
        BY <1>2 DEF Leaf
      <4>3. d.gid \in Live(c)
        BY <4>1, <4>2 DEF Accepts, Live
      <4>4. DescendsFrom(d.rev, c.live[g].rev)
        BY <4>3 DEF OnWay
      <4> QED
        BY <4>1, <4>3, <4>4 DEF Accepts
    <3> QED
      BY <1>1, <1>2, <2>1, <2>3, <3>1
  <2> QED
    BY <2>2, <2>3
<1>5. ASSUME NEW t \in o.tombs, t.seq <= m.last_seq
      PROVE  t.gid \notin Live(new)
  <2>1. t.gid \notin Gids(m.docs) /\ Gids(acc) \subseteq Gids(m.docs)
    BY <1>5 DEF Carries, Gids
  <2>2. t.gid \in Live(c) => t.gid \in S
    BY <1>1, <1>5, Admitted
  <2> QED
    BY <1>1, <2>1, <2>2
<1>6. Live(new) \cap Placed \subseteq new.weak
  <2>1. Gids(acc) \cap Placed = {}
    BY <1>2, <1>3
  <2> QED
    BY <1>1, <2>1
<1> QED
  BY <1>4, <1>5, <1>6 DEF Level

\* A pass with nothing left to move.
LEMMA LevelCarries ==
    ASSUME NEW o, NEW c, NEW n, n.docs = {}, n.deletes = None
    PROVE  Carries(o, c, n) <=>
               Level(o, c, n.last_seq) /\ n.last_seq <= o.counter /\ EndsLast(o, n.last_seq)
<1>1. Gids(n.docs) = {} /\ Gids(ToSet(n.deletes)) = {}
  BY DEF Gids, None, ToSet
<1> QED
  BY <1>1 DEF Carries, Level

LEMMA LevelBelow ==
    ASSUME NEW o, Sound(o), NEW c, NEW n \in Nat, NEW k \in Nat, k <= n, Level(o, c, n)
    PROVE  Level(o, c, k)
<1>1. /\ \A g \in Live(o) : o.live[g].seq \in Nat
      /\ \A t \in o.tombs : t.seq \in Nat
  BY Typed DEF Sound, Live
<1> QED
  BY <1>1 DEF Level

\* A placement's graft is not of the original's elements.
LEMMA GraftedLevel ==
    ASSUME NEW o, Origin(o), NEW c, Sound(c), NEW e \in EGid \cap Placed, NEW x \in Content,
           Live(c) \cap Placed \subseteq c.weak, NEW k, Level(o, c, k)
    PROVE  LET mid == Write(c, e, x)
               new == SetWeak(mid, mid.weak \cup {e})
           IN  Level(o, new, k) /\ Live(new) \cap Placed \subseteq new.weak
<1> DEFINE mid == Write(c, e, x)
           weak == mid.weak \cup {e}
           new == SetWeak(mid, weak)
<1>1. e \in Gid
  BY DEF Gid
<1>2. /\ mid \in Store /\ mid.weak = c.weak /\ mid.live[e].rev \in Rev
      /\ \A h \in Gid \ {e} : mid.live[h] = c.live[h]
  BY <1>1, Wrote
<1> HIDE DEF mid
<1>3. weak \in SUBSET EGid
  BY <1>2, Typed
<1> HIDE DEF weak
<1>4. new = Tables(mid.live, weak, mid.tombs, mid.conflicts, mid.counter)
  BY <1>2, AssignedOne
<1> HIDE DEF new
<1>5. new.live = mid.live /\ new.weak = weak
  BY <1>2, <1>3, <1>4, Table, Typed
<1>6. Live(new) \ {e} = Live(c) \ {e} /\ \A g \in Gid \ {e} : new.live[g] = c.live[g]
  BY <1>2, <1>5 DEF Live
<1>7. e \notin Live(o) /\ e \notin Buried(o) /\ Live(o) \subseteq Gid
  BY DEF Origin, Live
<1>8. Level(o, new, k)
  BY <1>6, <1>7 DEF Level, Buried
<1>9. Live(new) \cap Placed \subseteq new.weak
  BY <1>2, <1>5, <1>6 DEF weak
<1> QED
  BY <1>8, <1>9 DEF new, weak, mid

\* There is an order to list a finite set in.
LEMMA Listable ==
    ASSUME NEW S, IsFiniteSet(S)
    PROVE  SetToSeqs(S) # {}
<1> DEFINE D == 1 .. Cardinality(S)
<1>1. ExistsBijection(D, S)
  BY FS_CardinalityType
<1>2. PICK f : f \in Bijection(D, S)
  BY <1>1 DEF ExistsBijection
<1>3. f \in [D -> S] /\ \A i, j \in D : i # j => f[i] # f[j]
  BY <1>2 DEF Bijection, Injection, IsInjective
<1> QED
  BY <1>3 DEF SetToSeqs

LEMMA RowsListable ==
    ASSUME NEW S, IsFiniteSet(S)
    PROVE  RowOrders(S) # {}
<1>1. IsFiniteSet(S \cap VGid) /\ IsFiniteSet(S \cap EGid)
  BY FS_Intersection
<1>2. PICK vs \in SetToSeqs(S \cap VGid) : TRUE
  BY <1>1, Listable
<1>3. PICK es \in SetToSeqs(S \cap EGid) : TRUE
  BY <1>1, Listable
<1>4. <<vs, es>> \in SetToSeqs(S \cap VGid) \X SetToSeqs(S \cap EGid)
  BY <1>2, <1>3
<1> QED
  BY <1>4 DEF RowOrders

\* A batch whose edges find their ends in the graph, undeleted, or travel with
\* them is applied.
LEMMA Appliable ==
    ASSUME NEW c, Sound(c), NEW docs \in SUBSET Leaf, IsFiniteSet(docs), Unique(docs),
           NEW dels \in Seq(Leaf),
           \A e \in Gids(docs) \cap EGid : /\ Ends(e) \subseteq Live(c) \cup Gids(docs)
                                           /\ Ends(e) \cap Gids(ToSet(dels)) = {}
    PROVE  ApplyWire(c, docs, dels) # {}
<1> DEFINE ok == {d \in docs : Accepts(c, d)}
           mid == ClassifyWire(c, docs)
<1>1. ok \in OnePerGid(ok) /\ IsFiniteSet(ok)
  <2>1. ok \in SUBSET docs
    OBVIOUS
  <2>2. IsFiniteSet(ok)
    BY <2>1, FS_Subset
  <2> QED
    BY <2>1, <2>2 DEF OnePerGid, Unique
<1>2. /\ mid \in Store /\ mid.live = c.live /\ mid.weak = c.weak
      /\ mid.tombs = c.tombs /\ mid.counter = c.counter /\ IsFiniteSet(mid.conflicts)
  BY Classified
<1> HIDE DEF mid
<1>3. Live(mid) = Live(c) /\ Buried(mid) = Buried(c)
  BY <1>2 DEF Live, Buried
<1>4. Sound(mid)
  BY <1>2, <1>3 DEF Sound, Numbered, Exclusive
<1>5. ApplyDeletes(mid, dels) # {}
  <2> DEFINE refused == Refusals(mid, dels)
             removed == (Gids(ToSet(dels)) \ Gids(refused)) \cap Live(mid)
             cascade == Incident(mid, removed \cap VGid) \cap mid.weak
  <2>1. cascade \subseteq Live(mid)
    BY DEF Incident
  <2>2. IsFiniteSet(Live(mid))
    BY <1>2, <1>4, FiniteFeed DEF Sound
  <2> HIDE DEF cascade
  <2>3. IsFiniteSet(cascade)
    BY <2>1, <2>2, FS_Subset
  <2>4. PICK order \in SetToSeqs(cascade) : TRUE
    BY <2>3, Listable
  <2> QED
    BY <2>4 DEF ApplyDeletes, cascade
<1>6. PICK cut \in ApplyDeletes(mid, dels) : TRUE
  BY <1>5
<1>7. PICK S \in SUBSET Live(mid) :
          /\ Live(cut.store) = Live(mid) \ S /\ S \subseteq Gids(ToSet(dels)) \cup mid.weak
  <2>1. PICK S \in SUBSET Live(mid) : CutFrom(mid, cut, S) /\ Takes(mid, dels, cut, S)
    BY <1>4, <1>6, DeletesApplied
  <2> QED
    BY <2>1 DEF CutFrom, Takes
<1>8. Resolves(cut.store, ok)
  <2> SUFFICES ASSUME NEW e \in Gids(ok) \cap EGid, NEW v \in Ends(e)
               PROVE  v \in Live(cut.store) \cup Gids(ok)
    BY DEF Resolves
  <2>1. e \in Gids(docs)
    BY DEF Gids
  <2>2. v \in VGid /\ v \in Gid /\ v \notin EGid
    BY GidAssumption DEF Ends, Gid
  <2>3. CASE v \in Live(c)
    <3>1. v \notin S
      BY <1>2, <1>7, <2>1, <2>2, Typed
    <3> QED
      BY <1>3, <1>7, <2>3, <3>1
  <2>4. CASE v \notin Live(c)
    <3>1. PICK d \in docs : d.gid = v
      BY <2>1, <2>4 DEF Gids
    <3>2. Accepts(c, d)
      BY <2>2, <2>4, <3>1 DEF Accepts, Live
    <3> QED
      BY <3>1, <3>2 DEF Gids
  <2> QED
    BY <2>3, <2>4
<1>9. Landings(cut, ok) # {}
  <2>1. IsFiniteSet(Gids(ok))
    BY <1>1, FiniteGids
  <2>2. PICK order \in RowOrders(Gids(ok)) : TRUE
    BY <2>1, RowsListable
  <2> QED
    BY <2>2 DEF Landings
<1>10. PICK new \in Landings(cut, ok) : TRUE
  BY <1>9
<1>11. new \in UNION {Landings(d, ok) : d \in {b \in ApplyDeletes(mid, dels) : Resolves(b.store, ok)}}
  BY <1>6, <1>8, <1>10
<1> HIDE DEF ok
<1>12. new \in UNION {UNION {Landings(d, a) : d \in {b \in ApplyDeletes(mid, dels) : Resolves(b.store, a)}} :
                          a \in OnePerGid(ok)}
  BY <1>1, <1>11
<1>13. new \in ApplyWire(c, docs, dels)
  BY <1>12, Zenon DEF ApplyWire, ok, mid
<1> QED
  BY <1>13

-----------------------------------------------------------------------------
\* A graph and its mirror alone, fed unpaged and unfiltered.

MirroredAlone ==
    /\ Mirrored /\ Peer = {Original, Copied}
    /\ \A w \in Worker : Limit[w] = 0 /\ Filter[w] = Unfiltered

Levelled ==
    /\ Live(store[Copied]) \cap Placed \subseteq store[Copied].weak
    /\ \A w \in Worker : Laden(store[Original], store[Copied], pass[w], checkpoint[Cursor[w]])

LEMMA TheWorker ==
    ASSUME MirroredAlone, NEW w \in Worker
    PROVE  Source[w] = Original /\ Target[w] = Copied /\ \A v \in Worker : v = w
<1>1. \A v \in Worker : Target[v] = Copied
  BY ReplicationAssumption DEF MirroredAlone, Mirrored
<1> QED
  BY <1>1 DEF MirroredAlone, Mirrored

LEMMA IdleLaden ==
    ASSUME NEW o, NEW c, NEW k, Level(o, c, k), k <= o.counter
    PROVE  Laden(o, c, Idle, k)
BY Idles DEF Laden, MirrorCalls

LEMMA LevelInit ==
    ASSUME Init
    PROVE  Levelled
<1>1. store[Original] = EmptyStore /\ store[Copied] = EmptyStore
  BY MirrorAssumption DEF Init
<1>2. Live(EmptyStore) = {} /\ EmptyStore.tombs = {} /\ EmptyStore.counter = 0
  BY DEF EmptyStore, Live, NoRow
<1>3. ASSUME NEW w \in Worker
      PROVE  Laden(EmptyStore, EmptyStore, pass[w], checkpoint[Cursor[w]])
  <2>1. pass[w] = Idle /\ checkpoint[Cursor[w]] = 0
    BY DEF Init
  <2>2. Level(EmptyStore, EmptyStore, 0)
    BY <1>2 DEF Level
  <2> QED
    BY <1>2, <2>1, <2>2, IdleLaden
<1> QED
  BY <1>1, <1>2, <1>3 DEF Levelled

LEMMA LocalLevels ==
    ASSUME MirroredAlone, Sane, MirrorInv, MirrorInv', Levelled, NEW p \in Peer, NEW g \in Gid,
           (\E c \in Content : Create(p, g, c) \/ Edit(p, g, c)) \/ DropElement(p, g)
    PROVE  Levelled'
<1> DEFINE o == store[Original]
           new == store'[Original]
<1>1. /\ p = Original /\ pass' = pass /\ checkpoint' = checkpoint /\ store \in [Peer -> Store]
      /\ Original \in Peer /\ Original # Copied
  BY ReplicationAssumption, MirrorAssumption
     DEF MirroredAlone, Mirrored, Create, Edit, DropElement, LocalWrite, Sane, Graphs
<1>2. Sound(o) /\ Sound(new)
  BY DEF MirrorInv, Origin
<1>3. Grown(o, new) /\ store'[Copied] = store[Copied]
  <2>1. ASSUME NEW c \in Content, Create(p, g, c) \/ Edit(p, g, c)
        PROVE  Grown(o, new) /\ store'[Copied] = store[Copied]
    <3>1. /\ store' = [store EXCEPT ![Original] = Write(o, g, c)]
          /\ g \in EGid => Ends(g) \subseteq Live(o)
      BY <1>1, <2>1 DEF Create, Edit, LocalWrite
    <3>2. g \notin Buried(o)
      BY <1>1, <1>2, <2>1 DEF Create, Unseen, Edit, Sound, Exclusive
    <3>3. Grown(o, Write(o, g, c))
      BY <1>2, <3>1, <3>2, WrittenGrown
    <3> QED
      BY <1>1, <3>1, <3>3
  <2>2. CASE DropElement(p, g)
    <3>1. PICK st \in Drop(o, g) : store' = [store EXCEPT ![Original] = st]
      BY <1>1, <2>2 DEF DropElement, LocalWrite
    <3>2. g \in Live(o)
      BY <1>1, <2>2 DEF DropElement
    <3>3. Grown(o, st)
      BY <1>2, <3>1, <3>2, Dropped, DroppedGrown
    <3> QED
      BY <1>1, <3>1, <3>3
  <2> QED
    BY <2>1, <2>2
<1> HIDE DEF o, new
<1>4. ASSUME NEW w \in Worker
      PROVE  Laden(new, store[Copied], pass[w], checkpoint[Cursor[w]])
  <2>1. /\ pass[w] \in Message /\ checkpoint[Cursor[w]] \in Nat
        /\ Laden(o, store[Copied], pass[w], checkpoint[Cursor[w]])
    BY DEF Sane, Passes, Counts, Levelled, o
  <2> QED
    BY <1>2, <1>3, <2>1, GrownLaden
<1> QED
  BY <1>1, <1>3, <1>4 DEF Levelled, new

LEMMA GraftLevels ==
    ASSUME MirroredAlone, Sane, MirrorInv, Levelled, NEW w \in Worker, NEW e \in EGid,
           NEW x \in Content, Graft(w, e, x)
    PROVE  Levelled'
<1> DEFINE o == store[Original]
           c == store[Copied]
           k == checkpoint[Cursor[w]]
           mid == Write(c, e, x)
           new == SetWeak(mid, mid.weak \cup {e})
<1>1. Target[w] = Copied /\ \A v \in Worker : v = w
  BY TheWorker
<1>2. /\ store' = [store EXCEPT ![Copied] = new] /\ pass' = pass /\ checkpoint' = checkpoint
      /\ pass[w] = Idle /\ e \in Placed
  BY <1>1, Zenon DEF Graft, SetWeak
<1>3. Origin(o) /\ Sound(c) /\ Live(c) \cap Placed \subseteq c.weak /\ Level(o, c, k) /\ k <= o.counter
  BY DEF MirrorInv, Copy, Levelled, Laden
<1>4. Level(o, new, k) /\ Live(new) \cap Placed \subseteq new.weak
  <2>1. e \in EGid \cap Placed
    BY <1>2
  <2> HIDE DEF o, c, k
  <2> QED
    BY <1>3, <2>1, GraftedLevel
<1> HIDE DEF new
<1>5. store'[Original] = o /\ store'[Copied] = new
  BY <1>2, MirrorAssumption DEF MirroredAlone, Mirrored, Sane, Graphs
<1>6. Laden(o, new, Idle, k)
  BY <1>3, <1>4, IdleLaden
<1> QED
  BY <1>1, <1>2, <1>4, <1>5, <1>6 DEF Levelled

\* Where a pass without losers goes after a call.
LEMMA NextMirrorCall ==
    ASSUME NEW m, m.losers = {}
    PROVE  /\ {AfterGet(m), AfterDiff(m), AfterFeed(m)} \subseteq MirrorCalls \ {"changes"}
           /\ "checkpoint" \in {AfterGet(m), AfterDiff(m), AfterFeed(m)} =>
                 m.docs = {} /\ m.deletes = None
BY DEF AfterGet, AfterDiff, AfterFeed, MirrorCalls, None

\* What the feed gives of a graph without a conflict, read whole.
LEMMA OfferedWhole ==
    ASSUME NEW st, Sound(st), st.conflicts = {}, NEW since \in Nat,
           NEW limit \in Nat, limit = 0, NEW filter, filter = Unfiltered,
           NEW m, m = Offer(st, since, limit, filter)
    PROVE  /\ Carried(m) /\ m.last_seq = st.counter /\ m.losers = {}
           /\ \A t \in st.tombs : t.seq > since /\ t.seq <= m.last_seq =>
                 t.gid \in Gids(ToSet(m.deletes))
           /\ \A g \in Live(st) : st.live[g].seq > since /\ st.live[g].seq <= m.last_seq =>
                 \E d \in m.docs : d.gid = g /\ d.rev = st.live[g].rev
           /\ \A d \in m.docs : d.gid \in Live(st) /\ d.rev = st.live[d.gid].rev
           /\ \A d \in ToSet(m.deletes) : \E t \in st.tombs : t.gid = d.gid /\ t.rev = d.rev
BY Offered

LEMMA WholeCarries ==
    ASSUME NEW st, Origin(st), NEW c, NEW since \in Nat, Level(st, c, since),
           NEW limit \in Nat, limit = 0, NEW filter, filter = Unfiltered,
           NEW m, m = Offer(st, since, limit, filter)
    PROVE  m \in Message /\ Carries(st, c, m)
<1>1. Sound(st) /\ st.conflicts = {}
  BY DEF Origin
<1>2. /\ Carried(m) /\ m.last_seq = st.counter
      /\ \A t \in st.tombs : t.seq > since /\ t.seq <= m.last_seq => t.gid \in Gids(ToSet(m.deletes))
      /\ \A g \in Live(st) : st.live[g].seq > since /\ st.live[g].seq <= m.last_seq =>
            \E d \in m.docs : d.gid = g /\ d.rev = st.live[g].rev
      /\ \A d \in m.docs : d.gid \in Live(st) /\ d.rev = st.live[d.gid].rev
      /\ \A d \in ToSet(m.deletes) : \E t \in st.tombs : t.gid = d.gid /\ t.rev = d.rev
  BY <1>1, OfferedWhole
<1>3. m \in Message
  BY <1>2 DEF Carried
<1> QED
  BY <1>2, <1>3, OfferedCarries

\* The calls of the pass that change no graph.
LEMMA ReadsLevel ==
    ASSUME Sane, NEW w \in Worker, NEW o, NEW c, NEW k, o = store[Source[w]], c = store[Target[w]],
           k = checkpoint[Cursor[w]], Limit[w] = 0, Filter[w] = Unfiltered,
           Origin(o), Copy(o, c), OnWay(o, c, pass[w]), Laden(o, c, pass[w], k),
           Changes(w) \/ AskMissing(w) \/ Fetch(w)
    PROVE  Laden(o, c, pass'[w], k)
<1> DEFINE p == pass[w]
<1>1. /\ p \in Message /\ Carried(p) /\ pass \in [Worker -> Message] /\ k \in Nat
      /\ Sound(o) /\ Sound(c) /\ o \in Store /\ c \in Store /\ Attached(o) /\ o.counter \in Nat
      /\ p.losers = {} /\ Level(o, c, k) /\ k <= o.counter
  <2>1. p \in Message /\ Carried(p) /\ pass \in [Worker -> Message] /\ k \in Nat
    BY Typed DEF Sane, Passes, Counts
  <2>2. Sound(o) /\ Sound(c) /\ Attached(o)
    BY DEF Origin, Copy
  <2>3. o \in Store /\ c \in Store /\ o.counter \in Nat
    <3>1. o \in Store /\ c \in Store
      BY <2>2 DEF Sound
    <3> QED
      BY <3>1, Typed
  <2>4. p.losers = {} /\ Level(o, c, k) /\ k <= o.counter
    BY DEF OnWay, Laden
  <2> QED
    BY <2>1, <2>2, <2>3, <2>4
<1>2. ASSUME NEW m, NEW call, Continue(w, m, call)
      PROVE  pass'[w] = At(m, call)
  <2>1. pass' = [pass EXCEPT ![w] = At(m, call)]
    BY <1>2, Zenon DEF Continue, At
  <2> QED
    BY <1>1, <2>1
<1>3. CASE Changes(w)
  <2> DEFINE m == Offer(o, k, Limit[w], Filter[w])
             call == AfterFeed(m)
             n == At(m, call)
  <2>1. Continue(w, m, call)
    BY <1>3, Zenon DEF Changes, Offer, Filled
  <2>a. m = Offer(o, k, Limit[w], Filter[w]) /\ Limit[w] \in Nat
    BY ReplicationAssumption
  <2>2. Carried(m) /\ m.last_seq = o.counter /\ m.losers = {}
    <3>1. o.conflicts = {}
      BY DEF Origin
    <3> HIDE DEF m
    <3> QED
      BY <1>1, <2>a, <3>1, OfferedWhole
  <2> HIDE DEF m
  <2>3. m \in Message
    BY <2>2 DEF Carried
  <2>4. Carries(o, c, m)
    BY <1>1, <2>a, WholeCarries
  <2>5. call \in MirrorCalls \ {"changes"} /\ (call = "checkpoint" => m.docs = {} /\ m.deletes = None)
    BY <2>2, NextMirrorCall
  <2>6. pass'[w] = n
    BY <1>2, <2>1
  <2>7. n = At(m, call)
    OBVIOUS
  <2> HIDE DEF n, call
  <2>8. n.docs = m.docs /\ n.deletes = m.deletes /\ n.call = call /\ n.last_seq = m.last_seq
    BY <2>3, <2>7, TurnedTo
  <2>9. Carries(o, c, n)
    BY <2>4, <2>8 DEF Carries
  <2> QED
    BY <1>1, <2>2, <2>5, <2>6, <2>8, <2>9 DEF Laden
<1>4. CASE AskMissing(w)
  <2> DEFINE docs == RevsDiff(c, p.docs)
             m == WithDocs(p, docs)
             call == AfterDiff(m)
             n == At(WithDocs(p, docs), call)
  <2>1. Continue(w, m, call)
    BY <1>4, Zenon DEF AskMissing, WithDocs
  <2>2. /\ docs \in SUBSET p.docs
        /\ \A d \in p.docs \ docs :
              \/ d.gid \in Live(c) /\ DescendsFrom(c.live[d.gid].rev, d.rev)
              \/ d.gid \in Buried(c)
    <3>1. p.docs \in SUBSET Leaf /\ IsFiniteSet(p.docs)
      BY <1>1, AsParcel DEF Carried
    <3> QED
      BY <1>1, <3>1, Asked
  <2> HIDE DEF docs
  <2>3. m.losers = {} /\ m.docs = docs /\ m.deletes = p.deletes
    BY <1>1, AsParcel, OneChanged, OfParcel
  <2>5. call \in MirrorCalls \ {"changes"} /\ (call = "checkpoint" => docs = {} /\ p.deletes = None)
    <3> HIDE DEF m
    <3> QED
      BY <2>3, NextMirrorCall
  <2>6. pass'[w] = n
    BY <1>2, <2>1
  <2>7. n = At(WithDocs(p, docs), call)
    OBVIOUS
  <2> HIDE DEF n, call
  <2>8. n.docs = docs /\ n.deletes = p.deletes /\ n.call = call /\ n.last_seq = p.last_seq
    BY <1>1, <2>7, TurnedDocs
  <2>4. Carries(o, c, p) /\ k <= p.last_seq
    BY <1>4 DEF AskMissing, Laden
  <2>9. Carries(o, c, n)
    BY <1>1, <2>2, <2>4, <2>8, AskedCarries
  <2> QED
    BY <1>1, <2>4, <2>5, <2>6, <2>8, <2>9 DEF Laden
<1>5. CASE Fetch(w)
  <2> DEFINE gids == Gids(p.docs)
             docs == LiveBodies(o, gids)
             m == WithDocs(p, docs)
             call == AfterGet(m)
             n == At(WithDocs(p, docs), call)
  <2>1. Continue(w, m, call)
    BY <1>5, Zenon DEF Fetch, WithDocs
  <2>2. /\ \A d \in docs : d.gid \in gids \cap Live(o)
        /\ \A g \in gids \cap Live(o) : (g \in EGid => Ends(g) \subseteq Live(o)) =>
              \E d \in docs : d.gid = g /\ d.rev = o.live[g].rev
    <3> HIDE DEF gids
    <3>1. Numbered(o, {})
      BY <1>1 DEF Sound
    <3> QED
      BY <1>1, <3>1, BodiesRead
  <2> HIDE DEF docs
  <2>3. m.losers = {} /\ m.docs = docs /\ m.deletes = p.deletes
    BY <1>1, AsParcel, OneChanged, OfParcel
  <2>5. call \in MirrorCalls \ {"changes"} /\ (call = "checkpoint" => docs = {} /\ p.deletes = None)
    <3> HIDE DEF m
    <3> QED
      BY <2>3, NextMirrorCall
  <2>6. pass'[w] = n
    BY <1>2, <2>1
  <2>7. n = At(WithDocs(p, docs), call)
    OBVIOUS
  <2> HIDE DEF n, call
  <2>8. n.docs = docs /\ n.deletes = p.deletes /\ n.call = call /\ n.last_seq = p.last_seq
    BY <1>1, <2>7, TurnedDocs
  <2>4. Carries(o, c, p) /\ k <= p.last_seq
    BY <1>5 DEF Fetch, Laden
  <2>9. Carries(o, c, n)
    BY <1>1, <2>2, <2>4, <2>8, FetchedCarries
  <2> QED
    BY <1>1, <2>4, <2>5, <2>6, <2>8, <2>9 DEF Laden
<1> QED
  BY <1>3, <1>4, <1>5

\* A batch goes down.
LEMMA ApplyLevels ==
    ASSUME MirroredAlone, Sane, MirrorInv, Levelled, NEW w \in Worker, Apply(w)
    PROVE  Levelled'
<1> DEFINE o == store[Original]
           c == store[Copied]
           k == checkpoint[Cursor[w]]
           p == pass[w]
           rest == p.losers
           m == Emptied(p, rest)
           call == AfterGet(m)
           n == At(Emptied(p, rest), call)
<1>1. Target[w] = Copied /\ \A v \in Worker : v = w
  BY TheWorker
<1>2. /\ Origin(o) /\ Copy(o, c) /\ OnWay(o, c, p) /\ Live(c) \cap Placed \subseteq c.weak
      /\ Laden(o, c, p, k) /\ p \in Message /\ Carried(p) /\ k \in Nat /\ p.losers = {}
      /\ Sound(o) /\ Sound(c) /\ pass \in [Worker -> Message]
  BY <1>1 DEF MirrorInv, Levelled, Sane, Passes, Counts, OnWay, Origin, Copy
<1>3. Carries(o, c, p) /\ k <= p.last_seq
  BY <1>2 DEF Apply, Laden
<1>4. PICK new \in ApplyWire(c, p.docs, p.deletes) : store' = [store EXCEPT ![Copied] = new]
  BY <1>1 DEF Apply, Land
<1>5. pass' = [pass EXCEPT ![w] = n] /\ checkpoint' = checkpoint
  BY Zenon DEF Apply, Land, Continue, Emptied, At
<1>6. m.losers = {} /\ m.docs = {} /\ m.deletes = None
  <2>1. m = Parcel(p.call, {}, rest, None, p.last_seq)
    BY <1>2, EmptiedIs
  <2> HIDE DEF m, rest
  <2>2. rest = {}
    BY <1>2 DEF rest
  <2> QED
    BY <2>1, <2>2, OfParcel
<1>7. call \in MirrorCalls \ {"changes"}
  <2> HIDE DEF m
  <2> QED
    BY <1>6, NextMirrorCall
<1>8. n = At(Emptied(p, rest), call)
  OBVIOUS
<1> HIDE DEF n, call, m, rest
<1>9. n.docs = {} /\ n.deletes = None /\ n.call = call /\ n.last_seq = p.last_seq
  BY <1>2, <1>8, TurnedEmpty
<1>10. Level(o, new, p.last_seq) /\ Live(new) \cap Placed \subseteq new.weak
  <2> HIDE DEF o, c, p, k
  <2>1. p.docs \in SUBSET Leaf /\ IsFiniteSet(p.docs) /\ Unique(p.docs) /\ p.deletes \in Seq(Leaf)
    BY <1>2, AsParcel DEF Carried
  <2>2. PICK acc \in SUBSET p.docs, S \in SUBSET Live(c) : Moves(c, p.docs, p.deletes, acc, S, new)
    BY <1>2, <1>4, <2>1, Applied
  <2> QED
    BY <1>2, <1>3, <2>1, <2>2, LandedLevel
<1>11. store'[Original] = o /\ store'[Copied] = new
  BY <1>4, MirrorAssumption DEF MirroredAlone, Mirrored, Sane, Graphs
<1>12. pass'[w] = n
  BY <1>2, <1>5
<1> HIDE DEF o, c, p
<1>13. p.last_seq \in Nat /\ p.last_seq <= o.counter /\ o.counter \in Nat
       /\ EndsLast(o, p.last_seq)
  BY <1>2, <1>3, AsParcel, Typed DEF Carries, Sound
<1>14. Level(o, new, k) /\ k <= o.counter
  BY <1>2, <1>3, <1>10, <1>13, LevelBelow
<1>15. Carries(o, new, n)
  BY <1>9, <1>10, <1>13, LevelCarries
<1>16. Laden(o, new, n, k)
  BY <1>3, <1>7, <1>9, <1>14, <1>15 DEF Laden
<1> QED
  BY <1>1, <1>5, <1>10, <1>11, <1>12, <1>16 DEF Levelled

\* A pass ends, at its checkpoint or before.
LEMMA EndLevels ==
    ASSUME MirroredAlone, Sane, MirrorInv, Levelled, NEW w \in Worker,
           WriteCheckpoint(w) \/ Reject(w) \/ Abort(w)
    PROVE  Levelled'
<1> DEFINE o == store[Original]
           c == store[Copied]
           k == checkpoint[Cursor[w]]
<1>1. \A v \in Worker : v = w
  BY TheWorker
<1>2. store' = store /\ pass'[w] = Idle
  BY DEF WriteCheckpoint, Reject, Abort, Sane, Passes
<1>3. Level(o, c, checkpoint'[Cursor[w]]) /\ checkpoint'[Cursor[w]] <= o.counter
  <2>1. CASE checkpoint' = checkpoint
    BY <2>1 DEF Levelled, Laden
  <2>2. CASE WriteCheckpoint(w)
    <3>1. checkpoint'[Cursor[w]] = pass[w].last_seq
      BY <2>2 DEF WriteCheckpoint, Sane, Counts
    <3>2. Carries(o, c, pass[w]) /\ pass[w].docs = {} /\ pass[w].deletes = None
      BY <2>2 DEF WriteCheckpoint, Levelled, Laden
    <3> QED
      BY <3>1, <3>2, LevelCarries
  <2> QED
    BY <2>1, <2>2 DEF Reject, Abort
<1>4. Laden(o, c, Idle, checkpoint'[Cursor[w]])
  BY <1>3, IdleLaden
<1> QED
  BY <1>1, <1>2, <1>4 DEF Levelled

LEMMA LevelStep ==
    ASSUME MirroredAlone, Sane, MirrorInv, MirrorInv', Levelled, [Next]_vars
    PROVE  Levelled'
<1>1. ASSUME NEW p \in Peer, NEW g \in Gid,
             (\E c \in Content : Create(p, g, c) \/ Edit(p, g, c)) \/ DropElement(p, g)
      PROVE  Levelled'
  BY <1>1, LocalLevels
<1>2. ASSUME NEW w \in Worker, NEW e \in EGid, NEW x \in Content, Graft(w, e, x)
      PROVE  Levelled'
  BY <1>2, GraftLevels
<1>3. ASSUME NEW w \in Worker, Changes(w) \/ AskMissing(w) \/ Fetch(w)
      PROVE  Levelled'
  <2>1. store' = store /\ checkpoint' = checkpoint
    BY <1>3 DEF Changes, AskMissing, Fetch, Continue
  <2>2. /\ Source[w] = Original /\ Target[w] = Copied /\ \A v \in Worker : v = w
        /\ Limit[w] = 0 /\ Filter[w] = Unfiltered
    BY TheWorker DEF MirroredAlone
  <2>3. Laden(store[Original], store[Copied], pass'[w], checkpoint[Cursor[w]])
    <3>1. /\ Origin(store[Source[w]]) /\ Copy(store[Source[w]], store[Target[w]])
          /\ OnWay(store[Source[w]], store[Target[w]], pass[w])
          /\ Laden(store[Source[w]], store[Target[w]], pass[w], checkpoint[Cursor[w]])
      BY <2>2 DEF MirrorInv, Levelled
    <3>2. Laden(store[Source[w]], store[Target[w]], pass'[w], checkpoint[Cursor[w]])
      BY <1>3, <2>2, <3>1, ReadsLevel
    <3> QED
      BY <2>2, <3>2
  <2> QED
    BY <2>1, <2>2, <2>3 DEF Levelled
<1>4. ASSUME NEW w \in Worker, Apply(w)
      PROVE  Levelled'
  BY <1>4, ApplyLevels
<1>5. ASSUME NEW w \in Worker, AskLosers(w) \/ FetchLosers(w) \/ ApplyLosers(w)
      PROVE  Levelled'
  BY <1>5 DEF Levelled, Laden, MirrorCalls, AskLosers, FetchLosers, ApplyLosers
<1>6. ASSUME NEW w \in Worker, WriteCheckpoint(w) \/ Reject(w) \/ Abort(w)
      PROVE  Levelled'
  BY <1>6, EndLevels
<1>7. CASE UNCHANGED vars
  BY <1>7 DEF vars, Levelled
<1> QED
  BY <1>1, <1>2, <1>3, <1>4, <1>5, <1>6, <1>7, Zenon DEF Next, Advance

\* The copy is level with the original up to the checkpoint.
LEMMA AlwaysLevel == MirroredAlone => (Spec => []Levelled)
<1> SUFFICES ASSUME MirroredAlone
             PROVE  Spec => []Levelled
  OBVIOUS
<1>1. Init => Levelled
  BY LevelInit
<1>2. Sane /\ MirrorInv /\ MirrorInv' /\ Levelled /\ [Next]_vars => Levelled'
  BY LevelStep
<1>3. Mirrored
  BY DEF MirroredAlone
<1> QED
  BY <1>1, <1>2, <1>3, AlwaysMirrors, AlwaysSane, PTL DEF Spec

\* runReplicationPass: the checkpoint of an unpaged, unfiltered worker never
\* moves past a change its target has not taken in, body or delete, whatever is
\* written during a pass, cut short or repeated.
THEOREM MirrorCheckpointSafe == MirroredAlone => (Spec => []CheckpointSafe)
<1> SUFFICES ASSUME MirroredAlone
             PROVE  Spec => []CheckpointSafe
  OBVIOUS
<1>1. Sane /\ Levelled => CheckpointSafe
  <2> SUFFICES ASSUME Sane, Levelled, NEW w \in Worker, NEW r \in Passed(w)
               PROVE  Knows(store[Target[w]], r)
    BY DEF CheckpointSafe
  <2> DEFINE o == store[Original]
             c == store[Copied]
             k == checkpoint[Cursor[w]]
  <2>1. Source[w] = Original /\ Target[w] = Copied
    BY TheWorker
  <2>2. r \in FeedRows(o, Unfiltered) /\ r.seq <= k
    BY <2>1 DEF Passed
  <2>3. Level(o, c, k) /\ Sound(c)
    BY MirrorAssumption DEF Levelled, Laden, Sane, Graphs
  <2> HIDE DEF o, c, k
  <2>4. CASE ~r.deleted
    <3>1. r.gid \in Live(o) /\ r.rev = o.live[r.gid].rev /\ r.seq = o.live[r.gid].seq
      BY <2>2, <2>4 DEF FeedRows, Selected
    <3>2. r.gid \in Live(c) /\ c.live[r.gid].rev = r.rev
      BY <2>2, <2>3, <3>1 DEF Level
    <3>3. r.rev \in Rev
      BY <2>3, <3>2, LiveRevs
    <3>4. r.rev \in Ids(c.live[r.gid].rev)
      BY <3>2, <3>3, Self DEF DescendsFrom
    <3>5. Knows(c, r)
      BY <2>4, <3>4 DEF Knows, Held
    <3> QED
      BY <2>1, <3>5 DEF c
  <2>5. CASE r.deleted
    <3>1. PICK t \in o.tombs : r.gid = t.gid /\ r.seq = t.seq
      BY <2>2, <2>5 DEF FeedRows
    <3>2. Knows(c, r)
      BY <2>2, <2>3, <2>5, <3>1 DEF Level, Knows
    <3> QED
      BY <2>1, <3>2 DEF c
  <2> QED
    BY <2>4, <2>5
<1> QED
  BY <1>1, AlwaysLevel, AlwaysSane, PTL

\* applyDeletes: the deletes among them are all taken in: none is refused for
\* an edge the target still has.
THEOREM MirrorDeletesPropagate == MirroredAlone => (Spec => []DeletesPropagate)
<1>1. CheckpointSafe => DeletesPropagate
  BY DEF CheckpointSafe, DeletesPropagate
<1> QED
  BY <1>1, MirrorCheckpointSafe, PTL

\* applyChangeSet: an edge's endpoints are on the target or travel with it, so
\* _bulk_docs never throws.
THEOREM MirrorEndpointPresent == MirroredAlone => (Spec => []EndpointPresent)
<1> SUFFICES ASSUME MirroredAlone
             PROVE  Spec => []EndpointPresent
  OBVIOUS
<1>1. Sane /\ MirrorInv /\ Levelled => EndpointPresent
  <2> SUFFICES ASSUME Sane, MirrorInv, Levelled, NEW w \in Worker, Refused(w)
               PROVE  FALSE
    BY DEF EndpointPresent
  <2> DEFINE o == store[Original]
             c == store[Copied]
             p == pass[w]
  <2>1. Target[w] = Copied
    BY TheWorker
  <2>2. Laden(o, c, p, checkpoint[Cursor[w]]) /\ Sound(c) /\ Carried(p)
    BY MirrorAssumption DEF Levelled, Sane, Graphs, Passes
  <2>3. p.call = "bulkDocs" /\ ApplyWire(c, p.docs, p.deletes) = {}
    BY <2>1, <2>2 DEF Refused, Laden, MirrorCalls
  <2> HIDE DEF o, c, p
  <2>4. Carries(o, c, p)
    BY <2>2, <2>3 DEF Laden
  <2>5. p.docs \in SUBSET Leaf /\ IsFiniteSet(p.docs) /\ Unique(p.docs) /\ p.deletes \in Seq(Leaf)
    BY <2>2, AsParcel DEF Carried
  <2>6. ApplyWire(c, p.docs, p.deletes) # {}
    BY <2>2, <2>4, <2>5, Appliable DEF Carries
  <2> QED
    BY <2>3, <2>6
<1>2. Mirrored
  BY DEF MirroredAlone
<1> QED
  BY <1>1, <1>2, AlwaysLevel, AlwaysMirrors, AlwaysSane, PTL
=============================================================================
