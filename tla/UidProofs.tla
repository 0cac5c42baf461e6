------------------------------ MODULE UidProofs ------------------------------
(***************************************************************************)
(* The uids of UidReconciliation, for any number of peers, workers and     *)
(* elements: two elements of a graph never share one, the lowest gid that  *)
(* was given a uid has it wherever it is live, and whoever lost one is     *)
(* marked.  What carries the proofs is that a body under way is bound by   *)
(* the same as a live row: it has its element's uid or none, and none only *)
(* once the loss is marked and a lower gid claims the uid.                 *)
(***************************************************************************)
EXTENDS UidReconciliation, ReplicationProofs, WellFoundedInduction

-----------------------------------------------------------------------------
\* ReconcileAll, one item after the other.

LEMMA Least ==
    ASSUME NEW S \in SUBSET Nat, S # {}
    PROVE  \E m \in S : \A k \in S : m <= k
<1>1. PICK m \in S : \A k \in Nat : <<k, m>> \in OpToRel(<, Nat) => k \notin S
  BY NatLessThanWellFounded, WFMin
<1>2. \A k \in Nat : k < m => <<k, m>> \in OpToRel(<, Nat)
  BY DEF OpToRel
<1>3. \A k \in Nat : k < m => k \notin S
  BY <1>1, <1>2, Zenon
<1>4. \A k \in S : m <= k
  BY <1>3
<1> QED
  BY <1>4

\* What the column and the markers are after each of the first m items.
Runs(r, s, q, m) == r = [n \in 0 .. m |-> IF n = 0 THEN s ELSE Reconcile(r[n - 1], q[n])]

LEMMA RunExists ==
    ASSUME NEW s, NEW q, NEW m \in Nat
    PROVE  \E r : Runs(r, s, q, m)
<1> DEFINE Bad == {k \in Nat : ~\E r : Runs(r, s, q, k)}
<1>1. ASSUME NEW k \in Bad, \A j \in Bad : k <= j
      PROVE  FALSE
  <2>1. CASE k = 0
    <3> DEFINE r == [n \in 0 .. 0 |-> s]
    <3>1. Runs(r, s, q, 0)
      BY DEF Runs
    <3> HIDE DEF r
    <3> QED
      BY <2>1, <3>1
  <2>2. CASE k # 0
    <3>1. k - 1 \in Nat /\ k \in Nat
      BY <2>2
    <3>2. PICK r : Runs(r, s, q, k - 1)
      BY <1>1, <3>1
    <3> DEFINE t == [n \in 0 .. k |-> IF n = 0 THEN s ELSE Reconcile(r[n - 1], q[n])]
    <3>3. \A n \in 0 .. k - 1 : t[n] = r[n]
      BY <3>1, <3>2 DEF Runs
    <3>4. \A n \in 0 .. k : n # 0 => n - 1 \in 0 .. k - 1 /\ r[n - 1] = t[n - 1]
      <4> HIDE DEF t
      <4>1. ASSUME NEW n \in 0 .. k, n # 0 PROVE n - 1 \in 0 .. k - 1
        BY <3>1, <4>1
      <4> QED
        BY <3>3, <4>1
    <3>5. t = [n \in 0 .. k |-> IF n = 0 THEN s ELSE Reconcile(t[n - 1], q[n])]
      BY <3>4
    <3> HIDE DEF t
    <3>6. Runs(t, s, q, k)
      BY <3>5 DEF Runs
    <3> QED
      BY <3>6
  <2> QED
    BY <2>1, <2>2
<1>2. Bad = {}
  <2>1. Bad \in SUBSET Nat
    OBVIOUS
  <2> HIDE DEF Bad
  <2> QED
    BY <1>1, <2>1, Least
<1> QED
  BY <1>2

\* applyUids' loop is a run of its body.
LEMMA ByRun ==
    ASSUME NEW s, NEW q, Len(q) \in Nat
    PROVE  \E r : /\ r[0] = s /\ r[Len(q)] = ReconcileAll(s, q)
                  /\ \A n \in 1 .. Len(q) : r[n] = Reconcile(r[n - 1], q[n])
<1> DEFINE r == CHOOSE f : f = [n \in 0 .. Len(q) |-> IF n = 0 THEN s ELSE Reconcile(f[n - 1], q[n])]
<1>1. \E f : f = [n \in 0 .. Len(q) |-> IF n = 0 THEN s ELSE Reconcile(f[n - 1], q[n])]
  <2>1. \E f : Runs(f, s, q, Len(q))
    BY RunExists
  <2> QED
    BY <2>1 DEF Runs
<1>2. r = [n \in 0 .. Len(q) |-> IF n = 0 THEN s ELSE Reconcile(r[n - 1], q[n])]
  BY <1>1
<1>3. ReconcileAll(s, q) = r[Len(q)]
  BY DEF ReconcileAll
<1> HIDE DEF r
<1>4. r[0] = s /\ \A n \in 1 .. Len(q) : r[n] = Reconcile(r[n - 1], q[n])
  BY <1>2
<1> QED
  BY <1>3, <1>4

-----------------------------------------------------------------------------
\* One graph's column while its items are reconciled.

\* Of the elements that were given a uid, the one that must have it.
Lowest(c, g) == \A h \in Kin(g) : c[h] = c[g] => g <= h

\* A uid an element may show, with all the markers there are: its own or none,
\* and none only with a marker and below a lower gid.
Fits(c, M, g, u) ==
    /\ u \in {NoUid, c[g]}
    /\ u # c[g] => <<g, c[g]>> \in M
    /\ Lowest(c, g) => u = c[g]

Sole(column) == \A g, h \in Gid : g \in Kin(h) /\ column[g] = column[h] /\ column[g] # NoUid => g = h

\* The column and markers of a graph with the elements L, of which those in todo
\* may have to be reconciled yet; M are the markers before, here and elsewhere.
Column(c, M, L, old, s, todo) ==
    /\ s = [uids |-> s.uids, marks |-> s.marks]
    /\ s.uids \in [Gid -> Uid \cup {NoUid}]
    /\ \A g \in Gid : s.uids[g] \in {NoUid, c[g]}
    /\ \A g \in L \ todo : Fits(c, M \cup s.marks, g, s.uids[g])
    /\ Sole(s.uids)
    /\ old \subseteq s.marks /\ s.marks \subseteq Gid \X (Uid \cup {NoUid})

\* A body as _bulk_get gives it out.
Body == [gid : Gid, rev : Rev, uid : Uid \cup {NoUid}]

LEMMA OfOneTable ==
    /\ \A g \in Gid : Kin(g) \subseteq Gid /\ g \in Kin(g)
    /\ \A g, h \in Gid : g \in Kin(h) => h \in Kin(g) /\ Kin(g) = Kin(h)
BY GidAssumption DEF Gid, Kin

LEMMA FitsOn ==
    ASSUME NEW c, NEW M, NEW N, M \subseteq N, NEW g, NEW u, Fits(c, M, g, u)
    PROVE  Fits(c, N, g, u)
BY DEF Fits

\* An item leaves every element as it should be, its own with them.
LEMMA Reconciles ==
    ASSUME NEW c \in [Gid -> Uid \cup {NoUid}], NEW M, NEW L \in SUBSET Gid, NEW old, NEW s, NEW todo,
           Column(c, M, L, old, s, todo), NEW b \in Body, Fits(c, M, b.gid, b.uid)
    PROVE  Column(c, M, L, old, Reconcile(s, b), todo \ {b.gid})
<1> DEFINE new == Reconcile(s, b)
           N == M \cup s.marks
<1>1. /\ s = [uids |-> s.uids, marks |-> s.marks]
      /\ s.uids \in [Gid -> Uid \cup {NoUid}]
      /\ \A g \in Gid : s.uids[g] \in {NoUid, c[g]}
      /\ \A g \in L \ todo : Fits(c, N, g, s.uids[g])
      /\ Sole(s.uids)
      /\ old \subseteq s.marks /\ s.marks \subseteq Gid \X (Uid \cup {NoUid})
  BY DEF Column
<1>2. b.gid \in Gid /\ b.uid \in Uid \cup {NoUid} /\ c[b.gid] \in Uid \cup {NoUid}
  BY DEF Body
<1>3. /\ b.uid \in {NoUid, c[b.gid]}
      /\ b.uid # c[b.gid] => <<b.gid, c[b.gid]>> \in M
      /\ Lowest(c, b.gid) => b.uid = c[b.gid]
  BY DEF Fits
<1>4. \A h \in Holders(s, b) : /\ h \in Gid /\ h \in Kin(b.gid) /\ s.uids[h] = b.uid /\ b.uid # NoUid
                               /\ c[h] = b.uid /\ c[b.gid] = b.uid /\ h \in Nat
  BY <1>1, <1>2, <1>3, OfOneTable, UidAssumption DEF Holders
<1>5. CASE b.uid = NoUid \/ b.gid \in Holders(s, b)
  <2>1. new = s
    BY <1>5 DEF Reconcile
  <2>2. Fits(c, N, b.gid, s.uids[b.gid])
    BY <1>1, <1>2, <1>3, <1>4, <1>5 DEF Fits
  <2> QED
    BY <1>1, <2>1, <2>2 DEF Column
<1>6. CASE b.uid # NoUid /\ b.gid \notin Holders(s, b) /\ \E h \in Holders(s, b) : h < b.gid
  <2> DEFINE mark == <<b.gid, b.uid>>
  <2>1. new = [uids |-> s.uids, marks |-> s.marks \cup {mark}]
    BY <1>1, <1>6 DEF Reconcile, Deny
  <2>2. new.uids = s.uids /\ new.marks = s.marks \cup {mark}
        /\ new = [uids |-> new.uids, marks |-> new.marks]
    BY <2>1
  <2>3. mark \in new.marks /\ mark \in Gid \X (Uid \cup {NoUid}) /\ b.uid = c[b.gid]
    BY <1>2, <1>3, <1>6, <2>2
  <2> HIDE DEF new
  <2>4. ~Lowest(c, b.gid)
    <3>1. PICK h \in Holders(s, b) : h < b.gid
      BY <1>6
    <3>2. h \in Kin(b.gid) /\ c[h] = c[b.gid] /\ h \in Nat /\ b.gid \in Nat
      BY <1>2, <1>4, UidAssumption
    <3> QED
      BY <3>1, <3>2 DEF Lowest
  <2>5. Fits(c, M \cup new.marks, b.gid, s.uids[b.gid])
    BY <1>1, <1>2, <2>3, <2>4 DEF Fits
  <2>6. \A g \in L \ todo : Fits(c, M \cup new.marks, g, s.uids[g])
    BY <1>1, <2>2, FitsOn
  <2>7. old \subseteq new.marks /\ new.marks \subseteq Gid \X (Uid \cup {NoUid})
    BY <1>1, <2>2, <2>3
  <2> QED
    BY <1>1, <2>2, <2>5, <2>6, <2>7 DEF Column, new
<1>7. CASE b.uid # NoUid /\ b.gid \notin Holders(s, b) /\ ~\E h \in Holders(s, b) : h < b.gid
  <2> DEFINE column == [g \in Gid |-> IF g = b.gid THEN b.uid ELSE IF g \in Holders(s, b) THEN NoUid ELSE s.uids[g]]
             stripped == {<<h, b.uid>> : h \in Holders(s, b)}
  <2>1. new = [uids |-> column, marks |-> s.marks \cup stripped]
    BY <1>7 DEF Reconcile, Grant
  <2>2. new.uids = column /\ new.marks = s.marks \cup stripped
        /\ new = [uids |-> new.uids, marks |-> new.marks]
    BY <2>1
  <2>3. /\ column \in [Gid -> Uid \cup {NoUid}]
        /\ column[b.gid] = b.uid /\ b.uid = c[b.gid]
        /\ \A g \in Gid \ {b.gid} : g \in Holders(s, b) => column[g] = NoUid
        /\ \A g \in Gid \ {b.gid} : g \notin Holders(s, b) => column[g] = s.uids[g]
    BY <1>1, <1>2, <1>3, <1>7
  <2>4. \A h \in Holders(s, b) : <<h, b.uid>> \in stripped
    OBVIOUS
  <2>5. stripped \subseteq Gid \X (Uid \cup {NoUid})
    BY <1>2, <1>4
  <2> HIDE DEF new, column, stripped
  <2>6. \A g \in Gid : column[g] \in {NoUid, c[g]}
    BY <1>1, <2>3
  <2>7. ASSUME NEW g \in L \ (todo \ {b.gid})
        PROVE  Fits(c, M \cup new.marks, g, column[g])
    <3>1. CASE g = b.gid
      BY <2>3, <3>1 DEF Fits
    <3>2. CASE g # b.gid /\ g \in Holders(s, b)
      <4>1. /\ column[g] = NoUid /\ g \in Gid /\ g \in Kin(b.gid) /\ c[g] = b.uid /\ c[b.gid] = b.uid
            /\ <<g, b.uid>> \in new.marks
        BY <1>4, <2>2, <2>3, <2>4, <3>2
      <4>2. b.gid \in Kin(g) /\ ~(g <= b.gid)
        <5>1. ~(g < b.gid) /\ g # b.gid /\ g \in Nat /\ b.gid \in Nat
          BY <1>2, <1>7, <3>2, <4>1, UidAssumption
        <5> QED
          BY <1>2, <4>1, <5>1, OfOneTable
      <4> QED
        BY <4>1, <4>2 DEF Fits, Lowest
    <3>3. CASE g # b.gid /\ g \notin Holders(s, b)
      <4>1. column[g] = s.uids[g] /\ Fits(c, N, g, s.uids[g]) /\ N \subseteq M \cup new.marks
        BY <1>1, <2>2, <2>3, <3>3
      <4> HIDE DEF N
      <4> QED
        BY <4>1, FitsOn
    <3> QED
      BY <3>1, <3>2, <3>3
  <2>8. Sole(column)
    <3> SUFFICES ASSUME NEW g \in Gid, NEW h \in Gid, g \in Kin(h), column[g] = column[h], column[g] # NoUid
                 PROVE  g = h
      BY DEF Sole
    <3>1. CASE g # b.gid /\ h # b.gid
      BY <1>1, <2>3, <3>1 DEF Sole
    <3>2. \A k \in Gid \ {b.gid} : k \in Kin(b.gid) => column[k] # b.uid
      BY <1>7, <2>3 DEF Holders
    <3> QED
      BY <2>3, <3>1, <3>2, OfOneTable
  <2>9. old \subseteq new.marks /\ new.marks \subseteq Gid \X (Uid \cup {NoUid})
    BY <1>1, <2>2, <2>5
  <2> QED
    BY <2>2, <2>3, <2>6, <2>7, <2>8, <2>9 DEF Column, new
<1> QED
  BY <1>5, <1>6, <1>7

\* The items that are left after the first n of a list.
Left(q, n) == {q[i].gid : i \in n + 1 .. Len(q)}

\* applyUids: once the last item is done, every element is as it should be.
LEMMA Reconciled ==
    ASSUME NEW c \in [Gid -> Uid \cup {NoUid}], NEW M, NEW L \in SUBSET Gid, NEW old, NEW s,
           NEW q \in Seq(Body), \A b \in ToSet(q) : Fits(c, M, b.gid, b.uid),
           Column(c, M, L, old, s, Gids(ToSet(q)))
    PROVE  Column(c, M, L, old, ReconcileAll(s, q), {})
<1>1. Len(q) \in Nat /\ \A n \in 1 .. Len(q) : q[n] \in Body /\ q[n] \in ToSet(q)
  BY DEF ToSet
<1>2. PICK r : /\ r[0] = s /\ r[Len(q)] = ReconcileAll(s, q)
               /\ \A n \in 1 .. Len(q) : r[n] = Reconcile(r[n - 1], q[n])
  BY <1>1, ByRun
<1> DEFINE Good(n) == Column(c, M, L, old, r[n], Left(q, n))
           Bad == {n \in 0 .. Len(q) : ~Good(n)}
<1>3. Gids(ToSet(q)) = Left(q, 0)
  BY <1>1 DEF Gids, Left, ToSet
<1>4. 0 \notin Bad
  BY <1>2, <1>3
<1>5. ASSUME NEW n \in 1 .. Len(q), Good(n - 1)
      PROVE  Good(n)
  <2>1. Column(c, M, L, old, r[n], Left(q, n - 1) \ {q[n].gid})
    BY <1>1, <1>2, <1>5, Reconciles
  <2>2. Left(q, n - 1) \ {q[n].gid} \subseteq Left(q, n)
    BY <1>1 DEF Left
  <2> QED
    BY <2>1, <2>2 DEF Column
<1>6. Bad = {}
  <2>1. Bad \in SUBSET Nat /\ \A n \in Bad : n \in 0 .. Len(q) /\ n \in Nat
    BY <1>1
  <2>2. \A n \in 0 .. Len(q) : n \notin Bad => Good(n)
    OBVIOUS
  <2>3. \A n \in Bad : ~Good(n)
    OBVIOUS
  <2> HIDE DEF Bad, Good
  <2>4. ASSUME NEW n \in Bad, \A k \in Bad : n <= k
        PROVE  FALSE
    <3>1. n \in 1 .. Len(q) /\ n - 1 \in 0 .. Len(q) /\ ~(n <= n - 1)
      BY <1>1, <1>4, <2>1
    <3>2. Good(n - 1)
      BY <2>2, <2>4, <3>1
    <3> QED
      BY <1>5, <2>3, <3>1, <3>2
  <2> QED
    BY <2>1, <2>4, Least
<1>7. Good(Len(q))
  BY <1>1, <1>6
<1>8. Left(q, Len(q)) = {}
  BY <1>1 DEF Left
<1> QED
  BY <1>2, <1>7, <1>8

\* Whatever order the items come in.
LEMMA UidsApplied ==
    ASSUME NEW c \in [Gid -> Uid \cup {NoUid}], NEW M, NEW L \in SUBSET Gid, NEW old, NEW s,
           NEW items \in SUBSET Body, IsFiniteSet(items),
           \A b \in items : Fits(c, M, b.gid, b.uid),
           Column(c, M, L, old, s, Gids(items)), NEW new \in ApplyUids(s, items)
    PROVE  Column(c, M, L, old, new, {})
<1> DEFINE V == {b \in items : b.gid \in VGid}
           E == {b \in items : b.gid \in EGid}
<1>1. PICK vs \in SetToSeqs(V), es \in SetToSeqs(E) : new = ReconcileAll(s, vs \o es)
  BY DEF ApplyUids
<1>2. IsFiniteSet(V) /\ IsFiniteSet(E) /\ V \cup E = items
  <2>1. V \cup E = items
    BY DEF Body, Gid
  <2> QED
    BY <2>1, FS_Subset
<1> HIDE DEF V, E
<1>3. vs \in Seq(V) /\ ToSet(vs) = V /\ es \in Seq(E) /\ ToSet(es) = E
  BY <1>1, <1>2, Listed
<1>4. vs \in Seq(Body) /\ es \in Seq(Body)
  BY <1>2, <1>3
<1>5. vs \o es \in Seq(Body) /\ ToSet(vs \o es) = items
  <2>1. vs \o es \in Seq(Body) /\ ToSet(vs \o es) = ToSet(vs) \cup ToSet(es)
    BY <1>4, Joined
  <2> QED
    BY <1>2, <1>3, <2>1
<1> DEFINE q == vs \o es
<1> HIDE DEF q
<1>6. q \in Seq(Body) /\ ToSet(q) = items /\ new = ReconcileAll(s, q)
  BY <1>1, <1>5 DEF q
<1> QED
  BY <1>6, Reconciled

-----------------------------------------------------------------------------
\* The system.

AllMarks == UNION {marks[q] : q \in Peer}

UidTypes ==
    /\ uids \in [Peer -> [Gid -> Uid \cup {NoUid}]]
    /\ marks \in [Peer -> SUBSET (Gid \X (Uid \cup {NoUid}))]
    /\ claim \in [Gid -> Uid \cup {NoUid}]
    /\ carried \in [Worker -> SUBSET Body]
    /\ \A w \in Worker : IsFiniteSet(carried[w])

\* A row has its element's uid or none, and a live one fits.
Owned   == \A p \in Peer, g \in Gid : uids[p][g] \in {NoUid, claim[g]}
Fitting == \A p \in Peer : \A g \in Live(store[p]) : Fits(claim, AllMarks, g, uids[p][g])

\* So does a body under way, and its element is no new one.
Bundles == \A w \in Worker : \A b \in carried[w] : ~Unseen(b.gid) /\ Fits(claim, AllMarks, b.gid, b.uid)

\* The bodies under way are those the pass is to land.
Packs(m, bodies) == IF m.call = "bulkDocs" THEN m.docs = {Doc(b) : b \in bodies} ELSE bodies = {}
Packed == \A w \in Worker : Packs(pass[w], carried[w])

\* An element is given a uid when it is created, by a user.
Unclaimed == \A g \in Gid : Unseen(g) \/ g \in Placed => claim[g] = NoUid

UidSafe == Sane /\ UidTypes /\ Owned /\ Fitting /\ Bundles /\ Packed /\ Unclaimed /\ UniqueUids

LEMMA SharedSound ==
    LET st == [EmptyStore EXCEPT !.live = [g \in Gid |-> IF g \in Shared THEN HeldAlready ELSE NoRow],
                                 !.counter = Cardinality(Shared)]
    IN  Sound(st) /\ Cardinality(Shared) \in Nat
<1> DEFINE rows == [g \in Gid |-> IF g \in Shared THEN HeldAlready ELSE NoRow]
           n == Cardinality(Shared)
           st == [EmptyStore EXCEPT !.live = rows, !.counter = n]
<1>1. /\ Shared = {} => n = 0
      /\ Shared # {} => n = 1
  <2>1. CASE Shared = {}
    BY <2>1, FS_EmptySet
  <2>2. CASE Shared # {}
    <3>1. PICK v : v \in Shared
      BY <2>2
    <3>2. Shared = {v}
      BY <3>1, UidAssumption
    <3> QED
      BY <2>2, <3>2, FS_Singleton
  <2> QED
    BY <2>1, <2>2
<1> HIDE DEF n
<1>2. Shared # {} => HeldAlready.rev \in Rev /\ HeldAlready.seq = 1 /\ HeldAlready \in [rev : Rev \cup {NoRev}, seq : Nat]
  <2>1. Content # {} => (CHOOSE c \in Content : TRUE) \in Content
    OBVIOUS
  <2> DEFINE c == CHOOSE d \in Content : TRUE
  <2>2. Content # {} => <<c>> \in Seq(Content) /\ Len(<<c>>) = 1
    BY <2>1
  <2>3. Content # {} => <<c>> \in Rev
    BY <2>2 DEF Rev, NoRev
  <2>4. HeldAlready = [rev |-> <<c>>, seq |-> 1]
    BY DEF HeldAlready
  <2> HIDE DEF c
  <2> QED
    BY <2>3, <2>4, UidAssumption
<1>3. \A g \in Gid : /\ g \in Shared => rows[g] = HeldAlready
                     /\ g \notin Shared => rows[g] = NoRow
  OBVIOUS
<1>4. NoRow.rev = NoRev /\ NoRow \in [rev : Rev \cup {NoRev}, seq : Nat]
  BY DEF NoRow
<1>5. rows \in [Gid -> [rev : Rev \cup {NoRev}, seq : Nat]]
  BY <1>2, <1>4
<1> HIDE DEF rows
<1>6. st = Tables(rows, {}, {}, {}, n)
  <2> DEFINE none == [g \in Gid |-> NoRow]
             first == [EmptyStore EXCEPT !.live = rows]
  <2>1. EmptyStore = Tables(none, {}, {}, {}, 0)
    BY DEF EmptyStore, Tables
  <2> HIDE DEF none
  <2>2. first = Tables(rows, {}, {}, {}, 0)
    BY <2>1 DEF Tables
  <2>3. st = [first EXCEPT !.counter = n]
    BY Zenon
  <2> HIDE DEF first
  <2>4. [first EXCEPT !.counter = n] = Tables(rows, {}, {}, {}, n)
    BY <2>2 DEF Tables
  <2> QED
    BY <2>3, <2>4, Zenon
<1> HIDE DEF st
<1>7. /\ st \in Store /\ st.live = rows /\ st.tombs = {} /\ st.conflicts = {} /\ st.counter = n
  <2>1. n \in Nat
    BY <1>1
  <2> QED
    BY <1>5, <1>6, <2>1, Table
<1>8. Live(st) = Shared /\ Buried(st) = {}
  <2>1. Live(st) = Shared
    <3>1. Shared \subseteq Gid
      BY UidAssumption DEF Gid
    <3>2. Shared # {} => HeldAlready.rev # NoRev
      BY <1>2 DEF Rev
    <3> QED
      BY <1>3, <1>4, <1>7, <3>1, <3>2 DEF Live
  <2> QED
    BY <1>7, <2>1 DEF Buried
<1>9. Numbered(st, {})
  <2>1. \A g, h \in Shared : g = h /\ st.live[g].seq = 1 /\ n = 1
    BY <1>1, <1>2, <1>3, <1>7, UidAssumption DEF Gid
  <2> QED
    BY <1>1, <1>7, <1>8, <2>1 DEF Numbered
<1>10. Sound(st)
  BY <1>7, <1>8, <1>9, FS_EmptySet DEF Sound, Exclusive
<1> QED
  BY <1>1, <1>10 DEF n, st, rows

LEMMA UidInitSane == UidInit => Sane
<1> SUFFICES ASSUME UidInit PROVE Sane
  OBVIOUS
<1> DEFINE n == Cardinality(Shared)
           st == [EmptyStore EXCEPT !.live = [g \in Gid |-> IF g \in Shared THEN HeldAlready ELSE NoRow],
                                    !.counter = n]
<1>1. Sound(st) /\ n \in Nat
  BY SharedSound
<1>2. store = [p \in Peer |-> st] /\ checkpoint = [c \in {Cursor[w] : w \in Worker} |-> n]
  BY DEF UidInit
<1> HIDE DEF st, n
<1>3. Graphs
  BY <1>1, <1>2 DEF Graphs, Sound
<1>4. Passes
  BY Idles DEF Passes, UidInit, Carried
<1>5. Counts
  <2>1. writes = 0 /\ aborts = 0
    BY DEF UidInit
  <2> QED
    BY <1>1, <1>2, <2>1, ReplicationAssumption DEF Counts
<1> QED
  BY <1>3, <1>4, <1>5 DEF Sane

LEMMA UidInitSafe == UidInit => UidSafe
<1> SUFFICES ASSUME UidInit PROVE UidSafe
  OBVIOUS
<1>1. /\ uids = [p \in Peer |-> [g \in Gid |-> NoUid]]
      /\ marks = [p \in Peer |-> {}]
      /\ carried = [w \in Worker |-> {}]
      /\ claim = [g \in Gid |-> NoUid]
      /\ pass = [w \in Worker |-> Idle]
  BY DEF UidInit
<1>2. UidTypes
  BY <1>1, FS_EmptySet DEF UidTypes
<1>3. Owned
  BY <1>1 DEF Owned
<1>4. Fitting
  BY <1>1 DEF Fitting, Fits, Live
<1>5. Bundles /\ Packed
  BY <1>1, Idles DEF Bundles, Packed, Packs
<1>6. Unclaimed /\ UniqueUids
  BY <1>1 DEF Unclaimed, UniqueUids
<1> QED
  BY <1>2, <1>3, <1>4, <1>5, <1>6, UidInitSane DEF UidSafe

\* What was live or deleted anywhere is one or the other ever after.
LEMMA SeenOne ==
    ASSUME NEW st, NEW new, Enters(st, new), NEW g \in Gid, g \in Live(st) \cup Buried(st)
    PROVE  g \in Live(new) \cup Buried(new)
<1>1. CASE Shown(st, g) = Shown(new, g)
  <2>1. /\ st.live[g].rev = new.live[g].rev
        /\ {t.rev : t \in {u \in st.tombs : u.gid = g}} = {t.rev : t \in {u \in new.tombs : u.gid = g}}
    BY <1>1 DEF Shown
  <2>2. CASE g \in Live(st)
    BY <2>1, <2>2 DEF Live
  <2>3. CASE g \in Buried(st)
    <3>1. PICK t \in st.tombs : t.gid = g
      BY <2>3 DEF Buried
    <3>2. t.rev \in {x.rev : x \in {u \in new.tombs : u.gid = g}}
      BY <2>1, <3>1
    <3> QED
      BY <3>2 DEF Buried
  <2> QED
    BY <2>2, <2>3
<1>2. CASE Shown(st, g) # Shown(new, g)
  <2>1. PICK r \in FeedRows(new, Unfiltered) : r.gid = g
    BY <1>2 DEF Enters
  <2> QED
    BY <2>1 DEF FeedRows, Selected, Buried
<1> QED
  BY <1>1, <1>2

LEMMA SeenStays ==
    ASSUME Graphs, OneChanges \/ UNCHANGED store
    PROVE  \A g \in Gid : Unseen(g)' => Unseen(g)
<1>1. \A p \in Peer : store'[p] = store[p] \/ Enters(store[p], store'[p])
  BY OneChanged1 DEF Changed, Advances
<1>2. \A p \in Peer, g \in Gid : g \in Live(store[p]) \cup Buried(store[p]) =>
                                 g \in Live(store'[p]) \cup Buried(store'[p])
  <2> TAKE p \in Peer, g \in Gid
  <2>1. CASE store'[p] = store[p]
    BY <2>1
  <2>2. CASE Enters(store[p], store'[p])
    <3> DEFINE st == store[p]
               new == store'[p]
    <3> HIDE DEF st, new
    <3>1. Enters(st, new)
      BY <2>2 DEF st, new
    <3>2. g \in Live(st) \cup Buried(st) => g \in Live(new) \cup Buried(new)
      BY <3>1, SeenOne
    <3> QED
      BY <3>2 DEF st, new
  <2> QED
    BY <1>1, <2>1, <2>2
<1> QED
  BY <1>2 DEF Unseen

\* Bodies that stay under way fit as they did.
LEMMA StillBundled ==
    ASSUME UidTypes, Bundles, Graphs, OneChanges \/ UNCHANGED store,
           \A w \in Worker : carried'[w] \subseteq carried[w],
           AllMarks \subseteq AllMarks', claim' = claim
    PROVE  Bundles'
<1>1. \A g \in Gid : Unseen(g)' => Unseen(g)
  BY SeenStays
<1>2. ASSUME NEW w \in Worker, NEW b \in carried'[w]
      PROVE  ~Unseen(b.gid)' /\ Fits(claim', AllMarks', b.gid, b.uid)
  <2>1. b \in carried[w] /\ b.gid \in Gid
    BY <1>2 DEF UidTypes, Body
  <2>2. ~Unseen(b.gid) /\ Fits(claim, AllMarks, b.gid, b.uid)
    BY <2>1 DEF Bundles
  <2> HIDE DEF AllMarks
  <2> QED
    BY <1>1, <2>1, <2>2, FitsOn
<1> QED
  BY <1>2 DEF Bundles

\* Rows that stay fit as they did.
LEMMA StillFitting ==
    ASSUME Fitting, AllMarks \subseteq AllMarks', claim' = claim,
           \A p \in Peer : \A g \in Live(store'[p]) : g \in Live(store[p]) /\ uids'[p][g] = uids[p][g]
    PROVE  Fitting'
<1>1. ASSUME NEW p \in Peer, NEW g \in Live(store'[p])
      PROVE  Fits(claim', AllMarks', g, uids'[p][g])
  <2>1. Fits(claim, AllMarks, g, uids[p][g])
    BY DEF Fitting
  <2> HIDE DEF AllMarks
  <2> QED
    BY <2>1, FitsOn
<1> QED
  BY <1>1 DEF Fitting

-----------------------------------------------------------------------------
\* The steps.

\* An element without a uid that is given one takes nothing from the others.
LEMMA FitsBeside ==
    ASSUME NEW c, NEW d, NEW M, NEW g \in Gid, c[g] = NoUid, \A k \in Gid \ {g} : d[k] = c[k],
           NEW h \in Gid \ {g}, NEW x, Fits(c, M, h, x)
    PROVE  Fits(d, M, h, x)
<1>1. d[h] = c[h] /\ Kin(h) \subseteq Gid
  BY OfOneTable
<1>2. Lowest(d, h) => x = c[h]
  <2>1. CASE c[h] = NoUid
    BY <2>1 DEF Fits
  <2>2. CASE c[h] # NoUid
    BY <1>1, <2>2 DEF Fits, Lowest
  <2> QED
    BY <2>1, <2>2
<1> QED
  BY <1>1, <1>2 DEF Fits

LEMMA CreateSafe ==
    ASSUME UidSafe, Sane', NEW p \in Peer, NEW g \in Gid, NEW c \in Content,
           NEW u \in Uid \cup {NoUid}, UidCreate(p, g, c, u)
    PROVE  UidSafe'
<1>1. /\ Create(p, g, c) /\ Unseen(g)
      /\ u # NoUid => \A h \in Kin(g) : uids[p][h] # u
      /\ claim' = [claim EXCEPT ![g] = u]
      /\ marks' = marks /\ carried' = carried /\ pass' = pass
  BY DEF UidCreate, Create, LocalWrite
<1>2. uids' = [uids EXCEPT ![p][g] = u]
  BY DEF UidCreate
<1>3. /\ UidTypes /\ Owned /\ Fitting /\ Bundles /\ Packed /\ Unclaimed /\ UniqueUids /\ Graphs
  BY DEF UidSafe, Sane
<1>4. /\ uids' \in [Peer -> [Gid -> Uid \cup {NoUid}]] /\ uids'[p][g] = u
      /\ \A q \in Peer, h \in Gid : q # p \/ h # g => uids'[q][h] = uids[q][h]
  BY <1>2, <1>3 DEF UidTypes
<1>5. /\ claim' \in [Gid -> Uid \cup {NoUid}] /\ claim'[g] = u /\ claim[g] = NoUid
      /\ \A h \in Gid \ {g} : claim'[h] = claim[h]
  BY <1>1, <1>3 DEF UidTypes, Unclaimed
<1>6. /\ \A q \in Peer \ {p} : store'[q] = store[q]
      /\ Live(store'[p]) = Live(store[p]) \cup {g}
  <2> DEFINE st == store[p]
             new == Write(st, g, c)
  <2>1. store' = [store EXCEPT ![p] = new] /\ g \notin Buried(st)
    BY <1>1 DEF Create, LocalWrite, Unseen
  <2>2. Sound(st) /\ store \in [Peer -> Store]
    BY <1>3 DEF Graphs
  <2> HIDE DEF st
  <2>3. Live(new) = Live(st) \cup {g}
    BY <2>1, <2>2, WriteAdvances
  <2> HIDE DEF new
  <2> QED
    BY <2>1, <2>2, <2>3 DEF st
<1>7. OneChanges
  BY <1>1, <1>3, CreateChanges
<1>8. \A h \in Gid : Unseen(h)' => Unseen(h) /\ h # g
  <2>1. g \in Live(store'[p])
    BY <1>6
  <2> QED
    BY <1>3, <1>7, <2>1, SeenStays DEF Unseen
<1>9. AllMarks' = AllMarks
  BY <1>1 DEF AllMarks
<1>10. UidTypes'
  BY <1>1, <1>3, <1>4, <1>5 DEF UidTypes
<1>11. Owned'
  BY <1>3, <1>4, <1>5 DEF Owned
<1>12. Fitting'
  <2> SUFFICES ASSUME NEW q \in Peer, NEW h \in Live(store'[q])
               PROVE  Fits(claim', AllMarks', h, uids'[q][h])
    BY DEF Fitting
  <2>1. h \in Gid
    BY DEF Live
  <2>2. CASE h = g
    <3>1. q = p
      BY <1>1, <1>6, <2>2 DEF Unseen
    <3> QED
      BY <1>4, <1>5, <2>2, <3>1 DEF Fits
  <2>3. CASE h # g
    <3>1. h \in Live(store[q]) /\ uids'[q][h] = uids[q][h]
      BY <1>4, <1>6, <2>1, <2>3
    <3>2. Fits(claim, AllMarks, h, uids[q][h])
      BY <1>3, <3>1 DEF Fitting
    <3> QED
      BY <1>5, <1>9, <2>1, <2>3, <3>1, <3>2, FitsBeside
  <2> QED
    BY <2>2, <2>3
<1>13. Bundles'
  <2> SUFFICES ASSUME NEW w \in Worker, NEW b \in carried'[w]
               PROVE  ~Unseen(b.gid)' /\ Fits(claim', AllMarks', b.gid, b.uid)
    BY DEF Bundles
  <2>1. b \in carried[w] /\ b.gid \in Gid
    BY <1>1, <1>3 DEF UidTypes, Body
  <2>2. ~Unseen(b.gid) /\ Fits(claim, AllMarks, b.gid, b.uid)
    BY <1>3, <2>1 DEF Bundles
  <2>3. b.gid # g
    BY <1>1, <2>2
  <2> QED
    BY <1>5, <1>8, <1>9, <2>1, <2>2, <2>3, FitsBeside
<1>14. Packed'
  BY <1>1, <1>3 DEF Packed
<1>15. Unclaimed'
  <2>1. g \notin Placed
    BY <1>1 DEF Create
  <2> QED
    BY <1>3, <1>5, <1>8, <2>1 DEF Unclaimed
<1>16. UniqueUids'
  <2> SUFFICES ASSUME NEW q \in Peer, NEW k \in Gid, NEW h \in Gid, k \in Kin(h),
                      uids'[q][k] = uids'[q][h], uids'[q][k] # NoUid
               PROVE  k = h
    BY DEF UniqueUids
  <2>1. CASE q # p \/ (k # g /\ h # g)
    BY <1>3, <1>4, <2>1 DEF UniqueUids
  <2>2. CASE q = p /\ (k = g \/ h = g)
    BY <1>1, <1>4, <2>2, OfOneTable
  <2> QED
    BY <2>1, <2>2
<1> QED
  BY <1>10, <1>11, <1>12, <1>13, <1>14, <1>15, <1>16 DEF UidSafe

LEMMA EditSafe ==
    ASSUME UidSafe, Sane', NEW p \in Peer, NEW g \in Gid, NEW c \in Content, UidEdit(p, g, c)
    PROVE  UidSafe'
<1>1. /\ Edit(p, g, c) /\ g \in Live(store[p]) /\ pass' = pass
      /\ uids' = uids /\ claim' = claim /\ marks' = marks /\ carried' = carried
  BY DEF UidEdit, Edit, LocalWrite, uidVars
<1>2. /\ UidTypes /\ Owned /\ Fitting /\ Bundles /\ Packed /\ Unclaimed /\ UniqueUids /\ Graphs
  BY DEF UidSafe, Sane
<1>3. \A q \in Peer : Live(store'[q]) \subseteq Live(store[q])
  <2> DEFINE st == store[p]
             new == Write(st, g, c)
  <2>1. store' = [store EXCEPT ![p] = new]
    BY <1>1 DEF Edit, LocalWrite
  <2>2. Sound(st) /\ store \in [Peer -> Store] /\ g \in Live(st)
    BY <1>1, <1>2 DEF Graphs
  <2> HIDE DEF st
  <2>3. g \notin Buried(st)
    BY <2>2 DEF Sound, Exclusive
  <2>4. Live(new) = Live(st)
    BY <2>2, <2>3, WriteAdvances
  <2> HIDE DEF new
  <2> QED
    BY <2>1, <2>2, <2>4 DEF st
<1>4. OneChanges
  BY <1>1, <1>2, EditChanges
<1>5. AllMarks' = AllMarks
  BY <1>1 DEF AllMarks
<1>6. Fitting'
  BY <1>1, <1>2, <1>3, <1>5, StillFitting
<1>7. Bundles'
  BY <1>1, <1>2, <1>4, <1>5, StillBundled
<1>8. Unclaimed'
  BY <1>1, <1>2, <1>4, SeenStays DEF Unclaimed
<1> QED
  BY <1>1, <1>2, <1>6, <1>7, <1>8 DEF UidSafe, UidTypes, Owned, Packed, UniqueUids

LEMMA DropSafe ==
    ASSUME UidSafe, Sane', NEW p \in Peer, NEW g \in Gid, UidDrop(p, g)
    PROVE  UidSafe'
<1>1. /\ DropElement(p, g) /\ pass' = pass
      /\ claim' = claim /\ marks' = marks /\ carried' = carried
  BY DEF UidDrop, DropElement, LocalWrite
<1>2. /\ UidTypes /\ Owned /\ Fitting /\ Bundles /\ Packed /\ Unclaimed /\ UniqueUids /\ Graphs
  BY DEF UidSafe, Sane
<1> DEFINE column == [h \in Gid |-> IF h \in Live(store'[p]) THEN uids[p][h] ELSE NoUid]
<1>3. uids' = [uids EXCEPT ![p] = column]
  BY DEF UidDrop
<1>4. /\ column \in [Gid -> Uid \cup {NoUid}]
      /\ \A h \in Gid : column[h] \in {NoUid, uids[p][h]}
      /\ \A h \in Live(store'[p]) : column[h] = uids[p][h]
  BY <1>2 DEF UidTypes, Live
<1> HIDE DEF column
<1>5. /\ uids' \in [Peer -> [Gid -> Uid \cup {NoUid}]]
      /\ \A q \in Peer, h \in Gid : uids'[q][h] \in {NoUid, uids[q][h]}
      /\ \A q \in Peer : \A h \in Live(store'[q]) : uids'[q][h] = uids[q][h]
  BY <1>2, <1>3, <1>4 DEF UidTypes, Live
<1>6. \A q \in Peer : Live(store'[q]) \subseteq Live(store[q])
  <2>1. PICK new \in Drop(store[p], g) : store' = [store EXCEPT ![p] = new] /\ g \in Live(store[p])
    BY <1>1 DEF DropElement, LocalWrite
  <2> DEFINE st == store[p]
  <2>2. Sound(st) /\ store \in [Peer -> Store] /\ g \in Live(st) /\ new \in Drop(st, g)
    BY <1>2, <2>1 DEF Graphs
  <2> HIDE DEF st
  <2>3. Drops(st, new)
    BY <2>2, Dropped
  <2>4. Live(new) \subseteq Live(st)
    BY <2>3 DEF Drops
  <2> QED
    BY <2>1, <2>2, <2>4 DEF st
<1>7. OneChanges
  BY <1>1, <1>2, DropChanges
<1>8. AllMarks' = AllMarks
  BY <1>1 DEF AllMarks
<1>9. Fitting'
  BY <1>1, <1>2, <1>5, <1>6, <1>8, StillFitting
<1>10. Bundles'
  BY <1>1, <1>2, <1>7, <1>8, StillBundled
<1>11. Unclaimed'
  BY <1>1, <1>2, <1>7, SeenStays DEF Unclaimed
<1>12. Owned' /\ UniqueUids'
  BY <1>1, <1>2, <1>5 DEF Owned, UniqueUids
<1> QED
  BY <1>1, <1>2, <1>5, <1>9, <1>10, <1>11, <1>12 DEF UidSafe, UidTypes, Packed

\* A step of a pass that leaves the graphs alone.
LEMMA PassSafe ==
    ASSUME UidSafe, Sane', UNCHANGED store, UNCHANGED <<uids, marks, claim>>,
           UidTypes', Bundles', Packed'
    PROVE  UidSafe'
<1>1. /\ Owned /\ Fitting /\ Unclaimed /\ UniqueUids
  BY DEF UidSafe
<1>2. Owned' /\ UniqueUids'
  BY <1>1 DEF Owned, UniqueUids
<1>3. Fitting'
  <2>1. AllMarks' = AllMarks
    BY DEF AllMarks
  <2> QED
    BY <1>1, <2>1 DEF Fitting
<1>4. Unclaimed'
  BY <1>1 DEF Unclaimed, Unseen
<1> QED
  BY <1>2, <1>3, <1>4 DEF UidSafe

LEMMA StopSafe ==
    ASSUME UidSafe, Sane', NEW w \in Worker, UidStop(w)
    PROVE  UidSafe'
<1>1. /\ UNCHANGED store /\ UNCHANGED <<uids, marks, claim>>
      /\ pass' = [pass EXCEPT ![w] = Idle] /\ carried' = [carried EXCEPT ![w] = {}]
  BY DEF UidStop, Reject, Abort
<1>2. UidTypes /\ Bundles /\ Packed /\ Graphs /\ Passes
  BY DEF UidSafe, Sane
<1>3. UidTypes'
  BY <1>1, <1>2, FS_EmptySet DEF UidTypes
<1>4. AllMarks' = AllMarks
  BY <1>1 DEF AllMarks
<1>5. Bundles'
  <2>1. \A v \in Worker : carried'[v] \subseteq carried[v]
    BY <1>1, <1>2 DEF UidTypes
  <2> QED
    BY <1>1, <1>2, <1>4, <2>1, StillBundled
<1>6. Packed'
  <2>1. Packs(Idle, {})
    BY Idles DEF Packs
  <2>2. /\ pass'[w] = Idle /\ carried'[w] = {}
        /\ \A v \in Worker \ {w} : pass'[v] = pass[v] /\ carried'[v] = carried[v]
    BY <1>1, <1>2 DEF Passes, UidTypes
  <2> QED
    BY <1>2, <2>1, <2>2 DEF Packed
<1> QED
  BY <1>1, <1>3, <1>5, <1>6, PassSafe

\* What _bulk_get answers with.
LEMMA BodiesAre ==
    ASSUME UidTypes, NEW p \in Peer, NEW docs \in SUBSET Leaf, IsFiniteSet(docs)
    PROVE  /\ Bodies(p, docs) \in SUBSET Body /\ IsFiniteSet(Bodies(p, docs))
           /\ {Doc(b) : b \in Bodies(p, docs)} = docs
           /\ \A b \in Bodies(p, docs) : \E d \in docs : b.gid = d.gid /\ b.uid = uids[p][d.gid]
<1> DEFINE body(d) == [gid |-> d.gid, rev |-> d.rev, uid |-> uids[p][d.gid]]
           all == {body(d) : d \in docs}
           f == [d \in docs |-> body(d)]
<1>1. Bodies(p, docs) = all
  BY DEF Bodies
<1>2. \A d \in docs : body(d) \in Body /\ d.gid \in Gid
  BY DEF UidTypes, Body, Leaf
<1>3. f \in Surjection(docs, all)
  BY DEF Surjection
<1>4. IsFiniteSet(all)
  BY <1>3, FS_Surjection
<1>5. \A d \in docs : Doc(body(d)) = d /\ body(d).gid = d.gid /\ body(d).uid = uids[p][d.gid]
  BY DEF Doc, Leaf
<1> HIDE DEF body
<1>6. {Doc(b) : b \in all} = docs
  BY <1>5
<1> QED
  BY <1>1, <1>2, <1>4, <1>5, <1>6

LEMMA QuietSafe ==
    ASSUME UidSafe, Sane', NEW w \in Worker, UidQuiet(w)
    PROVE  UidSafe'
<1>1. /\ UNCHANGED store /\ UNCHANGED <<uids, marks, claim>> /\ carried' = carried
      /\ Changes(w) \/ AskMissing(w) \/ WriteCheckpoint(w)
  BY DEF UidQuiet, uidVars, Changes, AskMissing, WriteCheckpoint
<1>2. UidTypes /\ Bundles /\ Packed /\ Sane /\ Graphs /\ Passes
  BY DEF UidSafe, Sane
<1>3. AllMarks' = AllMarks
  BY <1>1 DEF AllMarks
<1>4. Bundles'
  BY <1>1, <1>2, <1>3, StillBundled
<1>5. UidTypes'
  BY <1>1, <1>2 DEF UidTypes
<1>6. carried[w] = {}
  <2>1. pass[w].call # "bulkDocs"
    BY <1>1 DEF Changes, AskMissing, WriteCheckpoint
  <2> QED
    BY <1>2, <2>1 DEF Packed, Packs
<1>7. \E m : Carried(m) /\ pass' = [pass EXCEPT ![w] = m] /\ Packs(m, {})
  <2>1. CASE Changes(w)
    <3> DEFINE m == Offer(store[Source[w]], checkpoint[Cursor[w]], Limit[w], Filter[w])
    <3>1. Carried(m) /\ Turns(w, At(m, AfterFeed(m)))
      BY <1>2, <2>1, ChangesTurns
    <3> HIDE DEF m
    <3>2. At(m, AfterFeed(m)).call = AfterFeed(m) /\ At(m, AfterFeed(m)).docs = m.docs
      BY <3>1, NextCalled, Onward
    <3>3. AfterFeed(m) = "bulkDocs" => m.docs = {}
      BY DEF AfterFeed
    <3>4. Packs(At(m, AfterFeed(m)), {})
      BY <3>2, <3>3 DEF Packs
    <3> QED
      BY <3>1, <3>4 DEF Turns
  <2>2. CASE AskMissing(w)
    <3> DEFINE m == WithDocs(pass[w], RevsDiff(store[Target[w]], pass[w].docs))
    <3>1. Carried(m) /\ Turns(w, At(m, AfterDiff(m)))
      BY <1>2, <2>2, AskMissingTurns
    <3> HIDE DEF m
    <3>2. At(m, AfterDiff(m)).call = AfterDiff(m) /\ At(m, AfterDiff(m)).docs = m.docs
      BY <3>1, NextCalled, Onward
    <3>3. AfterDiff(m) = "bulkDocs" => m.docs = {}
      BY DEF AfterDiff
    <3>4. Packs(At(m, AfterDiff(m)), {})
      BY <3>2, <3>3 DEF Packs
    <3> QED
      BY <3>1, <3>4 DEF Turns
  <2>3. CASE WriteCheckpoint(w)
    BY <2>3, Idles DEF WriteCheckpoint, Packs
  <2> QED
    BY <1>1, <2>1, <2>2, <2>3
<1>8. Packed'
  <2>1. PICK m : Carried(m) /\ pass' = [pass EXCEPT ![w] = m] /\ Packs(m, {})
    BY <1>7
  <2>2. pass'[w] = m /\ \A v \in Worker \ {w} : pass'[v] = pass[v]
    BY <1>2, <2>1, TurnedPasses
  <2> QED
    BY <1>1, <1>2, <1>6, <2>1, <2>2 DEF Packed
<1> QED
  BY <1>1, <1>4, <1>5, <1>8, PassSafe

LEMMA FetchSafe ==
    ASSUME UidSafe, Sane', NEW w \in Worker, UidFetch(w)
    PROVE  UidSafe'
<1> DEFINE src == Source[w]
           docs == LiveBodies(store[src], Gids(pass[w].docs))
           bodies == Bodies(src, docs)
           m == WithDocs(pass[w], docs)
<1>1. /\ UNCHANGED store /\ UNCHANGED <<uids, marks, claim>>
      /\ Fetch(w) /\ carried' = [carried EXCEPT ![w] = bodies]
  BY DEF UidFetch, Fetch
<1>2. UidTypes /\ Bundles /\ Packed /\ Fitting /\ Sane /\ Graphs /\ Passes
  BY DEF UidSafe, Sane
<1>3. Carried(m) /\ Turns(w, At(m, AfterGet(m))) /\ m.docs = docs
  BY <1>1, <1>2, FetchTurns
<1>4. src \in Peer /\ docs \in SUBSET Leaf /\ IsFiniteSet(docs)
  BY <1>3, ReplicationAssumption, AsParcel DEF Carried
<1>5. /\ bodies \in SUBSET Body /\ IsFiniteSet(bodies) /\ {Doc(b) : b \in bodies} = docs
      /\ \A b \in bodies : \E d \in docs : b.gid = d.gid /\ b.uid = uids[src][d.gid]
  <2> HIDE DEF docs, src
  <2> QED
    BY <1>2, <1>4, BodiesAre
<1>6. \A d \in docs : d.gid \in Live(store[src])
  BY DEF LiveBodies
<1> HIDE DEF src, docs, bodies, m
<1>7. /\ carried'[w] = bodies /\ \A v \in Worker \ {w} : carried'[v] = carried[v]
      /\ carried' \in [Worker -> SUBSET Body]
  BY <1>1, <1>2, <1>5 DEF UidTypes
<1>8. UidTypes'
  BY <1>1, <1>2, <1>5, <1>7 DEF UidTypes
<1>9. AllMarks' = AllMarks
  BY <1>1 DEF AllMarks
<1>10. Bundles'
  <2> SUFFICES ASSUME NEW v \in Worker, NEW b \in carried'[v]
               PROVE  ~Unseen(b.gid)' /\ Fits(claim', AllMarks', b.gid, b.uid)
    BY DEF Bundles
  <2>1. CASE v = w
    <3>1. b.gid \in Live(store[src]) /\ b.uid = uids[src][b.gid]
      BY <1>5, <1>6, <1>7, <2>1
    <3>2. Fits(claim, AllMarks, b.gid, b.uid)
      BY <1>2, <1>4, <3>1 DEF Fitting
    <3>3. ~Unseen(b.gid)'
      BY <1>1, <1>4, <3>1 DEF Unseen
    <3> QED
      BY <1>1, <1>9, <3>2, <3>3
  <2>2. CASE v # w
    <3>1. ~Unseen(b.gid) /\ Fits(claim, AllMarks, b.gid, b.uid)
      BY <1>2, <1>7, <2>2 DEF Bundles
    <3>2. ~Unseen(b.gid)'
      BY <1>1, <3>1 DEF Unseen
    <3> QED
      BY <1>1, <1>9, <3>1, <3>2
  <2> QED
    BY <2>1, <2>2
<1>11. Packs(At(m, AfterGet(m)), bodies)
  <2>1. At(m, AfterGet(m)).call = AfterGet(m) /\ At(m, AfterGet(m)).docs = m.docs
    BY <1>3, NextCalled, Onward
  <2>2. AfterGet(m) # "bulkDocs" => m.docs = {}
    BY Onward
  <2>3. docs = {} => bodies = {}
    BY <1>5
  <2> QED
    BY <1>3, <1>5, <2>1, <2>2, <2>3 DEF Packs
<1>12. Packed'
  <2>1. pass'[w] = At(m, AfterGet(m)) /\ \A v \in Worker \ {w} : pass'[v] = pass[v]
    BY <1>2, <1>3, TurnedPasses DEF Turns
  <2> QED
    BY <1>2, <1>7, <1>11, <2>1 DEF Packed
<1> QED
  BY <1>1, <1>8, <1>10, <1>12, PassSafe

\* The column once the rows have landed, before any item is reconciled.
LEMMA RelandedColumn ==
    ASSUME UidSafe, NEW p \in Peer, NEW after, NEW items \in SUBSET Body,
           Live(after) \subseteq Live(store[p]) \cup Gids(items)
    PROVE  Column(claim, AllMarks, Live(after), marks[p],
                  [uids |-> Relanded(p, after, items), marks |-> marks[p]], Gids(items))
<1> DEFINE column == Relanded(p, after, items)
           s == [uids |-> column, marks |-> marks[p]]
<1>1. UidTypes /\ Owned /\ Fitting /\ UniqueUids
  BY DEF UidSafe
<1>2. /\ \A g \in Gid : column[g] \in {NoUid, uids[p][g]}
      /\ \A g \in Live(after) \ Gids(items) : column[g] = uids[p][g]
      /\ column \in [Gid -> Uid \cup {NoUid}]
  BY <1>1 DEF Relanded, UidTypes, Live
<1> HIDE DEF column
<1>3. s.uids = column /\ s.marks = marks[p] /\ marks[p] \subseteq Gid \X (Uid \cup {NoUid})
  BY <1>1 DEF UidTypes
<1>4. \A g \in Gid : column[g] \in {NoUid, claim[g]}
  BY <1>1, <1>2 DEF Owned
<1>5. ASSUME NEW g \in Live(after) \ Gids(items)
      PROVE  Fits(claim, AllMarks \cup marks[p], g, column[g])
  <2>1. Fits(claim, AllMarks, g, uids[p][g])
    BY <1>1 DEF Fitting
  <2> HIDE DEF AllMarks
  <2> QED
    BY <1>2, <2>1, FitsOn
<1>6. Sole(column)
  BY <1>1, <1>2 DEF Sole, UniqueUids
<1> HIDE DEF AllMarks
<1>7. s = [uids |-> s.uids, marks |-> s.marks]
  OBVIOUS
<1> HIDE DEF s
<1>8. Column(claim, AllMarks, Live(after), marks[p], s, Gids(items))
  BY <1>2, <1>3, <1>4, <1>5, <1>6, <1>7 DEF Column
<1> QED
  BY <1>8 DEF s, column

LEMMA ApplySafe ==
    ASSUME UidSafe, Sane', NEW w \in Worker, UidApply(w)
    PROVE  UidSafe'
<1> DEFINE p == Target[w]
           docs == pass[w].docs
           items == {b \in carried[w] : Accepts(store[p], Doc(b))}
           s0 == [uids |-> Relanded(p, store'[p], items), marks |-> marks[p]]
<1>1. PICK s \in ApplyUids(s0, items) :
          uids' = [uids EXCEPT ![p] = s.uids] /\ marks' = [marks EXCEPT ![p] = s.marks]
  BY DEF UidApply
<1>2. /\ Apply(w) /\ carried' = [carried EXCEPT ![w] = {}] /\ claim' = claim
  BY DEF UidApply
<1>3. UidTypes /\ Owned /\ Fitting /\ Bundles /\ Packed /\ Unclaimed /\ UniqueUids /\ Sane /\ Graphs /\ Passes
  BY DEF UidSafe, Sane
<1>4. p \in Peer /\ docs \in SUBSET Leaf /\ IsFiniteSet(docs) /\ pass[w].deletes \in Seq(Leaf)
      /\ pass[w].losers \in SUBSET Leaf /\ IsFiniteSet(pass[w].losers)
  BY <1>3, ReplicationAssumption, AsParcel DEF Passes, Carried
<1>5. docs = {Doc(b) : b \in carried[w]} /\ items \in SUBSET Body /\ IsFiniteSet(items)
  <2>1. pass[w].call = "bulkDocs"
    BY <1>2 DEF Apply
  <2>2. items \subseteq carried[w]
    OBVIOUS
  <2>3. IsFiniteSet(items)
    BY <1>3, <2>2, FS_Subset DEF UidTypes
  <2> QED
    BY <1>3, <2>1, <2>2, <2>3 DEF Packed, Packs, UidTypes
<1>6. /\ Live(store'[p]) \subseteq Live(store[p]) \cup Gids(items)
      /\ \A q \in Peer \ {p} : store'[q] = store[q]
  <2>1. PICK new \in ApplyWire(store[p], docs, pass[w].deletes) : store' = [store EXCEPT ![p] = new]
    BY <1>2 DEF Apply, Land
  <2>2. Gids({d \in docs : Accepts(store[p], d)}) \subseteq Gids(items)
    BY <1>5 DEF Gids, Doc
  <2> DEFINE st == store[p]
             dels == pass[w].deletes
  <2>3. Sound(st) /\ store \in [Peer -> Store] /\ new \in ApplyWire(st, docs, dels) /\ dels \in Seq(Leaf)
    BY <1>3, <1>4, <2>1 DEF Graphs
  <2> HIDE DEF st, docs, dels
  <2>4. Live(new) \subseteq Live(st) \cup Gids({d \in docs : Accepts(st, d)})
    BY <1>4, <2>3, Applied
  <2> HIDE DEF items, p
  <2> QED
    BY <1>4, <2>1, <2>2, <2>3, <2>4 DEF st
<1>7. OneChanges
  BY <1>2, <1>3, AppliesChange
<1> DEFINE L == Live(store'[p])
<1>8. Column(claim, AllMarks, L, marks[p], s0, Gids(items))
  BY <1>4, <1>5, <1>6, RelandedColumn
<1>9. \A b \in items : Fits(claim, AllMarks, b.gid, b.uid)
  BY <1>3 DEF Bundles
<1>10. claim \in [Gid -> Uid \cup {NoUid}] /\ L \in SUBSET Gid
  BY <1>3 DEF UidTypes, Live
<1> HIDE DEF s0, L, items
<1>11. Column(claim, AllMarks, L, marks[p], s, {})
  <2> HIDE DEF p, AllMarks
  <2> QED
    BY <1>1, <1>5, <1>8, <1>9, <1>10, UidsApplied
<1>12. /\ s.uids \in [Gid -> Uid \cup {NoUid}] /\ s.marks \in SUBSET (Gid \X (Uid \cup {NoUid}))
       /\ \A g \in Gid : s.uids[g] \in {NoUid, claim[g]}
       /\ \A g \in L : Fits(claim, AllMarks \cup s.marks, g, s.uids[g])
       /\ Sole(s.uids) /\ marks[p] \subseteq s.marks
  BY <1>11 DEF Column
<1> HIDE DEF p
<1>13. /\ uids'[p] = s.uids /\ marks'[p] = s.marks
       /\ \A q \in Peer \ {p} : uids'[q] = uids[q] /\ marks'[q] = marks[q]
       /\ uids' \in [Peer -> [Gid -> Uid \cup {NoUid}]]
       /\ marks' \in [Peer -> SUBSET (Gid \X (Uid \cup {NoUid}))]
  BY <1>1, <1>3, <1>4, <1>12 DEF UidTypes
<1>14. AllMarks \cup s.marks \subseteq AllMarks'
  BY <1>4, <1>12, <1>13 DEF AllMarks
<1>15. UidTypes'
  BY <1>2, <1>3, <1>13, FS_EmptySet DEF UidTypes
<1>16. Owned'
  BY <1>2, <1>3, <1>12, <1>13 DEF Owned
<1>17. Fitting'
  <2> SUFFICES ASSUME NEW q \in Peer, NEW g \in Live(store'[q])
               PROVE  Fits(claim', AllMarks', g, uids'[q][g])
    BY DEF Fitting
  <2>1. CASE q = p
    <3>1. Fits(claim, AllMarks \cup s.marks, g, s.uids[g])
      BY <1>12, <2>1 DEF L
    <3> HIDE DEF AllMarks
    <3> QED
      BY <1>2, <1>13, <1>14, <2>1, <3>1, FitsOn
  <2>2. CASE q # p
    <3>1. Fits(claim, AllMarks, g, uids[q][g])
      BY <1>3, <1>6, <2>2 DEF Fitting
    <3> HIDE DEF AllMarks
    <3> QED
      BY <1>2, <1>13, <1>14, <2>2, <3>1, FitsOn
  <2> QED
    BY <2>1, <2>2
<1>18. Bundles'
  <2>1. \A v \in Worker : carried'[v] \subseteq carried[v]
    BY <1>2, <1>3 DEF UidTypes
  <2>2. AllMarks \subseteq AllMarks'
    BY <1>14
  <2> QED
    BY <1>2, <1>3, <1>7, <2>1, <2>2, StillBundled
<1>19. Packed'
  <2> DEFINE m == Emptied(pass[w], pass[w].losers)
  <2>1. Carried(m) /\ Turns(w, At(m, AfterGet(m))) /\ m.docs = {}
    <3>1. Land(w, docs, pass[w].deletes, pass[w].losers)
      BY <1>2 DEF Apply
    <3> QED
      BY <1>3, <1>4, <3>1, LandTurns
  <2> HIDE DEF m
  <2>2. At(m, AfterGet(m)).docs = {}
    BY <2>1, NextCalled, Onward
  <2>3. Packs(At(m, AfterGet(m)), {})
    BY <2>2 DEF Packs
  <2>4. pass'[w] = At(m, AfterGet(m)) /\ \A v \in Worker \ {w} : pass'[v] = pass[v]
    BY <1>3, <2>1, TurnedPasses DEF Turns
  <2>5. carried'[w] = {} /\ \A v \in Worker \ {w} : carried'[v] = carried[v]
    BY <1>2, <1>3 DEF UidTypes
  <2> QED
    BY <1>3, <2>3, <2>4, <2>5 DEF Packed
<1>20. Unclaimed'
  BY <1>2, <1>3, <1>7, SeenStays DEF Unclaimed
<1>21. UniqueUids'
  BY <1>3, <1>12, <1>13 DEF UniqueUids, Sole
<1> QED
  BY <1>15, <1>16, <1>17, <1>18, <1>19, <1>20, <1>21 DEF UidSafe

-----------------------------------------------------------------------------
\* The theorems.

LEMMA UidStep ==
    ASSUME UidSafe, [UidNext]_allVars
    PROVE  UidSafe'
<1>1. Sane
  BY DEF UidSafe
<1>2. [Next]_vars
  <2>1. CASE UNCHANGED allVars
    BY <2>1 DEF allVars
  <2>2. CASE UidNext
    BY <2>2, Zenon DEF UidNext, UidCreate, UidEdit, UidDrop, UidQuiet, UidFetch, UidApply, UidStop, Next, Advance
  <2> QED
    BY <2>1, <2>2
<1>3. Sane'
  BY <1>1, <1>2, SaneStep
<1>4. CASE UNCHANGED allVars
  <2>1. /\ UNCHANGED store /\ UNCHANGED <<uids, marks, claim>> /\ carried' = carried /\ pass' = pass
    BY <1>4 DEF allVars, uidVars, vars
  <2>2. UidTypes /\ Bundles /\ Packed /\ Graphs
    BY DEF UidSafe, Sane
  <2>3. AllMarks' = AllMarks
    BY <2>1 DEF AllMarks
  <2>4. Bundles'
    BY <2>1, <2>2, <2>3, StillBundled
  <2>5. UidTypes' /\ Packed'
    BY <2>1, <2>2 DEF UidTypes, Packed
  <2> QED
    BY <1>3, <2>1, <2>4, <2>5, PassSafe
<1>5. CASE UidNext
  BY <1>3, <1>5, CreateSafe, EditSafe, DropSafe, QuietSafe, FetchSafe, ApplySafe, StopSafe, Zenon DEF UidNext
<1> QED
  BY <1>4, <1>5

LEMMA AlwaysUidSafe == UidSpec => []UidSafe
<1>1. UidSafe /\ [UidNext]_allVars => UidSafe'
  BY UidStep
<1> QED
  BY <1>1, UidInitSafe, PTL DEF UidSpec

\* applyUids, UNIQUE(uid): whatever is created, dropped, brought back, sent twice or cut
\* short, no two elements of a graph share a uid, and the lowest gid that was given
\* one has it wherever it is live.
THEOREM LowestClaims == UidSpec => []LowestClaimHolds
<1>1. UidSafe => LowestClaimHolds
  BY DEF UidSafe, LowestClaimHolds, Fitting, Fits, Lowest
<1> QED
  BY <1>1, AlwaysUidSafe, PTL

\* applyUids, "never lost": an element without the uid it was given is marked
\* so in the shadow store of some graph.
THEOREM LossesMarked == UidSpec => []LossSurfaced
<1>1. UidSafe => LossSurfaced
  BY DEF UidSafe, LossSurfaced, Fitting, Fits, AllMarks
<1> QED
  BY <1>1, AlwaysUidSafe, PTL

\* applyUids, "a total, clock-free order both peers agree on, so they converge": while
\* nothing was dropped, graphs that show the same elements show the same uids.
THEOREM UidsConvergeUndropped == UidSpec => []UidsAgree
<1>1. ASSUME UidSafe, NeverDropped, Agree
      PROVE  SameUids
  <2> SUFFICES ASSUME NEW p \in Peer, NEW q \in Peer
               PROVE  uids[p] = uids[q]
    BY DEF SameUids
  <2>1. UidTypes /\ Owned /\ Fitting /\ Unclaimed /\ UniqueUids
    BY <1>1 DEF UidSafe
  <2>2. ASSUME NEW g \in Gid, claim[g] # NoUid
        PROVE  g \in Live(store[p]) /\ g \in Live(store[q])
    <3>1. ~Unseen(g) /\ g \notin Placed
      BY <2>1, <2>2 DEF Unclaimed
    <3>2. PICK r \in Peer : g \in Live(store[r]) \cup Buried(store[r])
      BY <3>1 DEF Unseen
    <3>3. g \in Live(store[r])
      BY <1>1, <3>2 DEF NeverDropped, Buried
    <3> QED
      BY <1>1, <3>1, <3>3 DEF Agree, Live
  <2>3. ASSUME NEW g \in Gid
        PROVE  uids[p][g] = uids[q][g]
    <3>1. uids[p][g] \in {NoUid, claim[g]} /\ uids[q][g] \in {NoUid, claim[g]}
      BY <2>1 DEF Owned
    <3>2. CASE claim[g] # NoUid
      <4> DEFINE rivals == {h \in Kin(g) : claim[h] = claim[g]}
      <4>1. rivals \in SUBSET Nat /\ rivals # {}
        BY OfOneTable, UidAssumption
      <4>2. PICK low \in rivals : \A h \in rivals : low <= h
        BY <4>1, Least
      <4>3. low \in Gid /\ low \in Kin(g) /\ g \in Kin(low) /\ Kin(low) = Kin(g) /\ claim[low] = claim[g]
        BY <4>2, OfOneTable
      <4>4. Lowest(claim, low)
        BY <4>2, <4>3 DEF Lowest
      <4>5. low \in Live(store[p]) /\ low \in Live(store[q])
        BY <2>2, <3>2, <4>3
      <4>6. uids[p][low] = claim[g] /\ uids[q][low] = claim[g]
        BY <2>1, <4>3, <4>4, <4>5 DEF Fitting, Fits
      <4> QED
        BY <2>1, <3>1, <3>2, <4>3, <4>6 DEF UniqueUids
    <3> QED
      BY <3>1, <3>2
  <2> QED
    BY <2>1, <2>3 DEF UidTypes
<1>2. UidSafe => UidsAgree
  BY <1>1 DEF UidsAgree
<1> QED
  BY <1>2, AlwaysUidSafe, PTL
=============================================================================
