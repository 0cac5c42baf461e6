--------------------------- MODULE BulkLoadProofs ---------------------------
(***************************************************************************)
(* What streaming loads promise for every set of loads, every document,    *)
(* policy and batch size, and any number of other writes and crashes: what *)
(* a running load has landed is journaled, a load is all or nothing, no    *)
(* edge hangs, rowids and uids stay unique, an undo takes no vertex but    *)
(* its load's own, and edges join what their document names.               *)
(***************************************************************************)
EXTENDS BulkLoad, FiniteSetTheorems, WellFoundedInduction, TLAPS

Fields == {"nextNode", "nextEdge", "empty", "nodeRows", "edgeRows"}
Batch(l, b) ==
    /\ DOMAIN b = Fields
    /\ \A r \in b.nodeRows : r.by = l
    /\ \A r \in b.edgeRows : r.by = l

\* What the steps rely on of the loads' own state.
Shape ==
    /\ phase \in [Load -> Phases]
    /\ next \in [Load -> Nat \ {0}]
    /\ DOMAIN loader = Load
    /\ \A l \in Load : next[l] <= Len(Document[l]) + 1 /\ Batch(l, loader[l])

InBatch(b, k) == (\E r \in b.nodeRows : r.doc = k) \/ (\E r \in b.edgeRows : r.doc = k)
\* Every element the source gave is in the batch, in the graph, or was taken by others.
Progress == \A l \in Load : phase[l] = "feeding" =>
    \A k \in 1 .. (next[l] - 1) : InBatch(loader[l], k) \/ Landed(l, k) \/ <<l, k>> \in lost

Whole == \A l \in Load : phase[l] = "done" =>
    \A k \in DOMAIN Document[l] : Landed(l, k) \/ <<l, k>> \in lost

NothingLeft == \A l \in Load : phase[l] \in {"idle", "undone"} =>
    (\A n \in nodes : n.by # l) /\ (\A e \in edges : e.by # l)

IInv == Shape /\ JournalCovers /\ NothingLeft /\ Progress /\ Whole

\* A new loader is empty.
LEMMA NewBatch ==
    ASSUME NEW l \in Load
    PROVE  Batch(l, NewLoader) /\ ~\E k : InBatch(NewLoader, k)
BY DEF NewLoader, Batch, Fields, InBatch

\* A buffered element is added to the batch, and nothing leaves it.
LEMMA Buffered ==
    ASSUME NEW l \in Load, NEW b, Batch(l, b), NEW k
    PROVE  LET c == Buffer(l, b, k)
           IN  /\ Batch(l, c) /\ InBatch(c, k)
               /\ \A j : InBatch(b, j) => InBatch(c, j)
<1> DEFINE vrow == IdOf(l, Document[l][k].id, b.nextNode)
           erow == IdOf(l, Document[l][k].id, b.nextEdge)
           v == [id |-> vrow.id, uid |-> vrow.uid, by |-> l, doc |-> k]
           e == [id |-> erow.id, uid |-> erow.uid, by |-> l, doc |-> k]
<1>1. CASE Document[l][k].kind = "vertex"
  <2> DEFINE c == BufferVertex(l, b, k)
  <2>1. DOMAIN c = Fields /\ c.edgeRows = b.edgeRows /\ c.nodeRows = b.nodeRows \union {v}
    BY DEF BufferVertex, Batch, Fields
  <2>2. v.by = l /\ v.doc = k
    OBVIOUS
  <2> HIDE DEF c, v
  <2>3. Batch(l, c) /\ InBatch(c, k) /\ \A j : InBatch(b, j) => InBatch(c, j)
    BY <2>1, <2>2 DEF Batch, InBatch
  <2> QED
    BY <1>1, <2>3 DEF Buffer, c
<1>2. CASE Document[l][k].kind # "vertex"
  <2> DEFINE c == BufferEdge(l, b, k)
  <2>1. DOMAIN c = Fields /\ c.nodeRows = b.nodeRows /\ c.edgeRows = b.edgeRows \union {e}
    BY DEF BufferEdge, Batch, Fields
  <2>2. e.by = l /\ e.doc = k
    OBVIOUS
  <2> HIDE DEF c, e
  <2>3. Batch(l, c) /\ InBatch(c, k) /\ \A j : InBatch(b, j) => InBatch(c, j)
    BY <2>1, <2>2 DEF Batch, InBatch
  <2> QED
    BY <1>2, <2>3 DEF Buffer, c
<1> QED
  BY <1>1, <1>2

\* A batch that lands adds rows of its load and nothing else, all of it.
LEMMA LandedRows ==
    ASSUME NEW l \in Load, NEW b, Batch(l, b), LandRows(l, b)
    PROVE  /\ nodes \subseteq nodes' /\ edges \subseteq edges'
           /\ \A n \in nodes' \ nodes : n.by = l /\ n \in b.nodeRows
           /\ \A e \in edges' \ edges : e.by = l /\ \E r \in b.edgeRows : e.id = r.id
           /\ \A k : InBatch(b, k) => Landed(l, k)'
<1>1. \A r \in b.edgeRows : LET e == EdgeRow(l, b, r) IN e.by = l /\ e.doc = r.doc /\ e.id = r.id
  BY DEF EdgeRow
<1>2. \A r \in b.edgeRows : EdgeRow(l, b, r) \in edges'
  BY DEF LandRows
<1>3. \A k : InBatch(b, k) => Landed(l, k)'
  BY <1>1, <1>2 DEF InBatch, Landed, LandRows, Batch
<1> QED
  BY <1>1, <1>3 DEF LandRows, Batch

\* An undo of L removes what L journaled and the edges it carried; what it removes
\* of a load that journals nothing, or is not in L, is lost to others.
LEMMA Undone ==
    ASSUME NEW L \in SUBSET Load, RollbackBulkLoads(L)
    PROVE  /\ nodes' \subseteq nodes /\ edges' \subseteq edges /\ journal' \subseteq journal
           /\ \A j \in journal : j \in journal' <=> j[1] \notin L
           /\ \A l \in L, n \in nodes' : <<l, "node", n.id>> \notin journal
           /\ \A l \in L, e \in edges' : <<l, "edge", e.id>> \notin journal
<1>1. ASSUME NEW l \in L, NEW kind, NEW n, <<l, kind, n>> \in journal
      PROVE  n \in Journaled(L, kind)
  <2>1. <<l, kind, n>>[3] = n
    OBVIOUS
  <2> QED
    BY <1>1, <2>1 DEF Journaled
<1>2. \A l \in L, n \in nodes' : <<l, "node", n.id>> \notin journal
  BY <1>1 DEF RollbackBulkLoads
<1>3. \A l \in L, e \in edges' : <<l, "edge", e.id>> \notin journal
  BY <1>1 DEF RollbackBulkLoads, Touches
<1> QED
  BY <1>2, <1>3 DEF RollbackBulkLoads

\* Whatever leaves the graph leaves "lost" behind, but for what L's own journal takes.
LEMMA Remembered ==
    ASSUME NEW L, LostBy(L), NEW l \in Load, NEW k, Landed(l, k),
           \/ l \notin L
           \/ \A j \in journal : j[1] # l
    PROVE  Landed(l, k)' \/ <<l, k>> \in lost'
<1>1. \A kind, n : ~(l \in L /\ <<l, kind, n>> \in journal)
  <2>1. \A kind, n : <<l, kind, n>>[1] = l
    OBVIOUS
  <2> QED
    BY <2>1
<1>2. ASSUME NEW n \in nodes, n.by = l, n.doc = k PROVE n \in nodes' \/ <<l, k>> \in lost'
  BY <1>1, <1>2 DEF LostBy, Others
<1>3. ASSUME NEW e \in edges, e.by = l, e.doc = k PROVE e \in edges' \/ <<l, k>> \in lost'
  BY <1>1, <1>3 DEF LostBy, Others
<1> QED
  BY <1>2, <1>3 DEF Landed

\* The steps of a load that leave the graph alone.
LEMMA BeginStep ==
    ASSUME BulkAssumption, IInv, NEW l \in Load, Begin(l)
    PROVE  IInv'
<1>1. Shape'
  BY NewBatch DEF IInv, Shape, Begin, store, BulkAssumption, Phases
<1>2. /\ \A m \in Load : phase'[m] = IF m = l THEN "feeding" ELSE phase[m]
      /\ nodes' = nodes /\ edges' = edges /\ journal' = journal
      /\ phase[l] \in {"idle", "undone"}
  BY DEF IInv, Shape, Begin, store
<1>3. JournalCovers'
  BY <1>2 DEF IInv, JournalCovers, NothingLeft, Running
<1>4. NothingLeft'
  BY <1>2 DEF IInv, NothingLeft
<1>5. Progress'
  <2>1. lost' = {x \in lost : x[1] # l}
    BY DEF Begin
  <2>2. ASSUME NEW m \in Load, m # l, phase'[m] = "feeding", NEW k \in 1 .. (next'[m] - 1)
        PROVE  InBatch(loader'[m], k) \/ Landed(m, k)' \/ <<m, k>> \in lost'
    <3>1. next'[m] = next[m] /\ loader'[m] = loader[m] /\ phase[m] = "feeding"
      BY <1>2, <2>2 DEF IInv, Shape, Begin
    <3>2. InBatch(loader[m], k) \/ Landed(m, k) \/ <<m, k>> \in lost
      BY <2>2, <3>1 DEF IInv, Progress
    <3>3. <<m, k>> \in lost => <<m, k>> \in lost'
      BY <2>1, <2>2
    <3>4. Landed(m, k) => Landed(m, k)'
      BY <1>2 DEF Landed
    <3> QED
      BY <3>1, <3>2, <3>3, <3>4
  <2>3. 1 .. (next'[l] - 1) = {}
    <3>1. next'[l] = 1
      BY DEF IInv, Shape, Begin
    <3> QED
      BY <3>1
  <2> QED
    BY <2>2, <2>3 DEF Progress, InBatch
<1>6. Whole'
  <2>1. lost' = {x \in lost : x[1] # l}
    BY DEF Begin
  <2>2. \A m \in Load : \A k : m # l /\ <<m, k>> \in lost => <<m, k>> \in lost'
    BY <2>1
  <2> QED
    BY <1>2, <2>2 DEF IInv, Whole, Landed
<1> QED
  BY <1>1, <1>3, <1>4, <1>5, <1>6 DEF IInv

LEMMA FailsStep ==
    ASSUME IInv, NEW l \in Load, phase[l] = "feeding", Fails(l)
    PROVE  IInv'
<1>1. Shape'
  BY DEF IInv, Shape, Fails, store, Phases
<1>2. JournalCovers' /\ NothingLeft'
  BY DEF IInv, JournalCovers, NothingLeft, Running, Fails, store, Shape
<1>3. Progress' /\ Whole'
  BY DEF IInv, Progress, Whole, Landed, Fails, store, Shape
<1> QED
  BY <1>1, <1>2, <1>3 DEF IInv

LEMMA FeedStep ==
    ASSUME BulkAssumption, IInv, NEW l \in Load, Feed(l)
    PROVE  IInv'
<1> DEFINE b == Buffer(l, loader[l], next[l])
<1>1. /\ Batch(l, b) /\ InBatch(b, next[l])
      /\ \A j : InBatch(loader[l], j) => InBatch(b, j)
  BY Buffered DEF IInv, Shape
<1>2. loader' = [loader EXCEPT ![l] = b] /\ next' = [next EXCEPT ![l] = @ + 1]
  BY DEF Feed
<1> HIDE DEF b
<1>3. Len(Document[l]) \in Nat
  BY DEF BulkAssumption
<1>4. Shape'
  BY <1>1, <1>2, <1>3 DEF IInv, Shape, Feed, store
<1>5. JournalCovers' /\ NothingLeft' /\ Whole'
  BY DEF IInv, JournalCovers, NothingLeft, Whole, Landed, Running, Feed, store
<1>6. Progress'
  <2> SUFFICES ASSUME NEW m \in Load, phase[m] = "feeding", NEW k \in 1 .. (next'[m] - 1)
               PROVE  InBatch(loader'[m], k) \/ Landed(m, k) \/ <<m, k>> \in lost
    BY DEF Progress, Landed, Feed, store
  <2>1. CASE m = l /\ k = next[l]
    BY <1>1, <1>2, <2>1 DEF IInv, Shape
  <2>2. CASE m = l /\ k # next[l]
    BY <1>1, <1>2, <2>2 DEF IInv, Shape, Progress
  <2>3. CASE m # l
    BY <1>2, <2>3 DEF IInv, Shape, Progress
  <2> QED
    BY <2>1, <2>2, <2>3
<1> QED
  BY <1>4, <1>5, <1>6 DEF IInv

\* A batch lands: its rows are journaled with it.
LEMMA CutStep ==
    ASSUME BulkAssumption, IInv, NEW l \in Load, Cut(l)
    PROVE  IInv'
<1> DEFINE b == Buffer(l, loader[l], next[l])
<1>1. CASE ~Lands(l, b) /\ Fails(l)
  BY <1>1, FailsStep DEF Cut
<1>2. CASE /\ LandBatch(l, b)
           /\ loader' = [loader EXCEPT ![l] = NewLoader']
           /\ next' = [next EXCEPT ![l] = @ + 1]
           /\ UNCHANGED <<phase, lost, bounds>>
  <2>1. /\ Batch(l, b) /\ InBatch(b, next[l])
        /\ \A j : InBatch(loader[l], j) => InBatch(b, j)
    BY Buffered DEF IInv, Shape
  <2>2. phase[l] = "feeding" /\ next[l] <= Len(Document[l]) /\ Len(Document[l]) \in Nat
    BY DEF Cut, BulkAssumption
  <2> HIDE DEF b
  <2>3. /\ nodes \subseteq nodes' /\ edges \subseteq edges'
        /\ \A n \in nodes' \ nodes : n.by = l /\ n \in b.nodeRows
        /\ \A e \in edges' \ edges : e.by = l /\ \E r \in b.edgeRows : e.id = r.id
        /\ \A k : InBatch(b, k) => Landed(l, k)'
    BY <1>2, <2>1, LandedRows DEF LandBatch
  <2>4. \A m \in Load : \A k : Landed(m, k) => Landed(m, k)'
    BY <2>3 DEF Landed
  <2>5. Batch(l, NewLoader')
    BY DEF NewLoader, Batch, Fields
  <2>6. Shape'
    BY <1>2, <2>2, <2>5 DEF IInv, Shape
  <2>7. JournalCovers'
    <3>1. \A r \in b.nodeRows : <<l, "node", r.id>> \in journal'
      BY <1>2 DEF LandBatch, JournalRows
    <3>2. \A r \in b.edgeRows : <<l, "edge", r.id>> \in journal'
      BY <1>2 DEF LandBatch, JournalRows
    <3>3. journal \subseteq journal' /\ \A j \in journal' \ journal : j[1] = l
      BY <1>2 DEF LandBatch, JournalRows
    <3> QED
      BY <1>2, <2>2, <2>3, <3>1, <3>2, <3>3 DEF IInv, JournalCovers, Running
  <2>8. NothingLeft'
    BY <1>2, <2>2, <2>3 DEF IInv, NothingLeft
  <2>9. Whole'
    BY <1>2, <2>4 DEF IInv, Whole
  <2>10. Progress'
    <3> SUFFICES ASSUME NEW m \in Load, phase[m] = "feeding", NEW k \in 1 .. (next'[m] - 1)
                 PROVE  InBatch(loader'[m], k) \/ Landed(m, k)' \/ <<m, k>> \in lost
      BY <1>2 DEF Progress
    <3>1. CASE m = l /\ k = next[l]
      BY <2>1, <2>3, <3>1
    <3>2. CASE m = l /\ k # next[l]
      <4>1. k \in 1 .. (next[l] - 1)
        BY <1>2, <3>2 DEF IInv, Shape
      <4>2. InBatch(loader[l], k) \/ Landed(l, k) \/ <<l, k>> \in lost
        BY <2>2, <4>1 DEF IInv, Progress
      <4> QED
        BY <2>1, <2>3, <2>4, <3>2, <4>2
    <3>3. CASE m # l
      BY <1>2, <2>4, <3>3 DEF IInv, Shape, Progress
    <3> QED
      BY <3>1, <3>2, <3>3
  <2> QED
    BY <2>6, <2>7, <2>8, <2>9, <2>10 DEF IInv
<1> QED
  BY <1>1, <1>2 DEF Cut

\* The last batch lands: the whole document is in, and the journal is gone.
LEMMA DoneStep ==
    ASSUME BulkAssumption, IInv, NEW l \in Load, Done(l)
    PROVE  IInv'
<1>1. CASE ~Lands(l, loader[l]) /\ Fails(l)
  BY <1>1, FailsStep DEF Done
<1>2. CASE /\ LandRows(l, loader[l])
           /\ journal' = {j \in journal : j[1] # l}
           /\ phase' = [phase EXCEPT ![l] = "done"]
           /\ UNCHANGED <<next, loader, lost, bounds>>
  <2>1. /\ phase[l] = "feeding" /\ next[l] > Len(Document[l]) /\ Len(Document[l]) \in Nat
        /\ DOMAIN Document[l] = 1 .. Len(Document[l]) /\ Batch(l, loader[l])
    BY DEF Done, BulkAssumption, IInv, Shape
  <2>2. /\ nodes \subseteq nodes' /\ edges \subseteq edges'
        /\ \A n \in nodes' \ nodes : n.by = l
        /\ \A e \in edges' \ edges : e.by = l
        /\ \A k : InBatch(loader[l], k) => Landed(l, k)'
    BY <1>2, <2>1, LandedRows
  <2>3. \A m \in Load : \A k : Landed(m, k) => Landed(m, k)'
    BY <2>2 DEF Landed
  <2>4. Shape'
    BY <1>2 DEF IInv, Shape, Phases
  <2>5. JournalCovers'
    <3>1. \A m \in Load \ {l} : \A kind, n : <<m, kind, n>> \in journal => <<m, kind, n>> \in journal'
      BY <1>2
    <3> QED
      BY <1>2, <2>2, <3>1 DEF IInv, JournalCovers, Running, Shape
  <2>6. NothingLeft'
    BY <1>2, <2>1, <2>2 DEF IInv, NothingLeft, Shape
  <2>7. Progress'
    BY <1>2, <2>3 DEF IInv, Progress, Shape
  <2>8. Whole'
    <3>1. ASSUME NEW k \in DOMAIN Document[l] PROVE Landed(l, k)' \/ <<l, k>> \in lost
      <4>1. k \in 1 .. (next[l] - 1)
        BY <2>1 DEF IInv, Shape
      <4> QED
        BY <2>1, <2>2, <2>3, <4>1 DEF IInv, Progress
    <3> QED
      BY <1>2, <2>3, <3>1 DEF IInv, Whole, Shape
  <2> QED
    BY <2>4, <2>5, <2>6, <2>7, <2>8 DEF IInv
<1> QED
  BY <1>1, <1>2 DEF Done

\* An undo: the loads of L that run end undone, with nothing left of them.
LEMMA UndoStep ==
    ASSUME IInv, NEW L \in SUBSET Load, RollbackBulkLoads(L), LostBy(L),
           phase' = [l \in Load |-> IF l \in L /\ Running(l) THEN "undone" ELSE phase[l]],
           UNCHANGED <<next, loader>>
    PROVE  IInv'
<1>1. /\ nodes' \subseteq nodes /\ edges' \subseteq edges /\ journal' \subseteq journal
      /\ \A j \in journal : j \in journal' <=> j[1] \notin L
      /\ \A l \in L, n \in nodes' : <<l, "node", n.id>> \notin journal
      /\ \A l \in L, e \in edges' : <<l, "edge", e.id>> \notin journal
  BY Undone
<1>2. Shape'
  BY DEF IInv, Shape, Phases
<1>3. ASSUME NEW l \in Load \ L, Running(l), NEW kind, NEW n, <<l, kind, n>> \in journal
      PROVE  <<l, kind, n>> \in journal'
  <2>1. <<l, kind, n>>[1] = l
    OBVIOUS
  <2> QED
    BY <1>1, <1>3, <2>1
<1>4. JournalCovers'
  <2> SUFFICES ASSUME NEW l \in Load
               PROVE  IF Running(l)' THEN /\ \A n \in nodes' : n.by = l => <<l, "node", n.id>> \in journal'
                                          /\ \A e \in edges' : e.by = l => <<l, "edge", e.id>> \in journal'
                      ELSE \A j \in journal' : j[1] # l
    BY DEF JournalCovers
  <2>1. CASE l \in L
    BY <1>1, <2>1 DEF IInv, JournalCovers, Running
  <2>2. CASE l \notin L
    BY <1>1, <1>3, <2>2 DEF IInv, JournalCovers, Running
  <2> QED
    BY <2>1, <2>2
<1>5. NothingLeft'
  <2> SUFFICES ASSUME NEW l \in Load, phase'[l] \in {"idle", "undone"}
               PROVE  (\A n \in nodes' : n.by # l) /\ (\A e \in edges' : e.by # l)
    BY DEF NothingLeft
  <2>1. CASE l \in L /\ Running(l)
    BY <1>1, <2>1 DEF IInv, JournalCovers
  <2>2. CASE ~(l \in L /\ Running(l))
    BY <1>1, <2>2 DEF IInv, NothingLeft
  <2> QED
    BY <2>1, <2>2
<1>6. ASSUME NEW l \in Load, ~(l \in L /\ Running(l)), NEW k, Landed(l, k) \/ <<l, k>> \in lost
      PROVE  Landed(l, k)' \/ <<l, k>> \in lost'
  <2>1. l \notin L \/ \A j \in journal : j[1] # l
    BY <1>6 DEF IInv, JournalCovers
  <2>2. Landed(l, k) => Landed(l, k)' \/ <<l, k>> \in lost'
    BY <2>1, Remembered
  <2> QED
    BY <1>6, <2>2 DEF LostBy
<1>7. Progress'
  BY <1>6 DEF IInv, Progress, Running
<1>8. Whole'
  BY <1>6 DEF IInv, Whole, Running
<1> QED
  BY <1>2, <1>4, <1>5, <1>7, <1>8 DEF IInv

\* What other writers add is not a load's; what they drop of a load is lost.
LEMMA WriteStep ==
    ASSUME IInv, Writes,
           \A n \in nodes' \ nodes : n.by \notin Load,
           \A e \in edges' \ edges : e.by \notin Load,
           \A l \in Load : \A k : Landed(l, k) => Landed(l, k)' \/ <<l, k>> \in lost',
           lost \subseteq lost'
    PROVE  IInv'
<1>1. Shape'
  BY DEF IInv, Shape, Writes
<1>2. JournalCovers' /\ NothingLeft'
  BY DEF IInv, JournalCovers, NothingLeft, Running, Writes
<1>3. Progress' /\ Whole'
  BY DEF IInv, Progress, Whole, Writes
<1> QED
  BY <1>1, <1>2, <1>3 DEF IInv

LEMMA OthersStep ==
    ASSUME BulkAssumption, IInv,
           \/ AddVertex
           \/ \E m, n \in nodes : AddEdge(m, n)
           \/ \E n \in nodes : DropVertex(n)
           \/ \E e \in edges : DropEdge(e)
    PROVE  IInv'
<1> User \notin Load
  BY DEF BulkAssumption
<1>1. CASE AddVertex
  BY <1>1, WriteStep DEF AddVertex, Landed
<1>2. CASE \E m, n \in nodes : AddEdge(m, n)
  BY <1>2, WriteStep DEF AddEdge, Landed
<1>3. CASE (\E n \in nodes : DropVertex(n)) \/ (\E e \in edges : DropEdge(e))
  <2>1. Writes /\ LostBy({}) /\ nodes' \subseteq nodes /\ edges' \subseteq edges
    BY <1>3 DEF DropVertex, DropEdge
  <2>2. \A l \in Load : \A k : Landed(l, k) => Landed(l, k)' \/ <<l, k>> \in lost'
    BY <2>1, Remembered
  <2>3. lost \subseteq lost'
    BY <2>1 DEF LostBy
  <2> QED
    BY <2>1, <2>2, <2>3, WriteStep
<1> QED
  BY <1>1, <1>2, <1>3

LEMMA InitInv ==
    ASSUME BulkAssumption, Init
    PROVE  IInv
<1>1. \A l \in Load : Batch(l, NewLoader) /\ Len(Document[l]) \in Nat
  BY NewBatch DEF BulkAssumption
<1> QED
  BY <1>1 DEF Init, IInv, Shape, JournalCovers, NothingLeft, Progress, Whole, Running, Phases

LEMMA NextInv ==
    ASSUME BulkAssumption, IInv, [Next]_vars
    PROVE  IInv'
<1>1. ASSUME NEW l \in Load, Abort(l) PROVE IInv'
  <2>1. phase' = [m \in Load |-> IF m \in {l} /\ Running(m) THEN "undone" ELSE phase[m]]
    BY <1>1 DEF Abort, Running, IInv, Shape
  <2> QED
    BY <1>1, <2>1, UndoStep DEF Abort
<1>2. CASE Crash
  <2>1. phase' = [m \in Load |-> IF m \in Load /\ Running(m) THEN "undone" ELSE phase[m]]
    BY <1>2 DEF Crash, Running
  <2> QED
    BY <1>2, <2>1, UndoStep DEF Crash
<1>3. CASE UNCHANGED vars
  BY <1>3 DEF vars, IInv, Shape, JournalCovers, NothingLeft, Progress, Whole, Landed, Running
<1>4. ASSUME NEW l \in Load, SourceFails(l) PROVE IInv'
  BY <1>4, FailsStep DEF SourceFails
<1> QED
  BY <1>1, <1>2, <1>3, <1>4, BeginStep, FeedStep, CutStep, DoneStep, OthersStep DEF Next

\* What a running load has landed is journaled, in whatever order batches, other loads,
\* failures and crashes come; and no load that has ended keeps a journal.
THEOREM LoadsAreJournaled == Spec => []JournalCovers
<1>1. Init => IInv
  BY InitInv, BulkAssumption
<1>2. IInv /\ [Next]_vars => IInv'
  BY NextInv, BulkAssumption
<1>3. IInv => JournalCovers
  BY DEF IInv
<1> QED
  BY <1>1, <1>2, <1>3, PTL DEF Spec

\* A load that failed or died has no row in the graph, and one that is done has all its
\* document there but for what others took away.
THEOREM LoadsAreAtomic == Spec => []AllOrNothing
<1>1. Init => IInv
  BY InitInv, BulkAssumption
<1>2. IInv /\ [Next]_vars => IInv'
  BY NextInv, BulkAssumption
<1>3. IInv => AllOrNothing
  BY DEF IInv, AllOrNothing, NothingLeft, Whole, Landed
<1> QED
  BY <1>1, <1>2, <1>3, PTL DEF Spec

\* What a load shows once it is done, and what others have taken from it.
Shows(l) == {k \in DOMAIN Document[l] : phase[l] = "done" /\ Landed(l, k)}
Took(l)  == {k \in DOMAIN Document[l] : <<l, k>> \in lost}

\* Steps that finish no load and add nothing to a finished one.
LEMMA Taking ==
    ASSUME \A l \in Load : phase'[l] = "done" <=> phase[l] = "done",
           \A l \in Load : phase[l] = "done" => \A k : /\ Landed(l, k)' => Landed(l, k)
                                                       /\ Landed(l, k) => Landed(l, k)' \/ <<l, k>> \in lost',
           lost \subseteq lost'
    PROVE  Atomic!Take
<1>1. \A l \in Load : Took(l) \subseteq Took(l)'
  BY DEF Took
<1>2. \A l \in Load : Shows(l)' \subseteq Shows(l) /\ Shows(l) \ Shows(l)' \subseteq Took(l)'
  BY DEF Took, Shows
<1>3. {l \in Load : phase'[l] = "done"} = {l \in Load : phase[l] = "done"}
  OBVIOUS
<1> QED
  BY <1>1, <1>2, <1>3 DEF Atomic!Take, Shows, Took

\* Rows of one load, which has not finished, land: no other load shows more or less.
LEMMA LandsUnseen ==
    ASSUME NEW l \in Load, phase[l] # "done", nodes \subseteq nodes', edges \subseteq edges',
           \A n \in nodes' \ nodes : n.by = l, \A e \in edges' \ edges : e.by = l
    PROVE  \A m \in Load \ {l} : \A k : Landed(m, k)' <=> Landed(m, k)
BY DEF Landed

LEMMA FinishStep ==
    ASSUME BulkAssumption, IInv, NEW l \in Load, Done(l)
    PROVE  Atomic!Next
<1>1. CASE ~Lands(l, loader[l]) /\ Fails(l)
  <2>1. phase[l] # "done" /\ phase \in [Load -> Phases]
    BY DEF Done, IInv, Shape
  <2>2. Atomic!Take
    BY <1>1, <2>1, Taking DEF Fails, store, Landed
  <2> QED
    BY <2>2 DEF Atomic!Next
<1>2. CASE /\ LandRows(l, loader[l])
           /\ phase' = [phase EXCEPT ![l] = "done"]
           /\ UNCHANGED lost
  <2>1. phase[l] = "feeding" /\ Batch(l, loader[l]) /\ phase \in [Load -> Phases]
    BY DEF Done, IInv, Shape
  <2>2. \A m \in Load \ {l} : \A k : Landed(m, k)' <=> Landed(m, k)
    BY <1>2, <2>1, LandedRows, LandsUnseen
  <2>3. \A k \in DOMAIN Document[l] : Landed(l, k)' \/ <<l, k>> \in lost
    BY <1>2, <2>1, DoneStep DEF IInv, Whole
  <2>4. \A m \in Load \ {l} : Shows(m)' = Shows(m)
    BY <1>2, <2>1, <2>2 DEF Shows
  <2>5. DOMAIN Document[l] \ Took(l) \subseteq Shows(l)'
    BY <1>2, <2>1, <2>3 DEF Shows, Took
  <2>6. {m \in Load : phase'[m] = "done"} = {m \in Load : phase[m] = "done"} \union {l}
    BY <1>2, <2>1
  <2>7. [m \in Load |-> Shows(m)'] = [[m \in Load |-> Shows(m)] EXCEPT ![l] = [m \in Load |-> Shows(m)'][l]]
    BY <2>4
  <2>8. \A m \in Load : Took(m)' = Took(m)
    BY <1>2 DEF Took
  <2>9. Atomic!Finish(l)
    <3>1. [m \in Load |-> Took(m)'] = [m \in Load |-> Took(m)]
      BY <2>8
    <3>2. l \notin {m \in Load : phase[m] = "done"}
      BY <2>1
    <3>3. DOMAIN Document[l] \ [m \in Load |-> Took(m)][l] \subseteq [m \in Load |-> Shows(m)'][l]
      BY <2>5
    <3> QED
      BY <2>6, <2>7, <3>1, <3>2, <3>3, Zenon DEF Atomic!Finish, Shows, Took
  <2> QED
    BY <2>9 DEF Atomic!Next
<1> QED
  BY <1>1, <1>2 DEF Done

LEMMA StepImplements ==
    ASSUME BulkAssumption, IInv, [Next]_vars
    PROVE  Atomic!Next
<1> phase \in [Load -> Phases]
  BY DEF IInv, Shape
<1>1. ASSUME NEW l \in Load, Begin(l) PROVE Atomic!Next
  <2>1. phase[l] # "done" /\ phase' = [phase EXCEPT ![l] = "feeding"]
        /\ lost' = {x \in lost : x[1] # l} /\ UNCHANGED <<nodes, edges>>
    BY <1>1 DEF Begin, store
  <2>2. \A m \in Load : Shows(m)' = Shows(m)
    BY <2>1 DEF Shows, Landed
  <2>3. \A k : <<l, k>>[1] = l
    OBVIOUS
  <2>4. Took(l)' = {}
    BY <2>1, <2>3 DEF Took
  <2>5. ASSUME NEW m \in Load \ {l} PROVE Took(m)' = Took(m)
    <3>1. \A k : <<m, k>>[1] # l
      OBVIOUS
    <3> QED
      BY <2>1, <3>1 DEF Took
  <2>6. Atomic!Start(l)
    BY <2>1, <2>2, <2>4, <2>5 DEF Atomic!Start, Shows, Took
  <2> QED
    BY <2>6 DEF Atomic!Next
<1>2. ASSUME NEW l \in Load, Feed(l) \/ SourceFails(l) PROVE Atomic!Next
  <2>1. Atomic!Take
    BY <1>2, Taking DEF Feed, SourceFails, Fails, store, Landed
  <2> QED
    BY <2>1 DEF Atomic!Next
<1>3. ASSUME NEW l \in Load, Cut(l) PROVE Atomic!Next
  <2> DEFINE b == Buffer(l, loader[l], next[l])
  <2>1. phase[l] = "feeding" /\ Batch(l, b)
    BY <1>3, Buffered DEF Cut, IInv, Shape
  <2>2. CASE Fails(l)
    BY <2>1, <2>2, Taking DEF Fails, store, Landed, Atomic!Next
  <2>3. CASE LandRows(l, b) /\ UNCHANGED <<phase, lost>>
    <3>1. \A m \in Load \ {l} : \A k : Landed(m, k)' <=> Landed(m, k)
      BY <2>1, <2>3, LandedRows, LandsUnseen
    <3> QED
      BY <2>1, <2>3, <3>1, Taking DEF Atomic!Next
  <2> QED
    BY <1>3, <2>2, <2>3 DEF Cut, LandBatch
<1>4. ASSUME NEW L \in SUBSET Load, RollbackBulkLoads(L), LostBy(L),
             \A l \in Load : phase'[l] = "done" <=> phase[l] = "done"
      PROVE  Atomic!Next
  <2>1. nodes' \subseteq nodes /\ edges' \subseteq edges /\ lost \subseteq lost'
    BY <1>4, Undone DEF LostBy
  <2>2. \A l \in Load : phase[l] = "done" => \A j \in journal : j[1] # l
    BY DEF IInv, JournalCovers, Running
  <2>3. \A l \in Load : phase[l] = "done" => \A k : Landed(l, k) => Landed(l, k)' \/ <<l, k>> \in lost'
    BY <1>4, <2>2, Remembered
  <2> QED
    BY <1>4, <2>1, <2>3, Taking DEF Landed, Atomic!Next
<1>5. ASSUME NEW l \in Load, Abort(l) PROVE Atomic!Next
  BY <1>4, <1>5 DEF Abort
<1>6. CASE Crash
  BY <1>4, <1>6 DEF Crash
<1>7. CASE AddVertex \/ \E m, n \in nodes : AddEdge(m, n)
  <2>1. \A l \in Load : \A k : Landed(l, k)' <=> Landed(l, k)
    BY <1>7 DEF AddVertex, AddEdge, Landed, BulkAssumption
  <2> QED
    BY <1>7, <2>1, Taking DEF AddVertex, AddEdge, Writes, Atomic!Next
<1>8. CASE (\E n \in nodes : DropVertex(n)) \/ (\E e \in edges : DropEdge(e))
  <2>1. /\ LostBy({}) /\ nodes' \subseteq nodes /\ edges' \subseteq edges
        /\ phase' = phase /\ lost \subseteq lost'
    BY <1>8 DEF DropVertex, DropEdge, Writes, LostBy
  <2>2. \A l \in Load : \A k : Landed(l, k) => Landed(l, k)' \/ <<l, k>> \in lost'
    BY <2>1, Remembered
  <2> QED
    BY <2>1, <2>2, Taking DEF Landed, Atomic!Next
<1>9. CASE UNCHANGED vars
  BY <1>9, Taking DEF vars, Landed, Atomic!Next
<1> QED
  BY <1>1, <1>2, <1>3, <1>5, <1>6, <1>7, <1>8, <1>9, FinishStep DEF Next

\* Loads as their callers see them: each lands whole in the step that reports success and
\* is never undone after, for any loads, documents, policies, writers, failures and crashes.
THEOREM LoadsImplementAtomicLoads == Spec => LoadsAtomically
<1>1. Init => Atomic!Init
  BY DEF Init, Atomic!Init
<1>2. Init => IInv
  BY InitInv, BulkAssumption
<1>3. IInv /\ [Next]_vars => IInv'
  BY NextInv, BulkAssumption
<1>4. IInv /\ [Next]_vars => [Atomic!Next]_(Atomic!vars)
  BY StepImplements, BulkAssumption
<1> QED
  BY <1>1, <1>2, <1>3, <1>4, PTL DEF Spec, LoadsAtomically, Atomic!Spec

\* Vertices stay under the edges a batch lands.
LEMMA LandAnchored ==
    ASSUME NEW l \in Load, NEW b, Lands(l, b), LandRows(l, b), NoDangling
    PROVE  NoDangling'
<1>1. ASSUME NEW id, Endpoints(l, b, id) # {} PROVE \E n \in nodes' : n.id = EndpointOf(l, b, id)
  <2>1. Endpoints(l, b, id) \subseteq nodes'
    BY DEF Endpoints, OfBatch, OfStore, LandRows
  <2> QED
    BY <1>1, <2>1 DEF EndpointOf
<1>2. \A r \in b.edgeRows : \A x \in {EdgeRow(l, b, r).src, EdgeRow(l, b, r).tgt} : \E n \in nodes' : n.id = x
  BY <1>1 DEF Lands, EdgeRow
<1> QED
  BY <1>2 DEF NoDangling, LandRows

LEMMA UndoAnchored ==
    ASSUME NEW L, RollbackBulkLoads(L), NoDangling
    PROVE  NoDangling'
BY DEF RollbackBulkLoads, Touches, NoDangling

\* No edge is ever left without its vertices, whichever load is undone under whose edge.
THEOREM NoEdgeHangs == Spec => []NoDangling
<1>1. Init => NoDangling
  BY DEF Init, NoDangling
<1>2. ASSUME NoDangling, [Next]_vars PROVE NoDangling'
  <2>1. ASSUME NEW l \in Load, Begin(l) \/ Feed(l) \/ SourceFails(l) PROVE NoDangling'
    BY <1>2, <2>1 DEF Begin, Feed, SourceFails, Fails, store, NoDangling
  <2>2. ASSUME NEW l \in Load, Cut(l) PROVE NoDangling'
    BY <1>2, <2>2, LandAnchored DEF Cut, LandBatch, Fails, store, NoDangling
  <2>3. ASSUME NEW l \in Load, Done(l) PROVE NoDangling'
    BY <1>2, <2>3, LandAnchored DEF Done, Fails, store, NoDangling
  <2>4. ASSUME NEW l \in Load, Abort(l) PROVE NoDangling'
    BY <1>2, <2>4, UndoAnchored DEF Abort
  <2>5. CASE Crash
    BY <1>2, <2>5, UndoAnchored DEF Crash
  <2>6. CASE AddVertex
    BY <1>2, <2>6 DEF AddVertex, NoDangling
  <2>7. ASSUME NEW m \in nodes, NEW n \in nodes, AddEdge(m, n) PROVE NoDangling'
    BY <1>2, <2>7 DEF AddEdge, NoDangling
  <2>8. ASSUME NEW n \in nodes, DropVertex(n) PROVE NoDangling'
    BY <1>2, <2>8 DEF DropVertex, NoDangling
  <2>9. ASSUME NEW e \in edges, DropEdge(e) PROVE NoDangling'
    BY <1>2, <2>9 DEF DropEdge, NoDangling
  <2>10. CASE UNCHANGED vars
    BY <1>2, <2>10 DEF vars, NoDangling
  <2> QED
    BY <1>2, <2>1, <2>2, <2>3, <2>4, <2>5, <2>6, <2>7, <2>8, <2>9, <2>10 DEF Next
<1>3. NoDangling /\ [Next]_vars => NoDangling'
  BY <1>2
<1> QED
  BY <1>1, <1>3, PTL DEF Spec

-----------------------------------------------------------------------------
(* The rows of the two tables: their keys, and what the journal names.     *)

\* A finite set of naturals has a greatest one: the one with fewest above it.
LEMMA Greatest ==
    ASSUME NEW S \in SUBSET Nat, IsFiniteSet(S), S # {}
    PROVE  \E x \in S : \A y \in S : y <= x
<1> DEFINE above(x) == {y \in S : y > x}
           T == {Cardinality(above(x)) : x \in S}
<1>1. \A x \in S : IsFiniteSet(above(x)) /\ Cardinality(above(x)) \in Nat
  <2> TAKE x \in S
  <2>1. above(x) \in SUBSET S
    OBVIOUS
  <2> QED
    BY <2>1, FS_Subset, FS_CardinalityType
<1>2. PICK t \in T : \A u \in T : <<u, t>> \notin OpToRel(<, Nat)
  <2>1. T \subseteq Nat /\ T # {}
    BY <1>1
  <2> QED
    BY <2>1, NatLessThanWellFounded, WFMin
<1>3. PICK x \in S : t = Cardinality(above(x))
  BY <1>2
<1>4. ASSUME NEW y \in S, y > x PROVE FALSE
  <2>1. above(y) \in SUBSET above(x) /\ y \in above(x) /\ y \notin above(y)
    <3>1. x \in Nat /\ y \in Nat
      BY <1>3
    <3>2. \A z \in S : z > y => z > x
      BY <1>4, <3>1
    <3>3. above(y) \subseteq above(x)
      BY <3>2
    <3>4. y \in above(x)
      BY <1>4
    <3>5. y \notin above(y)
      BY <3>1
    <3> QED
      BY <3>3, <3>4, <3>5
  <2>2. Cardinality(above(y)) < Cardinality(above(x))
    BY <1>1, <2>1, FS_Subset
  <2>3. <<Cardinality(above(y)), t>> \in Nat \X Nat
    BY <1>1, <1>3
  <2>4. <<Cardinality(above(y)), t>> \in OpToRel(<, Nat)
    BY <1>3, <2>2, <2>3 DEF OpToRel
  <2> QED
    BY <1>2, <2>4
<1> QED
  BY <1>4

\* The next rowid is no row's.
LEMMA Unused ==
    ASSUME NEW rows, IsFiniteSet(rows), \A r \in rows : r.id \in Nat
    PROVE  NextId(rows) \in Nat \ {0} /\ \A r \in rows : r.id < NextId(rows)
<1>1. CASE rows = {}
  BY <1>1 DEF NextId
<1>2. CASE rows # {}
  <2> DEFINE ids == {r.id : r \in rows}
             id == [r \in rows |-> r.id]
             top == CHOOSE n \in ids : \A r \in rows : r.id <= n
  <2>1. ids \in SUBSET Nat /\ ids # {}
    BY <1>2
  <2>2. IsFiniteSet(ids)
    <3>1. id \in Surjection(rows, ids)
      BY DEF Surjection
    <3> HIDE DEF id
    <3> QED
      BY <3>1, FS_Surjection
  <2>3. \E n \in ids : \A m \in ids : m <= n
    <3> HIDE DEF ids
    <3> QED
      BY <2>1, <2>2, Greatest
  <2>4. \E n \in ids : \A r \in rows : r.id <= n
    BY <2>3
  <2>5. top \in ids /\ \A r \in rows : r.id <= top
    BY <2>4
  <2>6. NextId(rows) = 1 + top
    BY <1>2 DEF NextId
  <2> HIDE DEF top, ids
  <2> QED
    BY <2>1, <2>5, <2>6
<1> QED
  BY <1>1, <1>2

Rowed(rows) == IsFiniteSet(rows) /\ \A r \in rows : r.id \in Nat /\ Owned(r)
Keys(rows) == \A r, s \in rows : /\ r.id = s.id => r = s
                                 /\ r.uid = s.uid => r = s \/ r.uid = NoId

\* What a loader holds: rows of the document, fewer than a batch.
Held(b) == /\ Rowed(b.nodeRows) /\ Rowed(b.edgeRows)
           /\ b.nextNode \in Nat /\ b.nextEdge \in Nat

Stored ==
    /\ Rowed(nodes) /\ Rowed(edges) /\ Keys(nodes) /\ Keys(edges)
    /\ journal \subseteq Load \X {"node", "edge"} \X Nat
    /\ \A l \in Load : Held(loader[l]) /\ Pending(loader[l]) < BatchSize
    /\ crashes \in Nat

\* Until something of a running load was dropped, its journal names vertices of its own.
Exact ==
    \A l \in Load : Running(l) /\ (\A x \in lost : x[1] # l) =>
        \A i : <<l, "node", i>> \in journal => \E n \in nodes : n.id = i /\ n.by = l

TInv == IInv /\ Stored /\ Exact

LEMMA RowedMore ==
    ASSUME NEW rows, NEW r, Rowed(rows), r.id \in Nat, Owned(r)
    PROVE  Rowed(rows \union {r})
<1>1. IsFiniteSet(rows \union {r})
  BY FS_AddElement DEF Rowed
<1> QED
  BY <1>1 DEF Rowed

LEMMA RowedFewer ==
    ASSUME NEW rows, NEW few, Rowed(rows), few \subseteq rows
    PROVE  Rowed(few)
BY FS_Subset DEF Rowed

\* A new loader holds nothing and reads its cursors off the tables.
LEMMA NewHeld ==
    ASSUME BulkAssumption, NEW ns, NEW es, Rowed(ns), Rowed(es), NEW b,
           b.nextNode = NextId(ns), b.nextEdge = NextId(es), b.nodeRows = {}, b.edgeRows = {}
    PROVE  Held(b) /\ Pending(b) < BatchSize
<1>1. NextId(ns) \in Nat /\ NextId(es) \in Nat
  BY Unused DEF Rowed
<1>2. IsFiniteSet({}) /\ Cardinality({}) = 0
  BY FS_EmptySet
<1>3. Held(b)
  BY <1>1, <1>2 DEF Held, Rowed
<1>4. Pending(b) = 0
  BY <1>2 DEF Pending
<1> QED
  BY <1>3, <1>4 DEF BulkAssumption

LEMMA BufferHeld ==
    ASSUME NEW l \in Load, NEW b, Batch(l, b), Held(b), NEW k \in DOMAIN Document[l]
    PROVE  Held(Buffer(l, b, k))
<1> DEFINE vrow == IdOf(l, Document[l][k].id, b.nextNode)
           erow == IdOf(l, Document[l][k].id, b.nextEdge)
           v == [id |-> vrow.id, uid |-> vrow.uid, by |-> l, doc |-> k]
           e == [id |-> erow.id, uid |-> erow.uid, by |-> l, doc |-> k]
<1>1. vrow.id \in Nat /\ erow.id \in Nat
  BY DEF Held, IdOf
<1>2. v.id = vrow.id /\ e.id = erow.id /\ Owned(v) /\ Owned(e)
  BY DEF Owned
<1>3. Past(vrow.id, b.nextNode) \in Nat /\ Past(erow.id, b.nextEdge) \in Nat
  BY <1>1 DEF Held, Past
<1>4. CASE Document[l][k].kind = "vertex"
  <2> DEFINE c == BufferVertex(l, b, k)
  <2>1. /\ c.edgeRows = b.edgeRows /\ c.nodeRows = b.nodeRows \union {v}
        /\ c.nextNode = Past(vrow.id, b.nextNode) /\ c.nextEdge = b.nextEdge
    BY DEF BufferVertex, Batch, Fields
  <2> HIDE DEF c, v, vrow
  <2>2. Held(c)
    BY <1>1, <1>2, <1>3, <2>1, RowedMore DEF Held
  <2> QED
    BY <1>4, <2>2 DEF Buffer, c
<1>5. CASE Document[l][k].kind # "vertex"
  <2> DEFINE c == BufferEdge(l, b, k)
  <2>1. /\ c.nodeRows = b.nodeRows /\ c.edgeRows = b.edgeRows \union {e}
        /\ c.nextEdge = Past(erow.id, b.nextEdge) /\ c.nextNode = b.nextNode
    BY DEF BufferEdge, Batch, Fields
  <2> HIDE DEF c, e, erow
  <2>2. Held(c)
    BY <1>1, <1>2, <1>3, <2>1, RowedMore DEF Held
  <2> QED
    BY <1>5, <2>2 DEF Buffer, c
<1> QED
  BY <1>4, <1>5

\* The rows an edge buffer becomes: one each, with its keys.
LEMMA LandedEdges ==
    ASSUME BulkAssumption, NEW l \in Load, NEW b, Batch(l, b), Rowed(b.edgeRows), LandRows(l, b)
    PROVE  \E new : /\ edges' = edges \union new /\ Rowed(new)
                    /\ \A e \in new : \E r \in b.edgeRows : e.id = r.id /\ e.uid = r.uid
                    /\ Keys(b.edgeRows) => Keys(new)
<1> DEFINE new == {EdgeRow(l, b, r) : r \in b.edgeRows}
           rowOf == [r \in b.edgeRows |-> EdgeRow(l, b, r)]
<1>1. edges' = edges \union new
  BY DEF LandRows
<1>2. \A r \in b.edgeRows : LET e == EdgeRow(l, b, r)
                            IN  e.id = r.id /\ e.uid = r.uid /\ e.by = l /\ e.doc = r.doc
  BY DEF EdgeRow
<1>3. rowOf \in Surjection(b.edgeRows, new)
  BY DEF Surjection
<1>4. IsFiniteSet(b.edgeRows)
  BY DEF Rowed
<1>5. IsFiniteSet(new)
  <2> HIDE DEF rowOf, new
  <2> QED
    BY <1>3, <1>4, FS_Surjection
<1>6. \A e \in new : \E r \in b.edgeRows : e.id = r.id /\ e.uid = r.uid
  BY <1>2
<1>7. \A e \in new : e.id \in Nat /\ Owned(e)
  <2>1. ASSUME NEW r \in b.edgeRows PROVE EdgeRow(l, b, r).id \in Nat /\ Owned(EdgeRow(l, b, r))
    <3>1. r.id \in Nat /\ Owned(r) /\ r.by = l
      BY DEF Rowed, Batch
    <3>2. User \notin Load
      BY DEF BulkAssumption
    <3> QED
      BY <1>2, <3>1, <3>2 DEF Owned
  <2> QED
    BY <2>1
<1>8. Keys(b.edgeRows) => Keys(new)
  <2>1. ASSUME Keys(b.edgeRows), NEW q \in b.edgeRows, NEW r \in b.edgeRows
        PROVE  LET e == EdgeRow(l, b, q)  f == EdgeRow(l, b, r)
               IN  (e.id = f.id => e = f) /\ (e.uid = f.uid => e = f \/ e.uid = NoId)
    BY <1>2, <2>1 DEF Keys
  <2> QED
    BY <2>1 DEF Keys
<1> HIDE DEF new
<1> QED
  BY <1>1, <1>5, <1>6, <1>7, <1>8 DEF Rowed

\* SQLite's constraints, as keys.
LEMMA KeyedRows ==
    ASSUME BulkAssumption, NEW rows, NEW old, Keyed(rows, old), Rowed(rows)
    PROVE  /\ Keys(rows)
           /\ \A r \in rows, s \in old : r.id # s.id /\ (r.uid = s.uid => r.uid = NoId)
<1>1. Unique(rows, "id") /\ Unique(rows, "uid") /\ ~Clashes(rows, old, "id") /\ ~Clashes(rows, old, "uid")
  BY DEF Keyed
<1>2. \A r \in rows : r.id # NoId
  BY DEF Rowed, BulkAssumption
<1> QED
  BY <1>1, <1>2 DEF Keys, Unique, Clashes

LEMMA KeysMore ==
    ASSUME NEW rows, NEW new, Keys(rows), Keys(new),
           \A r \in new, s \in rows : r.id # s.id /\ (r.uid = s.uid => r.uid = NoId)
    PROVE  Keys(rows \union new)
BY DEF Keys

LEMMA RowedBoth ==
    ASSUME NEW rows, NEW new, Rowed(rows), Rowed(new)
    PROVE  Rowed(rows \union new)
BY FS_Union DEF Rowed

\* What lands keeps the tables' keys: SQLite's constraints see to it.
LEMMA LandStored ==
    ASSUME BulkAssumption, NEW l \in Load, NEW b, Batch(l, b), Held(b), Lands(l, b), LandRows(l, b),
           Rowed(nodes), Rowed(edges), Keys(nodes), Keys(edges)
    PROVE  Rowed(nodes') /\ Rowed(edges') /\ Keys(nodes') /\ Keys(edges')
<1>1. nodes' = nodes \union b.nodeRows
  BY DEF LandRows
<1>2. Rowed(b.nodeRows) /\ Rowed(b.edgeRows)
  BY DEF Held
<1>3. Keyed(b.nodeRows, nodes) /\ Keyed(b.edgeRows, edges)
  BY DEF Lands
<1>4. Rowed(nodes') /\ Keys(nodes')
  BY <1>1, <1>2, <1>3, KeyedRows, KeysMore, RowedBoth
<1>5. PICK new : /\ edges' = edges \union new /\ Rowed(new)
                 /\ \A e \in new : \E r \in b.edgeRows : e.id = r.id /\ e.uid = r.uid
                 /\ Keys(b.edgeRows) => Keys(new)
  BY <1>2, LandedEdges
<1>6. Keys(b.edgeRows) /\ \A r \in b.edgeRows, s \in edges : r.id # s.id /\ (r.uid = s.uid => r.uid = NoId)
  BY <1>2, <1>3, KeyedRows
<1>7. Keys(new)
  BY <1>5, <1>6
<1>8. \A r \in new, s \in edges : r.id # s.id /\ (r.uid = s.uid => r.uid = NoId)
  BY <1>5, <1>6
<1>9. Rowed(edges') /\ Keys(edges')
  BY <1>5, <1>7, <1>8, KeysMore, RowedBoth
<1> QED
  BY <1>4, <1>9

LEMMA KeysFewer ==
    ASSUME NEW rows, NEW few, Keys(rows), few \subseteq rows
    PROVE  Keys(few)
BY DEF Keys

\* A row under the next rowid and without a uid.
LEMMA OneMore ==
    ASSUME NEW rows, NEW r, Rowed(rows), Keys(rows), r.id = NextId(rows), r.uid = NoId, Owned(r)
    PROVE  Rowed(rows \union {r}) /\ Keys(rows \union {r})
<1>1. NextId(rows) \in Nat \ {0} /\ \A s \in rows : s.id \in Nat /\ s.id < NextId(rows)
  BY Unused DEF Rowed
<1>2. \A s \in rows : s.id # r.id
  BY <1>1
<1>3. Keys({r})
  BY DEF Keys
<1>4. \A q \in {r}, s \in rows : q.id # s.id /\ (q.uid = s.uid => q.uid = NoId)
  BY <1>2
<1> QED
  BY <1>1, <1>3, <1>4, KeysMore, RowedMore

\* The tables stay as they should be: a batch that lands, an undo, another's write.
LEMMA TablesStep ==
    ASSUME BulkAssumption, IInv, Stored, Next
    PROVE  Rowed(nodes') /\ Rowed(edges') /\ Keys(nodes') /\ Keys(edges')
<1>1. Rowed(nodes) /\ Rowed(edges) /\ Keys(nodes) /\ Keys(edges)
  BY DEF Stored
<1>2. ASSUME NEW l \in Load, Cut(l) \/ Done(l)
      PROVE  Rowed(nodes') /\ Rowed(edges') /\ Keys(nodes') /\ Keys(edges')
  <2>1. Batch(l, loader[l]) /\ Held(loader[l])
    BY DEF IInv, Shape, Stored
  <2>2. CASE Fails(l)
    BY <1>1, <2>2 DEF Fails, store
  <2>3. CASE Done(l) /\ ~Fails(l)
    BY <1>1, <2>1, <2>3, LandStored DEF Done
  <2>4. CASE Cut(l) /\ ~Fails(l)
    <3> DEFINE b == Buffer(l, loader[l], next[l])
    <3>1. next[l] \in DOMAIN Document[l]
      BY <2>4 DEF Cut, IInv, Shape, BulkAssumption
    <3>2. Batch(l, b) /\ Held(b)
      BY <2>1, <3>1, Buffered, BufferHeld
    <3>3. Lands(l, b) /\ LandRows(l, b)
      BY <2>4 DEF Cut, LandBatch
    <3> HIDE DEF b
    <3> QED
      BY <1>1, <3>2, <3>3, LandStored
  <2> QED
    BY <1>2, <2>2, <2>3, <2>4
<1>3. CASE nodes' \subseteq nodes /\ edges' \subseteq edges
  BY <1>1, <1>3, RowedFewer, KeysFewer
<1>4. ASSUME NEW l \in Load, Begin(l) \/ Feed(l) \/ SourceFails(l) \/ Abort(l)
      PROVE  nodes' \subseteq nodes /\ edges' \subseteq edges
  BY <1>4 DEF Begin, Feed, SourceFails, Fails, store, Abort, RollbackBulkLoads
<1>5. CASE Crash \/ (\E n \in nodes : DropVertex(n)) \/ (\E e \in edges : DropEdge(e))
  <2>1. nodes' \subseteq nodes /\ edges' \subseteq edges
    BY <1>5 DEF Crash, RollbackBulkLoads, DropVertex, DropEdge
  <2> QED
    BY <1>3, <2>1
<1>6. CASE AddVertex
  <2> DEFINE r == [id |-> NextId(nodes), uid |-> NoId, by |-> User, doc |-> 0]
  <2>1. nodes' = nodes \union {r} /\ edges' = edges
    BY <1>6 DEF AddVertex
  <2>2. r.id = NextId(nodes) /\ r.uid = NoId /\ Owned(r)
    BY DEF Owned
  <2> HIDE DEF r
  <2> QED
    BY <1>1, <2>1, <2>2, OneMore
<1>7. ASSUME NEW m \in nodes, NEW n \in nodes, AddEdge(m, n)
      PROVE  Rowed(nodes') /\ Rowed(edges') /\ Keys(nodes') /\ Keys(edges')
  <2> DEFINE r == [id |-> NextId(edges), uid |-> NoId, by |-> User, doc |-> 0, src |-> m.id, tgt |-> n.id]
  <2>1. edges' = edges \union {r} /\ nodes' = nodes
    BY <1>7 DEF AddEdge
  <2>2. r.id = NextId(edges) /\ r.uid = NoId /\ Owned(r)
    BY DEF Owned
  <2> HIDE DEF r
  <2> QED
    BY <1>1, <2>1, <2>2, OneMore
<1> QED
  BY <1>2, <1>3, <1>4, <1>5, <1>6, <1>7 DEF Next

\* The journal names rowids, and the batches under way are short of full.
LEMMA StoredStep ==
    ASSUME BulkAssumption, IInv, Stored, Next
    PROVE  Stored'
<1>1. Rowed(nodes') /\ Rowed(edges') /\ Keys(nodes') /\ Keys(edges')
  BY TablesStep
<1>2. BatchSize \in Nat \ {0} /\ DOMAIN loader = Load
  BY DEF BulkAssumption, IInv, Shape
<1>3. ASSUME NEW l \in Load, NEW b, Held(b) PROVE JournalRows(l, b) \subseteq Load \X {"node", "edge"} \X Nat
  BY <1>3 DEF JournalRows, Held, Rowed
<1>4. ASSUME NEW l \in Load, Cut(l), ~Fails(l)
      PROVE  /\ journal' \subseteq Load \X {"node", "edge"} \X Nat
             /\ loader' = [loader EXCEPT ![l] = NewLoader'] /\ crashes' = crashes
  <2> DEFINE b == Buffer(l, loader[l], next[l])
  <2>1. next[l] \in DOMAIN Document[l] /\ Batch(l, loader[l]) /\ Held(loader[l])
    BY <1>4 DEF Cut, IInv, Shape, Stored, BulkAssumption
  <2>2. Held(b)
    BY <2>1, BufferHeld
  <2>3. LandBatch(l, b) /\ loader' = [loader EXCEPT ![l] = NewLoader'] /\ crashes' = crashes
    BY <1>4 DEF Cut, bounds
  <2> HIDE DEF b
  <2>4. journal \subseteq Load \X {"node", "edge"} \X Nat
    BY DEF Stored
  <2> QED
    BY <1>3, <2>2, <2>3, <2>4 DEF LandBatch
<1>5. journal' \subseteq Load \X {"node", "edge"} \X Nat
  <2>1. journal \subseteq Load \X {"node", "edge"} \X Nat
    BY DEF Stored
  <2>2. ASSUME NEW l \in Load, Cut(l) PROVE journal' \subseteq Load \X {"node", "edge"} \X Nat
    BY <1>4, <2>1, <2>2 DEF Cut, Fails, store
  <2>3. (~\E l \in Load : Cut(l)) => journal' \subseteq journal
    BY DEF Next, Begin, Feed, Done, SourceFails, Fails, Abort, Crash, RollbackBulkLoads, AddVertex,
           AddEdge, DropVertex, DropEdge, Writes, store
  <2> QED
    BY <2>1, <2>2, <2>3
<1>6. Held(NewLoader) /\ Pending(NewLoader) < BatchSize
  <2>1. /\ NewLoader.nextNode = NextId(nodes) /\ NewLoader.nextEdge = NextId(edges)
        /\ NewLoader.nodeRows = {} /\ NewLoader.edgeRows = {}
    BY DEF NewLoader
  <2> QED
    BY <2>1, NewHeld DEF Stored
<1>7. Held(NewLoader') /\ Pending(NewLoader') < BatchSize
  <2> DEFINE b == NewLoader'
  <2>1. /\ b.nextNode = NextId(nodes') /\ b.nextEdge = NextId(edges')
        /\ b.nodeRows = {} /\ b.edgeRows = {}
    BY DEF NewLoader, NextId
  <2> HIDE DEF b
  <2>2. Held(b) /\ Pending(b) < BatchSize
    BY <1>1, <2>1, NewHeld
  <2> QED
    BY <2>2 DEF b
<1>8. \A m \in Load : Held(loader'[m]) /\ Pending(loader'[m]) < BatchSize
  <2>1. \A m \in Load : Held(loader[m]) /\ Pending(loader[m]) < BatchSize
    BY DEF Stored
  <2>2. ASSUME NEW l \in Load, NEW b, Held(b), Pending(b) < BatchSize, loader' = [loader EXCEPT ![l] = b]
        PROVE  \A m \in Load : Held(loader'[m]) /\ Pending(loader'[m]) < BatchSize
    BY <1>2, <2>1, <2>2
  <2>3. CASE loader' = loader
    BY <2>1, <2>3
  <2>4. ASSUME NEW l \in Load, Begin(l) PROVE \A m \in Load : Held(loader'[m]) /\ Pending(loader'[m]) < BatchSize
    BY <1>6, <2>2, <2>4 DEF Begin
  <2>5. ASSUME NEW l \in Load, Feed(l) PROVE \A m \in Load : Held(loader'[m]) /\ Pending(loader'[m]) < BatchSize
    <3> DEFINE b == Buffer(l, loader[l], next[l])
    <3>1. next[l] \in DOMAIN Document[l] /\ Batch(l, loader[l]) /\ Held(loader[l])
      BY <2>5 DEF Feed, IInv, Shape, Stored, BulkAssumption
    <3>2. Held(b)
      BY <3>1, BufferHeld
    <3>3. Pending(b) < BatchSize /\ loader' = [loader EXCEPT ![l] = b]
      BY <2>5 DEF Feed
    <3> HIDE DEF b
    <3> QED
      BY <2>2, <3>2, <3>3
  <2>6. ASSUME NEW l \in Load, Cut(l) PROVE \A m \in Load : Held(loader'[m]) /\ Pending(loader'[m]) < BatchSize
    <3>1. CASE Fails(l)
      BY <2>1, <3>1 DEF Fails
    <3>2. CASE ~Fails(l)
      BY <1>4, <1>7, <2>2, <2>6, <3>2
    <3> QED
      BY <3>1, <3>2
  <2>7. (~\E l \in Load : Begin(l) \/ Feed(l) \/ Cut(l)) => loader' = loader
    BY DEF Next, Done, SourceFails, Fails, Abort, Crash, AddVertex, AddEdge, DropVertex, DropEdge, Writes
  <2> QED
    BY <2>3, <2>4, <2>5, <2>6, <2>7
<1>9. crashes' \in Nat
  <2>1. crashes' = crashes \/ crashes' = crashes + 1
    BY DEF Next, Begin, Feed, Cut, Done, SourceFails, Fails, Abort, Crash, AddVertex, AddEdge,
           DropVertex, DropEdge, Writes, bounds
  <2> QED
    BY <2>1 DEF Stored
<1> QED
  BY <1>1, <1>5, <1>8, <1>9 DEF Stored

\* What leaves a load's vertices without its own journal naming them is remembered.
LEMMA Missed ==
    ASSUME NEW L, LostBy(L), NEW l \in Load \ L, NEW n \in nodes \ nodes', n.by = l
    PROVE  <<l, n.doc>> \in lost'
BY DEF LostBy, Others

\* A journal goes on naming its load's vertices for as long as nobody drops one.
LEMMA ExactUndo ==
    ASSUME Exact, NEW L \in SUBSET Load, LostBy(L), nodes' \subseteq nodes,
           journal' \subseteq journal, \A l \in L : \A j \in journal' : j[1] # l,
           \A l \in Load : Running(l)' => Running(l)
    PROVE  Exact'
<1> SUFFICES ASSUME NEW l \in Load, Running(l)', \A x \in lost' : x[1] # l,
                    NEW i, <<l, "node", i>> \in journal'
             PROVE  \E n \in nodes' : n.id = i /\ n.by = l
  BY DEF Exact
<1>1. l \notin L
  <2>1. <<l, "node", i>>[1] = l
    OBVIOUS
  <2> QED
    BY <2>1
<1>2. lost \subseteq lost'
  BY DEF LostBy
<1>3. PICK n \in nodes : n.id = i /\ n.by = l
  BY <1>2 DEF Exact
<1>4. ASSUME n \notin nodes' PROVE FALSE
  <2>1. <<l, n.doc>> \in lost' /\ <<l, n.doc>>[1] = l
    BY <1>1, <1>3, <1>4, Missed
  <2> QED
    BY <2>1
<1> QED
  BY <1>3, <1>4

LEMMA ExactMore ==
    ASSUME Exact, nodes \subseteq nodes', NEW l \in Load,
           \A m \in Load : \A i : <<m, "node", i>> \in journal' =>
                <<m, "node", i>> \in journal \/ (m = l /\ \E n \in nodes' : n.id = i /\ n.by = l),
           \A m \in Load : Running(m)' /\ (\A x \in lost' : x[1] # m) =>
                \/ Running(m) /\ \A x \in lost : x[1] # m
                \/ \A i : <<m, "node", i>> \notin journal'
    PROVE  Exact'
BY DEF Exact

\* Rows that land are journaled under the rowids they have.
LEMMA JournalNames ==
    ASSUME NEW l \in Load, NEW b, Batch(l, b), LandBatch(l, b), NEW m \in Load, NEW i,
           <<m, "node", i>> \in journal'
    PROVE  <<m, "node", i>> \in journal \/ (m = l /\ \E n \in nodes' : n.id = i /\ n.by = l)
<1>1. CASE <<m, "node", i>> \in {<<l, "node", r.id>> : r \in b.nodeRows}
  BY <1>1 DEF LandBatch, LandRows, Batch
<1>2. <<m, "node", i>> \notin {<<l, "edge", r.id>> : r \in b.edgeRows}
  OBVIOUS
<1> QED
  BY <1>1, <1>2 DEF LandBatch, JournalRows

LEMMA ExactStep ==
    ASSUME BulkAssumption, IInv, Exact, Next
    PROVE  Exact'
<1> USE DEF Phases
<1>1. phase \in [Load -> Phases]
  BY DEF IInv, Shape
<1>2. ASSUME NEW l \in Load, Begin(l) PROVE Exact'
  <2>1. \A i : <<l, "node", i>> \notin journal
    <3>1. \A j \in journal : j[1] # l
      BY <1>2 DEF Begin, IInv, JournalCovers, Running
    <3>2. \A i : <<l, "node", i>>[1] = l
      OBVIOUS
    <3> QED
      BY <3>1, <3>2
  <2>2. journal' = journal /\ nodes' = nodes /\ \A m \in Load \ {l} : Running(m)' => Running(m)
    BY <1>1, <1>2 DEF Begin, store, Running
  <2>3. \A m \in Load \ {l} : (\A x \in lost' : x[1] # m) => \A x \in lost : x[1] # m
    BY <1>2 DEF Begin
  <2> QED
    BY <2>1, <2>2, <2>3 DEF Exact
<1>3. ASSUME NEW l \in Load, Feed(l) \/ SourceFails(l) \/ (phase[l] = "feeding" /\ Fails(l)) PROVE Exact'
  BY <1>1, <1>3 DEF Feed, SourceFails, Fails, store, Running, Exact
<1>4. ASSUME NEW l \in Load, Cut(l), ~Fails(l) PROVE Exact'
  <2> DEFINE b == Buffer(l, loader[l], next[l])
  <2>1. Batch(l, b)
    BY Buffered DEF IInv, Shape
  <2>2. LandBatch(l, b) /\ phase' = phase /\ lost' = lost
    BY <1>4 DEF Cut
  <2> HIDE DEF b
  <2>3. nodes \subseteq nodes'
    BY <2>2 DEF LandBatch, LandRows
  <2>4. \A m \in Load : \A i : <<m, "node", i>> \in journal' =>
                <<m, "node", i>> \in journal \/ (m = l /\ \E n \in nodes' : n.id = i /\ n.by = l)
    BY <2>1, <2>2, JournalNames
  <2>5. \A m \in Load : Running(m)' => Running(m)
    BY <2>2 DEF Running
  <2> QED
    BY <2>2, <2>3, <2>4, <2>5, ExactMore
<1>5. ASSUME NEW l \in Load, Done(l), ~Fails(l) PROVE Exact'
  <2>1. nodes \subseteq nodes' /\ journal' \subseteq journal /\ lost' = lost
        /\ \A m \in Load : Running(m)' => Running(m)
    BY <1>1, <1>5 DEF Done, LandRows, Running
  <2> QED
    BY <2>1 DEF Exact
<1>6. ASSUME NEW l \in Load, Abort(l) PROVE Exact'
  <2>1. nodes' \subseteq nodes /\ journal' \subseteq journal /\ \A m \in {l} : \A j \in journal' : j[1] # m
    BY <1>6 DEF Abort, RollbackBulkLoads
  <2>2. \A m \in Load : Running(m)' => Running(m)
    BY <1>1, <1>6 DEF Abort, Running
  <2> QED
    BY <1>6, <2>1, <2>2, ExactUndo DEF Abort
<1>7. CASE Crash
  BY <1>7 DEF Crash, Exact, Running
<1>8. CASE AddVertex \/ (\E m, n \in nodes : AddEdge(m, n))
  <2>1. nodes \subseteq nodes' /\ journal' = journal /\ lost' = lost /\ phase' = phase
    BY <1>8 DEF AddVertex, AddEdge, Writes
  <2> QED
    BY <2>1 DEF Exact, Running
<1>9. CASE (\E n \in nodes : DropVertex(n)) \/ (\E e \in edges : DropEdge(e))
  <2>1. nodes' \subseteq nodes /\ journal' = journal /\ LostBy({}) /\ phase' = phase
    BY <1>9 DEF DropVertex, DropEdge, Writes
  <2>2. \A m \in Load : Running(m)' => Running(m)
    BY <2>1 DEF Running
  <2> QED
    BY <2>1, <2>2, ExactUndo
<1> QED
  BY <1>2, <1>3, <1>4, <1>5, <1>6, <1>7, <1>8, <1>9 DEF Next, Cut, Done

LEMMA InitTables ==
    ASSUME BulkAssumption, Init
    PROVE  TInv
<1>1. IInv
  BY InitInv
<1>2. IsFiniteSet({}) /\ Rowed({}) /\ Keys({})
  BY FS_EmptySet DEF Rowed, Keys
<1>3. Held(NewLoader) /\ Pending(NewLoader) < BatchSize
  <2>1. /\ NewLoader.nextNode = NextId(nodes) /\ NewLoader.nextEdge = NextId(edges)
        /\ NewLoader.nodeRows = {} /\ NewLoader.edgeRows = {}
    BY DEF NewLoader
  <2> QED
    BY <1>2, <2>1, NewHeld DEF Init
<1>4. Stored
  BY <1>2, <1>3 DEF Init, Stored
<1>5. Exact
  BY DEF Init, Exact
<1> QED
  BY <1>1, <1>4, <1>5 DEF TInv

LEMMA NextTables ==
    ASSUME BulkAssumption, TInv, [Next]_vars
    PROVE  TInv'
<1>1. CASE Next
  BY <1>1, NextInv, StoredStep, ExactStep DEF TInv
<1>2. CASE UNCHANGED vars
  <2>1. IInv'
    BY <1>2, NextInv DEF TInv
  <2>2. Stored' /\ Exact'
    BY <1>2 DEF vars, TInv, Stored, Exact, Running
  <2> QED
    BY <2>1, <2>2 DEF TInv
<1> QED
  BY <1>1, <1>2

\* Every row has a rowid of its own and a document to answer for it, whichever policy
\* numbered it and whichever load or writer came in between; no batch outgrows its bound.
THEOREM TypesHold == Spec => []TypeOK
<1>1. Init => TInv
  BY InitTables, BulkAssumption
<1>2. TInv /\ [Next]_vars => TInv'
  BY NextTables, BulkAssumption
<1>3. TInv => TypeOK
  <2> SUFFICES ASSUME TInv PROVE TypeOK
    OBVIOUS
  <2>1. \A r \in nodes \union edges : r.id \in Nat /\ Owned(r)
    BY DEF TInv, Stored, Rowed
  <2>2. \A f \in {"id", "uid"} : Unique(nodes, f) /\ Unique(edges, f)
    BY DEF TInv, Stored, Keys, Unique
  <2>3. \A l \in Load : Pending(loader[l]) < BatchSize /\ next[l] \in 1 .. Len(Document[l]) + 1
    BY BulkAssumption DEF TInv, IInv, Shape, Stored, BulkAssumption
  <2> QED
    BY <2>1, <2>2, <2>3 DEF TypeOK, TInv, IInv, Shape, Stored
<1> QED
  BY <1>1, <1>2, <1>3, PTL DEF Spec

\* A failed load takes back vertices of its own and no others, whatever else was written,
\* undone or dropped while it ran, unless one of its own was dropped.
THEOREM UndoTakesItsOwn == Spec => UndoSparesOthers
<1>1. Init => TInv
  BY InitTables, BulkAssumption
<1>2. TInv /\ [Next]_vars => TInv'
  BY NextTables, BulkAssumption
<1> DEFINE Spared == \A l \in Load : Undoes(l) /\ (\A x \in lost : x[1] # l) => \A n \in nodes \ nodes' : n.by = l
<1>3. TInv /\ [Next]_vars => [Spared]_vars
  <2> SUFFICES ASSUME TInv, Next, NEW l \in Load, Undoes(l), \A x \in lost : x[1] # l,
                      NEW n \in nodes \ nodes'
               PROVE  n.by = l
    BY DEF Undoes
  <2>1. phase \in [Load -> Phases] /\ crashes \in Nat
    BY DEF TInv, IInv, Shape, Stored
  <2>2. phase[l] = "failed" /\ phase'[l] = "undone" /\ crashes' = crashes
    BY DEF Undoes
  <2>3. ~Crash
    BY <2>1, <2>2 DEF Crash
  <2>4. ASSUME NEW m \in Load, Begin(m) \/ Feed(m) \/ Cut(m) \/ Done(m) \/ SourceFails(m) PROVE FALSE
    BY <2>1, <2>2, <2>4 DEF Begin, Feed, Cut, Done, SourceFails, Fails
  <2>5. ~Writes
    BY <2>2 DEF Writes
  <2>6. ASSUME NEW m \in Load, Abort(m) PROVE Abort(l)
    <3>1. m = l
      BY <2>1, <2>2, <2>6 DEF Abort
    <3> QED
      BY <2>6, <3>1
  <2>7. Abort(l)
    BY <2>3, <2>4, <2>5, <2>6 DEF Next, AddVertex, AddEdge, DropVertex, DropEdge
  <2>8. <<l, "node", n.id>> \in journal
    BY <2>7 DEF Abort, RollbackBulkLoads, Journaled
  <2>9. PICK m \in nodes : m.id = n.id /\ m.by = l
    BY <2>8 DEF TInv, Exact, Running, Undoes
  <2>10. m = n
    BY <2>9 DEF TInv, Stored, Keys
  <2> QED
    BY <2>9, <2>10
<1> QED
  BY <1>1, <1>2, <1>3, PTL DEF Spec, UndoSparesOthers
-----------------------------------------------------------------------------
(* The vertices a load's edges join.                                       *)

\* An id that finds its vertex in whatever batches the document lands: a rowid under "preserve",
\* a uid the policy keeps, or an id of a document that lands in one batch.
Clear(l, id) ==
    /\ id # NoId
    /\ \/ Policy[l] = "preserve" /\ id \in Nat
       \/ id \notin Nat /\ (Policy[l] # "renumber" \/ Named(l, id) = {})
       \/ Named(l, id) # {} /\ Len(Document[l]) < BatchSize
Legible == \A l \in Load : \A k \in DOMAIN Document[l] :
    Document[l][k].kind = "edge" => Clear(l, Document[l][k].src) /\ Clear(l, Document[l][k].tgt)

Whence(l, k, kind) == k \in DOMAIN Document[l] /\ Document[l][k].kind = kind
Keyless(l, id) == Policy[l] = "preserve" /\ id \in Nat
VertexRow(l, r) == LET d == Document[l][r.doc] IN
    /\ r.by = l /\ Whence(l, r.doc, "vertex")
    /\ Keyless(l, d.id) => r.id = d.id
    /\ Policy[l] # "renumber" /\ ~Keyless(l, d.id) => r.uid = d.id
\* What a batch holds of the first upTo elements is what they say.
AsTold(l, b, upTo) ==
    /\ \A r \in b.nodeRows : VertexRow(l, r) /\ r.doc <= upTo
    /\ \A r \in b.edgeRows : Whence(l, r.doc, "edge") /\ r.doc <= upTo
Told == /\ \A l \in Load : AsTold(l, loader[l], next[l] - 1)
        /\ \A n \in nodes : n.by \in Load => VertexRow(n.by, n)
        /\ \A e \in edges : e.by \in Load => Whence(e.by, e.doc, "edge")
\* A short document is never cut.
Uncut == \A l \in Load : phase[l] = "feeding" /\ Len(Document[l]) < BatchSize =>
    /\ Pending(loader[l]) < next[l]
    /\ \A k \in 1 .. (next[l] - 1) : InBatch(loader[l], k)

Intact(l) == \A x \in lost : x[1] # l
Joins(e, n) == LET d == Document[e.by][e.doc]
               IN  (e.src = n.id => Names(e.by, d.src, n)) /\ (e.tgt = n.id => Names(e.by, d.tgt, n))
Joined == \A e \in edges, n \in nodes : e.by \in Load /\ Intact(e.by) => Joins(e, n)

LEMMA BufferTold ==
    ASSUME BulkAssumption, NEW l \in Load, NEW b, Batch(l, b), NEW k \in DOMAIN Document[l], AsTold(l, b, k - 1)
    PROVE  AsTold(l, Buffer(l, b, k), k)
<1> DEFINE vrow == IdOf(l, Document[l][k].id, b.nextNode)
           erow == IdOf(l, Document[l][k].id, b.nextEdge)
           v == [id |-> vrow.id, uid |-> vrow.uid, by |-> l, doc |-> k]
           e == [id |-> erow.id, uid |-> erow.uid, by |-> l, doc |-> k]
<1>0. DOMAIN Document[l] \subseteq Nat /\ k \in Nat
  <2>1. DOMAIN Document[l] = 1 .. Len(Document[l]) /\ Len(Document[l]) \in Nat
    BY DEF BulkAssumption
  <2> QED BY <2>1
<1>1. /\ \A r \in b.nodeRows : r.doc <= k
      /\ \A r \in b.edgeRows : r.doc <= k
  <2>1. \A n \in Nat : n <= k - 1 => n <= k
    BY <1>0
  <2>2. ASSUME NEW r \in b.nodeRows PROVE r.doc \in Nat /\ r.doc <= k - 1
    BY <1>0 DEF AsTold, VertexRow, Whence
  <2>3. ASSUME NEW r \in b.edgeRows PROVE r.doc \in Nat /\ r.doc <= k - 1
    BY <1>0 DEF AsTold, Whence
  <2> QED BY <2>1, <2>2, <2>3
<1>2. CASE Document[l][k].kind = "vertex"
  <2> DEFINE c == BufferVertex(l, b, k)
  <2>1. c.edgeRows = b.edgeRows /\ c.nodeRows = b.nodeRows \union {v}
    BY DEF BufferVertex, Batch, Fields
  <2>2. v.by = l /\ v.doc = k /\ v.id = vrow.id /\ v.uid = vrow.uid
    OBVIOUS
  <2>3. /\ Keyless(l, Document[l][k].id) => vrow.id = Document[l][k].id
        /\ Policy[l] # "renumber" /\ ~Keyless(l, Document[l][k].id) => vrow.uid = Document[l][k].id
    BY DEF IdOf, Keyless
  <2> HIDE DEF c, v, vrow
  <2>4. VertexRow(l, v) /\ v.doc <= k
    BY <1>0, <1>2, <2>2, <2>3 DEF VertexRow, Whence
  <2>5. AsTold(l, c, k)
    BY <1>1, <2>1, <2>4 DEF AsTold
  <2> QED BY <1>2, <2>5 DEF Buffer, c
<1>3. CASE Document[l][k].kind # "vertex"
  <2> DEFINE c == BufferEdge(l, b, k)
  <2>1. c.nodeRows = b.nodeRows /\ c.edgeRows = b.edgeRows \union {e}
    BY DEF BufferEdge, Batch, Fields
  <2>2. e.doc = k /\ Document[l][k].kind = "edge"
    BY <1>3 DEF BulkAssumption
  <2> HIDE DEF c, e
  <2>3. AsTold(l, c, k)
    BY <1>0, <1>1, <2>1, <2>2 DEF AsTold, Whence
  <2> QED BY <1>3, <2>3 DEF Buffer, c
<1> QED BY <1>2, <1>3

\* An element is one row more at most.
LEMMA BufferPending ==
    ASSUME NEW l \in Load, NEW b, Batch(l, b), Held(b), NEW k
    PROVE  Pending(b) \in Nat /\ Pending(Buffer(l, b, k)) \in Nat /\ Pending(Buffer(l, b, k)) <= Pending(b) + 1
<1>1. ASSUME NEW rows, IsFiniteSet(rows), NEW r
      PROVE  /\ Cardinality(rows) \in Nat /\ Cardinality(rows \union {r}) \in Nat
             /\ Cardinality(rows \union {r}) <= Cardinality(rows) + 1
  <2>1. IsFiniteSet(rows \union {r})
    BY <1>1, FS_AddElement
  <2>2. Cardinality(rows) \in Nat /\ Cardinality(rows \union {r}) \in Nat
    BY <1>1, <2>1, FS_CardinalityType
  <2>3. \/ Cardinality(rows \union {r}) = Cardinality(rows)
        \/ Cardinality(rows \union {r}) = Cardinality(rows) + 1
    BY <1>1, FS_AddElement
  <2> QED BY <2>2, <2>3
<1>2. IsFiniteSet(b.nodeRows) /\ IsFiniteSet(b.edgeRows)
  BY DEF Held, Rowed
<1>3. PICK r : \/ Buffer(l, b, k).nodeRows = b.nodeRows \union {r} /\ Buffer(l, b, k).edgeRows = b.edgeRows
               \/ Buffer(l, b, k).edgeRows = b.edgeRows \union {r} /\ Buffer(l, b, k).nodeRows = b.nodeRows
  <2> DEFINE vrow == IdOf(l, Document[l][k].id, b.nextNode)
             erow == IdOf(l, Document[l][k].id, b.nextEdge)
             v == [id |-> vrow.id, uid |-> vrow.uid, by |-> l, doc |-> k]
             e == [id |-> erow.id, uid |-> erow.uid, by |-> l, doc |-> k]
  <2>1. CASE Document[l][k].kind = "vertex"
    <3>1. BufferVertex(l, b, k).edgeRows = b.edgeRows /\ BufferVertex(l, b, k).nodeRows = b.nodeRows \union {v}
      BY DEF BufferVertex, Batch, Fields
    <3> HIDE DEF v
    <3> QED BY <2>1, <3>1 DEF Buffer
  <2>2. CASE Document[l][k].kind # "vertex"
    <3>1. BufferEdge(l, b, k).nodeRows = b.nodeRows /\ BufferEdge(l, b, k).edgeRows = b.edgeRows \union {e}
      BY DEF BufferEdge, Batch, Fields
    <3> HIDE DEF e
    <3> QED BY <2>2, <3>1 DEF Buffer
  <2> QED BY <2>1, <2>2
<1>4. Cardinality(b.nodeRows) \in Nat /\ Cardinality(b.edgeRows) \in Nat
  BY <1>2, FS_CardinalityType
<1>5. /\ Cardinality(b.nodeRows \union {r}) \in Nat /\ Cardinality(b.nodeRows \union {r}) <= Cardinality(b.nodeRows) + 1
      /\ Cardinality(b.edgeRows \union {r}) \in Nat /\ Cardinality(b.edgeRows \union {r}) <= Cardinality(b.edgeRows) + 1
  BY <1>1, <1>2
<1>6. Pending(b) = Cardinality(b.nodeRows) + Cardinality(b.edgeRows)
  BY DEF Pending
<1>7. \/ Pending(Buffer(l, b, k)) = Cardinality(b.nodeRows \union {r}) + Cardinality(b.edgeRows)
      \/ Pending(Buffer(l, b, k)) = Cardinality(b.nodeRows) + Cardinality(b.edgeRows \union {r})
  BY <1>3 DEF Pending
<1> QED BY <1>4, <1>5, <1>6, <1>7

\* What a clear id finds is what it names, as long as nothing the load landed was dropped.
LEMMA FindsNamed ==
    ASSUME BulkAssumption, NEW l \in Load, NEW b, NEW upTo \in Nat, AsTold(l, b, upTo),
           Keys(nodes \union b.nodeRows), Told,
           \A k \in 1 .. upTo : InBatch(b, k) \/ Landed(l, k),
           Len(Document[l]) < BatchSize => \A k \in 1 .. upTo : InBatch(b, k),
           NEW r \in b.edgeRows, NEW id, Clear(l, id), NEW m \in Endpoints(l, b, id)
    PROVE  Names(l, id, m)
<1>1. CASE Keyless(l, id)
  <2>1. ASSUME m \in OfBatch(l, b, id) PROVE m.id = id
    BY <1>1, <2>1 DEF OfBatch, AsTold, VertexRow
  <2>2. ASSUME m \in OfStore(b, id) PROVE m.id = id
    BY <1>1, <2>2 DEF OfStore, Keyless
  <2> QED BY <1>1, <2>1, <2>2 DEF Endpoints, Names, Keyless
<1>2. CASE ~Keyless(l, id) /\ Named(l, id) = {}
  <2>1. OfBatch(l, b, id) = {}
    BY <1>2 DEF OfBatch, AsTold, VertexRow, Whence, Named
  <2>2. m \in OfStore(b, id) /\ id \notin Nat
    BY <1>2, <2>1 DEF Endpoints, Clear, Keyless
  <2> QED BY <1>2, <2>2 DEF OfStore, Names, Keyless
<1>3. CASE ~Keyless(l, id) /\ Named(l, id) # {}
  <2>1. ASSUME m \in OfBatch(l, b, id) PROVE m.by = l /\ m.doc \in Named(l, id)
    BY <2>1 DEF OfBatch, AsTold, VertexRow, Whence, Named
  <2>2. ASSUME OfBatch(l, b, id) = {} PROVE m.by = l /\ m.doc \in Named(l, id)
    <3>1. PICK k \in Named(l, id) : TRUE
      BY <1>3
    <3>2. k \in DOMAIN Document[l] /\ Document[l][k].kind = "vertex" /\ Document[l][k].id = id
      BY DEF Named
    <3>3. r.doc \in DOMAIN Document[l] /\ Document[l][r.doc].kind = "edge" /\ r.doc <= upTo
      BY DEF AsTold, Whence
    <3>4. k \in 1 .. upTo
      <4>1. k < r.doc
        <5>1. \A i, j \in DOMAIN Document[l] :
                Document[l][i].kind = "edge" /\ Document[l][j].kind = "vertex" => j < i
          BY DEF BulkAssumption
        <5> QED BY <3>2, <3>3, <5>1
      <4>2. DOMAIN Document[l] = 1 .. Len(Document[l]) /\ Len(Document[l]) \in Nat
        BY DEF BulkAssumption
      <4> QED BY <3>2, <3>3, <4>1, <4>2
    <3>5. ~InBatch(b, k)
      <4>1. \A q \in b.nodeRows : q.doc # k
        BY <2>2, <3>2 DEF OfBatch
      <4>2. \A q \in b.edgeRows : q.doc # k
        BY <3>2 DEF AsTold, Whence
      <4> QED BY <4>1, <4>2 DEF InBatch
    <3>6. id \notin Nat /\ Policy[l] # "renumber"
      BY <1>3, <3>4, <3>5 DEF Clear, Keyless
    <3>7. PICK n \in nodes : n.by = l /\ n.doc = k
      BY <3>2, <3>4, <3>5 DEF Landed, Told, Whence
    <3>8. n.uid = id
      BY <3>2, <3>6, <3>7 DEF Told, VertexRow, Keyless
    <3>9. m \in nodes \union b.nodeRows /\ m.uid = id
      BY <2>2, <3>6 DEF Endpoints, OfStore
    <3>10. id # NoId
      BY DEF Clear
    <3>11. m = n
      BY <3>7, <3>8, <3>9, <3>10 DEF Keys
    <3> QED BY <3>1, <3>7, <3>11
  <2>3. m.by = l /\ m.doc \in Named(l, id)
    BY <2>1, <2>2 DEF Endpoints
  <2> QED BY <1>3, <2>3 DEF Names, Keyless
<1> QED BY <1>1, <1>2, <1>3

\* A vertex that comes in is under no edge that is there, rowids being unique.
LEMMA OldEdges ==
    ASSUME Joined, NoDangling, Keys(nodes'), nodes \subseteq nodes', lost \subseteq lost',
           NEW e \in edges, NEW n \in nodes', e.by \in Load, Intact(e.by)'
    PROVE  Joins(e, n)
<1>1. Intact(e.by)
  BY DEF Intact
<1>2. ASSUME e.src = n.id \/ e.tgt = n.id PROVE n \in nodes
  <2>1. PICK m \in nodes : m.id = n.id
    BY <1>2 DEF NoDangling
  <2> QED BY <2>1 DEF Keys
<1> QED BY <1>1, <1>2 DEF Joined, Joins

\* The edges a batch lands join what its document names.
LEMMA LandJoined ==
    ASSUME BulkAssumption, Legible, NEW l \in Load, NEW b, NEW upTo \in Nat, Batch(l, b), AsTold(l, b, upTo),
           Told, Joined, NoDangling, Keys(nodes'), Lands(l, b), LandRows(l, b), lost' = lost,
           \A k \in 1 .. upTo : InBatch(b, k) \/ Landed(l, k) \/ <<l, k>> \in lost,
           Len(Document[l]) < BatchSize => \A k \in 1 .. upTo : InBatch(b, k)
    PROVE  /\ Joined'
           /\ \A n \in nodes' : n.by \in Load => VertexRow(n.by, n)
           /\ \A e \in edges' : e.by \in Load => Whence(e.by, e.doc, "edge")
<1>1. nodes' = nodes \union b.nodeRows
  BY DEF LandRows
<1>2. \A r \in b.edgeRows : /\ EdgeRow(l, b, r).by = l /\ EdgeRow(l, b, r).doc = r.doc
                            /\ EdgeRow(l, b, r).src = EndpointOf(l, b, Document[l][r.doc].src)
                            /\ EdgeRow(l, b, r).tgt = EndpointOf(l, b, Document[l][r.doc].tgt)
  BY DEF EdgeRow
<1>3. ASSUME NEW r \in b.edgeRows, NEW id, Clear(l, id), Endpoints(l, b, id) # {}, Intact(l),
             NEW n \in nodes', EndpointOf(l, b, id) = n.id
      PROVE  Names(l, id, n)
  <2>1. PICK m \in Endpoints(l, b, id) : m.id = n.id
    BY <1>3 DEF EndpointOf
  <2>2. m \in nodes'
    BY <1>1 DEF Endpoints, OfBatch, OfStore
  <2>3. m = n
    BY <2>1, <2>2 DEF Keys
  <2>4. \A k \in 1 .. upTo : InBatch(b, k) \/ Landed(l, k)
    <3>1. \A k : <<l, k>>[1] = l
      OBVIOUS
    <3> QED BY <1>3, <3>1 DEF Intact
  <2>5. Keys(nodes \union b.nodeRows)
    BY <1>1
  <2> QED BY <1>3, <2>3, <2>4, <2>5, FindsNamed
<1>4. ASSUME NEW r \in b.edgeRows, NEW n \in nodes', Intact(l)
      PROVE  Joins(EdgeRow(l, b, r), n)
  <2>1. Clear(l, Document[l][r.doc].src) /\ Clear(l, Document[l][r.doc].tgt)
    BY DEF AsTold, Whence, Legible
  <2>2. Endpoints(l, b, Document[l][r.doc].src) # {} /\ Endpoints(l, b, Document[l][r.doc].tgt) # {}
    BY DEF Lands
  <2>3. EndpointOf(l, b, Document[l][r.doc].src) = n.id => Names(l, Document[l][r.doc].src, n)
    BY <1>3, <1>4, <2>1, <2>2
  <2>4. EndpointOf(l, b, Document[l][r.doc].tgt) = n.id => Names(l, Document[l][r.doc].tgt, n)
    BY <1>3, <1>4, <2>1, <2>2
  <2> QED BY <1>2, <2>3, <2>4 DEF Joins
<1>5. \A e \in edges' : e \in edges \/ \E r \in b.edgeRows : e = EdgeRow(l, b, r)
  BY DEF LandRows
<1>6. Joined'
  <2> SUFFICES ASSUME NEW e \in edges', NEW n \in nodes', e.by \in Load, Intact(e.by)'
               PROVE  Joins(e, n)
    BY DEF Joined, Joins, Names, Named
  <2>1. CASE e \in edges
    BY <1>1, <2>1, OldEdges
  <2>2. ASSUME NEW r \in b.edgeRows, e = EdgeRow(l, b, r) PROVE Joins(e, n)
    <3>1. Intact(l)
      BY <1>2, <2>2 DEF Intact
    <3> QED BY <1>4, <2>2, <3>1
  <2> QED BY <1>5, <2>1, <2>2
<1>7. \A n \in nodes' : n.by \in Load => VertexRow(n.by, n)
  <2>1. \A n \in b.nodeRows : n.by = l /\ VertexRow(l, n)
    BY DEF AsTold, Batch
  <2> QED BY <1>1, <2>1 DEF Told
<1>8. \A e \in edges' : e.by \in Load => Whence(e.by, e.doc, "edge")
  <2>1. \A r \in b.edgeRows : Whence(l, r.doc, "edge")
    BY DEF AsTold
  <2> QED BY <1>2, <1>5, <2>1 DEF Told
<1> QED BY <1>6, <1>7, <1>8

NInv == Told /\ Uncut /\ Joined

LEMMA NewTold ==
    ASSUME NEW b, b.nodeRows = {}, b.edgeRows = {}
    PROVE  /\ \A l \in Load : \A upTo : AsTold(l, b, upTo)
           /\ Pending(b) = 0
<1>1. Cardinality({}) = 0
  BY FS_EmptySet
<1> QED BY <1>1 DEF AsTold, Pending

\* The element its source gives next joins the batch.
LEMMA FedTold ==
    ASSUME BulkAssumption, TInv, Told, Uncut, NEW l \in Load, phase[l] = "feeding", next[l] <= Len(Document[l])
    PROVE  LET b == Buffer(l, loader[l], next[l])
           IN  /\ next[l] \in Nat \ {0} /\ Batch(l, b) /\ Held(b) /\ AsTold(l, b, next[l])
               /\ \A k \in 1 .. next[l] : InBatch(b, k) \/ Landed(l, k) \/ <<l, k>> \in lost
               /\ Len(Document[l]) < BatchSize =>
                    /\ Pending(b) \in Nat /\ Pending(b) <= next[l]
                    /\ \A k \in 1 .. next[l] : InBatch(b, k)
<1> DEFINE b == Buffer(l, loader[l], next[l])
<1>1. Batch(l, loader[l]) /\ Held(loader[l]) /\ next[l] \in Nat \ {0}
  BY DEF TInv, IInv, Shape, Stored
<1>2. next[l] \in DOMAIN Document[l]
  BY <1>1 DEF BulkAssumption
<1>3. Batch(l, b) /\ Held(b) /\ InBatch(b, next[l]) /\ \A j : InBatch(loader[l], j) => InBatch(b, j)
  BY <1>1, <1>2, Buffered, BufferHeld
<1>4. AsTold(l, b, next[l])
  BY <1>1, <1>2, BufferTold DEF Told
<1>5. Pending(loader[l]) \in Nat /\ Pending(b) \in Nat /\ Pending(b) <= Pending(loader[l]) + 1
  BY <1>1, BufferPending
<1> HIDE DEF b
<1>6. \A k \in 1 .. next[l] : k = next[l] \/ k \in 1 .. (next[l] - 1)
  BY <1>1
<1>7. \A k \in 1 .. next[l] : InBatch(b, k) \/ Landed(l, k) \/ <<l, k>> \in lost
  <2>1. \A k \in 1 .. (next[l] - 1) : InBatch(loader[l], k) \/ Landed(l, k) \/ <<l, k>> \in lost
    BY DEF TInv, IInv, Progress
  <2> QED BY <1>3, <1>6, <2>1
<1>8. ASSUME Len(Document[l]) < BatchSize
      PROVE  Pending(b) <= next[l] /\ \A k \in 1 .. next[l] : InBatch(b, k)
  <2>1. Pending(loader[l]) < next[l] /\ \A k \in 1 .. (next[l] - 1) : InBatch(loader[l], k)
    BY <1>8 DEF Uncut
  <2>2. Pending(b) <= next[l]
    BY <1>1, <1>5, <2>1
  <2> QED BY <1>3, <1>6, <2>1, <2>2
<1> QED BY <1>1, <1>3, <1>4, <1>5, <1>7, <1>8 DEF b

\* A step that lands nothing: rows go, others write, a load's phase changes.
LEMMA SameBatches ==
    ASSUME BulkAssumption, NInv, NoDangling, Keys(nodes'), UNCHANGED <<next, loader>>,
           \A l \in Load : phase'[l] = "feeding" => phase[l] = "feeding",
           \A n \in nodes' \ nodes : n.by \notin Load,
           \A e \in edges' \ edges : e.by \notin Load,
           nodes \subseteq nodes' \/ nodes' \subseteq nodes, lost \subseteq lost'
    PROVE  NInv'
<1>1. Told' /\ Uncut'
  BY DEF NInv, Told, Uncut
<1>2. ASSUME NEW e \in edges', NEW n \in nodes', e.by \in Load, Intact(e.by)'
      PROVE  Joins(e, n)
  <2>1. e \in edges
    BY <1>2
  <2>2. CASE nodes \subseteq nodes'
    BY <1>2, <2>1, <2>2, OldEdges DEF NInv
  <2>3. CASE nodes' \subseteq nodes
    <3>1. Intact(e.by)
      BY <1>2 DEF Intact
    <3> QED BY <1>2, <2>1, <2>3, <3>1 DEF NInv, Joined
  <2> QED BY <2>2, <2>3
<1>3. Joined'
  BY <1>2 DEF Joined, Joins, Names, Named
<1> QED BY <1>1, <1>3 DEF NInv

LEMMA NextNamed ==
    ASSUME BulkAssumption, Legible, TInv, NInv, NoDangling, Next
    PROVE  NInv'
<1>0. Keys(nodes') /\ User \notin Load
  BY TablesStep DEF TInv, BulkAssumption
<1>1. /\ DOMAIN loader = Load /\ DOMAIN next = Load /\ DOMAIN phase = Load
      /\ \A l \in Load : Len(Document[l]) \in Nat /\ next[l] \in Nat \ {0} /\ Batch(l, loader[l])
  BY DEF TInv, IInv, Shape, BulkAssumption
<1>2. /\ NewLoader.nodeRows = {} /\ NewLoader.edgeRows = {}
      /\ NewLoader'.nodeRows = {} /\ NewLoader'.edgeRows = {}
  BY DEF NewLoader
<1>3. ASSUME NEW l \in Load, Fails(l) PROVE NInv'
  BY <1>0, <1>1, <1>3, SameBatches DEF Fails, store
<1>4. ASSUME NEW l \in Load, Begin(l) PROVE NInv'
  <2>1. /\ next' = [next EXCEPT ![l] = 1] /\ loader' = [loader EXCEPT ![l] = NewLoader]
        /\ phase' = [phase EXCEPT ![l] = "feeding"] /\ nodes' = nodes /\ edges' = edges
        /\ lost' = {x \in lost : x[1] # l} /\ phase[l] \in {"idle", "undone"}
    BY <1>4 DEF Begin, store
  <2> DEFINE b == NewLoader
  <2>2. b.nodeRows = {} /\ b.edgeRows = {}
    BY <1>2
  <2>3. loader'[l] = b /\ next'[l] = 1 /\ \A m \in Load : m # l => loader'[m] = loader[m] /\ next'[m] = next[m] /\ phase'[m] = phase[m]
    BY <1>1, <2>1
  <2> HIDE DEF b
  <2>4. AsTold(l, b, 0) /\ Pending(b) = 0
    BY <2>2, NewTold
  <2>5. Told'
    <3>1. AsTold(l, loader'[l], next'[l] - 1)
      BY <2>3, <2>4
    <3> QED BY <2>1, <2>3, <3>1 DEF NInv, Told
  <2>6. Uncut'
    <3>1. Pending(loader'[l]) < next'[l] /\ \A k \in 1 .. (next'[l] - 1) : InBatch(loader'[l], k)
      BY <2>3, <2>4
    <3> QED BY <2>3, <3>1 DEF NInv, Uncut
  <2>7. Joined'
    <3>1. \A e \in edges : e.by # l
      BY <2>1 DEF TInv, IInv, NothingLeft
    <3>2. ASSUME NEW e \in edges, e.by # l, Intact(e.by)' PROVE Intact(e.by)
      BY <2>1, <3>2 DEF Intact
    <3> QED BY <2>1, <3>1, <3>2 DEF NInv, Joined, Joins, Names, Named
  <2> QED BY <2>5, <2>6, <2>7 DEF NInv
<1>5. ASSUME NEW l \in Load, Feed(l) PROVE NInv'
  <2> DEFINE b == Buffer(l, loader[l], next[l])
  <2>1. /\ phase[l] = "feeding" /\ next[l] <= Len(Document[l])
        /\ loader' = [loader EXCEPT ![l] = b] /\ next' = [next EXCEPT ![l] = @ + 1]
        /\ nodes' = nodes /\ edges' = edges /\ phase' = phase /\ lost' = lost
    BY <1>5 DEF Feed, store
  <2>2. /\ AsTold(l, b, next[l])
        /\ Len(Document[l]) < BatchSize =>
             /\ Pending(b) \in Nat /\ Pending(b) <= next[l]
             /\ \A k \in 1 .. next[l] : InBatch(b, k)
    BY <2>1, FedTold DEF NInv
  <2> HIDE DEF b
  <2>3. loader'[l] = b /\ next'[l] = next[l] + 1 /\ \A m \in Load : m # l => loader'[m] = loader[m] /\ next'[m] = next[m]
    BY <1>1, <2>1
  <2>4. next'[l] - 1 = next[l]
    BY <1>1, <2>3
  <2>5. Told'
    BY <2>1, <2>2, <2>3, <2>4 DEF NInv, Told
  <2>6. Uncut'
    <3>1. Len(Document[l]) < BatchSize =>
            Pending(loader'[l]) < next'[l] /\ \A k \in 1 .. (next'[l] - 1) : InBatch(loader'[l], k)
      BY <1>1, <2>2, <2>3, <2>4
    <3> QED BY <2>1, <2>3, <3>1 DEF NInv, Uncut
  <2>7. Joined'
    BY <2>1 DEF NInv, Joined, Joins, Names, Named, Intact
  <2> QED BY <2>5, <2>6, <2>7 DEF NInv
<1>6. ASSUME NEW l \in Load, Cut(l), ~Fails(l) PROVE NInv'
  <2> DEFINE b == Buffer(l, loader[l], next[l])
             c == NewLoader'
  <2>1. /\ phase[l] = "feeding" /\ next[l] <= Len(Document[l]) /\ Pending(b) >= BatchSize
        /\ Lands(l, b) /\ LandRows(l, b)
        /\ loader' = [loader EXCEPT ![l] = c] /\ next' = [next EXCEPT ![l] = @ + 1]
        /\ phase' = phase /\ lost' = lost
    BY <1>6 DEF Cut, LandBatch
  <2>2. /\ Batch(l, b) /\ AsTold(l, b, next[l])
        /\ \A k \in 1 .. next[l] : InBatch(b, k) \/ Landed(l, k) \/ <<l, k>> \in lost
        /\ Len(Document[l]) < BatchSize =>
             /\ Pending(b) \in Nat /\ Pending(b) <= next[l]
             /\ \A k \in 1 .. next[l] : InBatch(b, k)
    BY <2>1, FedTold DEF NInv
  <2>3. c.nodeRows = {} /\ c.edgeRows = {}
    BY <1>2
  <2> HIDE DEF b, c
  <2>4. AsTold(l, c, next[l])
    BY <2>3, NewTold
  <2>5. ~(Len(Document[l]) < BatchSize)
    BY <1>1, <2>1, <2>2 DEF BulkAssumption
  <2>6. loader'[l] = c /\ next'[l] - 1 = next[l] /\ \A m \in Load : m # l => loader'[m] = loader[m] /\ next'[m] = next[m]
    BY <1>1, <2>1
  <2>7. /\ Joined'
        /\ \A n \in nodes' : n.by \in Load => VertexRow(n.by, n)
        /\ \A e \in edges' : e.by \in Load => Whence(e.by, e.doc, "edge")
    BY <1>0, <1>1, <2>1, <2>2, <2>5, LandJoined DEF NInv
  <2>8. Told'
    BY <2>4, <2>6, <2>7 DEF NInv, Told
  <2>9. Uncut'
    BY <2>1, <2>5, <2>6 DEF NInv, Uncut
  <2> QED BY <2>7, <2>8, <2>9 DEF NInv
<1>7. ASSUME NEW l \in Load, Done(l), ~Fails(l) PROVE NInv'
  <2> DEFINE b == loader[l]
             upTo == next[l] - 1
  <2>1. /\ phase[l] = "feeding" /\ Lands(l, b) /\ LandRows(l, b)
        /\ loader' = loader /\ next' = next /\ lost' = lost
        /\ phase' = [phase EXCEPT ![l] = "done"]
    BY <1>7 DEF Done
  <2>2. upTo \in Nat /\ Batch(l, b) /\ AsTold(l, b, upTo)
    BY <1>1 DEF NInv, Told
  <2>3. \A k \in 1 .. upTo : InBatch(b, k) \/ Landed(l, k) \/ <<l, k>> \in lost
    BY <2>1 DEF TInv, IInv, Progress
  <2>4. Len(Document[l]) < BatchSize => \A k \in 1 .. upTo : InBatch(b, k)
    BY <2>1 DEF NInv, Uncut
  <2> HIDE DEF b, upTo
  <2>5. /\ Joined'
        /\ \A n \in nodes' : n.by \in Load => VertexRow(n.by, n)
        /\ \A e \in edges' : e.by \in Load => Whence(e.by, e.doc, "edge")
    BY <1>0, <2>1, <2>2, <2>3, <2>4, LandJoined DEF NInv
  <2>6. Told'
    BY <2>1, <2>5 DEF NInv, Told
  <2>7. Uncut'
    BY <1>1, <2>1 DEF NInv, Uncut
  <2> QED BY <2>5, <2>6, <2>7 DEF NInv
<1>8. ASSUME NEW L, RollbackBulkLoads(L), LostBy(L), UNCHANGED <<next, loader>>,
             \A l \in Load : phase'[l] = "feeding" => phase[l] = "feeding"
      PROVE  NInv'
  <2>1. nodes' \subseteq nodes /\ edges' \subseteq edges /\ lost \subseteq lost'
    BY <1>8 DEF RollbackBulkLoads, LostBy
  <2> QED BY <1>0, <1>8, <2>1, SameBatches
<1>9. ASSUME NEW l \in Load, Abort(l) PROVE NInv'
  BY <1>1, <1>8, <1>9 DEF Abort
<1>10. CASE Crash
  BY <1>8, <1>10 DEF Crash
<1>11. CASE AddVertex
  <2> DEFINE r == [id |-> NextId(nodes), uid |-> NoId, by |-> User, doc |-> 0]
  <2>1. nodes' = nodes \union {r} /\ edges' = edges /\ lost' = lost /\ UNCHANGED <<next, loader>> /\ phase' = phase
    BY <1>11 DEF AddVertex, Writes
  <2>2. r.by = User
    OBVIOUS
  <2> HIDE DEF r
  <2>3. /\ \A n \in nodes' \ nodes : n.by \notin Load
        /\ \A e \in edges' \ edges : e.by \notin Load
        /\ nodes \subseteq nodes' /\ lost \subseteq lost'
    BY <1>0, <2>1, <2>2
  <2> QED BY <1>0, <2>1, <2>3, SameBatches
<1>12. ASSUME NEW m \in nodes, NEW n \in nodes, AddEdge(m, n) PROVE NInv'
  <2> DEFINE r == [id |-> NextId(edges), uid |-> NoId, by |-> User, doc |-> 0, src |-> m.id, tgt |-> n.id]
  <2>1. edges' = edges \union {r} /\ nodes' = nodes /\ lost' = lost /\ UNCHANGED <<next, loader>> /\ phase' = phase
    BY <1>12 DEF AddEdge, Writes
  <2>2. r.by = User
    OBVIOUS
  <2> HIDE DEF r
  <2>3. /\ \A x \in nodes' \ nodes : x.by \notin Load
        /\ \A e \in edges' \ edges : e.by \notin Load
        /\ nodes \subseteq nodes' /\ lost \subseteq lost'
    BY <1>0, <2>1, <2>2
  <2> QED BY <1>0, <2>1, <2>3, SameBatches
<1>13. CASE (\E n \in nodes : DropVertex(n)) \/ (\E e \in edges : DropEdge(e))
  <2>1. Writes /\ LostBy({}) /\ nodes' \subseteq nodes /\ edges' \subseteq edges
    BY <1>13 DEF DropVertex, DropEdge
  <2> QED BY <1>0, <2>1, SameBatches DEF Writes, LostBy
<1>14. ASSUME NEW l \in Load, SourceFails(l) PROVE NInv'
  BY <1>3, <1>14 DEF SourceFails
<1> QED BY <1>3, <1>4, <1>5, <1>6, <1>7, <1>9, <1>10, <1>11, <1>12, <1>13, <1>14 DEF Next

\* The edges of a load join the vertices its document names, in whichever batches they landed and
\* whoever wrote in between (resolveEndpoint), as long as nothing that was landed is dropped, where the
\* document's ids are rowids it preserves, uids its policy keeps, or all in one batch.
THEOREM EdgesJoinNamed == Legible => (Spec => [](lost = {} => EndpointsNamed))
<1>1. Init => TInv
  BY InitTables, BulkAssumption
<1>2. TInv /\ [Next]_vars => TInv'
  BY NextTables, BulkAssumption
<1>3. Init => NInv
  <2> SUFFICES ASSUME Init PROVE NInv
    OBVIOUS
  <2>1. NewLoader.nodeRows = {} /\ NewLoader.edgeRows = {}
    BY DEF NewLoader
  <2>2. \A l \in Load : AsTold(l, NewLoader, 0)
    BY <2>1, NewTold
  <2>3. \A l \in Load : loader[l] = NewLoader /\ next[l] - 1 = 0 /\ phase[l] = "idle"
    BY DEF Init
  <2> QED BY <2>2, <2>3 DEF Init, NInv, Told, Uncut, Joined
<1>4. Legible /\ TInv /\ NInv /\ NoDangling /\ [Next]_vars => NInv'
  <2>1. CASE UNCHANGED vars
    BY <2>1 DEF vars, NInv, Told, Uncut, Joined, Joins, Names, Named, Intact, InBatch
  <2> QED BY <2>1, NextNamed, BulkAssumption
<1>5. NInv => (lost = {} => EndpointsNamed)
  BY DEF NInv, Joined, Joins, Intact, EndpointsNamed
<1> SUFFICES ASSUME Legible PROVE Spec => [](lost = {} => EndpointsNamed)
  OBVIOUS
<1>6. TInv /\ NInv /\ NoDangling /\ [Next]_vars => NInv'
  BY <1>4
<1> QED BY <1>1, <1>2, <1>3, <1>5, <1>6, NoEdgeHangs, PTL DEF Spec

=============================================================================
