------------------------------ MODULE BulkLoad ------------------------------
(***************************************************************************)
(* src/bulk.ts: streaming loads of documents into one graph.  A load reads *)
(* its document element by element, awaiting the source, and lands it a    *)
(* batch at a time; each batch journals the rowids it made, and a load     *)
(* that fails, or whose isolate dies, is undone from that journal          *)
(* (src/storage.ts).  Other writers and other loads come in between.       *)
(*                                                                         *)
(* A row keeps who wrote it ("by", "doc": the element of the load's        *)
(* document): nobody reads that but the properties.                        *)
(***************************************************************************)
EXTENDS Integers, Sequences, FiniteSets

CONSTANTS
    Load, User,             \* streaming loads; everyone else who writes
    Document,               \* Load -> its elements, the vertices before the edges
    Policy,                 \* Load -> idPolicy
    BatchSize,
    NoId,                   \* an element its document gives no id; a row without uid
    MaxWrites, MaxLoads, MaxCrashes     \* bounds: others' writes, starts of one load, crashes

Policies == {"preserve", "remap", "renumber"}

ASSUME BulkAssumption ==
    /\ User \notin Load /\ NoId \notin Int
    /\ Policy \in [Load -> Policies]
    /\ \A l \in Load : LET D == Document[l] IN
        /\ D \in Seq({D[k] : k \in DOMAIN D})
        /\ \A k \in DOMAIN D : D[k].kind \in {"vertex", "edge"}
        /\ \A j, k \in DOMAIN D : D[j].kind = "edge" /\ D[k].kind = "vertex" => k < j
        /\ \A j, k \in DOMAIN D : D[j].kind = D[k].kind /\ D[j].id = D[k].id => j = k \/ D[j].id = NoId
    /\ BatchSize \in Nat \ {0}
    /\ MaxWrites \in Nat /\ MaxLoads \in Nat /\ MaxCrashes \in Nat

VARIABLES
    nodes, edges,   \* the rows of the two tables
    journal,        \* bulk_journal: <<load, kind, rowid>>
    phase,          \* Load -> "idle", "feeding", "failed" (not yet undone), "done", "undone"
    next,           \* Load -> the element its source gives next
    loader,         \* Load -> the BulkLoader of the batch under way
    lost,           \* what others took from a load: <<load, doc>>
    loads, writes, crashes

store == <<nodes, edges, journal>>
bounds == <<loads, writes, crashes>>
vars == <<nodes, edges, journal, phase, next, loader, lost, loads, writes, crashes>>

\* A batch ---------------------------------------------------------------------

NextId(rows) == IF rows = {} THEN 1
                ELSE 1 + CHOOSE n \in {r.id : r \in rows} : \A r \in rows : r.id <= n

NewLoader == [nextNode |-> NextId(nodes), nextEdge |-> NextId(edges),
              empty |-> NextId(nodes) = 1 /\ NextId(edges) = 1, nodeRows |-> {}, edgeRows |-> {}]

\* The rowid and the uid an id becomes.
IdOf(l, id, minted) ==
    IF Policy[l] = "preserve" /\ id \in Nat THEN [id |-> id, uid |-> NoId]
    ELSE [id |-> minted, uid |-> IF Policy[l] = "renumber" THEN NoId ELSE id]

Past(n, cursor) == IF n >= cursor THEN n + 1 ELSE cursor

BufferVertex(l, b, k) ==
    LET row == IdOf(l, Document[l][k].id, b.nextNode)
    IN  [b EXCEPT !.nextNode = Past(row.id, @),
                  !.nodeRows = @ \union {[id |-> row.id, uid |-> row.uid, by |-> l, doc |-> k]}]

\* An edge's endpoints are looked up when the batch lands, its vertices being in by then.
BufferEdge(l, b, k) ==
    LET row == IdOf(l, Document[l][k].id, b.nextEdge)
    IN  [b EXCEPT !.nextEdge = Past(row.id, @),
                  !.edgeRows = @ \union {[id |-> row.id, uid |-> row.uid, by |-> l, doc |-> k]}]

Buffer(l, b, k) == IF Document[l][k].kind = "vertex" THEN BufferVertex(l, b, k) ELSE BufferEdge(l, b, k)

Pending(b) == Cardinality(b.nodeRows) + Cardinality(b.edgeRows)

\* vertexIds: a vertex of this batch by its document's id; else the store, by rowid or by uid.
OfBatch(l, b, id) == {n \in b.nodeRows : Document[l][n.doc].id = id}
OfStore(b, id) == {n \in nodes \union b.nodeRows : IF id \in Nat THEN n.id = id ELSE n.uid = id}
\* Mutant of Endpoints: the store is asked before the batch.
EndpointsStoreFirst(l, b, id) == IF OfStore(b, id) # {} THEN OfStore(b, id) ELSE OfBatch(l, b, id)
Endpoints(l, b, id) == IF OfBatch(l, b, id) # {} THEN OfBatch(l, b, id) ELSE OfStore(b, id)

Clashes(new, old, field) == \E r \in new, s \in old : r[field] = s[field] /\ r[field] # NoId
Unique(rows, field) == \A r, s \in rows : r[field] = s[field] => r = s \/ r[field] = NoId

\* assertNoCollisions: the refusal that names the policy to use.
Collides(l, b) ==
    /\ ~b.empty
    /\ \/ Policy[l] = "preserve" /\ (Clashes(b.nodeRows, nodes, "id") \/ Clashes(b.edgeRows, edges, "id"))
       \/ Clashes(b.nodeRows, nodes, "uid") \/ Clashes(b.edgeRows, edges, "uid")

\* SQLite's UNIQUE constraints, the journal's key among them.
Keyed(rows, old) == \A f \in {"id", "uid"} : Unique(rows, f) /\ ~Clashes(rows, old, f)
JournalRows(l, b) == {<<l, "node", r.id>> : r \in b.nodeRows} \union {<<l, "edge", r.id>> : r \in b.edgeRows}
\* Mutant of Lands: no constraint behind the check an empty target skips.
LandsUnkeyed(l, b) ==
    /\ ~Collides(l, b)
    /\ \A r \in b.edgeRows : /\ Endpoints(l, b, Document[l][r.doc].src) # {}
                             /\ Endpoints(l, b, Document[l][r.doc].tgt) # {}
Lands(l, b) ==
    /\ ~Collides(l, b)
    /\ Keyed(b.nodeRows, nodes) /\ Keyed(b.edgeRows, edges)
    /\ JournalRows(l, b) \intersect journal = {}
    /\ \A r \in b.edgeRows : /\ Endpoints(l, b, Document[l][r.doc].src) # {}
                             /\ Endpoints(l, b, Document[l][r.doc].tgt) # {}

EndpointOf(l, b, id) == (CHOOSE n \in Endpoints(l, b, id) : TRUE).id
EdgeRow(l, b, r) == [id |-> r.id, uid |-> r.uid, by |-> l, doc |-> r.doc,
                     src |-> EndpointOf(l, b, Document[l][r.doc].src),
                     tgt |-> EndpointOf(l, b, Document[l][r.doc].tgt)]

LandRows(l, b) ==
    /\ nodes' = nodes \union b.nodeRows
    /\ edges' = edges \union {EdgeRow(l, b, r) : r \in b.edgeRows}

LandBatch(l, b) == LandRows(l, b) /\ journal' = journal \union JournalRows(l, b)

\* The undo --------------------------------------------------------------------

\* Mutant of Journaled: every load's journal, whichever load failed.
JournaledByAny(L, kind) == {j[3] : j \in {i \in journal : i[2] = kind}}
Journaled(L, kind) == {n \in {j[3] : j \in journal} : \E l \in L : <<l, kind, n>> \in journal}
\* Mutant of Touches: the load's own edges only.
TouchesOwn(L) == {e \in edges : e.id \in Journaled(L, "edge")}
Touches(L) == {e \in edges : \/ e.id \in Journaled(L, "edge")
                             \/ e.src \in Journaled(L, "node") \/ e.tgt \in Journaled(L, "node")}
RollbackBulkLoads(L) ==
    /\ edges' = edges \ Touches(L)
    /\ nodes' = {n \in nodes : n.id \notin Journaled(L, "node")}
    /\ journal' = {j \in journal : j[1] \notin L}

\* What is removed from a load by anything but its own journal, which L undoes.
Others(L, kind, rows) == {<<r.by, r.doc>> : r \in {q \in rows : q.by \in Load /\
                                ~(q.by \in L /\ <<q.by, kind, q.id>> \in journal)}}
LostBy(L) == lost' = lost \union Others(L, "node", nodes \ nodes') \union Others(L, "edge", edges \ edges')

\* Loads -----------------------------------------------------------------------

Init ==
    /\ nodes = {} /\ edges = {} /\ journal = {} /\ lost = {}
    /\ phase = [l \in Load |-> "idle"] /\ next = [l \in Load |-> 1]
    /\ loader = [l \in Load |-> NewLoader]
    /\ loads = [l \in Load |-> 0] /\ writes = 0 /\ crashes = 0

Begin(l) ==
    /\ phase[l] \in {"idle", "undone"} /\ loads[l] < MaxLoads
    /\ loads' = [loads EXCEPT ![l] = @ + 1]
    /\ phase' = [phase EXCEPT ![l] = "feeding"] /\ next' = [next EXCEPT ![l] = 1]
    /\ loader' = [loader EXCEPT ![l] = NewLoader]
    /\ lost' = {x \in lost : x[1] # l}
    /\ UNCHANGED <<store, writes, crashes>>

Fails(l) == /\ phase' = [phase EXCEPT ![l] = "failed"]
            /\ UNCHANGED <<store, next, loader, lost, bounds>>

\* The source gives an element and the batch is still short.
Feed(l) ==
    /\ phase[l] = "feeding" /\ next[l] <= Len(Document[l])
    /\ LET b == Buffer(l, loader[l], next[l])
       IN  Pending(b) < BatchSize /\ loader' = [loader EXCEPT ![l] = b]
    /\ next' = [next EXCEPT ![l] = @ + 1]
    /\ UNCHANGED <<store, phase, lost, bounds>>

\* The element fills the batch: it lands, and the next loader reads its cursors.
Cut(l) ==
    /\ phase[l] = "feeding" /\ next[l] <= Len(Document[l])
    /\ LET b == Buffer(l, loader[l], next[l])
       IN  /\ Pending(b) >= BatchSize
           /\ \/ /\ Lands(l, b) /\ LandBatch(l, b)
                 /\ loader' = [loader EXCEPT ![l] = NewLoader']
                 /\ next' = [next EXCEPT ![l] = @ + 1]
                 /\ UNCHANGED <<phase, lost, bounds>>
              \/ ~Lands(l, b) /\ Fails(l)

\* Mutant of Done: the elements since the last cut are not flushed.
DoneUnflushed(l) ==
    /\ phase[l] = "feeding" /\ next[l] > Len(Document[l])
    /\ journal' = {j \in journal : j[1] # l}
    /\ phase' = [phase EXCEPT ![l] = "done"]
    /\ UNCHANGED <<nodes, edges, next, loader, lost, bounds>>

\* The document ends: the last batch lands and the journal is cleared in one unit.
Done(l) ==
    /\ phase[l] = "feeding" /\ next[l] > Len(Document[l])
    /\ \/ /\ Lands(l, loader[l]) /\ LandRows(l, loader[l])
          /\ journal' = {j \in journal : j[1] # l}
          /\ phase' = [phase EXCEPT ![l] = "done"]
          /\ UNCHANGED <<next, loader, lost, bounds>>
       \/ ~Lands(l, loader[l]) /\ Fails(l)

\* A malformed line, or a source that breaks off.
SourceFails(l) == phase[l] = "feeding" /\ Fails(l)

Abort(l) ==
    /\ phase[l] = "failed"
    /\ RollbackBulkLoads({l}) /\ LostBy({l})
    /\ phase' = [phase EXCEPT ![l] = "undone"]
    /\ UNCHANGED <<next, loader, bounds>>

\* The isolate dies; the store built next sweeps every journal before it serves anything.
Crash ==
    /\ crashes < MaxCrashes /\ crashes' = crashes + 1
    /\ RollbackBulkLoads(Load) /\ LostBy(Load)
    /\ phase' = [l \in Load |-> IF phase[l] \in {"feeding", "failed"} THEN "undone" ELSE phase[l]]
    /\ UNCHANGED <<next, loader, loads, writes>>

\* Other writers ---------------------------------------------------------------

Writes == /\ writes < MaxWrites /\ writes' = writes + 1
          /\ UNCHANGED <<journal, phase, next, loader, loads, crashes>>

AddVertex ==
    /\ Writes
    /\ nodes' = nodes \union {[id |-> NextId(nodes), uid |-> NoId, by |-> User, doc |-> 0]}
    /\ UNCHANGED <<edges, lost>>

AddEdge(m, n) ==
    /\ Writes
    /\ edges' = edges \union {[id |-> NextId(edges), uid |-> NoId, by |-> User, doc |-> 0,
                               src |-> m.id, tgt |-> n.id]}
    /\ UNCHANGED <<nodes, lost>>

DropVertex(n) ==
    /\ Writes
    /\ nodes' = nodes \ {n} /\ edges' = {e \in edges : e.src # n.id /\ e.tgt # n.id}
    /\ LostBy({})

DropEdge(e) ==
    /\ Writes
    /\ edges' = edges \ {e} /\ UNCHANGED nodes
    /\ LostBy({})

Next ==
    \/ \E l \in Load : Begin(l) \/ Feed(l) \/ Cut(l) \/ Done(l) \/ SourceFails(l) \/ Abort(l)
    \/ Crash
    \/ AddVertex
    \/ \E m, n \in nodes : AddEdge(m, n)
    \/ \E n \in nodes : DropVertex(n)
    \/ \E e \in edges : DropEdge(e)

Spec == Init /\ [][Next]_vars

\* Properties -------------------------------------------------------------------

Phases == {"idle", "feeding", "failed", "done", "undone"}
Running(l) == phase[l] \in {"feeding", "failed"}
Landed(l, k) == \/ \E n \in nodes : n.by = l /\ n.doc = k
                \/ \E e \in edges : e.by = l /\ e.doc = k
Owned(r) == \/ r.by = User /\ r.doc = 0
            \/ r.by \in Load /\ r.doc \in DOMAIN Document[r.by]

\* Types: every row has a rowid and an owner, no two rows of a table share a rowid or a
\* uid, and a batch never holds more than it may (nodes, edges, BatchingLoader.tick).
TypeOK ==
    /\ \A r \in nodes \union edges : r.id \in Nat /\ Owned(r)
    /\ \A f \in {"id", "uid"} : Unique(nodes, f) /\ Unique(edges, f)
    /\ journal \subseteq Load \X {"node", "edge"} \X Nat
    /\ phase \in [Load -> Phases]
    /\ \A l \in Load : Pending(loader[l]) < BatchSize /\ next[l] \in 1 .. Len(Document[l]) + 1

\* What a running load has landed is journaled, and no other load has a journal: a crash
\* or a failure at any point can be undone, and a finished load cannot (flush, done).
JournalCovers == \A l \in Load :
    IF Running(l) THEN /\ \A n \in nodes : n.by = l => <<l, "node", n.id>> \in journal
                       /\ \A e \in edges : e.by = l => <<l, "edge", e.id>> \in journal
    ELSE \A j \in journal : j[1] # l

\* A load is all or nothing: one that failed or died has no row left, and one that is done
\* has its whole document in the graph but for what others took away since (loadStreaming).
AllOrNothing == \A l \in Load :
    /\ phase[l] \in {"idle", "undone"} => \A r \in nodes \union edges : r.by # l
    /\ phase[l] = "done" => \A k \in DOMAIN Document[l] : <<l, k>> \in lost \/ Landed(l, k)

\* A load as its caller sees it: nothing before it is done, the rows it landed after.
Atomic == INSTANCE AtomicLoads WITH
    finished <- {l \in Load : phase[l] = "done"},
    shown    <- [l \in Load |-> {k \in DOMAIN Document[l] : phase[l] = "done" /\ Landed(l, k)}],
    taken    <- [l \in Load |-> {k \in DOMAIN Document[l] : <<l, k>> \in lost}]

\* A load lands in one step as far as its success tells: whole when it reports it, and
\* never undone after, however its batches, other loads' undos and crashes interleave
\* (loadStreaming, rollbackBulkLoads).
LoadsAtomically == Atomic!Spec

\* No edge hangs, whatever is dropped or undone under it (rollbackBulkLoads, resolveEndpoint).
NoDangling == \A e \in edges : \A x \in {e.src, e.tgt} : \E n \in nodes : n.id = x

\* The vertex an id of l's document names: the rowid itself when ids are preserved, else
\* the vertex l landed for it, else the one whose uid it is.
Named(l, id) == {k \in DOMAIN Document[l] : Document[l][k].kind = "vertex" /\ Document[l][k].id = id}
Names(l, id, n) ==
    IF Policy[l] = "preserve" /\ id \in Nat THEN n.id = id
    ELSE IF Named(l, id) # {} THEN n.by = l /\ n.doc \in Named(l, id)
    ELSE n.uid = id

\* A loaded edge joins the vertices its document names, though they landed in an earlier
\* batch and others add and drop vertices in between (BatchingLoader, resolveEndpoint).
EndpointsNamed == \A e \in edges, n \in nodes : e.by \in Load =>
    LET d == Document[e.by][e.doc]
    IN  (e.src = n.id => Names(e.by, d.src, n)) /\ (e.tgt = n.id => Names(e.by, d.tgt, n))

Undoes(l) == phase[l] = "failed" /\ phase'[l] = "undone" /\ crashes' = crashes

\* A failed load takes back vertices of its own and no others, as long as nobody dropped
\* one of them while it ran (rollbackBulkLoads).  The condition is needed: SQLite gives the
\* highest rowid again once its vertex is dropped, and the journal still names it.
UndoSparesOthers == [][\A l \in Load : Undoes(l) /\ (\A x \in lost : x[1] # l) =>
    \A n \in nodes \ nodes' : n.by = l]_vars
=============================================================================
