# Verification of mogwai-db

mogwai-db is a property-graph database that compiles Gremlin to SQL and runs it
on SQLite, in a Cloudflare Durable Object, under Bun or in a browser worker. It
replicates graphs the CouchDB way: every element carries a revision, every
graph a feed of changes, and a client of two graphs copies the feed of one into
the other from a checkpoint. Replication is where the program's own state
machines are, and where a wrong order of calls loses data; this project models
it first. Around it stand the streaming load, the drive of queries that
suspend, the graph algorithms that iterate in SQL, and the browser build's
election of the worker that owns a graph.

- `tlc -workers 2 -config X.cfg M` checks a run; `PROJECT.json` lists the runs,
  the source lines of every definition and the mutants that show each property
  can fail.
- `tlapm M.tla` checks the proofs of `ReplicationProofs`, `UidProofs`,
  `SchedulerProofs`, `BulkLoadProofs`, `BrowserEdgeProofs`,
  `SegmentDriveProofs`, `OlapKernelProofs` and `BetweennessProofs`.

## Inventory

| component | state | operations | modelled by |
|---|---|---|---|
| Revisions (`rev.ts`) | none: `{gen, hash, ids}` | `computeRev`, `descendsFrom`, `revWins` | `Revision` |
| Graph store, replication state (`storage.ts`, `refresh.ts`, `manager.ts`) | per element `gid`, `rev`, `seq`; `tombstones`, `conflicts`, `update_seq`, `edges.weak` | refresh after a write, `_changes`, `_revs_diff` | `GraphStore` |
| Applying a peer's changes (`replicate.ts`, `bulk.ts`) | the same tables | `_bulk_get`, `_bulk_docs` | `GraphStore` |
| Local writes (`compiler/rel/write.ts`) | the element rows, the dirty mark | create, edit, `drop()` | `GraphStore`, `Replication` |
| Replication pass (`replicate.ts`) | the checkpoint; in flight, what it has read | `runReplicationPass`, `runReplication`, placement | `Replication` |
| Replicator registry (`replicator-registry.ts`) | `replication_config`, `replication_job`, `replication_checkpoint` | `putConfig`, `deleteConfig`, `claimDue`, `recordResult`, `recordFailure`, `setCheckpoint` | `ReplicatorRegistry` |
| Scheduler (`scheduler.ts`) | per tick its `now` and its runs | `runDueReplications`, `runJob` | `Scheduler` |
| Streaming bulk load (`bulk.ts`, `storage.ts`) | `nodes`, `edges`, `bulk_journal`; in flight, the batch, its id cursors and pending edges | `BatchingLoader` feed, cut, `done`, `abort`; `rollbackBulkLoads` | `BulkLoad` |
| Uid reconciliation (`replicate.ts`) | `uid`, the markers of lost claims | `applyUids`, and what creates, drops and re-landings do to the column | `UidReconciliation` |
| Segment drive (`drive.ts`, `execute.ts`, `services/catalog/olap/kernel.ts`) | the suspended plan, the runs it collected; `barrier_state`, `barrier_run_seq` | `driveSegmentsFrom`, `driveSegmentsSync`, `resolveNodes`, `runForeign`, `filterVertexIds`, the sweep | `SegmentDrive` |
| Browser leadership (`browser/`) | the Service Worker's sessions, stub and solicitation; per tab its stake in the Web Lock, its Worker and teardowns; per Worker its OPFS handles | request, solicit, deliver, fail over, destroy, reap | `BrowserEdge` |
| Graph algorithms (`services/catalog/olap/`, `compiler/rel/shortestpath.ts`) | a run's rows of `barrier_state`, its two slots or its levels | `iterateInSql`, `relaxShortestPath`, `connectedComponent`, `kcore`, `peerPressure`, `scc`, `closeness`, `betweenness`, the paths rebuilt | `OlapKernel`, `Betweenness` |
| Compiler, services, formats, hosts, HTTP | | | not modelled |

**How they interact.** A user's write and `_bulk_docs` both end in the refresh,
which gives every touched element the next revision (or keeps the one it came
with) and a fresh `seq`. A pass is a client of two graphs: it reads the
checkpoint, asks the source for `_changes`, the target for `_revs_diff`, the
source for the bodies, gives them to the target with the deletes, does the same
for the conflict losers the feed advertised, and writes the checkpoint. The
scheduler claims jobs from the registry and runs a few passes for each. Every
arrow is an awaited call; inside a call the store is synchronous. A query with
a barrier (a graph algorithm, a call to a sibling) is the exception: it
suspends between two of its statements, and its scratch rows wait in SQL. In a
browser the calls go from the Service Worker over a port to the dedicated
Worker that the tab holding the graph's Web Lock has spawned.

**What is hard.** Local writes and other workers' calls fall between any two
calls of a pass; a pass dies anywhere and is repeated from its old checkpoint;
two peers resolve one conflict apart and in opposite roles; deletes, edges and
their endpoints arrive in different pages; a tick acts on a clock, a lease and
a cursor read long before; a tab dies without closing its port, so a call hangs
until another tab takes over. An algorithm stops when a round changed nothing, so its
answer rests on a comparison of two slots, on a number of rounds that suffices,
and on weights that may be negative. `PROJECT.json` lists each such hazard at its line.

## Modules

### Revision

A revision is the sequence of contents that led to it. That is what the
SHA-256 chain stands for: two revisions have one hash exactly when they have
one lineage, so two peers that make the same content reach the same revision,
as in the code. `gen` is the length, `ids` the newest `RevsLimit` prefixes.
`HashAbove` is the lexical order of two hashes; the instances fix one order.

### GraphStore

Constant-level operators from a store to a store, one per synchronous span.
Where SQLite's row order decides (the order of a refresh, the body the loader
keeps of two for one element) an operator returns a set of stores.

- `Refresh` is `refreshElements`: vertices, edges, then tombstones take blocks
  of `update_seq`.
- `Drop` is the compiled `drop()`: tombstones for the vertex and then its
  incident edges, the rows gone.
- `ChangesFeed` is `_changes` with its page, its filter closure and the losers
  each live row advertises. `RevsDiff`, `LiveBodies`, `BulkGetRevs` are the
  other reads.
- `ApplyWire` is `_bulk_docs` in the code's order: `ClassifyWire`,
  `ApplyDeletes` (refusals, weak cascade, tombstones), the upsert, the refresh,
  `Resurrect`. It is the empty set when the loader throws and the unit rolls
  back.

### Replication

`Peer -> store`, the checkpoints, and a record per worker that says which call
it makes next and what it is moving. One action per call (`Changes`,
`AskMissing`, `Fetch`, `Apply`, `AskLosers`, `FetchLosers`, `ApplyLosers`,
`WriteCheckpoint`), plus `Reject` (the target threw) and `Abort` (anything
else failed, or the worker died). The record keeps the three request bodies in
one field, since each replaces the one before. Reading the cursor and reading
the feed are one action: a cursor has one worker, so nothing can fall between
that matters. `Graft` is a placement run: an edge made on the target, marked weak.

### ReplicatorRegistry and Scheduler

`ReplicatorRegistry` has the tables and one operator per method. `Scheduler`
extends it with tickers that start, claim, read a page, write a cursor, finish,
fail or crash, users that put and delete configs, and a clock. It keeps only
the numbers of a page: the feed it read and the cursor it will write.

Times are relative to the present. A tick of `Clock` takes one from every time
in the state, and a time `Horizon` or more ago stays at `-Horizon`, so the
state space is finite under an endless clock and no bound stops time. `NULL`
in `next_run` and `lease_until`, which compares as "always passed", is the same
value. `error_count` is not told apart above `ErrorCap`.

`Clock` has two guards, the timing assumptions of the model. A tick ends within
`MaxRun` of the time it read: the code does not enforce this (see *Proofs*). An
idle ticker claims a due job before it is `Horizon` late; without it a job
could be put off for ever and the fairness below would only say so.

### BulkLoad

Streaming loads (`io()` reads) into one graph, several at a time, beside other
writers. A load takes an element of its document, awaiting the source; when
`BatchSize` are buffered the batch is cut: checked, landed and journaled in one
unit, and the next loader reads its cursors. `Done` lands the last batch and
clears the journal in one unit. A batch that is refused, or a source that
fails, makes the load `failed`, and `Abort` undoes it a step later, since the
`catch` runs after an await. `Crash` is a dead isolate and the sweep of the
store that is built next. A batch's refusal is `~Lands`, whichever of the
collision check, SQLite's constraints or an unknown endpoint raised it: all
roll the unit back and fail the load.

Two simplifications that change nothing: all edges of a batch look their
endpoints up when it lands (the code looks up early those whose vertices are in
the batch, with the same answer, as the vertices come before the edges), and
the journal's token is the load. `by`, `doc` and `lost` are history, read by
the properties only.

A step of `BulkLoad` is a step of `AtomicLoads`, the abstract specification of
what a load promises: nothing of a load shows until it finishes, then its whole
document does, all but for what others had taken by then. `LoadsAtomically` is
that specification under the mapping in `BulkLoad`: the finished loads, their
elements in the graph, and `lost`.

### Mirror and ReplicationMirrors

`Mirror` is what a one-way copy promises, element by element: the copy goes
through stages the original has been through (a revision, or deleted), in their
order and never ahead. `ReplicationMirrors` maps `Replication` onto it: the
stage of an element is its live revision, or that it has a tombstone.
Placement's own edges are left out of the mapping.

### UidReconciliation

`Replication` with the `uid` column: each action is one of `Replication`'s with
what it does to the uids. A uid is in no revision and losing one moves no
`seq`, so the column replicates beside the rest. `_bulk_get` answers with the
uids of the moment; `_bulk_docs` reconciles them once the bodies have landed,
vertices before edges, in any order of the bodies (SQL does not fix one). A row
that lands new, and an edge that lands at all, starts without one. `claim`, the
uid an element was created with, is history, read by the properties only.

### SegmentDrive

Queries over one graph, each a sequence of barriers (`"olap"`, `"sync"`,
`"remote"`) and a tail: framed for a client, transferred to a sibling, or read
as a replication filter, which is driven in one stretch. What is computed is
abstracted to who wrote a scratch row, under which run, in which slot and
round. An action is a stretch between two awaits. `misread` becomes true when a
statement finds other rows than its core's last round left.

### BrowserEdge

One graph, or the one replicator registry (`sw.kind`: the twin protocol, which
has no destroy and asks a page that joins for what is being solicited too). The
variables are those of the code: the stub, the control sessions and the
solicitation in the Service Worker; each tab's stake, teardowns and place in
the Web Lock's queue; the Workers and who holds the OPFS handles. `mail`,
`replies`, `inbox` and `posted` are messages under way. A request is a write,
so that the directory shows which requests ran. Assumed of the browser:
messages over one port keep their order, and so do the ports tabs post; a lock
is granted in the order it was asked for and freed when its tab dies; the pool
of handles opens at once or not at all; a Service Worker is reaped only when it
is idle.

### OlapKernel

One call of an algorithm over one graph. `slot` is what the run has in
`barrier_state`: two vectors that take turns, and a third place for what a
centrality is reduced to. `Seed` fills the first; `Round` empties the other
slot, fills it from the current one, measures the change and swaps; it ends as
`fixed` when nothing changed and as `exhausted` when the rounds ran out.
`Reduce` is the last statement of closeness. `WalkSources` and `WalkEdges` are
the recursive query that rebuilds the paths, a level at a time. The core is
synchronous; its rounds are steps so that properties can speak of them.

An id is its place in the order of all id texts, `Text`, and two vertices may
share one (an id 1 and an id "1"). `Row` is a row of the adjacency, one for each
edge and direction of the scope. `changedCount` joins the two slots and so sees
no row that is new; `changedOrNew` does, and the sparse vectors need it. The
definitions the properties compare with (`Connected`, `IsCore`, `Trails`) say
nothing of rounds.

### Betweenness

One call of betweenness: a table that keeps a round for each level of every
source's search. `Forward` is one level of counts, `Turn` the end of the
search, `Backward` one level of shares on the way back, `Total` the result, in
the round after the last level. The shares are REAL in the table; here they are
whole parts of `Scale`, which every count of paths divides.

## Runs

| run | instance | shows |
|---|---|---|
| `replication_vertices` | 2 peers, both written, both directions, 1 vertex, 2 contents, pages of one row, 3 writes, 1 dead pass | no checkpoint runs ahead (`CheckpointSafe`), the peers converge |
| `replication_graph` | 2 peers, both written, both directions, 2 vertices, 1 edge, drops, 4 writes | live and tombstoned exclude each other, seqs are distinct (in `TypeOK`), every change enters the feed, no leaf vanishes |
| `replication_mirror` | 1 writer, 1 mirror, 2 vertices, 1 edge and 1 placement loop, drops, 5 writes, 1 dead pass, unpaged | no refusal, no dangling edge, the mirror catches up and never shows what the source did not (`ImplementsMirror`) |
| `uid` | 2 writers, both directions, a shared vertex, 2 loops claimed with one uid, drops, 3 writes, 1 dead pass | the uid is unique, the lowest claim holds it, a loser is marked; without drops peers agree |
| `scheduler` | 2 tickers, 1 polling job, 1 one-shot that is deleted and put again, lease 2, ticks of 1, 1 claim per tick, 1 fault | one runner per kept job, the cursor only advances, all gets done |
| `bulk_load` | 2 loads tried twice, batches of 2, one document whose last edge is in a second batch, one remapped with edges to a vertex of the first, 2 other writes, failing sources, 1 crash | loads appear in one step or not at all, edges join the vertices their document names, nothing hangs, an undo spares the rest |
| `edge` | 2 tabs, 2 requests; for a graph 1 destroy and 1 dead tab, all sessions in place; for the registry 2 faults, dead tabs or one reaped Service Worker, pages still loading | one live Worker, no acknowledged write lost, a destroy that succeeded left nothing, what it cut off never writes, requests and destroys are answered |
| `segment` | 4 queries, 3 at a time: two chained algorithms with a sync barrier between, one before a remote barrier, a sibling's, a filter; 1 crash, 1 destroy | each reads its own rows; a framed query leaves none |
| `olap` | 4 vertices, two with one id text; every list of 3 edges, loops and parallels among them, every simple graph, every 2 edges of weights -1, 0 and 2; 10 calls | components, strong components, coreness, clusters, distances, closeness and all shortest paths are what their definitions say; only votes and negative cycles use the rounds up |
| `betweenness` | 4 vertices, every list of 5 edges, parallels and a double loop among them | the counts of paths and the scores, against all shortest paths one by one |

Two more runs refute what a comment of the code says; see *Disagreements*.

**Why the bounds are enough.** Two peers and one element with two contents have
every shape of a conflict: equal creates, fast-forward, divergence at one
generation and at different ones, a winner on either side. Three writes make a
conflict and an edit on top of it. Two vertices and an edge have every shape of
the referential rule; four writes create the edge's endpoints, the edge, and
drop or edit one. A page of one row has every page boundary. One dead pass is a
repetition; a second one repeats the first. In the scheduler one slot per tick
and two jobs make them compete, a lease of two and ticks of one make leases end
while ticks run. `RevsLimit` is above every generation reached, so nothing is
stemmed in these runs. In a bulk load two batches are one to undo and one to
refuse; two loads collide, hang edges on each other's vertices and undo
each other's; two writes drop a vertex and take its rowid. A shared vertex with
two loops are the fewest elements that can claim one uid; three writes claim it
twice and drop a holder. Two tabs are a leader and a successor, two requests
one that hangs and one that comes while it does, and one destroy races both.
Three queries in flight hold runs on either side of another's; one round uses
both slots. Four vertices hold a path of three edges, on which a text or a
distance needs as many rounds, the diamond, on which shortest paths meet, and
the clique. Two weighted edges make a cycle of negative, zero and positive
weight. `PeerRounds` is the code's 30. `Scale` = 60 is divided by every count of
paths that five edges can make.

**Fairness.** `FairSpec` of `Replication` is weak fairness of each worker: its
drivers (`runDueReplications`, a poll, an admin request) keep calling the pass
and an awaited call is answered. Users are not fair: they write when they like
and stop. `FairSpec` of `Scheduler` is weak fairness of each ticker's own steps
and of the clock. Crashes, failures and edits of configs are not fair and are
bounded, so every liveness property says what happens once they are over.

`Spec` of `BrowserEdge` has weak fairness of the system's step: event loops run
what is queued, a granted lock calls back, a query ends, a dead thread is torn
down at last. It says only that while something can happen something does,
which is enough because every exchange of messages is finite. Requests,
destroys, deaths and reaping are not fair. `FailoverSettles` asks that from
some time on a live tab stays in the lock queue: nothing in the code puts one
there when every tab that was asked has died.

Deadlock is not checked: the bounded users and aborts run out, and a worker
whose feed is empty still steps, but the runs that refute a property stop early.

**Mutants.** A plausible bug of a definition stands before it, under a name of
its own and with a comment that says it is a mutant. Nothing uses it but the entry of
`PROJECT.json` that says which property it breaks.

## Proofs

`ReplicationProofs` proves of `Replication`, for any peers, workers, elements,
pages, filters and hash order:

| theorem | states | assumes |
|---|---|---|
| `TypesHold` | `Spec => []TypeOK` | the module's assumptions |
| `NeverBothHolds` | `Spec => []LiveOrTombstone` | the same |
| `ChangesEnterFeed` | `Spec => EveryChangeEntersFeed` | the same |
| `VersionsKept` | `Spec /\ []NoDangling => NeverLosesAVersion` | and `RevsLimit > 1` |
| `CheckpointsHold` | `Spec /\ []NoDangling /\ []Unstemmed => []CheckpointHeld` | and `OneJobPerCursor` |
| `NoEdgeDangles` | `Droppers = {} => (Spec => []NoDangling)` | the module's assumptions |

The invariant is `Sane`: every graph is `Sound` (tables typed and finite, live
rows, tombstones and `update_seq` numbered apart, no element both live and
buried), every awaited call carries a well-formed message, and counters count.
A step changes at most one graph, and `Changed` says how: it stays sound, what
it shows otherwise enters the feed past the old `update_seq`, its leaves stay
on some line. That is shown once for a local write and once for `_bulk_docs`,
by lemmas on the parts in the code's order (`classify`, the shadow, the
deletes, the upsert, the resurrect, the refresh), each over tables that are
parameters, because the state between two of them is no state of the system.

The hypotheses of the two conditional theorems are properties of the same
model, and each is there because without it the theorem is false. An
edge whose endpoint is gone is not among what a classify may fetch as the local loser,
so it is overwritten and not shadowed: hence `[]NoDangling`, which a
one-way mirror has and two peers that both drop have not (see
*Disagreements*). A leaf more than `RevsLimit` generations on no longer names its
ancestors: hence `[]Unstemmed` and `RevsLimit > 1`; the code's limit is 1000.
Two workers may use one checkpoint only for the same source, target and filter
(`OneJobPerCursor`). The code derives a checkpoint's id from the direction and
the two graphs, not from the filter, so the last is a condition on the callers;
without it the theorem is false (see *Disagreements*).

`CheckpointHeld` is about live rows: a version of the source's up to the
checkpoint is on a line the target holds. `CheckpointSafe` says more, that
the target has the very revision on a tree or as a shadow, and stays with TLC:
it is true between two peers only. With a third, an edit of the copy that
loses to the third's version is shadowed, and the copied revision is then no
more than an ancestor of a shadow. `CheckpointHeld` is not inductive, since
nothing in it says what a pass under way will land. `Promised` adds it: from the feed's page to the checkpoint's write, every row
up to the page's last seq is carried by the pass or already taken in, whatever
either graph went through since.

The second part of `ReplicationProofs` is about one-way replication: nobody's worker copies to
`Original`, one worker alone copies to `Copied`, from `Original`, and users
write to the first and not to the second (`Mirrored`). Everything else is as it
may be: what is written and dropped while passes run, pages, filters, placement,
failures, lost answers, other graphs that copy from either.

| theorem | states | assumes |
|---|---|---|
| `MirrorFollows` | `Spec => ImplementsMirror` | `Mirrored` |
| `NoEndMissing` | `Spec => []NoDangling` | and that there are no other graphs |
| `MirrorKeepsVersions` | `Spec => NeverLosesAVersion` | the same, and `RevsLimit > 1` |
| `MirrorCheckpointSafe` | `Spec => []CheckpointSafe` | `MirroredAlone`: no other graphs, unpaged, unfiltered |
| `MirrorDeletesPropagate` | `Spec => []DeletesPropagate` | `MirroredAlone` |
| `MirrorEndpointPresent` | `Spec => []EndpointPresent` | `MirroredAlone` |

`NoDangling` of the two graphs says nothing of the bodies a pass holds, and
they are what a stale delete or edge comes from. `MirrorInv` speaks of the three
together. Of the original (`Origin`): no shadows, an element deleted once. Of
the copy (`Copy`): each thing it shows or has deleted lies in the original's past,
each edge it shows has its ends. Of what a pass carries (`OnWay`): it, too, lies in
the original's past, and is never behind what the copy shows. So no body is refused
or shadowed, and every landing is a step forward of `Mirror`. The last is where a second
worker breaks it (`TwoWorkers` below). A vertex deleted in the original took its
edges with it; if one of them is still on the copy, either its delete is in
the batch too or the vertex's is refused. `MirrorInv` is kept beside `Sane`. `Dropped` and
`Applied` say once what a `drop()` and a `_bulk_docs` do to a graph's rows and
tombstones, and every step is then one of `WritesOn` and `CatchesUp`.

The last three are false with pages, and `EndpointPresent` with a filter too
(`delete_page` and *Disagreements*): a page may end between a vertex's tombstone
and its edges', or between an edge and its ends. Where the feed is read whole they
hold by `Levelled`, kept on top of `MirrorInv`. Up to the checkpoint the copy
shows what the original does, at the same revision (`Level`). From the feed to
the checkpoint's write the same is true of what the pass has read past
(`Carries`) but for what it still carries; an edge it carries has its ends on the
copy, not among the pass's deletes, or with it. And a vertex buried by then has
its edges buried by then too (`EndsLast`), so that each edge of the copy that could
pin it is in the same batch (`Admitted`). `Carries` survives writes to the original
because they only touch rows past what the pass has read (`Grown`), the diff because
a body left out is what the copy shows, and the fetch because a body is of the
row as it is then, with its ends live beside it. `LandedLevel` is the landing, and
`Appliable` that a batch with such edges has an outcome. An edge that
placement grafted is weak and pins nothing, which `Levelled` also says.

`Mirrored` also asks `MaxGen <= RevsLimit`: users edit an element at most
`MaxGen` times. A longer ancestry is stemmed, and a copy that lags by more than
that takes the original's edit for a divergent one; the code's limit is 1000.

`UidProofs` proves of `UidReconciliation`, on top of it:

| theorem | states |
|---|---|
| `LowestClaims` | `UidSpec => []LowestClaimHolds` |
| `LossesMarked` | `UidSpec => []LossSurfaced` |
| `UidsConvergeUndropped` | `UidSpec => []UidsAgree` |

A body answered by one peer and landed later by another is the hard part: it
holds the uid of a moment that is over. `UidSafe` binds it by the same as a
live row: it has its element's own uid or none, and none only when the loss is
marked and a lower gid claims the uid (`Fits`, `Bundles`). So a stale body can
take a uid from nobody that should have it. The reconciliation of a batch is a
loop over bodies in any order; `Column` is its loop invariant, and the
induction over the items is by least counterexample (`Least`, from the
library's theorem that `<` on the naturals is well-founded). `UidsAgree` is a
consequence: the lowest claimant of a uid is live on both peers, has it on
both, and nobody else can.

`SchedulerProofs` proves of `Scheduler`, for all values of its constants:

| theorem | states | assumes |
|---|---|---|
| `TypeCorrect` | `Spec => []TypeOK` | the module's assumptions |
| `RunOnce` | `Spec => []KeptRunOnce` | and `MaxRun < LeaseMs` |
| `CursorForward` | `Spec => CursorAdvances` | and `MaxRun < LeaseMs` |
| `LeaseIsOwn` | `Spec => OwnLease` | and `MaxRun < LeaseMs` |

`KeptRunOnce` is not inductive: nothing in it says why a second tick cannot
claim a job under way. `LeaseHeld` does. The row a run was claimed with is
still running and its lease ends `LeaseMs` after that tick's `now`; with
`now > -MaxRun` whenever time passes, that lease is in the future of every
other ticker's `now`, which is never later than the present, so `Due` leaves
the job out. Conversely the one tick that may release the lease is the one
that runs it, which is `KeptRunOnce` again: the two are proved together, as
`Exclusive == TypeOK /\ KeptRunOnce /\ LeaseHeld`. `PageInOrder` (the page
under way is not behind the cursor) is inductive relative to `Exclusive`, and
`CursorAdvances` and `OwnLease` are then read off each action.

`MaxRun < LeaseMs` is an assumption about the deployment, not about the code: a
run has no time limit and its lease is not renewed. It is needed: with
`MaxRun = LeaseMs`, TLC refutes `KeptRunOnce`.

`BulkLoadProofs` proves of `BulkLoad`, from the module's assumptions (documents
are sequences with the vertices first, a batch is not empty, the user is not a
load) and for all values of its constants:

| theorem | states |
|---|---|
| `LoadsAreJournaled` | `Spec => []JournalCovers` |
| `LoadsAreAtomic` | `Spec => []AllOrNothing` |
| `LoadsImplementAtomicLoads` | `Spec => LoadsAtomically` |
| `NoEdgeHangs` | `Spec => []NoDangling` |
| `TypesHold` | `Spec => []TypeOK` |
| `UndoTakesItsOwn` | `Spec => UndoSparesOthers` |
| `EdgesJoinNamed` | `Legible => (Spec => [](lost = {} => EndpointsNamed))` |

`AllOrNothing` says nothing of a load under way, so it cannot be inductive. Its
"nothing" half needs `JournalCovers` (all a running load has landed is
journaled, so the undo reaches it) and its "all" half needs `Progress` (each
element the source has given is in the batch, in the graph, or was taken by
others); `IInv` is these with `Shape`, the types of the loads' own state.
`AllOrNothing` itself is in no run: the refinement, which one checks, says the
same of every state. `Undone` and `Remembered` are the two facts about an undo: it leaves no
journaled row, and what it removes of another load goes into `lost`.

The refinement uses the same `IInv`: a load that is not finished shows nothing,
by the mapping, and one that finishes has, by `Progress`, its whole document but
for `lost`. Every other action is a stutter, or takes away what it puts in `lost`.

`TypesHold` and `UndoTakesItsOwn` need `TInv`: `Stored` (the tables are finite, so there is a highest
rowid and the next is free; rowids and uids are unique) and `Exact` (until
something of a running load was dropped, each vertex its journal names is
there and its own). `Exact` is what the freed rowid of the last table below
breaks, and the reason for the property's condition on `lost`.

`EdgesJoinNamed` has a hypothesis on the documents and one on the state, because
`EndpointsNamed` is false without either (below). `Legible` asks of each id an
edge names that it is a number under `preserve`, or a string under a policy that
keeps it (or that names no vertex of the document), or the id of a vertex of a document shorter
than a batch. `NInv` says that a row in a batch or in the graph is what its
element of the document says (`Told`), that a short document is never cut, so
all its vertices are in the batch of its edges (`Uncut`), and that the edges
that landed join what they name unless their load lost a row since (`Joined`).
An edge is looked up in its own batch first. What the batch does not hold has
landed, by `Progress`, and its uid is unique, so the store's answer is the
load's own vertex. A vertex that comes in later is under none of the edges, by
`NoDangling` and the unique rowids. The run's second document is not legible: it
remaps a number that is in the batch of its edges, in a document longer than a batch.

`BrowserEdgeProofs` proves `OneWorker`, `Spec => []OneLiveWorker`, from the
module's assumptions. It is not inductive: nothing in it stops a second tab
from spawning. The strengthening says where the right to spawn is. A live
Worker is the one the leader leads with or the one its teardown is closing
(`Owned`); a leader, leaving or not, is at the head of the lock queue, and
only a tab with a stake, or giving one up, is in it (`Queued`); a teardown takes
the stake away, and gives the place in the queue up only when it is over
(`Leaves`). So a tab that is granted the lock finds no live Worker, and one that
delivers again uses its own.

Five more theorems of that module rest on it and on `TInv`, for any tabs,
requests, destroys, deaths and reaped Service Workers:

| theorem | states | the argument |
|---|---|---|
| `EdgeTyped` | `Spec => []TypeOK` | `TInv` adds what the types rest on: a port leads to a Worker there is, a tab leads with and closes Workers of its own, a dead tab does nothing, and (`Counted`) a destroy waits for at least each message of its own that a tab has not seen and each teardown of its own that a tab has not ended. So an answer never takes the counter below zero, although `destroyGraph` overtakes what stands before it in an inbox and a page that joins late is asked too. |
| `AckedStays` | `Spec => []AckedSurvives` | A request whose epoch is still the manager's, begun when no destroy was under way, finds none under way ever after, and only a teardown removes the directory: by `Counted`, one is under way only for a destroy that still waits. |
| `NoneSpurious` | `Spec => []NoSpuriousFailure` | As long as nothing was destroyed: ports arrive in the order they were delivered (`Arriving`), a tab that delivered one leads until it dies (`Led`), so a port of another tab comes after its death (`Overtaken`); a call is on the stub there is, and one that was retried left a dead tab's (`OnStub`); so a second rejection takes two deaths (`Faulted`). A Worker whose open failed met the handles of another, dead tab (`Spoilt`), so its own tab's death is the second. |
| `CutOffStays` | `Spec => ([](faults.restarts = 0) => CutOffNeverLands)` | What a destroy found, on a Worker or in the directory, has an older epoch and is not sent again (`Past`). As long as a Worker may still execute such a call, the destroy waits for the Worker's tab (`CutOff`): every tab with a port has a session (`Joined`), and a tab that answers has ended its Worker. |
| `DestroyLeavesNothing` | `Spec => [](faults.restarts = 0 /\ destroys <= 1 => DirectoryRight)` | Undestroyed, a call is sent again only when its tab is found dead (`Once`), so a call under way when the destroy is called has not been executed, or the destroy waits for a dead tab and never ends (`Doomed`). So what it found is not written again (`Again`), and is gone once a removal succeeded (`Gone`). A destroy that asked nobody found nothing (`Asked`). |

Both hypotheses are needed. With two destroys at a time TLC refutes
`DestroyedIsGone` (below). With a reaped Service Worker it refutes
`CutOffNeverLands` (`edge` with `Kinds = {"graph"}`, three tabs, one destroy, one
death and one reaping): the new one has a session with a page that does not lead,
the leader posts its port without one, the destroy asks the first page only and
fails on the leader's handles, and the call it cut off is executed by the leader's
Worker afterwards. `Joined` is what fails there.

`SegmentDriveProofs` proves `RunsStayApart`, `Warm = FALSE => (Spec =>
[]ReadsOwnRun)`. `Owns` says that the rows of every relation a query in flight
reads are still those its core left, under one of its own tokens, and `Apart`
that two queries in flight have no token in common. A core takes a token above
all of them, a query drops its own only, and the sweep at a construction comes
when nothing is in flight. With `Warm = TRUE` it is false (below). The same
module proves `FramedQueriesClean`, `Spec => []FramedLeaveNothing`, with no
condition on `Warm`. Its invariant `LInv` says whose every row is: of a query
in flight that still holds the row's token, or of one that ended where nobody
drops rows (a core that threw, a query that is not framed); and that a handle
that is down has no query in flight, so that the sweep finds all.

`OlapKernelProofs` proves of `OlapKernel`, from the module's assumptions
(finitely many vertices and edges, texts that are numbers) and for every graph
and every call:

| theorem | states |
|---|---|
| `ComponentsCorrect` | `Spec => []ComponentsRight` |
| `CorenessCorrect` | `Spec => []CorenessRight` |
| `ClustersComeAlong` | `Spec => []ClustersTravel` |
| `StrongComponents` | `Spec => []StrongRight` |
| `ShortestDistances` | `Spec => []DistancesRight` |
| `ClosenessCorrect` | `Spec => []ClosenessRight` |
| `AlongEdgesCorrect` | `Spec => []AlongEdgesRight`, the four above together |
| `PathsCorrect` | `Spec => []PathsRight` |
| `BackstopNeverCuts` | `Spec => []BackstopUnused` |
| `EstimatesNeverRise` | `Spec => EstimatesFall` |

None is inductive, since they speak of the end. `WccInv` says that a
label is always the text of a vertex connected to its own and never above its
own text; once a round changed nothing, the vertices whose label is at most a
given one are closed under links, so a label is the least text of the
component. `KCoreInv` says that no core that holds a vertex is larger than its
estimate: a core of `k` gives each member `k` neighbours whose estimates are at
least `k`, so the h-index stays at least `k`. At a fixpoint the vertices with an
estimate of at least `k` are themselves a core of `k`. `PeerInv` says that the
vertex which names a cluster reaches its members, and a round hands a cluster
on along one row. `EstimatesNeverRise` needs `FallInv`: a round of
coreness would not raise the estimates it starts from. That is kept because the
h-index is monotone in them. The relaxation and the components keep their own value among
those they take the least of.

That the rounds suffice needs a count. For components and coreness,
`BackstopInv` counts the vertices whose estimate is final (`Settled`): a round
that changes something settles at least one more, so after as many rounds as
there are vertices none is left to change. The closure of `scc` grows by a vertex
at each step until it is closed. For distances the count is of a path's rows.
`DistInv` says that no distance is below what some trail from the source costs
(`Sound`), that a source is at most 0 from itself (`AtHome`), and that after `k` rounds no
trail of `k` rows is cheaper than the distance to its end (`Covers`). It assumes that no
cycle has a negative weight (`NoNegative`), because then a row that closes a
cycle can be cut out without making the way dearer. A trail visits no vertex
twice, so it has fewer rows than there are vertices; the last round that is
allowed changes nothing, and the distances are the least weights of trails.
Nothing is assumed of the sign of a single weight. The rows
of closeness weigh 1 whatever their edges weigh, so `ClosenessCorrect` holds with no condition.

`PathsCorrect` needs `WalkInv`: each way rebuilt so far is a trail that weighs
its end's distance, and when the walk stops no tight row leads on from any of
them. So every way is shortest. That every shortest trail is found goes by its
number of rows: its last row is tight and what comes before it is shortest as
well. Cycles of weight 0 are why the walk has to refuse a vertex it has been to.

`BetweennessProofs` proves of `Betweenness`, for every graph (finitely many
vertices and edges, loops and parallels among them):

| theorem | states | assumes |
|---|---|---|
| `PathsCounted` | `Spec => []SigmaRight` | the module's assumptions |
| `BetweennessCorrect` | `Spec => [](Divides => BetweennessRight)` | the same |
| `InsertsFresh` | `Spec => []RowsFresh` | the same |

`Divides` says that every pair's number of shortest paths divides `Scale`: the
model's scores are whole numbers of parts and the table's are REALs, and
without it the model would round where the code does not. It holds in every
state of the run. The argument counts sets. `Fibers` is its one tool: the size
of a set is the sum, over the values of a mark, of how many elements have it.
`RowsInv` says of the way out that a pair has a row exactly in the round of its
distance, which counts the walks of that length. A walk one edge longer is
marked by its last stop but one. If it is a shortest one, all its stops are as far as they
stand on it (`FarStops`), so that stop is on the frontier and the sum of
`nextf` counts every such walk once. No two stops of a shortest walk are the same vertex, so the
bound on the levels never cuts (`FarHop`). `SharesInv` says of the way back that
a vertex's delta is the number of `Ending`s: the parts of shortest paths that
go on beyond the vertex. They are marked by their next stop, and over one of
these there are as many as the walks to the vertex, times the edges between the
two, times the ways on (`OverCount`), which is what `contrib` adds up. The final
sum is over the rows of a vertex, the score's meaning over the pairs of a source and
a target. Both count `Through`, once by source and once by pair.

`InsertsFresh` is why `Add` never has to choose between two values: each
statement is a plain `INSERT` (`kernel.ts:121`) into a table whose primary key
is the row's place (`storage.ts:257`), and one that met a row would fail the call.

Only model-checked:

- liveness (`Drains`, `OneShotEnds`, `Converges`, `RequestsAnswered`,
  `DestroySettles` and the like), which the prover does not reach;
- of `Replication`: `CheckpointSafe` between two peers that are both written,
  where the proofs reach `CheckpointHeld`; the other invariants are false without
  the hypotheses of their theorems (below), and so is `ImplementsMirror`;
- of `BulkLoad`: `EndpointsNamed` of documents that are not `Legible`, such as
  the run's second;
- of `BrowserEdge`: `CutOffNeverLands` after a Service Worker was reaped, and
  `DestroyedIsGone` of a second destroy;
- of the graph algorithms: what the relaxation does over a cycle of negative
  weight.

## Disagreements between the code and its comments

Two have a run, in which TLC finds the comment's claim violated.

- `drop_converges`: two peers do not always converge. A delete refused by the
  peer that holds the losing version leaves that version live there and deleted
  on the other (`replicate.ts:407`).
- `delete_page`: a page boundary among the tombstones of one `drop()` makes the
  target refuse the vertex's delete for good (`storage.ts:149`).

The rest have no run of their own. Each is seen by changing the constants of a
run and checking one property of its module:

| property | instance | what TLC finds |
|---|---|---|
| `NoDangling` | `replication_mirror` with `OneEdge`, `Placed = {}`, `BothWays`, both peers writers and droppers | a batch that deletes a vertex and its edge removes the vertex even when the edge's own delete is refused (`replicate.ts:201`) |
| `EndpointPresent` | `replication_mirror` with `OneEdge`, `Placed = {}`, `PageOfOne` | an edge comes in a page before its endpoint; the page is refused at every retry (`replicate.ts:10`) |
| `EndpointPresent` | the same with `NoLimit`, `OnlyOnes` and `Content = {1, 2}` | a new boundary edge to a vertex older than the checkpoint (`manager.ts:48`) |
| `ImplementsMirror` | `replication_mirror` with `TwoWorkers` | a body read before a delete lands after it and brings the element back (`replicate.ts:385`); no comment promises otherwise |
| `CheckpointHeld` | `replication_vertices` with `Filtering`, `OneCursor`, `FilterOnes` | a one-shot `_replicate` with a filter and a later one without share a checkpoint, and what the filter left out is never copied (`replicate.ts:742`: "distinct per (direction, peer, local graph) so two replications never share a cursor") |
| `NoDoubleRun` | `scheduler` | deleting a config drops the lease of its run (`replicator-registry.ts:85`) |
| `OneShotEnds` | `scheduler` with one ticker, `ConfigId = {"once"}`, `Uncheckpointed = {"once"}`, `Deletable = {}`, `MaxBatches = 2`, `MaxUpdates = 2`, `MaxFaults = 0` | a one-shot without checkpoints and with more than a page reads its first page for ever (`scheduler.ts:71`, `:80`) |
| `UidsConverge` | `uid` | with a holder dropped, peers that show the same elements differ in who has the uid (`replicate.ts:145`: "a total, clock-free order both peers agree on, so they converge") |
| `DestroyRejectsCalls` | `edge` with `Kinds = {"graph"}`, `DestroyFaults`, `DestroyRestarts` | a queued tab gets the lock from the leader's teardown before it has handled its own `destroyGraph`: it spawns and posts a port, its teardown then kills that Worker, and the Service Worker keeps the dead stub (`worker-factory.ts:111`: "so a queued tab does not later resurrect a destroyed graph") |
| `DestroyedIsGone` | `edge` with `Kinds = {"graph"}`, a second value in `Destroys`, `DestroyFaults`, `DestroyRestarts` | two destroys overlap. A request begun after the first was called is written by the leader's Worker, on a stub accepted late; the leader's close times out, its removal is refused and the next tab leads; that tab's port cuts the call off, whose epoch is current, and it is retried on the new Worker. The second destroy is called with the write in the directory: the first tab's removal succeeds while the new Worker is opening, the Worker opens and writes again, its own tab's removals are refused, and the destroy reports success (`browser/factory-stub-source.ts:174`: "fine once ANY tab's removal succeeded") |
| `ReadsOwnRun` | `segment` with `Warm = TRUE`, `MaxCrashes = 0` | a query suspended in a Durable Object while it is destroyed and used again reads a later query's rows (`storage.ts:245`) |
| `NothingLeftBehind` | `segment` | `runForeign` and `filterVertexIds` run a plan themselves and do not drop the scratch rows of its algorithms (`drive.ts:55`: "hand them to the framer, which drops them once it has produced the rows") |
| `ReapedSettles` | `edge` with `Kinds = {"graph"}`, `Destroys = {}`, `ReapedFaults`, `ReapedRestarts` | a reaped Service Worker goes on with the first page to connect; when it does not lead, the leader, which connects later, is not asked for the graph being solicited, and the request waits for ever (`browser/factory-stub-source.ts:64`: "A late-joining tab must queue for leadership on everything already in flight") |
| `PathsReachAll` | `olap` | negative weights are legal (`kernel.ts:285`), and an edge of negative weight that can be crossed both ways, as the default scope allows, is a cycle whose distances fall for ever: the rounds run out (`kernel.ts:310`), the distances fit no edge, and the paths to reachable vertices are left out without an error (`shortest-path.ts:11`: "to every reachable target") |
| `UndoSparesOthers` | `bulk_load` without the property's condition on `lost` | a vertex of the load is dropped, its rowid goes to the next vertex made, and the undo removes that one (`bulk.ts:384` says what is journaled "was CREATED by this load and is exactly what its undo removes") |
| `EndpointsNamed` | `bulk_load` with `BatchSize = 1` | under `remap` a number in a later batch is looked up as a rowid, though its vertex was given another (`bulk.ts:112-113`) |
| `EndpointsNamed` | `bulk_load` with `BatchSize = 1` and a second document that names the first's uid itself | a load's vertex is dropped, another load lands the same uid, and the first load's edge joins that one (`bulk.ts:90`: "known to this loader (its own landed vertices)") |

In the model of `BrowserEdge` because the code does so: sessions of dead tabs
are never removed, so a destroy after a tab's death waits for an answer that
cannot come; a destroy with no page to ask reports success though the directory
is there; a Worker whose open ran out of its budget stays current and fails
every request until its tab goes; a write retried by a failover may be applied
twice.

The passing runs keep clear of these by their constants, not by their guards:
`Converges` is checked where nobody drops on both sides, `EndpointPresent` on an
unpaged, unfiltered mirror (by theorem on any such), `NoDangling` and `ImplementsMirror` on a mirror with
one worker (paged or not, filtered or not, by the theorems above), `KeptRunOnce` for configs nobody deletes, `Drains` and `OneShotEnds` for
jobs that keep a checkpoint, `UidsAgree` where nothing was dropped,
`UndoSparesOthers` for loads nobody drops from, `EndpointsNamed` with a remapped
number in the batch of its edges and a uid only one document lands, `DestroySettles` where no tab dies,
`ReadsOwnRun` with a handle that a destroy closes. `AlongEdgesRight` and
`PathsRight` are the exception: they say of distances that no cycle has a negative
weight, and the run has graphs of both sorts.

## Plan

1. Done: replication (`Revision`, `GraphStore`, `Replication`, `Mirror`,
   `UidReconciliation`), the scheduler and its proofs, the bulk load, its
   refinement and proofs, `SegmentDrive` and `BrowserEdge` with theirs, the
   graph algorithms with the proofs of their results, of their rounds and of betweenness, the proofs of
   `Replication`, of its refinement of `Mirror` and of `UidReconciliation`.
2. Three peers: a loser shadowed behind a checkpoint, a uid with three claims.
3. `BulkLoad` composed with a replica that reads `_changes` while a load is
   under way.
4. Graph lifecycle under replication: a source destroyed and made again under a
   checkpoint, a config put again with another source.
5. Proofs: `CheckpointSafe` of two peers that are both written, along the lines
   of `Promised`.

## Not modelled

Most of the repository's lines are a generated parser (`src/parser`) and the
compiler, which turns Gremlin and GraphQL into relational algebra and SQL. With
the formats it is a translation of data: it keeps no state between two calls,
and what it promises is SQL's and TinkerPop's semantics, which their corpora
test. So the modules map a small share of all
lines, and the larger part of the code that keeps state.

The hosts give each graph one caller at a time; the models take that from them.
Of the graph algorithms: pageRank, articleRank and HITS, whose floats converge
to an epsilon TLC has no numbers for; triangle counts and nodeSimilarity, one
statement that is its own definition; harmonic, which is closeness with another
last expression; label scopes, `maxDistance`, `target` and the edges of a path.
Within replication: property rows and their full-text index, the session
history, transport and authorisation. Of the browser: `LocalWorkerSource`, a
single context without a lock, and the routing in the Service Worker.
