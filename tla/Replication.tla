---------------------------- MODULE Replication ----------------------------
(***************************************************************************)
(* src/replicate.ts, runReplicationPass: workers that each copy one peer's *)
(* graph to another, page by page, while users write to both.  A pass is   *)
(* a chain of awaited calls to the two peers, so local writes and other    *)
(* workers' calls fall between any two of them, and a pass may die at any  *)
(* call, leaving its checkpoint where it was.                              *)
(***************************************************************************)
EXTENDS GraphStore

CONSTANTS
    Peer, Worker,
    Source, Target,       \* Worker -> Peer
    Cursor,               \* Worker -> the checkpoint it reads and writes
    Limit,                \* Worker -> page size, 0 for no paging
    Filter,               \* Worker -> the contents its filter selects
    Writers, Droppers,    \* the peers users write to; those they also drop elements on
    Placed,               \* the edges that only a placement run creates
    MaxGen, MaxWrites, MaxAborts   \* bounds: edits of one element, local writes, dead passes

ASSUME ReplicationAssumption ==
    /\ Source \in [Worker -> Peer] /\ Target \in [Worker -> Peer]
    /\ Limit \in [Worker -> Nat] /\ Filter \in [Worker -> SUBSET Content]
    /\ Droppers \subseteq Writers /\ Writers \subseteq Peer /\ Placed \subseteq EGid
    /\ MaxGen \in Nat /\ MaxWrites \in Nat /\ MaxAborts \in Nat

VARIABLES
    store,        \* Peer -> its graph
    checkpoint,   \* cursor -> the source sequence a worker resumes from
    pass,         \* Worker -> its pass under way
    writes, aborts

vars == <<store, checkpoint, pass, writes, aborts>>

\* A pass: the call it makes next, the [gid, rev] it is moving (offered,
\* then missing, then bodies), the losers likewise, the deletes in feed
\* order, and the cursor to write at the end.
Idle == [call |-> "changes", docs |-> {}, losers |-> {}, deletes |-> << >>, last_seq |-> 0]

Calls == {"changes", "revsDiff", "bulkGet", "bulkDocs",
          "losersDiff", "losersGet", "losersDocs", "checkpoint"}

-----------------------------------------------------------------------------
Init ==
    /\ store = [p \in Peer |-> EmptyStore]
    /\ checkpoint = [c \in {Cursor[w] : w \in Worker} |-> 0]
    /\ pass = [w \in Worker |-> Idle]
    /\ writes = 0 /\ aborts = 0

\* Local writes -------------------------------------------------------------

Unseen(g) == \A p \in Peer : g \notin Live(store[p]) \cup Buried(store[p])

LocalWrite(p, st) ==
    /\ p \in Writers /\ writes < MaxWrites
    /\ writes' = writes + 1
    /\ store' = [store EXCEPT ![p] = st]
    /\ UNCHANGED <<checkpoint, pass, aborts>>

\* A created element gets a gid no peer has seen (uuid_v7).
Create(p, g, content) ==
    /\ Unseen(g) /\ g \notin Placed
    /\ g \in EGid => Ends(g) \subseteq Live(store[p])
    /\ LocalWrite(p, Write(store[p], g, content))

\* An edit of an edge that dangles is left out: the refresh joins both ends
\* and gives it no revision.
Edit(p, g, content) ==
    /\ g \in EGid => Ends(g) \subseteq Live(store[p])
    /\ g \in Live(store[p]) /\ Gen(store[p].live[g].rev) < MaxGen
    /\ LocalWrite(p, Write(store[p], g, content))

DropElement(p, g) ==
    /\ p \in Droppers /\ g \in Live(store[p])
    /\ \E st \in Drop(store[p], g) : LocalWrite(p, st)

\* Mutant of Graft: what it created stays a strong edge.
GraftStrong(w, e, content) ==
    /\ pass[w] = Idle
    /\ LET here == store[Target[w]]
       IN  /\ e \in Placed /\ Unseen(e) /\ Ends(e) \subseteq Live(here)
           /\ store' = [store EXCEPT ![Target[w]] = Write(here, e, content)]
    /\ UNCHANGED <<checkpoint, pass, writes, aborts>>

\* A placement run, once a pass has drained: it grafts an edge between
\* elements of the target and marks what it created as weak.  Not a user's
\* write, so it is not counted as one; re-runs find the edge and do nothing.
Graft(w, e, content) ==
    /\ pass[w] = Idle
    /\ LET here == store[Target[w]]
       IN  /\ e \in Placed /\ Unseen(e) /\ Ends(e) \subseteq Live(here)
           /\ store' = [store EXCEPT ![Target[w]] =
                           [Write(here, e, content) EXCEPT !.weak = @ \cup {e}]]
    /\ UNCHANGED <<checkpoint, pass, writes, aborts>>

\* The pass -----------------------------------------------------------------

\* The next call, given what is left to move: a call with nothing to ask for
\* is not made.
AfterGet(m)  == IF m.docs # {} \/ m.deletes # << >> THEN "bulkDocs"
                ELSE IF m.losers # {} THEN "losersDiff" ELSE "checkpoint"
AfterDiff(m) == IF m.docs # {} THEN "bulkGet" ELSE AfterGet(m)
AfterFeed(m) == IF m.docs # {} THEN "revsDiff" ELSE AfterGet(m)

Continue(w, m, call) ==
    /\ pass' = [pass EXCEPT ![w] = [m EXCEPT !.call = call]]
    /\ UNCHANGED <<checkpoint, writes, aborts>>

InWire(rows) == {[gid |-> r.gid, rev |-> r.rev] : r \in rows}

\* The rows of a feed in its order.
BySeq(rows) ==
    [i \in 1 .. Cardinality(rows) |->
        CHOOSE r \in rows : Cardinality({q \in rows : q.seq <= r.seq}) = i]

\* Reads the cursor and the feed: a pass is alone with its cursor, so the
\* await between the two changes nothing.
Changes(w) ==
    /\ pass[w].call = "changes"
    /\ LET feed == ChangesFeed(store[Source[w]], checkpoint[Cursor[w]], Limit[w], Filter[w])
           live == {r \in feed.results : ~r.deleted}
           dels == BySeq(feed.results \ live)
           m == [Idle EXCEPT
                   !.docs = InWire(live),
                   !.losers = UNION {{[gid |-> r.gid, rev |-> l] : l \in r.losers} : r \in live},
                   !.deletes = [i \in DOMAIN dels |-> [gid |-> dels[i].gid, rev |-> dels[i].rev]],
                   !.last_seq = feed.last_seq]
       IN  Continue(w, m, AfterFeed(m))
    /\ UNCHANGED store

AskMissing(w) ==
    /\ pass[w].call = "revsDiff"
    /\ LET m == [pass[w] EXCEPT !.docs = RevsDiff(store[Target[w]], @)]
       IN  Continue(w, m, AfterDiff(m))
    /\ UNCHANGED store

Fetch(w) ==
    /\ pass[w].call = "bulkGet"
    /\ LET m == [pass[w] EXCEPT !.docs = LiveBodies(store[Source[w]], Gids(@))]
       IN  Continue(w, m, AfterGet(m))
    /\ UNCHANGED store

Land(w, docs, deletes, rest) ==
    /\ \E st \in ApplyWire(store[Target[w]], docs, deletes) :
          store' = [store EXCEPT ![Target[w]] = st]
    /\ LET m == [pass[w] EXCEPT !.docs = {}, !.deletes = << >>, !.losers = rest]
       IN  Continue(w, m, AfterGet(m))

Apply(w) == /\ pass[w].call = "bulkDocs"
            /\ Land(w, pass[w].docs, pass[w].deletes, pass[w].losers)

AskLosers(w) ==
    /\ pass[w].call = "losersDiff"
    /\ LET m == [pass[w] EXCEPT !.losers = RevsDiff(store[Target[w]], @)]
       IN  Continue(w, m, IF m.losers # {} THEN "losersGet" ELSE "checkpoint")
    /\ UNCHANGED store

FetchLosers(w) ==
    /\ pass[w].call = "losersGet"
    /\ Continue(w, [pass[w] EXCEPT !.losers = BulkGetRevs(store[Source[w]], @)], "losersDocs")
    /\ UNCHANGED store

ApplyLosers(w) == /\ pass[w].call = "losersDocs"
                  /\ Land(w, pass[w].losers, << >>, {})

\* Mutant of WriteCheckpoint: the source's update_seq at the end of the pass.
WriteCheckpointLate(w) ==
    /\ pass[w].call = "checkpoint"
    /\ checkpoint' = [checkpoint EXCEPT ![Cursor[w]] = store[Source[w]].counter]
    /\ pass' = [pass EXCEPT ![w] = Idle]
    /\ UNCHANGED <<store, writes, aborts>>

WriteCheckpoint(w) ==
    /\ pass[w].call = "checkpoint"
    /\ checkpoint' = [checkpoint EXCEPT ![Cursor[w]] = pass[w].last_seq]
    /\ pass' = [pass EXCEPT ![w] = Idle]
    /\ UNCHANGED <<store, writes, aborts>>

\* _bulk_docs throws (an edge references an unknown vertex): the unit rolls
\* back and the pass ends with its checkpoint unmoved.
Refused(w) ==
    \/ pass[w].call = "bulkDocs" /\ ApplyWire(store[Target[w]], pass[w].docs, pass[w].deletes) = {}
    \/ pass[w].call = "losersDocs" /\ ApplyWire(store[Target[w]], pass[w].losers, << >>) = {}

Reject(w) ==
    /\ Refused(w)
    /\ pass' = [pass EXCEPT ![w] = Idle]
    /\ UNCHANGED <<store, checkpoint, writes, aborts>>

\* A call fails or the worker dies: what the pass knew is gone.
Abort(w) ==
    /\ pass[w] # Idle /\ aborts < MaxAborts
    /\ aborts' = aborts + 1
    /\ pass' = [pass EXCEPT ![w] = Idle]
    /\ UNCHANGED <<store, checkpoint, writes>>

Advance(w) ==
    \/ Changes(w) \/ AskMissing(w) \/ Fetch(w) \/ Apply(w)
    \/ AskLosers(w) \/ FetchLosers(w) \/ ApplyLosers(w)
    \/ WriteCheckpoint(w) \/ Reject(w)

Next ==
    \/ \E p \in Peer, g \in Gid, c \in Content : Create(p, g, c) \/ Edit(p, g, c)
    \/ \E p \in Peer, g \in Gid : DropElement(p, g)
    \/ \E w \in Worker, e \in EGid, c \in Content : Graft(w, e, c)
    \/ \E w \in Worker : Advance(w) \/ Abort(w)

Spec == Init /\ [][Next]_vars

\* Every driver of a pass (a ticker, a poll loop) keeps calling it.
FairSpec == Spec /\ \A w \in Worker : WF_vars(Advance(w))

-----------------------------------------------------------------------------
\* Properties.

Leaf  == [gid : Gid, rev : Rev]
Store == [live : [Gid -> [rev : Rev \cup {NoRev}, seq : Nat]], weak : SUBSET EGid,
          tombs : SUBSET [gid : Gid, rev : Rev, seq : Nat],
          conflicts : SUBSET [gid : Gid, rev : Rev, deleted : BOOLEAN], counter : Nat]

\* manager.ts changesFeed: no two rows of the feed share a seq and none is
\* past update_seq, so a page boundary never hides a row.
DistinctSeqs ==
    \A p \in Peer : \A q, r \in FeedRows(store[p], Unfiltered) :
        /\ q.seq \in 1 .. store[p].counter
        /\ q.seq = r.seq => q = r

\* The state is what the tables and the awaited calls can hold.
TypeOK ==
    /\ store \in [Peer -> Store]
    /\ checkpoint \in [{Cursor[w] : w \in Worker} -> Nat]
    /\ pass \in [Worker -> [call : Calls, docs : SUBSET Leaf, losers : SUBSET Leaf,
                            deletes : Seq(Leaf), last_seq : Nat]]
    /\ writes \in 0 .. MaxWrites /\ aborts \in 0 .. MaxAborts
    /\ DistinctSeqs

\* replicate.ts resurrect: an element is live or tombstoned, never both.
LiveOrTombstone == \A p \in Peer : Live(store[p]) \cap Buried(store[p]) = {}

\* The target has taken in a row of the source's feed: a live row's revision
\* is on a tree it holds or in its shadow store; a deleted revision, or an
\* ancestor of it, is not what it shows live.
Knows(st, r) ==
    IF r.deleted
    THEN r.gid \in Live(st) => ~DescendsFrom(r.rev, st.live[r.gid].rev)
    ELSE r.rev \in Held(st, r.gid) \cup {c.rev : c \in {d \in st.conflicts : d.gid = r.gid}}

Passed(w) == {r \in FeedRows(store[Source[w]], Unfiltered) : r.seq <= checkpoint[Cursor[w]]}

\* runReplicationPass: a checkpoint never moves past a change the target
\* has not taken in, whatever is written, repeated or cut short meanwhile.
CheckpointSafe == \A w \in Worker : \A r \in Passed(w) : Knows(store[Target[w]], r)

\* applyDeletes: the same for the deletes alone.
DeletesPropagate ==
    \A w \in Worker : \A r \in Passed(w) : r.deleted => Knows(store[Target[w]], r)

\* applyDeletes: no live edge is left without an endpoint.
NoDangling == \A p \in Peer : \A e \in EGid \cap Live(store[p]) : Ends(e) \subseteq Live(store[p])

\* applyChangeSet: an endpoint is always present when its edge lands, so
\* _bulk_docs never throws.
EndpointPresent == \A w \in Worker : ~Refused(w)

Leaves(st) == {[gid |-> g, rev |-> st.live[g].rev] : g \in Live(st)}
              \cup InWire(st.tombs) \cup InWire(st.conflicts)

\* classifyWire, resurrect, shadowDelete: a leaf a peer holds (live, deleted
\* or shadowed) stays on some line that peer holds after any step.
NeverLosesAVersion ==
    [][\A p \in Peer : \A l \in Leaves(store[p]) :
          \E k \in Leaves(store'[p]) : k.gid = l.gid /\ DescendsFrom(k.rev, l.rev)]_vars

\* refreshElements: an element whose live row or tombstone changes takes a
\* seq no earlier checkpoint of this feed can have reached.
Shown(st, g) == <<st.live[g].rev, {t.rev : t \in {u \in st.tombs : u.gid = g}}>>
EveryChangeEntersFeed ==
    [][\A p \in Peer, g \in Gid :
          Shown(store[p], g) # Shown(store'[p], g) =>
              \E r \in FeedRows(store'[p], Unfiltered) :
                  r.gid = g /\ r.seq > store[p].counter]_vars

\* applyWire: once the writes stop, every peer shows the same revisions of
\* all that users wrote.
Agree == \A p, q \in Peer, g \in Gid \ Placed : store[p].live[g].rev = store[q].live[g].rev
Converges == <>[]Agree

\* runReplicationPass: an unfiltered checkpoint is never past a live version
\* of the source that is on no line its target holds.
TakenIn(st, g, rev) == \E k \in Leaves(st) : k.gid = g /\ DescendsFrom(k.rev, rev)

CheckpointHeld ==
    \A w \in Worker : Filter[w] = Unfiltered =>
        \A g \in Live(store[Source[w]]) :
            store[Source[w]].live[g].seq <= checkpoint[Cursor[w]] =>
                TakenIn(store[Target[w]], g, store[Source[w]].live[g].rev)
=============================================================================
