----------------------------- MODULE GraphStore -----------------------------
(***************************************************************************)
(* One graph's replication state and the operations a peer runs on it:     *)
(* the local writes, the post-write refresh (refresh.ts), the _changes     *)
(* feed and _revs_diff (manager.ts), _bulk_get and _bulk_docs              *)
(* (replicate.ts).  Each is one synchronous span of the code, so each is   *)
(* here a function from a store to a store, or to the set of the stores it *)
(* may leave where SQLite's row order decides.                             *)
(*                                                                         *)
(* A store is a record of                                                  *)
(*   live       gid -> [rev, seq], NoRev where the graph has no such row   *)
(*   weak       the placement edges (edges.weak = 1)                       *)
(*   tombs      the tombstones table: a set of [gid, rev, seq]             *)
(*   conflicts  the shadow store: a set of [gid, rev, deleted], one per    *)
(*              (gid, rev); "deleted" tells a delete marker from a body    *)
(*   counter    update_seq                                                 *)
(* Rowids, labels, property rows and the uid column are left out: matching *)
(* is by gid and a content stands for all an element's rows.  An edge's    *)
(* endpoints never change, so they are functions of its gid.               *)
(***************************************************************************)
EXTENDS Revision, FiniteSets, SequencesExt, FiniteSetsExt

CONSTANTS VGid, EGid,     \* gids of the vertices and of the edges
          Src, Tgt        \* EGid -> VGid

ASSUME GidAssumption ==
    /\ VGid \cap EGid = {}
    /\ Src \in [EGid -> VGid] /\ Tgt \in [EGid -> VGid]

Gid   == VGid \cup EGid
NoRow == [rev |-> NoRev, seq |-> 0]

EmptyStore == [live |-> [g \in Gid |-> NoRow], weak |-> {}, tombs |-> {},
               conflicts |-> {}, counter |-> 0]

Live(st)   == {g \in Gid : st.live[g].rev # NoRev}
Buried(st) == {t.gid : t \in st.tombs}
Ends(e)    == {Src[e], Tgt[e]}
Gids(docs) == {d.gid : d \in docs}

\* Mutant of Incident: only the edges going out.
IncidentOut(st, V) == {e \in EGid \cap Live(st) : Src[e] \in V}

\* The edges of some vertices, at either end.
Incident(st, V) == {e \in EGid \cap Live(st) : Ends(e) \cap V # {}}

-----------------------------------------------------------------------------
\* The refresh after a write: the touched vertices, then the touched edges,
\* then the new tombstones, each group in row order, take consecutive seqs.

RowOrders(S) == {o[1] \o o[2] : o \in SetToSeqs(S \cap VGid) \X SetToSeqs(S \cap EGid)}

Position(s, x) == CHOOSE i \in DOMAIN s : s[i] = x

\* Mutant of Refresh: the tombstones' numbers are not taken out of the counter.
RefreshUncounted(st, touched, buried) ==
    [st EXCEPT
        !.live = [g \in Gid |-> IF g \in ToSet(touched)
                                THEN [@[g] EXCEPT !.seq = st.counter + Position(touched, g)]
                                ELSE @[g]],
        !.tombs = @ \cup {[gid |-> buried[i].gid, rev |-> buried[i].rev,
                           seq |-> st.counter + Len(touched) + i] : i \in DOMAIN buried},
        !.counter = @ + Len(touched)]

Refresh(st, touched, buried) ==
    [st EXCEPT
        !.live = [g \in Gid |->
                    IF g \in ToSet(touched)
                    THEN [@[g] EXCEPT !.seq = st.counter + Position(touched, g)]
                    ELSE @[g]],
        !.tombs = @ \cup {[gid |-> buried[i].gid, rev |-> buried[i].rev,
                           seq |-> st.counter + Len(touched) + i] : i \in DOMAIN buried},
        !.counter = @ + Len(touched) + Len(buried)]

\* A compiled write on one element: addV, addE, property().  The refresh
\* chains the revision off the old one (none on a create).
Write(st, g, content) ==
    Refresh([st EXCEPT !.live[g].rev = ComputeRev(@, content)], <<g>>, << >>)

Entomb(st, order) == [i \in DOMAIN order |-> [gid |-> order[i], rev |-> st.live[order[i]].rev]]

Erase(st, S) == [st EXCEPT !.live = [g \in Gid |-> IF g \in S THEN NoRow ELSE @[g]],
                           !.weak = @ \ S]

\* Mutant of Drop: the cascaded edges leave no tombstone.
DropSilently(st, g) ==
    LET cascade == IF g \in VGid THEN Incident(st, {g}) ELSE {}
    IN  {Refresh(Erase(st, {g} \cup cascade), << >>, Entomb(st, <<g>>))}

\* drop(): a vertex's tombstone is recorded first, then its incident edges'.
Drop(st, g) ==
    LET cascade == IF g \in VGid THEN Incident(st, {g}) ELSE {}
    IN  {Refresh(Erase(st, {g} \cup cascade), << >>, Entomb(st, <<g>> \o order)) :
            order \in SetToSeqs(cascade)}

-----------------------------------------------------------------------------
\* _changes, _revs_diff, _bulk_get: the reads.

\* The rows a filter lets through: the matched vertices, their edges, and
\* the other ends of those.  A filter is the set of contents it selects.
Unfiltered == Content

Selected(st, filter) ==
    IF filter = Unfiltered THEN Live(st)
    ELSE LET matched  == {v \in VGid \cap Live(st) : Last(st.live[v].rev) \in filter}
             incident == Incident(st, matched)
         IN  (matched \cup incident \cup UNION {Ends(e) : e \in incident}) \cap Live(st)

Losers(st, g) == {c.rev : c \in {d \in st.conflicts : d.gid = g /\ ~d.deleted}}

FeedRows(st, filter) ==
    {[gid |-> g, rev |-> st.live[g].rev, seq |-> st.live[g].seq, deleted |-> FALSE,
      losers |-> Losers(st, g)] : g \in Selected(st, filter)}
    \cup
    {[gid |-> t.gid, rev |-> t.rev, seq |-> t.seq, deleted |-> TRUE, losers |-> {}] :
        t \in st.tombs}

\* limit = 0 stands for an unpaged feed.
ChangesFeed(st, since, limit, filter) ==
    LET rows == {r \in FeedRows(st, filter) : r.seq > since}
        page == IF limit = 0 THEN rows
                ELSE {r \in rows : Cardinality({q \in rows : q.seq <= r.seq}) <= limit}
    IN  [results |-> page,
         last_seq |-> IF limit > 0 /\ Cardinality(page) = limit
                      THEN Max({r.seq : r \in page}) ELSE st.counter]

\* The offered [gid, rev] whose hash is on no revision tree held for the gid.
Held(st, g) == Ids(st.live[g].rev) \cup UNION {Ids(t.rev) : t \in {u \in st.tombs : u.gid = g}}

RevsDiff(st, offer) == {o \in offer : o.rev \notin Held(st, o.gid)}

\* Live bodies come out of a join with both endpoints.
LiveBodies(st, gids) ==
    {[gid |-> g, rev |-> st.live[g].rev] :
        g \in {h \in gids \cap Live(st) : h \in EGid => Ends(h) \subseteq Live(st)}}

\* A reference that names a revision is served from the shadow store, where
\* a delete marker has no body; one not there means the live row.
BulkGetRevs(st, refs) ==
    LET shadows(ref) == {c \in st.conflicts : c.gid = ref.gid /\ c.rev = ref.rev}
    IN  {ref \in refs : \E c \in shadows(ref) : ~c.deleted}
        \cup LiveBodies(st, Gids({ref \in refs : shadows(ref) = {}}))

-----------------------------------------------------------------------------
\* _bulk_docs: classify, delete, upsert, resurrect, in one atomic unit.

\* INSERT OR IGNORE on the key (gid, rev_hash).
Shadow(conflicts, new) ==
    conflicts \cup {n \in new : \A c \in conflicts : ~(c.gid = n.gid /\ c.rev = n.rev)}

Marks(docs, isDelete) == {[gid |-> d.gid, rev |-> d.rev, deleted |-> isDelete] : d \in docs}

Clash(st, d)   == st.live[d.gid].rev # NoRev /\ Diverges(d.rev, st.live[d.gid].rev)
Wins(st, d)    == Clash(st, d) /\ RevWins(d.rev, st.live[d.gid].rev)
Accepts(st, d) == \/ st.live[d.gid].rev = NoRev
                  \/ /\ d.rev # st.live[d.gid].rev
                     /\ DescendsFrom(d.rev, st.live[d.gid].rev) \/ Wins(st, d)

ClassifyWire(st, docs) ==
    [st EXCEPT !.conflicts =
        Shadow(@, Marks(LiveBodies(st, Gids({d \in docs : Wins(st, d)})), FALSE)
                  \cup Marks({d \in docs : Clash(st, d) /\ ~Wins(st, d)}, FALSE))]

\* Two accepted bodies of one element in a batch: the loader keeps one.
OnePerGid(docs) ==
    {A \in SUBSET docs : Gids(A) = Gids(docs) /\ \A a, b \in A : a.gid = b.gid => a = b}

\* The vertices some strong edge outside the batch references.
Pinned(st, dels) ==
    LET edgesHere == {dels[i].gid : i \in DOMAIN dels} \cap EGid \cap Live(st)
    IN  UNION {Ends(e) : e \in (EGid \cap Live(st)) \ (st.weak \cup edgesHere)}

\* Mutant of Refusals: a delete older than the live row is applied.
RefusalsPinned(st, dels) == {d \in ToSet(dels) : d.gid \in VGid \cap Live(st) \cap Pinned(st, dels)}

\* The deletes that meet a pinned live vertex, or a live row they do not
\* descend from.
Refusals(st, dels) ==
    {d \in ToSet(dels) : /\ d.gid \in Live(st)
                         /\ \/ d.gid \in VGid \cap Pinned(st, dels)
                            \/ ~DescendsFrom(d.rev, st.live[d.gid].rev)}

\* Mutant of NewTombs: a replicated delete leaves none.
NewTombsOfNone(st, dels, refused, order) == << >>

\* The deletes of the elements outside a set, in their order.
DeletesOutside(dels, gids) ==
    LET places == {i \in DOMAIN dels : dels[i].gid \notin gids}
    IN  [n \in 1 .. Cardinality(places) |->
            dels[CHOOSE i \in places : Cardinality({j \in places : j <= i}) = n]]

\* The applied deletes' tombstones, then the cascaded edges': one for each gid.
NewTombs(st, dels, refused, order) ==
    DeletesOutside(dels, Gids(refused) \cup Buried(st))
    \o DeletesOutside(Entomb(st, order), Buried(st))

\* Refused deletes are surfaced; the others remove the row, drag the removed
\* vertices' weak edges along, and leave a tombstone unless the gid has one.
ApplyDeletes(st, dels) ==
    LET refused == Refusals(st, dels)
        removed == (Gids(ToSet(dels)) \ Gids(refused)) \cap Live(st)
        cascade == Incident(st, removed \cap VGid) \cap st.weak
        swept   == Erase([st EXCEPT !.conflicts = Shadow(@, Marks(refused, TRUE))],
                         removed \cup cascade)
    IN  {[store |-> swept,
          buried |-> NewTombs(st, dels, refused, order)] :
            order \in SetToSeqs(cascade)}

Upsert(st, docs) ==
    [st EXCEPT !.live = [g \in Gid |-> IF g \in Gids(docs)
                                       THEN [rev |-> (CHOOSE d \in docs : d.gid = g).rev, seq |-> 0]
                                       ELSE @[g]],
               !.weak = @ \ Gids(docs)]

\* Mutant of Resurrect: the tombstone stays.
ResurrectBuried(st, gids) ==
    [st EXCEPT !.conflicts = Shadow(@, Marks({t \in st.tombs : t.gid \in gids}, TRUE))]

\* A live upsert drops the tombstones of its gids and surfaces the deletes.
Resurrect(st, gids) ==
    LET lifted == {t \in st.tombs : t.gid \in gids}
    IN  [st EXCEPT !.tombs = @ \ lifted, !.conflicts = Shadow(@, Marks(lifted, TRUE))]

\* Mutant of Resolves: edges land before the batch's vertices.
ResolvesEdgesFirst(st, docs) == \A e \in Gids(docs) \cap EGid : Ends(e) \subseteq Live(st)

\* Every edge to land finds its endpoints live, or landing with it.
Resolves(st, docs) ==
    \A e \in Gids(docs) \cap EGid : Ends(e) \subseteq Live(st) \cup Gids(docs)

\* The stores the accepted bodies may leave once the deletes are done.
Landings(cut, acc) ==
    {Resurrect(Refresh(Upsert(cut.store, acc), order, cut.buried), Gids(acc)) :
        order \in RowOrders(Gids(acc))}

\* The stores a change set may leave; none when the unit throws and rolls back.
ApplyWire(st, docs, dels) ==
    UNION {UNION {Landings(cut, acc) :
                  cut \in {c \in ApplyDeletes(ClassifyWire(st, docs), dels) : Resolves(c.store, acc)}} :
           acc \in OnePerGid({d \in docs : Accepts(st, d)})}
=============================================================================
