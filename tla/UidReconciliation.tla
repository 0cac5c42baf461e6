------------------------- MODULE UidReconciliation -------------------------
(***************************************************************************)
(* The uid column under replication (replicate.ts, applyUids): the id a    *)
(* user gives an element when it is created, unique in a graph but not     *)
(* across peers.  A uid is in no revision and its loss moves no sequence   *)
(* number, so it replicates beside what Replication models: each action    *)
(* here is one of Replication's with what it does to the uids.  Elements   *)
(* have one content, so their revisions never conflict: the leg that ships *)
(* losing bodies, which Replication models, has nothing to move here.      *)
(***************************************************************************)
EXTENDS Replication

CONSTANTS
    Uid, NoUid,
    Shared       \* a vertex every peer holds from an earlier replication, or none: {} or {v}

ASSUME UidAssumption ==
    /\ NoUid \notin Uid
    /\ \A c, d \in Content : c = d
    /\ Gid \subseteq Nat   \* gids compare as hex text
    /\ Shared \subseteq VGid /\ \A g, h \in Shared : g = h
    /\ Shared # {} => Content # {}

VARIABLES
    uids,       \* Peer -> gid -> the uid column
    marks,      \* Peer -> the <<gid, uid>> markers of lost claims in the shadow store
    carried,    \* Worker -> the bodies _bulk_get answered with, [gid, rev, uid]
    claim       \* gid -> the uid it was created with

uidVars == <<uids, marks, carried, claim>>
allVars == <<vars, uidVars>>

Kin(g)          == IF g \in VGid THEN VGid ELSE EGid       \* the table it is a row of
Bodies(p, docs) == {[gid |-> d.gid, rev |-> d.rev, uid |-> uids[p][d.gid]] : d \in docs}
Doc(b)          == [gid |-> b.gid, rev |-> b.rev]

HeldAlready == [rev |-> <<CHOOSE c \in Content : TRUE>>, seq |-> 1]

UidInit ==
    /\ store = [p \in Peer |->
                   [EmptyStore EXCEPT !.live = [g \in Gid |-> IF g \in Shared THEN HeldAlready ELSE NoRow],
                                      !.counter = Cardinality(Shared)]]
    /\ checkpoint = [c \in {Cursor[w] : w \in Worker} |-> Cardinality(Shared)]
    /\ pass = [w \in Worker |-> Idle]
    /\ writes = 0 /\ aborts = 0
    /\ uids = [p \in Peer |-> [g \in Gid |-> NoUid]]
    /\ marks = [p \in Peer |-> {}]
    /\ carried = [w \in Worker |-> {}]
    /\ claim = [g \in Gid |-> NoUid]

-----------------------------------------------------------------------------
\* One item of applyUids, on a peer's column and markers.

Holders(s, b) == {h \in Kin(b.gid) : b.uid # NoUid /\ s.uids[h] = b.uid}

\* The item takes the uid; who had it is stripped and marked.
Grant(s, b) ==
    [uids  |-> [g \in Gid |-> IF g = b.gid THEN b.uid ELSE IF g \in Holders(s, b) THEN NoUid ELSE s.uids[g]],
     marks |-> s.marks \cup {<<h, b.uid>> : h \in Holders(s, b)}]

DenySilently(s, b) == s   \* mutant of Deny: no marker

\* The item stays without the uid and is marked.
Deny(s, b) == [s EXCEPT !.marks = @ \cup {<<b.gid, b.uid>>}]

\* Mutant of Reconcile: whoever came first keeps the uid.
ReconcileFirst(s, b) ==
    IF b.uid = NoUid \/ b.gid \in Holders(s, b) THEN s
    ELSE IF Holders(s, b) # {} THEN Deny(s, b) ELSE Grant(s, b)

\* The lower gid wins.
Reconcile(s, b) ==
    IF b.uid = NoUid \/ b.gid \in Holders(s, b) THEN s
    ELSE IF \E h \in Holders(s, b) : h < b.gid THEN Deny(s, b) ELSE Grant(s, b)

\* One item after the other.
ReconcileAll(s, q) ==
    LET after[n \in 0 .. Len(q)] == IF n = 0 THEN s ELSE Reconcile(after[n - 1], q[n])
    IN  after[Len(q)]

\* applyUids: the vertices accepted, then the edges, in the order they came.
ApplyUids(s, items) ==
    LET ofTable(T) == SetToSeqs({b \in items : b.gid \in T})
    IN  {ReconcileAll(s, vs \o es) : vs \in ofTable(VGid), es \in ofTable(EGid)}

\* The column once the deletes and the loader have run: a row that is gone has
\* none, a new row and an edge, which is deleted and inserted again, land with
\* none; a vertex that was here keeps its row.
Relanded(p, after, items) ==
    [g \in Gid |-> IF \/ g \notin Live(after)
                      \/ g \in Gids(items) /\ (g \in EGid \/ g \notin Live(store[p]))
                   THEN NoUid ELSE uids[p][g]]

-----------------------------------------------------------------------------
\* Local writes: a uid is given at the create only, if no element of the graph has it.
UidCreate(p, g, content, u) ==
    /\ Create(p, g, content)
    /\ u # NoUid => \A h \in Kin(g) : uids[p][h] # u
    /\ uids' = [uids EXCEPT ![p][g] = u]
    /\ claim' = [claim EXCEPT ![g] = u]
    /\ UNCHANGED <<marks, carried>>

UidEdit(p, g, content) == Edit(p, g, content) /\ UNCHANGED uidVars

UidDrop(p, g) ==
    /\ DropElement(p, g)
    /\ uids' = [uids EXCEPT ![p] = [h \in Gid |-> IF h \in Live(store'[p]) THEN @[h] ELSE NoUid]]
    /\ UNCHANGED <<marks, carried, claim>>

\* The pass: what _bulk_get answers carries the uids of the moment.
UidFetch(w) ==
    /\ Fetch(w)
    /\ carried' = [carried EXCEPT ![w] = Bodies(Source[w], LiveBodies(store[Source[w]], Gids(pass[w].docs)))]
    /\ UNCHANGED <<uids, marks, claim>>

\* _bulk_docs: the uids of all that was accepted are reconciled once it has landed.
UidApply(w) ==
    /\ Apply(w)
    /\ LET p        == Target[w]
           accepted == {b \in carried[w] : Accepts(store[p], Doc(b))}
       IN  \E s \in ApplyUids([uids |-> Relanded(p, store'[p], accepted), marks |-> marks[p]], accepted) :
              /\ uids' = [uids EXCEPT ![p] = s.uids]
              /\ marks' = [marks EXCEPT ![p] = s.marks]
    /\ carried' = [carried EXCEPT ![w] = {}]
    /\ UNCHANGED claim

UidQuiet(w) ==
    /\ Changes(w) \/ AskMissing(w) \/ WriteCheckpoint(w)
    /\ UNCHANGED uidVars

\* A rejected change set or a dead worker.
UidStop(w) ==
    /\ Reject(w) \/ Abort(w)
    /\ carried' = [carried EXCEPT ![w] = {}]
    /\ UNCHANGED <<uids, marks, claim>>

UidNext ==
    \/ \E p \in Peer, g \in Gid, c \in Content, u \in Uid \cup {NoUid} : UidCreate(p, g, c, u)
    \/ \E p \in Peer, g \in Gid, c \in Content : UidEdit(p, g, c)
    \/ \E p \in Peer, g \in Gid : UidDrop(p, g)
    \/ \E w \in Worker : UidQuiet(w) \/ UidFetch(w) \/ UidApply(w) \/ UidStop(w)

UidSpec == UidInit /\ [][UidNext]_allVars

-----------------------------------------------------------------------------
\* Properties.

\* UNIQUE(uid): two elements of one graph never have the same uid, although
\* peers gave it out on both sides of a partition.
UniqueUids ==
    \A p \in Peer, g, h \in Gid :
        g \in Kin(h) /\ uids[p][g] = uids[p][h] /\ uids[p][g] # NoUid => g = h

\* "First to claim the name": no two elements share a uid, and of the elements that were given a uid, the one with
\* the lowest gid has it wherever it is live, whatever came before it and was dropped.
LowestClaimHolds ==
    /\ UniqueUids
    /\ \A p \in Peer : \A g \in Live(store[p]) :
          (\A h \in Kin(g) : claim[h] = claim[g] => g <= h) => uids[p][g] = claim[g]

\* Never lost: an element that is without the uid it was given is marked so in
\* the shadow store of some peer.
LossSurfaced ==
    \A p \in Peer : \A g \in Live(store[p]) :
        uids[p][g] # claim[g] => \E q \in Peer : <<g, claim[g]>> \in marks[q]

\* Both workers idle at the end of their feeds: nothing moves until the next write.
Drained == \A w \in Worker : pass[w] = Idle /\ checkpoint[Cursor[w]] = store[Source[w]].counter

NeverDropped == \A p \in Peer : store[p].tombs = {} /\ \A c \in store[p].conflicts : ~c.deleted

SameUids == \A p, q \in Peer : uids[p] = uids[q]

\* applyUids: "a total, clock-free order both peers agree on, so they converge":
\* with all replicated, peers that show the same elements show the same uids, if
\* nothing was ever dropped.
UidsAgree == Drained /\ NeverDropped /\ Agree => SameUids

\* The same with drops, as the comment has it.
UidsConverge == Drained /\ Agree => SameUids
=============================================================================
