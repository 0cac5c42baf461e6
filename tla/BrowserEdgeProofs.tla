-------------------------- MODULE BrowserEdgeProofs --------------------------
(***************************************************************************)
(* BrowserEdge for any number of tabs, requests, destroys and deaths:      *)
(*   one live Worker at a time belongs to the head of the lock's queue;    *)
(*   every variable keeps its type, the counters of answers included;      *)
(*   an acknowledged write stays until a destroy, and no request fails     *)
(*   without one of the reasons there are;                                 *)
(*   a destroy waits for every page that may still execute what it cut     *)
(*   off, and one that succeeded left nothing of before.                   *)
(***************************************************************************)
EXTENDS BrowserEdge, SequenceTheorems, FiniteSetTheorems, TLAPS

TabFields == {"alive", "ctl", "stake", "worker", "teardowns", "stage", "leaving", "old"}
WorkerStates == {"opening", "open", "failed", "orphan", "killed", "gone"}
WorkerRecords == [owner : Tabs, state : WorkerStates]
IsQueue(s) == \E S : s \in Seq(S)
In(q, t) == \E i \in DOMAIN q : q[i] = t

Shape ==
    /\ tab = [t \in Tabs |-> tab[t]]
    /\ \A t \in Tabs : DOMAIN tab[t] = TabFields /\ IsQueue(tab[t].teardowns)
    /\ lockQ \in Seq(Tabs) /\ IsInjective(lockQ)
    /\ workers \in Seq(WorkerRecords)

\* A tab is in the queue as long as it has a stake in the graph, or gives one up.
Staked(t) == tab[t].stake # "none" \/ tab[t].leaving # "none"
Leads(t)  == tab[t].stake = "leader" \/ tab[t].leaving = "leader"
Queued(t) ==
    /\ Leads(t) => lockQ # << >> /\ Head(lockQ) = t
    /\ In(lockQ, t) => Staked(t)

\* A teardown takes the stake away, and a new one waits for its end.
Leaves(t) ==
    /\ tab[t].leaving # "none" => tab[t].stage # "none"
    /\ tab[t].stage # "none" => tab[t].teardowns # << >>
    /\ tab[t].teardowns # << >> => tab[t].stake = "none"

\* A live Worker is the one its owner leads with, or the one it is closing.
Owned(w) ==
    LET t == workers[w].owner
    IN  \/ tab[t].stake = "leader" /\ tab[t].worker = w
        \/ tab[t].leaving = "leader" /\ tab[t].stage = "closing" /\ tab[t].old = w
Idle(t) == tab[t].stake # "leader" => tab[t].worker = 0

IInv ==
    /\ Shape
    /\ \A t \in Tabs : Queued(t) /\ Leaves(t) /\ Idle(t)
    /\ \A w \in DOMAIN workers : Live(w) => Owned(w)

\* Sequences ------------------------------------------------------------------

\* Who leaves the queue leaves it for good, and nobody overtakes the head.
LEMMA Removed ==
    ASSUME NEW S, NEW q \in Seq(S), IsInjective(q), NEW t
    PROVE  LET r == RemoveFirst(q, t)
           IN  /\ r \in Seq(S) /\ IsInjective(r)
               /\ \A u : In(r, u) => In(q, u) /\ u # t
               /\ q # << >> /\ Head(q) # t => r # << >> /\ Head(r) = Head(q)
<1> DEFINE r == RemoveFirst(q, t)
           I == {i \in 1 .. Len(q) : q[i] = t}
<1>1. CASE ~\E i \in 1 .. Len(q) : q[i] = t
  BY <1>1 DEF RemoveFirst, In
<1>2. CASE \E i \in 1 .. Len(q) : q[i] = t
  <2>1. PICK k \in 1 .. Len(q) : q[k] = t
    BY <1>2
  <2>2. I = {k}
    BY <2>1 DEF IsInjective
  <2>3. Min(I) = k
    <3>1. k \in I /\ \A y \in I : k =< y
      BY <2>2
    <3> QED
      BY <2>2, <3>1 DEF Min
  <2>4. SelectInSeq(q, LAMBDA v : v = t) = k
    BY <2>2, <2>3 DEF SelectInSeq
  <2>5. r = SubSeq(q, 1, k - 1) \o SubSeq(q, k + 1, Len(q))
    BY <1>2, <2>4 DEF RemoveFirst, RemoveAt
  <2>6. /\ r \in Seq(S) /\ Len(r) = Len(q) - 1
        /\ \A i \in 1 .. Len(r) : r[i] = IF i < k THEN q[i] ELSE q[i + 1]
    <3> DEFINE a == SubSeq(q, 1, k - 1)
               b == SubSeq(q, k + 1, Len(q))
    <3>1. a \in Seq(S) /\ Len(a) = k - 1 /\ \A i \in 1 .. k - 1 : a[i] = q[i]
      BY <2>1
    <3>2. b \in Seq(S) /\ Len(b) = Len(q) - k /\ \A i \in 1 .. Len(q) - k : b[i] = q[i + k]
      BY <2>1
    <3> HIDE DEF a, b
    <3>3. a \o b \in Seq(S)
      BY <3>1, <3>2, ConcatProperties
    <3>4. Len(a \o b) = Len(q) - 1
      <4>1. Len(a \o b) = Len(a) + Len(b)
        BY <3>1, <3>2, ConcatProperties
      <4>2. (k - 1) + (Len(q) - k) = Len(q) - 1
        BY <2>1
      <4> QED
        BY <3>1, <3>2, <4>1, <4>2
    <3>5. \A i \in 1 .. Len(q) - 1 : (a \o b)[i] = IF i < k THEN q[i] ELSE q[i + 1]
      BY <3>1, <3>2, ConcatProperties
    <3> QED
      BY <2>5, <3>3, <3>4, <3>5 DEF a, b
  <2> HIDE DEF r
  <2>10. \A i \in DOMAIN r : \E j \in DOMAIN q : j # k /\ r[i] = q[j] /\ j = IF i < k THEN i ELSE i + 1
    BY <2>1, <2>6
  <2>7. IsInjective(r)
    <3>1. ASSUME NEW i \in DOMAIN r, NEW j \in DOMAIN r, r[i] = r[j]
          PROVE  i = j
      <4>1. i \in Nat /\ j \in Nat /\ k \in Nat
        BY <2>6, <2>1
      <4>2. (IF i < k THEN i ELSE i + 1) = (IF j < k THEN j ELSE j + 1)
        BY <2>10, <3>1 DEF IsInjective
      <4> QED
        BY <4>1, <4>2
    <3> QED
      BY <3>1 DEF IsInjective
  <2>8. \A u : In(r, u) => In(q, u) /\ u # t
    <3>1. ASSUME NEW i \in DOMAIN r
          PROVE  r[i] # t /\ \E j \in DOMAIN q : r[i] = q[j]
      <4>1. PICK j \in DOMAIN q : j # k /\ r[i] = q[j]
        BY <2>10
      <4> QED
        BY <2>1, <4>1 DEF IsInjective
    <3> QED
      BY <3>1 DEF In
  <2>9. q # << >> /\ Head(q) # t => r # << >> /\ Head(r) = Head(q)
    BY <2>1, <2>6
  <2> QED
    BY <2>6, <2>7, <2>8, <2>9 DEF r
<1> QED
  BY <1>1, <1>2

LEMMA Queueing ==
    ASSUME NEW s, IsQueue(s), NEW x
    PROVE  IsQueue(Append(s, x)) /\ Append(s, x) # << >>
<1>1. PICK S : s \in Seq(S)
  BY DEF IsQueue
<1>2. Append(s, x) \in Seq(S \cup {x}) /\ Append(s, x) # << >>
  BY <1>1
<1> QED
  BY <1>2 DEF IsQueue

LEMMA Dequeueing ==
    ASSUME NEW s, IsQueue(s), s # << >>
    PROVE  IsQueue(Tail(s))
BY DEF IsQueue

\* Steps ----------------------------------------------------------------------

Others(t) == \A u \in Tabs \ {t} : tab'[u] = tab[u]
Keeps(t) ==
    /\ \A u \in Tabs \ {t} : In(lockQ', u) => In(lockQ, u)
    /\ lockQ # << >> /\ Head(lockQ) # t => lockQ' # << >> /\ Head(lockQ') = Head(lockQ)
SameStakes ==
    \A u \in Tabs : /\ tab'[u].stake = tab[u].stake /\ tab'[u].worker = tab[u].worker
                    /\ tab'[u].teardowns = tab[u].teardowns /\ tab'[u].stage = tab[u].stage
                    /\ tab'[u].leaving = tab[u].leaving /\ tab'[u].old = tab[u].old
Survivor(w) == w \in DOMAIN workers /\ Live(w) /\ workers'[w].owner = workers[w].owner

LEMMA WorkerOfTab ==
    ASSUME Shape, NEW w \in DOMAIN workers
    PROVE  workers[w].owner \in Tabs /\ workers[w] = [owner |-> workers[w].owner, state |-> workers[w].state]
<1>1. workers \in Seq(WorkerRecords)
  BY DEF Shape
<1>2. workers[w] \in WorkerRecords
  BY <1>1
<1> QED
  BY <1>2 DEF WorkerRecords

LEMMA WorkersAfter ==
    ASSUME Shape, NEW v \in DOMAIN workers, NEW s \in WorkerStates
    PROVE  [workers EXCEPT ![v].state = s] \in Seq(WorkerRecords)
<1>1. workers \in Seq(WorkerRecords)
  BY DEF Shape
<1>2. workers[v] \in WorkerRecords
  BY <1>1
<1>3. [workers[v] EXCEPT !.state = s] \in WorkerRecords
  BY <1>2 DEF WorkerRecords
<1>4. [workers EXCEPT ![v].state = s] = [workers EXCEPT ![v] = [workers[v] EXCEPT !.state = s]]
  OBVIOUS
<1> QED
  BY <1>1, <1>3, <1>4

LEMMA TabsAfter ==
    ASSUME Shape, NEW t \in Tabs, NEW rec, DOMAIN rec = TabFields, IsQueue(rec.teardowns),
           tab' = [tab EXCEPT ![t] = rec]
    PROVE  /\ tab' = [u \in Tabs |-> tab'[u]] /\ tab'[t] = rec /\ Others(t)
           /\ \A u \in Tabs : DOMAIN tab'[u] = TabFields /\ IsQueue(tab'[u].teardowns)
BY DEF Shape, Others

\* A step of one tab: what the others lead, wait for or own is as it was.
LEMMA OneTabMoves ==
    ASSUME IInv, NEW t \in Tabs, Shape', Others(t), Keeps(t),
           (Queued(t) /\ Leaves(t) /\ Idle(t))',
           \A w \in DOMAIN workers' :
               Live(w)' => Owned(w)' \/ (Survivor(w) /\ workers[w].owner # t)
    PROVE  IInv'
<1>1. ASSUME NEW u \in Tabs PROVE (Queued(u) /\ Leaves(u) /\ Idle(u))'
  <2>1. CASE u = t
    BY <2>1
  <2>2. CASE u # t
    <3>1. tab'[u] = tab[u]
      BY <2>2 DEF Others
    <3>2. Queued(u) /\ Leaves(u) /\ Idle(u)
      BY DEF IInv
    <3>3. Queued(u)'
      BY <2>2, <3>1, <3>2 DEF Queued, Leads, Staked, Keeps
    <3> QED
      BY <3>1, <3>2, <3>3 DEF Leaves, Idle
  <2> QED
    BY <2>1, <2>2
<1>2. ASSUME NEW w \in DOMAIN workers', Live(w)' PROVE Owned(w)'
  <2>1. CASE Survivor(w) /\ workers[w].owner # t
    <3>1. Owned(w) /\ workers[w].owner \in Tabs
      BY <2>1, WorkerOfTab DEF IInv, Survivor
    <3>2. workers'[w].owner = workers[w].owner /\ tab'[workers[w].owner] = tab[workers[w].owner]
      BY <2>1, <3>1 DEF Survivor, Others
    <3> QED
      BY <3>1, <3>2 DEF Owned
  <2> QED
    BY <1>2, <2>1
<1> QED
  BY <1>1, <1>2 DEF IInv

\* A step that moves no stake and brings no Worker to life.
LEMMA NoTabMoves ==
    ASSUME IInv, Shape', SameStakes, lockQ' = lockQ,
           \A w \in DOMAIN workers' : Live(w)' => Survivor(w)
    PROVE  IInv'
<1>1. ASSUME NEW u \in Tabs PROVE (Queued(u) /\ Leaves(u) /\ Idle(u))'
  <2>1. Queued(u) /\ Leaves(u) /\ Idle(u)
    BY DEF IInv
  <2> QED
    BY <2>1 DEF SameStakes, Queued, Leads, Staked, Leaves, Idle
<1>2. ASSUME NEW w \in DOMAIN workers', Live(w)' PROVE Owned(w)'
  <2>1. Owned(w) /\ workers[w].owner \in Tabs /\ workers'[w].owner = workers[w].owner
    BY <1>2, WorkerOfTab DEF IInv, Survivor
  <2> QED
    BY <2>1 DEF Owned, SameStakes
<1> QED
  BY <1>1, <1>2 DEF IInv

LEMMA NothingMoves == ASSUME IInv, UNCHANGED <<tab, lockQ, workers>> PROVE IInv'
BY DEF IInv, Shape, Queued, Leads, Staked, Leaves, Idle, Live, Owned, In

LEMMA SWSteps ==
    ASSUME IInv,
           \/ \E r \in Requests : RequestOnStub(r)
           \/ FactoryTimeout \/ DuplicatePort \/ AcceptPort \/ SWReaped
           \/ \E r \in Requests, p \in DOMAIN ports, ok \in BOOLEAN : Reply(r, p, ok)
           \/ \E r \in Requests, p \in DOMAIN ports : Execute(r, p)
           \/ \E d \in Destroys : DestroySettled(d)
    PROVE  IInv'
<1>1. UNCHANGED <<tab, lockQ, workers>>
  BY DEF RequestOnStub, FactoryTimeout, DuplicatePort, AcceptPort, SWReaped, Reply, Execute,
         DestroySettled, tabVars
<1> QED
  BY <1>1, NothingMoves

\* Pages are asked for control ports, or send one.
LEMMA ControlSteps ==
    ASSUME IInv,
           \/ \E r \in Requests : RequestSolicits(r)
           \/ \E t \in Tabs : ControlPort(t)
           \/ \E d \in Destroys : DestroyCall(d)
    PROVE  IInv'
<1>1. UNCHANGED <<lockQ, workers>>
  BY DEF RequestSolicits, ControlPort, DestroyCall
<1>2. tab' = tab \/ tab' = Solicited \/ \E t \in Tabs : tab' = [tab EXCEPT ![t].ctl = @ - 1]
  BY DEF RequestSolicits, ControlPort, DestroyCall
<1>3. SameStakes /\ tab' = [t \in Tabs |-> tab'[t]] /\ \A t \in Tabs : DOMAIN tab'[t] = TabFields
  BY <1>2 DEF IInv, Shape, SameStakes, Solicited, TabFields
<1>4. Shape'
  BY <1>1, <1>3 DEF IInv, Shape, SameStakes
<1>5. \A w \in DOMAIN workers' : Live(w)' => Survivor(w)
  BY <1>1 DEF Live, Survivor
<1> QED
  BY <1>1, <1>3, <1>4, <1>5, NoTabMoves

\* A Worker opens, fails to, or its thread goes.
LEMMA WorkerSteps ==
    ASSUME IInv, NEW v \in DOMAIN workers, WorkerOpens(v) \/ WorkerOpenFails(v) \/ ThreadGone(v)
    PROVE  IInv'
<1>1. UNCHANGED <<tab, lockQ>>
  BY DEF WorkerOpens, WorkerOpenFails, ThreadGone, tabVars
<1>2. PICK s \in WorkerStates : /\ workers' = [workers EXCEPT ![v].state = s]
                                /\ s \in {"opening", "open", "failed"} => Live(v)
  BY DEF WorkerOpens, WorkerOpenFails, ThreadGone, WorkerStates, Live
<1>3. Shape
  BY DEF IInv
<1>4. workers' \in Seq(WorkerRecords)
  BY <1>2, <1>3, WorkersAfter
<1>5. Shape'
  BY <1>1, <1>3, <1>4 DEF Shape
<1>6. \A w \in DOMAIN workers' : Live(w)' => Survivor(w)
  BY <1>2, <1>3, WorkerOfTab DEF Live, Survivor
<1>7. SameStakes
  BY <1>1 DEF SameStakes
<1> QED
  BY <1>1, <1>5, <1>6, <1>7, NoTabMoves

\* deliver() by the head of the queue, which has no teardown under way.
LEMMA Delivers ==
    ASSUME IInv, NEW t \in Tabs, Deliver(t), lockQ' = lockQ,
           tab[t].stake # "none", lockQ # << >> /\ Head(lockQ) = t
    PROVE  IInv'
<1> DEFINE fresh == tab[t].worker = 0
           w0 == IF fresh THEN Len(workers) + 1 ELSE tab[t].worker
           rec == [tab[t] EXCEPT !.worker = w0, !.stake = "leader"]
<1>1. Shape /\ Queued(t) /\ Leaves(t) /\ Idle(t)
  BY DEF IInv
<1>2. /\ tab[t].teardowns = << >> /\ tab[t].stage = "none" /\ tab[t].leaving = "none"
      /\ DOMAIN tab[t] = TabFields /\ IsQueue(tab[t].teardowns)
  BY <1>1 DEF Leaves, Shape
<1>3. tab' = [tab EXCEPT ![t] = rec] /\ DOMAIN rec = TabFields /\ IsQueue(rec.teardowns)
  BY <1>2 DEF Deliver, TabFields
<1>4. /\ tab' = [u \in Tabs |-> tab'[u]] /\ tab'[t] = rec /\ Others(t)
      /\ \A u \in Tabs : DOMAIN tab'[u] = TabFields /\ IsQueue(tab'[u].teardowns)
  BY <1>1, <1>3, TabsAfter
<1>5. rec.stake = "leader" /\ rec.worker = w0 /\ rec.teardowns = << >> /\ rec.leaving = "none" /\ rec.stage = "none"
  BY <1>2 DEF TabFields
<1>6. /\ workers' \in Seq(WorkerRecords)
      /\ \A w \in DOMAIN workers' : w \in DOMAIN workers => workers'[w] = workers[w]
      /\ \A w \in DOMAIN workers' : w \notin DOMAIN workers => w = w0 /\ workers'[w].owner = t
  <2>1. workers \in Seq(WorkerRecords)
    BY <1>1 DEF Shape
  <2>2. CASE fresh
    <3>1. [owner |-> t, state |-> "opening"] \in WorkerRecords
      BY DEF WorkerRecords, WorkerStates
    <3>2. workers' = Append(workers, [owner |-> t, state |-> "opening"])
      BY <2>2 DEF Deliver
    <3> QED
      BY <2>1, <2>2, <3>1, <3>2, AppendProperties
  <2>3. CASE ~fresh
    BY <2>1, <2>3 DEF Deliver
  <2> QED
    BY <2>2, <2>3
<1> HIDE DEF rec
<1>7. Shape'
  BY <1>1, <1>4, <1>6 DEF Shape
<1>8. Keeps(t)
  BY DEF Keeps
<1>9. (Queued(t) /\ Leaves(t) /\ Idle(t))'
  BY <1>4, <1>5 DEF Queued, Leads, Staked, Leaves, Idle
<1>10. ASSUME NEW w \in DOMAIN workers', Live(w)'
       PROVE  Owned(w)' \/ (Survivor(w) /\ workers[w].owner # t)
  <2>1. CASE w \notin DOMAIN workers
    BY <1>4, <1>5, <1>6, <2>1 DEF Owned
  <2>2. CASE w \in DOMAIN workers /\ workers[w].owner # t
    BY <1>6, <1>10, <2>2 DEF Survivor, Live
  <2>3. CASE w \in DOMAIN workers /\ workers[w].owner = t
    <3>1. Live(w)
      BY <1>6, <1>10, <2>3 DEF Live
    <3>2. tab[t].worker = w
      BY <1>2, <2>3, <3>1 DEF IInv, Owned
    <3>3. w # 0
      BY <1>1, <2>3 DEF Shape
    <3> QED
      BY <1>4, <1>5, <1>6, <2>3, <3>2, <3>3 DEF Owned
  <2> QED
    BY <2>1, <2>2, <2>3
<1> QED
  BY <1>4, <1>7, <1>8, <1>9, <1>10, OneTabMoves

LEMMA OpenGraphStep == ASSUME IInv, NEW t \in Tabs, OpenGraph(t) PROVE IInv'
<1>1. Shape /\ Queued(t) /\ Leaves(t) /\ Idle(t)
  BY DEF IInv
<1>2. CASE tab[t].stake = "none"
  <2> DEFINE rec == [tab[t] EXCEPT !.stake = "queued"]
  <2>1. tab[t].teardowns = << >> /\ tab[t].stage = "none" /\ tab[t].leaving = "none" /\ ~In(lockQ, t)
    BY <1>1, <1>2 DEF OpenGraph, Leaves, Queued, Staked
  <2>2. DOMAIN rec = TabFields /\ IsQueue(rec.teardowns)
    BY <1>1 DEF Shape, TabFields
  <2>3. /\ tab' = [u \in Tabs |-> tab'[u]] /\ tab'[t] = rec /\ Others(t)
        /\ \A u \in Tabs : DOMAIN tab'[u] = TabFields /\ IsQueue(tab'[u].teardowns)
    <3>1. tab' = [tab EXCEPT ![t] = rec]
      BY <1>2 DEF OpenGraph
    <3> QED
      BY <1>1, <2>2, <3>1, TabsAfter
  <2>4. rec.stake = "queued" /\ rec.worker = 0 /\ rec.teardowns = << >> /\ rec.leaving = "none" /\ rec.stage = "none"
    BY <1>1, <1>2, <2>1 DEF Shape, TabFields, Idle
  <2> HIDE DEF rec
  <2>5. lockQ' = Append(lockQ, t) /\ workers' = workers
    BY <1>2 DEF OpenGraph
  <2>6. lockQ' \in Seq(Tabs) /\ IsInjective(lockQ')
    BY <1>1, <2>1, <2>5, AppendProperties DEF Shape, IsInjective, In
  <2>7. Shape'
    BY <1>1, <2>3, <2>5, <2>6 DEF Shape
  <2>8. Keeps(t)
    BY <1>1, <2>5 DEF Keeps, In, Shape
  <2>9. (Queued(t) /\ Leaves(t) /\ Idle(t))'
    BY <2>3, <2>4 DEF Queued, Leads, Staked, Leaves, Idle
  <2>10. \A w \in DOMAIN workers' : Live(w)' => Survivor(w) /\ workers[w].owner # t
    BY <1>2, <2>1, <2>5 DEF IInv, Owned, Survivor, Live
  <2> QED
    BY <2>3, <2>7, <2>8, <2>9, <2>10, OneTabMoves
<1>3. CASE tab[t].stake = "queued"
  BY <1>3, NothingMoves DEF OpenGraph
<1>4. CASE tab[t].stake = "leader"
  <2>1. lockQ # << >> /\ Head(lockQ) = t
    BY <1>1, <1>4 DEF Queued, Leads
  <2> QED
    BY <1>4, <2>1, Delivers DEF OpenGraph
<1> QED
  BY <1>2, <1>3, <1>4 DEF OpenGraph

LEMMA LockGrantedStep == ASSUME IInv, NEW t \in Tabs, LockGranted(t) PROVE IInv'
BY Delivers DEF LockGranted

\* What a tab's step does to its own record, in the form the lemmas below share: the stake is
\* given up or is none, nothing it owned stays alive unless it is being closed.
LEMMA Released ==
    ASSUME IInv, NEW t \in Tabs, NEW rec, DOMAIN rec = TabFields, IsQueue(rec.teardowns),
           tab' = [tab EXCEPT ![t] = rec],
           rec.stake = "none", rec.worker = 0,
           rec.leaving # "none" => rec.stage # "none",
           rec.stage # "none" => rec.teardowns # << >>,
           lockQ' \in Seq(Tabs), IsInjective(lockQ'), Keeps(t),
           rec.leaving = "leader" => lockQ' # << >> /\ Head(lockQ') = t,
           In(lockQ', t) => rec.leaving # "none",
           workers' \in Seq(WorkerRecords),
           \A w \in DOMAIN workers' : Live(w)' => /\ Survivor(w)
                                                  /\ \/ workers[w].owner # t
                                                     \/ rec.leaving = "leader" /\ rec.stage = "closing" /\ rec.old = w
    PROVE  IInv'
<1>1. /\ tab' = [u \in Tabs |-> tab'[u]] /\ tab'[t] = rec /\ Others(t)
      /\ \A u \in Tabs : DOMAIN tab'[u] = TabFields /\ IsQueue(tab'[u].teardowns)
  BY TabsAfter DEF IInv
<1>2. Shape'
  BY <1>1 DEF Shape
<1>3. (Queued(t) /\ Leaves(t) /\ Idle(t))'
  BY <1>1 DEF Queued, Leads, Staked, Leaves, Idle
<1>4. ASSUME NEW w \in DOMAIN workers', Live(w)'
      PROVE  Owned(w)' \/ (Survivor(w) /\ workers[w].owner # t)
  BY <1>1, <1>4 DEF Owned, Survivor
<1> QED
  BY <1>1, <1>2, <1>3, <1>4, OneTabMoves

LEMMA LockGrantedStaleStep == ASSUME IInv, NEW t \in Tabs, LockGrantedStale(t) PROVE IInv'
<1> DEFINE rec == [tab[t] EXCEPT !.leaving = "none"]
<1>1. Shape /\ Queued(t) /\ Leaves(t) /\ Idle(t)
  BY DEF IInv
<1>2. /\ tab[t].stage # "none" /\ tab[t].teardowns # << >> /\ tab[t].stake = "none"
      /\ lockQ # << >> /\ Head(lockQ) = t /\ tab[t].leaving = "queued"
  BY <1>1 DEF LockGrantedStale, Leaves
<1>3. /\ DOMAIN rec = TabFields /\ IsQueue(rec.teardowns) /\ rec.stake = "none" /\ rec.worker = 0
      /\ rec.leaving = "none" /\ rec.teardowns # << >>
  BY <1>1, <1>2 DEF Shape, TabFields, Idle
<1>4. tab' = [tab EXCEPT ![t] = rec] /\ lockQ' = Tail(lockQ) /\ workers' = workers
  BY DEF LockGrantedStale
<1> HIDE DEF rec
<1>5. lockQ' \in Seq(Tabs) /\ IsInjective(lockQ') /\ ~In(lockQ', t) /\ Keeps(t)
  BY <1>1, <1>2, <1>4, HeadTailProperties DEF Shape, IsInjective, In, Keeps
<1>6. workers' \in Seq(WorkerRecords)
  BY <1>1, <1>4 DEF Shape
<1>7. \A w \in DOMAIN workers' : Live(w)' => Survivor(w) /\ workers[w].owner # t
  BY <1>2, <1>4 DEF IInv, Owned, Survivor, Live
<1> QED
  BY <1>3, <1>4, <1>5, <1>6, <1>7, Released

LEMMA DestroyGraphStep == ASSUME IInv, NEW t \in Tabs, DestroyGraph(t) PROVE IInv'
<1>1. PICK i \in DOMAIN inbox[t] :
          LET queued == [tab[t] EXCEPT !.teardowns = Append(@, inbox[t][i].d)]
          IN  tab' = [tab EXCEPT ![t] = IF tab[t].teardowns = << >> THEN Started(queued) ELSE queued]
  BY DEF DestroyGraph
<1> DEFINE queued == [tab[t] EXCEPT !.teardowns = Append(@, inbox[t][i].d)]
           rec == IF tab[t].teardowns = << >> THEN Started(queued) ELSE queued
<1>2. Shape /\ Queued(t) /\ Leaves(t) /\ Idle(t)
  BY DEF IInv
<1>3. /\ DOMAIN queued = TabFields /\ IsQueue(queued.teardowns) /\ queued.teardowns # << >>
      /\ queued.stake = tab[t].stake /\ queued.worker = tab[t].worker /\ queued.leaving = tab[t].leaving
      /\ queued.stage = tab[t].stage /\ queued.old = tab[t].old
  BY <1>2, Queueing DEF Shape, TabFields
<1>4. tab' = [tab EXCEPT ![t] = rec] /\ lockQ' = lockQ /\ workers' = workers
  BY <1>1 DEF DestroyGraph
<1>5. /\ DOMAIN rec = TabFields /\ IsQueue(rec.teardowns) /\ rec.teardowns # << >>
      /\ rec.stake = "none" /\ rec.worker = 0 /\ (rec.leaving # "none" => rec.stage # "none")
  <2>1. CASE tab[t].teardowns = << >>
    BY <1>3, <2>1 DEF Started, TabFields
  <2>2. CASE tab[t].teardowns # << >>
    BY <1>2, <1>3, <2>2 DEF Leaves, Idle
  <2> QED
    BY <2>1, <2>2
<1>6. rec.leaving # "none" <=> Staked(t)
  <2>1. CASE tab[t].teardowns = << >>
    BY <1>2, <1>3, <2>1 DEF Started, TabFields, Leaves, Staked
  <2>2. CASE tab[t].teardowns # << >>
    BY <1>2, <1>3, <2>2 DEF Leaves, Staked
  <2> QED
    BY <2>1, <2>2
<1>7. rec.leaving = "leader" <=> Leads(t)
  <2>1. CASE tab[t].teardowns = << >>
    BY <1>2, <1>3, <2>1 DEF Started, TabFields, Leaves, Leads
  <2>2. CASE tab[t].teardowns # << >>
    BY <1>2, <1>3, <2>2 DEF Leaves, Leads
  <2> QED
    BY <2>1, <2>2
<1>8. ASSUME NEW w \in DOMAIN workers, Live(w), workers[w].owner = t
      PROVE  rec.leaving = "leader" /\ rec.stage = "closing" /\ rec.old = w
  <2>1. Owned(w) /\ w # 0
    BY <1>2, <1>8 DEF IInv, Shape
  <2>2. CASE tab[t].teardowns = << >>
    <3>1. tab[t].stake = "leader" /\ tab[t].worker = w
      BY <1>2, <1>8, <2>1, <2>2 DEF Leaves, Owned
    <3> QED
      BY <1>3, <2>1, <2>2, <3>1 DEF Started, TabFields
  <2>3. CASE tab[t].teardowns # << >>
    BY <1>2, <1>3, <1>8, <2>1, <2>3 DEF Leaves, Owned
  <2> QED
    BY <2>2, <2>3
<1> HIDE DEF queued, rec
<1>9. Keeps(t) /\ lockQ' \in Seq(Tabs) /\ IsInjective(lockQ') /\ workers' \in Seq(WorkerRecords)
  BY <1>2, <1>4 DEF Keeps, Shape
<1>10. /\ rec.leaving = "leader" => lockQ' # << >> /\ Head(lockQ') = t
       /\ In(lockQ', t) => rec.leaving # "none"
  BY <1>2, <1>4, <1>6, <1>7 DEF Queued
<1>11. \A w \in DOMAIN workers' : Live(w)' =>
           /\ Survivor(w)
           /\ \/ workers[w].owner # t
              \/ rec.leaving = "leader" /\ rec.stage = "closing" /\ rec.old = w
  BY <1>4, <1>8 DEF Live, Survivor
<1> QED
  BY <1>4, <1>5, <1>9, <1>10, <1>11, Released

LEMMA CloseStep == ASSUME IInv, NEW t \in Tabs, WorkerClosed(t) \/ CloseTimeout(t) PROVE IInv'
<1>1. Shape /\ Queued(t) /\ Leaves(t) /\ Idle(t)
  BY DEF IInv
<1>2. PICK s \in {"remove", "removeRetry"}, g \in {"killed", "gone"} :
          /\ tab[t].stage = "closing" /\ lockQ' = lockQ
          /\ tab' = [tab EXCEPT ![t].stage = s]
          /\ workers' = [workers EXCEPT ![tab[t].old].state = g]
  BY DEF WorkerClosed, CloseTimeout
<1> DEFINE rec == [tab[t] EXCEPT !.stage = s]
           v == tab[t].old
<1>3. tab[t].teardowns # << >> /\ tab[t].stake = "none"
  BY <1>1, <1>2 DEF Leaves
<1>4. /\ DOMAIN rec = TabFields /\ IsQueue(rec.teardowns) /\ rec.teardowns # << >>
      /\ rec.stake = "none" /\ rec.worker = 0 /\ rec.leaving = tab[t].leaving /\ rec.stage # "none"
  BY <1>1, <1>2, <1>3 DEF Shape, TabFields, Idle
<1>5. tab' = [tab EXCEPT ![t] = rec]
  BY <1>2
<1> HIDE DEF rec
<1>6. lockQ' \in Seq(Tabs) /\ IsInjective(lockQ') /\ Keeps(t)
  BY <1>1, <1>2 DEF Keeps, Shape
<1>7. /\ rec.leaving = "leader" => lockQ' # << >> /\ Head(lockQ') = t
      /\ In(lockQ', t) => rec.leaving # "none"
  BY <1>1, <1>2, <1>3, <1>4 DEF Queued, Leads, Staked
<1>8. workers' \in Seq(WorkerRecords)
  <2>1. CASE v \in DOMAIN workers
    BY <1>1, <1>2, <2>1, WorkersAfter DEF WorkerStates
  <2>2. CASE v \notin DOMAIN workers
    <3>1. workers \in Seq(WorkerRecords) /\ workers = [w \in DOMAIN workers |-> workers[w]]
      BY <1>1 DEF Shape
    <3>2. workers' = [w \in DOMAIN workers |-> workers[w]]
      BY <1>2, <2>2
    <3> QED
      BY <3>1, <3>2
  <2> QED
    BY <2>1, <2>2
<1>9. ASSUME NEW w \in DOMAIN workers', Live(w)'
      PROVE  Survivor(w) /\ workers[w].owner # t
  <2>1. w \in DOMAIN workers
    BY <1>2, <1>9
  <2>2. CASE w = v
    <3>1. workers'[w].state = g
      BY <1>1, <1>2, <2>1, <2>2, WorkerOfTab
    <3> QED
      BY <1>9, <3>1 DEF Live
  <2>3. CASE w # v
    <3>1. workers'[w] = workers[w]
      BY <1>2, <2>1, <2>3
    <3>2. Live(w)
      BY <1>9, <3>1 DEF Live
    <3>3. workers[w].owner # t
      BY <1>3, <2>1, <2>3, <3>2 DEF IInv, Owned
    <3> QED
      BY <2>1, <3>1, <3>2, <3>3 DEF Survivor
  <2> QED
    BY <2>2, <2>3
<1> QED
  BY <1>4, <1>5, <1>6, <1>7, <1>8, <1>9, Released

LEMMA RemoveStep == ASSUME IInv, NEW t \in Tabs, RemoveDirectory(t) \/ RemoveRefused(t) PROVE IInv'
<1>1. Shape /\ Queued(t) /\ Leaves(t) /\ Idle(t)
  BY DEF IInv
<1> DEFINE over == [tab[t] EXCEPT !.teardowns = Tail(@), !.stage = "none", !.leaving = "none", !.old = 0]
           rec == IF over.teardowns = << >> THEN over ELSE Started(over)
<1>2. /\ tab[t].stage \in {"remove", "removeRetry"} /\ workers' = workers
      /\ lockQ' = IF tab[t].leaving = "none" THEN lockQ ELSE RemoveFirst(lockQ, t)
      /\ tab' = [tab EXCEPT ![t] = rec]
  BY DEF RemoveDirectory, RemoveRefused, Finish
<1>3. tab[t].teardowns # << >> /\ tab[t].stake = "none" /\ tab[t].worker = 0
  BY <1>1, <1>2 DEF Leaves, Idle
<1>4. /\ DOMAIN over = TabFields /\ IsQueue(over.teardowns)
      /\ over.stake = "none" /\ over.worker = 0 /\ over.leaving = "none" /\ over.stage = "none"
  BY <1>1, <1>3, Dequeueing DEF Shape, TabFields
<1>5. /\ DOMAIN rec = TabFields /\ IsQueue(rec.teardowns)
      /\ rec.stake = "none" /\ rec.worker = 0 /\ rec.leaving = "none"
      /\ rec.stage # "none" => rec.teardowns # << >>
  <2>1. CASE over.teardowns = << >>
    BY <1>4, <2>1
  <2>2. CASE over.teardowns # << >>
    BY <1>4, <2>2 DEF Started, TabFields
  <2> QED
    BY <2>1, <2>2
<1> HIDE DEF over, rec
<1>6. lockQ' \in Seq(Tabs) /\ IsInjective(lockQ') /\ Keeps(t) /\ ~In(lockQ', t)
  <2>1. lockQ \in Seq(Tabs) /\ IsInjective(lockQ)
    BY <1>1 DEF Shape
  <2>2. CASE tab[t].leaving = "none"
    BY <1>1, <1>2, <1>3, <2>1, <2>2 DEF Queued, Staked, Keeps
  <2>3. CASE tab[t].leaving # "none"
    BY <1>2, <2>1, <2>3, Removed DEF Keeps
  <2> QED
    BY <2>2, <2>3
<1>7. workers' \in Seq(WorkerRecords)
  BY <1>1, <1>2 DEF Shape
<1>8. \A w \in DOMAIN workers' : Live(w)' => Survivor(w) /\ workers[w].owner # t
  BY <1>2, <1>3 DEF IInv, Owned, Survivor, Live
<1> QED
  BY <1>2, <1>5, <1>6, <1>7, <1>8, Released

LEMMA TabDiesStep == ASSUME IInv, NEW t \in Tabs, TabDies(t) PROVE IInv'
<1>1. Shape /\ Queued(t)
  BY DEF IInv
<1> DEFINE rec == [tab[t] EXCEPT !.alive = FALSE, !.ctl = 0, !.stake = "none", !.worker = 0,
                                 !.teardowns = << >>, !.stage = "none", !.leaving = "none", !.old = 0]
<1>2. /\ DOMAIN rec = TabFields /\ IsQueue(rec.teardowns) /\ rec.stake = "none" /\ rec.worker = 0
      /\ rec.leaving = "none" /\ rec.stage = "none"
  BY <1>1, EmptySeq DEF Shape, TabFields, IsQueue
<1>3. tab' = [tab EXCEPT ![t] = rec] /\ lockQ' = RemoveFirst(lockQ, t)
  BY DEF TabDies
<1> HIDE DEF rec
<1>4. lockQ' \in Seq(Tabs) /\ IsInjective(lockQ') /\ Keeps(t) /\ ~In(lockQ', t)
  <2>1. lockQ \in Seq(Tabs) /\ IsInjective(lockQ)
    BY <1>1 DEF Shape
  <2> QED
    BY <1>3, <2>1, Removed DEF Keeps
<1>5. ASSUME NEW w \in DOMAIN workers
      PROVE  /\ workers'[w] \in WorkerRecords /\ workers'[w].owner = workers[w].owner
             /\ Live(w)' => Live(w) /\ workers[w].owner # t
  <2>1. /\ workers[w].owner \in Tabs
        /\ workers[w] = [owner |-> workers[w].owner, state |-> workers[w].state]
        /\ workers[w].state \in WorkerStates
    <3>1. workers[w] \in WorkerRecords
      BY <1>1, <1>5 DEF Shape
    <3> QED
      BY <1>1, <3>1, WorkerOfTab DEF WorkerRecords
  <2>2. CASE workers[w].owner = t /\ Live(w)
    <3>1. PICK g \in {"orphan", "gone"} : workers'[w] = [workers[w] EXCEPT !.state = g]
      BY <1>5, <2>2 DEF TabDies
    <3>2. workers'[w].owner = workers[w].owner /\ workers'[w].state = g /\ workers'[w] \in WorkerRecords
      BY <2>1, <3>1 DEF WorkerRecords, WorkerStates
    <3> QED
      BY <3>2 DEF Live
  <2>3. CASE ~(workers[w].owner = t /\ Live(w))
    <3>1. workers'[w] = workers[w]
      BY <1>5, <2>3 DEF TabDies
    <3> QED
      BY <2>1, <2>3, <3>1 DEF Live, WorkerRecords
  <2> QED
    BY <2>2, <2>3
<1>6. DOMAIN workers' = DOMAIN workers
  BY DEF TabDies
<1>7. workers' \in Seq(WorkerRecords)
  <2>1. PICK n \in Nat : DOMAIN workers = 1 .. n
    BY <1>1 DEF Shape
  <2>2. workers' \in [1 .. n -> WorkerRecords]
    BY <1>5, <2>1 DEF TabDies
  <2> QED
    BY <2>2, SeqDef
<1>8. \A w \in DOMAIN workers' : Live(w)' => Survivor(w) /\ workers[w].owner # t
  BY <1>5, <1>6 DEF Survivor
<1> QED
  BY <1>2, <1>3, <1>4, <1>7, <1>8, Released

-----------------------------------------------------------------------------

LEMMA EdgeStepKeeps == ASSUME IInv, [Next]_vars PROVE IInv'
<1>1. CASE EdgeStep
  BY <1>1, SWSteps, ControlSteps DEF EdgeStep
<1>2. ASSUME NEW t \in Tabs, TabStep(t) PROVE IInv'
  BY <1>2, OpenGraphStep, LockGrantedStep, LockGrantedStaleStep, DestroyGraphStep, CloseStep, RemoveStep
     DEF TabStep
<1>3. ASSUME NEW w \in DOMAIN workers, WorkerStep(w) \/ ThreadGone(w) PROVE IInv'
  BY <1>3, WorkerSteps, SWSteps DEF WorkerStep
<1>4. CASE Environment
  BY <1>4, SWSteps, ControlSteps, TabDiesStep DEF Environment
<1>5. CASE UNCHANGED vars
  BY <1>5, NothingMoves DEF vars
<1> QED
  BY <1>1, <1>2, <1>3, <1>4, <1>5 DEF Next, System

LEMMA EdgeStarts == Init => IInv
<1> SUFFICES ASSUME Init PROVE IInv
  OBVIOUS
<1>1. lockQ = << >> /\ workers = << >>
  BY DEF Init
<1>2. PICK kind \in Kinds :
          tab = [t \in Tabs |-> [alive |-> TRUE, ctl |-> IF kind \in Warm THEN 0 ELSE 1, stake |-> "none",
                                 worker |-> 0, teardowns |-> << >>, stage |-> "none",
                                 leaving |-> "none", old |-> 0]]
  BY DEF Init
<1>3. Shape
  <2>1. lockQ \in Seq(Tabs) /\ IsInjective(lockQ) /\ workers \in Seq(WorkerRecords)
    BY <1>1, EmptySeq DEF IsInjective
  <2>2. IsQueue(<< >>)
    BY EmptySeq DEF IsQueue
  <2>3. tab = [t \in Tabs |-> tab[t]] /\ \A t \in Tabs : tab[t].teardowns = << >> /\ DOMAIN tab[t] = TabFields
    BY <1>2 DEF TabFields
  <2> QED
    BY <2>1, <2>2, <2>3 DEF Shape
<1>4. \A t \in Tabs : Queued(t) /\ Leaves(t) /\ Idle(t)
  BY <1>1, <1>2 DEF Queued, Leads, In, Leaves, Idle
<1> QED
  BY <1>1, <1>3, <1>4 DEF IInv

\* The owners of two live Workers both lead the queue, so they are one tab; a tab has one Worker
\* it leads with or closes.
LEMMA LeaderOwnsIt == IInv => OneLiveWorker
<1> SUFFICES ASSUME IInv, NEW v \in DOMAIN workers, NEW w \in DOMAIN workers, Live(v), Live(w)
             PROVE  v = w
  BY DEF OneLiveWorker
<1>1. Owned(v) /\ Owned(w) /\ workers[v].owner \in Tabs /\ workers[w].owner \in Tabs
  BY WorkerOfTab DEF IInv
<1>2. workers[v].owner = workers[w].owner
  BY <1>1 DEF IInv, Owned, Queued, Leads
<1> QED
  BY <1>1, <1>2 DEF IInv, Owned, Leaves

\* Whatever the tabs, requests and destroys, whoever dies and whenever the Service Worker is
\* reaped, no two Workers that may take the handles are alive at once: the leadership of
\* worker-factory.ts is exclusive from the grant of the lock to the end of the teardown.
THEOREM OneWorker == Spec => []OneLiveWorker
<1>1. Init => IInv
  BY EdgeStarts
<1>2. IInv /\ [Next]_vars => IInv'
  BY EdgeStepKeeps
<1>3. IInv => OneLiveWorker
  BY LeaderOwnsIt
<1> QED
  BY <1>1, <1>2, <1>3, PTL DEF Spec

\* Counting ---------------------------------------------------------------------

\* How often a message, or a destroy, is in a queue.
Places(s, x) == {i \in DOMAIN s : s[i] = x}
Count(s, x) == Cardinality(Places(s, x))

LEMMA CountNat ==
    ASSUME NEW S, NEW s \in Seq(S), NEW x
    PROVE  IsFiniteSet(Places(s, x)) /\ Count(s, x) \in Nat
<1>1. IsFiniteSet(1 .. Len(s))
  BY FS_Interval
<1>2. Places(s, x) \in SUBSET (1 .. Len(s))
  BY DEF Places
<1>3. IsFiniteSet(Places(s, x))
  BY <1>1, <1>2, FS_Subset
<1> QED
  BY <1>3, FS_CardinalityType DEF Count

LEMMA CountNone ==
    ASSUME NEW s, NEW x, \A i \in DOMAIN s : s[i] # x
    PROVE  Count(s, x) = 0
<1>1. Places(s, x) = {}
  BY DEF Places
<1> QED
  BY <1>1, FS_EmptySet DEF Count

\* Who is in a queue is counted there.
LEMMA CountSome ==
    ASSUME NEW S, NEW s \in Seq(S), NEW i \in 1 .. Len(s)
    PROVE  Count(s, s[i]) >= 1
<1>1. i \in Places(s, s[i])
  BY DEF Places
<1>2. IsFiniteSet(Places(s, s[i])) /\ Count(s, s[i]) \in Nat
  BY CountNat
<1>3. Count(s, s[i]) # 0
  BY <1>1, <1>2, FS_EmptySet DEF Count
<1> QED
  BY <1>2, <1>3

\* A queue whose places map one to one into a finite set counts no more than the set.
LEMMA CountInto ==
    ASSUME NEW s, NEW x, NEW T, IsFiniteSet(T), NEW f,
           f \in [Places(s, x) -> T],
           \A i, j \in Places(s, x) : f[i] = f[j] => i = j
    PROVE  Count(s, x) <= Cardinality(T)
<1>1. f \in Injection(Places(s, x), T)
  BY DEF Injection, IsInjective
<1> QED
  BY <1>1, FS_Injection DEF Count

LEMMA CountConcat ==
    ASSUME NEW S, NEW s \in Seq(S), NEW q \in Seq(S), NEW x
    PROVE  Count(s \o q, x) <= Count(s, x) + Count(q, x)
<1> DEFINE A == Places(s, x)
           C == {i \in Places(s \o q, x) : i > Len(s)}
           f == [i \in C |-> i - Len(s)]
<1>1. /\ s \o q \in Seq(S) /\ DOMAIN (s \o q) = 1 .. Len(s) + Len(q)
      /\ \A i \in 1 .. Len(s) + Len(q) : (s \o q)[i] = IF i <= Len(s) THEN s[i] ELSE q[i - Len(s)]
  BY ConcatProperties
<1>2. Places(s \o q, x) = A \cup C
  BY <1>1 DEF Places
<1>3. f \in Injection(C, Places(q, x))
  <2>1. \A i \in C : i \in Nat /\ i - Len(s) \in 1 .. Len(q) /\ q[i - Len(s)] = x
    BY <1>1 DEF Places
  <2>2. f \in [C -> Places(q, x)]
    BY <2>1 DEF Places
  <2>3. \A i, j \in C : i - Len(s) = j - Len(s) => i = j
    BY <2>1
  <2> QED
    BY <2>2, <2>3 DEF Injection, IsInjective
<1>4. /\ IsFiniteSet(A) /\ Cardinality(A) = Count(s, x) /\ Count(s, x) \in Nat
      /\ IsFiniteSet(Places(q, x)) /\ Count(q, x) \in Nat
  BY CountNat DEF Count
<1>5. IsFiniteSet(C) /\ Cardinality(C) <= Count(q, x)
  BY <1>3, <1>4, FS_Injection DEF Count
<1>6. Cardinality(C) \in Nat
  BY <1>5, FS_CardinalityType
<1>7. A \cap C = {}
  BY DEF Places
<1>8. Cardinality(A \cup C) = Cardinality(A) + Cardinality(C)
  <2> HIDE DEF A, C
  <2>1. Cardinality(A \cup C) = Cardinality(A) + Cardinality(C) - Cardinality(A \cap C)
    BY <1>4, <1>5, FS_Union
  <2>2. Cardinality(A \cap C) = 0
    BY <1>7, FS_EmptySet
  <2> QED
    BY <1>4, <1>6, <2>1, <2>2
<1> HIDE DEF A, C
<1> QED
  BY <1>2, <1>4, <1>5, <1>6, <1>8 DEF Count

LEMMA CountOne ==
    ASSUME NEW x, NEW y
    PROVE  Count(<<x>>, y) = IF x = y THEN 1 ELSE 0
<1>1. Places(<<x>>, y) = IF x = y THEN {1} ELSE {}
  BY DEF Places
<1> QED
  BY <1>1, FS_EmptySet, FS_Singleton DEF Count

LEMMA CountAppend ==
    ASSUME NEW S, NEW s \in Seq(S), NEW x \in S, NEW y
    PROVE  Count(Append(s, x), y) <= Count(s, y) + (IF x = y THEN 1 ELSE 0)
<1>1. Append(s, x) = s \o <<x>> /\ <<x>> \in Seq(S)
  BY AppendIsConcat
<1>2. Count(s \o <<x>>, y) <= Count(s, y) + Count(<<x>>, y)
  BY <1>1, CountConcat
<1> QED
  BY <1>1, <1>2, CountOne

\* What is taken out of a queue, wherever it stands, is counted once less.
LEMMA CountRemoveAt ==
    ASSUME NEW S, NEW s \in Seq(S), NEW k \in 1 .. Len(s), NEW x
    PROVE  /\ RemoveAt(s, k) \in Seq(S)
           /\ Count(RemoveAt(s, k), x) <= Count(s, x) - (IF s[k] = x THEN 1 ELSE 0)
           /\ \A i \in DOMAIN RemoveAt(s, k) : \E j \in 1 .. Len(s) : RemoveAt(s, k)[i] = s[j]
<1> DEFINE r == RemoveAt(s, k)
           a == SubSeq(s, 1, k - 1)
           b == SubSeq(s, k + 1, Len(s))
           at(i) == IF i < k THEN i ELSE i + 1
           T == Places(s, x) \ {k}
           f == [i \in Places(r, x) |-> at(i)]
<1>1. a \in Seq(S) /\ Len(a) = k - 1 /\ \A i \in 1 .. k - 1 : a[i] = s[i]
  OBVIOUS
<1>2. b \in Seq(S) /\ Len(b) = Len(s) - k /\ \A i \in 1 .. Len(s) - k : b[i] = s[i + k]
  OBVIOUS
<1>3. r = a \o b
  BY DEF RemoveAt
<1> HIDE DEF a, b, r
<1>4. r \in Seq(S) /\ Len(r) = Len(s) - 1
  <2>1. r \in Seq(S) /\ Len(r) = Len(a) + Len(b)
    BY <1>1, <1>2, <1>3, ConcatProperties
  <2>2. (k - 1) + (Len(s) - k) = Len(s) - 1
    OBVIOUS
  <2> QED
    BY <1>1, <1>2, <2>1, <2>2
<1>5. \A i \in 1 .. Len(s) - 1 : r[i] = s[at(i)] /\ at(i) \in 1 .. Len(s) /\ at(i) # k
  <2> SUFFICES ASSUME NEW i \in 1 .. Len(s) - 1
               PROVE  r[i] = s[at(i)] /\ at(i) \in 1 .. Len(s) /\ at(i) # k
    OBVIOUS
  <2>1. \A n \in 1 .. Len(a) + Len(b) : r[n] = IF n <= Len(a) THEN a[n] ELSE b[n - Len(a)]
    BY <1>1, <1>2, <1>3, ConcatProperties
  <2>2. Len(a) + Len(b) = Len(s) - 1
    BY <1>1, <1>2
  <2>3. CASE i < k
    BY <1>1, <2>1, <2>2, <2>3
  <2>4. CASE i >= k
    <3>1. r[i] = b[i - (k - 1)] /\ i - (k - 1) \in 1 .. Len(s) - k
      BY <1>1, <2>1, <2>2, <2>4
    <3>2. b[i - (k - 1)] = s[(i - (k - 1)) + k]
      BY <1>2, <3>1
    <3> QED
      BY <2>4, <3>1, <3>2
  <2> QED
    BY <2>3, <2>4
<1>6. f \in [Places(r, x) -> T]
  BY <1>4, <1>5 DEF Places
<1>7. \A i, j \in Places(r, x) : f[i] = f[j] => i = j
  <2>1. \A i \in Places(r, x) : i \in Nat /\ f[i] = at(i)
    BY <1>4 DEF Places
  <2> QED
    BY <2>1
<1>8. IsFiniteSet(T) /\ Cardinality(T) = Count(s, x) - (IF s[k] = x THEN 1 ELSE 0)
  <2>1. IsFiniteSet(Places(s, x)) /\ Count(s, x) \in Nat
    BY CountNat
  <2>2. k \in Places(s, x) <=> s[k] = x
    BY DEF Places
  <2> QED
    BY <2>1, <2>2, FS_RemoveElement DEF Count
<1> HIDE DEF f, T, at
<1>9. Count(r, x) <= Cardinality(T)
  BY <1>6, <1>7, <1>8, CountInto
<1>10. \A i \in DOMAIN r : \E j \in 1 .. Len(s) : r[i] = s[j]
  BY <1>4, <1>5
<1> QED
  BY <1>4, <1>8, <1>9, <1>10 DEF r

LEMMA CountTail ==
    ASSUME NEW S, NEW s \in Seq(S), s # << >>, NEW x
    PROVE  Count(Tail(s), x) <= Count(s, x) - (IF Head(s) = x THEN 1 ELSE 0)
<1> DEFINE T == Places(s, x) \ {1}
           f == [i \in Places(Tail(s), x) |-> i + 1]
<1>1. /\ Tail(s) \in Seq(S) /\ Len(Tail(s)) = Len(s) - 1
      /\ \A i \in 1 .. Len(s) - 1 : Tail(s)[i] = s[i + 1]
  BY HeadTailProperties
<1>2. f \in [Places(Tail(s), x) -> T]
  BY <1>1 DEF Places
<1>3. \A i, j \in Places(Tail(s), x) : f[i] = f[j] => i = j
  BY <1>1 DEF Places
<1>4. IsFiniteSet(T) /\ Cardinality(T) = Count(s, x) - (IF Head(s) = x THEN 1 ELSE 0)
  <2>1. IsFiniteSet(Places(s, x)) /\ Count(s, x) \in Nat
    BY CountNat
  <2>2. 1 \in Places(s, x) <=> Head(s) = x
    BY DEF Places
  <2> QED
    BY <2>1, <2>2, FS_RemoveElement DEF Count
<1> HIDE DEF f, T
<1> QED
  BY <1>2, <1>3, <1>4, CountInto

LEMMA CountTimes ==
    ASSUME NEW n \in Nat, NEW m, NEW x
    PROVE  Count(Times(n, m), x) <= IF m = x THEN n ELSE 0
<1>1. CASE m = x
  <2>1. Places(Times(n, m), x) \in SUBSET (1 .. n)
    BY DEF Places, Times
  <2>2. IsFiniteSet(1 .. n) /\ Cardinality(1 .. n) = n
    BY FS_Interval
  <2> QED
    BY <1>1, <2>1, <2>2, FS_Subset DEF Count
<1>2. CASE m # x
  <2>1. \A i \in DOMAIN Times(n, m) : Times(n, m)[i] # x
    BY <1>2 DEF Times
  <2> QED
    BY <1>2, <2>1, CountNone
<1> QED
  BY <1>1, <1>2

\* Whoever is in a queue without repetition is there once.
LEMMA CountDistinct ==
    ASSUME NEW s, NEW x, \A i, j \in DOMAIN s : s[i] = s[j] => i = j
    PROVE  Count(s, x) <= 1
<1> DEFINE f == [i \in Places(s, x) |-> x]
<1>1. f \in [Places(s, x) -> {x}] /\ \A i, j \in Places(s, x) : f[i] = f[j] => i = j
  BY DEF Places
<1>2. IsFiniteSet({x}) /\ Cardinality({x}) = 1
  BY FS_Singleton
<1> HIDE DEF f
<1>3. Count(s, x) <= Cardinality({x})
  BY <1>1, <1>2, CountInto
<1> QED
  BY <1>2, <1>3

\* What changes what -------------------------------------------------------------

TabMoves ==
    \/ \E t \in Tabs : \/ OpenGraph(t) \/ LockGranted(t) \/ LockGrantedStale(t) \/ DestroyGraph(t)
                       \/ WorkerClosed(t) \/ CloseTimeout(t) \/ RemoveDirectory(t) \/ RemoveRefused(t)
                       \/ TabDies(t)
EdgeMoves ==
    \/ \E t \in Tabs : ControlPort(t)
    \/ \E r \in Requests : RequestOnStub(r) \/ RequestSolicits(r)
    \/ \E d \in Destroys : DestroyCall(d) \/ DestroySettled(d)
    \/ \E r \in Requests, p \in DOMAIN ports, ok \in BOOLEAN : Reply(r, p, ok)
    \/ FactoryTimeout \/ DuplicatePort \/ AcceptPort \/ SWReaped
WorkerMoves ==
    \/ \E w \in DOMAIN workers : WorkerOpens(w) \/ WorkerOpenFails(w) \/ ThreadGone(w)
    \/ \E r \in Requests, p \in DOMAIN ports : Execute(r, p)

LEMMA Moves == ASSUME [Next]_vars PROVE TabMoves \/ EdgeMoves \/ WorkerMoves \/ UNCHANGED vars
BY DEF Next, System, Environment, EdgeStep, TabStep, WorkerStep, TabMoves, EdgeMoves, WorkerMoves

\* A tab's step leaves the Service Worker, its requests and the calls on their way alone.
LEMMA TabFrame ==
    ASSUME TabMoves
    PROVE  /\ UNCHANGED <<sw, req, destroys, disposed, mail, replies>>
           /\ faults' = faults \/ \E t \in Tabs : TabDies(t)
           /\ (dst' = dst /\ data' = data) \/ \E t \in Tabs : RemoveDirectory(t) \/ RemoveRefused(t)
BY DEF TabMoves, OpenGraph, LockGranted, LockGrantedStale, DestroyGraph, WorkerClosed, CloseTimeout,
       RemoveDirectory, RemoveRefused, TabDies, swVars, callVars, tabVars

\* A Worker's step changes its state, or executes a call.
LEMMA WorkerFrame ==
    ASSUME WorkerMoves
    PROVE  /\ UNCHANGED <<sw, req, dst, destroys, disposed, tab, inbox, lockQ, ports, posted, faults>>
           /\ mail' \subseteq mail /\ DOMAIN workers' = DOMAIN workers
BY DEF WorkerMoves, WorkerOpens, WorkerOpenFails, ThreadGone, Execute, swVars, callVars, tabVars

\* The Service Worker's steps reach the tabs through messages and solicitations alone.
LEMMA EdgeFrame ==
    ASSUME EdgeMoves
    PROVE  /\ UNCHANGED <<lockQ, workers, ports, data>>
           /\ \/ tab' = tab \/ tab' = Solicited
              \/ \E t \in Tabs : tab[t].alive /\ tab[t].ctl > 0 /\ tab' = [tab EXCEPT ![t].ctl = @ - 1]
           /\ faults' = faults \/ SWReaped
           /\ replies' \subseteq replies
<1>1. CASE \E t \in Tabs : ControlPort(t)
  BY <1>1 DEF ControlPort, callVars
<1>2. CASE \E r \in Requests : RequestOnStub(r) \/ RequestSolicits(r)
  BY <1>2 DEF RequestOnStub, RequestSolicits, tabVars, callVars
<1>3. CASE \E d \in Destroys : DestroyCall(d)
  BY <1>3 DEF DestroyCall, callVars
<1>4. CASE \E d \in Destroys : DestroySettled(d)
  BY <1>4 DEF DestroySettled, tabVars
<1>5. CASE \E r \in Requests, p \in DOMAIN ports, ok \in BOOLEAN : Reply(r, p, ok)
  BY <1>5 DEF Reply, tabVars
<1>6. CASE FactoryTimeout \/ DuplicatePort
  BY <1>6 DEF FactoryTimeout, DuplicatePort, callVars, tabVars
<1>7. CASE AcceptPort
  BY <1>7 DEF AcceptPort, callVars, tabVars
<1>8. CASE SWReaped
  BY <1>8 DEF SWReaped, callVars, tabVars
<1> QED
  BY <1>1, <1>2, <1>3, <1>4, <1>5, <1>6, <1>7, <1>8 DEF EdgeMoves

\* The types, and what they rest on ------------------------------------------------

ReqRecs == [pc : {"idle", "opening", "calling", "ok", "failed"}, port : Nat, tries : 0 .. 2,
            epoch : Nat, quiet : BOOLEAN]
DstRecs == [pc : {"idle", "factories", "asked", "ok", "failed"}, cur : Nat, waiting : [Tabs -> Nat],
            asked : BOOLEAN, won : BOOLEAN, before : SUBSET Requests, cut : SUBSET Requests]
TabRecs == [alive : BOOLEAN, ctl : Nat, stake : {"none", "queued", "leader"}, worker : Nat,
            teardowns : Seq(Destroys), stage : {"none", "closing", "remove", "removeRetry"},
            leaving : {"none", "queued", "leader"}, old : Nat]
SwRecs == [kind : Kinds, current : Nat, sessions : [Tabs -> Nat], soliciting : {"no", "factories", "port"}]
Messages == {OpenMsg} \cup {DestroyMsg(d) : d \in Destroys}

\* A request that waits for a stub was never sent; one that was is on a port there is.
Coherent(q) ==
    /\ q.pc \in {"idle", "opening"} => q.tries = 0
    /\ q.pc = "calling" => q.port \in DOMAIN ports /\ q.tries # 0
    /\ q.epoch <= destroys
SwTyped == sw \in SwRecs /\ sw.current \in DOMAIN ports \cup {0}
ReqTyped == destroys \in Nat /\ req \in [Requests -> ReqRecs] /\ \A r \in Requests : Coherent(req[r])
DstTyped == dst \in [Destroys -> DstRecs] /\ \A d \in Destroys : dst[d].cur \in DOMAIN ports \cup {0}
TabTyped == tab \in [Tabs -> TabRecs]
InboxTyped == inbox \in [Tabs -> Seq(Messages)]
PortsTyped ==
    /\ ports \in Seq(Nat) /\ \A p \in DOMAIN ports : ports[p] \in DOMAIN workers
    /\ posted \in Seq(DOMAIN ports)
MailTyped ==
    /\ mail \subseteq Requests \X (DOMAIN ports) /\ replies \subseteq Requests \X (DOMAIN ports) \X BOOLEAN
    /\ data \subseteq Requests /\ disposed \subseteq DOMAIN ports
FaultsTyped == faults \in [deaths : 0 .. MaxFaults[sw.kind], restarts : 0 .. MaxRestarts[sw.kind]]

\* What a tab leads with or closes is a Worker of its own; a dead tab does nothing.
Manages(t) ==
    /\ tab[t].worker # 0 => tab[t].worker \in DOMAIN workers /\ workers[tab[t].worker].owner = t
    /\ tab[t].old # 0 => tab[t].old \in DOMAIN workers /\ workers[tab[t].old].owner = t
    /\ tab[t].stage = "closing" => tab[t].old # 0
    /\ ~tab[t].alive => /\ tab[t].stake = "none" /\ tab[t].leaving = "none" /\ tab[t].stage = "none"
                        /\ tab[t].teardowns = << >>

\* A destroy waits for each message of its own a tab has not seen, and for each teardown.
Awaited(t, d) ==
    /\ Count(inbox[t], DestroyMsg(d)) + Count(tab[t].teardowns, d) <= dst[d].waiting[t]
    /\ dst[d].pc # "asked" => dst[d].waiting[t] = 0
Counted == \A t \in Tabs : \A d \in Destroys : Awaited(t, d)

TInv == /\ SwTyped /\ ReqTyped /\ DstTyped /\ TabTyped /\ InboxTyped /\ PortsTyped /\ MailTyped /\ FaultsTyped
        /\ \A t \in Tabs : Manages(t)
        /\ Counted

LEMMA MessageKinds ==
    /\ \A m \in Messages : /\ m.op = "open" => m = OpenMsg
                           /\ m.op = "destroy" => m.d \in Destroys /\ m = DestroyMsg(m.d)
                           /\ m.op \in {"open", "destroy"}
    /\ \A d \in Destroys : DestroyMsg(d) # OpenMsg /\ DestroyMsg(d) \in Messages /\ DestroyMsg(d).d = d
    /\ \A c, d \in Destroys : DestroyMsg(c) = DestroyMsg(d) => c = d
    /\ OpenMsg \in Messages
<1>1. \A d \in Destroys : DestroyMsg(d).op = "destroy" /\ DestroyMsg(d).d = d
  BY DEF DestroyMsg
<1>2. OpenMsg.op = "open"
  BY DEF OpenMsg
<1> QED
  BY <1>1, <1>2 DEF Messages

LEMMA TypesHold == ASSUME TInv, IInv PROVE TypeOK
<1>1. sw \in [kind : Kinds, current : Nat, sessions : [Tabs -> Nat], soliciting : {"no", "factories", "port"}]
  BY DEF TInv, SwTyped, SwRecs
<1>2. req \in [Requests -> [pc : {"idle", "opening", "calling", "ok", "failed"}, port : Nat,
                           tries : 0..2, epoch : Nat, quiet : BOOLEAN]] /\ destroys \in Nat
  BY DEF TInv, ReqTyped, ReqRecs
<1>3. dst \in [Destroys -> [pc : {"idle", "factories", "asked", "ok", "failed"}, cur : Nat,
                           waiting : [Tabs -> Nat], asked : BOOLEAN, won : BOOLEAN,
                           before : SUBSET Requests, cut : SUBSET Requests]]
  BY DEF TInv, DstTyped, DstRecs
<1>4. tab \in [Tabs -> [alive : BOOLEAN, ctl : Nat, stake : {"none", "queued", "leader"}, worker : Nat,
                       teardowns : Seq(Destroys), stage : {"none", "closing", "remove", "removeRetry"},
                       leaving : {"none", "queued", "leader"}, old : Nat]]
  BY DEF TInv, TabTyped, TabRecs
<1>5. inbox \in [Tabs -> Seq([op : {"open", "destroy"}, d : Destroys \cup {None}])]
  <2> DEFINE M == [op : {"open", "destroy"}, d : Destroys \cup {None}]
  <2>1. Messages \subseteq M
    BY DEF Messages, OpenMsg, DestroyMsg
  <2>2. inbox \in [Tabs -> Seq(Messages)]
    BY DEF TInv, InboxTyped
  <2>3. \A s \in Seq(Messages) : s \in Seq(M)
    BY <2>1, SeqMonotonic
  <2> HIDE DEF M
  <2>4. inbox \in [Tabs -> Seq(M)]
    BY <2>2, <2>3
  <2> QED
    BY <2>4 DEF M
<1>6. lockQ \in Seq(Tabs) /\ IsInjective(lockQ)
  BY DEF IInv, Shape
<1>7. workers \in Seq([owner : Tabs, state : {"opening", "open", "failed", "orphan", "killed", "gone"}])
  BY DEF IInv, Shape, WorkerRecords, WorkerStates
<1>8. ports \in Seq(Nat) /\ posted \in Seq(Nat)
  <2>1. ports \in Seq(Nat) /\ posted \in Seq(DOMAIN ports) /\ DOMAIN ports \subseteq Nat
    BY DEF TInv, PortsTyped
  <2> QED
    BY <2>1, SeqMonotonic
<1>9. /\ mail \subseteq Requests \X (DOMAIN ports) /\ replies \subseteq Requests \X (DOMAIN ports) \X BOOLEAN
      /\ data \subseteq Requests /\ disposed \subseteq DOMAIN ports
  BY DEF TInv, MailTyped
<1>10. faults \in [deaths : 0 .. MaxFaults[sw.kind], restarts : 0 .. MaxRestarts[sw.kind]]
  BY DEF TInv, FaultsTyped
<1> QED
  BY <1>1, <1>2, <1>3, <1>4, <1>5, <1>6, <1>7, <1>8, <1>9, <1>10 DEF TypeOK

\* Workers and ports are added and never taken away; a Worker's owner and a port's Worker stay.
Grown ==
    /\ \A w \in DOMAIN workers : w \in DOMAIN workers' /\ workers'[w].owner = workers[w].owner
    /\ \A p \in DOMAIN ports : p \in DOMAIN ports' /\ ports'[p] = ports[p]

\* deliver(): a port more, of the Worker led with or of a new one.
LedWith(t) == IF tab[t].worker = 0 THEN Len(workers) + 1 ELSE tab[t].worker
Leading(t) == [tab[t] EXCEPT !.worker = LedWith(t), !.stake = "leader"]

LEMMA Delivered ==
    ASSUME IInv, TInv, NEW t \in Tabs, Deliver(t)
    PROVE  /\ ports' \in Seq(Nat) /\ DOMAIN ports' = DOMAIN ports \cup {Len(ports) + 1}
           /\ \A p \in DOMAIN ports : ports'[p] = ports[p]
           /\ ports'[Len(ports) + 1] = LedWith(t)
           /\ LedWith(t) \in DOMAIN workers' /\ workers'[LedWith(t)].owner = t /\ LedWith(t) # 0
           /\ posted' = Append(posted, Len(ports) + 1) /\ posted' \in Seq(DOMAIN ports')
           /\ DOMAIN workers \subseteq DOMAIN workers' /\ DOMAIN workers' \subseteq DOMAIN workers \cup {LedWith(t)}
           /\ \A v \in DOMAIN workers : workers'[v] = workers[v]
           /\ LedWith(t) \notin DOMAIN workers => workers'[LedWith(t)] = [owner |-> t, state |-> "opening"]
           /\ tab' = [tab EXCEPT ![t] = Leading(t)]
<1>1. /\ workers \in Seq(WorkerRecords) /\ ports \in Seq(Nat) /\ posted \in Seq(DOMAIN ports) /\ Manages(t)
      /\ tab \in [Tabs -> TabRecs]
  BY DEF IInv, Shape, TInv, PortsTyped, TabTyped
<1>2. LedWith(t) \in Nat /\ LedWith(t) # 0
  BY <1>1 DEF TabRecs, LedWith
<1>3. /\ workers' = IF tab[t].worker = 0 THEN Append(workers, [owner |-> t, state |-> "opening"]) ELSE workers
      /\ ports' = Append(ports, LedWith(t)) /\ posted' = Append(posted, Len(ports) + 1)
      /\ tab' = [tab EXCEPT ![t].worker = LedWith(t), ![t].stake = "leader"]
  BY DEF Deliver, LedWith
<1>4. /\ ports' \in Seq(Nat) /\ Len(ports') = Len(ports) + 1 /\ ports'[Len(ports) + 1] = LedWith(t)
      /\ \A p \in 1 .. Len(ports) : ports'[p] = ports[p]
  BY <1>1, <1>2, <1>3, AppendProperties
<1>5. DOMAIN ports' = DOMAIN ports \cup {Len(ports) + 1}
  BY <1>1, <1>4
<1>6. posted' \in Seq(DOMAIN ports')
  <2>1. posted \in Seq(DOMAIN ports') /\ Len(ports) + 1 \in DOMAIN ports'
    BY <1>1, <1>5, SeqMonotonic
  <2> QED
    BY <1>3, <2>1, AppendProperties
<1>7. /\ LedWith(t) \in DOMAIN workers' /\ workers'[LedWith(t)].owner = t
      /\ DOMAIN workers \subseteq DOMAIN workers' /\ DOMAIN workers' \subseteq DOMAIN workers \cup {LedWith(t)}
      /\ \A v \in DOMAIN workers : workers'[v] = workers[v]
      /\ LedWith(t) \notin DOMAIN workers => workers'[LedWith(t)] = [owner |-> t, state |-> "opening"]
  <2>1. CASE tab[t].worker = 0
    <3>1. [owner |-> t, state |-> "opening"] \in WorkerRecords
      BY DEF WorkerRecords, WorkerStates
    <3> QED
      BY <1>1, <1>3, <2>1, <3>1, AppendProperties DEF LedWith
  <2>2. CASE tab[t].worker # 0
    BY <1>1, <1>3, <2>2 DEF Manages, LedWith
  <2> QED
    BY <2>1, <2>2
<1>8. tab' = [tab EXCEPT ![t] = Leading(t)]
  BY <1>1, <1>3, Zenon DEF Leading
<1>9. \A p \in DOMAIN ports : ports'[p] = ports[p]
  <2>1. DOMAIN ports = 1 .. Len(ports)
    BY <1>1, LenProperties
  <2> QED
    BY <1>4, <2>1
<1> QED
  BY <1>2, <1>3, <1>4, <1>5, <1>6, <1>7, <1>8, <1>9, Zenon

LEMMA Grows == ASSUME IInv, TInv, [Next]_vars PROVE Grown
<1>1. Shape
  BY DEF IInv
<1>2. CASE \E t \in Tabs : OpenGraph(t) \/ LockGranted(t)
  <2>1. PICK t \in Tabs : OpenGraph(t) \/ LockGranted(t)
    BY <1>2
  <2>2. UNCHANGED <<workers, ports>> \/ Deliver(t)
    BY <2>1 DEF OpenGraph, LockGranted
  <2> QED
    BY <2>2, Delivered DEF Grown
<1>3. CASE \E t \in Tabs : \/ LockGrantedStale(t) \/ DestroyGraph(t) \/ RemoveDirectory(t) \/ RemoveRefused(t)
  BY <1>3 DEF LockGrantedStale, DestroyGraph, RemoveDirectory, RemoveRefused, Grown
<1>4. CASE \E t \in Tabs : WorkerClosed(t) \/ CloseTimeout(t)
  <2>1. PICK t \in Tabs, g \in WorkerStates : /\ workers' = [workers EXCEPT ![tab[t].old].state = g] /\ ports' = ports
    BY <1>4 DEF WorkerClosed, CloseTimeout, WorkerStates
  <2>2. ASSUME NEW w \in DOMAIN workers PROVE workers'[w].owner = workers[w].owner
    BY <1>1, <2>1, WorkerOfTab
  <2> QED
    BY <2>1, <2>2 DEF Grown
<1>5. CASE \E t \in Tabs : TabDies(t)
  <2>1. PICK t \in Tabs : TabDies(t)
    BY <1>5
  <2>2. ASSUME NEW w \in DOMAIN workers PROVE workers'[w].owner = workers[w].owner
    BY <1>1, <2>1, WorkerOfTab DEF TabDies
  <2> QED
    BY <2>1, <2>2 DEF Grown, TabDies
<1>6. CASE EdgeMoves
  BY <1>6, EdgeFrame DEF Grown
<1>7. CASE WorkerMoves
  <2>1. CASE \E w \in DOMAIN workers : WorkerOpens(w) \/ WorkerOpenFails(w) \/ ThreadGone(w)
    <3>1. PICK v \in DOMAIN workers, g \in WorkerStates : /\ workers' = [workers EXCEPT ![v].state = g] /\ ports' = ports
      BY <2>1 DEF WorkerOpens, WorkerOpenFails, ThreadGone, WorkerStates
    <3>2. ASSUME NEW w \in DOMAIN workers PROVE workers'[w].owner = workers[w].owner
      BY <1>1, <3>1, WorkerOfTab
    <3> QED
      BY <3>1, <3>2 DEF Grown
  <2>2. CASE \E r \in Requests, p \in DOMAIN ports : Execute(r, p)
    BY <2>2 DEF Execute, Grown
  <2> QED
    BY <1>7, <2>1, <2>2 DEF WorkerMoves
<1>8. CASE UNCHANGED vars
  BY <1>8 DEF vars, Grown
<1> QED
  BY <1>2, <1>3, <1>4, <1>5, <1>6, <1>7, <1>8, Moves DEF TabMoves

\* The Service Worker's side --------------------------------------------------------

LEMMA PortsStay == ASSUME Grown PROVE DOMAIN ports \subseteq DOMAIN ports' /\ DOMAIN workers \subseteq DOMAIN workers'
BY DEF Grown

LEMMA HeadPosted ==
    ASSUME PortsTyped, posted # << >>
    PROVE  /\ Head(posted) \in DOMAIN ports /\ Head(posted) \in Nat /\ Head(posted) # 0
           /\ Tail(posted) \in Seq(DOMAIN ports)
<1>1. posted \in Seq(DOMAIN ports) /\ ports \in Seq(Nat)
  BY DEF PortsTyped
<1>2. Head(posted) \in DOMAIN ports /\ Tail(posted) \in Seq(DOMAIN ports)
  BY <1>1, HeadTailProperties
<1> QED
  BY <1>1, <1>2

LEMMA SwStep == ASSUME IInv, TInv, [Next]_vars, Grown PROVE SwTyped' /\ sw'.kind = sw.kind
<1>1. sw \in SwRecs /\ sw.current \in DOMAIN ports \cup {0} /\ PortsTyped
  BY DEF TInv, SwTyped
<1>2. DOMAIN ports \subseteq DOMAIN ports'
  BY PortsStay
<1>3. sw.sessions \in [Tabs -> Nat] /\ sw.kind \in Kinds
  BY <1>1 DEF SwRecs
<1>4. ASSUME sw' = sw PROVE SwTyped' /\ sw'.kind = sw.kind
  BY <1>1, <1>2, <1>4 DEF SwTyped
<1>5. ASSUME NEW s \in [Tabs -> Nat], NEW c \in DOMAIN ports \cup {0}, NEW so \in {"no", "factories", "port"},
             sw' = [sw EXCEPT !.current = c, !.sessions = s, !.soliciting = so]
      PROVE  SwTyped' /\ sw'.kind = sw.kind
  <2>1. ports \in Seq(Nat)
    BY <1>1 DEF PortsTyped
  <2>2. c \in Nat
    BY <2>1
  <2>3. sw' \in SwRecs /\ sw'.current = c /\ sw'.kind = sw.kind
    BY <1>1, <1>5, <2>2 DEF SwRecs
  <2> QED
    BY <1>2, <2>3 DEF SwTyped
<1>6. CASE \E t \in Tabs : ControlPort(t)
  <2>1. PICK t \in Tabs : ControlPort(t)
    BY <1>6
  <2> DEFINE s == [sw.sessions EXCEPT ![t] = @ + 1]
             so == IF sw.soliciting = "factories" THEN "port" ELSE sw.soliciting
  <2>2. s \in [Tabs -> Nat] /\ so \in {"no", "factories", "port"}
    BY <1>1, <1>3 DEF SwRecs
  <2>3. sw' = [sw EXCEPT !.sessions = s, !.soliciting = so]
    BY <2>1, Zenon DEF ControlPort
  <2> HIDE DEF s, so
  <2>4. sw' = [sw EXCEPT !.current = sw.current, !.sessions = s, !.soliciting = so]
    BY <1>1, <2>3 DEF SwRecs
  <2> QED
    BY <1>1, <1>5, <2>2, <2>4
<1>7. CASE \E r \in Requests : RequestOnStub(r) \/ RequestSolicits(r)
  <2>1. sw' = sw \/ \E so \in {"factories", "port"} : sw' = [sw EXCEPT !.soliciting = so]
    BY <1>7 DEF RequestOnStub, RequestSolicits
  <2>2. ASSUME NEW so \in {"factories", "port"}, sw' = [sw EXCEPT !.soliciting = so]
        PROVE  SwTyped' /\ sw'.kind = sw.kind
    <3>1. sw' = [sw EXCEPT !.current = sw.current, !.sessions = sw.sessions, !.soliciting = so]
      BY <1>1, <2>2 DEF SwRecs
    <3> QED
      BY <1>1, <1>3, <1>5, <3>1
  <2> QED
    BY <1>4, <2>1, <2>2
<1>8. CASE FactoryTimeout \/ DuplicatePort
  <2>1. PICK so \in {"no", "factories", "port"} : sw' = sw \/ sw' = [sw EXCEPT !.soliciting = so]
    BY <1>1, <1>8 DEF FactoryTimeout, DuplicatePort, SwRecs
  <2>2. sw' = sw \/ sw' = [sw EXCEPT !.current = sw.current, !.sessions = sw.sessions, !.soliciting = so]
    BY <1>1, <2>1 DEF SwRecs
  <2> QED
    BY <1>1, <1>3, <1>4, <1>5, <2>2
<1>9. CASE AcceptPort
  <2>1. Head(posted) \in DOMAIN ports
    BY <1>1, <1>9, HeadPosted DEF AcceptPort
  <2>2. PICK so \in {"no", "factories", "port"} : sw' = [sw EXCEPT !.current = Head(posted), !.soliciting = so]
    BY <1>1, <1>9 DEF AcceptPort, SwRecs
  <2>3. sw' = [sw EXCEPT !.current = Head(posted), !.sessions = sw.sessions, !.soliciting = so]
    BY <1>1, <2>2 DEF SwRecs
  <2> QED
    BY <1>3, <1>5, <2>1, <2>3
<1>10. CASE \E d \in Destroys : DestroyCall(d) \/ DestroySettled(d)
  <2>1. sw' = sw \/ sw' = [sw EXCEPT !.current = 0]
    BY <1>10 DEF DestroyCall, DestroySettled
  <2>2. sw' = sw \/ sw' = [sw EXCEPT !.current = 0, !.sessions = sw.sessions, !.soliciting = sw.soliciting]
    BY <1>1, <2>1 DEF SwRecs
  <2>3. sw.soliciting \in {"no", "factories", "port"}
    BY <1>1 DEF SwRecs
  <2> QED
    BY <1>3, <1>4, <1>5, <2>2, <2>3
<1>11. CASE \E r \in Requests, p \in DOMAIN ports, ok \in BOOLEAN : Reply(r, p, ok)
  BY <1>4, <1>11 DEF Reply
<1>12. CASE SWReaped
  BY <1>5, <1>12 DEF SWReaped
<1>13. CASE TabMoves
  BY <1>4, <1>13, TabFrame
<1>14. CASE WorkerMoves
  BY <1>4, <1>14, WorkerFrame
<1>15. CASE UNCHANGED vars
  BY <1>4, <1>15 DEF vars
<1> QED
  BY <1>6, <1>7, <1>8, <1>9, <1>10, <1>11, <1>12, <1>13, <1>14, <1>15, Moves DEF EdgeMoves

LEMMA PortsStep == ASSUME IInv, TInv, [Next]_vars, Grown PROVE PortsTyped'
<1>1. PortsTyped
  BY DEF TInv
<1>2. CASE \E t \in Tabs : OpenGraph(t) \/ LockGranted(t)
  <2>1. PICK t \in Tabs : OpenGraph(t) \/ LockGranted(t)
    BY <1>2
  <2>2. CASE UNCHANGED <<workers, ports, posted>>
    BY <1>1, <2>2 DEF PortsTyped
  <2>3. CASE Deliver(t)
    <3>1. /\ ports' \in Seq(Nat) /\ DOMAIN ports' = DOMAIN ports \cup {Len(ports) + 1}
          /\ \A p \in DOMAIN ports : ports'[p] = ports[p]
          /\ ports'[Len(ports) + 1] = LedWith(t) /\ LedWith(t) \in DOMAIN workers'
          /\ posted' \in Seq(DOMAIN ports')
      BY <2>3, Delivered
    <3>2. \A p \in DOMAIN ports' : ports'[p] \in DOMAIN workers'
      BY <1>1, <3>1 DEF PortsTyped, Grown
    <3> QED
      BY <3>1, <3>2 DEF PortsTyped
  <2> QED
    BY <2>1, <2>2, <2>3 DEF OpenGraph, LockGranted
<1>3. ASSUME ports' = ports, posted' \in Seq(DOMAIN ports) PROVE PortsTyped'
  BY <1>1, <1>3 DEF PortsTyped, Grown
<1>4. CASE EdgeMoves
  <2>1. ports' = ports
    BY <1>4, EdgeFrame
  <2>2. posted' = posted \/ (posted # << >> /\ posted' = Tail(posted))
    BY <1>4 DEF EdgeMoves, ControlPort, RequestOnStub, RequestSolicits, DestroyCall, DestroySettled, FactoryTimeout,
                DuplicatePort, AcceptPort, SWReaped, Reply
  <2>3. posted' \in Seq(DOMAIN ports)
    BY <1>1, <2>2, HeadPosted DEF PortsTyped
  <2> QED
    BY <1>3, <2>1, <2>3
<1>5. CASE WorkerMoves
  BY <1>1, <1>3, <1>5, WorkerFrame DEF PortsTyped
<1>6. CASE \E t \in Tabs : \/ LockGrantedStale(t) \/ DestroyGraph(t) \/ WorkerClosed(t) \/ CloseTimeout(t)
                           \/ RemoveDirectory(t) \/ RemoveRefused(t) \/ TabDies(t)
  <2>1. ports' = ports /\ posted' = posted
    BY <1>6 DEF LockGrantedStale, DestroyGraph, WorkerClosed, CloseTimeout, RemoveDirectory, RemoveRefused, TabDies
  <2> QED
    BY <1>1, <1>3, <2>1 DEF PortsTyped
<1>7. CASE UNCHANGED vars
  BY <1>1, <1>3, <1>7 DEF PortsTyped, vars
<1> QED
  BY <1>2, <1>4, <1>5, <1>6, <1>7, Moves DEF TabMoves

LEMMA FaultsStep == ASSUME IInv, TInv, [Next]_vars, sw'.kind = sw.kind PROVE FaultsTyped'
<1>1. faults \in [deaths : 0 .. MaxFaults[sw.kind], restarts : 0 .. MaxRestarts[sw.kind]] /\ sw.kind \in Kinds
  BY DEF TInv, FaultsTyped, SwTyped, SwRecs
<1>2. MaxFaults[sw.kind] \in Nat /\ MaxRestarts[sw.kind] \in Nat
  BY <1>1, EdgeAssumption
<1>3. faults' = faults \/ SWReaped \/ \E t \in Tabs : TabDies(t)
  BY Moves, TabFrame, EdgeFrame, WorkerFrame DEF vars
<1>4. CASE faults' = faults
  BY <1>1, <1>4 DEF FaultsTyped
<1>5. CASE SWReaped
  BY <1>1, <1>2, <1>5 DEF FaultsTyped, SWReaped
<1>6. CASE \E t \in Tabs : TabDies(t)
  BY <1>1, <1>2, <1>6 DEF FaultsTyped, TabDies
<1> QED
  BY <1>3, <1>4, <1>5, <1>6

\* What a step makes of a request -----------------------------------------------------

Kept(r) == req'[r].epoch = req[r].epoch /\ req'[r].quiet = req[r].quiet
Ends(r, pc) == Kept(r) /\ req'[r].pc = pc
Calls(r, p, n) == Kept(r) /\ req'[r].pc = "calling" /\ req'[r].port = p /\ req'[r].tries = n
Retries(r, fresh) ==
    /\ req[r].tries = 1 /\ req[r].epoch = destroys /\ fresh \notin {0, req[r].port}
    /\ Calls(r, fresh, 2)
Rejected(r, fresh) == Retries(r, fresh) \/ Ends(r, "failed")

Begins(r) == RequestOnStub(r) \/ RequestSolicits(r)
Beginning(r) ==
    /\ Begins(r) /\ req[r].pc = "idle"
    /\ req'[r].epoch = destroys /\ (req'[r].quiet <=> \A d \in Destroys : ~Destroying(d))
    /\ \/ req'[r].pc = "opening" /\ req'[r].tries = 0
       \/ RequestOnStub(r) /\ sw.current # 0 /\ req'[r].pc = "calling" /\ req'[r].port = sw.current /\ req'[r].tries = 1
Waiting(r) ==
    /\ req[r].pc = "opening"
    /\ \/ FactoryTimeout /\ Ends(r, "failed")
       \/ AcceptPort /\ sw.soliciting = "port" /\ Calls(r, Head(posted), 1)
Settling(r) ==
    /\ req[r].pc = "calling"
    /\ \/ AcceptPort /\ sw.current # 0 /\ req[r].port = sw.current /\ Rejected(r, Head(posted))
       \/ \E d \in Destroys : DestroySettled(d) /\ dst[d].cur # 0 /\ req[r].port = dst[d].cur /\ Rejected(r, sw.current)
       \/ Reply(r, req[r].port, TRUE) /\ req[r].port \notin disposed /\ Ends(r, "ok")
       \/ Reply(r, req[r].port, FALSE) /\ req[r].port \notin disposed /\ Rejected(r, sw.current)

\* The calls of a stub that is disposed: each is retried on the new one, or has failed.
LEMMA RejectedCall ==
    ASSUME ReqTyped, NEW p, NEW fresh \in Nat, NEW r \in Requests
    PROVE  /\ AfterReject(p, fresh)[r] \in ReqRecs
           /\ r \notin Cut(p) => AfterReject(p, fresh)[r] = req[r]
           /\ r \in Retried(p, fresh) =>
                 /\ r \in Cut(p) /\ req[r].tries = 1 /\ req[r].epoch = destroys /\ fresh \notin {0, req[r].port}
                 /\ AfterReject(p, fresh)[r].pc = "calling" /\ AfterReject(p, fresh)[r].port = fresh
                 /\ AfterReject(p, fresh)[r].tries = 2
           /\ r \in Cut(p) \ Retried(p, fresh) => AfterReject(p, fresh)[r].pc = "failed"
           /\ AfterReject(p, fresh)[r].epoch = req[r].epoch /\ AfterReject(p, fresh)[r].quiet = req[r].quiet
<1>0. PICK two \in 0 .. 2 : two = 2
  OBVIOUS
<1> DEFINE x == [req[r] EXCEPT !.port = fresh, !.tries = two]
           y == [req[r] EXCEPT !.pc = "failed"]
<1>1. req[r] \in ReqRecs
  BY DEF ReqTyped
<1>2. /\ x \in ReqRecs /\ x.pc = req[r].pc /\ x.port = fresh /\ x.tries = two
      /\ x.epoch = req[r].epoch /\ x.quiet = req[r].quiet
  BY <1>1 DEF ReqRecs
<1>3. y \in ReqRecs /\ y.pc = "failed" /\ y.epoch = req[r].epoch /\ y.quiet = req[r].quiet
  BY <1>1 DEF ReqRecs
<1>4. AfterReject(p, fresh)[r] = IF r \in Retried(p, fresh) THEN x ELSE IF r \in Cut(p) THEN y ELSE req[r]
  BY <1>0 DEF AfterReject
<1> HIDE DEF x, y
<1>5. r \in Retried(p, fresh) =>
        /\ r \in Cut(p) /\ req[r].tries = 1 /\ req[r].epoch = destroys /\ fresh \notin {0, req[r].port}
        /\ req[r].pc = "calling"
  BY DEF Retried, Cut
<1> QED
  BY <1>0, <1>1, <1>2, <1>3, <1>4, <1>5

LEMMA BeginsMoves ==
    ASSUME IInv, TInv, NEW c \in Requests, Begins(c), NEW r \in Requests
    PROVE  req'[r] \in ReqRecs /\ (req'[r] = req[r] \/ Beginning(r)) /\ DOMAIN req' = Requests
<1>1. req \in [Requests -> ReqRecs] /\ destroys \in Nat /\ sw.current \in Nat
  BY DEF TInv, ReqTyped, SwTyped, SwRecs
<1>2. req[r] \in ReqRecs /\ (req[r].pc \in {"idle", "opening"} => req[r].tries = 0)
  BY DEF TInv, ReqTyped, Coherent
<1> DEFINE calm == \A d \in Destroys : ~Destroying(d)
<1>6. calm \in BOOLEAN
  OBVIOUS
<1>0. PICK one \in 0 .. 2 : one = 1
  OBVIOUS
<1> DEFINE x == [req[c] EXCEPT !.pc = "calling", !.port = sw.current, !.tries = one, !.epoch = destroys,
                               !.quiet = calm]
           y == [req[c] EXCEPT !.pc = "opening", !.epoch = destroys, !.quiet = calm]
<1>3. CASE r # c
  BY <1>1, <1>2, <1>3 DEF Begins, RequestOnStub, RequestSolicits
<1>4. CASE r = c /\ RequestOnStub(c)
  <2>1. req' = [req EXCEPT ![c] = x]
    BY <1>0, <1>4 DEF RequestOnStub
  <2> HIDE DEF calm
  <2>2. /\ x \in ReqRecs /\ x.pc = "calling" /\ x.port = sw.current /\ x.tries = one /\ x.epoch = destroys
        /\ x.quiet = calm
    BY <1>1, <1>2, <1>4, <1>6 DEF ReqRecs
  <2> HIDE DEF x
  <2>3. req'[r] = x /\ DOMAIN req' = Requests
    BY <1>1, <1>4, <2>1
  <2>4. req[r].pc = "idle" /\ sw.current # 0
    BY <1>4 DEF RequestOnStub
  <2> QED
    BY <1>0, <1>4, <2>2, <2>3, <2>4 DEF Beginning, Begins, calm
<1>5. CASE r = c /\ RequestSolicits(c)
  <2>1. req' = [req EXCEPT ![c] = y]
    BY <1>0, <1>5 DEF RequestSolicits
  <2> HIDE DEF calm
  <2>2. /\ y \in ReqRecs /\ y.pc = "opening" /\ y.tries = req[c].tries /\ y.epoch = destroys
        /\ y.quiet = calm
    BY <1>1, <1>2, <1>5, <1>6 DEF ReqRecs
  <2> HIDE DEF y
  <2>3. req'[r] = y /\ DOMAIN req' = Requests
    BY <1>1, <1>5, <2>1
  <2>4. req[r].pc = "idle"
    BY <1>5 DEF RequestSolicits
  <2> QED
    BY <1>0, <1>2, <1>5, <2>2, <2>3, <2>4 DEF Beginning, Begins, calm
<1> QED
  BY <1>3, <1>4, <1>5 DEF Begins

\* Nobody answers the solicitation: what waits for it fails.
LEMMA TimeoutMoves ==
    ASSUME TInv, FactoryTimeout, NEW r \in Requests
    PROVE  req'[r] \in ReqRecs /\ (req'[r] = req[r] \/ Waiting(r)) /\ DOMAIN req' = Requests
<1>1. req[r] \in ReqRecs
  BY DEF TInv, ReqTyped
<1> DEFINE y == [req[r] EXCEPT !.pc = "failed"]
<1>2. y \in ReqRecs /\ y.pc = "failed" /\ y.epoch = req[r].epoch /\ y.quiet = req[r].quiet
  BY <1>1 DEF ReqRecs
<1>3. /\ req'[r] = IF req[r].pc = "opening" /\ sw.soliciting = "factories" THEN y ELSE req[r]
      /\ DOMAIN req' = Requests
  BY DEF FactoryTimeout
<1> HIDE DEF y
<1> QED
  BY <1>1, <1>2, <1>3 DEF Waiting, Ends, Kept

\* A port is installed: what waits for it is sent, what was on the stub before is rejected.
LEMMA AcceptMoves ==
    ASSUME TInv, AcceptPort, NEW r \in Requests
    PROVE  req'[r] \in ReqRecs /\ (req'[r] = req[r] \/ Waiting(r) \/ Settling(r)) /\ DOMAIN req' = Requests
<1>0. PICK one : one = req[r].tries + 1
  OBVIOUS
<1> DEFINE p == Head(posted)
           old == sw.current
           x == [req[r] EXCEPT !.pc = "calling", !.port = p, !.tries = one]
           z == AfterReject(old, p)
<1>1. /\ req[r] \in ReqRecs /\ ReqTyped
      /\ req[r].pc \in {"idle", "opening"} => req[r].tries = 0
  BY DEF TInv, ReqTyped, Coherent
<1>2. p \in Nat
  BY HeadPosted DEF TInv, AcceptPort
<1>3. /\ req'[r] = IF req[r].pc = "opening" /\ sw.soliciting = "port" THEN x
                   ELSE IF old = 0 THEN req[r] ELSE z[r]
      /\ DOMAIN req' = Requests
  BY <1>0 DEF AcceptPort
<1>4. CASE req[r].pc = "opening" /\ sw.soliciting = "port"
  <2>0. PICK two \in 0 .. 2 : two = 1 /\ one = two
    BY <1>0, <1>1, <1>4
  <2>1. /\ x \in ReqRecs /\ x.pc = "calling" /\ x.port = p /\ x.tries = two
        /\ x.epoch = req[r].epoch /\ x.quiet = req[r].quiet
    BY <1>1, <1>2, <1>4, <2>0 DEF ReqRecs
  <2> HIDE DEF x
  <2>2. req'[r] = x
    BY <1>3, <1>4
  <2> QED
    BY <1>3, <1>4, <2>0, <2>1, <2>2 DEF Waiting, Calls, Kept
<1>5. CASE ~(req[r].pc = "opening" /\ sw.soliciting = "port") /\ old # 0
  <2>1. /\ z[r] \in ReqRecs
        /\ r \notin Cut(old) => z[r] = req[r]
        /\ r \in Retried(old, p) =>
             /\ r \in Cut(old) /\ req[r].tries = 1 /\ req[r].epoch = destroys /\ p \notin {0, req[r].port}
             /\ z[r].pc = "calling" /\ z[r].port = p /\ z[r].tries = 2
        /\ r \in Cut(old) \ Retried(old, p) => z[r].pc = "failed"
        /\ z[r].epoch = req[r].epoch /\ z[r].quiet = req[r].quiet
    BY <1>1, <1>2, RejectedCall
  <2>2. req'[r] = z[r]
    BY <1>3, <1>5
  <2>3. r \in Cut(old) => req[r].pc = "calling" /\ req[r].port = old
    BY DEF Cut
  <2> HIDE DEF z
  <2> QED
    BY <1>3, <1>5, <2>1, <2>2, <2>3 DEF Settling, Rejected, Retries, Ends, Calls, Kept
<1> QED
  BY <1>1, <1>3, <1>4, <1>5

\* A destroy ends: what was on the stub it detached is rejected.
LEMMA SettledMoves ==
    ASSUME TInv, NEW d \in Destroys, DestroySettled(d), NEW r \in Requests
    PROVE  req'[r] \in ReqRecs /\ (req'[r] = req[r] \/ Settling(r)) /\ DOMAIN req' = Requests
<1> DEFINE old == dst[d].cur
           p == sw.current
           z == AfterReject(old, p)
<1>1. req \in [Requests -> ReqRecs] /\ req[r] \in ReqRecs /\ ReqTyped /\ p \in Nat
  BY DEF TInv, ReqTyped, SwTyped, SwRecs
<1>2. CASE old = 0
  <2>1. req' = req
    BY <1>2 DEF DestroySettled
  <2> QED
    BY <1>1, <2>1
<1>3. CASE old # 0
  <2>1. /\ z[r] \in ReqRecs
        /\ r \notin Cut(old) => z[r] = req[r]
        /\ r \in Retried(old, p) =>
             /\ r \in Cut(old) /\ req[r].tries = 1 /\ req[r].epoch = destroys /\ p \notin {0, req[r].port}
             /\ z[r].pc = "calling" /\ z[r].port = p /\ z[r].tries = 2
        /\ r \in Cut(old) \ Retried(old, p) => z[r].pc = "failed"
        /\ z[r].epoch = req[r].epoch /\ z[r].quiet = req[r].quiet
    BY <1>1, RejectedCall
  <2>2. req' = z
    BY <1>3 DEF DestroySettled
  <2>3. DOMAIN z = Requests
    BY DEF AfterReject
  <2>4. r \in Cut(old) => req[r].pc = "calling" /\ req[r].port = old
    BY DEF Cut
  <2> HIDE DEF z
  <2> QED
    BY <1>3, <2>1, <2>2, <2>3, <2>4 DEF Settling, Rejected, Retries, Ends, Calls, Kept
<1> QED
  BY <1>2, <1>3

\* An answer arrives: it is heard if its stub is not disposed and its call still waits for it.
LEMMA ReplyMoves ==
    ASSUME TInv, NEW c \in Requests, NEW p \in DOMAIN ports, NEW ok \in BOOLEAN, Reply(c, p, ok), NEW r \in Requests
    PROVE  req'[r] \in ReqRecs /\ (req'[r] = req[r] \/ Settling(r)) /\ DOMAIN req' = Requests
<1>0. PICK two \in 0 .. 2 : two = 2
  OBVIOUS
<1> DEFINE listening == p \notin disposed /\ c \in Cut(p)
           again == listening /\ ~ok /\ c \in Retried(p, sw.current)
           x == [req[c] EXCEPT !.pc = "ok"]
           y == [req[c] EXCEPT !.port = sw.current, !.tries = two]
           z == [req[c] EXCEPT !.pc = "failed"]
<1>1. req \in [Requests -> ReqRecs] /\ sw.current \in Nat
  BY DEF TInv, ReqTyped, SwTyped, SwRecs
<1>2. req[c] \in ReqRecs /\ req[r] \in ReqRecs
  BY <1>1
<1>3. req' = IF listening /\ ok THEN [req EXCEPT ![c] = x]
             ELSE IF again THEN [req EXCEPT ![c] = y]
             ELSE IF listening THEN [req EXCEPT ![c] = z]
             ELSE req
  <2>1. req' = IF listening /\ ok THEN [req EXCEPT ![c].pc = "ok"]
               ELSE IF again THEN [req EXCEPT ![c].port = sw.current, ![c].tries = 2]
               ELSE IF listening THEN [req EXCEPT ![c].pc = "failed"]
               ELSE req
    BY DEF Reply
  <2>2. [req EXCEPT ![c].pc = "ok"] = [req EXCEPT ![c] = x]
    BY <1>1, Zenon
  <2>3. [req EXCEPT ![c].port = sw.current, ![c].tries = two] = [req EXCEPT ![c] = y]
    BY <1>1, Zenon
  <2>4. [req EXCEPT ![c].pc = "failed"] = [req EXCEPT ![c] = z]
    BY <1>1, Zenon
  <2> HIDE DEF listening, again, x, y, z
  <2> QED
    BY <1>0, <2>1, <2>2, <2>3, <2>4
<1>4. x \in ReqRecs /\ x.pc = "ok" /\ x.epoch = req[c].epoch /\ x.quiet = req[c].quiet
  BY <1>2 DEF ReqRecs
<1>5. /\ y \in ReqRecs /\ y.pc = req[c].pc /\ y.port = sw.current /\ y.tries = two
      /\ y.epoch = req[c].epoch /\ y.quiet = req[c].quiet
  BY <1>1, <1>2 DEF ReqRecs
<1>6. z \in ReqRecs /\ z.pc = "failed" /\ z.epoch = req[c].epoch /\ z.quiet = req[c].quiet
  BY <1>2 DEF ReqRecs
<1>7. listening => p \notin disposed /\ req[c].pc = "calling" /\ req[c].port = p
  BY DEF Cut
<1>8. again => /\ ~ok /\ listening /\ req[c].tries = 1 /\ req[c].epoch = destroys
               /\ sw.current \notin {0, req[c].port}
  BY DEF Retried, Cut
<1> HIDE DEF listening, again, x, y, z
<1>9. DOMAIN req' = Requests /\ (r # c => req'[r] = req[r]) /\ (~listening => req'[r] = req[r])
  BY <1>1, <1>3, <1>8
<1>10. CASE r = c /\ listening
  <2>1. req'[r] = IF ok THEN x ELSE IF again THEN y ELSE z
    BY <1>1, <1>3, <1>8, <1>10
  <2>2. CASE ok
    <3>1. ok = TRUE
      BY <2>2
    <3>2. Reply(r, req[r].port, TRUE)
      BY <1>7, <1>10, <3>1
    <3> QED
      BY <1>4, <1>7, <1>9, <1>10, <2>1, <2>2, <3>2 DEF Settling, Ends, Kept
  <2>3. CASE ~ok
    <3>1. ok = FALSE
      BY <2>3
    <3>2. Reply(r, req[r].port, FALSE)
      BY <1>7, <1>10, <3>1
    <3>3. req'[r] \in ReqRecs /\ Rejected(r, sw.current)
      BY <1>0, <1>5, <1>6, <1>7, <1>8, <1>10, <2>1, <2>3 DEF Rejected, Retries, Calls, Ends, Kept
    <3> QED
      BY <1>7, <1>9, <1>10, <3>2, <3>3 DEF Settling
  <2> QED
    BY <2>2, <2>3
<1> QED
  BY <1>2, <1>9, <1>10

\* A request is left alone, begins, gets the stub it waits for or none, is answered or cut off.
LEMMA ReqMoves ==
    ASSUME IInv, TInv, [Next]_vars, NEW r \in Requests
    PROVE  /\ req'[r] \in ReqRecs /\ DOMAIN req' = Requests
           /\ req'[r] = req[r] \/ Beginning(r) \/ Waiting(r) \/ Settling(r)
<1>1. ASSUME req' = req
      PROVE  req'[r] \in ReqRecs /\ DOMAIN req' = Requests /\ req'[r] = req[r]
  BY <1>1 DEF TInv, ReqTyped
<1>2. CASE \E c \in Requests : RequestOnStub(c) \/ RequestSolicits(c)
  BY <1>2, BeginsMoves DEF Begins
<1>3. CASE \E t \in Tabs : ControlPort(t)
  BY <1>1, <1>3 DEF ControlPort
<1>4. CASE \E d \in Destroys : DestroyCall(d) \/ DestroySettled(d)
  BY <1>1, <1>4, SettledMoves DEF DestroyCall
<1>5. CASE \E c \in Requests, p \in DOMAIN ports, ok \in BOOLEAN : Reply(c, p, ok)
  <2>1. PICK c \in Requests, p \in DOMAIN ports, ok \in BOOLEAN : Reply(c, p, ok)
    BY <1>5
  <2> QED
    BY <2>1, ReplyMoves
<1>6. CASE DuplicatePort \/ SWReaped
  BY <1>1, <1>6 DEF DuplicatePort, SWReaped
<1>7. CASE FactoryTimeout \/ AcceptPort
  BY <1>7, TimeoutMoves, AcceptMoves
<1>8. CASE TabMoves
  BY <1>1, <1>8, TabFrame
<1>9. CASE WorkerMoves
  BY <1>1, <1>9, WorkerFrame
<1>10. CASE UNCHANGED vars
  BY <1>1, <1>10 DEF vars
<1> QED
  BY <1>2, <1>3, <1>4, <1>5, <1>6, <1>7, <1>8, <1>9, <1>10, Moves DEF EdgeMoves

LEMMA Later == ASSUME TInv, [Next]_vars
               PROVE  destroys' \in Nat /\ destroys <= destroys' /\ (destroys' = destroys \/ \E d \in Destroys : DestroyCall(d))
<1>1. destroys' = destroys \/ \E d \in Destroys : DestroyCall(d)
  <2>1. CASE EdgeMoves
    BY <2>1 DEF EdgeMoves, ControlPort, RequestOnStub, RequestSolicits, DestroySettled, FactoryTimeout, DuplicatePort,
                AcceptPort, SWReaped, Reply
  <2> QED
    BY <2>1, Moves, TabFrame, WorkerFrame DEF vars
<1>2. destroys \in Nat
  BY DEF TInv, ReqTyped
<1>3. destroys' = destroys \/ destroys' = destroys + 1
  BY <1>1 DEF DestroyCall
<1> QED
  BY <1>1, <1>2, <1>3

LEMMA ReqDomain == ASSUME TInv, [Next]_vars PROVE req' = [r \in Requests |-> req'[r]]
<1>1. req = [r \in Requests |-> req[r]]
  BY DEF TInv, ReqTyped
<1>2. CASE EdgeMoves
  <2>1. CASE \E c \in Requests : RequestOnStub(c) \/ RequestSolicits(c)
    BY <1>1, <2>1 DEF RequestOnStub, RequestSolicits
  <2>2. CASE \E d \in Destroys : DestroySettled(d)
    BY <1>1, <2>2 DEF DestroySettled, AfterReject
  <2>3. CASE \E c \in Requests, p \in DOMAIN ports, ok \in BOOLEAN : Reply(c, p, ok)
    <3>0. PICK c \in Requests, p \in DOMAIN ports, ok \in BOOLEAN : Reply(c, p, ok)
      BY <2>3
    <3>1. \/ req' = req
          \/ req' = [req EXCEPT ![c].pc = "ok"] \/ req' = [req EXCEPT ![c].pc = "failed"]
          \/ req' = [req EXCEPT ![c].port = sw.current, ![c].tries = 2]
      BY <3>0, Zenon DEF Reply
    <3> QED
      BY <1>1, <3>1, Zenon
  <2>4. CASE FactoryTimeout \/ AcceptPort
    BY <2>4 DEF FactoryTimeout, AcceptPort
  <2>5. CASE DuplicatePort \/ SWReaped \/ (\E t \in Tabs : ControlPort(t)) \/ (\E d \in Destroys : DestroyCall(d))
    <3>1. req' = req
      BY <2>5 DEF DuplicatePort, SWReaped, ControlPort, DestroyCall
    <3> QED
      BY <1>1, <3>1
  <2> QED
    BY <1>2, <2>1, <2>2, <2>3, <2>4, <2>5 DEF EdgeMoves
<1>3. CASE ~EdgeMoves
  <2>1. req' = req
    BY <1>3, Moves, TabFrame, WorkerFrame DEF vars
  <2> QED
    BY <1>1, <2>1
<1> QED
  BY <1>2, <1>3

LEMMA ReqStep == ASSUME IInv, TInv, [Next]_vars, Grown PROVE ReqTyped'
<1>1. /\ destroys' \in Nat /\ destroys <= destroys' /\ DOMAIN ports \subseteq DOMAIN ports' /\ destroys \in Nat
      /\ SwTyped /\ sw.current \in DOMAIN ports \cup {0}
  BY Later, PortsStay DEF TInv, ReqTyped, SwTyped
<1>2. ASSUME NEW r \in Requests PROVE req'[r] \in ReqRecs /\ Coherent(req[r])'
  <2>1. /\ req'[r] \in ReqRecs /\ (req'[r] = req[r] \/ Beginning(r) \/ Waiting(r) \/ Settling(r))
        /\ req[r] \in ReqRecs /\ Coherent(req[r])
    BY ReqMoves DEF TInv, ReqTyped
  <2>2. req[r].epoch \in Nat /\ req[r].epoch <= destroys'
    BY <1>1, <2>1 DEF Coherent, ReqRecs
  <2>3. CASE req'[r] = req[r]
    BY <1>1, <2>1, <2>2, <2>3 DEF Coherent
  <2>4. CASE Beginning(r)
    BY <1>1, <2>1, <2>4 DEF Beginning, Coherent
  <2>5. CASE Waiting(r)
    <3>1. AcceptPort => Head(posted) \in DOMAIN ports
      BY HeadPosted DEF AcceptPort, TInv
    <3> QED
      BY <1>1, <2>1, <2>2, <2>5, <3>1 DEF Waiting, Calls, Ends, Kept, Coherent
  <2>6. CASE Settling(r)
    <3>1. AcceptPort => Head(posted) \in DOMAIN ports
      BY HeadPosted DEF AcceptPort, TInv
    <3>2. PICK fresh \in DOMAIN ports \cup {0} : Rejected(r, fresh) \/ Ends(r, "ok")
      BY <1>1, <2>6, <3>1 DEF Settling
    <3>3. /\ req'[r].epoch = req[r].epoch
          /\ \/ req'[r].pc \in {"ok", "failed"}
             \/ req'[r].pc = "calling" /\ req'[r].port = fresh /\ fresh # 0 /\ req'[r].tries = 2
      BY <3>2 DEF Rejected, Retries, Calls, Ends, Kept
    <3> QED
      BY <1>1, <2>1, <2>2, <3>3 DEF Coherent
  <2> QED
    BY <2>1, <2>3, <2>4, <2>5, <2>6
<1>3. req' \in [Requests -> ReqRecs]
  BY <1>2, ReqDomain
<1> QED
  BY <1>1, <1>2, <1>3 DEF ReqTyped

\* Calls, answers and writes -----------------------------------------------------------

\* A call is sent by the step that puts its request on the stub.
LEMMA NewMail ==
    ASSUME IInv, TInv, [Next]_vars, NEW r, NEW p, <<r, p>> \in mail', <<r, p>> \notin mail
    PROVE  r \in Requests /\ p \in DOMAIN ports /\ req'[r].pc = "calling" /\ req'[r].port = p /\ req'[r] # req[r]
<1>1. req \in [Requests -> ReqRecs] /\ sw.current \in DOMAIN ports \cup {0} /\ ReqTyped /\ sw.current \in Nat
  BY DEF TInv, ReqTyped, SwTyped, SwRecs
<1>2. CASE \E c \in Requests : RequestOnStub(c)
  <2>1. PICK c \in Requests : RequestOnStub(c)
    BY <1>2
  <2>2. <<r, p>> = <<c, sw.current>> /\ sw.current # 0 /\ req[c].pc = "idle"
    BY <2>1 DEF RequestOnStub
  <2>3. r = c /\ p = sw.current
    BY <2>2
  <2>4. req'[c].pc = "calling" /\ req'[c].port = sw.current
    BY <1>1, <2>1 DEF RequestOnStub, ReqRecs
  <2> QED
    BY <1>1, <2>2, <2>3, <2>4
<1>3. CASE AcceptPort
  <2> DEFINE h == Head(posted)
  <2>1. h \in DOMAIN ports /\ h \in Nat
    BY <1>3, HeadPosted DEF AcceptPort, TInv
  <2>5. PICK c : /\ <<r, p>> = <<c, h>>
                 /\ \/ c \in Requests /\ req[c].pc = "opening" /\ sw.soliciting = "port"
                    \/ sw.current # 0 /\ c \in Retried(sw.current, h)
    BY <1>3 DEF AcceptPort
  <2>6. r = c /\ p = h
    BY <2>5
  <2>2. \/ r \in Requests /\ req[r].pc = "opening" /\ sw.soliciting = "port" /\ p = h
        \/ sw.current # 0 /\ r \in Retried(sw.current, h) /\ p = h
    BY <2>5, <2>6
  <2>3. CASE r \in Requests /\ req[r].pc = "opening" /\ sw.soliciting = "port" /\ p = h
    <3>1. req'[r] = [req[r] EXCEPT !.pc = "calling", !.port = h, !.tries = @ + 1]
      BY <1>3, <2>3 DEF AcceptPort
    <3>2. req'[r].pc = "calling" /\ req'[r].port = h
      BY <1>1, <2>3, <3>1 DEF ReqRecs
    <3> QED
      BY <2>1, <2>3, <3>2
  <2>4. CASE sw.current # 0 /\ r \in Retried(sw.current, h) /\ p = h
    <3>1. r \in Requests /\ req[r].pc = "calling"
      BY <2>4 DEF Retried, Cut
    <3>2. req'[r] = AfterReject(sw.current, h)[r]
      BY <1>3, <2>4, <3>1 DEF AcceptPort
    <3>3. /\ AfterReject(sw.current, h)[r].pc = "calling" /\ AfterReject(sw.current, h)[r].port = h
          /\ h # req[r].port
      BY <1>1, <2>1, <2>4, <3>1, RejectedCall
    <3> QED
      BY <2>1, <2>4, <3>1, <3>2, <3>3
  <2> QED
    BY <2>2, <2>3, <2>4
<1>4. CASE \E c \in Requests, q \in DOMAIN ports, ok \in BOOLEAN : Reply(c, q, ok)
  <2>1. PICK c \in Requests, q \in DOMAIN ports, ok \in BOOLEAN : Reply(c, q, ok)
    BY <1>4
  <2>2. <<r, p>> = <<c, sw.current>> /\ c \in Retried(q, sw.current) /\ ~ok
        /\ req' = [req EXCEPT ![c].port = sw.current, ![c].tries = 2]
    BY <2>1 DEF Reply
  <2>3. r = c /\ p = sw.current
    BY <2>2
  <2>4. req[c].pc = "calling" /\ req[c].port = q /\ sw.current \notin {0, q}
    BY <2>2 DEF Retried, Cut
  <2>5. req'[c].pc = "calling" /\ req'[c].port = sw.current
    BY <1>1, <2>2, <2>4 DEF ReqRecs
  <2> QED
    BY <1>1, <2>3, <2>4, <2>5
<1>5. CASE \E d \in Destroys : DestroySettled(d)
  <2>1. PICK d \in Destroys : DestroySettled(d)
    BY <1>5
  <2>2. dst[d].cur # 0 /\ r \in Retried(dst[d].cur, sw.current) /\ p = sw.current
    BY <2>1 DEF DestroySettled
  <2>3. r \in Requests /\ sw.current \notin {0, req[r].port}
    BY <2>2 DEF Retried, Cut
  <2>4. req'[r] = AfterReject(dst[d].cur, sw.current)[r]
    BY <2>1, <2>2 DEF DestroySettled
  <2>5. /\ AfterReject(dst[d].cur, sw.current)[r].pc = "calling"
        /\ AfterReject(dst[d].cur, sw.current)[r].port = sw.current
    BY <1>1, <2>2, <2>3, RejectedCall
  <2> QED
    BY <1>1, <2>2, <2>3, <2>4, <2>5
<1>6. CASE mail' \subseteq mail
  BY <1>6
<1>7. CASE EdgeMoves
  BY <1>2, <1>3, <1>4, <1>5, <1>6, <1>7 DEF EdgeMoves, ControlPort, RequestSolicits, DestroyCall, FactoryTimeout,
     DuplicatePort, SWReaped, callVars
<1> QED
  BY <1>6, <1>7, Moves, TabFrame, WorkerFrame DEF vars

\* An answer is what the execution of its call found: a write that is there, or a failed Worker.
LEMMA NewReply ==
    ASSUME [Next]_vars, NEW r, NEW p, NEW ok, <<r, p, ok>> \in replies', <<r, p, ok>> \notin replies
    PROVE  /\ <<r, p>> \in mail /\ r \in Requests /\ p \in DOMAIN ports /\ ok \in BOOLEAN /\ Execute(r, p)
           /\ ok => workers[ports[p]].state \in {"open", "orphan"} /\ r \in data'
           /\ ~ok => workers[ports[p]].state = "failed"
<1>1. WorkerMoves /\ ~(replies' \subseteq replies)
  BY Moves, TabFrame, EdgeFrame DEF vars
<1>2. PICK c \in Requests, q \in DOMAIN ports : Execute(c, q)
  BY <1>1 DEF WorkerMoves, WorkerOpens, WorkerOpenFails, ThreadGone, callVars
<1>3. \/ /\ workers[ports[q]].state \in {"open", "orphan"} /\ c \in data'
         /\ <<r, p, ok>> = <<c, q, TRUE>>
      \/ workers[ports[q]].state = "failed" /\ <<r, p, ok>> = <<c, q, FALSE>>
  BY <1>2 DEF Execute
<1>4. CASE <<r, p, ok>> = <<c, q, TRUE>> /\ workers[ports[q]].state \in {"open", "orphan"} /\ c \in data'
  <2>1. r = c /\ p = q /\ ok = TRUE
    BY <1>4
  <2>2. <<c, q>> \in mail
    BY <1>2 DEF Execute
  <2> QED
    BY <1>2, <1>4, <2>1, <2>2
<1>5. CASE <<r, p, ok>> = <<c, q, FALSE>> /\ workers[ports[q]].state = "failed"
  <2>1. r = c /\ p = q /\ ok = FALSE
    BY <1>5
  <2>2. <<c, q>> \in mail
    BY <1>2 DEF Execute
  <2> QED
    BY <1>2, <1>5, <2>1, <2>2
<1> QED
  BY <1>3, <1>4, <1>5

\* The directory is written by a Worker that runs, and emptied by a teardown.
LEMMA DataMoves ==
    ASSUME [Next]_vars
    PROVE  \/ data' = data
           \/ \E t \in Tabs : RemoveDirectory(t) /\ data' = {}
           \/ \E r \in Requests, p \in DOMAIN ports :
                 /\ Execute(r, p) /\ <<r, p>> \in mail /\ workers[ports[p]].state \in {"open", "orphan"}
                 /\ data' = data \cup {r}
<1>1. CASE TabMoves
  BY <1>1, TabFrame DEF RemoveDirectory, RemoveRefused, callVars
<1>2. CASE EdgeMoves
  BY <1>2, EdgeFrame
<1>3. CASE WorkerMoves
  BY <1>3 DEF WorkerMoves, WorkerOpens, WorkerOpenFails, ThreadGone, Execute, callVars
<1> QED
  BY <1>1, <1>2, <1>3, Moves DEF vars

LEMMA MailStep == ASSUME IInv, TInv, [Next]_vars, Grown PROVE MailTyped'
<1>1. MailTyped /\ DOMAIN ports \subseteq DOMAIN ports'
  BY PortsStay DEF TInv
<1>2. mail' \subseteq Requests \X (DOMAIN ports')
  <2>1. ASSUME NEW m \in mail' PROVE m \in Requests \X (DOMAIN ports')
    <3>1. CASE m \in mail
      BY <1>1, <3>1 DEF MailTyped
    <3>2. CASE m \notin mail
      <4>1. \E r, p : m = <<r, p>>
        <5>1. CASE EdgeMoves
          <6>1. \/ mail' \subseteq mail
                \/ AcceptPort \/ \E c \in Requests : RequestOnStub(c)
                \/ \E c \in Requests, q \in DOMAIN ports, ok \in BOOLEAN : Reply(c, q, ok)
                \/ \E d \in Destroys : DestroySettled(d)
            BY <5>1 DEF EdgeMoves, ControlPort, RequestSolicits, DestroyCall, FactoryTimeout, DuplicatePort, SWReaped, callVars
          <6>2. CASE AcceptPort
            BY <2>1, <3>2, <6>2 DEF AcceptPort
          <6>3. CASE \E c \in Requests : RequestOnStub(c)
            BY <2>1, <3>2, <6>3 DEF RequestOnStub
          <6>4. CASE \E c \in Requests, q \in DOMAIN ports, ok \in BOOLEAN : Reply(c, q, ok)
            BY <2>1, <3>2, <6>4 DEF Reply
          <6>5. CASE \E d \in Destroys : DestroySettled(d)
            BY <2>1, <3>2, <6>5 DEF DestroySettled
          <6> QED
            BY <2>1, <3>2, <6>1, <6>2, <6>3, <6>4, <6>5
        <5> QED
          BY <2>1, <3>2, <5>1, Moves, TabFrame, WorkerFrame DEF vars
      <4>2. PICK r, p : m = <<r, p>>
        BY <4>1
      <4>3. r \in Requests /\ p \in DOMAIN ports
        BY <2>1, <3>2, <4>2, NewMail
      <4> QED
        BY <1>1, <4>2, <4>3
    <3> QED
      BY <3>1, <3>2
  <2> QED
    BY <2>1
<1>3. replies' \subseteq Requests \X (DOMAIN ports') \X BOOLEAN
  <2>1. ASSUME NEW m \in replies' PROVE m \in Requests \X (DOMAIN ports') \X BOOLEAN
    <3>1. CASE m \in replies
      BY <1>1, <3>1 DEF MailTyped
    <3>2. CASE m \notin replies
      <4>1. WorkerMoves
        BY <2>1, <3>2, Moves, TabFrame, EdgeFrame DEF vars
      <4>2. \E r \in Requests, p \in DOMAIN ports, ok \in BOOLEAN : m = <<r, p, ok>>
        BY <2>1, <3>2, <4>1 DEF WorkerMoves, WorkerOpens, WorkerOpenFails, ThreadGone, Execute, callVars
      <4> QED
        BY <1>1, <4>2
    <3> QED
      BY <3>1, <3>2
  <2> QED
    BY <2>1
<1>4. data' \subseteq Requests
  BY <1>1, DataMoves DEF MailTyped
<1>5. disposed' \subseteq DOMAIN ports'
  <2>1. disposed' \subseteq disposed \cup {Head(posted)} \/ disposed' \subseteq disposed \cup {sw.current}
        \/ \E d \in Destroys : disposed' \subseteq disposed \cup {dst[d].cur}
    <3>1. CASE EdgeMoves
      BY <3>1 DEF EdgeMoves, ControlPort, RequestOnStub, RequestSolicits, DestroyCall, DestroySettled,
             FactoryTimeout, DuplicatePort, AcceptPort, SWReaped, Reply
    <3> QED
      BY <3>1, Moves, TabFrame, WorkerFrame DEF vars
  <2>2. CASE disposed' = disposed
    BY <1>1, <2>2 DEF MailTyped
  <2>3. CASE DuplicatePort
    <3>1. Head(posted) \in DOMAIN ports
      BY <2>3, HeadPosted DEF DuplicatePort, TInv
    <3> QED
      BY <1>1, <2>3, <3>1 DEF DuplicatePort, MailTyped
  <2>4. CASE AcceptPort
    <3>1. sw.current \in DOMAIN ports \cup {0}
      BY DEF TInv, SwTyped
    <3> QED
      BY <1>1, <2>4, <3>1 DEF AcceptPort, MailTyped
  <2>5. CASE \E d \in Destroys : DestroySettled(d)
    <3>1. PICK d \in Destroys : DestroySettled(d)
      BY <2>5
    <3>2. dst[d].cur \in DOMAIN ports \cup {0}
      BY DEF TInv, DstTyped
    <3> QED
      BY <1>1, <3>1, <3>2 DEF DestroySettled, MailTyped
  <2>6. CASE EdgeMoves
    BY <2>2, <2>3, <2>4, <2>5, <2>6 DEF EdgeMoves, ControlPort, RequestOnStub, RequestSolicits, DestroyCall,
       FactoryTimeout, SWReaped, Reply
  <2> QED
    BY <2>2, <2>6, Moves, TabFrame, WorkerFrame DEF vars
<1> QED
  BY <1>2, <1>3, <1>4, <1>5 DEF MailTyped

\* What a step makes of a destroy -------------------------------------------------------

\* A destroy a tab still has a message of, or a teardown, waits for that tab.
LEMMA Queues ==
    ASSUME TInv, NEW t \in Tabs, NEW d \in Destroys,
           (\E i \in 1 .. Len(tab[t].teardowns) : tab[t].teardowns[i] = d) \/ (\E i \in 1 .. Len(inbox[t]) : inbox[t][i] = DestroyMsg(d))
    PROVE  dst[d].waiting[t] >= 1 /\ dst[d].pc = "asked"
<1>1. tab[t].teardowns \in Seq(Destroys) /\ inbox[t] \in Seq(Messages) /\ dst[d].waiting \in [Tabs -> Nat]
  BY DEF TInv, TabTyped, TabRecs, InboxTyped, DstTyped, DstRecs
<1>2. Count(tab[t].teardowns, d) \in Nat /\ Count(inbox[t], DestroyMsg(d)) \in Nat
  BY <1>1, CountNat
<1>3. Count(tab[t].teardowns, d) >= 1 \/ Count(inbox[t], DestroyMsg(d)) >= 1
  BY <1>1, CountSome
<1>4. Awaited(t, d) /\ dst[d].waiting[t] \in Nat
  BY <1>1 DEF TInv, Counted
<1> QED
  BY <1>2, <1>3, <1>4 DEF Awaited

\* Whose teardown ends: the first of the tab's queue.
LEMMA EndsTeardown ==
    ASSUME IInv, TInv, NEW t \in Tabs, tab[t].stage # "none"
    PROVE  /\ tab[t].teardowns \in Seq(Destroys) /\ tab[t].teardowns # << >> /\ Head(tab[t].teardowns) \in Destroys
           /\ dst[Head(tab[t].teardowns)].waiting[t] >= 1 /\ dst[Head(tab[t].teardowns)].pc = "asked"
           /\ tab[t].alive
<1>1. tab[t].teardowns \in Seq(Destroys) /\ Leaves(t) /\ Manages(t)
  BY DEF TInv, TabTyped, TabRecs, IInv
<1>2. tab[t].teardowns # << >> /\ tab[t].alive
  BY <1>1 DEF Leaves, Manages
<1>3. Head(tab[t].teardowns) = tab[t].teardowns[1] /\ 1 \in 1 .. Len(tab[t].teardowns)
  BY <1>1, <1>2
<1>4. Head(tab[t].teardowns) \in Destroys
  BY <1>1, <1>2
<1> QED
  BY <1>1, <1>2, <1>3, <1>4, Queues

Stays(d) == dst'[d].cur = dst[d].cur /\ dst'[d].before = dst[d].before /\ dst'[d].cut = dst[d].cut
Called(d) ==
    /\ DestroyCall(d) /\ dst[d].pc = "idle"
    /\ dst'[d].cur = sw.current /\ dst'[d].before = data /\ dst'[d].cut = {r \in Requests : req[r].pc = "calling"}
    /\ dst'[d].waiting = sw.sessions /\ dst'[d].won = dst[d].won
    /\ \/ Connected(sw.sessions) # {} /\ dst'[d].pc = "asked" /\ dst'[d].asked
       \/ Connected(sw.sessions) = {} /\ dst'[d].pc = "factories" /\ ~dst'[d].asked
Awakes(d) ==
    /\ (\E t \in Tabs : ControlPort(t)) /\ Stays(d) /\ dst[d].pc = "factories"
    /\ dst'[d].pc = "asked" /\ dst'[d].waiting = sw'.sessions /\ dst'[d].asked /\ dst'[d].won = dst[d].won
GoesOn(d) ==
    /\ FactoryTimeout /\ Stays(d) /\ dst[d].pc = "factories"
    /\ dst'[d].pc = "asked" /\ dst'[d].waiting = dst[d].waiting /\ dst'[d].asked = dst[d].asked /\ dst'[d].won = dst[d].won
Closes(d) ==
    /\ DestroySettled(d) /\ Stays(d) /\ dst[d].pc = "asked" /\ \A t \in Tabs : dst[d].waiting[t] = 0
    /\ dst'[d].waiting = dst[d].waiting /\ dst'[d].asked = dst[d].asked /\ dst'[d].won = dst[d].won
    /\ \/ dst'[d].pc = "ok" /\ (dst[d].won \/ ~dst[d].asked)
       \/ dst'[d].pc = "failed"
AnsweredBy(d, t) ==
    /\ RemoveDirectory(t) \/ RemoveRefused(t)
    /\ Stays(d) /\ d = Head(tab[t].teardowns) /\ dst[d].pc = "asked" /\ dst'[d].pc = "asked"
    /\ dst[d].waiting[t] >= 1 /\ dst'[d].waiting = [dst[d].waiting EXCEPT ![t] = @ - 1]
    /\ dst'[d].asked = dst[d].asked /\ (dst'[d].won <=> dst[d].won \/ RemoveDirectory(t))

LEMMA CallMoves ==
    ASSUME TInv, NEW c \in Destroys, DestroyCall(c), NEW d \in Destroys
    PROVE  dst'[d] \in DstRecs /\ (dst'[d] = dst[d] \/ Called(d))
<1> DEFINE ready == Connected(sw.sessions) # {}
           cut == {r \in Requests : req[r].pc = "calling"}
           x == [dst[c] EXCEPT !.pc = IF ready THEN "asked" ELSE "factories", !.cur = sw.current, !.asked = ready,
                               !.before = data, !.cut = cut, !.waiting = sw.sessions]
<1>1. dst \in [Destroys -> DstRecs] /\ sw.current \in Nat /\ sw.sessions \in [Tabs -> Nat] /\ data \subseteq Requests
  BY DEF TInv, DstTyped, SwTyped, SwRecs, MailTyped
<1>2. dst' = [dst EXCEPT ![c] = x] /\ dst[c].pc = "idle"
  BY DEF DestroyCall
<1>3. ready \in BOOLEAN /\ cut \subseteq Requests /\ dst[c] \in DstRecs
  BY <1>1
<1> HIDE DEF ready, cut
<1>4. /\ x \in DstRecs /\ x.pc = (IF ready THEN "asked" ELSE "factories") /\ x.cur = sw.current /\ x.asked = ready
      /\ x.before = data /\ x.cut = cut /\ x.waiting = sw.sessions /\ x.won = dst[c].won
  BY <1>1, <1>3 DEF DstRecs
<1> HIDE DEF x
<1>5. CASE d = c
  <2>1. dst'[d] = x
    BY <1>1, <1>2, <1>5
  <2> QED
    BY <1>2, <1>4, <1>5, <2>1 DEF Called, ready, cut
<1>6. CASE d # c
  BY <1>1, <1>2, <1>6
<1> QED
  BY <1>5, <1>6

LEMMA WakeMoves ==
    ASSUME TInv, NEW c \in Tabs, ControlPort(c), NEW d \in Destroys, sw'.sessions \in [Tabs -> Nat]
    PROVE  dst'[d] \in DstRecs /\ (dst'[d] = dst[d] \/ Awakes(d))
<1> DEFINE s == [sw.sessions EXCEPT ![c] = @ + 1]
           x == [dst[d] EXCEPT !.pc = "asked", !.waiting = s, !.asked = TRUE]
<1>1. dst[d] \in DstRecs /\ sw \in SwRecs
  BY DEF TInv, DstTyped, SwTyped
<1>2. /\ dst'[d] = IF dst[d].pc = "factories" THEN x ELSE dst[d]
      /\ sw'.sessions = s
  BY <1>1 DEF ControlPort, SwRecs
<1> HIDE DEF s
<1>3. /\ x \in DstRecs /\ x.pc = "asked" /\ x.waiting = s /\ x.asked /\ x.won = dst[d].won
      /\ x.cur = dst[d].cur /\ x.before = dst[d].before /\ x.cut = dst[d].cut
  BY <1>1, <1>2 DEF DstRecs
<1> HIDE DEF x
<1> QED
  BY <1>1, <1>2, <1>3 DEF Awakes, Stays

LEMMA HopeMoves ==
    ASSUME TInv, FactoryTimeout, NEW d \in Destroys
    PROVE  dst'[d] \in DstRecs /\ (dst'[d] = dst[d] \/ GoesOn(d))
<1> DEFINE x == [dst[d] EXCEPT !.pc = "asked"]
<1>1. dst[d] \in DstRecs
  BY DEF TInv, DstTyped
<1>2. dst'[d] = IF dst[d].pc = "factories" THEN x ELSE dst[d]
  BY DEF FactoryTimeout
<1>3. /\ x \in DstRecs /\ x.pc = "asked" /\ x.waiting = dst[d].waiting /\ x.asked = dst[d].asked /\ x.won = dst[d].won
      /\ x.cur = dst[d].cur /\ x.before = dst[d].before /\ x.cut = dst[d].cut
  BY <1>1 DEF DstRecs
<1> HIDE DEF x
<1> QED
  BY <1>1, <1>2, <1>3 DEF GoesOn, Stays

LEMMA CloseMoves ==
    ASSUME TInv, NEW c \in Destroys, DestroySettled(c), NEW d \in Destroys
    PROVE  dst'[d] \in DstRecs /\ (dst'[d] = dst[d] \/ Closes(d))
<1> DEFINE pc == IF dst[c].won \/ ~dst[c].asked THEN "ok" ELSE "failed"
           x == [dst[c] EXCEPT !.pc = pc]
<1>1. dst \in [Destroys -> DstRecs] /\ dst[c] \in DstRecs
  BY DEF TInv, DstTyped
<1>2. dst' = [dst EXCEPT ![c] = x] /\ dst[c].pc = "asked" /\ \A t \in Tabs : dst[c].waiting[t] = 0
  <2>1. dst' = [dst EXCEPT ![c].pc = pc] /\ dst[c].pc = "asked" /\ \A t \in Tabs : dst[c].waiting[t] = 0
    BY DEF DestroySettled
  <2> HIDE DEF pc
  <2> QED
    BY <1>1, <2>1, Zenon
<1>3. pc \in {"ok", "failed"} /\ (pc = "ok" => dst[c].won \/ ~dst[c].asked)
  OBVIOUS
<1> HIDE DEF pc
<1>4. /\ x \in DstRecs /\ x.pc = pc /\ x.waiting = dst[c].waiting /\ x.asked = dst[c].asked /\ x.won = dst[c].won
      /\ x.cur = dst[c].cur /\ x.before = dst[c].before /\ x.cut = dst[c].cut
  BY <1>1, <1>3 DEF DstRecs
<1> HIDE DEF x
<1>5. CASE d = c
  <2>1. dst'[d] = x
    BY <1>1, <1>2, <1>5
  <2> QED
    BY <1>2, <1>3, <1>4, <1>5, <2>1 DEF Closes, Stays
<1>6. CASE d # c
  BY <1>1, <1>2, <1>6
<1> QED
  BY <1>5, <1>6

LEMMA AnswerMoves ==
    ASSUME IInv, TInv, NEW t \in Tabs, RemoveDirectory(t) \/ RemoveRefused(t), NEW d \in Destroys
    PROVE  /\ dst'[d] \in DstRecs
           /\ d = Head(tab[t].teardowns) => AnsweredBy(d, t)
           /\ d # Head(tab[t].teardowns) => dst'[d] = dst[d]
<1> DEFINE c == Head(tab[t].teardowns)
           ok == RemoveDirectory(t)
<1>1. tab[t].stage \in {"remove", "removeRetry"}
  BY DEF RemoveDirectory, RemoveRefused
<1>2. c \in Destroys /\ dst[c].waiting[t] >= 1 /\ dst[c].pc = "asked"
  BY <1>1, EndsTeardown
<1>3. dst \in [Destroys -> DstRecs] /\ dst[c] \in DstRecs /\ dst[c].waiting \in [Tabs -> Nat]
  BY <1>2 DEF TInv, DstTyped, DstRecs
<1>4. PICK b \in BOOLEAN : (b <=> ok) /\ dst' = [dst EXCEPT ![c].waiting[t] = @ - 1, ![c].won = @ \/ b]
  <2>1. CASE RemoveDirectory(t)
    <3>1. dst' = [dst EXCEPT ![c].waiting[t] = @ - 1, ![c].won = @ \/ TRUE]
      BY <2>1 DEF RemoveDirectory, Finish
    <3> QED
      BY <2>1, <3>1
  <2>2. CASE ~RemoveDirectory(t)
    <3>1. dst' = [dst EXCEPT ![c].waiting[t] = @ - 1, ![c].won = @ \/ FALSE]
      BY <2>2 DEF RemoveRefused, Finish
    <3> QED
      BY <2>2, <3>1
  <2> QED
    BY <2>1, <2>2
<1> DEFINE x == [dst[c] EXCEPT !.waiting = [dst[c].waiting EXCEPT ![t] = @ - 1], !.won = @ \/ b]
<1>5. dst' = [dst EXCEPT ![c] = x]
  <2> HIDE DEF c
  <2> QED
    BY <1>2, <1>3, <1>4, Zenon
<1>6. [dst[c].waiting EXCEPT ![t] = @ - 1] \in [Tabs -> Nat]
  BY <1>2, <1>3
<1>7. (dst[c].won \/ b) \in BOOLEAN
  OBVIOUS
<1>8. /\ x \in DstRecs /\ x.pc = dst[c].pc /\ x.waiting = [dst[c].waiting EXCEPT ![t] = @ - 1]
      /\ x.asked = dst[c].asked /\ x.won = (dst[c].won \/ b)
      /\ x.cur = dst[c].cur /\ x.before = dst[c].before /\ x.cut = dst[c].cut
  <2> DEFINE y == [dst[c].waiting EXCEPT ![t] = @ - 1]
             z == dst[c].won \/ b
  <2>1. y \in [Tabs -> Nat] /\ z \in BOOLEAN /\ x = [dst[c] EXCEPT !.waiting = y, !.won = z]
    BY <1>6, <1>7
  <2> HIDE DEF x, y, z, c
  <2>2. /\ x \in DstRecs /\ x.pc = dst[c].pc /\ x.waiting = y
        /\ x.asked = dst[c].asked /\ x.won = z
        /\ x.cur = dst[c].cur /\ x.before = dst[c].before /\ x.cut = dst[c].cut
    BY <1>3, <2>1 DEF DstRecs
  <2> QED
    BY <2>2 DEF y, z
<1> HIDE DEF x
<1>9. CASE d = c
  <2>1. dst'[d] = x
    BY <1>2, <1>3, <1>5, <1>9
  <2> QED
    BY <1>2, <1>4, <1>8, <1>9, <2>1 DEF AnsweredBy, Stays
<1>10. CASE d # c
  BY <1>3, <1>5, <1>10
<1> QED
  BY <1>9, <1>10

\* A destroy is left alone, called, wakes to a page or to none, is answered by a tab, or ends.
LEMMA DstMoves ==
    ASSUME IInv, TInv, [Next]_vars, NEW d \in Destroys
    PROVE  /\ dst'[d] \in DstRecs
           /\ \/ dst'[d] = dst[d] \/ Called(d) \/ Awakes(d) \/ GoesOn(d) \/ Closes(d)
              \/ \E t \in Tabs : AnsweredBy(d, t)
<1>1. ASSUME dst' = dst PROVE dst'[d] \in DstRecs /\ dst'[d] = dst[d]
  BY <1>1 DEF TInv, DstTyped
<1>2. CASE \E c \in Destroys : DestroyCall(c) \/ DestroySettled(c)
  BY <1>2, CallMoves, CloseMoves
<1>3. CASE \E t \in Tabs : ControlPort(t)
  <2>1. sw'.sessions \in [Tabs -> Nat]
    BY Grows, SwStep DEF SwTyped, SwRecs
  <2> QED
    BY <1>3, <2>1, WakeMoves
<1>4. CASE FactoryTimeout
  BY <1>4, HopeMoves
<1>5. CASE EdgeMoves
  BY <1>1, <1>2, <1>3, <1>4, <1>5 DEF EdgeMoves, RequestOnStub, RequestSolicits, Reply, DuplicatePort, AcceptPort, SWReaped
<1>6. CASE \E t \in Tabs : RemoveDirectory(t) \/ RemoveRefused(t)
  BY <1>6, AnswerMoves
<1> QED
  BY <1>1, <1>5, <1>6, Moves, TabFrame, WorkerFrame DEF vars

LEMMA DstDomain == ASSUME TInv, [Next]_vars PROVE dst' = [d \in Destroys |-> dst'[d]]
<1>1. dst = [d \in Destroys |-> dst[d]]
  BY DEF TInv, DstTyped
<1>2. CASE dst' = dst
  BY <1>1, <1>2
<1>3. CASE \E c \in Destroys : DestroyCall(c)
  <2>1. PICK c \in Destroys : DestroyCall(c)
    BY <1>3
  <2>2. \E x : dst' = [dst EXCEPT ![c] = x]
    BY <2>1, Zenon DEF DestroyCall
  <2> QED
    BY <1>1, <2>2
<1>4. CASE \E c \in Destroys : DestroySettled(c)
  BY <1>1, <1>4, Zenon DEF DestroySettled
<1>5. CASE (\E t \in Tabs : ControlPort(t)) \/ FactoryTimeout
  BY <1>5 DEF ControlPort, FactoryTimeout
<1>6. CASE \E t \in Tabs : RemoveDirectory(t) \/ RemoveRefused(t)
  <2>1. PICK t \in Tabs, b \in BOOLEAN : Finish(t, b)
    BY <1>6 DEF RemoveDirectory, RemoveRefused
  <2> QED
    BY <1>1, <2>1, Zenon DEF Finish
<1>7. CASE EdgeMoves
  BY <1>2, <1>3, <1>4, <1>5, <1>7 DEF EdgeMoves, RequestOnStub, RequestSolicits, Reply, DuplicatePort, AcceptPort, SWReaped
<1> QED
  BY <1>2, <1>6, <1>7, Moves, TabFrame, WorkerFrame DEF vars

LEMMA DstStep == ASSUME IInv, TInv, [Next]_vars, Grown PROVE DstTyped'
<1>1. DOMAIN ports \subseteq DOMAIN ports' /\ sw.current \in DOMAIN ports \cup {0}
  BY PortsStay DEF TInv, SwTyped
<1>2. ASSUME NEW d \in Destroys PROVE dst'[d] \in DstRecs /\ dst'[d].cur \in DOMAIN ports' \cup {0}
  <2>1. dst'[d] \in DstRecs /\ dst[d].cur \in DOMAIN ports \cup {0}
    BY DstMoves DEF TInv, DstTyped
  <2>2. dst'[d].cur \in {dst[d].cur, sw.current}
    BY DstMoves DEF Called, Awakes, GoesOn, Closes, AnsweredBy, Stays
  <2> QED
    BY <1>1, <2>1, <2>2
<1>3. dst' \in [Destroys -> DstRecs]
  BY <1>2, DstDomain
<1> QED
  BY <1>2, <1>3 DEF DstTyped

\* The inboxes ---------------------------------------------------------------------------

\* What the woken ensureFactories send the page whose port arrived: one message each.
LEMMA Woken ==
    ASSUME TInv, NEW c \in Tabs, ControlPort(c)
    PROVE  \E extra \in Seq(Messages) :
              /\ inbox' = [inbox EXCEPT ![c] = inbox[c] \o extra]
              /\ \A d \in Destroys : Count(extra, DestroyMsg(d)) <= IF dst[d].pc = "factories" THEN 1 ELSE 0
<1> DEFINE woken == {d \in Destroys : dst[d].pc = "factories"}
           asked == {DestroyMsg(d) : d \in woken} \cup (IF sw.soliciting = "factories" THEN {OpenMsg} ELSE {})
           n == Cardinality(asked)
<1>1. PICK order \in SetToSeqs(asked) : inbox' = [inbox EXCEPT ![c] = @ \o Rebroadcast \o order]
  BY DEF ControlPort
<1>2. IsFiniteSet(asked)
  <2> DEFINE A == {DestroyMsg(d) : d \in woken}
             f == [d \in woken |-> DestroyMsg(d)]
  <2>1. IsFiniteSet(woken)
    BY EdgeAssumption, FS_Subset
  <2>2. f \in Surjection(woken, A)
    BY DEF Surjection
  <2>3. IsFiniteSet(A)
    BY <2>1, <2>2, FS_Surjection
  <2>4. IsFiniteSet({OpenMsg}) /\ IsFiniteSet({})
    BY FS_Singleton, FS_EmptySet
  <2> HIDE DEF A
  <2>5. IsFiniteSet(A \cup {OpenMsg}) /\ IsFiniteSet(A \cup {})
    BY <2>3, <2>4, FS_Union
  <2> QED
    BY <2>5 DEF A
<1>3. n \in Nat
  BY <1>2, FS_CardinalityType
<1>4. order \in [1 .. n -> asked] /\ \A i, j \in 1 .. n : i # j => order[i] # order[j]
  BY <1>1 DEF SetToSeqs
<1>5. asked \subseteq Messages
  BY DEF Messages
<1> HIDE DEF n
<1>6. order \in Seq(Messages) /\ DOMAIN order = 1 .. n
  <2>1. order \in [1 .. n -> Messages]
    BY <1>4, <1>5
  <2> QED
    BY <1>3, <2>1, SeqDef
<1>7. Rebroadcast \in Seq(Messages) /\ inbox[c] \in Seq(Messages)
  BY MessageKinds DEF Rebroadcast, TInv, InboxTyped
<1> DEFINE extra == Rebroadcast \o order
<1>8. extra \in Seq(Messages) /\ inbox[c] \o extra = (inbox[c] \o Rebroadcast) \o order
  <2>1. order \in Seq(Messages) /\ Rebroadcast \in Seq(Messages) /\ inbox[c] \in Seq(Messages)
    BY <1>6, <1>7
  <2>2. Rebroadcast \o order \in Seq(Messages)
    BY <2>1, ConcatProperties
  <2>3. (inbox[c] \o Rebroadcast) \o order = inbox[c] \o (Rebroadcast \o order)
    <3>1. \A a, b, e \in Seq(Messages) : (a \o b) \o e = a \o (b \o e)
      BY ConcatAssociative
    <3> HIDE DEF extra
    <3> QED
      BY <2>1, <3>1, Zenon
  <2> QED
    BY <2>2, <2>3, Zenon
<1>9. ASSUME NEW d \in Destroys
      PROVE  Count(extra, DestroyMsg(d)) <= IF dst[d].pc = "factories" THEN 1 ELSE 0
  <2>1. Count(extra, DestroyMsg(d)) <= Count(Rebroadcast, DestroyMsg(d)) + Count(order, DestroyMsg(d))
    BY <1>6, <1>7, CountConcat
  <2>2. Count(Rebroadcast, DestroyMsg(d)) = 0
    <3>1. \A i \in DOMAIN Rebroadcast : Rebroadcast[i] # DestroyMsg(d)
      BY MessageKinds DEF Rebroadcast
    <3> QED
      BY <3>1, CountNone
  <2>3. Count(order, DestroyMsg(d)) <= 1
    <3>1. \A i, j \in DOMAIN order : order[i] = order[j] => i = j
      BY <1>4, <1>6
    <3> QED
      BY <3>1, CountDistinct
  <2>4. dst[d].pc # "factories" => Count(order, DestroyMsg(d)) = 0
    <3>1. ASSUME dst[d].pc # "factories", NEW i \in DOMAIN order PROVE order[i] # DestroyMsg(d)
      <4>1. order[i] \in asked
        BY <1>4, <1>6
      <4>2. DestroyMsg(d) \notin asked
        BY <3>1, MessageKinds
      <4> QED
        BY <4>1, <4>2
    <3> QED
      BY <3>1, CountNone
  <2>5. Count(order, DestroyMsg(d)) \in Nat /\ Count(extra, DestroyMsg(d)) \in Nat
    BY <1>6, <1>8, CountNat
  <2> QED
    BY <2>1, <2>2, <2>3, <2>4, <2>5
<1> HIDE DEF extra
<1>10. inbox' = [inbox EXCEPT ![c] = inbox[c] \o extra]
  BY <1>1, <1>8
<1> QED
  BY <1>8, <1>9, <1>10

\* What a tab's step makes of its record ---------------------------------------------------

OneTab(t) ==
    /\ Others(t) /\ tab' = [u \in Tabs |-> tab'[u]] /\ tab'[t] \in TabRecs /\ tab'[t].ctl = tab[t].ctl

LEMMA OneTabNow ==
    ASSUME TabTyped, NEW t \in Tabs, NEW rec \in TabRecs, rec.ctl = tab[t].ctl, tab' = [tab EXCEPT ![t] = rec]
    PROVE  OneTab(t) /\ tab'[t] = rec
BY DEF TabTyped, OneTab, Others

SameRest(t) ==
    /\ tab'[t].alive = tab[t].alive /\ tab'[t].worker = tab[t].worker /\ tab'[t].stake = tab[t].stake
    /\ tab'[t].old = tab[t].old
Held(t) ==
    /\ tab'[t].alive = tab[t].alive /\ tab'[t].teardowns = tab[t].teardowns /\ tab'[t].stage = tab[t].stage
    /\ tab'[t].leaving = tab[t].leaving /\ tab'[t].old = tab[t].old

\* A tab joins the queue, or delivers.
LEMMA OpenTab ==
    ASSUME IInv, TInv, NEW t \in Tabs, OpenGraph(t) \/ LockGranted(t)
    PROVE  /\ OneTab(t) /\ Held(t) /\ tab[t].alive
           /\ \/ /\ Deliver(t) /\ tab[t].stake \in {"queued", "leader"}
                 /\ tab'[t].stake = "leader" /\ tab'[t].worker = LedWith(t)
              \/ /\ UNCHANGED <<workers, ports, posted>>
                 /\ tab'[t].stake \in {tab[t].stake, "queued"} /\ tab'[t].worker = tab[t].worker
                 /\ tab[t].stake # "leader"
<1>1. TabTyped /\ tab[t] \in TabRecs /\ Manages(t) /\ tab \in [Tabs -> TabRecs]
  BY DEF TInv, TabTyped
<1>2. tab[t].alive
  BY <1>1 DEF OpenGraph, LockGranted, Manages, TabRecs
<1>3. CASE (OpenGraph(t) /\ tab[t].stake = "leader" /\ Deliver(t)) \/ (LockGranted(t) /\ Deliver(t))
  <2>1. tab' = [tab EXCEPT ![t] = Leading(t)] /\ LedWith(t) \in DOMAIN workers'
    BY <1>3, Delivered
  <2>2. LedWith(t) \in Nat
    <3>1. Len(workers) \in Nat
      BY DEF IInv, Shape
    <3> QED
      BY <1>1, <3>1 DEF LedWith, TabRecs
  <2>3. /\ Leading(t) \in TabRecs /\ Leading(t).ctl = tab[t].ctl /\ Leading(t).alive = tab[t].alive
        /\ Leading(t).teardowns = tab[t].teardowns /\ Leading(t).stage = tab[t].stage
        /\ Leading(t).leaving = tab[t].leaving /\ Leading(t).old = tab[t].old
        /\ Leading(t).stake = "leader" /\ Leading(t).worker = LedWith(t)
    BY <1>1, <2>2 DEF Leading, TabRecs
  <2>4. OneTab(t) /\ tab'[t] = Leading(t)
    BY <1>1, <2>1, <2>3, OneTabNow
  <2>5. tab[t].stake \in {"queued", "leader"}
    BY <1>3 DEF LockGranted
  <2> QED
    BY <1>2, <1>3, <2>3, <2>4, <2>5 DEF Held
<1>4. CASE OpenGraph(t) /\ tab[t].stake = "none"
  <2> DEFINE x == [tab[t] EXCEPT !.stake = "queued"]
  <2>1. tab' = [tab EXCEPT ![t] = x] /\ UNCHANGED <<workers, ports, posted>>
    BY <1>1, <1>4, Zenon DEF OpenGraph
  <2>2. /\ x \in TabRecs /\ x.ctl = tab[t].ctl /\ x.alive = tab[t].alive
        /\ x.teardowns = tab[t].teardowns /\ x.stage = tab[t].stage
        /\ x.leaving = tab[t].leaving /\ x.old = tab[t].old
        /\ x.stake = "queued" /\ x.worker = tab[t].worker
    BY <1>1 DEF TabRecs
  <2> HIDE DEF x
  <2>3. OneTab(t) /\ tab'[t] = x
    BY <1>1, <2>1, <2>2, OneTabNow
  <2> QED
    BY <1>2, <1>4, <2>1, <2>2, <2>3 DEF Held
<1>5. CASE OpenGraph(t) /\ tab[t].stake = "queued"
  BY <1>1, <1>2, <1>5 DEF OpenGraph, OneTab, Others, Held
<1> QED
  BY <1>3, <1>4, <1>5 DEF OpenGraph, LockGranted

LEMMA StaleTab ==
    ASSUME TInv, NEW t \in Tabs, LockGrantedStale(t)
    PROVE  /\ OneTab(t) /\ SameRest(t) /\ tab'[t].leaving = "none" /\ tab[t].leaving = "queued"
           /\ tab'[t].teardowns = tab[t].teardowns /\ tab'[t].stage = tab[t].stage
<1>1. TabTyped /\ tab[t] \in TabRecs /\ tab \in [Tabs -> TabRecs]
  BY DEF TInv, TabTyped
<1> DEFINE x == [tab[t] EXCEPT !.leaving = "none"]
<1>2. tab' = [tab EXCEPT ![t] = x]
  BY <1>1, Zenon DEF LockGrantedStale
<1>3. /\ x \in TabRecs /\ x.ctl = tab[t].ctl /\ x.alive = tab[t].alive
      /\ x.teardowns = tab[t].teardowns /\ x.stage = tab[t].stage
      /\ x.leaving = "none" /\ x.old = tab[t].old
      /\ x.stake = tab[t].stake /\ x.worker = tab[t].worker
  BY <1>1 DEF TabRecs
<1> HIDE DEF x
<1>4. OneTab(t) /\ tab'[t] = x
  BY <1>1, <1>2, <1>3, OneTabNow
<1> QED
  BY <1>3, <1>4 DEF SameRest, LockGrantedStale

LEMMA CloseTab ==
    ASSUME TInv, NEW t \in Tabs, WorkerClosed(t) \/ CloseTimeout(t)
    PROVE  /\ OneTab(t) /\ SameRest(t) /\ tab[t].stage = "closing"
           /\ tab'[t].stage = IF WorkerClosed(t) THEN "remove" ELSE "removeRetry"
           /\ tab'[t].teardowns = tab[t].teardowns /\ tab'[t].leaving = tab[t].leaving
<1>1. TabTyped /\ tab[t] \in TabRecs /\ tab \in [Tabs -> TabRecs]
  BY DEF TInv, TabTyped
<1>0. PICK s \in {"remove", "removeRetry"} : s = IF WorkerClosed(t) THEN "remove" ELSE "removeRetry"
  OBVIOUS
<1> DEFINE x == [tab[t] EXCEPT !.stage = s]
<1>2. tab' = [tab EXCEPT ![t] = x] /\ tab[t].stage = "closing"
  <2>1. tab' = [tab EXCEPT ![t].stage = s] /\ tab[t].stage = "closing"
    BY <1>0 DEF WorkerClosed, CloseTimeout
  <2> QED
    BY <1>1, <2>1, Zenon
<1>3. /\ x \in TabRecs /\ x.ctl = tab[t].ctl /\ x.alive = tab[t].alive
      /\ x.teardowns = tab[t].teardowns /\ x.stage = s
      /\ x.leaving = tab[t].leaving /\ x.old = tab[t].old
      /\ x.stake = tab[t].stake /\ x.worker = tab[t].worker
  BY <1>1 DEF TabRecs
<1> HIDE DEF x
<1>4. OneTab(t) /\ tab'[t] = x
  BY <1>1, <1>2, <1>3, OneTabNow
<1> QED
  BY <1>0, <1>2, <1>3, <1>4 DEF SameRest

LEMMA DeadTab ==
    ASSUME TInv, NEW t \in Tabs, TabDies(t)
    PROVE  /\ Others(t) /\ tab' = [u \in Tabs |-> tab'[u]] /\ tab'[t] \in TabRecs /\ tab[t].alive
           /\ ~tab'[t].alive /\ tab'[t].teardowns = << >> /\ tab'[t].stage = "none" /\ tab'[t].leaving = "none"
           /\ tab'[t].stake = "none" /\ tab'[t].old = 0 /\ tab'[t].worker = 0
<1>1. TabTyped /\ tab[t] \in TabRecs /\ tab \in [Tabs -> TabRecs]
  BY DEF TInv, TabTyped
<1>0. PICK none \in Seq(Destroys), zero \in Nat : none = << >> /\ zero = 0
  BY EmptySeq
<1> DEFINE x == [tab[t] EXCEPT !.alive = FALSE, !.ctl = zero, !.stake = "none", !.worker = zero,
                               !.teardowns = none, !.stage = "none", !.leaving = "none", !.old = zero]
<1>2. tab' = [tab EXCEPT ![t] = x] /\ tab[t].alive
  BY <1>0 DEF TabDies
<1>3. /\ x \in TabRecs /\ ~x.alive /\ x.teardowns = none /\ x.stage = "none"
      /\ x.leaving = "none" /\ x.old = zero /\ x.stake = "none" /\ x.worker = zero
  BY <1>1 DEF TabRecs
<1> HIDE DEF x
<1>4. Others(t) /\ tab' = [u \in Tabs |-> tab'[u]] /\ tab'[t] = x
  BY <1>1, <1>2 DEF Others
<1> QED
  BY <1>0, <1>2, <1>3, <1>4

\* A teardown starts, or queues behind the one under way.
LEMMA DestroyTab ==
    ASSUME IInv, TInv, NEW t \in Tabs, DestroyGraph(t)
    PROVE  \E i \in 1 .. Len(inbox[t]), d \in Destroys :
              /\ inbox[t][i] = DestroyMsg(d) /\ inbox' = [inbox EXCEPT ![t] = RemoveAt(inbox[t], i)]
              /\ OneTab(t) /\ tab[t].alive /\ tab'[t].alive
              /\ tab'[t].teardowns = Append(tab[t].teardowns, d)
              /\ IF tab[t].teardowns = << >>
                 THEN /\ tab'[t].stage = (IF tab[t].worker = 0 THEN "remove" ELSE "closing")
                      /\ tab'[t].leaving = tab[t].stake /\ tab'[t].old = tab[t].worker
                      /\ tab'[t].stake = "none" /\ tab'[t].worker = 0
                 ELSE SameRest(t) /\ tab'[t].leaving = tab[t].leaving /\ tab'[t].stage = tab[t].stage
<1>1. TabTyped /\ tab[t] \in TabRecs /\ tab \in [Tabs -> TabRecs] /\ inbox[t] \in Seq(Messages) /\ tab[t].alive
  BY DEF TInv, TabTyped, InboxTyped, DestroyGraph
<1>2. PICK i \in DOMAIN inbox[t] :
        /\ inbox[t][i].op = "destroy"
        /\ inbox' = [inbox EXCEPT ![t] = RemoveAt(@, i)]
        /\ LET queued == [tab[t] EXCEPT !.teardowns = Append(@, inbox[t][i].d)]
           IN  tab' = [tab EXCEPT ![t] = IF tab[t].teardowns = << >> THEN Started(queued) ELSE queued]
  BY DEF DestroyGraph
<1>3. i \in 1 .. Len(inbox[t]) /\ inbox[t][i] \in Messages
  BY <1>1
<1>4. inbox[t][i].d \in Destroys /\ inbox[t][i] = DestroyMsg(inbox[t][i].d)
  BY <1>2, <1>3, MessageKinds
<1> DEFINE d == inbox[t][i].d
           q == [tab[t] EXCEPT !.teardowns = Append(@, d)]
           s == IF q.worker = 0 THEN "remove" ELSE "closing"
           rec == IF tab[t].teardowns = << >> THEN Started(q) ELSE q
<1>5. Append(tab[t].teardowns, d) \in Seq(Destroys)
  BY <1>1, <1>4, AppendProperties DEF TabRecs
<1>6. /\ q \in TabRecs /\ q.ctl = tab[t].ctl /\ q.alive = tab[t].alive
      /\ q.teardowns = Append(tab[t].teardowns, d) /\ q.stage = tab[t].stage
      /\ q.leaving = tab[t].leaving /\ q.old = tab[t].old
      /\ q.stake = tab[t].stake /\ q.worker = tab[t].worker
  BY <1>1, <1>5 DEF TabRecs
<1>7. tab' = [tab EXCEPT ![t] = rec]
  BY <1>2
<1>8. d \in Destroys /\ inbox[t][i] = DestroyMsg(d) /\ inbox' = [inbox EXCEPT ![t] = RemoveAt(inbox[t], i)]
  BY <1>2, <1>4
<1> HIDE DEF q, d
<1>9. CASE tab[t].teardowns = << >>
  <2> DEFINE z == [q EXCEPT !.stage = s, !.leaving = q.stake, !.old = q.worker, !.stake = "none", !.worker = 0]
  <2>1. rec = z
    BY <1>9 DEF Started
  <2>2. s \in {"remove", "closing"}
    OBVIOUS
  <2> HIDE DEF s
  <2>3. /\ z \in TabRecs /\ z.ctl = q.ctl /\ z.alive = q.alive /\ z.teardowns = q.teardowns /\ z.stage = s
        /\ z.leaving = q.stake /\ z.old = q.worker /\ z.stake = "none" /\ z.worker = 0
    BY <1>6, <2>2 DEF TabRecs
  <2> HIDE DEF z, rec
  <2>4. OneTab(t) /\ tab'[t] = z
    BY <1>1, <1>6, <1>7, <2>1, <2>3, OneTabNow
  <2> QED
    BY <1>1, <1>3, <1>6, <1>8, <1>9, <2>3, <2>4 DEF s
<1>10. CASE tab[t].teardowns # << >>
  <2>1. rec = q
    BY <1>10
  <2> HIDE DEF rec
  <2>4. OneTab(t) /\ tab'[t] = q
    BY <1>1, <1>6, <1>7, <2>1, OneTabNow
  <2> QED
    BY <1>1, <1>3, <1>6, <1>8, <1>10, <2>4 DEF SameRest
<1> QED
  BY <1>9, <1>10

\* A teardown is over, and the next one starts.
LEMMA FinishTab ==
    ASSUME IInv, TInv, NEW t \in Tabs, RemoveDirectory(t) \/ RemoveRefused(t)
    PROVE  /\ OneTab(t) /\ tab'[t].alive = tab[t].alive /\ tab'[t].teardowns = Tail(tab[t].teardowns)
           /\ tab'[t].stage = (IF Tail(tab[t].teardowns) = << >> THEN "none" ELSE "remove")
           /\ tab'[t].stake = "none" /\ tab'[t].worker = 0 /\ tab'[t].leaving = "none" /\ tab'[t].old = 0
<1>1. TabTyped /\ tab[t] \in TabRecs /\ tab \in [Tabs -> TabRecs] /\ Leaves(t) /\ Idle(t)
  BY DEF TInv, TabTyped, IInv
<1>2. tab[t].stage # "none"
  BY DEF RemoveDirectory, RemoveRefused
<1>3. /\ tab[t].teardowns # << >> /\ tab[t].stake = "none" /\ tab[t].worker = 0
      /\ Tail(tab[t].teardowns) \in Seq(Destroys)
  <2>1. tab[t].teardowns # << >> /\ tab[t].teardowns \in Seq(Destroys)
    BY <1>2, EndsTeardown
  <2>2. Tail(tab[t].teardowns) \in Seq(Destroys)
    BY <2>1, HeadTailProperties
  <2> QED
    BY <1>1, <2>1, <2>2 DEF Leaves, Idle
<1> DEFINE q == [tab[t] EXCEPT !.teardowns = Tail(@), !.stage = "none", !.leaving = "none", !.old = 0]
           rec == IF q.teardowns = << >> THEN q ELSE Started(q)
<1>4. tab' = [tab EXCEPT ![t] = rec]
  BY DEF RemoveDirectory, RemoveRefused, Finish
<1>5. /\ q \in TabRecs /\ q.ctl = tab[t].ctl /\ q.alive = tab[t].alive
      /\ q.teardowns = Tail(tab[t].teardowns) /\ q.stage = "none"
      /\ q.leaving = "none" /\ q.old = 0 /\ q.stake = "none" /\ q.worker = 0
  BY <1>1, <1>3 DEF TabRecs
<1> HIDE DEF q
<1>6. CASE q.teardowns = << >>
  <2>1. rec = q
    BY <1>6
  <2> HIDE DEF rec
  <2>4. OneTab(t) /\ tab'[t] = q
    BY <1>1, <1>4, <1>5, <2>1, OneTabNow
  <2> QED
    BY <1>5, <1>6, <2>4
<1>7. CASE q.teardowns # << >>
  <2> DEFINE z == [q EXCEPT !.stage = "remove", !.leaving = "none", !.old = 0, !.stake = "none", !.worker = 0]
  <2>1. rec = z
    BY <1>5, <1>7 DEF Started
  <2>3. /\ z \in TabRecs /\ z.ctl = q.ctl /\ z.alive = q.alive /\ z.teardowns = q.teardowns /\ z.stage = "remove"
        /\ z.leaving = "none" /\ z.old = 0 /\ z.stake = "none" /\ z.worker = 0
    BY <1>5 DEF TabRecs
  <2> HIDE DEF z, rec
  <2>4. OneTab(t) /\ tab'[t] = z
    BY <1>1, <1>4, <1>5, <2>1, <2>3, OneTabNow
  <2> QED
    BY <1>5, <1>7, <2>3, <2>4
<1> QED
  BY <1>6, <1>7

\* What a tab does or has, but for the control ports it still owes.
Same(t) ==
    /\ tab'[t].alive = tab[t].alive /\ tab'[t].stake = tab[t].stake /\ tab'[t].worker = tab[t].worker
    /\ tab'[t].teardowns = tab[t].teardowns /\ tab'[t].stage = tab[t].stage
    /\ tab'[t].leaving = tab[t].leaving /\ tab'[t].old = tab[t].old

LEMMA EdgeTabs ==
    ASSUME TInv, EdgeMoves
    PROVE  TabTyped' /\ \A t \in Tabs : Same(t)
<1>1. tab \in [Tabs -> TabRecs]
  BY DEF TInv, TabTyped
<1>2. CASE tab' = tab
  BY <1>1, <1>2 DEF TabTyped, Same
<1>3. CASE tab' = Solicited
  <2>1. ASSUME NEW t \in Tabs
        PROVE  tab'[t] \in TabRecs /\ Same(t)
    <3> DEFINE x == [tab[t] EXCEPT !.ctl = tab[t].ctl + 1]
    <3>1. tab[t] \in TabRecs
      BY <1>1
    <3>2. tab'[t] = x \/ tab'[t] = tab[t]
      BY <1>3 DEF Solicited
    <3>3. /\ x \in TabRecs /\ x.alive = tab[t].alive /\ x.stake = tab[t].stake /\ x.worker = tab[t].worker
          /\ x.teardowns = tab[t].teardowns /\ x.stage = tab[t].stage
          /\ x.leaving = tab[t].leaving /\ x.old = tab[t].old
      BY <3>1 DEF TabRecs
    <3> HIDE DEF x
    <3> QED
      BY <3>1, <3>2, <3>3 DEF Same
  <2>2. tab' = [t \in Tabs |-> tab'[t]]
    BY <1>3 DEF Solicited
  <2>3. tab' \in [Tabs -> TabRecs]
    BY <2>1, <2>2
  <2> QED
    BY <2>1, <2>3 DEF TabTyped
<1>4. CASE \E t \in Tabs : tab[t].alive /\ tab[t].ctl > 0 /\ tab' = [tab EXCEPT ![t].ctl = @ - 1]
  <2>1. PICK c \in Tabs : tab[c].alive /\ tab[c].ctl > 0 /\ tab' = [tab EXCEPT ![c].ctl = @ - 1]
    BY <1>4
  <2> DEFINE x == [tab[c] EXCEPT !.ctl = tab[c].ctl - 1]
  <2>2. tab' = [tab EXCEPT ![c] = x]
    BY <1>1, <2>1, Zenon
  <2>3. tab[c] \in TabRecs /\ tab[c].ctl - 1 \in Nat
    BY <1>1, <2>1 DEF TabRecs
  <2>4. /\ x \in TabRecs /\ x.alive = tab[c].alive /\ x.stake = tab[c].stake /\ x.worker = tab[c].worker
        /\ x.teardowns = tab[c].teardowns /\ x.stage = tab[c].stage
        /\ x.leaving = tab[c].leaving /\ x.old = tab[c].old
    BY <2>3 DEF TabRecs
  <2> HIDE DEF x
  <2>5. tab' \in [Tabs -> TabRecs] /\ tab'[c] = x /\ \A t \in Tabs \ {c} : tab'[t] = tab[t]
    BY <1>1, <2>2, <2>4
  <2> QED
    BY <2>4, <2>5 DEF TabTyped, Same
<1> QED
  BY <1>2, <1>3, <1>4, EdgeFrame

\* Who keeps what it leads with, keeps leading a Worker of its own.
LEMMA ManagesStay ==
    ASSUME Grown, NEW t \in Tabs, Manages(t), Same(t)
    PROVE  Manages(t)'
BY DEF Grown, Manages, Same

LEMMA OneTabTyped ==
    ASSUME TInv, NEW t \in Tabs, OneTab(t)
    PROVE  TabTyped' /\ \A u \in Tabs \ {t} : Same(u)
<1>1. tab \in [Tabs -> TabRecs] /\ \A u \in Tabs \ {t} : tab'[u] = tab[u]
  BY DEF TInv, TabTyped, OneTab, Others
<1>2. tab' = [u \in Tabs |-> tab'[u]] /\ tab'[t] \in TabRecs
  BY DEF OneTab
<1>3. \A u \in Tabs : tab'[u] \in TabRecs
  BY <1>1, <1>2
<1>4. tab' \in [Tabs -> TabRecs]
  BY <1>2, <1>3
<1> QED
  BY <1>1, <1>4 DEF TabTyped, Same

LEMMA TabsStep == ASSUME IInv, TInv, [Next]_vars, Grown PROVE TabTyped' /\ \A t \in Tabs : Manages(t)'
<1>1. tab \in [Tabs -> TabRecs] /\ \A t \in Tabs : Manages(t) /\ tab[t] \in TabRecs /\ Leaves(t)
  BY DEF TInv, TabTyped, IInv
<1>2. CASE EdgeMoves
  BY <1>1, <1>2, EdgeTabs, ManagesStay
<1>3. CASE tab' = tab
  BY <1>1, <1>3, ManagesStay DEF TabTyped, Same
<1>4. ASSUME NEW t \in Tabs, OneTab(t), Manages(t)'
      PROVE  TabTyped' /\ \A u \in Tabs : Manages(u)'
  <2>1. TabTyped' /\ \A u \in Tabs \ {t} : Same(u)
    BY <1>4, OneTabTyped
  <2>2. \A u \in Tabs \ {t} : Manages(u)'
    BY <1>1, <2>1, ManagesStay
  <2> QED
    BY <1>4, <2>1, <2>2
<1>5. CASE \E t \in Tabs : OpenGraph(t) \/ LockGranted(t)
  <2>1. PICK t \in Tabs : OpenGraph(t) \/ LockGranted(t)
    BY <1>5
  <2>2. OneTab(t) /\ Held(t) /\ tab[t].alive
    BY <2>1, OpenTab
  <2>3. CASE Deliver(t) /\ tab'[t].stake = "leader" /\ tab'[t].worker = LedWith(t)
    <3>1. LedWith(t) \in DOMAIN workers' /\ workers'[LedWith(t)].owner = t
      BY <2>3, Delivered
    <3>2. Manages(t)'
      BY <1>1, <2>2, <2>3, <3>1 DEF Manages, Held, Grown
    <3> QED
      BY <1>4, <2>2, <3>2
  <2>4. CASE tab'[t].worker = tab[t].worker
    <3>1. Manages(t)'
      BY <1>1, <2>2, <2>4 DEF Manages, Held, Grown
    <3> QED
      BY <1>4, <2>2, <3>1
  <2> QED
    BY <2>1, <2>3, <2>4, OpenTab
<1>6. CASE \E t \in Tabs : LockGrantedStale(t)
  <2>1. PICK t \in Tabs : LockGrantedStale(t)
    BY <1>6
  <2>2. OneTab(t) /\ SameRest(t) /\ tab'[t].leaving = "none" /\ tab'[t].teardowns = tab[t].teardowns /\ tab'[t].stage = tab[t].stage
    BY <2>1, StaleTab
  <2>3. Manages(t)'
    BY <1>1, <2>2 DEF Manages, SameRest, Grown
  <2> QED
    BY <1>4, <2>2, <2>3
<1>7. CASE \E t \in Tabs : WorkerClosed(t) \/ CloseTimeout(t)
  <2>1. PICK t \in Tabs : WorkerClosed(t) \/ CloseTimeout(t)
    BY <1>7
  <2>2. /\ OneTab(t) /\ SameRest(t) /\ tab'[t].teardowns = tab[t].teardowns /\ tab'[t].leaving = tab[t].leaving
        /\ tab[t].stage = "closing" /\ tab'[t].stage # "closing"
    BY <2>1, CloseTab
  <2>3. Manages(t)'
    BY <1>1, <2>2 DEF Manages, SameRest, Grown
  <2> QED
    BY <1>4, <2>2, <2>3
<1>8. CASE \E t \in Tabs : DestroyGraph(t)
  <2>1. PICK t \in Tabs : DestroyGraph(t)
    BY <1>8
  <2>2. PICK i \in 1 .. Len(inbox[t]), d \in Destroys :
              /\ OneTab(t) /\ tab[t].alive /\ tab'[t].alive
              /\ IF tab[t].teardowns = << >>
                 THEN /\ tab'[t].stage = (IF tab[t].worker = 0 THEN "remove" ELSE "closing")
                      /\ tab'[t].leaving = tab[t].stake /\ tab'[t].old = tab[t].worker
                      /\ tab'[t].stake = "none" /\ tab'[t].worker = 0
                 ELSE SameRest(t) /\ tab'[t].leaving = tab[t].leaving /\ tab'[t].stage = tab[t].stage
    BY <2>1, DestroyTab
  <2>3. Manages(t)'
    BY <1>1, <2>2 DEF Manages, SameRest, Grown
  <2> QED
    BY <1>4, <2>2, <2>3
<1>9. CASE \E t \in Tabs : RemoveDirectory(t) \/ RemoveRefused(t)
  <2>1. PICK t \in Tabs : RemoveDirectory(t) \/ RemoveRefused(t)
    BY <1>9
  <2>2. /\ OneTab(t) /\ tab'[t].alive = tab[t].alive
        /\ tab'[t].stage \in {"none", "remove"}
        /\ tab'[t].stake = "none" /\ tab'[t].worker = 0 /\ tab'[t].leaving = "none" /\ tab'[t].old = 0
    BY <2>1, FinishTab
  <2>3. tab[t].alive
    BY <2>1, EndsTeardown DEF RemoveDirectory, RemoveRefused
  <2>4. Manages(t)'
    BY <2>2, <2>3 DEF Manages
  <2> QED
    BY <1>4, <2>2, <2>4
<1>10. CASE \E t \in Tabs : TabDies(t)
  <2>1. PICK t \in Tabs : TabDies(t)
    BY <1>10
  <2>2. /\ Others(t) /\ tab' = [u \in Tabs |-> tab'[u]] /\ tab'[t] \in TabRecs
        /\ ~tab'[t].alive /\ tab'[t].teardowns = << >> /\ tab'[t].stage = "none" /\ tab'[t].leaving = "none"
        /\ tab'[t].stake = "none" /\ tab'[t].old = 0 /\ tab'[t].worker = 0
    BY <2>1, DeadTab
  <2>3. \A u \in Tabs \ {t} : Same(u) /\ tab'[u] = tab[u]
    BY <2>2 DEF Others, Same
  <2>4. \A u \in Tabs \ {t} : Manages(u)'
    BY <1>1, <2>3, ManagesStay
  <2>5. Manages(t)'
    BY <2>2 DEF Manages
  <2>6. \A u \in Tabs : tab'[u] \in TabRecs
    BY <1>1, <2>2, <2>3
  <2>7. tab' \in [Tabs -> TabRecs]
    BY <2>2, <2>6
  <2> QED
    BY <2>4, <2>5, <2>7 DEF TabTyped
<1> QED
  BY <1>2, <1>3, <1>5, <1>6, <1>7, <1>8, <1>9, <1>10, Moves, WorkerFrame DEF TabMoves, vars

\* The messages ------------------------------------------------------------------------------

\* What the Service Worker adds to the inboxes: solicitations and destroys.
Posts(t, q) == q \in Seq(Messages) /\ inbox'[t] = inbox[t] \o q

LEMMA Asks ==
    ASSUME TInv, NEW m \in Messages, inbox' = [t \in Tabs |-> inbox[t] \o Times(sw.sessions[t], m)], NEW t \in Tabs
    PROVE  Posts(t, Times(sw.sessions[t], m)) /\ sw.sessions[t] \in Nat
<1>1. sw.sessions[t] \in Nat
  BY DEF TInv, SwTyped, SwRecs
<1>2. Times(sw.sessions[t], m) \in [1 .. sw.sessions[t] -> Messages]
  BY DEF Times
<1>3. Times(sw.sessions[t], m) \in Seq(Messages)
  BY <1>1, <1>2, SeqDef
<1> QED
  BY <1>1, <1>3 DEF Posts

LEMMA InboxStep == ASSUME IInv, TInv, [Next]_vars, Grown PROVE InboxTyped'
<1>1. inbox \in [Tabs -> Seq(Messages)]
  BY DEF TInv, InboxTyped
<1>2. CASE inbox' = inbox
  BY <1>1, <1>2 DEF InboxTyped
<1>3. ASSUME inbox' = [t \in Tabs |-> inbox'[t]], \A t \in Tabs : inbox'[t] \in Seq(Messages)
      PROVE  InboxTyped'
  BY <1>3 DEF InboxTyped
<1>4. ASSUME NEW m \in Messages, inbox' = [t \in Tabs |-> inbox[t] \o Times(sw.sessions[t], m)]
      PROVE  InboxTyped'
  <2>1. ASSUME NEW t \in Tabs PROVE inbox'[t] \in Seq(Messages)
    BY <1>1, <1>4, Asks, ConcatProperties DEF Posts
  <2>2. inbox' = [t \in Tabs |-> inbox'[t]]
    BY <1>4
  <2> QED
    BY <1>3, <2>1, <2>2
<1>5. ASSUME NEW t \in Tabs, NEW q \in Seq(Messages), inbox' = [inbox EXCEPT ![t] = q]
      PROVE  InboxTyped'
  BY <1>1, <1>5 DEF InboxTyped
<1>6. CASE \E t \in Tabs : ControlPort(t)
  <2>1. PICK t \in Tabs, extra \in Seq(Messages) : inbox' = [inbox EXCEPT ![t] = inbox[t] \o extra]
    BY <1>6, Woken
  <2>2. inbox[t] \o extra \in Seq(Messages)
    BY <1>1, ConcatProperties
  <2> QED
    BY <1>5, <2>1, <2>2
<1>7. CASE EdgeMoves
  <2>1. CASE \E r \in Requests : RequestSolicits(r)
    BY <1>2, <1>4, <2>1, MessageKinds DEF RequestSolicits
  <2>2. CASE \E d \in Destroys : DestroyCall(d)
    <3>1. PICK d \in Destroys : inbox' = [t \in Tabs |-> inbox[t] \o Times(sw.sessions[t], DestroyMsg(d))]
      BY <2>2 DEF DestroyCall
    <3> QED
      BY <1>4, <3>1, MessageKinds
  <2> QED
    BY <1>2, <1>6, <1>7, <2>1, <2>2 DEF EdgeMoves, RequestOnStub, DestroySettled, Reply, FactoryTimeout,
       DuplicatePort, AcceptPort, SWReaped, tabVars
<1>8. CASE TabMoves
  <2>1. CASE \E t \in Tabs : OpenGraph(t)
    <3>1. PICK t \in Tabs : OpenGraph(t)
      BY <2>1
    <3>2. inbox[t] \in Seq(Messages) /\ inbox[t] # << >> /\ inbox' = [inbox EXCEPT ![t] = Tail(inbox[t])]
      BY <1>1, <3>1 DEF OpenGraph
    <3>3. Tail(inbox[t]) \in Seq(Messages)
      BY <3>2, HeadTailProperties
    <3> QED
      BY <1>5, <3>2, <3>3
  <2>2. CASE \E t \in Tabs : DestroyGraph(t)
    <3>0. PICK t \in Tabs : DestroyGraph(t)
      BY <2>2
    <3>1. PICK i \in 1 .. Len(inbox[t]) : inbox' = [inbox EXCEPT ![t] = RemoveAt(inbox[t], i)]
      BY <3>0, DestroyTab
    <3>2. RemoveAt(inbox[t], i) \in Seq(Messages)
      BY <1>1, CountRemoveAt
    <3> QED
      BY <1>5, <3>1, <3>2
  <2>3. CASE \E t \in Tabs : TabDies(t)
    <3>1. PICK t \in Tabs, q \in Seq(Messages) : inbox' = [inbox EXCEPT ![t] = q]
      BY <2>3, EmptySeq DEF TabDies
    <3> QED
      BY <1>5, <3>1
  <2> QED
    BY <1>2, <1>8, <2>1, <2>2, <2>3 DEF TabMoves, LockGranted, LockGrantedStale, WorkerClosed, CloseTimeout,
       RemoveDirectory, RemoveRefused
<1> QED
  BY <1>2, <1>7, <1>8, Moves, WorkerFrame DEF vars

\* What a destroy waits for ---------------------------------------------------------------------

Pending(t, d) == Count(inbox[t], DestroyMsg(d)) + Count(tab[t].teardowns, d)
\* Nothing is added to what a destroy waits for, and it waits for no less.
Fewer(t, d) ==
    /\ Count(inbox'[t], DestroyMsg(d)) + Count(tab'[t].teardowns, d) <= Pending(t, d)
    /\ dst'[d].waiting[t] = dst[d].waiting[t]

LEMMA PendingNat ==
    ASSUME TInv, NEW t \in Tabs, NEW d \in Destroys
    PROVE  /\ Count(inbox[t], DestroyMsg(d)) \in Nat /\ Count(tab[t].teardowns, d) \in Nat
           /\ inbox[t] \in Seq(Messages) /\ tab[t].teardowns \in Seq(Destroys)
           /\ dst[d].waiting[t] \in Nat /\ dst[d] \in DstRecs /\ sw.sessions[t] \in Nat
           /\ Pending(t, d) <= dst[d].waiting[t]
           /\ dst[d].pc # "asked" => /\ Count(inbox[t], DestroyMsg(d)) = 0 /\ Count(tab[t].teardowns, d) = 0
                                     /\ dst[d].waiting[t] = 0
<1>1. inbox[t] \in Seq(Messages) /\ tab[t].teardowns \in Seq(Destroys)
  BY DEF TInv, InboxTyped, TabTyped, TabRecs
<1>2. Count(inbox[t], DestroyMsg(d)) \in Nat /\ Count(tab[t].teardowns, d) \in Nat
  BY <1>1, CountNat
<1>3. dst[d].waiting[t] \in Nat /\ dst[d] \in DstRecs /\ sw.sessions[t] \in Nat
  BY DEF TInv, DstTyped, DstRecs, SwTyped, SwRecs
<1>4. Awaited(t, d)
  BY DEF TInv, Counted
<1> QED
  BY <1>1, <1>2, <1>3, <1>4 DEF Awaited, Pending

\* A destroy waits for somebody only while it is asked.
LEMMA WaitsAsked ==
    ASSUME IInv, TInv, [Next]_vars, NEW t \in Tabs, NEW d \in Destroys, dst'[d].pc # "asked"
    PROVE  dst'[d].waiting[t] = 0
<1>1. /\ dst[d].waiting[t] \in Nat /\ (dst[d].pc # "asked" => dst[d].waiting[t] = 0) /\ sw.sessions[t] \in Nat
  BY PendingNat
<1>2. CASE dst'[d] = dst[d]
  BY <1>1, <1>2
<1>3. CASE Called(d)
  BY <1>1, <1>3 DEF Called, Connected
<1>4. CASE Closes(d)
  BY <1>1, <1>4 DEF Closes
<1> QED
  BY <1>2, <1>3, <1>4, DstMoves DEF Awakes, GoesOn, AnsweredBy

\* The messages of one destroy are no other's.
LEMMA MoreMessages ==
    ASSUME TInv, NEW t \in Tabs, NEW d \in Destroys, NEW m \in Messages, NEW n \in Nat, n = sw.sessions[t],
           inbox' = [u \in Tabs |-> inbox[u] \o Times(sw.sessions[u], m)]
    PROVE  Count(inbox'[t], DestroyMsg(d)) <= Count(inbox[t], DestroyMsg(d)) + (IF m = DestroyMsg(d) THEN n ELSE 0)
<1>1. Posts(t, Times(n, m)) /\ n \in Nat
  BY Asks
<1>2. inbox[t] \in Seq(Messages) /\ Times(n, m) \in Seq(Messages) /\ inbox'[t] = inbox[t] \o Times(n, m)
  BY <1>1 DEF TInv, InboxTyped, Posts
<1>3. Count(Times(n, m), DestroyMsg(d)) <= IF m = DestroyMsg(d) THEN n ELSE 0
  BY <1>1, CountTimes
<1>4. Count(inbox'[t], DestroyMsg(d)) <= Count(inbox[t], DestroyMsg(d)) + Count(Times(n, m), DestroyMsg(d))
  BY <1>2, CountConcat
<1>5. inbox'[t] \in Seq(Messages)
  BY <1>2, ConcatProperties
<1>6. /\ Count(inbox'[t], DestroyMsg(d)) \in Nat /\ Count(inbox[t], DestroyMsg(d)) \in Nat
      /\ Count(Times(n, m), DestroyMsg(d)) \in Nat
  BY <1>2, <1>5, CountNat
<1> QED
  BY <1>3, <1>4, <1>6

LEMMA AsksCounted ==
    ASSUME IInv, TInv, NEW c \in Destroys, DestroyCall(c), NEW t \in Tabs, NEW d \in Destroys
    PROVE  Count(inbox'[t], DestroyMsg(d)) + Count(tab'[t].teardowns, d) <= dst'[d].waiting[t]
<1>1. inbox' = [u \in Tabs |-> inbox[u] \o Times(sw.sessions[u], DestroyMsg(c))] /\ DestroyMsg(c) \in Messages
  BY MessageKinds DEF DestroyCall
<1>2. tab'[t].teardowns = tab[t].teardowns
  BY EdgeTabs DEF EdgeMoves, Same
<1>3. /\ sw.sessions[t] \in Nat /\ Count(inbox[t], DestroyMsg(d)) \in Nat /\ Count(tab[t].teardowns, d) \in Nat
      /\ dst[d].waiting[t] \in Nat /\ Pending(t, d) <= dst[d].waiting[t]
  BY PendingNat
<1>4. Count(inbox'[t], DestroyMsg(d)) <= Count(inbox[t], DestroyMsg(d))
                                           + (IF DestroyMsg(c) = DestroyMsg(d) THEN sw.sessions[t] ELSE 0)
  BY <1>1, <1>3, MoreMessages
<1>5. inbox'[t] \in Seq(Messages)
  <2>1. Posts(t, Times(sw.sessions[t], DestroyMsg(c)))
    BY <1>1, Asks
  <2> QED
    BY <2>1, ConcatProperties DEF Posts, TInv, InboxTyped
<1>6. Count(inbox'[t], DestroyMsg(d)) \in Nat
  BY <1>5, CountNat
<1>7. CASE c = d
  <2>1. dst[d].pc = "idle" /\ dst'[d].pc # "idle"
    <3>1. dst \in [Destroys -> DstRecs] /\ dst[d] \in DstRecs
      BY DEF TInv, DstTyped
    <3> DEFINE pc == IF Connected(sw.sessions) # {} THEN "asked" ELSE "factories"
    <3>2. dst[d].pc = "idle" /\ dst'[d].pc = pc
      BY <1>7, <3>1 DEF DestroyCall, DstRecs
    <3> QED
      BY <3>2
  <2>2. Called(d)
    BY <1>7, <2>1, CallMoves
  <2>3. dst'[d].waiting[t] = sw.sessions[t]
    BY <2>2 DEF Called
  <2>4. Count(inbox[t], DestroyMsg(d)) = 0 /\ Count(tab[t].teardowns, d) = 0
    BY <2>1, PendingNat
  <2> QED
    BY <1>2, <1>3, <1>4, <1>6, <1>7, <2>3, <2>4
<1>8. CASE c # d
  <2>1. dst'[d] = dst[d]
    BY <1>8 DEF DestroyCall, TInv, DstTyped
  <2>2. DestroyMsg(c) # DestroyMsg(d)
    BY <1>8, MessageKinds
  <2>3. Count(inbox'[t], DestroyMsg(d)) <= Count(inbox[t], DestroyMsg(d))
    BY <1>3, <1>4, <1>6, <2>2
  <2> QED
    BY <1>2, <1>3, <1>6, <2>1, <2>3 DEF Pending
<1> QED
  BY <1>7, <1>8

LEMMA WakesCounted ==
    ASSUME IInv, TInv, NEW c \in Tabs, ControlPort(c), sw'.sessions \in [Tabs -> Nat],
           NEW t \in Tabs, NEW d \in Destroys
    PROVE  Count(inbox'[t], DestroyMsg(d)) + Count(tab'[t].teardowns, d) <= dst'[d].waiting[t]
<1>1. PICK extra \in Seq(Messages) :
              /\ inbox' = [inbox EXCEPT ![c] = inbox[c] \o extra]
              /\ Count(extra, DestroyMsg(d)) <= IF dst[d].pc = "factories" THEN 1 ELSE 0
  BY Woken
<1>2. tab'[t].teardowns = tab[t].teardowns
  BY EdgeTabs DEF EdgeMoves, Same
<1>3. /\ sw.sessions[t] \in Nat /\ Count(inbox[t], DestroyMsg(d)) \in Nat /\ Count(tab[t].teardowns, d) \in Nat
      /\ dst[d].waiting[t] \in Nat /\ Pending(t, d) <= dst[d].waiting[t] /\ inbox[t] \in Seq(Messages)
  BY PendingNat
<1>4. inbox'[t] = IF t = c THEN inbox[t] \o extra ELSE inbox[t]
  BY <1>1 DEF TInv, InboxTyped
<1>5. Count(extra, DestroyMsg(d)) \in Nat /\ inbox'[t] \in Seq(Messages) /\ Count(inbox'[t], DestroyMsg(d)) \in Nat
  <2>1. inbox'[t] \in Seq(Messages)
    BY <1>3, <1>4, ConcatProperties
  <2> QED
    BY <2>1, CountNat
<1>6. Count(inbox'[t], DestroyMsg(d)) <= Count(inbox[t], DestroyMsg(d))
                                           + (IF t = c /\ dst[d].pc = "factories" THEN 1 ELSE 0)
  <2>1. CASE t = c
    <3>1. Count(inbox'[t], DestroyMsg(d)) <= Count(inbox[t], DestroyMsg(d)) + Count(extra, DestroyMsg(d))
      BY <1>3, <1>4, <2>1, CountConcat
    <3> QED
      BY <1>1, <1>3, <1>5, <2>1, <3>1
  <2>2. CASE t # c
    BY <1>3, <1>4, <2>2
  <2> QED
    BY <2>1, <2>2
<1>7. CASE dst[d].pc = "factories"
  <2>1. Count(inbox[t], DestroyMsg(d)) = 0 /\ Count(tab[t].teardowns, d) = 0
    BY <1>7, PendingNat
  <2>2. dst'[d].waiting = sw'.sessions
    <3> DEFINE s == [sw.sessions EXCEPT ![c] = @ + 1]
    <3>1. dst'[d] = [dst[d] EXCEPT !.pc = "asked", !.waiting = s, !.asked = TRUE] /\ sw'.sessions = s
      BY <1>7 DEF ControlPort, TInv, SwTyped, SwRecs
    <3> HIDE DEF s
    <3>2. dst[d] \in DstRecs
      BY PendingNat
    <3> QED
      BY <3>1, <3>2 DEF DstRecs
  <2>3. sw'.sessions[t] \in Nat /\ (t = c => sw'.sessions[t] >= 1)
    <3>1. sw'.sessions = [sw.sessions EXCEPT ![c] = @ + 1] /\ sw.sessions \in [Tabs -> Nat]
      BY DEF ControlPort, TInv, SwTyped, SwRecs
    <3> QED
      BY <1>3, <3>1
  <2>4. Count(inbox'[t], DestroyMsg(d)) <= IF t = c THEN 1 ELSE 0
    BY <1>5, <1>6, <1>7, <2>1
  <2> QED
    BY <1>2, <1>5, <2>1, <2>2, <2>3, <2>4
<1>8. CASE dst[d].pc # "factories"
  <2>1. dst'[d] = dst[d]
    BY <1>8, WakeMoves DEF Awakes
  <2>2. Count(inbox'[t], DestroyMsg(d)) <= Count(inbox[t], DestroyMsg(d))
    BY <1>3, <1>5, <1>6, <1>8
  <2> QED
    BY <1>2, <1>3, <1>5, <2>1, <2>2 DEF Pending
<1> QED
  BY <1>7, <1>8

LEMMA FewerCounted ==
    ASSUME TInv, NEW t \in Tabs, NEW d \in Destroys, Fewer(t, d), inbox'[t] \in Seq(Messages),
           tab'[t].teardowns \in Seq(Destroys)
    PROVE  Count(inbox'[t], DestroyMsg(d)) + Count(tab'[t].teardowns, d) <= dst'[d].waiting[t]
<1>1. Count(inbox'[t], DestroyMsg(d)) \in Nat /\ Count(tab'[t].teardowns, d) \in Nat
  BY CountNat
<1> QED
  BY <1>1, PendingNat DEF Fewer, Pending

\* A tab that takes a message up has one less to take up, and one teardown more if it is a destroy.
LEMMA TabCounts ==
    ASSUME IInv, TInv, TabMoves, NEW t \in Tabs, NEW d \in Destroys,
           InboxTyped', TabTyped', [Next]_vars
    PROVE  Count(inbox'[t], DestroyMsg(d)) + Count(tab'[t].teardowns, d) <= dst'[d].waiting[t]
<1>1. /\ inbox'[t] \in Seq(Messages) /\ tab'[t].teardowns \in Seq(Destroys)
      /\ inbox[t] \in Seq(Messages) /\ tab[t].teardowns \in Seq(Destroys)
      /\ Count(inbox[t], DestroyMsg(d)) \in Nat /\ Count(tab[t].teardowns, d) \in Nat
      /\ dst[d].waiting[t] \in Nat /\ Pending(t, d) <= dst[d].waiting[t]
  BY PendingNat DEF InboxTyped, TabTyped, TabRecs
<1>2. Count(inbox'[t], DestroyMsg(d)) \in Nat /\ Count(tab'[t].teardowns, d) \in Nat
  BY <1>1, CountNat
<1>3. ASSUME inbox'[t] = inbox[t], tab'[t].teardowns = tab[t].teardowns, dst' = dst
      PROVE  Fewer(t, d)
  BY <1>1, <1>3 DEF Fewer, Pending
<1>4. CASE \E c \in Tabs : OpenGraph(c)
  <2>1. PICK c \in Tabs : OpenGraph(c)
    BY <1>4
  <2>2. inbox' = [inbox EXCEPT ![c] = Tail(inbox[c])] /\ dst' = dst /\ inbox[c] # << >>
    BY <2>1 DEF OpenGraph, swVars
  <2>3. tab'[t].teardowns = tab[t].teardowns
    BY <2>1, OpenTab DEF OneTab, Others, Held
  <2>4. Count(inbox'[t], DestroyMsg(d)) <= Count(inbox[t], DestroyMsg(d))
    <3>1. inbox'[t] = IF t = c THEN Tail(inbox[t]) ELSE inbox[t]
      BY <2>2 DEF TInv, InboxTyped
    <3>2. t = c => Count(Tail(inbox[t]), DestroyMsg(d)) <= Count(inbox[t], DestroyMsg(d))
                        - (IF Head(inbox[t]) = DestroyMsg(d) THEN 1 ELSE 0)
      BY <1>1, <2>2, CountTail
    <3> QED
      BY <1>1, <1>2, <3>1, <3>2
  <2> QED
    BY <1>1, <1>2, <2>2, <2>3, <2>4, FewerCounted DEF Fewer, Pending
<1>5. CASE \E c \in Tabs : LockGranted(c)
  <2>1. PICK c \in Tabs : LockGranted(c)
    BY <1>5
  <2>2. tab'[t].teardowns = tab[t].teardowns
    BY <2>1, OpenTab DEF OneTab, Others, Held
  <2> QED
    BY <1>1, <1>3, <2>1, <2>2, FewerCounted DEF LockGranted, swVars
<1>6. CASE \E c \in Tabs : LockGrantedStale(c)
  <2>1. PICK c \in Tabs : LockGrantedStale(c)
    BY <1>6
  <2>2. tab'[t].teardowns = tab[t].teardowns
    BY <2>1, StaleTab DEF OneTab, Others
  <2> QED
    BY <1>1, <1>3, <2>1, <2>2, FewerCounted DEF LockGrantedStale, swVars
<1>7. CASE \E c \in Tabs : WorkerClosed(c) \/ CloseTimeout(c)
  <2>1. PICK c \in Tabs : WorkerClosed(c) \/ CloseTimeout(c)
    BY <1>7
  <2>2. tab'[t].teardowns = tab[t].teardowns
    BY <2>1, CloseTab DEF OneTab, Others
  <2> QED
    BY <1>1, <1>3, <2>1, <2>2, FewerCounted DEF WorkerClosed, CloseTimeout, swVars
<1>8. CASE \E c \in Tabs : DestroyGraph(c)
  <2>1. PICK c \in Tabs : DestroyGraph(c)
    BY <1>8
  <2>2. PICK i \in 1 .. Len(inbox[c]), e \in Destroys :
              /\ inbox[c][i] = DestroyMsg(e) /\ inbox' = [inbox EXCEPT ![c] = RemoveAt(inbox[c], i)]
              /\ OneTab(c) /\ tab'[c].teardowns = Append(tab[c].teardowns, e)
    BY <2>1, DestroyTab
  <2>3. dst' = dst
    BY <2>1 DEF DestroyGraph, swVars
  <2>4. CASE t = c
    <3>1. inbox'[t] = RemoveAt(inbox[t], i) /\ tab'[t].teardowns = Append(tab[t].teardowns, e)
      BY <2>2, <2>4 DEF TInv, InboxTyped
    <3>2. Count(inbox'[t], DestroyMsg(d)) <= Count(inbox[t], DestroyMsg(d))
                                               - (IF DestroyMsg(e) = DestroyMsg(d) THEN 1 ELSE 0)
      BY <1>1, <2>2, <2>4, <3>1, CountRemoveAt
    <3>3. Count(tab'[t].teardowns, d) <= Count(tab[t].teardowns, d) + (IF e = d THEN 1 ELSE 0)
      BY <1>1, <3>1, CountAppend
    <3>4. DestroyMsg(e) = DestroyMsg(d) <=> e = d
      BY MessageKinds
    <3>5. PICK a, b, a1, b1, n \in Nat :
             /\ a = Count(inbox[t], DestroyMsg(d)) /\ b = Count(tab[t].teardowns, d)
             /\ a1 = Count(inbox'[t], DestroyMsg(d)) /\ b1 = Count(tab'[t].teardowns, d)
             /\ n = dst[d].waiting[t]
      BY <1>1, <1>2
    <3>6. a + b <= n
      BY <1>1, <3>5 DEF Pending
    <3>7. a1 + b1 <= n
      <4>1. CASE e = d
        <5>1. a1 <= a - 1 /\ b1 <= b + 1
          BY <3>2, <3>3, <3>4, <3>5, <4>1
        <5> QED
          BY <3>6, <5>1
      <4>2. CASE e # d
        <5>1. a1 <= a /\ b1 <= b
          BY <3>2, <3>3, <3>4, <3>5, <4>2
        <5> QED
          BY <3>6, <5>1
      <4> QED
        BY <4>1, <4>2
    <3> QED
      BY <2>3, <3>5, <3>7
  <2>5. CASE t # c
    <3>1. inbox'[t] = inbox[t] /\ tab'[t].teardowns = tab[t].teardowns
      BY <2>2, <2>5 DEF TInv, InboxTyped, OneTab, Others
    <3> QED
      BY <1>1, <1>3, <2>3, <3>1, FewerCounted
  <2> QED
    BY <2>4, <2>5
<1>9. CASE \E c \in Tabs : TabDies(c)
  <2>1. PICK c \in Tabs : TabDies(c)
    BY <1>9
  <2>2. dst' = dst /\ inbox' = [inbox EXCEPT ![c] = << >>]
    BY <2>1 DEF TabDies, swVars
  <2>3. CASE t = c
    <3>1. inbox'[t] = << >> /\ tab'[t].teardowns = << >>
      BY <2>1, <2>2, <2>3, DeadTab DEF TInv, InboxTyped
    <3>2. Count(inbox'[t], DestroyMsg(d)) = 0 /\ Count(tab'[t].teardowns, d) = 0
      BY <3>1, CountNone
    <3> QED
      BY <1>1, <2>2, <3>2
  <2>4. CASE t # c
    <3>1. inbox'[t] = inbox[t] /\ tab'[t].teardowns = tab[t].teardowns
      BY <2>1, <2>2, <2>4, DeadTab DEF TInv, InboxTyped, Others
    <3> QED
      BY <1>1, <1>3, <2>2, <3>1, FewerCounted
  <2> QED
    BY <2>3, <2>4
<1>10. CASE \E c \in Tabs : RemoveDirectory(c) \/ RemoveRefused(c)
  <2>1. PICK c \in Tabs : RemoveDirectory(c) \/ RemoveRefused(c)
    BY <1>10
  <2>2. OneTab(c) /\ tab'[c].teardowns = Tail(tab[c].teardowns) /\ inbox' = inbox
    BY <2>1, FinishTab DEF RemoveDirectory, RemoveRefused
  <2>3. tab[c].teardowns # << >>
    BY <2>1, EndsTeardown DEF RemoveDirectory, RemoveRefused
  <2>4. dst'[d].waiting[t] = IF t = c /\ d = Head(tab[c].teardowns) THEN dst[d].waiting[t] - 1 ELSE dst[d].waiting[t]
    <3>1. CASE d = Head(tab[c].teardowns)
      <4>1. dst'[d].waiting = [dst[d].waiting EXCEPT ![c] = @ - 1] /\ dst[d].waiting \in [Tabs -> Nat]
        BY <2>1, <3>1, AnswerMoves, PendingNat DEF AnsweredBy, DstRecs
      <4> QED
        BY <3>1, <4>1
    <3>2. CASE d # Head(tab[c].teardowns)
      BY <2>1, <3>2, AnswerMoves
    <3> QED
      BY <3>1, <3>2
  <2>5. Count(tab'[t].teardowns, d) <= Count(tab[t].teardowns, d) - (IF t = c /\ Head(tab[c].teardowns) = d THEN 1 ELSE 0)
    <3>1. CASE t = c
      <4>1. Count(Tail(tab[t].teardowns), d) <= Count(tab[t].teardowns, d) - (IF Head(tab[t].teardowns) = d THEN 1 ELSE 0)
        BY <1>1, <2>3, <3>1, CountTail
      <4> QED
        BY <2>2, <3>1, <4>1
    <3>2. CASE t # c
      <4>1. tab'[t] = tab[t]
        BY <2>2, <3>2 DEF OneTab, Others
      <4> QED
        BY <1>1, <3>2, <4>1
    <3> QED
      BY <3>1, <3>2
  <2>6. PICK n \in 0 .. 1 : n = IF t = c /\ Head(tab[c].teardowns) = d THEN 1 ELSE 0
    OBVIOUS
  <2>7. dst'[d].waiting[t] = dst[d].waiting[t] - n /\ Count(tab'[t].teardowns, d) <= Count(tab[t].teardowns, d) - n
    BY <1>1, <2>4, <2>5, <2>6
  <2> QED
    BY <1>1, <1>2, <2>2, <2>7 DEF Pending
<1> QED
  BY <1>4, <1>5, <1>6, <1>7, <1>8, <1>9, <1>10 DEF TabMoves

LEMMA EdgeCounts ==
    ASSUME IInv, TInv, [Next]_vars, EdgeMoves, NEW t \in Tabs, NEW d \in Destroys,
           InboxTyped', TabTyped', SwTyped'
    PROVE  Count(inbox'[t], DestroyMsg(d)) + Count(tab'[t].teardowns, d) <= dst'[d].waiting[t]
<1>1. /\ inbox'[t] \in Seq(Messages) /\ tab'[t].teardowns \in Seq(Destroys)
      /\ Count(inbox[t], DestroyMsg(d)) \in Nat /\ Count(tab[t].teardowns, d) \in Nat /\ sw.sessions[t] \in Nat
  BY PendingNat DEF InboxTyped, TabTyped, TabRecs
<1>2. tab'[t].teardowns = tab[t].teardowns
  BY EdgeTabs DEF Same
<1>3. CASE \E c \in Destroys : DestroyCall(c)
  BY <1>3, AsksCounted
<1>4. CASE \E c \in Tabs : ControlPort(c)
  <2>1. sw'.sessions \in [Tabs -> Nat]
    BY DEF SwTyped, SwRecs
  <2> QED
    BY <1>4, <2>1, WakesCounted
<1>5. CASE \E r \in Requests : RequestSolicits(r)
  <2>1. dst' = dst
    BY <1>5 DEF RequestSolicits
  <2>2. Count(inbox'[t], DestroyMsg(d)) <= Count(inbox[t], DestroyMsg(d))
    <3>1. CASE inbox' = inbox
      BY <1>1, <3>1
    <3>2. CASE inbox' = [u \in Tabs |-> inbox[u] \o Times(sw.sessions[u], OpenMsg)]
      <4>1. OpenMsg \in Messages /\ OpenMsg # DestroyMsg(d)
        BY MessageKinds
      <4>2. Count(inbox'[t], DestroyMsg(d)) <= Count(inbox[t], DestroyMsg(d))
                                                + (IF OpenMsg = DestroyMsg(d) THEN sw.sessions[t] ELSE 0)
        BY <1>1, <3>2, <4>1, MoreMessages
      <4>3. Count(inbox'[t], DestroyMsg(d)) \in Nat
        BY <1>1, CountNat
      <4> QED
        BY <1>1, <4>1, <4>2, <4>3
    <3> QED
      BY <1>5, <3>1, <3>2 DEF RequestSolicits
  <2>3. Count(inbox'[t], DestroyMsg(d)) \in Nat
    BY <1>1, CountNat
  <2> QED
    BY <1>1, <1>2, <2>1, <2>2, <2>3, PendingNat, FewerCounted DEF Fewer, Pending
<1>6. CASE inbox' = inbox /\ dst'[d].waiting = dst[d].waiting
  BY <1>1, <1>2, <1>6, FewerCounted DEF Fewer, Pending
<1>7. CASE \E c \in Destroys : DestroySettled(c)
  <2>1. dst'[d].waiting = dst[d].waiting
    BY <1>7, CloseMoves DEF Closes
  <2> QED
    BY <1>6, <1>7, <2>1 DEF DestroySettled, tabVars
<1>8. CASE FactoryTimeout
  <2>1. dst'[d].waiting = dst[d].waiting
    BY <1>8, HopeMoves DEF GoesOn
  <2> QED
    BY <1>6, <1>8, <2>1 DEF FactoryTimeout, tabVars
<1> QED
  BY <1>3, <1>4, <1>5, <1>6, <1>7, <1>8 DEF EdgeMoves, RequestOnStub, Reply, DuplicatePort, AcceptPort, SWReaped, tabVars

LEMMA CountedStep ==
    ASSUME IInv, TInv, [Next]_vars, InboxTyped', TabTyped', SwTyped'
    PROVE  Counted'
<1> SUFFICES ASSUME NEW t \in Tabs, NEW d \in Destroys PROVE Awaited(t, d)'
  BY DEF Counted
<1>1. dst'[d].pc # "asked" => dst'[d].waiting[t] = 0
  BY WaitsAsked
<1>2. CASE inbox' = inbox /\ tab' = tab /\ dst' = dst
  BY <1>1, <1>2, PendingNat DEF Awaited, Pending
<1>3. CASE TabMoves
  BY <1>1, <1>3, TabCounts DEF Awaited
<1>4. CASE EdgeMoves
  BY <1>1, <1>4, EdgeCounts DEF Awaited
<1> QED
  BY <1>2, <1>3, <1>4, Moves, WorkerFrame DEF vars

LEMMA TypesStart == Init => TInv
<1> SUFFICES ASSUME Init PROVE TInv
  OBVIOUS
<1>1. PICK kind \in Kinds :
        /\ sw = [kind |-> kind, current |-> 0, soliciting |-> "no",
                 sessions |-> [t \in Tabs |-> IF kind \in Warm THEN 1 ELSE 0]]
        /\ tab = [t \in Tabs |-> [alive |-> TRUE, ctl |-> IF kind \in Warm THEN 0 ELSE 1, stake |-> "none",
                                  worker |-> 0, teardowns |-> << >>, stage |-> "none",
                                  leaving |-> "none", old |-> 0]]
  BY DEF Init
<1>2. \A S : << >> \in Seq(S)
  BY EmptySeq
<1>3. SwTyped
  <2>1. [t \in Tabs |-> IF kind \in Warm THEN 1 ELSE 0] \in [Tabs -> Nat]
    OBVIOUS
  <2> DEFINE s == [t \in Tabs |-> IF kind \in Warm THEN 1 ELSE 0]
  <2> HIDE DEF s
  <2>2. sw = [kind |-> kind, current |-> 0, soliciting |-> "no", sessions |-> s] /\ s \in [Tabs -> Nat]
    BY <1>1, <2>1 DEF s
  <2> QED
    BY <2>2 DEF SwTyped, SwRecs
<1>4. TabTyped /\ \A t \in Tabs : Manages(t) /\ tab[t].teardowns = << >>
  <2>1. PICK none \in Seq(Destroys) : none = << >>
    BY <1>2
  <2>2. PICK c \in Nat : c = IF kind \in Warm THEN 0 ELSE 1
    OBVIOUS
  <2> DEFINE x == [alive |-> TRUE, ctl |-> c, stake |-> "none", worker |-> 0, teardowns |-> none,
                   stage |-> "none", leaving |-> "none", old |-> 0]
  <2>3. tab = [t \in Tabs |-> x]
    BY <1>1, <2>1, <2>2
  <2>4. /\ x \in TabRecs /\ x.alive = TRUE /\ x.stage = "none" /\ x.old = 0 /\ x.worker = 0
        /\ x.teardowns = none
    BY DEF TabRecs
  <2> HIDE DEF x
  <2> QED
    BY <2>1, <2>3, <2>4 DEF TabTyped, Manages
<1>5. DstTyped /\ \A d \in Destroys, t \in Tabs : dst[d].waiting[t] = 0
  <2> DEFINE w == [t \in Tabs |-> 0]
             x == [pc |-> "idle", cur |-> 0, waiting |-> w, asked |-> FALSE, won |-> FALSE, before |-> {}, cut |-> {}]
  <2>1. w \in [Tabs -> Nat] /\ \A t \in Tabs : w[t] = 0
    OBVIOUS
  <2>2. dst = [d \in Destroys |-> x]
    BY DEF Init
  <2> HIDE DEF w
  <2>3. x \in DstRecs /\ x.waiting = w /\ x.cur = 0
    BY <2>1 DEF DstRecs
  <2> HIDE DEF x
  <2> QED
    BY <2>1, <2>2, <2>3 DEF DstTyped
<1>6. ReqTyped
  <2> DEFINE x == [pc |-> "idle", port |-> 0, tries |-> 0, epoch |-> 0, quiet |-> TRUE]
  <2>1. req = [r \in Requests |-> x] /\ destroys = 0
    BY DEF Init
  <2>2. x \in ReqRecs /\ x.pc = "idle" /\ x.tries = 0 /\ x.epoch = 0
    BY DEF ReqRecs
  <2> HIDE DEF x
  <2> QED
    BY <2>1, <2>2 DEF ReqTyped, Coherent
<1>7. InboxTyped /\ \A t \in Tabs : inbox[t] = << >>
  BY <1>2 DEF Init, InboxTyped
<1>8. PortsTyped /\ MailTyped
  BY <1>2 DEF Init, PortsTyped, MailTyped
<1>9. FaultsTyped
  <2>1. MaxFaults[sw.kind] \in Nat /\ MaxRestarts[sw.kind] \in Nat
    BY <1>3, EdgeAssumption DEF SwTyped, SwRecs
  <2> QED
    BY <2>1 DEF Init, FaultsTyped
<1>10. Counted
  <2> SUFFICES ASSUME NEW t \in Tabs, NEW d \in Destroys PROVE Awaited(t, d)
    BY DEF Counted
  <2>1. Count(inbox[t], DestroyMsg(d)) = 0 /\ Count(tab[t].teardowns, d) = 0
    BY <1>4, <1>7, CountNone
  <2> QED
    BY <1>5, <2>1 DEF Awaited
<1> QED
  BY <1>3, <1>4, <1>5, <1>6, <1>7, <1>8, <1>9, <1>10 DEF TInv

LEMMA TypesStep == ASSUME IInv, TInv, [Next]_vars PROVE TInv'
<1>1. Grown
  BY Grows
<1>2. SwTyped' /\ sw'.kind = sw.kind
  BY <1>1, SwStep
<1>3. ReqTyped' /\ DstTyped' /\ PortsTyped' /\ MailTyped' /\ InboxTyped'
  BY <1>1, ReqStep, DstStep, PortsStep, MailStep, InboxStep
<1>4. TabTyped' /\ \A t \in Tabs : Manages(t)'
  BY <1>1, TabsStep
<1>5. FaultsTyped'
  BY <1>2, FaultsStep
<1>6. Counted'
  BY <1>2, <1>3, <1>4, CountedStep
<1> QED
  BY <1>2, <1>3, <1>4, <1>5, <1>6 DEF TInv

Typed == IInv /\ TInv

LEMMA EdgeTyping == Spec => []Typed
<1>1. Init => Typed
  BY EdgeStarts, TypesStart DEF Typed
<1>2. Typed /\ [Next]_vars => Typed'
  BY EdgeStepKeeps, TypesStep DEF Typed
<1> QED
  BY <1>1, <1>2, PTL DEF Spec

\* Every variable keeps its type, whatever the tabs, requests and destroys and whoever dies: the
\* counters of the answers a destroy waits for never go below zero (FactoryStubSource.destroy), the
\* Web Lock's queue holds no tab twice (worker-factory.ts), every port leads to a Worker there is.
THEOREM EdgeTyped == Spec => []TypeOK
<1>1. Typed => TypeOK
  BY TypesHold DEF Typed
<1> QED
  BY <1>1, EdgeTyping, PTL

\* What was acknowledged stays ------------------------------------------------------------------

\* A request that has not been sent yet has no call and no answer on the way.
Unsent(r) == req[r].pc \in {"idle", "opening"} => \A p : <<r, p>> \notin mail /\ \A ok : <<r, p, ok>> \notin replies
Fresh == \A r \in Requests : Unsent(r)

\* Since a request began no destroy did, nor was one under way: what it wrote and was told of is held.
Begun(r) == req[r].pc # "idle" /\ req[r].quiet /\ req[r].epoch = destroys
Safe(r) ==
    /\ \A d \in Destroys : ~Destroying(d)
    /\ req[r].pc = "ok" => r \in data
    /\ \A p : <<r, p, TRUE>> \in replies => r \in data
AInv == Fresh /\ \A r \in Requests : Begun(r) => Safe(r)

LEMMA FreshStep == ASSUME IInv, TInv, Fresh, [Next]_vars PROVE Fresh'
<1> SUFFICES ASSUME NEW r \in Requests, req'[r].pc \in {"idle", "opening"}
             PROVE  (\A p : <<r, p>> \notin mail' /\ \A ok : <<r, p, ok>> \notin replies')
  BY DEF Fresh, Unsent
<1>1. req[r].pc \in {"idle", "opening"}
  BY ReqMoves DEF Beginning, Waiting, Settling, Rejected, Retries, Ends, Calls
<1>2. \A p : <<r, p>> \notin mail /\ \A ok : <<r, p, ok>> \notin replies
  BY <1>1 DEF Fresh, Unsent
<1>3. ASSUME NEW p PROVE <<r, p>> \notin mail'
  BY <1>2, NewMail
<1>4. ASSUME NEW p, NEW ok PROVE <<r, p, ok>> \notin replies'
  BY <1>2, NewReply
<1> QED
  BY <1>3, <1>4

\* What a request is made of stays with it until its end.
LEMMA EpochStays ==
    ASSUME IInv, TInv, [Next]_vars, NEW r \in Requests, ~Beginning(r)
    PROVE  Kept(r)
BY ReqMoves DEF Waiting, Settling, Rejected, Retries, Ends, Calls, Kept

\* No destroy was called: none is under way that was not.
LEMMA NoneCalled ==
    ASSUME IInv, TInv, [Next]_vars, destroys' = destroys, NEW d \in Destroys, ~Destroying(d)
    PROVE  ~Destroying(d)'
<1>1. ~Called(d)
  <2>1. destroys \in Nat
    BY DEF TInv, ReqTyped
  <2> QED
    <3>1. DestroyCall(d) => destroys' = destroys + 1
      BY DEF DestroyCall
    <3> QED
      BY <2>1, <3>1 DEF Called
<1> QED
  BY <1>1, DstMoves DEF Destroying, Awakes, GoesOn, Closes, AnsweredBy

\* Only a destroy under way takes anything out of the directory.
LEMMA HeldStays ==
    ASSUME IInv, TInv, [Next]_vars, \A d \in Destroys : ~Destroying(d)
    PROVE  data \subseteq data'
<1>1. ASSUME NEW t \in Tabs, RemoveDirectory(t) PROVE FALSE
  <2>1. tab[t].stage # "none"
    BY <1>1 DEF RemoveDirectory
  <2>2. Head(tab[t].teardowns) \in Destroys /\ dst[Head(tab[t].teardowns)].pc = "asked"
    BY <2>1, EndsTeardown
  <2> QED
    BY <2>2 DEF Destroying
<1> QED
  BY <1>1, DataMoves

LEMMA SafeStep == ASSUME IInv, TInv, AInv, [Next]_vars, NEW r \in Requests, Begun(r)' PROVE Safe(r)'
<1>1. CASE ~Beginning(r)
  <2>1. req'[r].epoch = req[r].epoch /\ req'[r].quiet = req[r].quiet /\ req[r].pc # "idle"
    BY <1>1, ReqMoves, EpochStays DEF Kept, Begun, Waiting, Settling
  <2>2. destroys' = destroys /\ req[r].epoch = destroys
    <3>1. req[r].epoch <= destroys /\ req[r].epoch \in Nat /\ destroys \in Nat
      BY DEF TInv, ReqTyped, Coherent, ReqRecs
    <3> QED
      BY <2>1, <3>1, Later DEF Begun
  <2>3. Safe(r)
    BY <2>1, <2>2 DEF AInv, Begun
  <2>4. (\A d \in Destroys : ~Destroying(d)') /\ data \subseteq data'
    BY <2>2, <2>3, NoneCalled, HeldStays DEF Safe
  <2>5. ASSUME req'[r].pc = "ok" PROVE r \in data
    <3>1. CASE req[r].pc = "ok"
      BY <2>3, <3>1 DEF Safe
    <3>2. CASE Reply(r, req[r].port, TRUE)
      <4>1. <<r, req[r].port, TRUE>> \in replies
        BY <3>2 DEF Reply
      <4> QED
        BY <2>3, <4>1 DEF Safe
    <3> QED
      BY <1>1, <2>5, <3>1, <3>2, ReqMoves DEF Waiting, Settling, Rejected, Retries, Ends, Calls
  <2>6. ASSUME NEW p, <<r, p, TRUE>> \in replies' PROVE r \in data'
    BY <2>3, <2>4, <2>6, NewReply DEF Safe
  <2> QED
    BY <2>4, <2>5, <2>6 DEF Safe
<1>2. CASE Beginning(r)
  <2>1. req[r].pc = "idle" /\ UNCHANGED <<dst, replies>> /\ \A d \in Destroys : ~Destroying(d)
    BY <1>2 DEF Beginning, Begins, Begun, RequestOnStub, RequestSolicits, callVars
  <2>2. \A p : <<r, p, TRUE>> \notin replies
    BY <2>1 DEF AInv, Fresh, Unsent
  <2>3. req'[r].pc # "ok"
    BY <1>2 DEF Beginning
  <2> QED
    BY <2>1, <2>2, <2>3 DEF Safe, Destroying
<1> QED
  BY <1>1, <1>2

LEMMA AckedStarts == Init => AInv
<1> SUFFICES ASSUME Init PROVE AInv
  OBVIOUS
<1>1. mail = {} /\ replies = {} /\ \A r \in Requests : req[r].pc = "idle"
  BY DEF Init
<1> QED
  BY <1>1 DEF AInv, Fresh, Unsent, Begun

\* A write answered with success is still in the directory, whichever tabs died since and whoever
\* led them, unless a destroy began after the write did or was under way then: nothing but a
\* teardown removes the directory (worker-spawn.ts), and a teardown runs for a destroy
\* (FactoryStubSource.destroy) that waits for it.
THEOREM AckedStays == Spec => []AckedSurvives
<1>1. Init => AInv
  BY AckedStarts
<1>2. Typed /\ AInv /\ [Next]_vars => AInv'
  BY FreshStep, SafeStep DEF Typed, AInv
<1>3. AInv => AckedSurvives
  BY DEF AInv, Begun, Safe, AckedSurvives
<1> QED
  BY <1>1, <1>2, <1>3, EdgeTyping, PTL DEF Spec

\* Failures that are not spurious -------------------------------------------------------------------

Dead(t) == ~tab[t].alive

\* The dead stay dead, and every death is counted.
LEMMA AliveMoves ==
    ASSUME IInv, TInv, [Next]_vars, NEW t \in Tabs
    PROVE  tab'[t].alive = tab[t].alive \/ (TabDies(t) /\ tab[t].alive /\ ~tab'[t].alive)
<1>1. CASE EdgeMoves
  BY <1>1, EdgeTabs DEF Same
<1>2. CASE tab' = tab
  BY <1>2
<1>3. CASE \E c \in Tabs : OpenGraph(c) \/ LockGranted(c)
  <2>1. PICK c \in Tabs : OpenGraph(c) \/ LockGranted(c)
    BY <1>3
  <2>2. OneTab(c) /\ Held(c)
    BY <2>1, OpenTab
  <2> QED
    BY <2>2 DEF OneTab, Others, Held
<1>4. CASE \E c \in Tabs : LockGrantedStale(c)
  BY <1>4, StaleTab DEF OneTab, Others, SameRest
<1>5. CASE \E c \in Tabs : WorkerClosed(c) \/ CloseTimeout(c)
  <2>1. PICK c \in Tabs : WorkerClosed(c) \/ CloseTimeout(c)
    BY <1>5
  <2>2. OneTab(c) /\ SameRest(c)
    BY <2>1, CloseTab
  <2> QED
    BY <2>2 DEF OneTab, Others, SameRest
<1>6. CASE \E c \in Tabs : DestroyGraph(c)
  <2>1. PICK c \in Tabs : DestroyGraph(c)
    BY <1>6
  <2>2. OneTab(c) /\ tab[c].alive /\ tab'[c].alive
    BY <2>1, DestroyTab
  <2>3. tab[c].alive \in BOOLEAN /\ tab'[c].alive \in BOOLEAN
    BY <2>2 DEF TInv, TabTyped, TabRecs, OneTab
  <2> QED
    BY <2>2, <2>3 DEF OneTab, Others
<1>7. CASE \E c \in Tabs : RemoveDirectory(c) \/ RemoveRefused(c)
  <2>1. PICK c \in Tabs : RemoveDirectory(c) \/ RemoveRefused(c)
    BY <1>7
  <2>2. OneTab(c) /\ tab'[c].alive = tab[c].alive
    BY <2>1, FinishTab
  <2> QED
    BY <2>2 DEF OneTab, Others
<1>8. CASE \E c \in Tabs : TabDies(c)
  BY <1>8, DeadTab DEF Others
<1> QED
  BY <1>1, <1>2, <1>3, <1>4, <1>5, <1>6, <1>7, <1>8, Moves, WorkerFrame DEF TabMoves, vars

Faulted ==
    /\ \A t \in Tabs : Dead(t) => faults.deaths >= 1
    /\ \A t, u \in Tabs : Dead(t) /\ Dead(u) /\ t # u => faults.deaths >= 2

LEMMA DeathsMove ==
    ASSUME TInv, [Next]_vars
    PROVE  /\ faults.deaths \in Nat /\ faults'.deaths \in Nat /\ faults'.deaths >= faults.deaths
           /\ (\E t \in Tabs : TabDies(t)) => faults'.deaths = faults.deaths + 1
<1>1. MaxFaults[sw.kind] \in Nat /\ faults \in [deaths : 0 .. MaxFaults[sw.kind], restarts : 0 .. MaxRestarts[sw.kind]]
  BY EdgeAssumption DEF TInv, SwTyped, SwRecs, FaultsTyped
<1>2. faults.deaths \in Nat
  BY <1>1
<1>3. (\E t \in Tabs : TabDies(t)) => faults'.deaths = faults.deaths + 1
  BY <1>1 DEF TabDies
<1>4. SWReaped => faults'.deaths = faults.deaths
  BY <1>1 DEF SWReaped
<1>5. faults' = faults \/ SWReaped \/ \E t \in Tabs : TabDies(t)
  BY Moves, TabFrame, EdgeFrame, WorkerFrame DEF vars
<1> QED
  BY <1>2, <1>3, <1>4, <1>5

LEMMA FaultedStep == ASSUME IInv, TInv, Faulted, [Next]_vars PROVE Faulted'
<1>1. faults.deaths \in Nat /\ faults'.deaths \in Nat /\ faults'.deaths >= faults.deaths
  BY DeathsMove
<1>2. ASSUME NEW t \in Tabs, Dead(t)', ~Dead(t)
      PROVE  faults'.deaths = faults.deaths + 1 /\ \A u \in Tabs \ {t} : Dead(u)' => Dead(u)
  <2>1. TabDies(t)
    BY <1>2, AliveMoves DEF Dead
  <2>2. \A u \in Tabs \ {t} : Dead(u)' => Dead(u)
    BY <2>1, DeadTab DEF Others, Dead
  <2> QED
    BY <2>1, <2>2, DeathsMove
<1>3. ASSUME NEW t \in Tabs, Dead(t)' PROVE faults'.deaths >= 1
  <2>1. CASE Dead(t)
    <3>1. faults.deaths >= 1
      BY <2>1, Zenon DEF Faulted
    <3> QED
      BY <1>1, <3>1
  <2>2. CASE ~Dead(t)
    BY <1>1, <1>2, <1>3, <2>2
  <2> QED
    BY <2>1, <2>2
<1>4. ASSUME NEW t \in Tabs, NEW u \in Tabs, Dead(t)', Dead(u)', t # u PROVE faults'.deaths >= 2
  <2>1. CASE Dead(t) /\ Dead(u)
    <3>1. faults.deaths >= 2
      BY <1>4, <2>1, Zenon DEF Faulted
    <3> QED
      BY <1>1, <3>1
  <2>2. CASE ~Dead(t)
    BY <1>1, <1>2, <1>4, <2>2 DEF Faulted
  <2>3. CASE ~Dead(u)
    BY <1>1, <1>2, <1>4, <2>3 DEF Faulted
  <2> QED
    BY <2>1, <2>2, <2>3
<1> QED
  BY <1>3, <1>4 DEF Faulted

\* No destroy was called: none is under way.
Asking == destroys = 0 => \A d \in Destroys : dst[d].pc = "idle"

LEMMA AskingStep == ASSUME IInv, TInv, Asking, [Next]_vars PROVE Asking'
<1> SUFFICES ASSUME destroys' = 0, NEW d \in Destroys PROVE dst'[d].pc = "idle"
  BY DEF Asking
<1>1. destroys \in Nat /\ destroys <= destroys'
  BY Later DEF TInv, ReqTyped
<1>2. destroys = 0 /\ dst[d].pc = "idle"
  BY <1>1 DEF Asking
<1>3. ~Called(d)
  <2>1. DestroyCall(d) => destroys' = destroys + 1
    BY DEF DestroyCall
  <2> QED
    BY <1>2, <2>1 DEF Called
<1> QED
  BY <1>2, <1>3, DstMoves DEF Awakes, GoesOn, Closes, AnsweredBy

\* Then no tab tears anything down.
LEMMA Undisturbed ==
    ASSUME IInv, TInv, Asking, destroys = 0, NEW t \in Tabs
    PROVE  /\ tab[t].teardowns = << >> /\ tab[t].stage = "none" /\ tab[t].leaving = "none"
           /\ ~DestroyGraph(t) /\ ~LockGrantedStale(t) /\ ~WorkerClosed(t) /\ ~CloseTimeout(t)
           /\ ~RemoveDirectory(t) /\ ~RemoveRefused(t)
<1>1. tab[t].teardowns \in Seq(Destroys) /\ inbox[t] \in Seq(Messages) /\ Leaves(t)
  BY DEF TInv, TabTyped, TabRecs, InboxTyped, IInv
<1>2. \A d \in Destroys : dst[d].pc # "asked"
  BY DEF Asking
<1>3. tab[t].teardowns = << >>
  <2>1. SUFFICES ASSUME tab[t].teardowns # << >> PROVE FALSE
    OBVIOUS
  <2>2. 1 \in 1 .. Len(tab[t].teardowns) /\ tab[t].teardowns[1] \in Destroys
    BY <1>1, <2>1
  <2> QED
    BY <1>2, <2>2, Queues
<1>4. tab[t].stage = "none" /\ tab[t].leaving = "none"
  BY <1>1, <1>3 DEF Leaves
<1>5. ~DestroyGraph(t)
  <2>1. SUFFICES ASSUME DestroyGraph(t) PROVE FALSE
    OBVIOUS
  <2>2. PICK i \in 1 .. Len(inbox[t]), d \in Destroys : inbox[t][i] = DestroyMsg(d)
    BY <2>1, DestroyTab
  <2> QED
    BY <1>2, <2>2, Queues
<1> QED
  BY <1>3, <1>4, <1>5 DEF LockGrantedStale, WorkerClosed, CloseTimeout, RemoveDirectory, RemoveRefused

LEMMA StillNone ==
    ASSUME TInv, [Next]_vars, destroys' = 0
    PROVE  destroys = 0 /\ \A d \in Destroys : ~DestroyCall(d)
<1>1. destroys \in Nat /\ destroys <= destroys'
  BY Later DEF TInv, ReqTyped
<1>2. \A d \in Destroys : DestroyCall(d) => destroys' = destroys + 1
  BY DEF DestroyCall
<1> QED
  BY <1>1, <1>2

\* Ports arrive in the order they were delivered -----------------------------------------------------

LEMMA OwnerTab == ASSUME IInv, TInv, NEW p \in DOMAIN ports PROVE Owner(p) \in Tabs /\ ports[p] \in DOMAIN workers
<1>1. ports[p] \in DOMAIN workers
  BY DEF TInv, PortsTyped
<1> QED
  BY <1>1, WorkerOfTab DEF Owner, IInv

\* A port's owner stays, and a new port is the last one, of the tab that delivers.
NewPort(p, t) ==
    /\ Deliver(t) /\ (OpenGraph(t) \/ LockGranted(t))
    /\ p = Len(ports) + 1 /\ workers'[ports'[p]].owner = t /\ ports' # ports

LEMMA PortMoves ==
    ASSUME IInv, TInv, [Next]_vars, NEW p \in DOMAIN ports'
    PROVE  IF p \in DOMAIN ports THEN Owner(p)' = Owner(p) ELSE \E t \in Tabs : NewPort(p, t)
<1>1. Grown
  BY Grows
<1>2. CASE p \in DOMAIN ports
  BY <1>1, <1>2 DEF Grown, Owner, TInv, PortsTyped
<1>3. ASSUME p \notin DOMAIN ports, NEW t \in Tabs, OpenGraph(t) \/ LockGranted(t)
      PROVE  NewPort(p, t)
  <2>1. Deliver(t)
    BY <1>3 DEF OpenGraph, LockGranted
  <2>2. /\ DOMAIN ports' = DOMAIN ports \cup {Len(ports) + 1} /\ ports'[Len(ports) + 1] = LedWith(t)
        /\ workers'[LedWith(t)].owner = t
    BY <2>1, Delivered
  <2>3. p = Len(ports) + 1
    BY <1>3, <2>2
  <2> QED
    BY <1>3, <2>1, <2>2, <2>3 DEF NewPort
<1>4. CASE TabMoves /\ p \notin DOMAIN ports
  BY <1>3, <1>4 DEF TabMoves, LockGrantedStale, DestroyGraph, WorkerClosed, CloseTimeout, RemoveDirectory, RemoveRefused,
     TabDies
<1> QED
  BY <1>2, <1>4, Moves, EdgeFrame, WorkerFrame DEF vars

LEMMA PortsKept == ASSUME IInv, TInv, [Next]_vars, NEW p \in DOMAIN ports PROVE p \in DOMAIN ports' /\ Owner(p)' = Owner(p)
<1>1. p \in DOMAIN ports'
  BY Grows DEF Grown
<1> QED
  BY <1>1, PortMoves

Current(c) == sw'.current = c
LEMMA CurrentMoves ==
    ASSUME TInv, [Next]_vars
    PROVE  Current(sw.current) \/ Current(0) \/ (AcceptPort /\ Current(Head(posted)))
<1>1. sw \in SwRecs
  BY DEF TInv, SwTyped
<1>2. CASE \E t \in Tabs : ControlPort(t)
  BY <1>1, <1>2 DEF ControlPort, SwRecs, Current
<1>3. CASE \E r \in Requests : RequestOnStub(r) \/ RequestSolicits(r)
  BY <1>1, <1>3 DEF RequestOnStub, RequestSolicits, SwRecs, Current
<1>4. CASE \E d \in Destroys : DestroyCall(d) \/ DestroySettled(d)
  BY <1>1, <1>4 DEF DestroyCall, DestroySettled, SwRecs, Current
<1>5. CASE FactoryTimeout \/ DuplicatePort \/ SWReaped
  BY <1>1, <1>5 DEF FactoryTimeout, DuplicatePort, SWReaped, SwRecs, Current
<1>6. CASE AcceptPort
  BY <1>1, <1>6 DEF AcceptPort, SwRecs, Current
<1>7. CASE sw' = sw
  BY <1>7 DEF Current
<1>8. CASE EdgeMoves
  BY <1>2, <1>3, <1>4, <1>5, <1>6, <1>7, <1>8 DEF EdgeMoves, Reply
<1> QED
  BY <1>7, <1>8, Moves, TabFrame, WorkerFrame DEF vars

LEMMA PostedMoves ==
    ASSUME IInv, TInv, [Next]_vars
    PROVE  \/ posted' = posted /\ ~AcceptPort
           \/ posted # << >> /\ posted' = Tail(posted)
           \/ sw' = sw /\ posted' = Append(posted, Len(ports) + 1)
<1>1. CASE AcceptPort \/ DuplicatePort
  BY <1>1 DEF AcceptPort, DuplicatePort
<1>2. CASE EdgeMoves /\ ~AcceptPort
  BY <1>1, <1>2 DEF EdgeMoves, ControlPort, RequestOnStub, RequestSolicits, DestroyCall, DestroySettled, FactoryTimeout,
     SWReaped, Reply
<1>3. ASSUME UNCHANGED <<sw, ports>> \/ sw' = sw, ~EdgeMoves PROVE ~AcceptPort
  BY <1>3 DEF EdgeMoves
<1>4. CASE ~EdgeMoves
  <2>1. ~AcceptPort
    BY <1>4 DEF EdgeMoves
  <2>2. CASE TabMoves
    <3>1. CASE \E t \in Tabs : Deliver(t)
      BY <2>2, <3>1, TabFrame DEF Deliver
    <3> QED
      BY <2>1, <2>2, <3>1 DEF TabMoves, OpenGraph, LockGranted, LockGrantedStale, DestroyGraph, WorkerClosed, CloseTimeout,
         RemoveDirectory, RemoveRefused, TabDies
  <2> QED
    BY <1>4, <2>1, <2>2, Moves, WorkerFrame DEF vars
<1> QED
  BY <1>1, <1>2, <1>4

\* A port on its way is younger than the one held and than every one before it.
Arriving ==
    /\ \A i \in 1 .. Len(posted) : posted[i] > sw.current
    /\ \A i, j \in 1 .. Len(posted) : i < j => posted[i] < posted[j]

LEMMA ArrivingStep == ASSUME IInv, TInv, Arriving, [Next]_vars PROVE Arriving'
<1>1. /\ posted \in Seq(DOMAIN ports) /\ ports \in Seq(Nat) /\ DOMAIN ports = 1 .. Len(ports)
      /\ sw.current \in Nat /\ sw.current \in DOMAIN ports \cup {0}
  BY LenProperties DEF TInv, PortsTyped, SwTyped, SwRecs
<1>2. \A i \in 1 .. Len(posted) : posted[i] \in 1 .. Len(ports)
  <2> TAKE i \in 1 .. Len(posted)
  <2>1. posted[i] \in DOMAIN ports
    BY <1>1, ElementOfSeq
  <2> QED
    BY <1>1, <2>1
<1>3. CASE posted # << >> /\ posted' = Tail(posted)
  <2>1. /\ Len(posted') = Len(posted) - 1 /\ \A i \in 1 .. Len(posted') : posted'[i] = posted[i + 1]
        /\ Head(posted) = posted[1] /\ Len(posted) \in Nat /\ Len(posted) > 0
    <3>1. posted \in Seq(DOMAIN ports)
      BY <1>1
    <3>2. /\ Len(Tail(posted)) = Len(posted) - 1
          /\ \A i \in 1 .. Len(Tail(posted)) : Tail(posted)[i] = posted[i + 1]
      BY <1>3, <3>1, HeadTailProperties
    <3>3. Head(posted) = posted[1] /\ Len(posted) \in Nat /\ Len(posted) > 0
      BY <1>3, <3>1
    <3> QED
      BY <1>3, <3>2, <3>3
  <2>2. sw'.current = sw.current \/ sw'.current = 0 \/ sw'.current = posted[1]
    BY <2>1, CurrentMoves DEF Current
  <2>3. ASSUME NEW i \in 1 .. Len(posted') PROVE posted'[i] > sw'.current
    <3>1. i + 1 \in 1 .. Len(posted) /\ 1 \in 1 .. Len(posted) /\ 1 < i + 1
      BY <2>1
    <3>2. posted[i + 1] > sw.current /\ posted[1] < posted[i + 1] /\ posted[i + 1] \in 1 .. Len(ports)
      BY <1>2, <3>1 DEF Arriving
    <3>3. posted'[i] = posted[i + 1]
      BY <2>1
    <3>4. posted[i + 1] \in Nat /\ posted[i + 1] > 0
      <4>1. Len(ports) \in Nat
        BY <1>1
      <4> QED
        BY <3>2, <4>1
    <3>5. CASE sw'.current = sw.current
      BY <3>2, <3>3, <3>5
    <3>6. CASE sw'.current = 0
      BY <3>3, <3>4, <3>6
    <3>7. CASE sw'.current = posted[1]
      <4>1. posted[1] \in Nat
        BY <1>2, <3>1
      <4> QED
        BY <3>2, <3>3, <3>4, <3>7, <4>1
    <3> QED
      BY <2>2, <3>5, <3>6, <3>7
  <2>4. ASSUME NEW i \in 1 .. Len(posted'), NEW j \in 1 .. Len(posted'), i < j PROVE posted'[i] < posted'[j]
    <3>1. i + 1 \in 1 .. Len(posted) /\ j + 1 \in 1 .. Len(posted) /\ i + 1 < j + 1
      BY <2>1, <2>4
    <3> QED
      BY <2>1, <3>1 DEF Arriving
  <2> QED
    BY <2>3, <2>4 DEF Arriving
<1>4. CASE posted' = posted /\ ~AcceptPort
  <2>1. sw'.current = sw.current \/ sw'.current = 0
    BY <1>4, CurrentMoves DEF Current
  <2>2. ASSUME NEW i \in 1 .. Len(posted') PROVE posted'[i] > sw'.current
    <3>1. posted'[i] = posted[i] /\ posted[i] > sw.current
      BY <1>4 DEF Arriving
    <3>2. CASE sw'.current = sw.current
      BY <3>1, <3>2
    <3>3. CASE sw'.current = 0
      <4>1. posted[i] \in 1 .. Len(ports)
        BY <1>2, <1>4
      <4> QED
        BY <3>1, <3>3, <4>1
    <3> QED
      BY <2>1, <3>2, <3>3
  <2>3. \A i, j \in 1 .. Len(posted') : i < j => posted'[i] < posted'[j]
    BY <1>4 DEF Arriving
  <2> QED
    BY <2>2, <2>3 DEF Arriving
<1>5. CASE sw' = sw /\ posted' = Append(posted, Len(ports) + 1)
  <2>1. /\ Len(posted') = Len(posted) + 1 /\ Len(posted) \in Nat /\ Len(ports) \in Nat
        /\ \A i \in 1 .. Len(posted') : posted'[i] = IF i = Len(posted) + 1 THEN Len(ports) + 1 ELSE posted[i]
    <3>1. posted \in Seq(Nat) /\ Len(posted) \in Nat /\ Len(ports) \in Nat
      BY <1>1
    <3>2. Len(ports) + 1 \in Nat
      BY <3>1
    <3> QED
      BY <1>5, <3>1, <3>2, AppendProperties
  <2>2. sw.current <= Len(ports)
    BY <1>1
  <2>3. ASSUME NEW i \in 1 .. Len(posted') PROVE posted'[i] > sw'.current
    <3>1. CASE i = Len(posted) + 1
      BY <1>1, <1>5, <2>1, <2>2, <3>1
    <3>2. CASE i # Len(posted) + 1
      <4>1. i \in 1 .. Len(posted)
        BY <2>1, <3>2
      <4> QED
        BY <1>5, <2>1, <3>2, <4>1 DEF Arriving
    <3> QED
      BY <3>1, <3>2
  <2>4. ASSUME NEW i \in 1 .. Len(posted'), NEW j \in 1 .. Len(posted'), i < j PROVE posted'[i] < posted'[j]
    <3>1. i \in 1 .. Len(posted) /\ posted'[i] = posted[i]
      BY <2>1, <2>4
    <3>2. CASE j = Len(posted) + 1
      BY <1>2, <2>1, <3>1, <3>2
    <3>3. CASE j # Len(posted) + 1
      <4>1. j \in 1 .. Len(posted) /\ posted'[j] = posted[j]
        BY <2>1, <3>3
      <4> QED
        BY <2>4, <3>1, <4>1 DEF Arriving
    <3> QED
      BY <3>2, <3>3
  <2> QED
    BY <2>3, <2>4 DEF Arriving
<1> QED
  BY <1>3, <1>4, <1>5, PostedMoves

\* One leads at a time ------------------------------------------------------------------------------

\* Undestroyed, a tab that delivered a port leads until it dies; another's port comes after its death.
Led == destroys = 0 => \A p \in DOMAIN ports : tab[Owner(p)].alive => tab[Owner(p)].stake = "leader"
Overtaken == destroys = 0 => \A p, q \in DOMAIN ports : p < q /\ Owner(p) # Owner(q) => Dead(Owner(p))

LEMMA LeaderStays ==
    ASSUME IInv, TInv, Asking, destroys = 0, [Next]_vars, NEW u \in Tabs, tab[u].stake = "leader", tab'[u].alive
    PROVE  tab'[u].stake = "leader"
<1>1. CASE EdgeMoves
  BY <1>1, EdgeTabs DEF Same
<1>2. CASE tab' = tab
  BY <1>2
<1>3. CASE \E c \in Tabs : OpenGraph(c) \/ LockGranted(c)
  <2>1. PICK c \in Tabs : OpenGraph(c) \/ LockGranted(c)
    BY <1>3
  <2>2. OneTab(c) /\ (tab'[c].stake = "leader" \/ tab[c].stake # "leader")
    BY <2>1, OpenTab
  <2> QED
    BY <2>2 DEF OneTab, Others
<1>4. CASE \E c \in Tabs : TabDies(c)
  BY <1>4, DeadTab DEF Others
<1> QED
  BY <1>1, <1>2, <1>3, <1>4, Undisturbed, Moves, WorkerFrame DEF TabMoves, vars

LEMMA LedStep == ASSUME IInv, TInv, Asking, Led, [Next]_vars PROVE Led'
<1> SUFFICES ASSUME destroys' = 0, NEW p \in DOMAIN ports', tab'[Owner(p)'].alive
             PROVE  tab'[Owner(p)'].stake = "leader"
  BY DEF Led, Owner
<1>1. destroys = 0
  BY StillNone
<1>2. CASE p \in DOMAIN ports
  <2>1. Owner(p)' = Owner(p) /\ Owner(p) \in Tabs
    BY <1>2, PortsKept, OwnerTab
  <2>2. tab[Owner(p)].alive
    BY <2>1, AliveMoves
  <2>3. tab[Owner(p)].stake = "leader"
    BY <1>1, <1>2, <2>2 DEF Led
  <2> QED
    BY <1>1, <2>1, <2>3, LeaderStays
<1>3. CASE p \notin DOMAIN ports
  <2>1. PICK t \in Tabs : Deliver(t) /\ Owner(p)' = t
    BY <1>3, PortMoves DEF NewPort, Owner
  <2>2. tab' = [tab EXCEPT ![t] = Leading(t)] /\ tab \in [Tabs -> TabRecs]
    BY <2>1, Delivered DEF TInv, TabTyped
  <2>3. Leading(t).stake = "leader"
    BY <2>2 DEF Leading, TabRecs
  <2> QED
    BY <2>1, <2>2, <2>3
<1> QED
  BY <1>2, <1>3

LEMMA OvertakenStep == ASSUME IInv, TInv, Asking, Led, Overtaken, [Next]_vars PROVE Overtaken'
<1> SUFFICES ASSUME destroys' = 0, NEW p \in DOMAIN ports', NEW q \in DOMAIN ports', p < q, Owner(p)' # Owner(q)'
             PROVE  Dead(Owner(p))'
  BY DEF Overtaken
<1>1. destroys = 0
  BY StillNone
<1>2. DOMAIN ports = 1 .. Len(ports) /\ Len(ports) \in Nat
  BY LenProperties DEF TInv, PortsTyped
<1>3. p \in DOMAIN ports
  <2>1. \A n \in DOMAIN ports' : n \in DOMAIN ports \/ n = Len(ports) + 1
    BY PortMoves DEF NewPort
  <2> QED
    BY <1>2, <2>1
<1>4. Owner(p)' = Owner(p) /\ Owner(p) \in Tabs
  BY <1>3, PortsKept, OwnerTab
<1>5. Dead(Owner(p))
  <2>1. CASE q \in DOMAIN ports
    BY <1>1, <1>3, <1>4, <2>1, PortsKept DEF Overtaken
  <2>2. CASE q \notin DOMAIN ports
    <3>1. PICK t \in Tabs : (OpenGraph(t) \/ LockGranted(t)) /\ Owner(q)' = t /\ ports' # ports
      BY <2>2, PortMoves DEF NewPort, Owner
    <3>2. Head(lockQ) = t
      <4>1. tab[t].stake = "leader" => Head(lockQ) = t
        BY DEF IInv, Queued, Leads
      <4> QED
        BY <3>1, <4>1 DEF OpenGraph, LockGranted
    <3>3. tab[Owner(p)].stake = "leader" => Head(lockQ) = Owner(p)
      BY <1>4 DEF IInv, Queued, Leads
    <3>4. tab[Owner(p)].alive => tab[Owner(p)].stake = "leader"
      BY <1>1, <1>3 DEF Led
    <3> QED
      BY <1>4, <3>1, <3>2, <3>3, <3>4 DEF Dead
  <2> QED
    BY <2>1, <2>2
<1> QED
  BY <1>4, <1>5, AliveMoves DEF Dead

\* What fails a Worker, or a request -----------------------------------------------------------------

LEMMA DeadStays == ASSUME IInv, TInv, [Next]_vars, NEW t \in Tabs, Dead(t) PROVE Dead(t)'
BY AliveMoves DEF Dead

\* Undisturbed, handles are left behind by dead tabs alone, and a Worker that met them is another's.
Spoilt(w) ==
    /\ workers[w].state # "killed"
    /\ workers[w].state = "orphan" => Dead(workers[w].owner)
    /\ workers[w].state = "failed" => \E u \in Tabs \ {workers[w].owner} : Dead(u)
Spoiled == destroys = 0 => \A w \in DOMAIN workers : Spoilt(w)

State(w, s) == workers'[w].state = s
LEMMA StateMoves ==
    ASSUME IInv, TInv, Asking, destroys = 0, [Next]_vars, NEW w \in DOMAIN workers'
    PROVE  IF w \notin DOMAIN workers THEN State(w, "opening")
           ELSE \/ State(w, workers[w].state) \/ (State(w, "open") /\ WorkerOpens(w))
                \/ State(w, "gone") /\ (workers[w].state = "failed" => TabDies(workers[w].owner))
                \/ State(w, "orphan") /\ TabDies(workers[w].owner)
                \/ State(w, "failed") /\ WorkerOpenFails(w)
<1>1. workers \in Seq(WorkerRecords) /\ Shape
  BY DEF IInv, Shape
<1>2. CASE workers' = workers
  BY <1>2 DEF State
<1>3. CASE \E t \in Tabs : OpenGraph(t) \/ LockGranted(t)
  <2>1. PICK t \in Tabs : OpenGraph(t) \/ LockGranted(t)
    BY <1>3
  <2>2. CASE Deliver(t)
    <3>1. /\ DOMAIN workers' \subseteq DOMAIN workers \cup {LedWith(t)}
          /\ \A v \in DOMAIN workers : workers'[v] = workers[v]
          /\ LedWith(t) \notin DOMAIN workers => workers'[LedWith(t)] = [owner |-> t, state |-> "opening"]
      BY <2>2, Delivered
    <3>2. CASE w \in DOMAIN workers
      BY <3>1, <3>2 DEF State
    <3>3. CASE w \notin DOMAIN workers
      <4>1. w = LedWith(t)
        BY <3>1, <3>3
      <4> QED
        BY <3>1, <3>3, <4>1 DEF State
    <3> QED
      BY <3>2, <3>3
  <2> QED
    BY <1>2, <2>1, <2>2 DEF OpenGraph, LockGranted
<1>4. CASE \E t \in Tabs : TabDies(t)
  <2>1. PICK t \in Tabs : TabDies(t)
    BY <1>4
  <2> DEFINE s == IF workers[w].state = "open" THEN "orphan" ELSE "gone"
             x == [workers[w] EXCEPT !.state = s]
  <2>2. w \in DOMAIN workers /\ workers'[w] = IF workers[w].owner = t /\ Live(w) THEN x ELSE workers[w]
    BY <2>1 DEF TabDies
  <2>3. workers[w] \in WorkerRecords
    BY <1>1, <2>2
  <2>4. x.state = s
    BY <2>3 DEF WorkerRecords
  <2> HIDE DEF x
  <2> QED
    BY <2>1, <2>2, <2>4 DEF State, Live
<1>5. CASE \E v \in DOMAIN workers : WorkerOpens(v) \/ WorkerOpenFails(v) \/ ThreadGone(v)
  <2>1. PICK v \in DOMAIN workers : WorkerOpens(v) \/ WorkerOpenFails(v) \/ ThreadGone(v)
    BY <1>5
  <2>2. PICK s \in {"open", "failed", "gone"} :
           /\ workers' = [workers EXCEPT ![v].state = s]
           /\ s = "failed" => WorkerOpenFails(v)
           /\ s = "open" => WorkerOpens(v)
           /\ s = "gone" => workers[v].state # "failed"
    BY <2>1 DEF WorkerOpens, WorkerOpenFails, ThreadGone
  <2>3. w \in DOMAIN workers /\ workers[w] \in WorkerRecords /\ workers[v] \in WorkerRecords
    BY <1>1, <2>2
  <2>4. workers'[w].state = IF w = v THEN s ELSE workers[w].state
    BY <1>1, <2>2, <2>3 DEF WorkerRecords
  <2> QED
    BY <2>2, <2>3, <2>4 DEF State
<1>6. CASE TabMoves
  BY <1>2, <1>3, <1>4, <1>6, Undisturbed DEF TabMoves
<1>7. CASE WorkerMoves
  BY <1>2, <1>5, <1>7 DEF WorkerMoves, Execute
<1> QED
  BY <1>2, <1>6, <1>7, Moves, EdgeFrame DEF vars

\* A live Worker is a live tab's.
LEMMA LiveOwner == ASSUME IInv, TInv, NEW w \in DOMAIN workers, Live(w) PROVE workers[w].owner \in Tabs /\ ~Dead(workers[w].owner)
<1>1. workers[w].owner \in Tabs /\ Owned(w)
  BY WorkerOfTab DEF IInv
<1>2. Manages(workers[w].owner)
  BY <1>1 DEF TInv
<1> QED
  BY <1>1, <1>2 DEF Owned, Manages, Dead

LEMMA SpoiledStep == ASSUME IInv, TInv, Asking, Spoiled, [Next]_vars PROVE Spoiled'
<1> SUFFICES ASSUME destroys' = 0, NEW w \in DOMAIN workers' PROVE Spoilt(w)'
  BY DEF Spoiled
<1>1. destroys = 0
  BY StillNone
<1>2. CASE w \notin DOMAIN workers
  <2>1. State(w, "opening")
    BY <1>1, <1>2, StateMoves
  <2> QED
    BY <2>1 DEF State, Spoilt
<1>3. CASE w \in DOMAIN workers
  <2>1. workers'[w].owner = workers[w].owner /\ workers[w].owner \in Tabs /\ Spoilt(w)
    BY <1>1, <1>3, Grows, WorkerOfTab DEF Grown, IInv, Spoiled
  <2>2. ASSUME State(w, workers[w].state) PROVE Spoilt(w)'
    BY <2>1, <2>2, DeadStays DEF Spoilt, State
  <2>3. ASSUME State(w, "open") \/ State(w, "gone") PROVE Spoilt(w)'
    BY <2>3 DEF Spoilt, State
  <2>4. ASSUME State(w, "orphan"), TabDies(workers[w].owner) PROVE Spoilt(w)'
    BY <2>1, <2>4, DeadTab DEF Spoilt, State, Dead
  <2>5. ASSUME State(w, "failed"), WorkerOpenFails(w) PROVE Spoilt(w)'
    <3>1. Live(w) /\ Holders # {}
      BY <2>5 DEF WorkerOpenFails, Live
    <3>2. PICK v \in DOMAIN workers : workers[v].state \in {"open", "orphan", "killed"}
      BY <3>1 DEF Holders, HoldsHandles
    <3>3. workers[v].state # "killed" /\ (workers[v].state = "orphan" => Dead(workers[v].owner))
      BY <1>1, <3>2 DEF Spoiled, Spoilt
    <3>4. workers[v].state # "open"
      <4>1. SUFFICES ASSUME workers[v].state = "open" PROVE FALSE
        OBVIOUS
      <4>2. Live(v) /\ workers[w].state = "opening"
        BY <2>5, <4>1 DEF Live, WorkerOpenFails
      <4>3. v = w
        BY <1>3, <3>1, <3>2, <4>2, LeaderOwnsIt DEF OneLiveWorker
      <4> QED
        BY <4>1, <4>2, <4>3
    <3>5. Dead(workers[v].owner) /\ workers[v].owner \in Tabs
      BY <3>2, <3>3, <3>4, WorkerOfTab DEF IInv
    <3>6. workers[v].owner # workers[w].owner
      BY <1>3, <3>1, <3>5, LiveOwner
    <3>7. PICK u \in Tabs : u = workers[v].owner
      BY <3>5
    <3>8. Dead(u)'
      BY <3>5, <3>7, DeadStays
    <3> QED
      BY <2>1, <2>5, <3>6, <3>7, <3>8 DEF Spoilt, State
  <2> QED
    BY <1>1, <1>3, <2>2, <2>3, <2>4, <2>5, StateMoves
<1> QED
  BY <1>2, <1>3

Broken == faults.deaths > 1 \/ \E w \in DOMAIN workers : workers[w].state = "failed"
Excused == Broken \/ \A t \in Tabs : Dead(t)

LEMMA BrokenStays ==
    ASSUME IInv, TInv, Asking, Spoiled, Faulted, destroys = 0, Broken, [Next]_vars PROVE Broken'
<1>1. CASE faults.deaths > 1
  BY <1>1, DeathsMove DEF Broken
<1>2. CASE \E w \in DOMAIN workers : workers[w].state = "failed"
  <2>1. PICK w \in DOMAIN workers : workers[w].state = "failed"
    BY <1>2
  <2>2. w \in DOMAIN workers' /\ workers[w].owner \in Tabs
    BY Grows, WorkerOfTab DEF Grown, IInv
  <2>3. PICK u \in Tabs \ {workers[w].owner} : Dead(u)
    BY <2>1 DEF Spoiled, Spoilt
  <2>4. CASE State(w, "failed")
    BY <2>2, <2>4 DEF Broken, State
  <2>5. CASE TabDies(workers[w].owner)
    <3>1. Dead(u)' /\ ~tab'[workers[w].owner].alive
      BY <2>2, <2>3, <2>5, DeadStays, DeadTab
    <3>2. faults'.deaths = faults.deaths + 1 /\ faults.deaths >= 1 /\ faults.deaths \in Nat
      <4>1. faults.deaths >= 1
        BY <2>3, Zenon DEF Faulted
      <4> QED
        BY <2>2, <2>5, <4>1, DeathsMove
    <3> QED
      BY <3>2 DEF Broken
  <2>6. ~WorkerOpens(w)
    BY <2>1 DEF WorkerOpens
  <2> QED
    BY <2>1, <2>2, <2>4, <2>5, <2>6, StateMoves
<1> QED
  BY <1>1, <1>2 DEF Broken

\* Undisturbed, a call is on the stub there is; a call retried left a dead tab's.
OnStub(r) ==
    req[r].pc = "calling" =>
        /\ req[r].port = sw.current
        /\ req[r].tries = 2 => \E u \in Tabs \ {Owner(req[r].port)} : Dead(u)
Served(r) ==
    /\ req[r].pc = "failed" => Excused
    /\ \A p : <<r, p, FALSE>> \in replies => Broken
NInv ==
    /\ Asking /\ Faulted /\ Arriving /\ Led /\ Overtaken /\ Spoiled
    /\ destroys = 0 => \A r \in Requests : OnStub(r) /\ Served(r)

\* A new port of another owner: the old stub's owner is dead, and each of its calls is retried unless
\* it was before.
LEMMA AcceptRejects ==
    ASSUME TInv, AcceptPort, sw.current # 0, NEW r \in Requests, req[r].pc = "calling", req[r].port = sw.current,
           req[r].tries = 1, req[r].epoch = destroys, Head(posted) # sw.current
    PROVE  Retries(r, Head(posted))
<1> DEFINE p == Head(posted)
           old == sw.current
           z == AfterReject(old, p)
<1>1. req[r] \in ReqRecs /\ ReqTyped /\ p \in Nat /\ p # 0
  BY HeadPosted DEF TInv, ReqTyped, AcceptPort
<1>2. req'[r] = z[r]
  BY DEF AcceptPort
<1>3. r \in Retried(old, p)
  BY <1>1 DEF Retried, Cut
<1>4. /\ z[r].pc = "calling" /\ z[r].port = p /\ z[r].tries = 2
      /\ z[r].epoch = req[r].epoch /\ z[r].quiet = req[r].quiet
  BY <1>1, <1>3, RejectedCall
<1> HIDE DEF z
<1> QED
  BY <1>1, <1>2, <1>4 DEF Retries, Calls, Kept

LEMMA AcceptsNew ==
    ASSUME IInv, TInv, Overtaken, Arriving, destroys = 0, AcceptPort
    PROVE  /\ sw'.current = Head(posted) /\ Head(posted) # sw.current /\ Head(posted) \in DOMAIN ports
           /\ sw.current # 0 => Owner(sw.current) \in Tabs /\ Dead(Owner(sw.current))
                                /\ Owner(Head(posted)) # Owner(sw.current)
<1>1. /\ sw \in SwRecs /\ sw.current \in DOMAIN ports \cup {0} /\ PortsTyped /\ posted # << >>
      /\ posted \in Seq(DOMAIN ports) /\ sw.current \in Nat
  BY DEF TInv, SwTyped, SwRecs, AcceptPort, PortsTyped
<1>2. Head(posted) \in DOMAIN ports /\ Head(posted) \in Nat
  BY <1>1, HeadPosted
<1>3. sw'.current = Head(posted)
  BY <1>1 DEF AcceptPort, SwRecs
<1>4. Head(posted) > sw.current
  <2>1. 1 \in 1 .. Len(posted) /\ Head(posted) = posted[1]
    BY <1>1
  <2> QED
    BY <2>1 DEF Arriving
<1>5. ASSUME sw.current # 0
      PROVE  Owner(sw.current) \in Tabs /\ Dead(Owner(sw.current)) /\ Owner(Head(posted)) # Owner(sw.current)
  <2>1. sw.current \in DOMAIN ports /\ sw.current \in {sw.current} \ {0}
    BY <1>1, <1>5
  <2>2. Owner(Head(posted)) \notin HeldOwner
    BY DEF AcceptPort
  <2>3. Owner(sw.current) \in HeldOwner
    BY <2>1 DEF HeldOwner
  <2> QED
    BY <1>2, <1>4, <2>1, <2>2, <2>3, OwnerTab DEF Overtaken
<1> QED
  BY <1>1, <1>2, <1>3, <1>4, <1>5

\* The stub stays as long as a call waits on it and nobody destroys the graph.
LEMMA CurrentStays ==
    ASSUME TInv, [Next]_vars, destroys' = 0, ~AcceptPort, NEW r \in Requests, InFlight(r)
    PROVE  sw'.current = sw.current
<1>1. sw \in SwRecs
  BY DEF TInv, SwTyped
<1>2. \A d \in Destroys : ~DestroyCall(d)
  BY StillNone
<1>3. ~SWReaped
  BY DEF SWReaped
<1>4. CASE \E t \in Tabs : ControlPort(t)
  BY <1>1, <1>4 DEF ControlPort, SwRecs
<1>5. CASE \E c \in Requests : RequestOnStub(c) \/ RequestSolicits(c)
  BY <1>1, <1>5 DEF RequestOnStub, RequestSolicits, SwRecs
<1>6. CASE FactoryTimeout \/ DuplicatePort \/ \E d \in Destroys : DestroySettled(d)
  BY <1>1, <1>6 DEF FactoryTimeout, DuplicatePort, DestroySettled, SwRecs
<1>7. CASE EdgeMoves
  BY <1>2, <1>3, <1>4, <1>5, <1>6, <1>7 DEF EdgeMoves, Reply
<1> QED
  BY <1>7, Moves, TabFrame, WorkerFrame DEF vars

LEMMA NotSettled ==
    ASSUME Asking, destroys = 0, NEW d \in Destroys PROVE ~DestroySettled(d)
BY DEF Asking, DestroySettled

LEMMA OnStubStep ==
    ASSUME IInv, TInv, NInv, [Next]_vars, destroys' = 0, NEW r \in Requests PROVE OnStub(r)'
<1> SUFFICES ASSUME req'[r].pc = "calling"
             PROVE  /\ req'[r].port = sw'.current
                    /\ req'[r].tries = 2 => \E u \in Tabs \ {Owner(req[r].port)'} : Dead(u)'
  BY DEF OnStub
<1>1. destroys = 0 /\ OnStub(r)
  BY StillNone DEF NInv
<1>2. req[r] \in ReqRecs /\ (req[r].pc = "calling" => req[r].port \in DOMAIN ports /\ req[r].tries # 0)
  BY DEF TInv, ReqTyped, Coherent
<1>3. ASSUME AcceptPort
      PROVE  /\ sw'.current = Head(posted) /\ Head(posted) # sw.current /\ Head(posted) \in DOMAIN ports
             /\ sw.current # 0 => Owner(sw.current) \in Tabs /\ Dead(Owner(sw.current))
                                  /\ Owner(Head(posted)) # Owner(sw.current)
  BY <1>1, <1>3, AcceptsNew DEF NInv
<1>4. ASSUME NEW p \in DOMAIN ports, req'[r].port = p, NEW u \in Tabs, u # Owner(p), Dead(u)
      PROVE  \E v \in Tabs \ {Owner(req[r].port)'} : Dead(v)'
  <2>1. Owner(p)' = Owner(p) /\ Dead(u)'
    BY <1>4, PortsKept, DeadStays
  <2>2. Owner(req[r].port)' = Owner(p)'
    BY <1>4 DEF Owner
  <2> QED
    BY <1>4, <2>1, <2>2
<1>5. CASE Beginning(r)
  <2>1. RequestOnStub(r) /\ req'[r].port = sw.current /\ req'[r].tries = 1
    BY <1>5 DEF Beginning
  <2> QED
    BY <2>1 DEF RequestOnStub
<1>6. CASE Waiting(r)
  BY <1>3, <1>6 DEF Waiting, Ends, Calls
<1>7. CASE Settling(r)
  <2>1. req[r].pc = "calling" /\ req[r].port = sw.current /\ req[r].port \in DOMAIN ports
    BY <1>1, <1>2, <1>7 DEF Settling, OnStub
  <2>2. CASE AcceptPort /\ sw.current # 0 /\ Rejected(r, Head(posted))
    <3>1. req'[r].port = Head(posted)
      BY <2>2 DEF Rejected, Retries, Calls, Ends
    <3> QED
      BY <1>3, <1>4, <2>2, <3>1
  <2>3. \A d \in Destroys : ~DestroySettled(d)
    BY <1>1, NotSettled DEF NInv
  <2>4. ~Retries(r, sw.current)
    BY <2>1 DEF Retries
  <2> QED
    BY <1>7, <2>2, <2>3, <2>4 DEF Settling, Rejected, Ends
<1>8. CASE req'[r] = req[r]
  <2>1. req[r].pc = "calling" /\ req[r].port = sw.current /\ req[r].port \in DOMAIN ports
    BY <1>1, <1>2, <1>8 DEF OnStub
  <2>2. ~AcceptPort
    <3>1. SUFFICES ASSUME AcceptPort PROVE FALSE
      OBVIOUS
    <3>2. ports \in Seq(Nat) /\ sw.current # 0
      <4>1. ports \in Seq(Nat) /\ sw.current \in DOMAIN ports
        BY <2>1 DEF TInv, PortsTyped
      <4> QED
        BY <4>1
    <3>3. req'[r] = AfterReject(sw.current, Head(posted))[r] /\ Head(posted) \in Nat /\ ReqTyped
      BY <2>1, <3>1, <3>2, HeadPosted DEF AcceptPort, TInv
    <3>4. r \in Cut(sw.current)
      BY <2>1 DEF Cut
    <3>5. req'[r].pc = "failed" \/ req'[r].port = Head(posted)
      BY <3>3, <3>4, RejectedCall
    <3> QED
      BY <1>3, <1>8, <2>1, <3>1, <3>5
  <2>3. sw'.current = sw.current
    BY <2>1, <2>2, CurrentStays DEF InFlight
  <2>4. req[r].tries = 2 => \E u \in Tabs \ {Owner(req[r].port)} : Dead(u)
    BY <1>1, <2>1 DEF OnStub
  <2> QED
    BY <1>4, <1>8, <2>1, <2>3, <2>4
<1> QED
  BY <1>5, <1>6, <1>7, <1>8, ReqMoves

LEMMA ExcusedStays ==
    ASSUME IInv, TInv, Asking, Spoiled, Faulted, destroys = 0, Excused, [Next]_vars PROVE Excused'
BY BrokenStays, DeadStays DEF Excused

LEMMA ServedStep ==
    ASSUME IInv, TInv, NInv, [Next]_vars, destroys' = 0, NEW r \in Requests PROVE Served(r)'
<1>1. destroys = 0 /\ OnStub(r) /\ Served(r) /\ Asking /\ Spoiled /\ Faulted /\ Overtaken /\ Arriving
  BY StillNone DEF NInv
<1>2. /\ req[r] \in ReqRecs /\ req[r].epoch <= destroys
      /\ req[r].pc = "calling" => req[r].port \in DOMAIN ports /\ req[r].tries # 0
  BY DEF TInv, ReqTyped, Coherent
<1>3. req[r].epoch = destroys
  BY <1>1, <1>2 DEF ReqRecs
<1>4. (Excused => Excused') /\ (Broken => Broken') /\ (Broken => Excused)
  BY <1>1, ExcusedStays, BrokenStays DEF Excused
<1>5. ASSUME req'[r].pc = "failed" PROVE Excused
  <2>1. CASE req'[r] = req[r]
    BY <1>1, <1>5, <2>1 DEF Served
  <2>2. CASE FactoryTimeout
    BY <2>2 DEF FactoryTimeout, Excused, Dead
  <2>3. CASE Settling(r)
    <3>1. req[r].pc = "calling" /\ req[r].port = sw.current /\ req[r].port \in DOMAIN ports
      BY <1>1, <1>2, <2>3 DEF Settling, OnStub
    <3>2. CASE AcceptPort /\ sw.current # 0 /\ req[r].port = sw.current
      <4>1. /\ Head(posted) # sw.current /\ Owner(sw.current) \in Tabs /\ Dead(Owner(sw.current))
        BY <1>1, <3>2, AcceptsNew
      <4>2. req[r].tries # 1
        <5>1. SUFFICES ASSUME req[r].tries = 1 PROVE FALSE
          OBVIOUS
        <5>2. Retries(r, Head(posted))
          BY <1>3, <3>1, <3>2, <4>1, <5>1, AcceptRejects
        <5> QED
          BY <1>5, <5>2 DEF Retries, Calls
      <4>3. req[r].tries = 2
        <5>1. req[r].tries \in 0 .. 2
          BY <1>2 DEF ReqRecs
        <5> QED
          BY <1>2, <3>1, <4>2, <5>1
      <4>4. PICK u \in Tabs \ {Owner(sw.current)} : Dead(u)
        BY <1>1, <3>1, <4>3 DEF OnStub
      <4>5. faults.deaths >= 2 /\ faults.deaths \in Nat
        <5>1. faults.deaths >= 2
          BY <1>1, <4>1, <4>4, Zenon DEF Faulted
        <5> QED
          BY <5>1, DeathsMove
      <4>6. faults.deaths > 1
        BY <4>5
      <4> QED
        BY <4>6 DEF Excused, Broken
    <3>3. CASE Reply(r, req[r].port, FALSE)
      <4>1. <<r, req[r].port, FALSE>> \in replies
        BY <3>3 DEF Reply
      <4> QED
        BY <1>1, <1>4, <4>1 DEF Served
    <3>4. \A d \in Destroys : ~DestroySettled(d)
      BY <1>1, NotSettled
    <3> QED
      BY <1>5, <2>3, <3>2, <3>3, <3>4 DEF Settling, Ends
  <2> QED
    BY <1>5, <2>1, <2>2, <2>3, ReqMoves DEF Beginning, Waiting, Calls
<1>6. ASSUME NEW p, <<r, p, FALSE>> \in replies' PROVE Broken
  <2>1. CASE <<r, p, FALSE>> \in replies
    BY <1>1, <2>1 DEF Served
  <2>2. CASE <<r, p, FALSE>> \notin replies
    <3>1. workers[ports[p]].state = "failed" /\ p \in DOMAIN ports
      BY <1>6, <2>2, NewReply
    <3> QED
      BY <3>1, OwnerTab DEF Broken
  <2> QED
    BY <2>1, <2>2
<1> QED
  BY <1>4, <1>5, <1>6 DEF Served

LEMMA NoneStarts == Init => NInv
<1> SUFFICES ASSUME Init PROVE NInv
  OBVIOUS
<1>1. /\ posted = << >> /\ ports = << >> /\ workers = << >> /\ replies = {}
      /\ (\A r \in Requests : req[r].pc = "idle") /\ (\A d \in Destroys : dst[d].pc = "idle")
      /\ \A t \in Tabs : tab[t].alive
  BY DEF Init
<1> QED
  BY <1>1 DEF NInv, Asking, Faulted, Arriving, Led, Overtaken, Spoiled, OnStub, Served, Dead

LEMMA NoneStep == ASSUME IInv, TInv, NInv, [Next]_vars PROVE NInv'
<1>1. /\ Asking' /\ Faulted' /\ Arriving' /\ Led' /\ Overtaken' /\ Spoiled'
  BY AskingStep, FaultedStep, ArrivingStep, LedStep, OvertakenStep, SpoiledStep DEF NInv
<1>2. destroys' = 0 => \A r \in Requests : OnStub(r)' /\ Served(r)'
  BY OnStubStep, ServedStep
<1> QED
  BY <1>1, <1>2 DEF NInv

\* A request only fails for a destroy, for handles that outlived the budget of the Worker that waited
\* for them, or because no page is left: one tab's death, the duplicates of a port and the pages that
\* join late never fail it (BrowserGraphManager.call retries it once on the new stub, and a new stub
\* comes from another tab only after the death of the one before).
THEOREM NoneSpurious == Spec => []NoSpuriousFailure
<1>1. Typed /\ NInv /\ [Next]_vars => NInv'
  BY NoneStep DEF Typed
<1>2. Typed /\ NInv => NoSpuriousFailure
  <2> SUFFICES ASSUME Typed, NInv, NEW r \in Requests, req[r].pc = "failed", ~(destroys > 0)
               PROVE  Excused
    BY DEF NoSpuriousFailure, Excused, Broken, Dead
  <2>1. destroys = 0
    BY DEF Typed, TInv, ReqTyped
  <2> QED
    BY <2>1 DEF NInv, Served
<1> QED
  BY <1>1, <1>2, NoneStarts, EdgeTyping, PTL DEF Spec

\* What a destroy cuts off ------------------------------------------------------------------------------

\* Until the Service Worker is reaped, whoever was asked for anything has a control session, and
\* whatever was written came through a port.
Unreaped == faults.restarts = 0
Known(t) == sw.sessions[t] > 0
Joined ==
    Unreaped => /\ \A t \in Tabs : inbox[t] # << >> \/ tab[t].stake # "none" => Known(t)
                /\ \A p \in DOMAIN ports : Known(Owner(p))
                /\ data # {} => DOMAIN ports # {}

\* A restart is counted, and a session stays until one.
LEMMA ReapsCounted ==
    ASSUME TInv, [Next]_vars, Unreaped'
    PROVE  Unreaped /\ ~SWReaped
<1>1. faults.restarts \in Nat /\ faults \in [deaths : 0 .. MaxFaults[sw.kind], restarts : 0 .. MaxRestarts[sw.kind]]
  <2>1. faults \in [deaths : 0 .. MaxFaults[sw.kind], restarts : 0 .. MaxRestarts[sw.kind]]
    BY DEF TInv, FaultsTyped
  <2>2. MaxRestarts[sw.kind] \in Nat
    BY EdgeAssumption DEF TInv, SwTyped, SwRecs
  <2> QED
    BY <2>1, <2>2
<1>2. CASE SWReaped
  <2>1. faults' = [faults EXCEPT !.restarts = @ + 1]
    BY <1>2 DEF SWReaped
  <2>2. faults'.restarts = faults.restarts + 1
    BY <1>1, <2>1
  <2> QED
    BY <1>1, <2>2 DEF Unreaped
<1>3. CASE ~SWReaped
  <2>1. faults' = faults \/ \E t \in Tabs : TabDies(t)
    BY <1>3, Moves, TabFrame, EdgeFrame, WorkerFrame DEF vars
  <2>2. ASSUME NEW t \in Tabs, TabDies(t) PROVE faults'.restarts = faults.restarts
    <3>1. faults' = [faults EXCEPT !.deaths = @ + 1]
      BY <2>2 DEF TabDies
    <3> QED
      BY <1>1, <3>1
  <2> QED
    BY <1>3, <2>1, <2>2 DEF Unreaped
<1> QED
  BY <1>2, <1>3

LEMMA SessionsGrow ==
    ASSUME IInv, TInv, [Next]_vars, ~SWReaped, NEW t \in Tabs
    PROVE  /\ sw.sessions[t] \in Nat /\ sw'.sessions[t] \in Nat /\ sw'.sessions[t] >= sw.sessions[t]
           /\ ControlPort(t) => sw'.sessions[t] > 0
<1>1. sw \in SwRecs /\ sw.sessions[t] \in Nat /\ sw.sessions \in [Tabs -> Nat]
  BY DEF TInv, SwTyped, SwRecs
<1>2. CASE \E u \in Tabs : ControlPort(u)
  <2>1. PICK u \in Tabs : ControlPort(u)
    BY <1>2
  <2> DEFINE s == [sw.sessions EXCEPT ![u] = @ + 1]
             n == IF sw.soliciting = "factories" THEN "port" ELSE sw.soliciting
  <2>2. sw' = [sw EXCEPT !.sessions = s, !.soliciting = n]
    BY <2>1 DEF ControlPort
  <2>3. s[t] = (IF t = u THEN sw.sessions[t] + 1 ELSE sw.sessions[t])
    BY <1>1
  <2> HIDE DEF s, n
  <2>4. sw'.sessions = s
    BY <1>1, <2>2 DEF SwRecs
  <2>5. ControlPort(t) => sw'.sessions[t] > 0
    <3>1. SUFFICES ASSUME ControlPort(t) PROVE sw'.sessions[t] > 0
      OBVIOUS
    <3> DEFINE z == [sw.sessions EXCEPT ![t] = @ + 1]
    <3>2. sw' = [sw EXCEPT !.sessions = z, !.soliciting = n]
      BY <3>1 DEF ControlPort, n
    <3>3. z[t] = sw.sessions[t] + 1
      BY <1>1
    <3> HIDE DEF z
    <3>4. sw'.sessions = z
      BY <1>1, <3>2 DEF SwRecs
    <3> QED
      BY <1>1, <3>3, <3>4
  <2> QED
    BY <1>1, <2>3, <2>4, <2>5
<1>3. CASE ~(\E u \in Tabs : ControlPort(u))
  <2>1. sw'.sessions = sw.sessions
    <3>1. CASE EdgeMoves
      BY <1>1, <1>3, <3>1 DEF EdgeMoves, RequestOnStub, RequestSolicits, DestroyCall, DestroySettled, Reply,
         FactoryTimeout, DuplicatePort, AcceptPort, SwRecs
    <3> QED
      BY <3>1, Moves, TabFrame, WorkerFrame DEF vars
  <2> QED
    BY <1>1, <1>3, <2>1
<1> QED
  BY <1>2, <1>3

LEMMA KnownStays == ASSUME IInv, TInv, [Next]_vars, ~SWReaped, NEW t \in Tabs, Known(t) PROVE Known(t)'
BY SessionsGrow DEF Known

\* A tab is asked over its sessions.
LEMMA AskedKnown ==
    ASSUME IInv, TInv, Joined, Unreaped, ~SWReaped, [Next]_vars, NEW t \in Tabs, inbox'[t] # << >>
    PROVE  Known(t)'
<1>1. inbox[t] \in Seq(Messages) /\ inbox \in [Tabs -> Seq(Messages)]
  BY DEF TInv, InboxTyped
<1>2. CASE inbox[t] # << >>
  BY <1>2, KnownStays DEF Joined
<1>3. CASE inbox[t] = << >>
  <2>1. ASSUME NEW m \in Messages, inbox' = [u \in Tabs |-> inbox[u] \o Times(sw.sessions[u], m)]
        PROVE  Known(t)
    <3>1. sw.sessions[t] \in Nat /\ inbox'[t] = inbox[t] \o Times(sw.sessions[t], m)
      BY <2>1, Asks
    <3>2. SUFFICES ASSUME sw.sessions[t] = 0 PROVE FALSE
      BY <3>1 DEF Known
    <3>3. Times(sw.sessions[t], m) = << >>
      BY <3>2 DEF Times
    <3> QED
      BY <1>3, <3>1, <3>3
  <2>2. CASE \E u \in Tabs : ControlPort(u)
    <3>1. PICK u \in Tabs : ControlPort(u)
      BY <2>2
    <3>2. PICK extra \in Seq(Messages) : inbox' = [inbox EXCEPT ![u] = inbox[u] \o extra]
      BY <3>1, Woken
    <3>3. u = t
      BY <1>1, <1>3, <3>2
    <3> QED
      BY <3>1, <3>3, SessionsGrow DEF Known
  <2>3. CASE EdgeMoves
    <3>1. CASE \E r \in Requests : RequestSolicits(r)
      <4>1. inbox' = inbox \/ inbox' = [u \in Tabs |-> inbox[u] \o Times(sw.sessions[u], OpenMsg)]
        BY <3>1 DEF RequestSolicits
      <4> QED
        BY <1>3, <2>1, <4>1, MessageKinds, KnownStays
    <3>2. CASE \E d \in Destroys : DestroyCall(d)
      <4>1. PICK d \in Destroys : inbox' = [u \in Tabs |-> inbox[u] \o Times(sw.sessions[u], DestroyMsg(d))]
        BY <3>2 DEF DestroyCall
      <4> QED
        BY <2>1, <4>1, MessageKinds, KnownStays
    <3>3. CASE \E r \in Requests : RequestOnStub(r)
      BY <1>3, <3>3 DEF RequestOnStub, tabVars
    <3>4. CASE \E d \in Destroys : DestroySettled(d)
      BY <1>3, <3>4 DEF DestroySettled, tabVars
    <3>5. CASE \E r \in Requests, p \in DOMAIN ports, ok \in BOOLEAN : Reply(r, p, ok)
      BY <1>3, <3>5 DEF Reply, tabVars
    <3>6. CASE FactoryTimeout \/ DuplicatePort
      BY <1>3, <3>6 DEF FactoryTimeout, DuplicatePort, tabVars
    <3>7. CASE AcceptPort
      BY <1>3, <3>7 DEF AcceptPort, tabVars
    <3> QED
      BY <2>2, <2>3, <3>1, <3>2, <3>3, <3>4, <3>5, <3>6, <3>7 DEF EdgeMoves
  <2>4. CASE TabMoves
    <3>1. CASE \E u \in Tabs : OpenGraph(u)
      BY <1>1, <1>3, <3>1 DEF OpenGraph
    <3>2. CASE \E u \in Tabs : DestroyGraph(u)
      <4>1. PICK u \in Tabs : DestroyGraph(u)
        BY <3>2
      <4>2. PICK i \in 1 .. Len(inbox[u]) : inbox' = [inbox EXCEPT ![u] = RemoveAt(inbox[u], i)]
        BY <4>1, DestroyTab
      <4>3. u # t
        BY <1>3, <4>2
      <4> QED
        BY <1>1, <1>3, <4>2, <4>3
    <3>3. CASE \E u \in Tabs : TabDies(u)
      BY <1>1, <1>3, <3>3 DEF TabDies
    <3> QED
      BY <1>3, <2>4, <3>1, <3>2, <3>3 DEF TabMoves, LockGranted, LockGrantedStale, WorkerClosed, CloseTimeout,
         RemoveDirectory, RemoveRefused
  <2> QED
    BY <1>3, <2>3, <2>4, Moves, WorkerFrame DEF vars
<1> QED
  BY <1>2, <1>3

\* A tab queues because it was asked.
LEMMA StakedKnown ==
    ASSUME IInv, TInv, Joined, Unreaped, ~SWReaped, [Next]_vars, NEW t \in Tabs, tab'[t].stake # "none"
    PROVE  Known(t)'
<1>1. CASE tab[t].stake # "none"
  BY <1>1, KnownStays DEF Joined
<1>2. CASE tab[t].stake = "none"
  <2>1. CASE EdgeMoves
    BY <1>2, <2>1, EdgeTabs DEF Same
  <2>2. CASE TabMoves
    <3>1. CASE \E u \in Tabs : OpenGraph(u) \/ LockGranted(u)
      <4>1. PICK u \in Tabs : OpenGraph(u) \/ LockGranted(u)
        BY <3>1
      <4>2. OneTab(u)
        BY <4>1, OpenTab
      <4>3. u = t
        BY <1>2, <4>2 DEF OneTab, Others
      <4>4. inbox[t] # << >>
        BY <1>2, <4>1, <4>3 DEF OpenGraph, LockGranted
      <4> QED
        BY <4>4, KnownStays DEF Joined
    <3>2. CASE \E u \in Tabs : LockGrantedStale(u)
      <4>1. PICK u \in Tabs : LockGrantedStale(u)
        BY <3>2
      <4> QED
        BY <1>2, <4>1, StaleTab DEF OneTab, Others, SameRest
    <3>3. CASE \E u \in Tabs : WorkerClosed(u) \/ CloseTimeout(u)
      <4>1. PICK u \in Tabs : WorkerClosed(u) \/ CloseTimeout(u)
        BY <3>3
      <4> QED
        BY <1>2, <4>1, CloseTab DEF OneTab, Others, SameRest
    <3>4. CASE \E u \in Tabs : DestroyGraph(u)
      <4>1. PICK u \in Tabs : DestroyGraph(u)
        BY <3>4
      <4>2. PICK i \in 1 .. Len(inbox[u]), d \in Destroys :
              /\ OneTab(u)
              /\ IF tab[u].teardowns = << >> THEN tab'[u].stake = "none" ELSE SameRest(u)
        BY <4>1, DestroyTab
      <4> QED
        BY <1>2, <4>2 DEF OneTab, Others, SameRest
    <3>5. CASE \E u \in Tabs : RemoveDirectory(u) \/ RemoveRefused(u)
      <4>1. PICK u \in Tabs : RemoveDirectory(u) \/ RemoveRefused(u)
        BY <3>5
      <4>2. OneTab(u) /\ tab'[u].stake = "none"
        BY <4>1, FinishTab
      <4> QED
        BY <1>2, <4>2 DEF OneTab, Others
    <3>6. CASE \E u \in Tabs : TabDies(u)
      <4>1. PICK u \in Tabs : TabDies(u)
        BY <3>6
      <4> QED
        BY <1>2, <4>1, DeadTab DEF Others
    <3> QED
      BY <2>2, <3>1, <3>2, <3>3, <3>4, <3>5, <3>6 DEF TabMoves
  <2> QED
    BY <1>2, <2>1, <2>2, Moves, WorkerFrame DEF vars
<1> QED
  BY <1>1, <1>2

LEMMA JoinedStep == ASSUME IInv, TInv, Joined, [Next]_vars PROVE Joined'
<1> SUFFICES ASSUME Unreaped'
             PROVE  /\ \A t \in Tabs : inbox'[t] # << >> \/ tab'[t].stake # "none" => Known(t)'
                    /\ \A p \in DOMAIN ports' : Known(Owner(p))'
                    /\ data' # {} => DOMAIN ports' # {}
  BY DEF Joined
<1>1. Unreaped /\ ~SWReaped
  BY ReapsCounted
<1>2. ASSUME NEW t \in Tabs, inbox'[t] # << >> \/ tab'[t].stake # "none" PROVE Known(t)'
  BY <1>1, <1>2, AskedKnown, StakedKnown
<1>3. ASSUME NEW p \in DOMAIN ports' PROVE Known(Owner(p))'
  <2>1. CASE p \in DOMAIN ports
    <3>1. Owner(p)' = Owner(p) /\ Owner(p) \in Tabs /\ Known(Owner(p))
      BY <1>1, <2>1, PortMoves, OwnerTab DEF Joined
    <3>2. PICK u \in Tabs : u = Owner(p)
      BY <3>1
    <3>3. Known(u)'
      BY <1>1, <3>1, <3>2, KnownStays
    <3>4. Owner(p)' = u
      BY <3>1, <3>2
    <3> QED
      BY <3>3, <3>4 DEF Known
  <2>2. CASE p \notin DOMAIN ports
    <3>1. PICK t \in Tabs : NewPort(p, t)
      BY <1>3, <2>2, PortMoves
    <3>2. tab'[t].stake = "leader"
      BY <3>1, OpenTab DEF NewPort
    <3>3. Known(t)'
      BY <1>2, <3>2
    <3>4. Owner(p)' = t
      BY <3>1 DEF NewPort, Owner
    <3> QED
      BY <3>3, <3>4 DEF Known
  <2> QED
    BY <2>1, <2>2
<1>4. ASSUME data' # {} PROVE DOMAIN ports' # {}
  <2>1. DOMAIN ports \subseteq DOMAIN ports'
    BY Grows, PortsStay
  <2>2. data # {} \/ \E p \in DOMAIN ports : TRUE
    BY <1>4, DataMoves
  <2> QED
    BY <1>1, <2>1, <2>2 DEF Joined
<1> QED
  BY <1>2, <1>3, <1>4

\* Who may still execute a call: a Worker that opens, that has the handles, or whose tab died with them.
Running(w) == workers[w].state \in {"opening", "open", "orphan"}
OrphanDead == \A w \in DOMAIN workers : workers[w].state = "orphan" => Dead(workers[w].owner)

\* A Worker's thread goes one way.
LEMMA RunsBefore ==
    ASSUME IInv, TInv, [Next]_vars, NEW w \in DOMAIN workers
    PROVE  /\ Running(w)' => Running(w)
           /\ State(w, "orphan") => workers[w].state = "orphan" \/ TabDies(workers[w].owner)
<1>1. workers \in Seq(WorkerRecords) /\ Shape
  BY DEF IInv, Shape
<1>2. CASE workers'[w] = workers[w]
  BY <1>2 DEF State, Running
<1>3. CASE \E t \in Tabs : OpenGraph(t) \/ LockGranted(t)
  <2>1. PICK t \in Tabs : OpenGraph(t) \/ LockGranted(t)
    BY <1>3
  <2>2. CASE Deliver(t)
    <3>1. workers'[w] = workers[w]
      BY <2>2, Delivered
    <3> QED
      BY <1>2, <3>1
  <2> QED
    BY <1>2, <2>1, <2>2 DEF OpenGraph, LockGranted
<1>4. CASE \E t \in Tabs : TabDies(t)
  <2>1. PICK t \in Tabs : TabDies(t)
    BY <1>4
  <2> DEFINE s == IF workers[w].state = "open" THEN "orphan" ELSE "gone"
             x == [workers[w] EXCEPT !.state = s]
  <2>2. workers'[w] = IF workers[w].owner = t /\ Live(w) THEN x ELSE workers[w]
    BY <2>1 DEF TabDies
  <2>3. workers[w] \in WorkerRecords
    BY <1>1
  <2>4. x.state = s
    BY <2>3 DEF WorkerRecords
  <2> HIDE DEF x
  <2> QED
    BY <2>1, <2>2, <2>4 DEF State, Live, Running
<1>5. ASSUME NEW v, v \in DOMAIN workers, NEW s \in WorkerStates, workers' = [workers EXCEPT ![v].state = s],
             s \in {"opening", "open", "orphan"} => Running(v), s # "orphan"
      PROVE  /\ Running(w)' => Running(w)
             /\ State(w, "orphan") => workers[w].state = "orphan"
  <2>1. workers[w] \in WorkerRecords /\ workers[v] \in WorkerRecords
    BY <1>1, <1>5
  <2>2. workers'[w].state = IF w = v THEN s ELSE workers[w].state
    BY <1>1, <1>5, <2>1 DEF WorkerRecords
  <2> QED
    BY <1>5, <2>2 DEF State, Running
<1>6. CASE \E v \in DOMAIN workers : WorkerOpens(v) \/ WorkerOpenFails(v) \/ ThreadGone(v)
  <2>1. PICK v \in DOMAIN workers : WorkerOpens(v) \/ WorkerOpenFails(v) \/ ThreadGone(v)
    BY <1>6
  <2>2. PICK s \in {"open", "failed", "gone"} :
           /\ workers' = [workers EXCEPT ![v].state = s]
           /\ s = "open" => workers[v].state = "opening"
    BY <2>1 DEF WorkerOpens, WorkerOpenFails, ThreadGone
  <2>3. s \in WorkerStates /\ (s \in {"opening", "open", "orphan"} => Running(v)) /\ s # "orphan"
    BY <2>2 DEF WorkerStates, Running
  <2> QED
    BY <1>5, <2>2, <2>3
<1>7. CASE \E t \in Tabs : WorkerClosed(t) \/ CloseTimeout(t)
  <2>1. PICK t \in Tabs : WorkerClosed(t) \/ CloseTimeout(t)
    BY <1>7
  <2>2. PICK v \in DOMAIN workers : v = tab[t].old
    <3>1. Manages(t) /\ tab[t].stage = "closing"
      BY <2>1, CloseTab DEF TInv
    <3> QED
      BY <3>1 DEF Manages
  <2>3. PICK s \in {"killed", "gone"} : workers' = [workers EXCEPT ![v].state = s]
    <3>1. CASE WorkerClosed(t)
      BY <2>2, <3>1 DEF WorkerClosed
    <3>2. CASE CloseTimeout(t)
      BY <2>2, <3>2 DEF CloseTimeout
    <3> QED
      BY <2>1, <3>1, <3>2
  <2>4. s \in WorkerStates /\ s \notin {"opening", "open", "orphan"} /\ s # "orphan"
    BY <2>3 DEF WorkerStates
  <2> QED
    BY <1>5, <2>3, <2>4
<1>8. CASE TabMoves
  BY <1>2, <1>3, <1>4, <1>7, <1>8 DEF TabMoves, DestroyGraph, LockGrantedStale, RemoveDirectory, RemoveRefused
<1>9. CASE WorkerMoves
  BY <1>2, <1>6, <1>9 DEF WorkerMoves, Execute
<1> QED
  BY <1>2, <1>8, <1>9, Moves, EdgeFrame DEF vars

\* The Workers of the ports there are: a port's Worker may execute now if it may after the step.
LEMMA PortRunsBefore ==
    ASSUME IInv, TInv, [Next]_vars, NEW p \in DOMAIN ports, Running(ports[p])'
    PROVE  Running(ports[p])
<1>1. PICK w \in DOMAIN workers : w = ports[p]
  BY OwnerTab
<1>2. ports'[p] = w
  BY <1>1, Grows DEF Grown
<1>3. Running(w)'
  BY <1>2 DEF Running
<1> QED
  BY <1>1, <1>3, RunsBefore

LEMMA OrphanStep == ASSUME IInv, TInv, OrphanDead, [Next]_vars PROVE OrphanDead'
<1> SUFFICES ASSUME NEW w \in DOMAIN workers', State(w, "orphan") PROVE Dead(workers[w].owner)'
  BY DEF OrphanDead, State
<1>1. w \in DOMAIN workers
  <2>1. SUFFICES ASSUME w \notin DOMAIN workers PROVE FALSE
    OBVIOUS
  <2>2. CASE \E t \in Tabs : OpenGraph(t) \/ LockGranted(t)
    <3>1. PICK t \in Tabs : OpenGraph(t) \/ LockGranted(t)
      BY <2>2
    <3>2. Deliver(t)
      BY <2>1, <3>1 DEF OpenGraph, LockGranted
    <3>3. w = LedWith(t) /\ workers'[w] = [owner |-> t, state |-> "opening"]
      BY <2>1, <3>2, Delivered
    <3> QED
      BY <3>3 DEF State
  <2>3. CASE \E t \in Tabs : TabDies(t) \/ WorkerClosed(t) \/ CloseTimeout(t)
    <3>1. DOMAIN workers' = DOMAIN workers
      BY <2>3 DEF TabDies, WorkerClosed, CloseTimeout
    <3> QED
      BY <2>1, <3>1
  <2> QED
    BY <2>1, <2>2, <2>3, Moves, EdgeFrame, WorkerFrame DEF TabMoves, DestroyGraph, LockGrantedStale,
       RemoveDirectory, RemoveRefused, vars
<1>2. workers'[w].owner = workers[w].owner /\ workers[w].owner \in Tabs
  BY <1>1, Grows, WorkerOfTab DEF Grown, IInv
<1>3. PICK u \in Tabs : u = workers[w].owner
  BY <1>2
<1>4. Dead(u)'
  <2>1. CASE workers[w].state = "orphan"
    BY <1>1, <1>3, <2>1, DeadStays DEF OrphanDead
  <2>2. CASE TabDies(u)
    BY <2>2, DeadTab DEF Dead
  <2> QED
    BY <1>1, <1>3, <2>1, <2>2, RunsBefore
<1> QED
  BY <1>2, <1>3, <1>4 DEF Dead

\* What is sent is on its way or done: before that it has written nothing.
Unwritten == \A r \in Requests : req[r].pc \in {"idle", "opening"} => r \notin data
\* What a destroy found, on a Worker or in the directory, is from before it.
Found(d) == dst[d].cut \cup dst[d].before
Past == \A d \in Destroys : \A r \in Found(d) : r \in Requests /\ req[r].epoch < destroys /\ req[r].pc \notin {"idle", "opening"}
\* As long as a Worker may still execute one of its calls, the destroy waits for the Worker's tab.
CutOff ==
    Unreaped => \A d \in Destroys : \A r \in Found(d) : \A p \in DOMAIN ports :
                    <<r, p>> \in mail /\ Running(ports[p]) => dst[d].waiting[Owner(p)] > 0
CInv == Fresh /\ Joined /\ OrphanDead /\ Unwritten /\ Past /\ CutOff

LEMMA UnwrittenStep == ASSUME IInv, TInv, Fresh, Unwritten, [Next]_vars PROVE Unwritten'
<1> SUFFICES ASSUME NEW r \in Requests, req'[r].pc \in {"idle", "opening"}, r \in data' PROVE FALSE
  BY DEF Unwritten
<1>1. req[r].pc \in {"idle", "opening"}
  BY ReqMoves DEF Beginning, Waiting, Settling, Rejected, Retries, Ends, Calls
<1>2. r \notin data /\ \A p : <<r, p>> \notin mail
  BY <1>1 DEF Unwritten, Fresh, Unsent
<1> QED
  BY <1>2, DataMoves

\* A call keeps nothing of a destroy but its own beginning.
LEMMA FoundMoves ==
    ASSUME IInv, TInv, [Next]_vars, NEW d \in Destroys
    PROVE  Found(d)' = Found(d) \/ (Called(d) /\ Found(d)' = data \cup {r \in Requests : req[r].pc = "calling"})
BY DstMoves DEF Found, Called, Awakes, GoesOn, Closes, AnsweredBy, Stays

\* Nothing from before a destroy begins again, or is retried.
LEMMA OldStays ==
    ASSUME IInv, TInv, [Next]_vars, NEW r \in Requests, req[r].epoch < destroys, req[r].pc \notin {"idle", "opening"}
    PROVE  /\ Kept(r) /\ req'[r].pc \notin {"idle", "opening"}
           /\ req'[r] = req[r] \/ req'[r].pc # "calling"
<1>1. ~Beginning(r) /\ ~Waiting(r)
  BY DEF Beginning, Waiting
<1>2. req[r].epoch # destroys
  BY DEF TInv, ReqTyped, ReqRecs
<1>3. req'[r] = req[r] \/ Settling(r)
  BY <1>1, ReqMoves
<1> QED
  BY <1>1, <1>2, <1>3, EpochStays DEF Settling, Rejected, Retries, Ends

LEMMA PastStep == ASSUME IInv, TInv, Unwritten, Past, [Next]_vars PROVE Past'
<1> SUFFICES ASSUME NEW d \in Destroys, NEW r \in Found(d)'
             PROVE  r \in Requests /\ req'[r].epoch < destroys' /\ req'[r].pc \notin {"idle", "opening"}
  BY DEF Past
<1>1. destroys \in Nat /\ destroys' \in Nat /\ destroys' >= destroys
  BY Later DEF TInv, ReqTyped
<1>2. CASE r \in Found(d)
  <2>1. r \in Requests /\ req[r].epoch < destroys /\ req[r].pc \notin {"idle", "opening"}
    BY <1>2 DEF Past
  <2>2. req[r].epoch \in Nat
    BY <2>1 DEF TInv, ReqTyped, ReqRecs
  <2>3. req'[r].epoch = req[r].epoch /\ req'[r].pc \notin {"idle", "opening"}
    BY <2>1, OldStays DEF Kept
  <2> QED
    BY <1>1, <2>1, <2>2, <2>3
<1>3. CASE r \notin Found(d)
  <2>1. Called(d) /\ r \in data \cup {c \in Requests : req[c].pc = "calling"}
    BY <1>3, FoundMoves
  <2>2. r \in Requests
    BY <2>1 DEF TInv, MailTyped
  <2>3. req[r].pc \notin {"idle", "opening"} /\ req[r].epoch <= destroys /\ req[r].epoch \in Nat
    BY <2>1, <2>2 DEF Unwritten, TInv, ReqTyped, Coherent, ReqRecs
  <2>4. DestroyCall(d) => destroys' = destroys + 1 /\ req' = req
    BY DEF DestroyCall
  <2> QED
    BY <1>1, <2>1, <2>2, <2>3, <2>4 DEF Called
<1> QED
  BY <1>2, <1>3

\* A tab that answers a destroy owns no Worker that may execute a call.
LEMMA AnsweredIdle ==
    ASSUME IInv, TInv, OrphanDead, NEW t \in Tabs, RemoveDirectory(t) \/ RemoveRefused(t),
           NEW w \in DOMAIN workers, workers[w].owner = t
    PROVE  ~Running(w)
<1>1. tab[t].stage \in {"remove", "removeRetry"} /\ ~Dead(t)
  BY EndsTeardown DEF RemoveDirectory, RemoveRefused, Dead
<1>2. tab[t].stake = "none"
  BY <1>1 DEF IInv, Leaves
<1>3. ~Live(w)
  BY <1>1, <1>2 DEF IInv, Owned
<1> QED
  BY <1>1, <1>3 DEF Running, Live, OrphanDead

LEMMA CutOffStep == ASSUME IInv, TInv, CInv, [Next]_vars PROVE CutOff'
<1> SUFFICES ASSUME Unreaped', NEW d \in Destroys, NEW r \in Found(d)', NEW p \in DOMAIN ports',
                    <<r, p>> \in mail', workers'[ports'[p]].state \in {"opening", "open", "orphan"}
             PROVE  dst'[d].waiting[Owner(p)'] > 0
  BY DEF CutOff, Running
<1>1. Unreaped /\ ~SWReaped
  BY ReapsCounted
<1>2. CASE r \in Found(d)
  <2>1. r \in Requests /\ req[r].epoch < destroys /\ req[r].pc \notin {"idle", "opening"}
    BY <1>2 DEF CInv, Past
  <2>2. <<r, p>> \in mail
    BY <2>1, OldStays, NewMail
  <2>3. p \in DOMAIN ports
    BY <2>2 DEF TInv, MailTyped
  <2>4. Running(ports[p])
    BY <2>3, PortRunsBefore DEF Running
  <2>5. dst[d].waiting[Owner(p)] > 0
    BY <1>1, <1>2, <2>2, <2>3, <2>4 DEF CInv, CutOff
  <2>6. Owner(p)' = Owner(p) /\ Owner(p) \in Tabs /\ ports[p] \in DOMAIN workers
    BY <2>3, PortsKept, OwnerTab
  <2>7. PICK u \in Tabs : u = Owner(p)
    BY <2>6
  <2>8. dst[d].pc = "asked" /\ dst[d] \in DstRecs /\ dst[d].waiting[u] \in Nat
    BY <2>5, <2>7, PendingNat
  <2>9. dst'[d].waiting[u] > 0
    <3>1. CASE dst'[d] = dst[d]
      BY <2>5, <2>7, <3>1
    <3>2. ASSUME NEW t \in Tabs, AnsweredBy(d, t) PROVE dst'[d].waiting[u] > 0
      <4>1. t # u
        BY <2>4, <2>6, <2>7, <3>2, AnsweredIdle DEF AnsweredBy, CInv, Owner
      <4>2. dst'[d].waiting[u] = dst[d].waiting[u]
        BY <2>8, <3>2, <4>1 DEF AnsweredBy, DstRecs
      <4> QED
        BY <2>5, <2>7, <4>2
    <3>3. ~Called(d) /\ ~Awakes(d) /\ ~GoesOn(d)
      BY <2>8 DEF Called, Awakes, GoesOn
    <3>4. ~Closes(d)
      <4>1. Closes(d) => dst[d].waiting[u] = 0
        BY DEF Closes
      <4> QED
        BY <2>5, <2>7, <4>1
    <3> QED
      BY <3>1, <3>2, <3>3, <3>4, DstMoves
  <2> QED
    BY <2>6, <2>7, <2>9
<1>3. CASE r \notin Found(d)
  <2>1. Called(d)
    BY <1>3, FoundMoves
  <2>2. dst'[d].waiting = sw.sessions /\ ports' = ports /\ workers' = workers
    BY <2>1, EdgeFrame DEF Called, EdgeMoves
  <2>3. Known(Owner(p)) /\ Owner(p)' = Owner(p)
    BY <1>1, <2>2 DEF CInv, Joined, Owner
  <2> QED
    BY <2>2, <2>3 DEF Known
<1> QED
  BY <1>2, <1>3

LEMMA CutStarts == Init => CInv
<1> SUFFICES ASSUME Init PROVE CInv
  OBVIOUS
<1>1. \A t \in Tabs : inbox[t] = << >> /\ tab[t].stake = "none"
  BY DEF Init
<1>2. ports = << >> /\ workers = << >> /\ mail = {} /\ replies = {} /\ data = {}
  BY DEF Init
<1>3. \A d \in Destroys : dst[d].before = {} /\ dst[d].cut = {}
  BY DEF Init
<1> QED
  BY <1>1, <1>2, <1>3 DEF CInv, Fresh, Unsent, Joined, OrphanDead, Unwritten, Past, CutOff, Found

LEMMA CutStep == ASSUME IInv, TInv, CInv, [Next]_vars PROVE CInv'
BY FreshStep, JoinedStep, OrphanStep, UnwrittenStep, PastStep, CutOffStep DEF CInv

LEMMA CutHolds == Spec => [](Typed /\ CInv)
<1>1. Typed /\ CInv /\ [Next]_vars => CInv'
  BY CutStep DEF Typed
<1> QED
  BY CutStarts, EdgeTyping, <1>1, PTL DEF Spec

\* A request that was on a Worker when a destroy was called never writes once that destroy has ended,
\* however many destroys there are and whichever tabs die, as long as the Service Worker is not
\* reaped: it is not retried on the graph a later request created (BrowserGraphManager.call), and a
\* destroy waits for every page that may own a Worker (FactoryStubSource.destroy), which has ended its
\* own when it answers.
THEOREM CutOffStays == Spec => ([](faults.restarts = 0) => CutOffNeverLands)
<1> DEFINE Lands == \A r \in data' \ data, d \in Destroys : r \in dst[d].cut => dst[d].pc \notin {"ok", "failed"}
<1>1. ASSUME Typed, CInv, faults.restarts = 0, [Next]_vars
      PROVE  [Lands]_vars
  <2>1. SUFFICES ASSUME NEW r \in data' \ data, NEW d \in Destroys, r \in dst[d].cut
                 PROVE  dst[d].pc \notin {"ok", "failed"}
    OBVIOUS
  <2>2. PICK p \in DOMAIN ports : <<r, p>> \in mail /\ workers[ports[p]].state \in {"open", "orphan"}
    BY <1>1, DataMoves
  <2>3. dst[d].waiting[Owner(p)] > 0 /\ Owner(p) \in Tabs
    BY <1>1, <2>1, <2>2, OwnerTab DEF CInv, CutOff, Unreaped, Found, Running, Typed
  <2>4. dst[d].pc = "asked"
    BY <1>1, <2>3, PendingNat DEF Typed
  <2> QED
    BY <2>4
<1>2. Typed /\ CInv /\ faults.restarts = 0 /\ [Next]_vars => [Lands]_vars
  BY <1>1
<1>3. CutOffNeverLands <=> [][Lands]_vars
  BY DEF CutOffNeverLands
<1> HIDE DEF Lands
<1> QED
  BY CutHolds, <1>2, <1>3, PTL DEF Spec

\* What one destroy leaves -------------------------------------------------------------------------------

\* A page that has a session and died: a destroy called now waits for its answer.
Grave == \E t \in Tabs : Dead(t) /\ Known(t)
Doomed(d) == dst[d].pc = "asked" /\ \E t \in Tabs : Dead(t) /\ dst[d].waiting[t] > 0

\* Undestroyed, a call is on one port only, and has not been executed, unless a page died.
Single(r) == \A p, q : <<r, p>> \in mail /\ <<r, q>> \in mail => p = q /\ r \notin data
Once == destroys = 0 /\ Unreaped => Grave \/ \A r \in Requests : Single(r)
\* What the first destroy found is not executed again unless it waits for ever, and so it is gone
\* once a removal succeeded.
Again ==
    destroys <= 1 /\ Unreaped => \A d \in Destroys : \A r \in dst[d].before : \A p : <<r, p>> \in mail => Doomed(d)
Gone == destroys <= 1 /\ Unreaped => \A d \in Destroys : dst[d].won /\ ~Doomed(d) => dst[d].before \cap data = {}
\* A destroy that asked nobody found nothing.
Asked ==
    Unreaped => \A d \in Destroys : /\ dst[d].pc = "ok" => dst[d].won \/ ~dst[d].asked
                                    /\ dst[d].pc = "idle" => ~dst[d].won
                                    /\ ~dst[d].asked => dst[d].before = {}
GInv == NInv /\ CInv /\ Once /\ Again /\ Gone /\ Asked

LEMMA GraveStays == ASSUME IInv, TInv, [Next]_vars, ~SWReaped, Grave PROVE Grave'
<1>1. PICK t \in Tabs : Dead(t) /\ Known(t)
  BY DEF Grave
<1>2. Dead(t)' /\ Known(t)'
  BY <1>1, DeadStays, KnownStays
<1> QED
  BY <1>2 DEF Grave

\* The dead answer nothing.
LEMMA DoomedStays == ASSUME IInv, TInv, [Next]_vars, NEW d \in Destroys, Doomed(d) PROVE Doomed(d)'
<1>1. PICK t \in Tabs : Dead(t) /\ dst[d].waiting[t] > 0
  BY DEF Doomed
<1>2. Dead(t)'
  BY <1>1, DeadStays
<1>3. dst[d].pc = "asked" /\ dst[d] \in DstRecs /\ dst[d].waiting[t] \in Nat
  BY PendingNat DEF Doomed
<1>4. dst'[d].pc = "asked" /\ dst'[d].waiting[t] > 0
  <2>1. CASE dst'[d] = dst[d]
    BY <1>1, <1>3, <2>1
  <2>2. ASSUME NEW u \in Tabs, AnsweredBy(d, u) PROVE dst'[d].pc = "asked" /\ dst'[d].waiting[t] > 0
    <3>1. u # t
      <4>1. ~Dead(u)
        BY <2>2, EndsTeardown DEF AnsweredBy, RemoveDirectory, RemoveRefused, Dead
      <4> QED
        BY <1>1, <4>1
    <3>2. dst'[d].waiting[t] = dst[d].waiting[t] /\ dst'[d].pc = "asked"
      BY <1>3, <2>2, <3>1 DEF AnsweredBy, DstRecs
    <3> QED
      BY <1>1, <3>2
  <2>3. ~Called(d) /\ ~Awakes(d) /\ ~GoesOn(d)
    BY <1>3 DEF Called, Awakes, GoesOn
  <2>4. ~Closes(d)
    <3>1. Closes(d) => dst[d].waiting[t] = 0
      BY DEF Closes
    <3> QED
      BY <1>1, <3>1
  <2> QED
    BY <2>1, <2>2, <2>3, <2>4, DstMoves
<1> QED
  BY <1>2, <1>4 DEF Doomed

\* A call is sent a second time when its stub's owner is found dead.
LEMMA SentTwice ==
    ASSUME IInv, TInv, NInv, Joined, Unreaped, [Next]_vars, destroys = 0, NEW r \in Requests, Settling(r), req'[r].pc = "calling"
    PROVE  Grave
<1>1. req[r].pc = "calling" /\ req[r].port = sw.current /\ OnStub(r)
  BY DEF NInv, OnStub, Settling
<1>2. ~Reply(r, req[r].port, FALSE) \/ ~Rejected(r, sw.current) \/ ~Retries(r, sw.current)
  BY <1>1 DEF Retries
<1>3. \A d \in Destroys : ~DestroySettled(d)
  BY NotSettled DEF NInv
<1>4. AcceptPort /\ sw.current # 0
  BY <1>1, <1>3 DEF Settling, Rejected, Retries, Ends
<1>5. Owner(sw.current) \in Tabs /\ Dead(Owner(sw.current)) /\ sw.current \in DOMAIN ports
  BY <1>4, AcceptsNew DEF NInv, TInv, SwTyped
<1> QED
  BY <1>5 DEF Grave, Joined

LEMMA OnceStep == ASSUME IInv, TInv, GInv, [Next]_vars PROVE Once'
<1> SUFFICES ASSUME destroys' = 0, Unreaped', ~Grave', NEW r \in Requests, NEW p, NEW q, <<r, p>> \in mail', <<r, q>> \in mail'
             PROVE  p = q /\ r \notin data'
  BY DEF Once, Single
<1>1. Unreaped /\ ~SWReaped /\ destroys = 0 /\ ~Grave
  BY ReapsCounted, GraveStays, StillNone
<1>2. Single(r) /\ NInv /\ Fresh /\ Joined /\ Unwritten
  BY <1>1 DEF GInv, Once, CInv
<1>3. CASE <<r, p>> \in mail /\ <<r, q>> \in mail
  <2>1. p = q /\ r \notin data
    BY <1>2, <1>3 DEF Single
  <2>2. ASSUME NEW o \in DOMAIN ports, Execute(r, o) PROVE FALSE
    <3>1. <<r, o>> \in mail /\ <<r, o>> \notin mail'
      BY <2>2 DEF Execute
    <3>2. o = p
      BY <1>2, <1>3, <3>1 DEF Single
    <3> QED
      BY <3>1, <3>2
  <2>3. r \notin data'
    <3>1. SUFFICES ASSUME r \in data' PROVE FALSE
      OBVIOUS
    <3>2. PICK c \in Requests, o \in DOMAIN ports : Execute(c, o) /\ data' = data \cup {c}
      BY <2>1, <3>1, DataMoves
    <3>3. c = r
      BY <2>1, <3>1, <3>2
    <3> QED
      BY <2>2, <3>2, <3>3
  <2> QED
    BY <2>1, <2>3
<1>4. ASSUME NEW o, <<r, o>> \in mail', <<r, o>> \notin mail
      PROVE  req'[r].port = o /\ r \notin data' /\ \A x : <<r, x>> \notin mail
  <2>1. req'[r].pc = "calling" /\ req'[r].port = o /\ req'[r] # req[r]
    BY <1>4, NewMail
  <2>2. ~Settling(r)
    BY <1>1, <1>2, <2>1, SentTwice
  <2>3. req[r].pc \in {"idle", "opening"}
    BY <2>1, <2>2, ReqMoves DEF Beginning, Waiting
  <2>4. r \notin data /\ \A x : <<r, x>> \notin mail
    BY <1>2, <2>3 DEF Unwritten, Fresh, Unsent
  <2>5. r \notin data'
    BY <2>4, DataMoves
  <2> QED
    BY <2>1, <2>4, <2>5
<1>5. CASE <<r, p>> \notin mail
  <2>1. req'[r].port = p /\ r \notin data' /\ <<r, q>> \notin mail
    BY <1>4, <1>5
  <2> QED
    BY <1>4, <2>1
<1>6. CASE <<r, q>> \notin mail
  <2>1. req'[r].port = q /\ r \notin data' /\ <<r, p>> \notin mail
    BY <1>4, <1>6
  <2> QED
    BY <1>4, <2>1
<1> QED
  BY <1>3, <1>5, <1>6

LEMMA FirstCalled ==
    ASSUME TInv, [Next]_vars, destroys' <= 1
    PROVE  destroys <= 1 /\ \A d \in Destroys : Called(d) => destroys = 0
<1>1. destroys \in Nat /\ destroys' \in Nat /\ destroys <= destroys'
  BY Later DEF TInv, ReqTyped
<1>2. \A d \in Destroys : DestroyCall(d) => destroys' = destroys + 1
  BY DEF DestroyCall
<1> QED
  BY <1>1, <1>2 DEF Called

LEMMA BeforeMoves ==
    ASSUME IInv, TInv, [Next]_vars, NEW d \in Destroys
    PROVE  dst'[d].before = dst[d].before \/ (Called(d) /\ dst'[d].before = data)
BY DstMoves DEF Called, Awakes, GoesOn, Closes, AnsweredBy, Stays

LEMMA AgainStep == ASSUME IInv, TInv, GInv, [Next]_vars PROVE Again'
<1> SUFFICES ASSUME destroys' <= 1, Unreaped', NEW d \in Destroys, NEW r \in dst'[d].before, NEW p, <<r, p>> \in mail'
             PROVE  Doomed(d)'
  BY DEF Again
<1>1. Unreaped /\ ~SWReaped /\ destroys <= 1 /\ (Called(d) => destroys = 0)
  BY ReapsCounted, FirstCalled
<1>2. CASE Called(d)
  <2>1. mail' = mail /\ dst'[d].before = data /\ dst'[d].waiting = sw.sessions
    BY <1>2 DEF Called, DestroyCall, callVars
  <2>2. r \in Requests /\ ~Single(r)
    BY <2>1 DEF Single, TInv, MailTyped
  <2>3. Grave
    BY <1>1, <1>2, <2>2 DEF GInv, Once
  <2>4. PICK t \in Tabs : Dead(t) /\ Known(t)
    BY <2>3 DEF Grave
  <2>5. dst'[d].pc = "asked"
    BY <1>2, <2>4 DEF Called, Connected, Known
  <2>6. Dead(t)'
    BY <2>4, DeadStays
  <2> QED
    BY <2>1, <2>4, <2>5, <2>6 DEF Doomed, Known
<1>3. CASE ~Called(d)
  <2>1. r \in dst[d].before
    BY <1>3, BeforeMoves
  <2>2. r \in Requests /\ req[r].epoch < destroys /\ req[r].pc \notin {"idle", "opening"}
    BY <2>1 DEF GInv, CInv, Past, Found
  <2>3. <<r, p>> \in mail
    BY <2>2, OldStays, NewMail
  <2>4. Doomed(d)
    BY <1>1, <2>1, <2>3 DEF GInv, Again
  <2> QED
    BY <2>4, DoomedStays
<1> QED
  BY <1>2, <1>3

LEMMA AskedStep == ASSUME IInv, TInv, GInv, [Next]_vars PROVE Asked'
<1> SUFFICES ASSUME Unreaped', NEW d \in Destroys
             PROVE  /\ dst'[d].pc = "ok" => dst'[d].won \/ ~dst'[d].asked
                    /\ dst'[d].pc = "idle" => ~dst'[d].won
                    /\ ~dst'[d].asked => dst'[d].before = {}
  BY DEF Asked
<1>1. Unreaped
  BY ReapsCounted
<1>2. /\ dst[d].pc = "ok" => dst[d].won \/ ~dst[d].asked
      /\ dst[d].pc = "idle" => ~dst[d].won
      /\ ~dst[d].asked => dst[d].before = {}
  BY <1>1 DEF GInv, Asked
<1>3. CASE Called(d)
  <2>1. CASE Connected(sw.sessions) = {}
    <3>1. \A t \in Tabs : ~Known(t)
      BY <2>1 DEF Connected, Known
    <3>2. DOMAIN ports = {}
      BY <1>1, <3>1, OwnerTab DEF GInv, CInv, Joined
    <3>3. data = {}
      BY <1>1, <3>2 DEF GInv, CInv, Joined
    <3> QED
      BY <1>3, <2>1, <3>3 DEF Called
  <2>2. CASE Connected(sw.sessions) # {}
    BY <1>3, <2>2 DEF Called
  <2> QED
    BY <2>1, <2>2
<1>4. CASE ~Called(d)
  BY <1>2, <1>4, DstMoves DEF Awakes, GoesOn, Closes, AnsweredBy, Stays
<1> QED
  BY <1>3, <1>4

LEMMA GoneStep == ASSUME IInv, TInv, GInv, [Next]_vars PROVE Gone'
<1> SUFFICES ASSUME destroys' <= 1, Unreaped', NEW d \in Destroys, dst'[d].won, ~Doomed(d)'
             PROVE  dst'[d].before \cap data' = {}
  BY DEF Gone
<1>1. Unreaped /\ destroys <= 1
  BY ReapsCounted, FirstCalled
<1>2. ~Doomed(d)
  BY DoomedStays
<1>3. CASE \E t \in Tabs : RemoveDirectory(t)
  BY <1>3 DEF RemoveDirectory
<1>4. CASE ~\E t \in Tabs : RemoveDirectory(t)
  <2>1. dst[d].won /\ ~Called(d)
    <3>1. ~Called(d)
      <4>1. SUFFICES ASSUME Called(d) PROVE FALSE
        OBVIOUS
      <4>2. dst[d].pc = "idle" /\ dst'[d].won = dst[d].won
        BY <4>1 DEF Called
      <4>3. ~dst[d].won
        BY <1>1, <4>2 DEF GInv, Asked
      <4> QED
        BY <4>2, <4>3
    <3> QED
      BY <1>4, <3>1, DstMoves DEF Awakes, GoesOn, Closes, AnsweredBy
  <2>2. dst'[d].before = dst[d].before
    BY <2>1, BeforeMoves
  <2>3. dst[d].before \cap data = {}
    BY <1>1, <1>2, <2>1 DEF GInv, Gone
  <2>4. data' = data \/ \E r \in Requests, p \in DOMAIN ports : <<r, p>> \in mail /\ data' = data \cup {r}
    BY <1>4, DataMoves
  <2>5. ASSUME NEW r \in Requests, NEW p \in DOMAIN ports, <<r, p>> \in mail PROVE r \notin dst[d].before
    BY <1>1, <1>2, <2>5 DEF GInv, Again
  <2> QED
    BY <2>2, <2>3, <2>4, <2>5
<1> QED
  BY <1>3, <1>4

LEMMA GoneStarts == Init => GInv
<1> SUFFICES ASSUME Init PROVE GInv
  OBVIOUS
<1>1. NInv /\ CInv
  BY NoneStarts, CutStarts
<1>2. mail = {} /\ data = {}
  BY DEF Init
<1>3. \A d \in Destroys : dst[d].pc = "idle" /\ dst[d].won = FALSE /\ dst[d].before = {}
  BY DEF Init
<1> QED
  BY <1>1, <1>2, <1>3 DEF GInv, Once, Single, Again, Gone, Asked

LEMMA GoneHolds == Spec => [](Typed /\ AInv /\ GInv)
<1>1. Typed /\ GInv /\ [Next]_vars => GInv'
  BY NoneStep, CutStep, OnceStep, AgainStep, GoneStep, AskedStep DEF Typed, GInv
<1>2. Typed /\ AInv /\ [Next]_vars => AInv'
  BY FreshStep, SafeStep DEF Typed, AInv
<1> QED
  BY AckedStarts, GoneStarts, EdgeTyping, <1>1, <1>2, PTL DEF Spec

\* As long as the Service Worker is not reaped and at most one destroy was called, a destroy that
\* reported success left nothing of what the graph held when it was called, and a write acknowledged
\* since is still there. A call under way then was not executed before, since a call is sent again
\* only when its page is found dead, and a destroy never ends that waits for a dead page
\* (FactoryStubSource.destroy).
THEOREM DestroyLeavesNothing == Spec => [](faults.restarts = 0 /\ destroys <= 1 => DirectoryRight)
<1>1. ASSUME Typed, AInv, GInv, faults.restarts = 0, destroys <= 1
      PROVE  DirectoryRight
  <2>1. ASSUME NEW r \in Requests, req[r].pc = "ok", req[r].quiet, req[r].epoch = destroys PROVE r \in data
    BY <1>1, <2>1 DEF AInv, Begun, Safe
  <2>2. ASSUME NEW d \in Destroys, dst[d].pc = "ok" PROVE dst[d].before \cap data = {}
    <3>1. ~Doomed(d)
      BY <2>2 DEF Doomed
    <3>2. dst[d].won \/ dst[d].before = {}
      BY <1>1, <2>2 DEF GInv, Asked, Unreaped
    <3> QED
      BY <1>1, <3>1, <3>2 DEF GInv, Gone, Unreaped
  <2> QED
    BY <2>1, <2>2 DEF DirectoryRight, AckedSurvives, DestroyedIsGone
<1>2. Typed /\ AInv /\ GInv => (faults.restarts = 0 /\ destroys <= 1 => DirectoryRight)
  BY <1>1
<1> QED
  BY GoneHolds, <1>2, PTL
=============================================================================
