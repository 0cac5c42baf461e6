----------------------------- MODULE BrowserEdge -----------------------------
(***************************************************************************)
(* How the browser build keeps one graph (or the one replicator registry)  *)
(* reachable: a Service Worker that answers requests over a stub to a      *)
(* dedicated Worker, tabs that contend for a Web Lock to own that Worker,  *)
(* and the Worker that holds the exclusive OPFS handles of the database.   *)
(*   FactoryStubSource.ts    the Service Worker's stub, its solicitations  *)
(*   BrowserGraphManager.ts  one request: call, retry once, destroy        *)
(*   worker-factory.ts       a tab: openGraph, the lock, destroyGraph      *)
(*   worker-spawn.ts         the teardown of a Worker and its directory    *)
(* Graph ids share nothing in this code, so the module has one of them.    *)
(* A tab may die at any time, which closes no port; an idle Service Worker *)
(* may be reaped, which forgets every session and stub.                    *)
(***************************************************************************)
EXTENDS Naturals, Sequences, FiniteSets, SequencesExt

CONSTANTS
  Tabs,        \* pages that install a WorkerFactory
  Requests,    \* calls of the manager, each a write
  Destroys,    \* calls of destroy(id)
  Kinds,       \* what is served: "graph" or "registry", the twin protocol, which has no destroy
  Warm,        \* the kinds that start with every page's control session in place, the pages of
               \* the others being still to load
  MaxFaults,   \* bound on dead tabs and reaped Service Workers together, for each kind
  MaxRestarts, \* bound on reaped Service Workers, for each kind
  None

ASSUME EdgeAssumption ==
  /\ Kinds \subseteq {"graph", "registry"} /\ Warm \subseteq Kinds
  /\ MaxFaults \in [Kinds -> Nat] /\ MaxRestarts \in [Kinds -> Nat]
  /\ None \notin Destroys /\ IsFiniteSet(Destroys)

VARIABLES
  sw,       \* kind: what this behaviour serves; current: port of the stub held, or 0; sessions: control sessions of each tab
            \* (a dead tab's stay); soliciting: "no", "factories" or "port"
  req,      \* one record per request
  dst,      \* one record per destroy
  destroys, \* how many destroys began: the manager's epoch of the id
  tab,      \* one record per tab
  inbox,    \* the calls of the Service Worker a tab has not handled yet
  lockQ,    \* the queue of the Web Lock: its head holds it
  workers,  \* the Workers spawned so far: owner and state
  ports,    \* port i leads to Worker ports[i]
  posted,   \* ports on their way to the Service Worker
  disposed, \* ports whose stub the Service Worker disposed
  mail,     \* <<request, port>> a Worker has not executed
  replies,  \* <<request, port, ok>> on their way back
  data,     \* the writes the OPFS directory holds
  faults    \* deaths and restarts so far

vars == <<sw, req, dst, destroys, tab, inbox, lockQ, workers, ports, posted,
          disposed, mail, replies, data, faults>>
swVars == <<sw, req, dst, destroys, disposed>>
tabVars == <<tab, inbox, lockQ>>
callVars == <<mail, replies, data>>

Owner(p) == workers[ports[p]].owner
Live(w) == workers[w].state \in {"opening", "open", "failed"}
HoldsHandles(w) == workers[w].state \in {"open", "orphan", "killed"}
Holders == {w \in DOMAIN workers : HoldsHandles(w)}

Init ==
  /\ \E kind \in Kinds :
       /\ sw = [kind |-> kind, current |-> 0, soliciting |-> "no",
                sessions |-> [t \in Tabs |-> IF kind \in Warm THEN 1 ELSE 0]]
       /\ tab = [t \in Tabs |-> [alive |-> TRUE, ctl |-> IF kind \in Warm THEN 0 ELSE 1, stake |-> "none",
                                 worker |-> 0, teardowns |-> <<>>, stage |-> "none",
                                 leaving |-> "none", old |-> 0]]
  /\ req = [r \in Requests |-> [pc |-> "idle", port |-> 0, tries |-> 0, epoch |-> 0, quiet |-> TRUE]]
  /\ dst = [d \in Destroys |-> [pc |-> "idle", cur |-> 0, waiting |-> [t \in Tabs |-> 0],
                                asked |-> FALSE, won |-> FALSE, before |-> {}, cut |-> {}]]
  /\ destroys = 0
  /\ inbox = [t \in Tabs |-> <<>>]
  /\ lockQ = <<>>
  /\ workers = <<>> /\ ports = <<>> /\ posted = <<>>
  /\ disposed = {} /\ mail = {} /\ replies = {} /\ data = {}
  /\ faults = [deaths |-> 0, restarts |-> 0]

-----------------------------------------------------------------------------
(* The Service Worker: sessions, stubs and solicitations                   *)

Connected(s) == {t \in Tabs : s[t] > 0}
InFlight(r) == req[r].pc \in {"opening", "calling"}
Destroying(d) == dst[d].pc \in {"factories", "asked"}

\* n copies of message m, one per control session, behind what a tab's inbox already holds
Times(n, m) == [i \in 1..n |-> m]
OpenMsg == [op |-> "open", d |-> None]
DestroyMsg(d) == [op |-> "destroy", d |-> d]

\* ensureFactories with no session: every open page is asked for one
Solicited == [t \in Tabs |-> IF tab[t].alive THEN [tab[t] EXCEPT !.ctl = @ + 1] ELSE tab[t]]

\* open(id) finds a stub: the request is sent on it
RequestOnStub(r) ==
  /\ req[r].pc = "idle"
  /\ sw.current # 0
  /\ req' = [req EXCEPT ![r] = [@ EXCEPT !.pc = "calling", !.port = sw.current, !.tries = 1, !.epoch = destroys,
                                         !.quiet = \A d \in Destroys : ~Destroying(d)]]
  /\ mail' = mail \cup {<<r, sw.current>>}
  /\ UNCHANGED <<sw, dst, destroys, disposed, tabVars, workers, ports, posted, replies, data, faults>>

\* open(id) finds none: it joins the solicitation under way or starts one, which asks every
\* session there is, or first asks the pages for a session
RequestSolicits(r) ==
  /\ req[r].pc = "idle"
  /\ sw.current = 0
  /\ req' = [req EXCEPT ![r] = [@ EXCEPT !.pc = "opening", !.epoch = destroys,
                                         !.quiet = \A d \in Destroys : ~Destroying(d)]]
  /\ \/ /\ sw.soliciting # "no"
        /\ UNCHANGED <<sw, inbox, tab>>
     \/ /\ sw.soliciting = "no"
        /\ Connected(sw.sessions) # {}
        /\ sw' = [sw EXCEPT !.soliciting = "port"]
        /\ inbox' = [t \in Tabs |-> inbox[t] \o Times(sw.sessions[t], OpenMsg)]
        /\ UNCHANGED tab
     \/ /\ sw.soliciting = "no"
        /\ Connected(sw.sessions) = {}
        /\ sw' = [sw EXCEPT !.soliciting = "factories"]
        /\ tab' = Solicited
        /\ UNCHANGED inbox
  /\ UNCHANGED <<dst, destroys, disposed, lockQ, workers, ports, posted, callVars, faults>>

\* What a page that joins is asked for at once: what is current, the registry's twin also what is
\* being solicited
Rebroadcast ==
  IF sw.current # 0 \/ (sw.kind = "registry" /\ sw.soliciting # "no") THEN <<OpenMsg>> ELSE <<>>

\* A page's control port arrives. It wakes every ensureFactories, whose continuations ask the
\* sessions there are now in the order they were registered: this page's, since whoever waits
\* for a session found none.
ControlPort(t) ==
  /\ tab[t].alive /\ tab[t].ctl > 0
  /\ LET sessions == [sw.sessions EXCEPT ![t] = @ + 1]
         woken == {d \in Destroys : dst[d].pc = "factories"}
         asked == {DestroyMsg(d) : d \in woken} \cup (IF sw.soliciting = "factories" THEN {OpenMsg} ELSE {})
     IN /\ \E order \in SetToSeqs(asked) :
             inbox' = [inbox EXCEPT ![t] = @ \o Rebroadcast \o order]
        /\ sw' = [sw EXCEPT !.sessions = sessions,
                            !.soliciting = IF @ = "factories" THEN "port" ELSE @]
        /\ dst' = [d \in Destroys |->
                     IF d \in woken
                     THEN [dst[d] EXCEPT !.pc = "asked", !.waiting = sessions, !.asked = TRUE]
                     ELSE dst[d]]
  /\ tab' = [tab EXCEPT ![t].ctl = @ - 1]
  /\ UNCHANGED <<req, destroys, disposed, lockQ, workers, ports, posted, callVars, faults>>

\* ensureFactories runs out of time: no page is left to answer. A request fails with it; a
\* destroy goes on with no page to ask.
FactoryTimeout ==
  /\ \A t \in Tabs : ~tab[t].alive
  /\ Connected(sw.sessions) = {}
  /\ sw.soliciting = "factories" \/ \E d \in Destroys : dst[d].pc = "factories"
  /\ sw' = [sw EXCEPT !.soliciting = IF @ = "factories" THEN "no" ELSE @]
  /\ req' = [r \in Requests |-> IF req[r].pc = "opening" /\ sw.soliciting = "factories"
                                THEN [req[r] EXCEPT !.pc = "failed"] ELSE req[r]]
  /\ dst' = [d \in Destroys |-> IF dst[d].pc = "factories" THEN [dst[d] EXCEPT !.pc = "asked"] ELSE dst[d]]
  /\ UNCHANGED <<destroys, disposed, tabVars, workers, ports, posted, callVars, faults>>

\* The requests whose call on port p is rejected, and what BrowserGraphManager.call makes of it:
\* a destroy since the request began or a second rejection is final, a stub that changed is
\* called once more, the same stub rejecting is the query's own error.
Cut(p) == {r \in Requests : req[r].pc = "calling" /\ req[r].port = p}
RetriedNever(p, fresh) == {} \* mutant: no retry on the new stub
RetriedAnyEpoch(p, fresh) == \* mutant: a destroy is not told from a failover
  {r \in Cut(p) : req[r].tries = 1 /\ fresh \notin {0, p}}
Retried(p, fresh) ==
  {r \in Cut(p) : req[r].tries = 1 /\ req[r].epoch = destroys /\ fresh \notin {0, p}}
AfterReject(p, fresh) ==
  [r \in Requests |->
    IF r \in Retried(p, fresh) THEN [req[r] EXCEPT !.port = fresh, !.tries = 2]
    ELSE IF r \in Cut(p) THEN [req[r] EXCEPT !.pc = "failed"]
    ELSE req[r]]

HeldOwnerAny == IF sw.current = 0 THEN {} ELSE Tabs \* mutant: whoever sends a second port, it is redundant
HeldOwner == {Owner(p) : p \in {sw.current} \ {0}}

\* A port arrives from the owner of the stub already held: the redundant port is closed
DuplicatePort ==
  /\ posted # <<>>
  /\ Owner(Head(posted)) \in HeldOwner
  /\ posted' = Tail(posted)
  /\ disposed' = disposed \cup {Head(posted)}
  /\ UNCHANGED <<sw, req, dst, destroys, tabVars, workers, ports, callVars, faults>>

\* A first port, or one of another owner: the old stub is disposed, which rejects its calls, the
\* new one is installed and the requests that wait for a stub are sent on it
AcceptPort ==
  /\ posted # <<>>
  /\ LET p == Head(posted)
         old == sw.current
         waiters == {r \in Requests : req[r].pc = "opening"}
         rejected == IF old = 0 THEN req ELSE AfterReject(old, p)
         retried == IF old = 0 THEN {} ELSE Retried(old, p)
     IN /\ Owner(p) \notin HeldOwner
        /\ sw' = [sw EXCEPT !.current = p, !.soliciting = IF @ = "port" THEN "no" ELSE @]
        /\ disposed' = IF old = 0 THEN disposed ELSE disposed \cup {old}
        /\ req' = [r \in Requests |->
                     IF r \in waiters /\ sw.soliciting = "port"
                     THEN [req[r] EXCEPT !.pc = "calling", !.port = p, !.tries = @ + 1]
                     ELSE rejected[r]]
        /\ mail' = mail \cup {<<r, p>> : r \in retried \cup
                                (IF sw.soliciting = "port" THEN waiters ELSE {})}
  /\ posted' = Tail(posted)
  /\ UNCHANGED <<dst, destroys, tabVars, workers, ports, replies, data, faults>>

\* The answer of a call: a rejection with the same stub still current is the query's own
Reply(r, p, ok) ==
  /\ <<r, p, ok>> \in replies
  /\ replies' = replies \ {<<r, p, ok>>}
  /\ LET listening == p \notin disposed /\ r \in Cut(p)
         again == listening /\ ~ok /\ r \in Retried(p, sw.current)
     IN /\ req' = IF listening /\ ok THEN [req EXCEPT ![r].pc = "ok"]
                  ELSE IF again THEN [req EXCEPT ![r].port = sw.current, ![r].tries = 2]
                  ELSE IF listening THEN [req EXCEPT ![r].pc = "failed"]
                  ELSE req
        /\ mail' = IF again THEN mail \cup {<<r, sw.current>>} ELSE mail
  /\ UNCHANGED <<sw, dst, destroys, disposed, tabVars, workers, ports, posted, data, faults>>

\* destroy(id): the epoch moves and the stub is detached before anything is awaited
DestroyCall(d) ==
  /\ sw.kind = "graph"
  /\ dst[d].pc = "idle"
  /\ destroys' = destroys + 1
  /\ sw' = [sw EXCEPT !.current = 0]
  /\ LET ready == Connected(sw.sessions) # {}
     IN /\ dst' = [dst EXCEPT ![d] = [@ EXCEPT !.pc = IF ready THEN "asked" ELSE "factories",
                                               !.cur = sw.current, !.asked = ready, !.before = data,
                                               !.cut = {r \in Requests : req[r].pc = "calling"},
                                               !.waiting = sw.sessions]]
        /\ inbox' = [t \in Tabs |-> inbox[t] \o Times(sw.sessions[t], DestroyMsg(d))]
        /\ tab' = IF ready THEN tab ELSE Solicited
  /\ UNCHANGED <<req, disposed, lockQ, workers, ports, posted, callVars, faults>>

\* Mutant: the first answer ends the destroy
DestroySettledFirst(d) ==
  /\ dst[d].pc = "asked"
  /\ dst[d].won \/ \A t \in Tabs : dst[d].waiting[t] = 0
  /\ dst' = [dst EXCEPT ![d].pc = IF dst[d].won \/ ~dst[d].asked THEN "ok" ELSE "failed"]
  /\ disposed' = IF dst[d].cur = 0 THEN disposed ELSE disposed \cup {dst[d].cur}
  /\ LET cut == dst[d].cur
     IN /\ req' = IF cut = 0 THEN req ELSE AfterReject(cut, sw.current)
        /\ mail' = IF cut = 0 THEN mail ELSE mail \cup {<<r, sw.current>> : r \in Retried(cut, sw.current)}
  /\ UNCHANGED <<sw, destroys, tabVars, workers, ports, posted, replies, data, faults>>

\* Every page asked has answered: the detached stub is disposed; failure only if all refused
DestroySettled(d) ==
  /\ dst[d].pc = "asked"
  /\ \A t \in Tabs : dst[d].waiting[t] = 0
  /\ dst' = [dst EXCEPT ![d].pc = IF dst[d].won \/ ~dst[d].asked THEN "ok" ELSE "failed"]
  /\ disposed' = IF dst[d].cur = 0 THEN disposed ELSE disposed \cup {dst[d].cur}
  /\ LET cut == dst[d].cur
     IN /\ req' = IF cut = 0 THEN req ELSE AfterReject(cut, sw.current)
        /\ mail' = IF cut = 0 THEN mail ELSE mail \cup {<<r, sw.current>> : r \in Retried(cut, sw.current)}
  /\ UNCHANGED <<sw, destroys, tabVars, workers, ports, posted, replies, data, faults>>

-----------------------------------------------------------------------------
(* A tab: the leadership queue, deliveries and teardowns                   *)

\* deliver(): a Worker if this leadership has none, and a port of it to the Service Worker
Deliver(t) ==
  LET fresh == tab[t].worker = 0
      w == IF fresh THEN Len(workers) + 1 ELSE tab[t].worker
  IN /\ workers' = IF fresh THEN Append(workers, [owner |-> t, state |-> "opening"]) ELSE workers
     /\ ports' = Append(ports, w)
     /\ posted' = Append(posted, Len(ports) + 1)
     /\ tab' = [tab EXCEPT ![t].worker = w, ![t].stake = "leader"]

\* Mutant: a tab that is asked again queues again
OpenGraphAgain(t) ==
  /\ tab[t].alive
  /\ inbox[t] # <<>> /\ Head(inbox[t]).op = "open"
  /\ tab[t].teardowns = <<>>
  /\ inbox' = [inbox EXCEPT ![t] = Tail(@)]
  /\ \/ /\ tab[t].stake # "leader"
        /\ tab' = [tab EXCEPT ![t].stake = "queued"]
        /\ lockQ' = Append(lockQ, t)
        /\ UNCHANGED <<workers, ports, posted>>
     \/ /\ tab[t].stake = "leader"
        /\ Deliver(t)
        /\ UNCHANGED lockQ
  /\ UNCHANGED <<swVars, callVars, faults>>

\* openGraph, with no teardown of the id in flight in this tab (it waits for one): queue for the
\* lock once; a leader that is asked again delivers again
OpenGraph(t) ==
  /\ tab[t].alive
  /\ inbox[t] # <<>> /\ Head(inbox[t]).op = "open"
  /\ tab[t].teardowns = <<>>
  /\ inbox' = [inbox EXCEPT ![t] = Tail(@)]
  /\ \/ /\ tab[t].stake = "none"
        /\ tab' = [tab EXCEPT ![t].stake = "queued"]
        /\ lockQ' = Append(lockQ, t)
        /\ UNCHANGED <<workers, ports, posted>>
     \/ /\ tab[t].stake = "queued"
        /\ UNCHANGED <<tab, lockQ, workers, ports, posted>>
     \/ /\ tab[t].stake = "leader"
        /\ Deliver(t)
        /\ UNCHANGED lockQ
  /\ UNCHANGED <<swVars, callVars, faults>>

\* The lock is granted: lead and deliver
LockGranted(t) ==
  /\ lockQ # <<>> /\ Head(lockQ) = t
  /\ tab[t].stake = "queued"
  /\ Deliver(t)
  /\ UNCHANGED <<swVars, inbox, lockQ, callVars, faults>>

\* The lock is granted to a leadership destroyed while queued: it never spawns
LockGrantedStale(t) ==
  /\ lockQ # <<>> /\ Head(lockQ) = t
  /\ tab[t].leaving = "queued"
  /\ lockQ' = Tail(lockQ)
  /\ tab' = [tab EXCEPT ![t].leaving = "none"]
  /\ UNCHANGED <<swVars, inbox, workers, ports, posted, callVars, faults>>

\* A teardown takes the leadership out of the map; a Worker it owns is asked to close first
Started(rec) ==
  [rec EXCEPT !.stage = IF rec.worker = 0 THEN "remove" ELSE "closing",
              !.leaving = rec.stake, !.old = rec.worker,
              !.stake = "none", !.worker = 0]

\* Mutant: the lock goes before the teardown is over
DestroyGraphUnlocked(t) ==
  /\ tab[t].alive
  /\ \E i \in DOMAIN inbox[t] :
       /\ inbox[t][i].op = "destroy"
       /\ \A j \in 1..(i - 1) : inbox[t][j].op = "open"
       /\ i = 1 \/ tab[t].teardowns # <<>>
       /\ inbox' = [inbox EXCEPT ![t] = RemoveAt(@, i)]
       /\ LET queued == [tab[t] EXCEPT !.teardowns = Append(@, inbox[t][i].d)]
          IN tab' = [tab EXCEPT ![t] = IF tab[t].teardowns = <<>> THEN Started(queued) ELSE queued]
  /\ lockQ' = RemoveFirst(lockQ, t)
  /\ UNCHANGED <<swVars, workers, ports, posted, callVars, faults>>

\* destroyGraph: one teardown at a time, the next queues behind it. It is not held up by an
\* openGraph that waits for a teardown.
DestroyGraph(t) ==
  /\ tab[t].alive
  /\ \E i \in DOMAIN inbox[t] :
       /\ inbox[t][i].op = "destroy"
       /\ \A j \in 1..(i - 1) : inbox[t][j].op = "open"
       /\ i = 1 \/ tab[t].teardowns # <<>>
       /\ inbox' = [inbox EXCEPT ![t] = RemoveAt(@, i)]
       /\ LET queued == [tab[t] EXCEPT !.teardowns = Append(@, inbox[t][i].d)]
          IN tab' = [tab EXCEPT ![t] = IF tab[t].teardowns = <<>> THEN Started(queued) ELSE queued]
  /\ UNCHANGED <<swVars, lockQ, workers, ports, posted, callVars, faults>>

\* The Worker's host closed its store: handles released, then the thread is terminated
WorkerClosed(t) ==
  /\ tab[t].stage = "closing"
  /\ workers[tab[t].old].state = "open"
  /\ workers' = [workers EXCEPT ![tab[t].old].state = "gone"]
  /\ tab' = [tab EXCEPT ![t].stage = "remove"]
  /\ UNCHANGED <<swVars, inbox, lockQ, ports, posted, callVars, faults>>

\* No answer to the close in time (a runaway query, or still opening), or the host never opened:
\* terminated all the same, and its handles, if it had any, go with its thread some time later
CloseTimeout(t) ==
  /\ tab[t].stage = "closing"
  /\ workers' = [workers EXCEPT ![tab[t].old].state = IF @ = "open" THEN "killed" ELSE "gone"]
  /\ tab' = [tab EXCEPT ![t].stage = "removeRetry"]
  /\ UNCHANGED <<swVars, inbox, lockQ, ports, posted, callVars, faults>>

\* Mutant: only a page that led or queued answers
FinishStaked(t, ok) ==
  LET d == Head(tab[t].teardowns)
      over == [tab[t] EXCEPT !.teardowns = Tail(@), !.stage = "none", !.leaving = "none", !.old = 0]
  IN /\ lockQ' = IF tab[t].leaving = "none" THEN lockQ ELSE RemoveFirst(lockQ, t)
     /\ dst' = IF tab[t].leaving = "none" THEN dst ELSE [dst EXCEPT ![d].waiting[t] = @ - 1, ![d].won = @ \/ ok]
     /\ tab' = [tab EXCEPT ![t] = IF over.teardowns = <<>> THEN over ELSE Started(over)]

\* The teardown is over: the leadership's lock is released or its place in the queue given up,
\* the destroy is answered, and the next teardown starts
Finish(t, ok) ==
  LET d == Head(tab[t].teardowns)
      over == [tab[t] EXCEPT !.teardowns = Tail(@), !.stage = "none", !.leaving = "none", !.old = 0]
  IN /\ lockQ' = IF tab[t].leaving = "none" THEN lockQ ELSE RemoveFirst(lockQ, t)
     /\ dst' = [dst EXCEPT ![d].waiting[t] = @ - 1, ![d].won = @ \/ ok]
     /\ tab' = [tab EXCEPT ![t] = IF over.teardowns = <<>> THEN over ELSE Started(over)]

\* removeOpfsDir succeeds: no handle inside the directory is open
RemoveDirectory(t) ==
  /\ tab[t].stage \in {"remove", "removeRetry"}
  /\ Holders = {}
  /\ data' = {}
  /\ Finish(t, TRUE)
  /\ UNCHANGED <<sw, req, destroys, disposed, inbox, workers, ports, posted, mail, replies, faults>>

\* It is refused while a handle is open: at once after a clean close or without a Worker, at the
\* end of the retry budget otherwise
RemoveRefused(t) ==
  /\ tab[t].stage \in {"remove", "removeRetry"}
  /\ Holders # {}
  /\ Finish(t, FALSE)
  /\ UNCHANGED <<sw, req, destroys, disposed, inbox, workers, ports, posted, callVars, faults>>

\* A tab dies: the browser drops it from the lock queue; its Worker keeps the handles until its
\* thread is torn down; no port is closed and nothing tells the Service Worker
TabDies(t) ==
  /\ tab[t].alive
  /\ faults.deaths + faults.restarts < MaxFaults[sw.kind]
  /\ faults' = [faults EXCEPT !.deaths = @ + 1]
  /\ tab' = [tab EXCEPT ![t] = [@ EXCEPT !.alive = FALSE, !.ctl = 0, !.stake = "none", !.worker = 0,
                                         !.teardowns = <<>>, !.stage = "none", !.leaving = "none", !.old = 0]]
  /\ inbox' = [inbox EXCEPT ![t] = <<>>]
  /\ lockQ' = RemoveFirst(lockQ, t)
  /\ workers' = [w \in DOMAIN workers |->
                   IF workers[w].owner = t /\ Live(w)
                   THEN [workers[w] EXCEPT !.state = IF @ = "open" THEN "orphan" ELSE "gone"]
                   ELSE workers[w]]
  /\ UNCHANGED <<swVars, ports, posted, callVars>>

-----------------------------------------------------------------------------
(* A Worker: one owner of the handles at a time                            *)

\* The pool is installed once no other Worker holds a handle
WorkerOpens(w) ==
  /\ workers[w].state = "opening"
  /\ Holders = {}
  /\ workers' = [workers EXCEPT ![w].state = "open"]
  /\ UNCHANGED <<swVars, tabVars, ports, posted, callVars, faults>>

\* The budget for a dead owner's handles runs out: every call of this Worker will be rejected
WorkerOpenFails(w) ==
  /\ workers[w].state = "opening"
  /\ Holders # {}
  /\ workers' = [workers EXCEPT ![w].state = "failed"]
  /\ UNCHANGED <<swVars, tabVars, ports, posted, callVars, faults>>

\* The thread of a Worker that died without closing is torn down at last
ThreadGone(w) ==
  /\ workers[w].state \in {"orphan", "killed"}
  /\ workers' = [workers EXCEPT ![w].state = "gone"]
  /\ UNCHANGED <<swVars, tabVars, ports, posted, callVars, faults>>

\* A call is executed: the write commits and the answer leaves (an orphan may still get to it),
\* or the failed open rejects it
Execute(r, p) ==
  /\ <<r, p>> \in mail
  /\ mail' = mail \ {<<r, p>>}
  /\ \/ /\ workers[ports[p]].state \in {"open", "orphan"}
        /\ data' = data \cup {r}
        /\ replies' = replies \cup {<<r, p, TRUE>>}
     \/ /\ workers[ports[p]].state = "failed"
        /\ replies' = replies \cup {<<r, p, FALSE>>}
        /\ UNCHANGED data
  /\ UNCHANGED <<swVars, tabVars, workers, ports, posted, faults>>

\* An idle Service Worker is reaped: its sessions and its stub are forgotten. Idle is seconds
\* without an event, by when the pages have handled what it sent.
SWReaped ==
  /\ faults.restarts < MaxRestarts[sw.kind]
  /\ faults.deaths + faults.restarts < MaxFaults[sw.kind]
  /\ \A r \in Requests : ~InFlight(r)
  /\ \A d \in Destroys : ~Destroying(d)
  /\ posted = <<>> /\ \A t \in Tabs : inbox[t] = <<>>
  /\ faults' = [faults EXCEPT !.restarts = @ + 1]
  /\ sw' = [sw EXCEPT !.current = 0, !.sessions = [t \in Tabs |-> 0], !.soliciting = "no"]
  /\ UNCHANGED <<req, dst, destroys, disposed, tabVars, workers, ports, posted, callVars>>

-----------------------------------------------------------------------------
EdgeStep ==
  \/ \E t \in Tabs : ControlPort(t)
  \/ FactoryTimeout \/ DuplicatePort \/ AcceptPort
  \/ \E r \in Requests, p \in DOMAIN ports, ok \in BOOLEAN : Reply(r, p, ok)
  \/ \E d \in Destroys : DestroySettled(d)

TabStep(t) ==
  \/ OpenGraph(t) \/ LockGranted(t) \/ LockGrantedStale(t) \/ DestroyGraph(t)
  \/ WorkerClosed(t) \/ CloseTimeout(t) \/ RemoveDirectory(t) \/ RemoveRefused(t)

WorkerStep(w) ==
  \/ WorkerOpens(w) \/ WorkerOpenFails(w)
  \/ \E r \in Requests, p \in DOMAIN ports : ports[p] = w /\ Execute(r, p)

Environment ==
  \/ \E r \in Requests : RequestOnStub(r) \/ RequestSolicits(r)
  \/ \E d \in Destroys : DestroyCall(d)
  \/ \E t \in Tabs : TabDies(t)
  \/ SWReaped

System ==
  \/ EdgeStep
  \/ \E t \in Tabs : TabStep(t)
  \/ \E w \in DOMAIN workers : WorkerStep(w) \/ ThreadGone(w)

Next == System \/ Environment

\* Event loops run what is queued, a granted lock calls back, a query ends, a torn-down thread
\* ends: as long as one of them can take a step, one does. Requests, destroys, deaths and reaping
\* happen or not.
Fairness == WF_vars(System)

Spec == Init /\ [][Next]_vars /\ Fairness

-----------------------------------------------------------------------------
TypeOK ==
  /\ sw \in [kind : Kinds, current : Nat, sessions : [Tabs -> Nat], soliciting : {"no", "factories", "port"}]
  /\ req \in [Requests -> [pc : {"idle", "opening", "calling", "ok", "failed"}, port : Nat,
                           tries : 0..2, epoch : Nat, quiet : BOOLEAN]]
  /\ dst \in [Destroys -> [pc : {"idle", "factories", "asked", "ok", "failed"}, cur : Nat,
                           waiting : [Tabs -> Nat], asked : BOOLEAN, won : BOOLEAN,
                           before : SUBSET Requests,
                           cut : SUBSET Requests]]
  /\ destroys \in Nat
  /\ tab \in [Tabs -> [alive : BOOLEAN, ctl : Nat, stake : {"none", "queued", "leader"}, worker : Nat,
                       teardowns : Seq(Destroys), stage : {"none", "closing", "remove", "removeRetry"},
                       leaving : {"none", "queued", "leader"}, old : Nat]]
  /\ inbox \in [Tabs -> Seq([op : {"open", "destroy"}, d : Destroys \cup {None}])]
  /\ lockQ \in Seq(Tabs) /\ IsInjective(lockQ)
  /\ workers \in Seq([owner : Tabs, state : {"opening", "open", "failed", "orphan", "killed", "gone"}])
  /\ ports \in Seq(Nat) /\ posted \in Seq(Nat) /\ disposed \subseteq DOMAIN ports
  /\ mail \subseteq Requests \X (DOMAIN ports)
  /\ replies \subseteq Requests \X (DOMAIN ports) \X BOOLEAN
  /\ data \subseteq Requests
  /\ faults \in [deaths : 0..MaxFaults[sw.kind], restarts : 0..MaxRestarts[sw.kind]]

\* At most one Worker of the graph runs in a live tab, destroys and failovers included: two would
\* contend for the handles and the later one would fail its calls (the per-graph Web Lock of
\* worker-factory.ts, released only after the teardown).
OneLiveWorker == \A v, w \in DOMAIN workers : Live(v) /\ Live(w) => v = w

\* A write answered with success is still in the graph, whichever tabs died since, unless a
\* destroy began after the write did or was under way then.
AckedSurvives ==
  \A r \in Requests : req[r].pc = "ok" /\ req[r].quiet /\ req[r].epoch = destroys => r \in data

\* A destroy that reported success left nothing of what the graph held when it was called: not
\* although some pages failed to remove the directory (FactoryStubSource.destroy).
DestroyedIsGone == \A d \in Destroys : dst[d].pc = "ok" => dst[d].before \cap data = {}

\* What a destroyed and re-created graph holds is what was acknowledged since, and nothing from
\* before (FactoryStubSource.destroy, BrowserGraphManager.call).
DirectoryRight == AckedSurvives /\ DestroyedIsGone

\* A request that was on a Worker when a destroy was called, and had not written by the time the
\* destroy ended, never writes: it is not retried on the graph a later request created
\* (BrowserGraphManager.call).
CutOffNeverLands ==
  [][\A r \in data' \ data, d \in Destroys : r \in dst[d].cut => dst[d].pc \notin {"ok", "failed"}]_vars

\* One tab's death, duplicate deliveries and late joiners are invisible to a request: it only
\* fails for a destroy, for handles that outlived the budget of the Worker that waited for them,
\* or because no page is left.
NoSpuriousFailure ==
  \A r \in Requests : req[r].pc = "failed" =>
    \/ destroys > 0 \/ faults.deaths > 1
    \/ \E w \in DOMAIN workers : workers[w].state = "failed"
    \/ \A t \in Tabs : ~tab[t].alive

\* Every request is answered in the end (there are finitely many, each made once).
RequestsSettle == (\E r \in Requests : InFlight(r)) ~> (\A r \in Requests : ~InFlight(r))

\* They are, although the Service Worker is reaped between two requests, if no tab dies and the
\* graph is not destroyed: "never an unbounded hang" (FactoryStubSource.ensureFactories).
ReapedSettles == [](faults.deaths = 0 /\ destroys = 0) => RequestsSettle

\* The registry's requests are answered in the end, whichever tabs die and whenever they do, if
\* one lives on and the Service Worker is not reaped: a page that joins late is asked for what is
\* being solicited.
RegistrySettles ==
  ([](sw.kind = "registry" /\ \E t \in Tabs : tab[t].alive) /\ [](faults.restarts = 0)) => RequestsSettle

\* A request is answered in the end when the graph is not destroyed and, from some time on, a
\* live tab stays in the lock queue: its turn comes, its port cuts the dead stub's calls off.
FailoverSettles ==
  ([](sw.kind = "graph" /\ destroys = 0) /\ [](faults.restarts = 0) /\ <>[](\E t \in Tabs : tab[t].stake # "none")) => RequestsSettle

\* A request is answered in the end, to the registry and to a graph alike.
RequestsAnswered == RegistrySettles /\ FailoverSettles

\* A destroy ends if no tab dies, however busy the Worker and whatever teardown it races.
DestroySettles ==
  [](faults.deaths = 0) => \A d \in Destroys : Destroying(d) ~> dst[d].pc \in {"ok", "failed"}

\* What FactoryStubSource.destroy says of its last step: once no destroy is under way, and no tab
\* died, no call waits on a Worker that was torn down.
DestroyRejectsCalls ==
  (faults.deaths = 0 /\ \A d \in Destroys : ~Destroying(d)) =>
    \A r \in Requests : req[r].pc = "calling" =>
      \/ Live(ports[req[r].port])
      \/ \E ok \in BOOLEAN : <<r, req[r].port, ok>> \in replies
=============================================================================
