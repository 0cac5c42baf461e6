---------------------------- MODULE SegmentDrive ----------------------------
(***************************************************************************)
(* Queries with barriers driven segment by segment over one graph, and the *)
(* scratch rows their graph algorithms leave in SQL between two segments.  *)
(*   drive.ts    driveSegmentsFrom and driveSegmentsSync, the trampolines  *)
(*   kernel.ts   decorateBarrier and iterateInSql, the algorithms' core    *)
(*   execute.ts  resolveNodes, runForeign, filterVertexIds, the tails      *)
(*   storage.ts  run tokens, the sweep when a store is constructed         *)
(* Every await is a point where other queries run, the graph is destroyed, *)
(* or the process dies. What a query computes is abstracted to the number  *)
(* of the round that wrote a row: a tail is right if the rows it reads are *)
(* those the last round of its own query's core wrote.                     *)
(***************************************************************************)
EXTENDS Naturals, Sequences, FiniteSets, SequencesExt, FiniteSetsExt

CONSTANTS
  Queries,
  Segments,   \* the barriers of each query: a sequence of "olap" and "sync" that may end in "remote"
  Answer,     \* what becomes of its rows: "framed", "foreign" (a sibling asked) or "filter"
              \* (a replication filter, driven without an await)
  Warm,       \* whether a destroyed graph's instance is reused by later queries (a Durable Object)
              \* or its handle is closed (a process with one handle per graph)
  MaxQueries, \* bound on the queries of one behaviour
  MaxRounds,  \* bound on the rounds of an algorithm
  MaxCrashes, \* bound on processes that die
  MaxDestroys \* bound on destroys

ASSUME SegmentAssumption ==
  /\ Segments \in [Queries -> Seq({"olap", "sync", "remote"})]
  /\ Answer \in [Queries -> {"framed", "foreign", "filter"}]
  /\ \A q \in Queries : Answer[q] = "filter" => \A i \in DOMAIN Segments[q] : Segments[q][i] # "remote"
  /\ MaxRounds \in Nat /\ MaxCrashes \in Nat /\ MaxDestroys \in Nat /\ MaxQueries \in Nat
  /\ Warm \in BOOLEAN

VARIABLES
  db,     \* "open", "wiped" (destroyed, its schema not yet restored) or "down" (no process)
  state,  \* barrier_state: who wrote a row, under which run, in which slot, in which round
  seq,    \* barrier_run_seq: the last run token
  query,  \* where each query is, the runs its drive collected, the relations its plan reads
  faults  \* crashes and destroys so far

vars == <<db, state, seq, query, faults>>

Arrives(q) ==
  /\ query[q].pc = "idle"
  /\ Cardinality({p \in Queries : query[p].pc # "idle"}) < MaxQueries
InFlight(q) == query[q].pc \in {"headed", "applied", "away", "driven"}

Init ==
  /\ db = "open" /\ state = {} /\ seq = 0
  /\ query = [q \in Queries |-> [pc |-> "idle", at |-> 1, runs |-> {}, reads |-> {}, out |-> 0,
                                 cut |-> FALSE, misread |-> FALSE]]
  /\ faults = [crashes |-> 0, destroys |-> 0]

-----------------------------------------------------------------------------
(* The store                                                               *)

\* Mutant: a token one above the runs that have rows
FreshAbove == 1 + Max({0} \cup {r.run : r \in state})

\* allocBarrierRun: an AUTOINCREMENT key, never given twice
Fresh == seq + 1

\* iterateInSql after n rounds: the seed in slot 0, each round over the slot before last
Relaxed(q, run, n) ==
  [rows |-> {[by |-> q, run |-> run, round |-> i % 2, iter |-> i] : i \in (IF n = 0 THEN 0 ELSE n - 1)..n},
   round |-> n % 2]

\* A relation a plan reads: the run and the slot, and what its core left there
Relation(run, round, wrote) == [run |-> run, round |-> round, wrote |-> wrote]
Rows(rel) == {r \in state : r.run = rel.run /\ r.round = rel.round}
Misreads(rec) == \E rel \in rec.reads : Rows(rel) # rel.wrote

\* What is left of a query that ended
Ended(rec, pc) == [rec EXCEPT !.pc = pc, !.at = 1, !.runs = {}, !.reads = {}, !.out = 0]
Without(runs) == {r \in state : r.run \notin runs}

\* A statement of this query reaches its tables
Reaches(q) == db = "open" /\ ~query[q].cut

-----------------------------------------------------------------------------
(* The drive                                                               *)

\* The next segment whose barrier is awaited, 0 if there is none
Awaited(q, from) == SelectInSubSeq(Segments[q], from, Len(Segments[q]), LAMBDA s : s # "sync")

\* From a resume to the next await: sync segments are run in the same stretch, then the next
\* async one's head is read, or the drive is over. Both read through the relations so far.
Advanced(q, rec) ==
  LET i == Awaited(q, rec.at)
  IN IF i = 0
     THEN [rec EXCEPT !.at = Len(Segments[q]) + 1, !.pc = "driven",
                      !.misread = @ \/ (rec.at <= Len(Segments[q]) /\ Misreads(rec))]
     ELSE [rec EXCEPT !.at = i, !.pc = "headed", !.misread = @ \/ Misreads(rec)]

\* Mutant: the run of the resume that throws is not among them
ThrowLate(q, runs) ==
  /\ query' = [query EXCEPT ![q] = Ended(@, "failed")]
  /\ state' = IF Reaches(q) THEN Without(query[q].runs) ELSE state

\* The drive's catch: the runs collected so far are dropped, if the tables can be reached
Throw(q, runs) ==
  /\ query' = [query EXCEPT ![q] = Ended(@, "failed")]
  /\ state' = IF Reaches(q) THEN Without(runs) ELSE state

\* A query arrives and is compiled; an instance wiped by a destroy restores its schema first
Begin(q) ==
  /\ Arrives(q) /\ Answer[q] # "filter"
  /\ db # "down"
  /\ db' = "open"
  /\ query' = [query EXCEPT ![q] = Advanced(q, query[q])]
  /\ UNCHANGED <<state, seq, faults>>

\* An algorithm's core, one stretch: a run, the rounds, the relation; an empty graph has no rows
Core(q) ==
  /\ query[q].pc = "headed" /\ Segments[q][query[q].at] = "olap"
  /\ Reaches(q)
  /\ seq' = Fresh
  /\ \/ \E n \in 0..MaxRounds :
          LET done == Relaxed(q, Fresh, n)
              wrote == {r \in done.rows : r.iter = n}
          IN /\ state' = state \cup done.rows
             /\ query' = [query EXCEPT ![q].pc = "applied", ![q].out = Fresh,
                                       ![q].reads = @ \cup {Relation(Fresh, done.round, wrote)}]
     \/ /\ query' = [query EXCEPT ![q].pc = "applied", ![q].out = Fresh,
                                  ![q].reads = @ \cup {Relation(Fresh, 0, {})}]
        /\ UNCHANGED state
  /\ UNCHANGED <<db, faults>>

\* The core throws part-way: its run was never collected
CoreThrows(q) ==
  /\ query[q].pc = "headed" /\ Segments[q][query[q].at] = "olap"
  /\ Reaches(q)
  /\ seq' = Fresh
  /\ \E n \in 0..MaxRounds :
       state' = Without(query[q].runs) \cup Relaxed(q, Fresh, n).rows
  /\ query' = [query EXCEPT ![q] = Ended(@, "coreThrew")]
  /\ UNCHANGED <<db, faults>>

\* A barrier with real I/O leaves for a sibling or an object store
Leave(q) ==
  /\ query[q].pc = "headed" /\ Segments[q][query[q].at] = "remote"
  /\ query' = [query EXCEPT ![q].pc = "away"]
  /\ UNCHANGED <<db, state, seq, faults>>

\* The run is collected and the rest of the chain is planned over it, up to the next await
Resume(q) ==
  /\ query[q].pc \in {"applied", "away"}
  /\ LET rec == [query[q] EXCEPT !.runs = @ \cup ({query[q].out} \ {0}), !.out = 0, !.at = @ + 1]
         ahead == Advanced(q, rec)
     IN /\ ahead.pc = "headed" \/ rec.at <= Len(Segments[q]) => Reaches(q)
        /\ query' = [query EXCEPT ![q] = ahead]
  /\ UNCHANGED <<db, state, seq, faults>>

\* A resume declines the rest of the chain, a remote barrier is rejected, or a head's statement
\* throws: the catch drops the runs, the one just collected included
Decline(q) ==
  /\ query[q].pc \in {"headed", "applied", "away"}
  /\ Throw(q, query[q].runs \cup ({query[q].out} \ {0}))
  /\ UNCHANGED <<db, seq, faults>>

\* resolveNodes: the last statement, answered or failed, and the runs dropped either way
Frame(q) ==
  /\ query[q].pc = "driven" /\ Answer[q] = "framed"
  /\ state' = IF Reaches(q) THEN Without(query[q].runs) ELSE state
  /\ \/ /\ Reaches(q)
        /\ query' = [query EXCEPT ![q] = [Ended(query[q], "done") EXCEPT !.misread = @ \/ Misreads(query[q])]]
     \/ query' = [query EXCEPT ![q] = Ended(@, "failed")]
  /\ UNCHANGED <<db, seq, faults>>

\* runForeign: the last statement and its rows in another form; the runs are not looked at
Transfer(q) ==
  /\ query[q].pc = "driven" /\ Answer[q] = "foreign"
  /\ \/ /\ Reaches(q)
        /\ query' = [query EXCEPT ![q] = [Ended(query[q], "done") EXCEPT !.misread = @ \/ Misreads(query[q])]]
     \/ query' = [query EXCEPT ![q] = Ended(@, "tailThrew")]
  /\ UNCHANGED <<db, state, seq, faults>>

\* filterVertexIds: the sync drive and its last statement in one stretch; the runs of a drive
\* that throws are dropped, those of one that ends are not looked at
Filter(q) ==
  /\ Arrives(q) /\ Answer[q] = "filter"
  /\ db # "down"
  /\ db' = "open"
  /\ LET cores == {i \in DOMAIN Segments[q] : Segments[q][i] = "olap"}
     IN /\ seq' = IF cores = {} THEN seq ELSE seq + Cardinality(cores)
        /\ \/ /\ \E n \in 0..MaxRounds :
                   state' = state \cup UNION {Relaxed(q, seq + i, n).rows : i \in 1..Cardinality(cores)}
              /\ query' = [query EXCEPT ![q] = Ended(@, "done")]
           \/ /\ query' = [query EXCEPT ![q] = Ended(@, "failed")]
              /\ UNCHANGED state
           \/ /\ cores # {}
              /\ query' = [query EXCEPT ![q] = Ended(@, "coreThrew")]
              /\ \E n \in 0..MaxRounds :
                   state' = state \cup Relaxed(q, seq + Cardinality(cores), n).rows
  /\ UNCHANGED faults

-----------------------------------------------------------------------------
(* The graph's life                                                        *)

\* destroy: a Durable Object's storage is emptied under the queries that wait; a closed handle
\* cuts them off
Destroy ==
  /\ db = "open" /\ faults.destroys < MaxDestroys
  /\ faults' = [faults EXCEPT !.destroys = @ + 1]
  /\ db' = IF Warm THEN "wiped" ELSE "open"
  /\ state' = {} /\ seq' = 0
  /\ query' = [q \in Queries |-> IF InFlight(q) /\ ~Warm THEN [query[q] EXCEPT !.cut = TRUE] ELSE query[q]]

\* The process dies: no catch and no finally runs
Crash ==
  /\ db # "down" /\ faults.crashes < MaxCrashes
  /\ faults' = [faults EXCEPT !.crashes = @ + 1]
  /\ db' = "down"
  /\ query' = [q \in Queries |-> IF InFlight(q) THEN Ended(query[q], "lost") ELSE query[q]]
  /\ UNCHANGED <<state, seq>>

\* A store is constructed over what the process left: no run is live, every row is an orphan
Restart ==
  /\ db = "down"
  /\ db' = "open"
  /\ state' = {}
  /\ UNCHANGED <<seq, query, faults>>

Next ==
  \/ \E q \in Queries :
       \/ Begin(q) \/ Core(q) \/ CoreThrows(q) \/ Leave(q) \/ Resume(q)
       \/ Decline(q) \/ Frame(q) \/ Transfer(q) \/ Filter(q)
  \/ Destroy \/ Crash \/ Restart

Spec == Init /\ [][Next]_vars

-----------------------------------------------------------------------------

\* Every statement that reads an algorithm's relation finds what the last round of its own query's
\* core wrote, whatever other queries compute, drop and finish at the awaits in between, and
\* whatever process died before: the run token keeps concurrent queries apart (storage.ts).
ReadsOwnRun == \A q \in Queries : ~query[q].misread

\* A query the framer answered, or that failed at any segment after the cores it ran, leaves no
\* scratch row behind; nor does one whose process died, once the store is constructed again.
FramedLeaveNothing ==
  \A r \in state : \/ InFlight(r.by) \/ db = "down"
                   \/ query[r.by].pc = "coreThrew"
                   \/ query[r.by].pc \in {"done", "tailThrew"} /\ Answer[r.by] # "framed"

\* What storage.ts and the barrier-run tests say of every query: once it ended, its rows are gone.
NothingLeftBehind ==
  \A r \in state : InFlight(r.by) \/ db = "down" \/ query[r.by].pc = "coreThrew"
=============================================================================
