------------------------ MODULE ReplicatorRegistry ------------------------
(***************************************************************************)
(* src/replicator-registry.ts, ReplicatorStore: the replication configs,   *)
(* their scheduler rows and their resume cursors.  Each operator is one    *)
(* synchronous span over the registry's own database.  It runs no job and  *)
(* has no clock: "now" is what the caller read before it called.           *)
(*                                                                         *)
(* Times count from the present: 3 is three ticks ahead, -2 two ago.  A    *)
(* time Horizon ago or more stays at -Horizon, which no comparison tells   *)
(* from a longer ago one, and from SQL's NULL ("always passed").           *)
(***************************************************************************)
EXTENDS Integers, FiniteSets

CONSTANTS
    ConfigId,
    Horizon,                   \* how far back times are told apart
    BackoffBase, BackoffMax,   \* backoffBaseMs, backoffMaxMs
    ErrorCap                   \* bound: error_count is not told apart above it

ASSUME RegistryAssumption ==
    /\ Horizon \in Nat /\ BackoffBase \in Nat /\ BackoffMax \in Nat
    /\ ErrorCap \in Nat \ {0}

VARIABLES
    config,      \* replication_config: absent, continuous or one_shot
    job,         \* replication_job: its row, state "none" where there is none
    cursor       \* replication_checkpoint of each config's replication id

Modes     == {"continuous", "one_shot"}
JobStates == {"none", "running", "pending", "completed", "crashing"}
Never     == -Horizon
NoJob     == [state |-> "none", error_count |-> 0, next_run |-> Never, lease_until |-> Never]

RegistryInit ==
    /\ config = [c \in ConfigId |-> "absent"]
    /\ job = [c \in ConfigId |-> NoJob]
    /\ cursor = [c \in ConfigId |-> 0]

\* putConfig leaves the job row and the cursor of an existing id alone;
\* deleteConfig drops the job row, not the cursor.
Put(c, mode) ==
    /\ config' = [config EXCEPT ![c] = mode]
    /\ UNCHANGED <<job, cursor>>

Delete(c) ==
    /\ config' = [config EXCEPT ![c] = "absent"]
    /\ job' = [job EXCEPT ![c] = NoJob]
    /\ UNCHANGED cursor

\* Mutants of Due: a job row without a config; any lease; a lease that is
\* about to end; no running row.
DueOrphans(now) ==
    {c \in ConfigId : \/ job[c].state = "none"
                      \/ /\ job[c].next_run <= now /\ job[c].lease_until <= now
                         /\ job[c].state # "completed"}

DueLeased(now) ==
    {c \in ConfigId : /\ config[c] # "absent"
                      /\ \/ job[c].state = "none"
                         \/ job[c].next_run <= now /\ job[c].state # "completed"}

DueEarly(now) ==
    {c \in ConfigId : /\ config[c] # "absent"
                      /\ \/ job[c].state = "none"
                         \/ /\ job[c].next_run <= now /\ job[c].lease_until <= now + 1
                            /\ job[c].state # "completed"}

DueNotRunning(now) ==
    {c \in ConfigId : /\ config[c] # "absent"
                      /\ \/ job[c].state = "none"
                         \/ /\ job[c].next_run <= now /\ job[c].lease_until <= now
                            /\ job[c].state \notin {"completed", "running"}}

\* claimDue: what is due and neither leased nor terminal, oldest first.
Due(now) ==
    {c \in ConfigId :
        /\ config[c] # "absent"
        /\ \/ job[c].state = "none"
           \/ /\ job[c].next_run <= now /\ job[c].lease_until <= now
              /\ job[c].state # "completed"}

Claims(now, max) ==
    {S \in SUBSET Due(now) :
        /\ Cardinality(S) <= max
        /\ S # Due(now) => Cardinality(S) = max
        /\ \A c \in S, d \in Due(now) \ S : job[c].next_run <= job[d].next_run}

\* Mutant of ClaimDue: an existing row keeps its old lease.
ClaimDueOldLease(S, now, lease) ==
    /\ job' = [c \in ConfigId |->
                 IF c \notin S THEN job[c]
                 ELSE IF job[c].state = "none"
                      THEN [NoJob EXCEPT !.state = "running", !.lease_until = now + lease,
                                         !.next_run = now]
                      ELSE [job[c] EXCEPT !.state = "running"]]
    /\ UNCHANGED <<config, cursor>>

ClaimDue(S, now, lease) ==
    /\ job' = [c \in ConfigId |->
                 IF c \notin S THEN job[c]
                 ELSE [job[c] EXCEPT !.state = "running", !.lease_until = now + lease,
                                     !.next_run = IF job[c].state = "none" THEN now ELSE @]]
    /\ UNCHANGED <<config, cursor>>

\* An UPDATE of a row that is gone does nothing.
Release(c, row) ==
    /\ job' = IF job[c].state = "none" THEN job ELSE [job EXCEPT ![c] = row]
    /\ UNCHANGED <<config, cursor>>

RecordResult(c, state, next_run) ==
    Release(c, [state |-> state, error_count |-> 0, next_run |-> next_run, lease_until |-> Never])

Backoff(errors) == LET delay == BackoffBase * 2 ^ (errors - 1)
                   IN  IF delay \in 0 .. BackoffMax THEN delay ELSE BackoffMax

RecordFailure(c, now) ==
    LET errors == IF job[c].error_count < ErrorCap THEN job[c].error_count + 1 ELSE ErrorCap
    IN  Release(c, [state |-> "crashing", error_count |-> errors,
                    next_run |-> now + Backoff(errors), lease_until |-> Never])

SetCheckpoint(c, seq) ==
    /\ cursor' = [cursor EXCEPT ![c] = seq]
    /\ UNCHANGED <<config, job>>

\* Time goes by under the registry's rows.
Earlier(time) == IF time > Never THEN time - 1 ELSE Never

Age == job' = [c \in ConfigId |-> [job[c] EXCEPT !.next_run = Earlier(@),
                                                 !.lease_until = Earlier(@)]]
=============================================================================
