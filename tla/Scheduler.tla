----------------------------- MODULE Scheduler -----------------------------
(***************************************************************************)
(* src/scheduler.ts: tickers (a cron trigger, a timer, an admin request)   *)
(* that read the clock, claim due jobs from the registry under a lease and *)
(* run each as a few pages of replication.  Every registry call and every  *)
(* page is awaited, so the calls of different runs interleave, users edit  *)
(* configs between them, and a ticker may die at any of them.              *)
(*                                                                         *)
(* A page is two steps, the feed it reads and the cursor it writes; what   *)
(* it does to the target graph is module Replication's.  A source is the   *)
(* number of elements written to it.                                       *)
(***************************************************************************)
EXTENDS ReplicatorRegistry

CONSTANTS
    Ticker,
    LeaseMs, MaxJobs, Interval,     \* RunDueOptions
    BatchSize, MaxBatches,          \*   batchSize, maxBatchesPerWake
    Puts,                           \* ConfigId -> the modes users give it
    Deletable,                      \* the configs users delete
    Uncheckpointed,                 \* those put with use_checkpoints: false
    MaxRun,                         \* timing: a tick ends within MaxRun of the time it read
    MaxUpdates, MaxEdits, MaxFaults \* bounds: writes to a source; config edits; crashes and failed runs

ASSUME SchedulerAssumption ==
    /\ LeaseMs \in Nat /\ Interval \in Nat /\ MaxRun \in Nat
    /\ MaxJobs \in Nat \ {0} /\ BatchSize \in Nat \ {0} /\ MaxBatches \in Nat \ {0}
    /\ Puts \in [ConfigId -> SUBSET Modes] /\ Deletable \subseteq ConfigId /\ Uncheckpointed \subseteq ConfigId
    /\ MaxRun <= Horizon
    /\ MaxUpdates \in Nat /\ MaxEdits \in Nat /\ MaxFaults \in Nat

VARIABLES
    updates,     \* ConfigId -> the update_seq of its source
    now,         \* Ticker -> opts.now of its tick
    claiming,    \* Ticker -> it has read the clock and not yet claimed
    run,         \* Ticker -> ConfigId -> the run under way
    edits, faults

registry == <<config, job, cursor>>
vars == <<config, job, cursor, updates, now, claiming, run, edits, faults>>

Steps  == {"none", "read", "write", "record"}
NoRun  == [step |-> "none", mode |-> "one_shot", seq |-> 0, batches |-> 0, more |-> FALSE]

Running(t, c) == run[t][c].step # "none"
Idle(t)       == ~claiming[t] /\ \A c \in ConfigId : ~Running(t, c)

Init ==
    /\ RegistryInit
    /\ updates = [c \in ConfigId |-> 0]
    /\ now = [t \in Ticker |-> 0]
    /\ claiming = [t \in Ticker |-> FALSE]
    /\ run = [t \in Ticker |-> [c \in ConfigId |-> NoRun]]
    /\ edits = 0 /\ faults = 0

\* Users ----------------------------------------------------------------------

UserEdit == /\ edits < MaxEdits /\ edits' = edits + 1
            /\ UNCHANGED <<updates, now, claiming, run, faults>>

PutConfig(c, mode) ==
    /\ mode \in Puts[c] /\ Put(c, mode)
    /\ UserEdit

DeleteConfig(c) ==
    /\ c \in Deletable /\ Delete(c)
    /\ UserEdit

Update(c) ==
    /\ updates[c] < MaxUpdates
    /\ updates' = [updates EXCEPT ![c] = @ + 1]
    /\ UNCHANGED <<registry, now, claiming, run, edits, faults>>

\* A tick ---------------------------------------------------------------------

StartTick(t) ==
    /\ Idle(t)
    /\ now' = [now EXCEPT ![t] = 0] /\ claiming' = [claiming EXCEPT ![t] = TRUE]
    /\ UNCHANGED <<registry, updates, run, edits, faults>>

Claim(t) ==
    /\ claiming[t]
    /\ \E S \in Claims(now[t], MaxJobs) :
          /\ ClaimDue(S, now[t], LeaseMs)
          /\ run' = [run EXCEPT ![t] =
                       [c \in ConfigId |-> IF c \in S
                                           THEN [NoRun EXCEPT !.step = "read", !.mode = config[c]]
                                           ELSE NoRun]]
    /\ claiming' = [claiming EXCEPT ![t] = FALSE]
    /\ UNCHANGED <<updates, now, edits, faults>>

\* A run ----------------------------------------------------------------------

\* cp.read, cp.write: a job without a checkpoint always resumes from 0.
Since(c) == IF c \in Uncheckpointed THEN 0 ELSE cursor[c]

Checkpoint(c, seq) == IF c \in Uncheckpointed THEN UNCHANGED registry ELSE SetCheckpoint(c, seq)

ReadPage(t, c) ==
    /\ run[t][c].step = "read"
    /\ LET full == updates[c] - Since(c) >= BatchSize
       IN  run' = [run EXCEPT ![t][c] =
                     [@ EXCEPT !.step = "write", !.more = full,
                               !.seq = IF full THEN Since(c) + BatchSize ELSE updates[c]]]
    /\ UNCHANGED <<registry, updates, now, claiming, edits, faults>>

WritePage(t, c) ==
    /\ run[t][c].step = "write"
    /\ Checkpoint(c, run[t][c].seq)
    /\ LET page  == run[t][c]
           again == page.more /\ page.batches + 1 < MaxBatches
       IN  run' = [run EXCEPT ![t][c] =
                     [page EXCEPT !.step = IF again THEN "read" ELSE "record",
                                  !.batches = IF again THEN page.batches + 1 ELSE 0]]
    /\ UNCHANGED <<updates, now, claiming, edits, faults>>

EndRun(t, c) ==
    /\ run' = [run EXCEPT ![t][c] = NoRun]
    /\ UNCHANGED <<updates, now, claiming, edits>>

\* Mutant of Finish: a one-shot job is put off like a continuous one.
FinishPolling(t, c) ==
    /\ run[t][c].step = "record"
    /\ RecordResult(c, "pending", IF run[t][c].more THEN now[t] ELSE now[t] + Interval)
    /\ EndRun(t, c)
    /\ UNCHANGED faults

\* more: the wake bound stopped it, run again promptly.
Finish(t, c) ==
    /\ run[t][c].step = "record"
    /\ CASE run[t][c].more                -> RecordResult(c, "pending", now[t])
         [] ~run[t][c].more /\ run[t][c].mode = "continuous"
                                          -> RecordResult(c, "pending", now[t] + Interval)
         [] OTHER                         -> RecordResult(c, "completed", Never)
    /\ EndRun(t, c)
    /\ UNCHANGED faults

\* Any awaited call of the run throws.
Fail(t, c) ==
    /\ Running(t, c) /\ faults < MaxFaults
    /\ faults' = faults + 1
    /\ RecordFailure(c, now[t])
    /\ EndRun(t, c)

\* The worker goes away: rows keep saying "running" until the lease is over.
Crash(t) ==
    /\ ~Idle(t) /\ faults < MaxFaults
    /\ faults' = faults + 1
    /\ claiming' = [claiming EXCEPT ![t] = FALSE]
    /\ run' = [run EXCEPT ![t] = [c \in ConfigId |-> NoRun]]
    /\ UNCHANGED <<registry, updates, now, edits>>

\* Time -----------------------------------------------------------------------

\* The two timing assumptions: a tick does not outlive MaxRun, and a timer
\* that is idle fires before a due job is Horizon late.
Clock ==
    /\ \A t \in Ticker : ~Idle(t) => now[t] > -MaxRun
    /\ \A t \in Ticker : Idle(t) => \A c \in Due(0) : job[c].next_run > Never
    /\ Age
    /\ now' = [t \in Ticker |-> IF Idle(t) THEN 0 ELSE now[t] - 1]
    /\ UNCHANGED <<config, cursor, updates, claiming, run, edits, faults>>

Work(t) ==
    \/ StartTick(t) \/ Claim(t)
    \/ \E c \in ConfigId : ReadPage(t, c) \/ WritePage(t, c) \/ Finish(t, c)

Next ==
    \/ \E c \in ConfigId : DeleteConfig(c) \/ Update(c) \/ \E mode \in Modes : PutConfig(c, mode)
    \/ \E t \in Ticker : Work(t) \/ Crash(t) \/ \E c \in ConfigId : Fail(t, c)
    \/ Clock

Spec == Init /\ [][Next]_vars

\* The timer keeps firing, an awaited call is answered, and time goes by.
FairSpec == Spec /\ WF_vars(Clock) /\ \A t \in Ticker : WF_vars(Work(t))

-----------------------------------------------------------------------------
\* Properties.

\* The rows, the clocks and the awaited calls are what the code can hold.
TypeOK ==
    /\ config \in [ConfigId -> Modes \cup {"absent"}]
    /\ job \in [ConfigId -> [state : JobStates, error_count : 0 .. ErrorCap,
                             next_run : Int, lease_until : Int]]
    /\ cursor \in [ConfigId -> Nat] /\ updates \in [ConfigId -> Nat]
    /\ now \in [Ticker -> -MaxRun .. 0] /\ claiming \in [Ticker -> BOOLEAN]
    /\ run \in [Ticker -> [ConfigId -> [step : Steps, mode : Modes, seq : Nat,
                                        batches : 0 .. MaxBatches, more : BOOLEAN]]]
    /\ edits \in 0 .. MaxEdits /\ faults \in 0 .. MaxFaults

Runners(c) == {t \in Ticker : Running(t, c)}

\* claimDue, runJob: two ticks never run one job at once, however their
\* registry calls interleave with crashes, failures and edits of the config.
NeverTwice(c) == \A t, u \in Runners(c) : t = u
NoDoubleRun   == \A c \in ConfigId : NeverTwice(c)

\* The same for the configs nobody deletes.
KeptRunOnce == \A c \in ConfigId \ Deletable : NeverTwice(c)

\* Why: the row a run was claimed with still holds its lease, and no page
\* under way is behind the cursor or ahead of the source.
LeaseHeld ==
    \A t \in Ticker, c \in ConfigId \ Deletable :
        Running(t, c) => /\ job[c].state = "running"
                         /\ job[c].lease_until = now[t] + LeaseMs

PageInOrder ==
    \A c \in ConfigId \ Deletable :
        /\ cursor[c] <= updates[c]
        /\ \A t \in Runners(c) : run[t][c].step = "write" =>
              Since(c) <= run[t][c].seq /\ run[t][c].seq <= updates[c]

\* setCheckpoint: no run writes a cursor older than one written meanwhile,
\* nor one past what its source has.
CursorAdvances ==
    [][\A c \in ConfigId \ Deletable : cursor'[c] >= cursor[c] /\ cursor'[c] <= updates[c]]_vars

\* recordResult, recordFailure: a lease on a job some tick is running is not
\* released but by that tick.
OwnLease ==
    [][\A t \in Ticker, c \in ConfigId \ Deletable :
          Running(t, c) /\ run'[t][c].step # "none" => job'[c].lease_until > now'[t]]_vars

\* runDueReplications: a continuous job, never deleted and never one-shot,
\* ends up replicating all of its source, through crashes and backoffs.
Drains ==
    \A c \in {d \in ConfigId \ (Deletable \cup Uncheckpointed) : Puts[d] = {"continuous"}} :
        <>[](config[c] = "continuous" => cursor[c] = updates[c])

\* runJob: a one-shot job left in place comes to its end.
OneShotEnds ==
    \A c \in ConfigId : config[c] = "one_shot" ~> (job[c].state = "completed" \/ config[c] # "one_shot")
=============================================================================
