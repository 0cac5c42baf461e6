--------------------------- MODULE SchedulerProofs ---------------------------
(***************************************************************************)
(* What the scheduler promises for every set of configs and tickers, every *)
(* lease, interval and backoff: its rows keep their types and, when a tick *)
(* ends within its lease, a config nobody deletes is run by one tick at a  *)
(* time and its cursor only moves forward.                                 *)
(***************************************************************************)
EXTENDS Scheduler, TLAPS

Rows == [state : JobStates, error_count : 0 .. ErrorCap, next_run : Int, lease_until : Int]
Runs == [step : Steps, mode : Modes, seq : Nat, batches : 0 .. MaxBatches, more : BOOLEAN]

USE DEF Modes, JobStates, Steps, Never

\* Claimed rows are due rows.
LEMMA ClaimsAreDue ==
    ASSUME NEW n \in Int, NEW S \in Claims(n, MaxJobs)
    PROVE  S \subseteq Due(n) /\ S \subseteq ConfigId
BY DEF Claims, Due

\* A row or a run with some fields replaced is one again.
LEMMA ClaimedRow ==
    ASSUME NEW r \in Rows, NEW l \in Int, NEW n \in Int
    PROVE  [r EXCEPT !.state = "running", !.lease_until = l, !.next_run = n] \in Rows
BY DEF Rows

LEMMA OlderRow ==
    ASSUME NEW r \in Rows, NEW l \in Int, NEW n \in Int
    PROVE  [r EXCEPT !.next_run = n, !.lease_until = l] \in Rows
BY DEF Rows

LEMMA ClaimedRun ==
    ASSUME NEW r \in Runs, NEW m \in Modes
    PROVE  [r EXCEPT !.step = "read", !.mode = m] \in Runs
BY DEF Runs

LEMMA ReadRun ==
    ASSUME NEW r \in Runs, NEW full \in BOOLEAN, NEW n \in Nat
    PROVE  [r EXCEPT !.step = "write", !.more = full, !.seq = n] \in Runs
BY DEF Runs

LEMMA WrittenRun ==
    ASSUME NEW r \in Runs, NEW s \in Steps, NEW n \in 0 .. MaxBatches
    PROVE  [r EXCEPT !.step = s, !.batches = n] \in Runs
BY DEF Runs

LEMMA RunUpdate ==
    ASSUME NEW r \in [Ticker -> [ConfigId -> Runs]], NEW t \in Ticker, NEW c \in ConfigId,
           NEW x \in Runs
    PROVE  [r EXCEPT ![t][c] = x] \in [Ticker -> [ConfigId -> Runs]]
OBVIOUS

\* claimDue's rows are rows again.
LEMMA ClaimDueType ==
    ASSUME RegistryAssumption, SchedulerAssumption, TypeOK,
           NEW t \in Ticker, NEW S, ClaimDue(S, now[t], LeaseMs)
    PROVE  job' \in [ConfigId -> Rows]
<1>1. now[t] \in Int
  BY DEF TypeOK, SchedulerAssumption
<1>2. now[t] + LeaseMs \in Int
  BY <1>1 DEF SchedulerAssumption
<1>3. ASSUME NEW c \in ConfigId PROVE job'[c] \in Rows
  <2> DEFINE next == IF job[c].state = "none" THEN now[t] ELSE job[c].next_run
  <2>1. job[c] \in Rows /\ next \in Int
    BY <1>1 DEF TypeOK, Rows
  <2>2. [job[c] EXCEPT !.state = "running", !.lease_until = now[t] + LeaseMs, !.next_run = next] \in Rows
    BY <1>2, <2>1, ClaimedRow
  <2> QED
    BY <2>1, <2>2 DEF ClaimDue
<1>4. job' = [c \in ConfigId |-> job'[c]]
  BY DEF ClaimDue
<1> QED
  BY <1>3, <1>4

\* The two ways a run is written back.
LEMMA ReleaseType ==
    ASSUME TypeOK, NEW c \in ConfigId, NEW row \in Rows, Release(c, row)
    PROVE  job' \in [ConfigId -> Rows]
BY DEF Release, TypeOK, Rows

LEMMA BackoffType ==
    ASSUME RegistryAssumption, NEW errors
    PROVE  Backoff(errors) \in 0 .. BackoffMax
BY DEF Backoff, RegistryAssumption

LEMMA ResultType ==
    ASSUME RegistryAssumption, TypeOK, NEW c \in ConfigId, NEW s \in JobStates, NEW n \in Int,
           RecordResult(c, s, n)
    PROVE  job' \in [ConfigId -> Rows]
<1>1. [state |-> s, error_count |-> 0, next_run |-> n, lease_until |-> Never] \in Rows
  BY DEF Rows, RegistryAssumption
<1> QED
  BY <1>1, ReleaseType DEF RecordResult

LEMMA FailureType ==
    ASSUME RegistryAssumption, TypeOK, NEW c \in ConfigId, NEW n \in Int, RecordFailure(c, n)
    PROVE  job' \in [ConfigId -> Rows]
<1> DEFINE errors == IF job[c].error_count < ErrorCap THEN job[c].error_count + 1 ELSE ErrorCap
<1>1. errors \in 0 .. ErrorCap
  BY DEF TypeOK, RegistryAssumption
<1>2. n + Backoff(errors) \in Int
  BY BackoffType DEF RegistryAssumption
<1>3. [state |-> "crashing", error_count |-> errors,
       next_run |-> n + Backoff(errors), lease_until |-> Never] \in Rows
  BY <1>1, <1>2 DEF Rows, RegistryAssumption
<1> QED
  BY <1>3, ReleaseType DEF RecordFailure

-----------------------------------------------------------------------------
\* TypeOK is inductive by itself.

LEMMA InitType == ASSUME RegistryAssumption, SchedulerAssumption, Init PROVE TypeOK
BY DEF Init, RegistryInit, TypeOK, NoJob, NoRun, RegistryAssumption, SchedulerAssumption

LEMMA NextType ==
    ASSUME RegistryAssumption, SchedulerAssumption, TypeOK, [Next]_vars
    PROVE  TypeOK'
<1>1. ASSUME NEW c \in ConfigId, DeleteConfig(c) PROVE TypeOK'
  BY <1>1, RegistryAssumption, SchedulerAssumption
  DEF TypeOK, DeleteConfig, Delete, UserEdit, NoJob, RegistryAssumption, SchedulerAssumption
<1>2. ASSUME NEW c \in ConfigId, NEW mode \in Modes, PutConfig(c, mode) PROVE TypeOK'
  BY <1>2, SchedulerAssumption DEF TypeOK, PutConfig, Put, UserEdit, SchedulerAssumption
<1>3. ASSUME NEW c \in ConfigId, Update(c) PROVE TypeOK'
  BY <1>3 DEF TypeOK, Update, registry
<1>4. ASSUME NEW t \in Ticker, StartTick(t) PROVE TypeOK'
  BY <1>4, SchedulerAssumption DEF TypeOK, StartTick, registry, SchedulerAssumption
<1>5. ASSUME NEW t \in Ticker, Claim(t) PROVE TypeOK'
  <2>1. PICK S \in Claims(now[t], MaxJobs) :
           /\ ClaimDue(S, now[t], LeaseMs)
           /\ run' = [run EXCEPT ![t] =
                       [c \in ConfigId |-> IF c \in S
                                           THEN [NoRun EXCEPT !.step = "read", !.mode = config[c]]
                                           ELSE NoRun]]
    BY <1>5 DEF Claim
  <2>2. \A c \in S : config[c] \in Modes
    BY <2>1, ClaimsAreDue DEF Claims, Due, TypeOK
  <2>3. [c \in ConfigId |-> IF c \in S THEN [NoRun EXCEPT !.step = "read", !.mode = config[c]]
                            ELSE NoRun] \in [ConfigId -> Runs]
    <3>1. NoRun \in Runs
      BY SchedulerAssumption DEF NoRun, Runs, SchedulerAssumption
    <3>2. \A c \in S : [NoRun EXCEPT !.step = "read", !.mode = config[c]] \in Runs
      BY <2>2, <3>1, ClaimedRun
    <3> QED
      BY <3>1, <3>2
  <2>4. run' \in [Ticker -> [ConfigId -> Runs]]
    BY <2>1, <2>3 DEF TypeOK, Runs
  <2>5. job' \in [ConfigId -> Rows]
    BY <2>1, ClaimDueType, RegistryAssumption, SchedulerAssumption
  <2>6. UNCHANGED <<config, cursor, updates, now, edits, faults>> /\ claiming' \in [Ticker -> BOOLEAN]
    BY <1>5, <2>1 DEF Claim, ClaimDue, TypeOK
  <2> QED
    BY <2>4, <2>5, <2>6 DEF TypeOK, Rows, Runs
<1>6. ASSUME NEW t \in Ticker, NEW c \in ConfigId, ReadPage(t, c) PROVE TypeOK'
  <2>1. Since(c) \in Nat /\ updates[c] \in Nat /\ Since(c) + BatchSize \in Nat
    BY SchedulerAssumption DEF TypeOK, SchedulerAssumption, Since
  <2> DEFINE full == updates[c] - Since(c) >= BatchSize
             seq == IF full THEN Since(c) + BatchSize ELSE updates[c]
             after == [run[t][c] EXCEPT !.step = "write", !.more = full, !.seq = seq]
  <2>2. run \in [Ticker -> [ConfigId -> Runs]] /\ run[t][c] \in Runs
    BY DEF TypeOK, Runs
  <2>3. after \in Runs
    <3>1. full \in BOOLEAN /\ seq \in Nat
      BY <2>1
    <3> QED
      BY <2>2, <3>1, ReadRun
  <2>4. run' = [run EXCEPT ![t][c] = after]
    BY <1>6 DEF ReadPage
  <2>5. run' \in [Ticker -> [ConfigId -> Runs]]
    <3> HIDE DEF after
    <3> QED
      BY <2>2, <2>3, <2>4, RunUpdate
  <2> QED
    BY <1>6, <2>5 DEF TypeOK, ReadPage, registry, Runs
<1>7. ASSUME NEW t \in Ticker, NEW c \in ConfigId, WritePage(t, c) PROVE TypeOK'
  <2> DEFINE again == run[t][c].more /\ run[t][c].batches + 1 < MaxBatches
             step == IF again THEN "read" ELSE "record"
             batches == IF again THEN run[t][c].batches + 1 ELSE 0
             after == [run[t][c] EXCEPT !.step = step, !.batches = batches]
  <2>1. run \in [Ticker -> [ConfigId -> Runs]] /\ run[t][c] \in Runs
    BY DEF TypeOK, Runs
  <2>2. run' \in [Ticker -> [ConfigId -> Runs]]
    <3>1. step \in Steps /\ batches \in 0 .. MaxBatches
      BY <2>1, SchedulerAssumption DEF Runs, SchedulerAssumption
    <3>2. after \in Runs
      BY <2>1, <3>1, WrittenRun
    <3>3. run' = [run EXCEPT ![t][c] = after]
      BY <1>7 DEF WritePage
    <3> HIDE DEF after
    <3> QED
      BY <2>1, <3>2, <3>3, RunUpdate
  <2>3. cursor' \in [ConfigId -> Nat]
    <3>1. run[t][c].seq \in Nat
      BY <2>1 DEF Runs
    <3> QED
      BY <1>7, <3>1 DEF TypeOK, WritePage, Checkpoint, SetCheckpoint, registry
  <2>4. UNCHANGED <<config, job, updates, now, claiming, edits, faults>>
    BY <1>7 DEF WritePage, Checkpoint, SetCheckpoint, registry
  <2> QED
    BY <2>2, <2>3, <2>4 DEF TypeOK, Runs
<1>8. ASSUME NEW t \in Ticker, NEW c \in ConfigId, Finish(t, c) PROVE TypeOK'
  <2>1. now[t] \in Int /\ now[t] + Interval \in Int
    BY SchedulerAssumption DEF TypeOK, SchedulerAssumption
  <2>2. \E s \in JobStates, n \in Int : RecordResult(c, s, n)
    BY <1>8, <2>1, RegistryAssumption DEF Finish, RegistryAssumption
  <2>3. job' \in [ConfigId -> Rows]
    BY <2>2, ResultType, RegistryAssumption
  <2>4. UNCHANGED <<config, cursor>>
    BY <2>2 DEF RecordResult, Release
  <2>5. run' \in [Ticker -> [ConfigId -> Runs]]
    BY <1>8, SchedulerAssumption DEF Finish, EndRun, TypeOK, NoRun, Runs, SchedulerAssumption
  <2> QED
    BY <1>8, <2>3, <2>4, <2>5 DEF TypeOK, Finish, EndRun, Rows, Runs
<1>9. ASSUME NEW t \in Ticker, NEW c \in ConfigId, Fail(t, c) PROVE TypeOK'
  <2>1. now[t] \in Int
    BY SchedulerAssumption DEF TypeOK, SchedulerAssumption
  <2>2. job' \in [ConfigId -> Rows] /\ UNCHANGED <<config, cursor>>
    BY <1>9, <2>1, FailureType, RegistryAssumption DEF Fail, RecordFailure, Release
  <2>3. run' \in [Ticker -> [ConfigId -> Runs]]
    BY <1>9, SchedulerAssumption DEF Fail, EndRun, TypeOK, NoRun, Runs, SchedulerAssumption
  <2>4. faults' \in 0 .. MaxFaults
    BY <1>9, SchedulerAssumption DEF Fail, TypeOK, SchedulerAssumption
  <2> QED
    BY <1>9, <2>2, <2>3, <2>4 DEF TypeOK, Fail, EndRun, Rows, Runs
<1>10. ASSUME NEW t \in Ticker, Crash(t) PROVE TypeOK'
  BY <1>10, SchedulerAssumption DEF TypeOK, Crash, NoRun, registry, SchedulerAssumption
<1>11. ASSUME Clock PROVE TypeOK'
  <2>1. job' \in [ConfigId -> Rows]
    <3>1. ASSUME NEW c \in ConfigId PROVE job'[c] \in Rows
      <4>1. job[c] \in Rows
        BY DEF TypeOK, Rows
      <4>2. Earlier(job[c].next_run) \in Int /\ Earlier(job[c].lease_until) \in Int
        BY <4>1, RegistryAssumption DEF Earlier, Rows, RegistryAssumption
      <4> QED
        BY <1>11, <4>1, <4>2, OlderRow DEF Clock, Age
    <3>2. job' = [c \in ConfigId |-> job'[c]]
      BY <1>11 DEF Clock, Age
    <3> QED
      BY <3>1, <3>2
  <2>2. now' \in [Ticker -> -MaxRun .. 0]
    BY <1>11, SchedulerAssumption DEF Clock, TypeOK, SchedulerAssumption
  <2> QED
    BY <1>11, <2>1, <2>2 DEF TypeOK, Clock, Rows
<1>12. ASSUME UNCHANGED vars PROVE TypeOK'
  BY <1>12 DEF TypeOK, vars
<1> QED
  BY <1>1, <1>2, <1>3, <1>4, <1>5, <1>6, <1>7, <1>8, <1>9, <1>10, <1>11, <1>12 DEF Next, Work

\* The rows, the clocks and the awaited calls keep to what the code can hold.
THEOREM TypeCorrect == Spec => []TypeOK
<1>1. Init => TypeOK
  BY InitType, RegistryAssumption, SchedulerAssumption
<1>2. TypeOK /\ [Next]_vars => TypeOK'
  BY NextType, RegistryAssumption, SchedulerAssumption
<1> QED
  BY <1>1, <1>2, PTL DEF Spec

-----------------------------------------------------------------------------
\* One tick at a time: the lease a run was claimed under outlasts it.

Exclusive == TypeOK /\ KeptRunOnce /\ LeaseHeld

\* Nothing with a run under way is due, however late the claim.
LEMMA RunningNotDue ==
    ASSUME MaxRun < LeaseMs, SchedulerAssumption, Exclusive,
           NEW t \in Ticker, NEW u \in Ticker, NEW c \in ConfigId \ Deletable, Running(u, c)
    PROVE  c \notin Due(now[t])
<1>1. job[c].state = "running" /\ job[c].lease_until = now[u] + LeaseMs
  BY DEF Exclusive, LeaseHeld
<1>2. now[t] \in -MaxRun .. 0 /\ now[u] \in -MaxRun .. 0
  BY DEF Exclusive, TypeOK
<1>3. ~(job[c].lease_until <= now[t])
  BY <1>1, <1>2 DEF SchedulerAssumption
<1> QED
  BY <1>1, <1>3 DEF Due

\* What writing a run back leaves alone.
LEMMA ReleaseOther ==
    ASSUME TypeOK, NEW c \in ConfigId, NEW row, Release(c, row), NEW d \in ConfigId, d # c
    PROVE  job'[d] = job[d]
BY DEF Release, TypeOK

LEMMA EndRunKeeps ==
    ASSUME TypeOK, NEW t \in Ticker, NEW c \in ConfigId, EndRun(t, c)
    PROVE  /\ ~Running(t, c)'
           /\ \A u \in Ticker, d \in ConfigId :
                 Running(u, d)' => /\ Running(u, d) /\ run'[u][d] = run[u][d]
                                   /\ u # t \/ d # c
BY DEF EndRun, TypeOK, Running, NoRun

\* Ending a run, with its row written back, keeps the others' leases.
LEMMA EndRunExclusive ==
    ASSUME Exclusive, NEW t \in Ticker, NEW c \in ConfigId, Running(t, c), EndRun(t, c),
           NEW row, Release(c, row)
    PROVE  KeptRunOnce' /\ LeaseHeld'
<1>1. TypeOK
  BY DEF Exclusive
<1>2. KeptRunOnce'
  BY <1>1, EndRunKeeps DEF Exclusive, KeptRunOnce, NeverTwice, Runners
<1>3. ASSUME NEW u \in Ticker, NEW d \in ConfigId \ Deletable, Running(u, d)'
      PROVE  job'[d].state = "running" /\ job'[d].lease_until = now'[u] + LeaseMs
  <2>1. Running(u, d) /\ (u # t \/ d # c)
    BY <1>1, <1>3, EndRunKeeps
  <2>2. d # c
    BY <2>1 DEF Exclusive, KeptRunOnce, NeverTwice, Runners
  <2>3. job'[d] = job[d] /\ now' = now
    BY <1>1, <2>2, ReleaseOther DEF EndRun
  <2> QED
    BY <2>1, <2>3 DEF Exclusive, LeaseHeld
<1> QED
  BY <1>2, <1>3 DEF LeaseHeld

\* A step that starts no run and leaves rows, clocks alone keeps the leases.
LEMMA QuietStep ==
    ASSUME Exclusive,
           \A u \in Ticker, d \in ConfigId \ Deletable :
               Running(u, d)' => /\ Running(u, d)
                                 /\ job'[d] = job[d] /\ now'[u] = now[u]
    PROVE  KeptRunOnce' /\ LeaseHeld'
BY DEF Exclusive, KeptRunOnce, NeverTwice, Runners, LeaseHeld

LEMMA NextExclusive ==
    ASSUME MaxRun < LeaseMs, RegistryAssumption, SchedulerAssumption, Exclusive, [Next]_vars
    PROVE  KeptRunOnce' /\ LeaseHeld'
<1>0. TypeOK
  BY DEF Exclusive
<1>1. ASSUME NEW c \in ConfigId, DeleteConfig(c) PROVE KeptRunOnce' /\ LeaseHeld'
  BY <1>0, <1>1, QuietStep DEF DeleteConfig, Delete, UserEdit, Running, TypeOK
<1>2. ASSUME NEW c \in ConfigId, NEW mode \in Modes, PutConfig(c, mode)
      PROVE  KeptRunOnce' /\ LeaseHeld'
  BY <1>2, QuietStep DEF PutConfig, Put, UserEdit, Running
<1>3. ASSUME NEW c \in ConfigId, Update(c) PROVE KeptRunOnce' /\ LeaseHeld'
  BY <1>3, QuietStep DEF Update, registry, Running
<1>4. ASSUME NEW t \in Ticker, StartTick(t) PROVE KeptRunOnce' /\ LeaseHeld'
  <2>1. \A d \in ConfigId : ~Running(t, d)'
    BY <1>4 DEF StartTick, Idle, Running
  <2>2. \A u \in Ticker : u # t => now'[u] = now[u]
    BY <1>0, <1>4 DEF StartTick, TypeOK
  <2> QED
    BY <1>4, <2>1, <2>2, QuietStep DEF StartTick, registry, Running
<1>5. ASSUME NEW t \in Ticker, Claim(t) PROVE KeptRunOnce' /\ LeaseHeld'
  <2>1. PICK S \in Claims(now[t], MaxJobs) :
           /\ ClaimDue(S, now[t], LeaseMs)
           /\ run' = [run EXCEPT ![t] =
                       [c \in ConfigId |-> IF c \in S
                                           THEN [NoRun EXCEPT !.step = "read", !.mode = config[c]]
                                           ELSE NoRun]]
    BY <1>5 DEF Claim
  <2>2. S \subseteq Due(now[t]) /\ now' = now
    BY <1>5, <2>1 DEF Claims, Claim
  <2>3. \A d \in ConfigId : Running(t, d)' => d \in S
    BY <1>0, <2>1 DEF Running, NoRun, TypeOK
  <2>4. \A u \in Ticker, d \in ConfigId : u # t /\ Running(u, d)' => Running(u, d)
    BY <1>0, <2>1 DEF Running, TypeOK
  <2>5. \A u \in Ticker, d \in ConfigId \ Deletable : u # t /\ Running(u, d)' => d \notin S
    BY <2>2, <2>4, RunningNotDue, SchedulerAssumption
  <2>6. KeptRunOnce'
    BY <1>0, <2>3, <2>4, <2>5 DEF Exclusive, KeptRunOnce, NeverTwice, Runners
  <2>7. ASSUME NEW u \in Ticker, NEW d \in ConfigId \ Deletable, Running(u, d)'
        PROVE  job'[d].state = "running" /\ job'[d].lease_until = now'[u] + LeaseMs
    <3>1. CASE u = t
      <4>1. d \in S /\ job[d] \in Rows
        BY <1>0, <2>3, <2>7, <3>1 DEF TypeOK, Rows
      <4> QED
        BY <2>1, <2>2, <3>1, <4>1 DEF ClaimDue, Rows
    <3>2. CASE u # t
      <4>1. Running(u, d) /\ job'[d] = job[d]
        BY <2>1, <2>4, <2>5, <2>7, <3>2 DEF ClaimDue
      <4> QED
        BY <2>2, <4>1 DEF Exclusive, LeaseHeld
    <3> QED
      BY <3>1, <3>2
  <2> QED
    BY <2>6, <2>7 DEF LeaseHeld
<1>6. ASSUME NEW t \in Ticker, NEW c \in ConfigId, ReadPage(t, c) PROVE KeptRunOnce' /\ LeaseHeld'
  <2>1. \A u \in Ticker, d \in ConfigId : Running(u, d)' => Running(u, d)
    BY <1>0, <1>6 DEF ReadPage, Running, TypeOK
  <2> QED
    BY <1>6, <2>1, QuietStep DEF ReadPage, registry
<1>7. ASSUME NEW t \in Ticker, NEW c \in ConfigId, WritePage(t, c) PROVE KeptRunOnce' /\ LeaseHeld'
  <2>1. \A u \in Ticker, d \in ConfigId : Running(u, d)' => Running(u, d)
    BY <1>0, <1>7 DEF WritePage, Running, TypeOK
  <2> QED
    BY <1>7, <2>1, QuietStep DEF WritePage, Checkpoint, SetCheckpoint, registry
<1>8. ASSUME NEW t \in Ticker, NEW c \in ConfigId, Finish(t, c) PROVE KeptRunOnce' /\ LeaseHeld'
  <2>1. Running(t, c) /\ EndRun(t, c)
    BY <1>8 DEF Finish, Running
  <2>2. \E row : Release(c, row)
    BY <1>8 DEF Finish, RecordResult
  <2> QED
    BY <2>1, <2>2, EndRunExclusive
<1>9. ASSUME NEW t \in Ticker, NEW c \in ConfigId, Fail(t, c) PROVE KeptRunOnce' /\ LeaseHeld'
  <2>1. \E row : Release(c, row)
    BY <1>9 DEF Fail, RecordFailure
  <2> QED
    BY <1>9, <2>1, EndRunExclusive DEF Fail
<1>10. ASSUME NEW t \in Ticker, Crash(t) PROVE KeptRunOnce' /\ LeaseHeld'
  <2>1. \A u \in Ticker, d \in ConfigId : Running(u, d)' => Running(u, d)
    BY <1>0, <1>10 DEF Crash, Running, NoRun, TypeOK
  <2> QED
    BY <1>10, <2>1, QuietStep DEF Crash, registry
<1>11. ASSUME Clock PROVE KeptRunOnce' /\ LeaseHeld'
  <2>1. KeptRunOnce'
    BY <1>11 DEF Clock, Exclusive, KeptRunOnce, NeverTwice, Runners, Running
  <2>2. ASSUME NEW u \in Ticker, NEW d \in ConfigId \ Deletable, Running(u, d)'
        PROVE  job'[d].state = "running" /\ job'[d].lease_until = now'[u] + LeaseMs
    <3>1. Running(u, d) /\ ~Idle(u)
      BY <1>11, <2>2 DEF Clock, Running, Idle
    <3>2. job[d].state = "running" /\ job[d].lease_until = now[u] + LeaseMs
      BY <3>1 DEF Exclusive, LeaseHeld
    <3>3. now[u] \in -MaxRun .. 0 /\ now[u] > -MaxRun /\ now'[u] = now[u] - 1
      BY <1>0, <1>11, <3>1 DEF Clock, TypeOK
    <3>4. job[d] \in Rows /\ job'[d] = [job[d] EXCEPT !.next_run = Earlier(@), !.lease_until = Earlier(@)]
      BY <1>0, <1>11 DEF Clock, Age, TypeOK, Rows
    <3>5. Earlier(job[d].lease_until) = now[u] + LeaseMs - 1
      BY <3>2, <3>3, SchedulerAssumption, RegistryAssumption
      DEF Earlier, SchedulerAssumption, RegistryAssumption
    <3>6. job'[d].state = job[d].state /\ job'[d].lease_until = Earlier(job[d].lease_until)
      BY <3>4 DEF Rows
    <3> QED
      BY <3>2, <3>3, <3>5, <3>6, SchedulerAssumption DEF SchedulerAssumption
  <2> QED
    BY <2>1, <2>2 DEF LeaseHeld
<1>12. ASSUME UNCHANGED vars PROVE KeptRunOnce' /\ LeaseHeld'
  BY <1>12, QuietStep DEF vars, Running
<1> QED
  BY <1>1, <1>2, <1>3, <1>4, <1>5, <1>6, <1>7, <1>8, <1>9, <1>10, <1>11, <1>12 DEF Next, Work

\* When every tick ends within its lease, no two ticks run a config that
\* nobody deletes.
THEOREM RunOnce ==
    ASSUME MaxRun < LeaseMs
    PROVE  Spec => []KeptRunOnce
<1>1. Init => Exclusive
  BY InitType, RegistryAssumption, SchedulerAssumption
  DEF Exclusive, KeptRunOnce, NeverTwice, Runners, Running, LeaseHeld, Init, NoRun
<1>2. Exclusive /\ [Next]_vars => Exclusive'
  BY NextType, NextExclusive, RegistryAssumption, SchedulerAssumption DEF Exclusive
<1>3. Exclusive => KeptRunOnce
  BY DEF Exclusive
<1> QED
  BY <1>1, <1>2, <1>3, PTL DEF Spec

-----------------------------------------------------------------------------
\* Because runs do not overlap, cursors only move forward.

\* A step that moves no cursor and no page under way, and loses no update.
LEMMA PagesKept ==
    ASSUME TypeOK, PageInOrder, cursor' = cursor,
           \A d \in ConfigId : updates'[d] \in Nat /\ updates[d] <= updates'[d],
           \A u \in Ticker, d \in ConfigId \ Deletable :
               Running(u, d)' /\ run'[u][d].step = "write" =>
                   Running(u, d) /\ run'[u][d] = run[u][d]
    PROVE  PageInOrder'
<1>1. ASSUME NEW d \in ConfigId \ Deletable
      PROVE  /\ cursor'[d] <= updates'[d]
             /\ \A u \in Runners(d)' : run'[u][d].step = "write" =>
                   Since(d)' <= run'[u][d].seq /\ run'[u][d].seq <= updates'[d]
  <2>1. cursor[d] \in Nat /\ updates[d] \in Nat /\ cursor[d] <= updates[d]
    BY DEF TypeOK, PageInOrder
  <2>2. ASSUME NEW u \in Ticker, Running(u, d)', run'[u][d].step = "write"
        PROVE  Since(d)' <= run'[u][d].seq /\ run'[u][d].seq <= updates'[d]
    <3>1. Running(u, d) /\ run'[u][d] = run[u][d] /\ run[u][d].seq \in Nat
      BY <2>2 DEF TypeOK
    <3>2. Since(d) <= run[u][d].seq /\ run[u][d].seq <= updates[d]
      BY <2>2, <3>1 DEF PageInOrder, Runners
    <3>3. Since(d)' = Since(d) /\ Since(d) \in Nat
      BY <2>1 DEF Since
    <3> QED
      BY <2>1, <3>1, <3>2, <3>3
  <2> QED
    BY <2>1, <2>2 DEF Runners
<1> QED
  BY <1>1 DEF PageInOrder

LEMMA NextPages ==
    ASSUME RegistryAssumption, SchedulerAssumption, Exclusive, PageInOrder, [Next]_vars
    PROVE  /\ PageInOrder'
           /\ \A d \in ConfigId \ Deletable : cursor'[d] >= cursor[d] /\ cursor'[d] <= updates[d]
<1> DEFINE Forward == \A d \in ConfigId \ Deletable : cursor'[d] >= cursor[d] /\ cursor'[d] <= updates[d]
<1>0. TypeOK
  BY DEF Exclusive
<1>a. cursor' = cursor => Forward
  BY <1>0 DEF TypeOK, PageInOrder
<1>b. \A d \in ConfigId : updates[d] \in Nat
  BY <1>0 DEF TypeOK
<1>1. ASSUME UNCHANGED <<cursor, updates, run>> PROVE PageInOrder' /\ Forward
  BY <1>0, <1>1, <1>a, <1>b, PagesKept DEF Running
<1>2. ASSUME NEW c \in ConfigId, Update(c) PROVE PageInOrder' /\ Forward
  <2>1. cursor' = cursor /\ run' = run
    BY <1>2 DEF Update, registry
  <2>2. \A d \in ConfigId : updates'[d] \in Nat /\ updates[d] <= updates'[d]
    BY <1>0, <1>2 DEF Update, TypeOK
  <2> QED
    BY <1>0, <1>a, <2>1, <2>2, PagesKept DEF Running
<1>3. ASSUME NEW t \in Ticker, Claim(t) PROVE PageInOrder' /\ Forward
  <2>1. cursor' = cursor /\ updates' = updates
    BY <1>3 DEF Claim, ClaimDue
  <2>2. ASSUME NEW u \in Ticker, NEW d \in ConfigId, run'[u][d].step = "write"
        PROVE  run'[u][d] = run[u][d]
    <3>1. PICK S : run' = [run EXCEPT ![t] =
                             [c \in ConfigId |-> IF c \in S
                                THEN [NoRun EXCEPT !.step = "read", !.mode = config[c]] ELSE NoRun]]
      BY <1>3 DEF Claim
    <3>2. u = t => run'[u][d] = IF d \in S
                                THEN [NoRun EXCEPT !.step = "read", !.mode = config[d]] ELSE NoRun
      BY <1>0, <3>1 DEF TypeOK
    <3>3. NoRun.step = "none" /\ \A m : [NoRun EXCEPT !.step = "read", !.mode = m].step = "read"
      BY DEF NoRun
    <3>4. u # t
      <4>1. CASE u = t /\ d \in S
        BY <2>2, <3>2, <3>3, <4>1
      <4>2. CASE u = t /\ d \notin S
        BY <2>2, <3>2, <3>3, <4>2
      <4> QED
        BY <4>1, <4>2
    <3> QED
      BY <1>0, <3>1, <3>4 DEF TypeOK
  <2> QED
    BY <1>0, <1>a, <1>b, <2>1, <2>2, PagesKept DEF Running
<1>4. ASSUME NEW t \in Ticker, NEW c \in ConfigId, ReadPage(t, c) PROVE PageInOrder' /\ Forward
  <2>1. cursor' = cursor /\ updates' = updates
    BY <1>4 DEF ReadPage, registry
  <2>2. cursor[c] \in Nat /\ updates[c] \in Nat /\ run[t][c] \in Runs
    BY <1>0 DEF TypeOK, Runs
  <2>3. \A u \in Ticker, d \in ConfigId : u # t \/ d # c => run'[u][d] = run[u][d]
    BY <1>0, <1>4 DEF ReadPage, TypeOK
  <2>4. run'[t][c].seq = IF updates[c] - Since(c) >= BatchSize THEN Since(c) + BatchSize ELSE updates[c]
    BY <1>0, <1>4 DEF ReadPage, TypeOK
  <2>5. c \notin Deletable => Since(c) <= run'[t][c].seq /\ run'[t][c].seq <= updates[c]
    BY <2>2, <2>4, SchedulerAssumption DEF PageInOrder, SchedulerAssumption, Since
  <2>6. PageInOrder'
    <3>1. \A d \in ConfigId : Since(d)' = Since(d)
      BY <2>1 DEF Since
    <3> QED
      BY <2>1, <2>3, <2>5, <3>1 DEF PageInOrder, Runners, Running
  <2> QED
    BY <1>a, <2>1, <2>6
<1>5. ASSUME NEW t \in Ticker, NEW c \in ConfigId, WritePage(t, c) PROVE PageInOrder' /\ Forward
  <2>1. updates' = updates
    BY <1>5 DEF WritePage
  <2>2. Running(t, c) /\ run[t][c].step = "write"
    BY <1>5 DEF WritePage, Running
  <2>3. \A u \in Ticker, d \in ConfigId : u # t \/ d # c => run'[u][d] = run[u][d]
    BY <1>0, <1>5 DEF WritePage, TypeOK
  <2>4. run'[t][c].step # "write"
    BY <1>0, <1>5 DEF WritePage, TypeOK
  <2>5. CASE c \in Uncheckpointed
    <3>1. cursor' = cursor
      BY <1>5, <2>5 DEF WritePage, Checkpoint, registry
    <3>2. PageInOrder'
      <4>1. \A u \in Ticker, d \in ConfigId \ Deletable :
                Running(u, d)' /\ run'[u][d].step = "write" =>
                    Running(u, d) /\ run'[u][d] = run[u][d]
        BY <2>3, <2>4 DEF Running
      <4> QED
        BY <1>0, <1>b, <2>1, <3>1, <4>1, PagesKept
    <3> QED
      BY <1>a, <3>1, <3>2
  <2>6. CASE c \notin Uncheckpointed
    <3>1. cursor' = [cursor EXCEPT ![c] = run[t][c].seq]
      BY <1>5, <2>6 DEF WritePage, Checkpoint, SetCheckpoint
    <3>2. ASSUME NEW d \in ConfigId \ Deletable
          PROVE  /\ cursor'[d] >= cursor[d] /\ cursor'[d] <= updates[d]
                 /\ \A u \in Runners(d)' : run'[u][d].step = "write" =>
                       Since(d)' <= run'[u][d].seq /\ run'[u][d].seq <= updates'[d]
      <4>1. CASE d # c
        <5>1. cursor'[d] = cursor[d] /\ cursor[d] \in Nat
          BY <1>0, <3>1, <4>1 DEF TypeOK
        <5>2. \A u \in Ticker : run'[u][d] = run[u][d]
          BY <2>3, <4>1
        <5>3. Since(d)' = Since(d)
          BY <5>1 DEF Since
        <5> QED
          BY <2>1, <5>1, <5>2, <5>3 DEF PageInOrder, Runners, Running
      <4>2. CASE d = c
        <5>1. cursor'[d] = run[t][c].seq
          BY <1>0, <3>1, <4>2 DEF TypeOK
        <5>2. cursor[d] <= run[t][c].seq /\ run[t][c].seq <= updates[d]
          BY <2>2, <2>6, <4>2 DEF PageInOrder, Runners, Since
        <5>3. \A u \in Ticker : Running(u, d) => u = t
          BY <2>2, <4>2 DEF Exclusive, KeptRunOnce, NeverTwice, Runners
        <5>4. \A u \in Runners(d)' : run'[u][d].step # "write"
          BY <2>3, <2>4, <4>2, <5>3 DEF Runners, Running
        <5>5. cursor[d] \in Nat /\ run[t][c].seq \in Nat
          BY <1>0 DEF TypeOK
        <5> QED
          BY <5>1, <5>2, <5>4, <5>5
      <4> QED
        BY <4>1, <4>2
    <3> QED
      BY <2>1, <3>2 DEF PageInOrder
  <2> QED
    BY <2>5, <2>6
<1>6. ASSUME NEW t \in Ticker, NEW c \in ConfigId, EndRun(t, c), UNCHANGED cursor
      PROVE  PageInOrder' /\ Forward
  <2>1. updates' = updates
    BY <1>6 DEF EndRun
  <2> QED
    BY <1>0, <1>6, <1>a, <1>b, <2>1, EndRunKeeps, PagesKept
<1>7. ASSUME NEW t \in Ticker, Crash(t) PROVE PageInOrder' /\ Forward
  <2>1. cursor' = cursor /\ updates' = updates
    BY <1>7 DEF Crash, registry
  <2>2. \A u \in Ticker, d \in ConfigId : run'[u][d].step = "write" => run'[u][d] = run[u][d]
    BY <1>0, <1>7 DEF Crash, NoRun, TypeOK
  <2> QED
    BY <1>0, <1>a, <1>b, <2>1, <2>2, PagesKept DEF Running
<1>8. \A c \in ConfigId : DeleteConfig(c) => UNCHANGED <<cursor, updates, run>>
  BY DEF DeleteConfig, Delete, UserEdit
<1>9. \A c \in ConfigId, mode \in Modes : PutConfig(c, mode) => UNCHANGED <<cursor, updates, run>>
  BY DEF PutConfig, Put, UserEdit
<1>10. \A t \in Ticker : StartTick(t) => UNCHANGED <<cursor, updates, run>>
  BY DEF StartTick, registry
<1>11. Clock \/ UNCHANGED vars => UNCHANGED <<cursor, updates, run>>
  BY DEF Clock, vars
<1>12. \A t \in Ticker, c \in ConfigId : Finish(t, c) => EndRun(t, c) /\ UNCHANGED cursor
  BY DEF Finish, RecordResult, Release
<1>13. \A t \in Ticker, c \in ConfigId : Fail(t, c) => EndRun(t, c) /\ UNCHANGED cursor
  BY DEF Fail, RecordFailure, Release
<1> HIDE DEF Forward
<1>14. PageInOrder' /\ Forward
  BY <1>1, <1>2, <1>3, <1>4, <1>5, <1>6, <1>7, <1>8, <1>9, <1>10, <1>11, <1>12, <1>13 DEF Next, Work
<1> QED
  BY <1>14 DEF Forward

\* When every tick ends within its lease, no cursor of a config that nobody
\* deletes goes back, or past what its source has.
THEOREM CursorForward ==
    ASSUME MaxRun < LeaseMs
    PROVE  Spec => CursorAdvances
<1> DEFINE Ordered == Exclusive /\ PageInOrder
           Forward == \A c \in ConfigId \ Deletable : cursor'[c] >= cursor[c] /\ cursor'[c] <= updates[c]
<1>1. Init => Ordered
  BY InitType, RegistryAssumption, SchedulerAssumption
  DEF Exclusive, KeptRunOnce, NeverTwice, Runners, Running, LeaseHeld, PageInOrder,
      Init, RegistryInit, NoRun
<1>2. Ordered /\ [Next]_vars => Ordered' /\ Forward
  BY NextType, NextExclusive, NextPages, RegistryAssumption, SchedulerAssumption DEF Exclusive
<1>3. Ordered /\ [Next]_vars => Ordered' /\ [Forward]_vars
  BY <1>2
<1> QED
  BY <1>1, <1>3, PTL DEF Spec, CursorAdvances

\* When every tick ends within its lease, the lease of a run is never let
\* go of by another tick.
THEOREM LeaseIsOwn ==
    ASSUME MaxRun < LeaseMs
    PROVE  Spec => OwnLease
<1> DEFINE Own == \A t \in Ticker, c \in ConfigId \ Deletable :
                    Running(t, c) /\ run'[t][c].step # "none" => job'[c].lease_until > now'[t]
<1>1. Init => Exclusive
  BY InitType, RegistryAssumption, SchedulerAssumption
  DEF Exclusive, KeptRunOnce, NeverTwice, Runners, Running, LeaseHeld, Init, NoRun
<1>2. ASSUME Exclusive, [Next]_vars PROVE Exclusive' /\ Own
  <2>1. Exclusive'
    BY <1>2, NextType, NextExclusive, RegistryAssumption, SchedulerAssumption DEF Exclusive
  <2>2. Own
    BY <2>1, SchedulerAssumption
    DEF Exclusive, LeaseHeld, Running, TypeOK, SchedulerAssumption
  <2> QED
    BY <2>1, <2>2
<1>3. Exclusive /\ [Next]_vars => Exclusive' /\ [Own]_vars
  BY <1>2
<1> QED
  BY <1>1, <1>3, PTL DEF Spec, OwnLease
=============================================================================
