---------------------------- MODULE MCScheduler ----------------------------
(***************************************************************************)
(* Instances of Scheduler for TLC: two tickers, a job "poll" that stays    *)
(* and polls, and a one-shot job "once" that users delete and put again.   *)
(***************************************************************************)
EXTENDS Scheduler

MCPuts == [c \in ConfigId |-> IF c = "once" THEN {"one_shot"} ELSE {"continuous"}]
=============================================================================
