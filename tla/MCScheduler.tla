----------------------------- MODULE MCScheduler -----------------------------
(* Small instances of Scheduler: kinds of the agents as operators the         *)
(* configurations select, and the interchangeable identities.                 *)
EXTENDS Scheduler, TLC

AllCron == [a \in Agents |-> "cron"]

Identities == Permutations(Threads) \cup Permutations(Handlers) \cup Permutations(Jobs)
=============================================================================
