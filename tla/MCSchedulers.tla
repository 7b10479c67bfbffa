----------------------------- MODULE MCSchedulers -----------------------------
(***************************************************************************)
(* Four small instances of Scheduler, one in each behaviour: two goroutines *)
(* and a handler race for the runs of a cron agent; two handlers register    *)
(* one agent; agents are reloaded while their files are edited; a one-shot   *)
(* comes due while a handler switches its agent.  They share the agents,     *)
(* goroutines and jobs, so that a property is the same in each of them; the  *)
(* agents and goroutines that an instance does not need stay away.           *)
(***************************************************************************)
EXTENDS Scheduler

CONSTANTS a1, o1, t1, t2, h1, h2, r1

VARIABLE instance

Kinds == [a \in Agents |-> IF a = o1 THEN "oneshot" ELSE "cron"]

Doubled == INSTANCE Scheduler WITH Failures <- {}
Edited == INSTANCE Scheduler WITH EditedFiles <- Agents, Failures <- {"schedule"}
Single == INSTANCE Scheduler WITH Surfaces <- BOOLEAN, Failures <- {"schedule"}

\* Whose definitions an instance has.
Cast(i) == CASE i = "reload" -> {a1, o1} [] i = "one-shot" -> {o1} [] OTHER -> {a1}

\* While files are edited only the cron agent's schedule may fail to parse; that of the
\* one-shot does in an instance of its own, where it matters: in a definition that is on.
Parses(d) == d # None => d.valid
OddsMatter(d) == Parses(d) \/ OnSchedule(d)

EachInit ==
    /\ \/ instance = "fires" /\ Init /\ jobs[3] = None
       \/ instance = "writers" /\ Doubled!Init
       \/ instance = "reload" /\ Edited!Init /\ Parses(disk[o1])
       \/ instance = "one-shot" /\ Single!Init /\ OddsMatter(disk[o1]) /\ jobs[3] = None
    /\ \A a \in Agents \ Cast(instance) : disk[a] = None

\* Entries are interchangeable, so a new one may as well be the least that is fresh.
LeastIsNew ==
    \A i, j \in Jobs : jobs[j] = None /\ jobs'[j] # None /\ i < j => ~FreshJob(i)

Rests(w) == wr'[w] = wr[w]
NoReload == UNCHANGED rl /\ Rests(r1)

EachNext ==
    /\ UNCHANGED instance
    /\ \/ instance = "fires" /\ Next /\ Rests(h2) /\ NoReload /\ jobs'[3] = None
       \/ instance = "writers" /\ Doubled!Next /\ UNCHANGED th /\ NoReload /\ LeastIsNew
       \/ instance = "reload" /\ Edited!Next /\ UNCHANGED th /\ Rests(h1) /\ Rests(h2)
          /\ Parses(disk'[o1])
       \/ /\ instance = "one-shot" /\ Single!Next /\ th'[t2] = th[t2]
          /\ Rests(h2) /\ NoReload /\ jobs'[3] = None /\ OddsMatter(wr'[h1].def)
    /\ \A h \in Handlers : wr'[h].agent \in Cast(instance) \cup {None}

\* Scheduler's fairness, for the one-shot.
all == <<vars, instance>>
Goes(A) == instance = "one-shot" /\ A /\ UNCHANGED instance

EachSpec ==
    /\ EachInit /\ [][EachNext]_all
    /\ WF_all(Goes(ThreadStep(t1)))
    /\ WF_all(Goes(RegisterStep(h1) /\ jobs'[3] = None))
    /\ WF_all(Goes(Single!HandlerStep(h1)))
    /\ SF_all(Goes(\E j \in Jobs : handle[o1] = j /\ TimerDue(t1, j)))

-----------------------------------------------------------------------------
\* Once a reload is over, the agents in the cron table are those the definitions
\* schedule, at whatever moment of it the file was edited (Watcher.reload).
TableFollows == instance = "reload" => TableMatchesDefinitions

\* The run lock of a one-shot is released, on every path of fireAt.
LockReleased == (instance = "one-shot" /\ o1 \in running) ~> o1 \notin running

=============================================================================
