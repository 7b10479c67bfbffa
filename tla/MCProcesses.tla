------------------------------ MODULE MCProcesses ------------------------------
(***************************************************************************)
(* Processes that come and go, each behaviour with one kind of them: the     *)
(* workers of the Python pool, the sidecar of a channel, or the gateway      *)
(* itself, which starts again with the schedule that it has on file.         *)
(***************************************************************************)
EXTENDS PythonPool, Sidecar, MissedRuns

VARIABLE instance

all == <<vars, sidecarVars, missedVars, instance>>

EitherInit ==
    /\ Init /\ SidecarInit /\ MissedInit
    /\ instance \in {"pool", "sidecar", "gateway"}

Restarting(A) == instance = "gateway" /\ A /\ UNCHANGED <<vars, sidecarVars, instance>>

EitherNext ==
    \/ instance = "pool" /\ Next /\ UNCHANGED <<sidecarVars, missedVars, instance>>
    \/ instance = "sidecar" /\ SidecarNext /\ UNCHANGED <<vars, missedVars, instance>>
    \/ Restarting(MissedNext)

\* The fairness of PythonPool, of the goroutine that supervises, and of MissedRuns.
Pooled(A) == instance = "pool" /\ A /\ UNCHANGED <<sidecarVars, missedVars, instance>>

EitherSpec ==
    /\ EitherInit /\ [][EitherNext]_all
    /\ \A r \in Runs :
          /\ WF_all(Pooled(Running(r))) /\ WF_all(Pooled(Replacing(r)))
          /\ WF_all(Pooled(EndRun(r))) /\ WF_all(Pooled(Send(r)))
          /\ WF_all(Pooled(Hear(r) /\ \A w \in held[r] : proc[w] # "up"))
    /\ WF_all(instance = "sidecar" /\ Supervise /\ UNCHANGED <<vars, missedVars, instance>>)
    /\ WF_all(Restarting(StartStep))
    /\ \A t \in Threads : WF_all(Restarting(ThreadStep(t)))
=============================================================================
