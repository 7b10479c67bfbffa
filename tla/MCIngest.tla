------------------------------- MODULE MCIngest -------------------------------
(***************************************************************************)
(* Two small instances of Ingest, one in each behaviour: with failing       *)
(* statements, panics and presses of Retry; and without, but with an orderly *)
(* shutdown, where every job must settle.                                   *)
(***************************************************************************)
EXTENDS Ingest

VARIABLE instance

Calm == INSTANCE Ingest WITH Operators <- {}, MaxStops <- 1, MaxRetries <- 0, Faults <- {}

EitherInit ==
    \/ instance = "faulty" /\ Init
    \/ instance = "calm" /\ Calm!Init

EitherNext ==
    \/ instance = "faulty" /\ Next /\ UNCHANGED instance
    \/ instance = "calm" /\ Calm!Next /\ UNCHANGED instance

EitherSpec == EitherInit /\ [][EitherNext]_<<vars, instance>> /\ Calm!Fairness

\* Where statements of the catalog succeed and nothing panics, every job is settled
\* sooner or later: done, or parked, whatever is killed or shut down (Worker.step).
CalmJobsSettle == \A j \in Jobs : (instance = "calm" /\ Has(j)) ~> Terminal(j)
=============================================================================
