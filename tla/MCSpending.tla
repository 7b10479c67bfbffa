----------------------------- MODULE MCSpending -----------------------------
(***************************************************************************)
(* Who spends on models, each behaviour with one kind: the calls of a run    *)
(* and of a run nested in it, or a goal, whose runs have budgets of their own. *)
(***************************************************************************)
EXTENDS Budget, Goals, TLC

CONSTANTS c1, root, child

VARIABLE instance

Nested == [c \in Calls |-> IF c = c1 THEN Buckets ELSE {root}]

\* The first task waits for the second, and they fit in the budget of the goal only if
\* the second costs less than it may.
Waits == 1 :> {2} @@ 2 :> {}
Worth == 1 :> 1 @@ 2 :> 2

all == <<vars, goalVars, instance>>

EitherInit == Init /\ GoalInit /\ instance \in {"calls", "goal"}

EitherNext ==
    /\ UNCHANGED instance
    /\ \/ instance = "calls" /\ Next /\ UNCHANGED goalVars
       \/ instance = "goal" /\ GoalNext /\ UNCHANGED vars

\* While some call can move, some call does (each makes finitely many steps); and a
\* context ends, which ends a call of a provider and a run.
EitherSpec ==
    /\ EitherInit /\ [][EitherNext]_all
    /\ WF_all(/\ instance = "calls" /\ \E c \in Calls : pc[c] # "new" /\ Step(c)
              /\ UNCHANGED <<goalVars, instance>>)
    /\ \A r \in Presses :
          WF_all(instance = "goal" /\ GoroutineStep(r) /\ UNCHANGED <<vars, instance>>)
=============================================================================
