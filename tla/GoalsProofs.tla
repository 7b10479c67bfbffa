------------------------------ MODULE GoalsProofs ------------------------------
(***************************************************************************)
(* Proofs about a goal and its tasks (module Goals): the invariant is built *)
(* in layers, each of which rests on those before it.                       *)
(***************************************************************************)
EXTENDS Goals, TLAPS

-----------------------------------------------------------------------------
(* What the actions do that only move a goroutine on.                        *)

Moves(r) ==
    \/ Loop(r) \/ Admit(r) \/ Reread(r) \/ Prepare(r) \/ Turned(r) \/ Admitted(r)
    \/ Resolve(r) \/ Answered(r) \/ Failed(r)

\* Such an action leads from one stage to another and touches nothing else; a run is
\* handled only if nobody has frozen its agent (Resolve).
LEMMA MovesOnly ==
  ASSUME NEW r \in Presses, Moves(r)
  PROVE  /\ UNCHANGED <<tables, hand, contexts, others, begun, upset>>
         /\ \E to \in Executing :
              /\ at' = [at EXCEPT ![r] = to]
              /\ \/ at[r] = "loop" /\ to \in {"ask", "tail"}
                 \/ at[r] = "admit" /\ to \in {"reserve", "refuse"}
                 \/ at[r] = "reread" /\ to \in {"prepare", "refuse"}
                 \/ at[r] = "prepare" /\ to \in {"engine", "settle"}
                 \/ at[r] = "engine" /\ to \in {"claim", "settle"}
                 \/ at[r] = "claim" /\ to = "settle"
                 \/ at[r] = "resolve" /\ (to = "stopped" \/ (to = "handle" /\ ~frozen))
                 \/ at[r] \in {"handle", "work"} /\ to \in {"worked", "stopped"}
<1> USE DEF Steps, Goes, Executing
<1>1. CASE Loop(r)
  BY <1>1 DEF Loop
<1>2. CASE Admit(r)
  BY <1>2 DEF Admit
<1>3. CASE Reread(r)
  BY <1>3 DEF Reread
<1>4. CASE Prepare(r)
  BY <1>4 DEF Prepare
<1>5. CASE Turned(r)
  BY <1>5 DEF Turned
<1>6. CASE Admitted(r)
  BY <1>6 DEF Admitted
<1>7. CASE Resolve(r)
  BY <1>7 DEF Resolve
<1>8. CASE Answered(r)
  BY <1>8 DEF Answered
<1>9. CASE Failed(r)
  BY <1>9 DEF Failed
<1>10. QED
  BY <1>1, <1>2, <1>3, <1>4, <1>5, <1>6, <1>7, <1>8, <1>9 DEF Moves

-----------------------------------------------------------------------------
(* Types.  What a goroutine has in hand is a task.                           *)

InHand == {"admit", "reserve", "reread", "prepare", "engine", "claim", "activate", "resolve",
    "handle", "work", "worked", "stopped", "settle"}

Held == \A r \in Presses : at[r] \in InHand => hand[r] \in Tasks

TypeInv == GoalTypeOK /\ Held

LEMMA InHandIsTask ==
  ASSUME TypeInv, NEW r \in Presses, at[r] \in InHand
  PROVE  hand[r] \in Tasks /\ TaskBudget[hand[r]] \in 0..GoalBudget /\ GoalBudget \in Nat
<1>1. hand[r] \in Tasks
  BY DEF TypeInv, Held
<1>2. QED
  BY <1>1, TaskBudgetAssumption

LEMMA TypeInit == GoalInit => TypeInv
<1> SUFFICES ASSUME GoalInit PROVE TypeInv
  OBVIOUS
<1> USE DEF GoalInit
<1>1. Held
  BY DEF Held, InHand
<1>2. proof \in [Tasks -> {"none", "good", "bad"}]
  OBVIOUS
<1>3. /\ task \in [Tasks -> {"pending"}] /\ run \in [Tasks -> {"none"}]
      /\ at \in [Presses -> {"new"}] /\ hand \in [Presses -> {0}]
      /\ asked \in [Requests -> {"new"}] /\ begun \in [Tasks -> {0}]
  OBVIOUS
<1>4. restarts \in 0..MaxRestarts /\ spent \in Nat /\ reserved \in Nat
  BY MaxRestartsAssumption
<1>5. frozen \in BOOLEAN /\ upset \subseteq {"crash", "fault", "gap"}
  OBVIOUS
<1>6. GoalTypeOK
  BY <1>2, <1>3, <1>4, <1>5 DEF GoalTypeOK
<1>7. QED
  BY <1>1, <1>6 DEF TypeInv

LEMMA TypeStep == TypeInv /\ [GoalNext]_goalVars => TypeInv'
<1> SUFFICES ASSUME TypeInv, [GoalNext]_goalVars PROVE TypeInv'
  OBVIOUS
<1> USE TasksAssumption, TaskBudgetAssumption, MaxRestartsAssumption
    DEF TypeInv, GoalTypeOK, Held, InHand, Executing, Requests, record, tables, contexts,
        process, requests, others
<1>1. ASSUME NEW r \in Presses, PressRun(r) PROVE TypeInv'
  BY <1>1 DEF PressRun, MuFree, Goes
<1>2. ASSUME NEW r \in Presses, Register(r) PROVE TypeInv'
  BY <1>2 DEF Register, Goes
<1>3. ASSUME NEW c \in Cancellers, CancelInStore(c) PROVE TypeInv'
  BY <1>3 DEF CancelInStore, CancelGoal, Cancellable, Become
<1>4. ASSUME NEW c \in Cancellers, CancelContext(c) PROVE TypeInv'
  BY <1>4 DEF CancelContext, MuFree
<1>5. ASSUME NEW f \in Freezers, FreezeInStore(f) PROVE TypeInv'
  BY <1>5 DEF FreezeInStore
<1>6. ASSUME NEW f \in Freezers, FreezeRuns(f) PROVE TypeInv'
  BY <1>6 DEF FreezeRuns
<1>7. ASSUME NEW r \in Presses, Deadline(r) PROVE TypeInv'
  BY <1>7 DEF Deadline
<1>8. CASE CloseGateway
  BY <1>8 DEF CloseGateway, MuFree
<1>9. CASE GatewayClosed
  BY <1>9 DEF GatewayClosed
<1>10. CASE Restart
  <2> USE <1>10 DEF Restart, Become, Cut
  <2>1. /\ run' \in [Tasks -> {"none", "assigned", "claimed", "finalized", "uncertain"}]
        /\ task' \in [Tasks -> {"pending", "running", "succeeded", "failed",
                             "blocked", "cancelled"}]
    OBVIOUS
  <2>2. /\ at' \in [Presses -> {"new", "over"}]
        /\ asked' \in [Requests -> {"new", "stored", "answered", "over"}]
    OBVIOUS
  <2>3. restarts' \in 0..MaxRestarts
    OBVIOUS
  <2>4. upset' \subseteq {"crash", "fault", "gap"}
    OBVIOUS
  <2>5. QED
    BY <2>1, <2>2, <2>3, <2>4
<1>11. ASSUME NEW r \in Presses, Moves(r) PROVE TypeInv'
  <2>1. PICK to \in Executing : at' = [at EXCEPT ![r] = to]
                               /\ (to \in InHand => at[r] \in InHand)
    BY <1>11, MovesOnly
  <2>2. UNCHANGED <<tables, hand, contexts, others, begun, upset>>
    BY <1>11, MovesOnly
  <2>3. QED
    BY <2>1, <2>2
<1>12. ASSUME NEW r \in Presses, Ask(r) PROVE TypeInv'
  <2> USE <1>12 DEF Ask, Goes, Cut
  <2>1. CASE r \in live /\ status = "running" /\ ReadyTasks # {}
    <3>1. PICK t \in ReadyTasks : at' = [at EXCEPT ![r] = "admit"] /\ hand' = [hand EXCEPT ![r] = t]
                                 /\ UNCHANGED upset
      BY <2>1
    <3>2. t \in Tasks
      BY <3>1 DEF ReadyTasks
    <3>3. QED
      BY <3>1, <3>2
  <2>2. CASE ~(r \in live /\ status = "running" /\ ReadyTasks # {})
    <3>1. at' = [at EXCEPT ![r] = "leave"] /\ UNCHANGED hand
      BY <2>2
    <3>2. upset' = upset \/ upset' = upset \cup {"gap"}
      BY <2>2
    <3>3. QED
      BY <3>1, <3>2
  <2>3. QED
    BY <2>1, <2>2
<1>13. ASSUME NEW r \in Presses, Reserve(r) PROVE TypeInv'
  <2> USE <1>13 DEF Reserve, Goes
  <2>1. hand[r] \in Tasks /\ TaskBudget[hand[r]] \in Nat
    BY InHandIsTask
  <2>2. QED
    BY <2>1
<1>14. ASSUME NEW r \in Presses, FailGoal(r) PROVE TypeInv'
  BY <1>14 DEF FailGoal, Become, Goes
<1>15. ASSUME NEW r \in Presses, ClaimRun(r) PROVE TypeInv'
  BY <1>15 DEF ClaimRun, Goes
<1>16. ASSUME NEW r \in Presses, Activate(r) PROVE TypeInv'
  BY <1>16 DEF Activate, Goes
<1>17. ASSUME NEW r \in Presses, Begin(r) PROVE TypeInv'
  <2> USE <1>17 DEF Begin, Goes
  <2>1. hand[r] \in Tasks
    BY InHandIsTask
  <2>2. \A t \in Tasks : begun[t] \in Nat /\ begun[t] + 1 \in Nat
    OBVIOUS
  <2>3. begun' = [begun EXCEPT ![hand[r]] = begun[hand[r]] + 1]
    OBVIOUS
  <2>4. begun' \in [Tasks -> Nat]
    BY ONLY <2>1, <2>2, <2>3, TypeInv DEF TypeInv, GoalTypeOK
  <2>5. QED
    BY <2>4
<1>18. ASSUME NEW r \in Presses, SaveProof(r) PROVE TypeInv'
  BY <1>18 DEF SaveProof, Leaves
<1>19. ASSUME NEW r \in Presses, ProofLost(r) PROVE TypeInv'
  BY <1>19 DEF ProofLost, Leaves, Cut
<1>20. ASSUME NEW r \in Presses, FinishGoalTask(r) PROVE TypeInv'
  <2> USE <1>20 DEF FinishGoalTask, Goes
  <2>1. hand[r] \in Tasks /\ TaskBudget[hand[r]] \in Nat
    BY InHandIsTask
  <2>2. CASE task[hand[r]] # "running"
    BY <2>2
  <2>3. CASE task[hand[r]] = "running"
    <3>1. spent' \in Nat /\ reserved' \in Nat
      BY <2>1, <2>3 DEF Charges
    <3>2. task' \in [Tasks -> {"pending", "running", "succeeded", "failed", "blocked", "cancelled"}]
      <4>1. Become({"pending"}, "blocked")
              \in [Tasks -> {"pending", "running", "succeeded", "failed",
                             "blocked", "cancelled"}]
        BY DEF Become
      <4>2. QED
        BY <2>3, <4>1
    <3>3. status' \in {"draft", "running", "succeeded", "failed", "cancelled"}
      BY <2>3
    <3>4. at' \in [Presses -> {"loop", "leave"} \cup {"new", "register", "over"} \cup Executing]
      BY <2>3
    <3>5. Held'
      BY <2>3
    <3>6. QED
      BY <3>1, <3>2, <3>3, <3>4, <3>5
  <2>4. QED
    BY <2>2, <2>3
<1>21. ASSUME NEW r \in Presses, FinishLost(r) PROVE TypeInv'
  BY <1>21 DEF FinishLost, Goes, Cut
<1>22. ASSUME NEW r \in Presses, Tail(r) PROVE TypeInv'
  BY <1>22 DEF Tail, CancelGoal, Cancellable, Become, Goes
<1>23. ASSUME NEW r \in Presses, Leave(r) PROVE TypeInv'
  BY <1>23 DEF Leave, MuFree, Goes
<1>24. CASE UNCHANGED goalVars
  BY <1>24 DEF goalVars
<1>25. QED
  BY <1>1, <1>2, <1>3, <1>4, <1>5, <1>6, <1>7, <1>8, <1>9, <1>10, <1>11, <1>12, <1>13, <1>14,
     <1>15, <1>16, <1>17, <1>18, <1>19, <1>20, <1>21, <1>22, <1>23, <1>24
     DEF GoalNext, GoroutineStep, Moves

LEMMA AlwaysTyped == GoalSpec => []TypeInv
  BY TypeInit, TypeStep, PTL DEF GoalSpec

\* Every variable keeps its type, for any tasks, budgets and requests (Goal, GoalTask
\* and RunClaim of internal/autopilot).
THEOREM Types == GoalSpec => []GoalTypeOK
<1>1. TypeInv => GoalTypeOK
  BY DEF TypeInv
<1>2. QED
  BY <1>1, AlwaysTyped, PTL

-----------------------------------------------------------------------------
(* What stays while requests, deadlines and the shutdown reach the contexts.  *)

Signals ==
    \/ \E c \in Cancellers : CancelContext(c)
    \/ \E f \in Freezers : FreezeInStore(f) \/ FreezeRuns(f)
    \/ \E r \in Presses : Deadline(r)
    \/ CloseGateway \/ GatewayClosed

LEMMA SignalsOnly ==
  ASSUME Signals \/ UNCHANGED goalVars
  PROVE  UNCHANGED <<tables, at, hand, begun>>
  BY DEF Signals, CancelContext, FreezeInStore, FreezeRuns, Deadline, CloseGateway,
         GatewayClosed, goalVars, process, others

\* How a settlement may end: too late, with a success, or with a failure.
LEMMA Settlement ==
  ASSUME TypeInv, NEW r \in Presses, FinishGoalTask(r)
  PROVE  LET t == hand[r] IN
         /\ at[r] = "settle" /\ t \in Tasks
         /\ UNCHANGED <<run, proof, hand, contexts, others, begun>>
         /\ \/ /\ task[t] # "running" /\ UNCHANGED <<record, task>>
               /\ at' = [at EXCEPT ![r] = "leave"]
            \/ /\ task[t] = "running" /\ proof[t] = "good"
               /\ task' = [task EXCEPT ![t] = "succeeded"]
               /\ \/ status' = status
                  \/ status' = "succeeded" /\ \A u \in Tasks : task'[u] = "succeeded"
               /\ spent' <= GoalBudget
               /\ reserved' = IF reserved > TaskBudget[t] THEN reserved - TaskBudget[t] ELSE 0
               /\ at' = [at EXCEPT ![r] = IF status' = "running" THEN "loop" ELSE "leave"]
            \/ /\ task[t] = "running" /\ status' = "failed"
               /\ task' = [u \in Tasks |-> IF u = t THEN "failed"
                                         ELSE IF task[u] = "pending" THEN "blocked"
                                         ELSE task[u]]
               /\ reserved' = IF reserved > TaskBudget[t] THEN reserved - TaskBudget[t] ELSE 0
               /\ at' = [at EXCEPT ![r] = "leave"]
<1> DEFINE t == hand[r]
<1> USE DEF FinishGoalTask, Goes
<1>1. at[r] = "settle" /\ t \in Tasks
  BY InHandIsTask DEF InHand
<1>2. CASE task[t] # "running"
  BY <1>1, <1>2
<1>3. CASE task[t] = "running"
  <2>1. PICK charge \in Charges(t), measured \in BOOLEAN :
          LET good == /\ proof[t] = "good" /\ measured
                      /\ charge <= TaskBudget[t] /\ spent + charge <= GoalBudget
          IN /\ task' = IF good THEN [task EXCEPT ![t] = "succeeded"]
                        ELSE [Become({"pending"}, "blocked") EXCEPT ![t] = "failed"]
             /\ status' = IF ~good THEN "failed"
                          ELSE IF status = "running" /\ \A u \in Tasks : task'[u] = "succeeded"
                          THEN "succeeded" ELSE status
             /\ spent' = spent + charge
             /\ reserved' = IF reserved > TaskBudget[t] THEN reserved - TaskBudget[t] ELSE 0
             /\ at' = [at EXCEPT ![r] = IF status' = "running" THEN "loop" ELSE "leave"]
    BY <1>3
  <2>2. UNCHANGED <<run, proof, hand, contexts, others, begun>>
    OBVIOUS
  <2> DEFINE good == /\ proof[t] = "good" /\ measured
                     /\ charge <= TaskBudget[t] /\ spent + charge <= GoalBudget
  <2>3. CASE good
    <3>1. /\ task' = [task EXCEPT ![t] = "succeeded"] /\ spent' <= GoalBudget
          /\ status' = IF status = "running" /\ \A u \in Tasks : task'[u] = "succeeded"
                       THEN "succeeded" ELSE status
      BY <2>1, <2>3
    <3>2. QED
      BY <1>1, <1>3, <2>1, <2>2, <2>3, <3>1
  <2>4. CASE ~good
    <3>1. task' = [Become({"pending"}, "blocked") EXCEPT ![t] = "failed"] /\ status' = "failed"
      BY <2>1, <2>4
    <3>2. task' = [u \in Tasks |-> IF u = t THEN "failed"
                                   ELSE IF task[u] = "pending" THEN "blocked" ELSE task[u]]
      BY <3>1 DEF Become
    <3>3. QED
      BY <1>1, <1>3, <2>1, <2>2, <3>1, <3>2
  <2>5. QED
    BY <2>3, <2>4
<1>4. QED
  BY <1>2, <1>3

-----------------------------------------------------------------------------
(* One goroutine at a time, and what the status of a task tells of its run.   *)

Busy(r) == at[r] \notin {"new", "over"}

Alone ==
    /\ \A r, s \in Presses : Busy(r) /\ Busy(s) => r = s
    /\ status = "draft" => \A r \in Presses : ~Busy(r)

LEMMA AloneInit == GoalInit => Alone
  BY DEF GoalInit, Alone, Busy

LEMMA AloneStep == TypeInv /\ Alone /\ [GoalNext]_goalVars => Alone'
<1> SUFFICES ASSUME TypeInv, Alone, [GoalNext]_goalVars PROVE Alone'
  OBVIOUS
<1> USE DEF TypeInv, GoalTypeOK, Alone, Busy, Executing, record, tables, contexts, process,
            requests, others
<1>1. ASSUME NEW r \in Presses, PressRun(r) PROVE Alone'
  BY <1>1 DEF PressRun, MuFree, Goes
<1>2. ASSUME NEW r \in Presses, Register(r) PROVE Alone'
  BY <1>2 DEF Register, Goes
<1>3. ASSUME NEW c \in Cancellers, CancelInStore(c) PROVE Alone'
  BY <1>3 DEF CancelInStore, CancelGoal, Cancellable, Become
<1>4. CASE Restart
  BY <1>4 DEF Restart, Become, Cut
<1>5. ASSUME NEW r \in Presses, Moves(r) PROVE Alone'
  BY <1>5, MovesOnly
<1>6. ASSUME NEW r \in Presses, Ask(r) PROVE Alone'
  BY <1>6 DEF Ask, ReadyTasks, Goes, Cut
<1>7. ASSUME NEW r \in Presses, Reserve(r) PROVE Alone'
  BY <1>7 DEF Reserve, Fits, Goes
<1>8. ASSUME NEW r \in Presses, FailGoal(r) PROVE Alone'
  BY <1>8 DEF FailGoal, Become, Goes
<1>9. ASSUME NEW r \in Presses, ClaimRun(r) PROVE Alone'
  BY <1>9 DEF ClaimRun, Goes
<1>10. ASSUME NEW r \in Presses, Activate(r) PROVE Alone'
  BY <1>10 DEF Activate, Goes
<1>11. ASSUME NEW r \in Presses, Begin(r) PROVE Alone'
  BY <1>11 DEF Begin, Runs, Goes
<1>12. ASSUME NEW r \in Presses, SaveProof(r) PROVE Alone'
  BY <1>12 DEF SaveProof, Leaves
<1>13. ASSUME NEW r \in Presses, ProofLost(r) PROVE Alone'
  BY <1>13 DEF ProofLost, Leaves, Cut
<1>14. ASSUME NEW r \in Presses, FinishGoalTask(r) PROVE Alone'
  BY <1>14 DEF FinishGoalTask, Charges, Become, Goes
<1>15. ASSUME NEW r \in Presses, FinishLost(r) PROVE Alone'
  BY <1>15 DEF FinishLost, Goes, Cut
<1>16. ASSUME NEW r \in Presses, Tail(r) PROVE Alone'
  BY <1>16 DEF Tail, CancelGoal, Cancellable, Become, Goes
<1>17. ASSUME NEW r \in Presses, Leave(r) PROVE Alone'
  BY <1>17 DEF Leave, MuFree, Goes
<1>18. CASE Signals \/ UNCHANGED goalVars
  BY <1>18, SignalsOnly
<1>19. QED
  BY <1>1, <1>2, <1>3, <1>4, <1>5, <1>6, <1>7, <1>8, <1>9, <1>10, <1>11, <1>12, <1>13, <1>14,
     <1>15, <1>16, <1>17, <1>18
     DEF GoalNext, GoroutineStep, Moves, Signals

LEMMA AlwaysAlone == GoalSpec => []Alone
  BY AloneInit, AloneStep, AlwaysTyped, PTL DEF GoalSpec

\* What stands of the goal and of its tasks.
Settled ==
    /\ status = "draft" => \A t \in Tasks : task[t] = "pending"
    /\ status = "cancelled" => \A t \in Tasks : task[t] \in {"succeeded", "failed", "cancelled"}

Taken == InHand \ {"admit", "reserve"}

Assigned ==
    /\ \A t \in Tasks : task[t] = "pending" => run[t] = "none"
    /\ \A t \in Tasks : task[t] = "running" => run[t] # "none"
    /\ \A r \in Presses : at[r] \in Taken =>
          task[hand[r]] \in {"running", "cancelled"} /\ run[hand[r]] # "none"

Controlled == Alone /\ Settled /\ Assigned

LEMMA ControlledInit == GoalInit => Controlled
  BY AloneInit DEF GoalInit, Controlled, Settled, Assigned, Taken, InHand

LEMMA ControlledStep == TypeInv /\ Controlled /\ [GoalNext]_goalVars => (Settled /\ Assigned)'
<1> SUFFICES ASSUME TypeInv, Controlled, [GoalNext]_goalVars PROVE (Settled /\ Assigned)'
  OBVIOUS
<1> USE DEF TypeInv, GoalTypeOK, Held, InHand, Executing, record, tables, contexts, process,
            requests, others, Controlled, Alone, Busy, Settled, Assigned, Taken
<1>1. ASSUME NEW r \in Presses, PressRun(r) PROVE (Settled /\ Assigned)'
  BY <1>1 DEF PressRun, MuFree, Goes
<1>2. ASSUME NEW r \in Presses, Register(r) PROVE (Settled /\ Assigned)'
  BY <1>2 DEF Register, Goes
<1>3. ASSUME NEW c \in Cancellers, CancelInStore(c) PROVE (Settled /\ Assigned)'
  BY <1>3 DEF CancelInStore, CancelGoal, Cancellable, Become
<1>4. CASE Restart
  BY <1>4 DEF Restart, Become, Cut
<1>5. ASSUME NEW r \in Presses, Moves(r) PROVE (Settled /\ Assigned)'
  BY <1>5, MovesOnly
<1>6. ASSUME NEW r \in Presses, Ask(r) PROVE (Settled /\ Assigned)'
  BY <1>6 DEF Ask, ReadyTasks, Goes, Cut
<1>7. ASSUME NEW r \in Presses, Reserve(r) PROVE (Settled /\ Assigned)'
  BY <1>7 DEF Reserve, Fits, Goes
<1>8. ASSUME NEW r \in Presses, FailGoal(r) PROVE (Settled /\ Assigned)'
  BY <1>8 DEF FailGoal, Become, Goes
<1>9. ASSUME NEW r \in Presses, ClaimRun(r) PROVE (Settled /\ Assigned)'
  BY <1>9 DEF ClaimRun, Goes
<1>10. ASSUME NEW r \in Presses, Activate(r) PROVE (Settled /\ Assigned)'
  BY <1>10 DEF Activate, Goes
<1>11. ASSUME NEW r \in Presses, Begin(r) PROVE (Settled /\ Assigned)'
  BY <1>11 DEF Begin, Runs, Goes
<1>12. ASSUME NEW r \in Presses, SaveProof(r) PROVE (Settled /\ Assigned)'
  BY <1>12 DEF SaveProof, Leaves
<1>13. ASSUME NEW r \in Presses, ProofLost(r) PROVE (Settled /\ Assigned)'
  BY <1>13 DEF ProofLost, Leaves, Cut
<1>14. ASSUME NEW r \in Presses, FinishGoalTask(r) PROVE (Settled /\ Assigned)'
  BY <1>14, Settlement
<1>15. ASSUME NEW r \in Presses, FinishLost(r) PROVE (Settled /\ Assigned)'
  BY <1>15 DEF FinishLost, Goes, Cut
<1>16. ASSUME NEW r \in Presses, Tail(r) PROVE (Settled /\ Assigned)'
  BY <1>16 DEF Tail, CancelGoal, Cancellable, Become, Goes
<1>17. ASSUME NEW r \in Presses, Leave(r) PROVE (Settled /\ Assigned)'
  BY <1>17 DEF Leave, MuFree, Goes
<1>18. CASE Signals \/ UNCHANGED goalVars
  BY <1>18, SignalsOnly
<1>19. QED
  BY <1>1, <1>2, <1>3, <1>4, <1>5, <1>6, <1>7, <1>8, <1>9, <1>10, <1>11, <1>12, <1>13, <1>14,
     <1>15, <1>16, <1>17, <1>18
     DEF GoalNext, GoroutineStep, Moves, Signals

LEMMA AlwaysControlled == GoalSpec => []Controlled
  BY ControlledInit, ControlledStep, AlwaysAlone, AlwaysTyped, PTL DEF GoalSpec, Controlled

-----------------------------------------------------------------------------
(* Work is begun once, after the dependencies.                               *)

Ahead == {"reread", "prepare", "engine", "claim", "activate", "resolve", "handle"}

Ordered ==
    /\ WorkOnce
    /\ \A t \in Tasks : task[t] = "pending" => begun[t] = 0
    /\ \A r \in Presses : at[r] \in Ahead => begun[hand[r]] = 0
    /\ \A r \in Presses : at[r] \in {"admit", "reserve"} \cup Ahead =>
          \A d \in DependsOn[hand[r]] : task[d] = "succeeded"

LEMMA OrderedInit == GoalInit => Ordered
  BY DEF GoalInit, Ordered, WorkOnce, Ahead

LEMMA OrderedStep == TypeInv /\ Controlled /\ Ordered /\ [GoalNext]_goalVars => Ordered'
<1> SUFFICES ASSUME TypeInv, Controlled, Ordered, [GoalNext]_goalVars PROVE Ordered'
  OBVIOUS
<1> USE DependsOnAssumption
    DEF TypeInv, GoalTypeOK, Held, InHand, Executing, record, tables, contexts, process,
        requests, others, Controlled, Alone, Busy, Assigned, Taken, Ordered, WorkOnce, Ahead
<1>1. ASSUME NEW r \in Presses, PressRun(r) PROVE Ordered'
  BY <1>1 DEF PressRun, MuFree, Goes
<1>2. ASSUME NEW r \in Presses, Register(r) PROVE Ordered'
  BY <1>2 DEF Register, Goes
<1>3. ASSUME NEW c \in Cancellers, CancelInStore(c) PROVE Ordered'
  BY <1>3 DEF CancelInStore, CancelGoal, Cancellable, Become
<1>4. CASE Restart
  BY <1>4 DEF Restart, Become, Cut
<1>5. ASSUME NEW r \in Presses, Moves(r) PROVE Ordered'
  BY <1>5, MovesOnly
<1>6. ASSUME NEW r \in Presses, Ask(r) PROVE Ordered'
  BY <1>6 DEF Ask, ReadyTasks, Goes, Cut
<1>7. ASSUME NEW r \in Presses, Reserve(r) PROVE Ordered'
  BY <1>7 DEF Reserve, Fits, Goes
<1>8. ASSUME NEW r \in Presses, FailGoal(r) PROVE Ordered'
  BY <1>8 DEF FailGoal, Become, Goes
<1>9. ASSUME NEW r \in Presses, ClaimRun(r) PROVE Ordered'
  BY <1>9 DEF ClaimRun, Goes
<1>10. ASSUME NEW r \in Presses, Activate(r) PROVE Ordered'
  BY <1>10 DEF Activate, Goes
<1>11. ASSUME NEW r \in Presses, Begin(r) PROVE Ordered'
  BY <1>11 DEF Begin, Runs, Goes
<1>12. ASSUME NEW r \in Presses, SaveProof(r) PROVE Ordered'
  BY <1>12 DEF SaveProof, Leaves
<1>13. ASSUME NEW r \in Presses, ProofLost(r) PROVE Ordered'
  BY <1>13 DEF ProofLost, Leaves, Cut
<1>14. ASSUME NEW r \in Presses, FinishGoalTask(r) PROVE Ordered'
  BY <1>14, Settlement
<1>15. ASSUME NEW r \in Presses, FinishLost(r) PROVE Ordered'
  BY <1>15 DEF FinishLost, Goes, Cut
<1>16. ASSUME NEW r \in Presses, Tail(r) PROVE Ordered'
  BY <1>16 DEF Tail, CancelGoal, Cancellable, Become, Goes
<1>17. ASSUME NEW r \in Presses, Leave(r) PROVE Ordered'
  BY <1>17 DEF Leave, MuFree, Goes
<1>18. CASE Signals \/ UNCHANGED goalVars
  BY <1>18, SignalsOnly
<1>19. QED
  BY <1>1, <1>2, <1>3, <1>4, <1>5, <1>6, <1>7, <1>8, <1>9, <1>10, <1>11, <1>12, <1>13, <1>14,
     <1>15, <1>16, <1>17, <1>18
     DEF GoalNext, GoroutineStep, Moves, Signals

\* The work of a task is begun once at most, and after its dependencies have succeeded,
\* whoever presses Run and whatever a crash cuts short (StartGoalTask, ClaimRun,
\* NewStore).
THEOREM NoWorkTwice == GoalSpec => []WorkOnce
<1>1. Ordered => WorkOnce
  BY DEF Ordered
<1>2. QED
  BY <1>1, OrderedInit, OrderedStep, AlwaysTyped, AlwaysControlled, PTL DEF GoalSpec

-----------------------------------------------------------------------------
(* A success is proved.                                                      *)

Proved ==
    /\ \A t \in Tasks : proof[t] # "none" => run[t] = "finalized"
    /\ \A r \in Presses : at[r] \in Ahead \cup {"work", "worked", "stopped"} =>
          proof[hand[r]] = "none"
    /\ \A t \in Tasks : task[t] = "succeeded" => proof[t] = "good"

LEMMA ProvedInit == GoalInit => Proved
  BY DEF GoalInit, Proved, Ahead

LEMMA ProvedStep == TypeInv /\ Controlled /\ Proved /\ [GoalNext]_goalVars => Proved'
<1> SUFFICES ASSUME TypeInv, Controlled, Proved, [GoalNext]_goalVars PROVE Proved'
  OBVIOUS
<1> USE DEF TypeInv, GoalTypeOK, Held, InHand, Executing, record, tables, contexts, process,
            requests, others, Controlled, Alone, Busy, Assigned, Taken, Proved, Ahead
<1>1. ASSUME NEW r \in Presses, PressRun(r) PROVE Proved'
  BY <1>1 DEF PressRun, MuFree, Goes
<1>2. ASSUME NEW r \in Presses, Register(r) PROVE Proved'
  BY <1>2 DEF Register, Goes
<1>3. ASSUME NEW c \in Cancellers, CancelInStore(c) PROVE Proved'
  BY <1>3 DEF CancelInStore, CancelGoal, Cancellable, Become
<1>4. CASE Restart
  BY <1>4 DEF Restart, Become, Cut
<1>5. ASSUME NEW r \in Presses, Moves(r) PROVE Proved'
  BY <1>5, MovesOnly
<1>6. ASSUME NEW r \in Presses, Ask(r) PROVE Proved'
  BY <1>6 DEF Ask, ReadyTasks, Goes, Cut
<1>7. ASSUME NEW r \in Presses, Reserve(r) PROVE Proved'
  BY <1>7 DEF Reserve, Fits, Goes
<1>8. ASSUME NEW r \in Presses, FailGoal(r) PROVE Proved'
  BY <1>8 DEF FailGoal, Become, Goes
<1>9. ASSUME NEW r \in Presses, ClaimRun(r) PROVE Proved'
  BY <1>9 DEF ClaimRun, Goes
<1>10. ASSUME NEW r \in Presses, Activate(r) PROVE Proved'
  BY <1>10 DEF Activate, Goes
<1>11. ASSUME NEW r \in Presses, Begin(r) PROVE Proved'
  BY <1>11 DEF Begin, Runs, Goes
<1>12. ASSUME NEW r \in Presses, SaveProof(r) PROVE Proved'
  BY <1>12 DEF SaveProof, Leaves
<1>13. ASSUME NEW r \in Presses, ProofLost(r) PROVE Proved'
  BY <1>13 DEF ProofLost, Leaves, Cut
<1>14. ASSUME NEW r \in Presses, FinishGoalTask(r) PROVE Proved'
  BY <1>14, Settlement
<1>15. ASSUME NEW r \in Presses, FinishLost(r) PROVE Proved'
  BY <1>15 DEF FinishLost, Goes, Cut
<1>16. ASSUME NEW r \in Presses, Tail(r) PROVE Proved'
  BY <1>16 DEF Tail, CancelGoal, Cancellable, Become, Goes
<1>17. ASSUME NEW r \in Presses, Leave(r) PROVE Proved'
  BY <1>17 DEF Leave, MuFree, Goes
<1>18. CASE Signals \/ UNCHANGED goalVars
  BY <1>18, SignalsOnly
<1>19. QED
  BY <1>1, <1>2, <1>3, <1>4, <1>5, <1>6, <1>7, <1>8, <1>9, <1>10, <1>11, <1>12, <1>13, <1>14,
     <1>15, <1>16, <1>17, <1>18
     DEF GoalNext, GoroutineStep, Moves, Signals

LEMMA AlwaysProved == GoalSpec => []Proved
  BY ProvedInit, ProvedStep, AlwaysTyped, AlwaysControlled, PTL DEF GoalSpec

-----------------------------------------------------------------------------
(* What is reserved is owed to one run.                                      *)

Unreserved == {"register", "loop", "ask", "admit", "reserve"}

Owed ==
    /\ ReservedForRuns
    /\ \A r \in Presses : at[r] \in Unreserved => Holding = {}
    /\ status = "succeeded" => \A t \in Tasks : task[t] = "succeeded"
    /\ status = "draft" => spent = 0

LEMMA OwedInit == GoalInit => Owed
  BY TaskBudgetAssumption DEF GoalInit, Owed, ReservedForRuns, Holding, Unreserved

\* With nothing reserved, what is spent is the whole of what is owed.
LEMMA NoneOutstanding ==
  ASSUME NEW x \in Nat, NEW limit \in Nat, NEW y, y = 0, x <= limit
  PROVE  x + y <= limit
OBVIOUS

LEMMA OwedStep == TypeInv /\ Controlled /\ Owed /\ [GoalNext]_goalVars => Owed'
<1> SUFFICES ASSUME TypeInv, Controlled, Owed, [GoalNext]_goalVars PROVE Owed'
  OBVIOUS
<1> USE TaskBudgetAssumption
    DEF TypeInv, GoalTypeOK, Held, InHand, Executing, record, tables, contexts, process,
        requests, others, Controlled, Alone, Busy, Settled, Assigned, Taken, Owed,
        ReservedForRuns, Holding, Unreserved
<1>1. ASSUME NEW r \in Presses, PressRun(r) PROVE Owed'
  <2>1. Holding' = Holding /\ UNCHANGED <<reserved, spent>>
    BY <1>1 DEF PressRun, MuFree, Goes
  <2>2. CASE gateway = "open" /\ status = "draft"
    <3>1. Holding = {} /\ reserved = 0 /\ spent = 0
      BY <2>2
    <3>2. QED
      BY <1>1, <2>1, <2>2, <3>1 DEF PressRun, MuFree, Goes
  <2>3. CASE ~(gateway = "open" /\ status = "draft")
    BY <1>1, <2>1, <2>3 DEF PressRun, MuFree, Goes
  <2>4. QED
    BY <2>2, <2>3
<1>2. ASSUME NEW r \in Presses, Register(r) PROVE Owed'
  BY <1>2 DEF Register, Goes
<1>3. ASSUME NEW c \in Cancellers, CancelInStore(c) PROVE Owed'
  BY <1>3 DEF CancelInStore, CancelGoal, Cancellable, Become
<1>4. CASE Restart
  <2>1. Holding' = Holding
    BY <1>4 DEF Restart, Become
  <2>2. \A r \in Presses : at'[r] \in {"new", "over"}
    BY <1>4 DEF Restart
  <2>3. UNCHANGED record /\ (status = "succeeded" => UNCHANGED task)
    BY <1>4 DEF Restart, Become
  <2>4. QED
    BY <2>1, <2>2, <2>3
<1>5. ASSUME NEW r \in Presses, Moves(r) PROVE Owed'
  BY <1>5, MovesOnly
<1>6. ASSUME NEW r \in Presses, Ask(r) PROVE Owed'
  BY <1>6 DEF Ask, ReadyTasks, Goes, Cut
<1>7. ASSUME NEW r \in Presses, Reserve(r) PROVE Owed'
  BY <1>7 DEF Reserve, Fits, Goes
<1>8. ASSUME NEW r \in Presses, FailGoal(r) PROVE Owed'
  BY <1>8 DEF FailGoal, Become, Goes
<1>9. ASSUME NEW r \in Presses, ClaimRun(r) PROVE Owed'
  BY <1>9 DEF ClaimRun, Goes
<1>10. ASSUME NEW r \in Presses, Activate(r) PROVE Owed'
  BY <1>10 DEF Activate, Goes
<1>11. ASSUME NEW r \in Presses, Begin(r) PROVE Owed'
  BY <1>11 DEF Begin, Runs, Goes
<1>12. ASSUME NEW r \in Presses, SaveProof(r) PROVE Owed'
  BY <1>12 DEF SaveProof, Leaves
<1>13. ASSUME NEW r \in Presses, ProofLost(r) PROVE Owed'
  BY <1>13 DEF ProofLost, Leaves, Cut
<1>14. ASSUME NEW r \in Presses, FinishGoalTask(r) PROVE Owed'
  <2> DEFINE t == hand[r]
  <2>1. t \in Tasks /\ at[r] = "settle" /\ TaskBudget[t] \in 0..GoalBudget /\ GoalBudget \in Nat
    BY <1>14, Settlement, InHandIsTask DEF InHand
  <2>2. CASE task[t] # "running"
    BY <1>14, <2>2, Settlement
  <2>3. CASE task[t] = "running"
    <3>1. Holding = {t} /\ reserved = TaskBudget[t]
      BY <2>1, <2>3
    <3>2. reserved' = 0
      BY <1>14, <2>1, <2>3, <3>1, Settlement
    <3>3. Holding' = {}
      BY <1>14, <2>1, <2>3, <3>1, Settlement
    <3>4. status' \in {"running", "succeeded"} => spent' + reserved' <= GoalBudget
      <4>1. spent' \in Nat
        BY TypeStep
      <4>2. status' \in {"running", "succeeded"} => spent' <= GoalBudget
        BY <1>14, <2>1, <2>3, Settlement
      <4>3. QED
        BY <2>1, <3>2, <4>1, <4>2, NoneOutstanding
    <3>5. status' = "succeeded" => \A u \in Tasks : task'[u] = "succeeded"
      BY <1>14, <2>1, <2>3, Settlement
    <3>6. status' # "draft"
      BY <1>14, <2>1, <2>3, Settlement
    <3>7. QED
      BY <3>2, <3>3, <3>4, <3>5, <3>6
  <2>4. QED
    BY <2>2, <2>3
<1>15. ASSUME NEW r \in Presses, FinishLost(r) PROVE Owed'
  BY <1>15 DEF FinishLost, Goes, Cut
<1>16. ASSUME NEW r \in Presses, Tail(r) PROVE Owed'
  BY <1>16 DEF Tail, CancelGoal, Cancellable, Become, Goes
<1>17. ASSUME NEW r \in Presses, Leave(r) PROVE Owed'
  BY <1>17 DEF Leave, MuFree, Goes
<1>18. CASE Signals \/ UNCHANGED goalVars
  BY <1>18, SignalsOnly
<1>19. QED
  BY <1>1, <1>2, <1>3, <1>4, <1>5, <1>6, <1>7, <1>8, <1>9, <1>10, <1>11, <1>12, <1>13, <1>14,
     <1>15, <1>16, <1>17, <1>18
     DEF GoalNext, GoroutineStep, Moves, Signals

LEMMA AlwaysOwed == GoalSpec => []Owed
  BY OwedInit, OwedStep, AlwaysTyped, AlwaysControlled, PTL DEF GoalSpec

\* One task at most holds a reservation, which is given back on every way out of its
\* run, and the goal keeps its budget until it has failed (StartGoalTask,
\* finishGoalTask, CancelGoal).
THEOREM ReservationsAreOwed == GoalSpec => []ReservedForRuns
<1>1. Owed => ReservedForRuns
  BY DEF Owed
<1>2. QED
  BY <1>1, AlwaysOwed, PTL

\* A task has succeeded only with a good proof of a run that is over, and a goal only
\* with all its tasks, within its budget (SaveProof, finishGoalTask).
THEOREM NoSuccessUnproved == GoalSpec => []SuccessIsProved
<1>1. TypeInv /\ Proved /\ Owed => SuccessIsProved
  BY DEF TypeInv, GoalTypeOK, Proved, Owed, ReservedForRuns, Holding, SuccessIsProved
<1>2. QED
  BY <1>1, AlwaysTyped, AlwaysProved, AlwaysOwed, PTL

-----------------------------------------------------------------------------
(* What has been stopped stays stopped.                                      *)

Reached ==
    /\ \A r \in live : Busy(r) /\ registered = {r}
    /\ \A r \in Presses : at[r] \in {"resolve", "handle"} => r \in active

\* Nothing runs under a context, and no press is about to.
Unreached == live = {} /\ \A r \in Presses : at[r] # "register"

Stopped ==
    /\ gateway # "open" => Unreached
    /\ \A c \in Cancellers : asked[c] \in {"stored", "answered"} => status = "cancelled"
    /\ \A c \in Cancellers : asked[c] = "answered" => Unreached
    /\ \A f \in Freezers : asked[f] \in {"stored", "answered"} => frozen
    /\ \A f \in Freezers : asked[f] = "answered" =>
          \A r \in Presses : at[r] = "handle" => r \in halted

Halts == Reached /\ Stopped

LEMMA HaltsInit == GoalInit => Halts
  BY DEF GoalInit, Halts, Reached, Stopped, Requests, Busy

LEMMA HaltsStep == TypeInv /\ Controlled /\ Halts /\ [GoalNext]_goalVars => Halts'
<1> SUFFICES ASSUME TypeInv, Controlled, Halts, [GoalNext]_goalVars PROVE Halts'
  OBVIOUS
<1> USE RequestsAssumption
    DEF TypeInv, GoalTypeOK, Held, InHand, Executing, record, tables, contexts, process,
        requests, others, Controlled, Alone, Busy, Settled, Assigned, Taken, Halts, Reached,
        Stopped, Unreached, Requests
<1>1. ASSUME NEW r \in Presses, PressRun(r) PROVE Halts'
  BY <1>1 DEF PressRun, MuFree, Goes
<1>2. ASSUME NEW r \in Presses, Register(r) PROVE Halts'
  BY <1>2 DEF Register, Goes
<1>3. ASSUME NEW c \in Cancellers, CancelInStore(c) PROVE Halts'
  BY <1>3 DEF CancelInStore, CancelGoal, Cancellable, Become
<1>4. ASSUME NEW c \in Cancellers, CancelContext(c) PROVE Halts'
  BY <1>4 DEF CancelContext, MuFree
<1>5. ASSUME NEW f \in Freezers, FreezeInStore(f) PROVE Halts'
  BY <1>5 DEF FreezeInStore
<1>6. ASSUME NEW f \in Freezers, FreezeRuns(f) PROVE Halts'
  BY <1>6 DEF FreezeRuns
<1>7. ASSUME NEW r \in Presses, Deadline(r) PROVE Halts'
  BY <1>7 DEF Deadline
<1>8. CASE CloseGateway
  BY <1>8 DEF CloseGateway, MuFree
<1>9. CASE GatewayClosed
  BY <1>9 DEF GatewayClosed
<1>10. CASE Restart
  BY <1>10 DEF Restart, Become, Cut
<1>11. ASSUME NEW r \in Presses, Moves(r) PROVE Halts'
  BY <1>11, MovesOnly
<1>12. ASSUME NEW r \in Presses, Ask(r) PROVE Halts'
  BY <1>12 DEF Ask, ReadyTasks, Goes, Cut
<1>13. ASSUME NEW r \in Presses, Reserve(r) PROVE Halts'
  BY <1>13 DEF Reserve, Fits, Goes
<1>14. ASSUME NEW r \in Presses, FailGoal(r) PROVE Halts'
  BY <1>14 DEF FailGoal, Become, Goes
<1>15. ASSUME NEW r \in Presses, ClaimRun(r) PROVE Halts'
  BY <1>15 DEF ClaimRun, Goes
<1>16. ASSUME NEW r \in Presses, Activate(r) PROVE Halts'
  BY <1>16 DEF Activate, Goes
<1>17. ASSUME NEW r \in Presses, Begin(r) PROVE Halts'
  BY <1>17 DEF Begin, Runs, Goes
<1>18. ASSUME NEW r \in Presses, SaveProof(r) PROVE Halts'
  BY <1>18 DEF SaveProof, Leaves
<1>19. ASSUME NEW r \in Presses, ProofLost(r) PROVE Halts'
  BY <1>19 DEF ProofLost, Leaves, Cut
<1>20. ASSUME NEW r \in Presses, FinishGoalTask(r) PROVE Halts'
  BY <1>20, Settlement
<1>21. ASSUME NEW r \in Presses, FinishLost(r) PROVE Halts'
  BY <1>21 DEF FinishLost, Goes, Cut
<1>22. ASSUME NEW r \in Presses, Tail(r) PROVE Halts'
  BY <1>22 DEF Tail, CancelGoal, Cancellable, Become, Goes
<1>23. ASSUME NEW r \in Presses, Leave(r) PROVE Halts'
  BY <1>23 DEF Leave, MuFree, Goes
<1>24. CASE UNCHANGED goalVars
  BY <1>24 DEF goalVars
<1>25. QED
  BY <1>1, <1>2, <1>3, <1>4, <1>5, <1>6, <1>7, <1>8, <1>9, <1>10, <1>11, <1>12, <1>13, <1>14,
     <1>15, <1>16, <1>17, <1>18, <1>19, <1>20, <1>21, <1>22, <1>23, <1>24
     DEF GoalNext, GoroutineStep, Moves

LEMMA AlwaysHalts == GoalSpec => []Halts
  BY HaltsInit, HaltsStep, AlwaysTyped, AlwaysControlled, PTL DEF GoalSpec

\* Only the first tool of a run begins work.
LEMMA OnlyBegin ==
  ASSUME [GoalNext]_goalVars, begun' # begun
  PROVE  \E r \in Presses : Begin(r)
<1> USE DEF tables, record, others, process, contexts, requests
<1>1. UNCHANGED begun \/ \E r \in Presses : Begin(r)
  <2>1. CASE Signals \/ UNCHANGED goalVars
    BY <2>1, SignalsOnly
  <2>2. ASSUME NEW r \in Presses, Moves(r) PROVE UNCHANGED begun
    BY <2>2, MovesOnly
  <2>3. CASE Restart
    BY <2>3 DEF Restart
  <2>4. ASSUME NEW c \in Cancellers, CancelInStore(c) PROVE UNCHANGED begun
    BY <2>4 DEF CancelInStore
  <2>5. ASSUME NEW r \in Presses,
               \/ PressRun(r) \/ Register(r) \/ Ask(r) \/ Reserve(r) \/ FailGoal(r) \/ ClaimRun(r)
               \/ Activate(r) \/ SaveProof(r) \/ ProofLost(r) \/ FinishGoalTask(r)
               \/ FinishLost(r) \/ Tail(r) \/ Leave(r)
        PROVE  UNCHANGED begun
    BY <2>5 DEF PressRun, Register, Ask, Reserve, FailGoal, ClaimRun, Activate, SaveProof,
                ProofLost, FinishGoalTask, FinishLost, Tail, Leave
  <2>6. QED
    BY <2>1, <2>2, <2>3, <2>4, <2>5 DEF GoalNext, GoroutineStep, Moves, Signals
<1>2. QED
  BY <1>1

LEMMA BeginsUnstopped ==
  ASSUME TypeInv, Halts, [GoalNext]_goalVars, begun' # begun
  PROVE  gateway = "open" /\ \A c \in Requests : asked[c] # "answered"
<1>1. PICK r \in Presses : Begin(r)
  BY OnlyBegin
<1>2. r \in live /\ r \notin halted /\ at[r] = "handle"
  BY <1>1 DEF Begin, Runs, Goes
<1>3. ~Unreached
  BY <1>2 DEF Unreached
<1>4. QED
  BY <1>2, <1>3 DEF Halts, Stopped, Requests

\* Once Cancel or Freeze has been answered, and from the moment the gateway closes, no
\* work of the goal is begun (handleAutopilotCancelGoal, CancelAutopilotAgent and the
\* second look of Handle, closeAutopilot).
THEOREM NoWorkAfterStop == GoalSpec => StoppedStaysStopped
<1>1. TypeInv /\ Halts /\ [GoalNext]_goalVars =>
        [begun' # begun => gateway = "open" /\ \A c \in Requests : asked[c] # "answered"]_goalVars
  BY BeginsUnstopped
<1>2. QED
  BY <1>1, AlwaysTyped, AlwaysHalts, PTL DEF GoalSpec, StoppedStaysStopped
================================================================================
