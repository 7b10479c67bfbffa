--------------------------------- MODULE Goals ---------------------------------
(***************************************************************************)
(* A goal and its tasks (internal/autopilot/goal.go, claim.go, proof.go and  *)
(* store.go), run by the gateway (gateway/autopilot_goals.go) through the     *)
(* proof boundary of the engine (Handle of runtime/autopilot.go).            *)
(*                                                                          *)
(* A press of Run that is accepted becomes a goroutine, which runs the tasks  *)
(* one by one; requests to cancel, the end of the goal's time, a shutdown and *)
(* a crash come at any moment.  One action is one transaction, one critical  *)
(* section, or what a goroutine does between two of them.  The context of a   *)
(* press is tested where the code tests it: at the head of the loop, and by   *)
(* the database and the tools before they do anything.  Two writes may fail   *)
(* otherwise, once: the proof of a run and the settlement of its task.        *)
(***************************************************************************)
EXTENDS Naturals

CONSTANTS
    Tasks,         \* the tasks of the goal, by the order of their rows
    DependsOn,     \* task -> the tasks it waits for
    TaskBudget,    \* task -> the most it may cost
    GoalBudget,    \* the most they may cost together
    Presses,       \* presses of Run
    Cancellers,    \* requests to cancel the goal
    Freezers,      \* requests to freeze the agent of its tasks
    MaxRestarts    \* bound on restarts of the gateway

\* What CreateGoal accepts: a budget within the goal's, and no cycle.
ASSUME TasksAssumption == Tasks \subseteq Nat \ {0}
ASSUME TaskBudgetAssumption ==
    GoalBudget \in Nat /\ TaskBudget \in [Tasks -> 0..GoalBudget]
ASSUME DependsOnAssumption ==
    /\ DependsOn \in [Tasks -> SUBSET Tasks]
    /\ \E rank \in [Tasks -> Tasks] : \A t \in Tasks : \A d \in DependsOn[t] : rank[d] < rank[t]
ASSUME RequestsAssumption == Cancellers \cap Freezers = {}
ASSUME MaxRestartsAssumption == MaxRestarts \in Nat

VARIABLES
    status,      \* the goal: draft, running, succeeded, failed, cancelled
    spent,       \* ... cost_usd
    reserved,    \* ... reserved_cost_usd
    task,        \* task -> its status
    run,         \* task -> its run: none, assigned, then the status of its claim
    proof,       \* task -> the proof of that run
    at,          \* press -> where its handler or goroutine is
    hand,        \* press -> the task in hand, 0 before the first
    live,        \* the presses whose context has not ended
    registered,  \* autopilotGoals: the press (one at most) that a cancel reaches
    active,      \* ... and of the engine: the presses whose run a freeze reaches
    halted,      \* the presses whose run it has cancelled
    asked,       \* request -> where it is
    frozen,      \* whether the agent is frozen in the store
    gateway,     \* open, closing or closed (closeAutopilot)
    begun,       \* history: task -> how often its work was begun
    upset,       \* history: what has cut the goroutine of a running goal short
    restarts

record == <<status, spent, reserved>>
tables == <<record, task, run, proof>>
contexts == <<live, registered, active, halted>>
process == <<at, hand, contexts>>
requests == <<asked, frozen>>
others == <<requests, gateway, restarts>>
goalVars == <<tables, process, others, begun, upset>>

Executing == {"loop", "ask", "admit", "reserve", "reread", "refuse", "prepare", "engine",
    "claim", "activate", "resolve", "handle", "work", "worked", "stopped", "settle", "tail", "leave"}

Requests == Cancellers \cup Freezers

GoalTypeOK ==
    /\ status \in {"draft", "running", "succeeded", "failed", "cancelled"}
    /\ spent \in Nat /\ reserved \in Nat
    /\ task \in [Tasks ->
          {"pending", "running", "succeeded", "failed", "blocked", "cancelled"}]
    /\ run \in [Tasks -> {"none", "assigned", "claimed", "finalized", "uncertain"}]
    /\ proof \in [Tasks -> {"none", "good", "bad"}]
    /\ at \in [Presses -> {"new", "register", "over"} \cup Executing]
    /\ hand \in [Presses -> Tasks \cup {0}]
    /\ live \subseteq Presses /\ registered \subseteq Presses
    /\ active \subseteq Presses /\ halted \subseteq Presses
    /\ asked \in [Requests -> {"new", "stored", "answered", "over"}]
    /\ frozen \in BOOLEAN
    /\ gateway \in {"open", "closing", "closed"}
    /\ begun \in [Tasks -> Nat]
    /\ upset \subseteq {"crash", "fault", "gap"}
    /\ restarts \in 0..MaxRestarts

GoalInit ==
    /\ status = "draft" /\ spent = 0 /\ reserved = 0
    /\ task = [t \in Tasks |-> "pending"]
    /\ run = [t \in Tasks |-> "none"] /\ proof = run
    /\ at = [r \in Presses |-> "new"] /\ hand = [r \in Presses |-> 0]
    /\ live = {} /\ registered = {} /\ active = {} /\ halted = {}
    /\ asked = [c \in Requests |-> "new"] /\ frozen = FALSE
    /\ gateway = "open"
    /\ begun = [t \in Tasks |-> 0] /\ upset = {} /\ restarts = 0

\* autopilotMu is held from StartGoal to the registration, and for one step elsewhere.
MuFree == \A r \in Presses : at[r] # "register"

Goes(r, from, to) == at[r] = from /\ at' = [at EXCEPT ![r] = to]
Steps(r, from, to) ==
    Goes(r, from, to) /\ UNCHANGED <<tables, hand, contexts, others, begun, upset>>

ReadyTasks ==
    IF \E t \in Tasks : task[t] = "blocked" THEN {}
    ELSE {t \in Tasks : /\ task[t] = "pending"
                        /\ \A d \in DependsOn[t] : task[d] = "succeeded"}

Fits(t) == spent + reserved + TaskBudget[t] <= GoalBudget

Become(from, to) == [t \in Tasks |-> IF task[t] \in from THEN to ELSE task[t]]

Cancellable == status \in {"draft", "running"}

\* Fault: the reservations of a cancelled goal stay.
CancelKeepingReserve ==
    IF Cancellable
    THEN /\ status' = "cancelled"
         /\ task' = Become({"pending", "running", "blocked"}, "cancelled")
         /\ UNCHANGED <<spent, reserved, run, proof>>
    ELSE UNCHANGED tables

\* CancelGoal; a goal in any other state stays as it is.
CancelGoal ==
    IF Cancellable
    THEN /\ status' = "cancelled" /\ reserved' = 0
         /\ task' = Become({"pending", "running", "blocked"}, "cancelled")
         /\ UNCHANGED <<spent, run, proof>>
    ELSE UNCHANGED tables

-----------------------------------------------------------------------------
(* Requests: Run, Cancel, and the end of the gateway.                        *)

\* handleAutopilotRunGoal takes the mutex; StartGoal makes a draft running, once.
PressRun(r) ==
    /\ MuFree
    /\ IF gateway = "open" /\ status = "draft"
       THEN Goes(r, "new", "register") /\ status' = "running"
       ELSE Goes(r, "new", "over") /\ UNCHANGED status
    /\ UNCHANGED <<spent, reserved, task, run, proof, hand, contexts>>
    /\ UNCHANGED <<others, begun, upset>>

\* It registers the cancel function, gives the mutex back and starts the goroutine.
Register(r) ==
    /\ Goes(r, "register", "loop")
    /\ live' = live \cup {r} /\ registered' = {r}
    /\ UNCHANGED <<tables, hand, active, halted, others, begun, upset>>

\* handleAutopilotCancelGoal: first the store ...
CancelInStore(c) ==
    /\ asked[c] = "new"
    /\ CancelGoal
    /\ asked' = [asked EXCEPT ![c] = IF Cancellable THEN "stored" ELSE "over"]
    /\ UNCHANGED <<process, frozen, gateway, restarts, begun, upset>>

\* ... then the context of whoever runs the goal.
CancelContext(c) ==
    /\ MuFree
    /\ asked[c] = "stored" /\ asked' = [asked EXCEPT ![c] = "answered"]
    /\ live' = live \ registered
    /\ UNCHANGED <<tables, at, hand, registered, active, halted, frozen, gateway, restarts>>
    /\ UNCHANGED <<begun, upset>>

\* handleAutopilotFreeze: first the store, then the runs of the agent that the engine
\* knows of (CancelAutopilotAgent).
FreezeInStore(f) ==
    /\ asked[f] = "new" /\ asked' = [asked EXCEPT ![f] = "stored"]
    /\ frozen' = TRUE
    /\ UNCHANGED <<tables, process, gateway, restarts, begun, upset>>

FreezeRuns(f) ==
    /\ asked[f] = "stored" /\ asked' = [asked EXCEPT ![f] = "answered"]
    /\ halted' = halted \cup active
    /\ UNCHANGED <<tables, at, hand, live, registered, active, frozen, gateway, restarts>>
    /\ UNCHANGED <<begun, upset>>

\* The context ends with the goal's time.
Deadline(r) ==
    /\ r \in live /\ live' = live \ {r}
    /\ UNCHANGED <<tables, at, hand, registered, active, halted, others, begun, upset>>

\* closeAutopilot cancels every goal and waits for its goroutine.
CloseGateway ==
    /\ MuFree
    /\ gateway = "open" /\ gateway' = "closing"
    /\ live' = live \ registered
    /\ UNCHANGED <<tables, at, hand, registered, active, halted, requests, restarts>>
    /\ UNCHANGED <<begun, upset>>

GatewayClosed ==
    /\ gateway = "closing" /\ gateway' = "closed"
    /\ \A r \in Presses : at[r] \notin Executing
    /\ UNCHANGED <<tables, process, requests, restarts, begun, upset>>

Cut(how) == upset' = IF status = "running" THEN upset \cup {how} ELSE upset

\* Fault: a goal that was cut short is a draft again, with the tasks it had left.
RestartAfresh ==
    LET redone(t) == status = "running" /\ task[t] = "running" IN
    /\ restarts < MaxRestarts /\ restarts' = restarts + 1
    /\ status' = IF status = "running" THEN "draft" ELSE status
    /\ reserved' = IF status = "running" THEN 0 ELSE reserved
    /\ task' = [t \in Tasks |-> IF redone(t) THEN "pending" ELSE task[t]]
    /\ run' = [t \in Tasks |-> IF redone(t) THEN "none" ELSE run[t]]
    /\ at' = [r \in Presses |-> IF at[r] = "new" THEN "new" ELSE "over"]
    /\ asked' = [c \in Requests |-> IF asked[c] = "stored" THEN "over" ELSE asked[c]]
    /\ live' = {} /\ registered' = {} /\ active' = {} /\ halted' = {}
    /\ gateway' = "open"
    /\ UNCHANGED <<spent, proof, hand, frozen, begun, upset>>

\* The process ends, closed or not, and the store is opened again: what was running
\* is put aside for a person, never run again (NewStore).
Restart ==
    /\ restarts < MaxRestarts /\ restarts' = restarts + 1
    /\ run' = [t \in Tasks |-> IF run[t] = "claimed" THEN "uncertain" ELSE run[t]]
    /\ task' = Become({"running"}, "blocked")
    /\ at' = [r \in Presses |-> IF at[r] = "new" THEN "new" ELSE "over"]
    /\ asked' = [c \in Requests |-> IF asked[c] = "stored" THEN "over" ELSE asked[c]]
    /\ live' = {} /\ registered' = {} /\ active' = {} /\ halted' = {}
    /\ gateway' = "open"
    /\ IF gateway = "closed" THEN UNCHANGED upset ELSE Cut("crash")
    /\ UNCHANGED <<record, proof, hand, frozen, begun>>

-----------------------------------------------------------------------------
(* The goroutine (executeAutopilotGoal).                                     *)

Loop(r) == Steps(r, "loop", IF r \in live THEN "ask" ELSE "tail")

\* ReadyGoalTasks: a context that has ended since the test fails the query, and the
\* goroutine returns without a word to the store.
Ask(r) ==
    /\ IF r \in live /\ status = "running" /\ ReadyTasks # {}
       THEN \E t \in ReadyTasks :
              /\ \A u \in ReadyTasks : t <= u
              /\ Goes(r, "ask", "admit")
              /\ hand' = [hand EXCEPT ![r] = t]
              /\ UNCHANGED upset
       ELSE /\ Goes(r, "ask", "leave")
            /\ IF r \in live THEN UNCHANGED upset ELSE Cut("gap")
            /\ UNCHANGED hand
    /\ UNCHANGED <<tables, contexts, others, begun>>

\* StartGoalTask looks first, at the time left too ...
Admit(r) ==
    \E inTime \in BOOLEAN :
        LET may == /\ r \in live /\ status = "running"
                   /\ hand[r] \in ReadyTasks /\ Fits(hand[r]) /\ inTime
        IN Steps(r, "admit", IF may THEN "reserve" ELSE "refuse")

\* ... then reserves the budget and takes the task, in one transaction ...
Reserve(r) ==
    LET t == hand[r] IN
    /\ at[r] = "reserve"
    /\ IF r \in live /\ status = "running" /\ Fits(t) /\ task[t] = "pending"
       THEN /\ Goes(r, "reserve", "reread")
            /\ reserved' = reserved + TaskBudget[t]
            /\ task' = [task EXCEPT ![t] = "running"]
            /\ run' = [run EXCEPT ![t] = "assigned"] /\ proof' = [proof EXCEPT ![t] = "none"]
       ELSE Goes(r, "reserve", "refuse") /\ UNCHANGED <<reserved, task, run, proof>>
    /\ UNCHANGED <<status, spent, hand, contexts, others, begun, upset>>

\* ... and reads the task again, with the same context.
Reread(r) == Steps(r, "reread", IF r \in live THEN "prepare" ELSE "refuse")

\* Fault: a refused admission is not recorded.
FailSilently(r) == Steps(r, "refuse", "leave")

\* FailGoal: no more work is admitted; a task that is running is left alone.
FailGoal(r) ==
    /\ Goes(r, "refuse", "leave")
    /\ IF status = "running"
       THEN status' = "failed" /\ task' = Become({"pending"}, "blocked")
       ELSE UNCHANGED <<status, task>>
    /\ UNCHANGED <<spent, reserved, run, proof, hand, contexts>>
    /\ UNCHANGED <<others, begun, upset>>

\* The results of the dependencies are read.
Prepare(r) == Steps(r, "prepare", IF r \in live THEN "engine" ELSE "settle")

\* Handle refuses the run, because the agent is frozen or for a reason of its own, or
\* claims it (ClaimRun), registers it ...
Turned(r) == Steps(r, "engine", "settle") \/ Steps(r, "claim", "settle")

Admitted(r) == r \in live /\ ~frozen /\ Steps(r, "engine", "claim")

ClaimRun(r) ==
    /\ r \in live
    /\ Goes(r, "claim", "activate")
    /\ run' = [run EXCEPT ![hand[r]] = "claimed"]
    /\ UNCHANGED <<record, task, proof, hand, contexts, others, begun, upset>>

Activate(r) ==
    /\ Goes(r, "activate", "resolve")
    /\ active' = active \cup {r}
    /\ UNCHANGED <<tables, hand, live, registered, halted, others, begun, upset>>

\* Its context is below that of the press.
Runs(r) == r \in live /\ r \notin halted

\* Fault: a run that was admitted is not looked at again.
ResolveBlind(r) == Steps(r, "resolve", IF Runs(r) THEN "handle" ELSE "stopped")

\* ... and looks again whether the agent is frozen.
Resolve(r) == Steps(r, "resolve", IF Runs(r) /\ ~frozen THEN "handle" ELSE "stopped")

\* The first tool is called: each call tests the context (missionToolAllowed).
Begin(r) ==
    /\ Runs(r)
    /\ Goes(r, "handle", "work")
    /\ begun' = [begun EXCEPT ![hand[r]] = @ + 1]
    /\ UNCHANGED <<tables, hand, contexts, others, upset>>

\* The run ends with an answer or with an error.
Answered(r) == \/ Runs(r) /\ Steps(r, "handle", "worked")
               \/ Steps(r, "work", "worked")

Failed(r) == Steps(r, "handle", "stopped") \/ Steps(r, "work", "stopped")

\* Handle returns.
Leaves(r) ==
    /\ at' = [at EXCEPT ![r] = "settle"]
    /\ active' = active \ {r} /\ halted' = halted \ {r}
    /\ UNCHANGED <<hand, live, registered>>

\* SaveProof: an answer may still fail the checks of the mission.
SaveProof(r) ==
    /\ \/ at[r] = "worked" /\ \E p \in {"good", "bad"} : proof' = [proof EXCEPT ![hand[r]] = p]
       \/ at[r] = "stopped" /\ proof' = [proof EXCEPT ![hand[r]] = "bad"]
    /\ run' = [run EXCEPT ![hand[r]] = "finalized"]
    /\ Leaves(r)
    /\ UNCHANGED <<record, task, others, begun, upset>>

\* The database fails the proof, or the settlement below.
ProofLost(r) ==
    /\ at[r] \in {"worked", "stopped"} /\ Leaves(r)
    /\ "fault" \notin upset /\ Cut("fault")
    /\ UNCHANGED <<tables, others, begun>>

FinishLost(r) ==
    /\ Goes(r, "settle", "leave")
    /\ "fault" \notin upset /\ Cut("fault")
    /\ UNCHANGED <<tables, hand, contexts, others, begun>>

\* What a run may turn out to have cost; nothing that is known, without a proof.
Charges(t) == IF proof[t] = "none" THEN {0} ELSE {0, TaskBudget[t], TaskBudget[t] + 1}

\* Fault: a run without a proof counts as a success if it gave an answer.
FinishUnproved(r) ==
    LET t == hand[r] IN
    /\ at[r] = "settle" /\ task[t] = "running"
    /\ task' = [task EXCEPT ![t] = IF proof[t] = "bad" THEN "failed" ELSE "succeeded"]
    /\ status' = IF proof[t] = "bad" THEN "failed"
                 ELSE IF \A u \in Tasks \ {t} : task[u] = "succeeded" THEN "succeeded"
                 ELSE status
    /\ at' = [at EXCEPT ![r] = IF status' = "running" THEN "loop" ELSE "leave"]
    /\ reserved' = reserved - TaskBudget[t]
    /\ UNCHANGED <<spent, run, proof, hand, contexts, others, begun, upset>>

\* FinishGoalTask, in one transaction: a success needs a proof that is good, and its
\* cost and its duration known and within the budgets.
FinishGoalTask(r) ==
    LET t == hand[r] IN
    /\ at[r] = "settle"
    /\ IF task[t] # "running" THEN Goes(r, "settle", "leave") /\ UNCHANGED <<record, task>>
       ELSE \E charge \in Charges(t), measured \in BOOLEAN :
         LET good == /\ proof[t] = "good" /\ measured
                     /\ charge <= TaskBudget[t] /\ spent + charge <= GoalBudget
         IN /\ task' = IF good THEN [task EXCEPT ![t] = "succeeded"]
                       ELSE [Become({"pending"}, "blocked") EXCEPT ![t] = "failed"]
            /\ status' = IF ~good THEN "failed"
                         ELSE IF status = "running" /\ \A u \in Tasks : task'[u] = "succeeded"
                         THEN "succeeded" ELSE status
            /\ spent' = spent + charge
            /\ reserved' = IF reserved > TaskBudget[t] THEN reserved - TaskBudget[t] ELSE 0
            /\ Goes(r, "settle", IF status' = "running" THEN "loop" ELSE "leave")
    /\ UNCHANGED <<run, proof, hand, contexts, others, begun, upset>>

\* The context ended between two tasks.
Tail(r) ==
    /\ Goes(r, "tail", "leave")
    /\ CancelGoal
    /\ UNCHANGED <<hand, contexts, others, begun, upset>>

\* The deferred calls.
Leave(r) ==
    /\ MuFree
    /\ Goes(r, "leave", "over")
    /\ live' = live \ {r} /\ registered' = {}
    /\ UNCHANGED <<tables, hand, active, halted, others, begun, upset>>

GoroutineStep(r) ==
    \/ Register(r) \/ Loop(r) \/ Ask(r) \/ Admit(r) \/ Reserve(r) \/ Reread(r)
    \/ FailGoal(r) \/ Prepare(r) \/ Turned(r) \/ Admitted(r) \/ ClaimRun(r)
    \/ Activate(r) \/ Resolve(r) \/ Begin(r) \/ Answered(r) \/ Failed(r)
    \/ SaveProof(r) \/ ProofLost(r) \/ FinishGoalTask(r) \/ FinishLost(r)
    \/ Tail(r) \/ Leave(r)

GoalNext ==
    \/ \E r \in Presses : PressRun(r) \/ Deadline(r) \/ GoroutineStep(r)
    \/ \E c \in Cancellers : CancelInStore(c) \/ CancelContext(c)
    \/ \E f \in Freezers : FreezeInStore(f) \/ FreezeRuns(f)
    \/ CloseGateway \/ GatewayClosed \/ Restart

GoalSpec == GoalInit /\ [][GoalNext]_goalVars

-----------------------------------------------------------------------------
(* Properties.                                                               *)

\* The work of a task is begun once at most, and after its dependencies have
\* succeeded, whoever presses Run again and whatever a crash cuts short ("no task is
\* replayed after a restart").
WorkOnce ==
    \A t \in Tasks :
        /\ begun[t] <= 1
        /\ begun[t] = 1 => \A d \in DependsOn[t] : task[d] = "succeeded"

\* A task has succeeded only with a good proof of a run that is over, and a goal only
\* with all its tasks, within its budget.
SuccessIsProved ==
    /\ \A t \in Tasks : task[t] = "succeeded" => run[t] = "finalized" /\ proof[t] = "good"
    /\ status = "succeeded" =>
          (\A t \in Tasks : task[t] = "succeeded") /\ spent <= GoalBudget /\ reserved = 0

\* The tasks whose run may still cost something.
Holding ==
    {t \in Tasks : task[t] = "running" \/ (task[t] = "blocked" /\ run[t] # "none")}

\* One task at most holds a reservation, and what is reserved is its budget, on every
\* way out of a run; until the goal has failed, that and what was spent fit in its budget.
ReservedForRuns ==
    /\ \A t \in Holding : reserved = TaskBudget[t] /\ Holding = {t}
    /\ Holding = {} => reserved = 0
    /\ status \in {"running", "succeeded"} => spent + reserved <= GoalBudget

\* Once Cancel or Freeze has been answered, and from the moment the gateway closes, no
\* work of the goal is begun, however far its next run had come ("no further task can
\* start after cancellation"; "Close the freeze/admission race").
StoppedStaysStopped ==
    [][begun' # begun => gateway = "open" /\ \A c \in Requests : asked[c] # "answered"]_goalVars

\* A goal that runs comes to an end, unless its goroutine was cut short: by a crash, by
\* an error of the database, or by the end of its time just before a query.
GoalsSettle == status = "running" ~> (status # "running" \/ upset # {})
=============================================================================
