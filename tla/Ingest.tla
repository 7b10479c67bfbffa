-------------------------------- MODULE Ingest --------------------------------
(***************************************************************************)
(* Background ingestion of documents into a knowledge base (catalog          *)
(* internal/knowledge/jobs.go, worker internal/knowledge/worker.go, API      *)
(* internal/gateway/knowledge_jobs.go).  An upload is spooled to disk and    *)
(* recorded as a row of the catalog; one worker claims rows, retries what    *)
(* fails after a back-off, and parks what keeps failing.  The rows and the   *)
(* files survive the process; the worker, its back-off timers and the        *)
(* requests do not.                                                          *)
(*                                                                          *)
(* One action is one statement on the catalog, one file operation, or the    *)
(* commit of the document.  The content of a document is its job.            *)
(***************************************************************************)
EXTENDS Naturals, FiniteSets

CONSTANTS
    Jobs,         \* uploads: each becomes one job
    Operators,    \* requests of the Retry button
    MaxAttempts,  \* runs of a job before it is parked (3 in the code)
    MaxCrashes,   \* bound on the crashes of a behaviour
    MaxStops,     \* bound on the orderly shutdowns of a behaviour
    MaxRetries,   \* bound on the presses of the Retry button
    Faults        \* what may go wrong: subset of {"save", "panic"}

ASSUME AttemptsAssumption == MaxAttempts \in Nat \ {0}
ASSUME BoundsAssumption == MaxCrashes \in Nat /\ MaxStops \in Nat /\ MaxRetries \in Nat
ASSUME FaultsAssumption == Faults \subseteq {"save", "panic"}

VARIABLES
    row,       \* the catalog: job -> its row, for the jobs it holds
    spool,     \* jobs whose bytes are on disk
    docs,      \* job -> how many documents of it the knowledge base has
    up,        \* the process: "down", "up", or "stopping" (its context is cancelled)
    worker,    \* the claim loop: where it is, and the row it claimed
    timers,    \* job -> how many back-off goroutines of it are waiting
    uploads,   \* jobs whose upload request has spooled and not yet enqueued
    retry,     \* the Retry requests
    spent,     \* history: runs of a job that failed or were cut short, per budget
    spared,    \* history: runs its budget counts that did neither, per budget
    cuts,      \* history: runs of a job that were cut short
    contested, \* history: jobs two presses of Retry were about at once, per process
    crashes, stops, retries

catalog == <<row, spool, docs>>
process == <<up, timers, uploads, retry>>
bounds == <<crashes, stops, retries>>
history == <<spent, spared, cuts, contested, bounds>>
vars == <<catalog, process, worker, history>>

Statuses == {"queued", "running", "done", "failed"}
Row == [status : Statuses, attempt : Nat, age : Nat]

NoRows == [j \in {} |-> [status |-> "queued", attempt |-> 0, age |-> 0]]

WorkerPCs == {"read", "embed", "stored", "failed", "clean", "discard"}
At(pc, j, attempt) == [pc |-> pc, job |-> j, attempt |-> attempt]
Resting == [pc |-> "idle"]

NoTimers == [j \in Jobs |-> 0]

RetryPCs == {"stat", "requeue"}
NoRetry == [pc |-> "idle"]

Has(j) == j \in DOMAIN row
In(j, statuses) == Has(j) /\ row[j].status \in statuses
Terminal(j) == In(j, {"done", "failed"})
Working == worker # Resting

SetStatus(j, status) == row' = [row EXCEPT ![j].status = status]

\* A statement on the catalog may fail, and so may the read of the row after it.
MayFail == "save" \in Faults

\* The step goes on, or ends because the row it has just written cannot be read.
Proceed(pc) == worker' = [worker EXCEPT !.pc = pc] \/ (MayFail /\ worker' = Resting)

\* The worker is in the middle of a run.
Running == Working /\ worker.pc \in {"read", "embed", "stored", "failed"}

\* The history of a run that failed, of one that did not, and of one that was cut
\* short.
Spend(j) == spent' = [spent EXCEPT ![j] = @ + 1]
Spare(j) == spared' = [spared EXCEPT ![j] = @ + 1]
CutShort ==
    /\ IF Running THEN Spend(worker.job) /\ cuts' = [cuts EXCEPT ![worker.job] = @ + 1]
                  ELSE UNCHANGED <<cuts, spent>>
    /\ UNCHANGED spared

Init ==
    /\ row = NoRows
    /\ spool = {}
    /\ docs = [j \in Jobs |-> 0]
    /\ up = "up" /\ worker = Resting
    /\ timers = NoTimers /\ uploads = {}
    /\ retry = [o \in Operators |-> NoRetry]
    /\ spent = [j \in Jobs |-> 0] /\ cuts = [j \in Jobs |-> 0]
    /\ spared = [j \in Jobs |-> 0] /\ contested = {}
    /\ crashes = 0 /\ stops = 0 /\ retries = 0

-----------------------------------------------------------------------------
(* Uploads: the bytes first, then the row.                                   *)

Upload(j) ==
    /\ up # "down" /\ ~Has(j) /\ j \notin spool
    /\ spool' = spool \cup {j}
    /\ uploads' = uploads \cup {j}
    /\ UNCHANGED <<row, docs, up, timers, retry, worker, history>>

\* EnqueueIngest: the row is as old as the catalog is long (created_at).
Enqueue(j) ==
    /\ j \in uploads
    /\ uploads' = uploads \ {j}
    /\ row' = [k \in DOMAIN row \cup {j} |->
                  IF k = j
                  THEN [status |-> "queued", attempt |-> 0, age |-> Cardinality(DOMAIN row)]
                  ELSE row[k]]
    /\ UNCHANGED <<spool, docs, up, timers, retry, worker, history>>

EnqueueFails(j) ==
    /\ j \in uploads /\ MayFail
    /\ uploads' = uploads \ {j}
    /\ spool' = spool \ {j}
    /\ UNCHANGED <<row, docs, up, timers, retry, worker, history>>

-----------------------------------------------------------------------------
(* The worker.                                                               *)

Oldest == {j \in DOMAIN row :
             /\ row[j].status = "queued"
             /\ \A k \in DOMAIN row : row[k].status = "queued" => row[j].age <= row[k].age}

\* Fault: the claim counts the attempt and does not mark the row.
ClaimUnmarked(j) ==
    /\ up = "up" /\ ~Working /\ j \in Oldest
    /\ row' = [row EXCEPT ![j].attempt = @ + 1]
    /\ worker' = At("read", j, row'[j].attempt)
    /\ UNCHANGED <<spool, docs, process, history>>

\* ClaimNextIngest: the oldest queued row, marked and counted in one statement,
\* then read; a row that cannot be read is marked all the same.
Claim(j) ==
    /\ up = "up" /\ ~Working /\ j \in Oldest
    /\ row' = [row EXCEPT ![j].status = "running", ![j].attempt = @ + 1]
    /\ \/ /\ worker' = At("read", j, row'[j].attempt)
          /\ UNCHANGED history
       \/ /\ MayFail
          /\ Spend(j) /\ cuts' = [cuts EXCEPT ![j] = @ + 1]
          /\ UNCHANGED <<worker, spared, contested, bounds>>
    /\ UNCHANGED <<spool, docs, process>>

RunFails ==
    /\ worker' = [worker EXCEPT !.pc = "failed"]
    /\ UNCHANGED <<catalog, process, history>>

\* The bytes are read once, at the start of the run.
Read ==
    /\ worker.pc = "read"
    /\ \/ /\ worker.job \in spool
          /\ worker' = [worker EXCEPT !.pc = "embed"]
          /\ UNCHANGED <<catalog, process, history>>
       \/ RunFails

\* Extraction and embedding end with one transaction, or with an error.
Store ==
    /\ worker.pc = "embed"
    /\ \/ /\ docs' = [docs EXCEPT ![worker.job] = @ + 1]
          /\ worker' = [worker EXCEPT !.pc = "stored"]
          /\ UNCHANGED <<row, spool, process, history>>
       \/ RunFails

\* safeStep: a panic of an extractor ends the step, wherever it came from.
Panic ==
    /\ worker.pc = "embed" /\ "panic" \in Faults
    /\ worker' = Resting
    /\ CutShort
    /\ UNCHANGED <<catalog, process, contested, bounds>>

\* A statement that fails ends the step as well.
StepFails ==
    /\ worker.pc \in {"stored", "failed"} /\ MayFail
    /\ worker.pc = "failed" => up = "stopping" \/ worker.attempt >= MaxAttempts
    /\ worker' = Resting
    /\ CutShort
    /\ UNCHANGED <<catalog, process, contested, bounds>>

FinishDone ==
    /\ worker.pc = "stored"
    /\ SetStatus(worker.job, "done")
    /\ Proceed("clean")
    /\ Spare(worker.job)
    /\ UNCHANGED <<spool, docs, process, spent, cuts, contested, bounds>>

Clean ==
    /\ worker.pc = "clean"
    /\ spool' = spool \ {worker.job}
    /\ worker' = Resting
    /\ UNCHANGED <<row, docs, process, history>>

\* "A cancelled context is a shutdown, not a failure": the row goes back to the
\* queue, with the attempt its claim has counted.
RequeueOnStop ==
    /\ worker.pc = "failed" /\ up = "stopping"
    /\ SetStatus(worker.job, "queued")
    /\ worker' = Resting
    /\ Spare(worker.job)
    /\ UNCHANGED <<spool, docs, process, spent, cuts, contested, bounds>>

BackOff ==
    /\ worker.pc = "failed" /\ up = "up" /\ worker.attempt < MaxAttempts
    /\ timers' = [timers EXCEPT ![worker.job] = @ + 1]
    /\ worker' = Resting
    /\ Spend(worker.job)
    /\ UNCHANGED <<catalog, up, uploads, retry, spared, cuts, contested, bounds>>

Park ==
    /\ worker.pc = "failed" /\ up = "up" /\ worker.attempt >= MaxAttempts
    /\ SetStatus(worker.job, "failed")
    /\ Spend(worker.job)
    /\ Proceed("discard")
    /\ UNCHANGED <<spool, docs, process, spared, cuts, contested, bounds>>

\* The dead-letter sink is not wired (wire.go sets none), so parking ends here.
Discard ==
    /\ worker.pc = "discard"
    /\ spool' = spool \ {worker.job}
    /\ worker' = Resting
    /\ UNCHANGED <<row, docs, process, history>>

\* The back-off goroutine: the row as it is by then goes back to the queue.
TimerFires(j) ==
    /\ timers[j] > 0 /\ up # "down"
    /\ timers' = [timers EXCEPT ![j] = @ - 1]
    /\ SetStatus(j, "queued") \/ (MayFail /\ UNCHANGED row)
    /\ UNCHANGED <<spool, docs, up, uploads, retry, worker, history>>

TimerCancelled(j) ==
    /\ timers[j] > 0 /\ up = "stopping"
    /\ timers' = [timers EXCEPT ![j] = @ - 1]
    /\ UNCHANGED <<catalog, up, uploads, retry, worker, history>>

-----------------------------------------------------------------------------
(* handleRetryIngestJob: three steps, no lock across them: presses of the     *)
(* button, of one operator or of several, overlap as they like.              *)

\* Somebody's press about the job is under way.
Asked(j) == \E o \in Operators : retry[o] # NoRetry /\ retry[o].job = j

RetryCheck(o, j) ==
    /\ up # "down" /\ retry[o] = NoRetry /\ Terminal(j)
    /\ retries < MaxRetries
    /\ retries' = retries + 1
    /\ retry' = [retry EXCEPT ![o] = [pc |-> "stat", job |-> j]]
    /\ contested' = IF Asked(j) THEN contested \cup {j} ELSE contested
    /\ UNCHANGED <<catalog, up, timers, uploads, worker, spent, spared, cuts, crashes, stops>>

RetryStat(o) ==
    /\ retry[o].pc = "stat"
    /\ retry' = [retry EXCEPT ![o] = IF @.job \in spool THEN [@ EXCEPT !.pc = "requeue"]
                                     ELSE NoRetry]
    /\ UNCHANGED <<catalog, up, timers, uploads, worker, history>>

\* A new budget.  What is spent by then is forgotten with a job that has ended; a
\* run that is under way all the same still carries the count it started with.
NewBudget(j) ==
    /\ spent' = [spent EXCEPT ![j] = 0]
    /\ spared' = [spared EXCEPT ![j] = IF Terminal(j) THEN 0 ELSE @ + spent[j]]

\* Fault: the retry does not clear the count.
RetryKeepsCount(o) ==
    LET j == retry[o].job IN
    /\ retry[o].pc = "requeue"
    /\ row' = [row EXCEPT ![j].status = "queued"]
    /\ NewBudget(j)
    /\ retry' = [retry EXCEPT ![o] = NoRetry]
    /\ UNCHANGED <<spool, docs, up, timers, uploads, worker, cuts, contested, bounds>>

\* The row goes back to the queue as it is by then, running or queued as well.
RetryRequeue(o) ==
    LET j == retry[o].job IN
    /\ retry[o].pc = "requeue"
    /\ \/ /\ row' = [row EXCEPT ![j].status = "queued", ![j].attempt = 0]
          /\ NewBudget(j)
       \/ MayFail /\ UNCHANGED <<row, spent, spared>>
    /\ retry' = [retry EXCEPT ![o] = NoRetry]
    /\ UNCHANGED <<spool, docs, up, timers, uploads, worker, cuts, contested, bounds>>

-----------------------------------------------------------------------------
(* The process.                                                              *)

Stop ==
    /\ up = "up" /\ stops < MaxStops
    /\ up' = "stopping"
    /\ stops' = stops + 1
    /\ UNCHANGED <<catalog, timers, uploads, retry, worker, spent, spared, cuts, contested,
                   crashes, retries>>

\* Everything that is not on disk is gone.
End ==
    /\ up' = "down" /\ worker' = Resting
    /\ timers' = NoTimers /\ uploads' = {}
    /\ retry' = [o \in Operators |-> NoRetry]
    /\ contested' = {}
    /\ CutShort
    /\ UNCHANGED <<catalog, stops, retries>>

Exit == up = "stopping" /\ End /\ UNCHANGED crashes

Crash ==
    /\ up # "down" /\ crashes < MaxCrashes
    /\ crashes' = crashes + 1
    /\ End

\* Fault: the catalog is taken as it was left.
BootBlindly ==
    /\ up = "down"
    /\ up' = "up"
    /\ UNCHANGED <<catalog, timers, uploads, retry, worker, history>>

\* RecoverStaleIngests, then the loop.
Boot ==
    /\ up = "down"
    /\ up' = "up"
    /\ \/ row' = [j \in DOMAIN row |-> IF row[j].status = "running"
                                       THEN [row[j] EXCEPT !.status = "queued"] ELSE row[j]]
       \/ MayFail /\ UNCHANGED row
    /\ UNCHANGED <<spool, docs, timers, uploads, retry, worker, history>>

-----------------------------------------------------------------------------
WorkerStep ==
    \/ \E j \in Jobs : Claim(j)
    \/ Read \/ Store \/ Panic \/ StepFails \/ FinishDone \/ Clean
    \/ RequeueOnStop \/ BackOff \/ Park \/ Discard

Next ==
    \/ WorkerStep
    \/ \E j \in Jobs : Upload(j) \/ Enqueue(j) \/ EnqueueFails(j)
                          \/ TimerFires(j) \/ TimerCancelled(j)
    \/ \E o \in Operators : RetryStat(o) \/ RetryRequeue(o) \/ \E j \in Jobs : RetryCheck(o, j)
    \/ Stop \/ Exit \/ Crash \/ Boot

Spec == Init /\ [][Next]_vars

\* The loop goes on, a timer comes due, a process that stops ends, and the
\* service manager starts the gateway again.
Fairness ==
    /\ WF_vars(WorkerStep) /\ WF_vars(Exit) /\ WF_vars(Boot)
    /\ \A j \in Jobs : WF_vars(TimerFires(j))

-----------------------------------------------------------------------------
TypeOK ==
    /\ DOMAIN row \subseteq Jobs /\ \A j \in DOMAIN row : row[j] \in Row
    /\ spool \subseteq Jobs /\ timers \in [Jobs -> Nat] /\ uploads \subseteq Jobs
    /\ docs \in [Jobs -> Nat] /\ spent \in [Jobs -> Nat] /\ cuts \in [Jobs -> Nat]
    /\ spared \in [Jobs -> Nat] /\ contested \subseteq Jobs
    /\ up \in {"down", "up", "stopping"}
    /\ worker = Resting \/ worker \in [pc : WorkerPCs, job : DOMAIN row, attempt : Nat]
    /\ \A o \in Operators : retry[o] = NoRetry \/ retry[o] \in [pc : RetryPCs, job : DOMAIN row]
    /\ crashes \in Nat /\ stops \in Nat /\ retries \in Nat

\* What the worker holds, nobody else can claim: its row stays running and no
\* timer is about to put it back (ClaimNextIngest, the back-off goroutine).  Only
\* presses of Retry that overlap, on this very job and in this process, can break
\* that: each has checked that the job had ended, and none looks again.
ClaimIsExclusive ==
    Running /\ worker.job \notin contested =>
        In(worker.job, {"running"}) /\ timers[worker.job] = 0

\* A job is done only when the knowledge base has its document (step).
DoneIsStored == \A j \in Jobs : In(j, {"done"}) => docs[j] > 0

\* A second copy of a document takes a run that was cut short after the first
\* (AddDocument has no idempotency key) or a press of Retry: a back-off never
\* ingests again what an earlier run of the job has stored.
CopiesNeedCuts == \A j \in Jobs : docs[j] <= 1 + cuts[j] + retries

\* The documents of a job add up: at least the one that done promises, and no copy
\* that nobody is to blame for.
DocumentsAddUp == DoneIsStored /\ CopiesNeedCuts

\* A job is parked only once its budget has been spent on runs that failed or
\* were cut short ("failed (after the attempt budget is spent)"), and on those that
\* the count of the row holds although they did neither: a run that a shutdown
\* handed back, whose attempt is burnt all the same; and, where presses of Retry
\* overlap, a run whose success a late timer undid, and failures that a press wiped
\* while the next run was counting on from them.
ParkedAfterBudget ==
    \A j \in Jobs : In(j, {"failed"}) => spent[j] + spared[j] >= MaxAttempts

\* Retries are bounded even where presses overlap: beyond the attempt budget and the
\* runs that were cut short, a job spends at most one run for each press, because
\* each press puts one row back into the queue and pays for one run at most.
PressesAreBounded == \A j \in Jobs : spent[j] <= MaxAttempts + cuts[j] + retries

\* While the process runs, a running row is being run or waits for its timer
\* ("the job follows the normal retry-then-park path").
RunningIsOwned ==
    up = "up" => \A j \in Jobs : In(j, {"running"}) =>
        (Working /\ worker.job = j) \/ timers[j] > 0
=============================================================================
