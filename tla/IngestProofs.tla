----------------------------- MODULE IngestProofs -----------------------------
(*****************************************************************************)
(* Proofs about Ingest, for any number of uploads, crashes, shutdowns and    *)
(* presses of Retry, however they overlap.  Presses that do can put a job    *)
(* that is running back into the queue: ClaimIsExclusive names the jobs they *)
(* may do that to, and ParkedAfterBudget what they may take from a budget.   *)
(*****************************************************************************)
EXTENDS Ingest, TLAPS, FiniteSetTheorems

\* The catalog is a finite table of well-formed rows.
Rows ==
    /\ DOMAIN row \subseteq Jobs /\ IsFiniteSet(DOMAIN row)
    /\ row = [j \in DOMAIN row |-> row[j]]
    /\ \A j \in DOMAIN row : row[j] \in Row

Claims == [pc : WorkerPCs, job : DOMAIN row, attempt : Nat]
Presses == [pc : RetryPCs, job : DOMAIN row]

WorkerTyped == worker = Resting \/ worker \in Claims
RetryTyped ==
    /\ retry = [o \in Operators |-> retry[o]]
    /\ \A o \in Operators : retry[o] = NoRetry \/ retry[o] \in Presses

Sets ==
    /\ spool \subseteq Jobs /\ timers \in [Jobs -> Nat] /\ uploads \subseteq Jobs
    /\ up \in {"down", "up", "stopping"}
Counts ==
    /\ docs \in [Jobs -> Nat] /\ spent \in [Jobs -> Nat] /\ cuts \in [Jobs -> Nat]
    /\ spared \in [Jobs -> Nat] /\ contested \subseteq Jobs
    /\ crashes \in Nat /\ stops \in Nat /\ retries \in Nat

Typed == Rows /\ Sets /\ Counts /\ WorkerTyped /\ RetryTyped

-----------------------------------------------------------------------------
(* The rows.                                                                 *)

\* A statement that sets a status leaves the table, the counts and the other
\* rows alone.
LEMMA StatusSet ==
  ASSUME Rows, NEW j \in Jobs, NEW s \in Statuses, SetStatus(j, s)
  PROVE  /\ Rows' /\ DOMAIN row' = DOMAIN row
         /\ \A k \in DOMAIN row : /\ row'[k].attempt = row[k].attempt
                                  /\ row'[k].status = IF k = j THEN s ELSE row[k].status
<1>1. DOMAIN row' = DOMAIN row /\ row' = [k \in DOMAIN row |-> row'[k]]
  BY DEF SetStatus
<1>2. ASSUME NEW k \in DOMAIN row
      PROVE  row'[k] = IF k = j THEN [row[k] EXCEPT !.status = s] ELSE row[k]
  BY DEF SetStatus, Rows
<1>3. ASSUME NEW k \in DOMAIN row
      PROVE  /\ row'[k] \in Row /\ row'[k].attempt = row[k].attempt
             /\ row'[k].status = IF k = j THEN s ELSE row[k].status
  BY <1>2 DEF Rows, Row
<1>4. QED
  BY <1>1, <1>3 DEF Rows

LEMMA RowAdded ==
  ASSUME Rows, NEW j \in Jobs, Enqueue(j)
  PROVE  /\ Rows' /\ DOMAIN row' = DOMAIN row \cup {j}
         /\ row'[j].attempt = 0 /\ row'[j].status = "queued"
         /\ \A k \in DOMAIN row : k # j => row'[k] = row[k]
<1>1. DOMAIN row' = DOMAIN row \cup {j} /\ row' = [k \in DOMAIN row' |-> row'[k]]
  BY DEF Enqueue
<1>2. Cardinality(DOMAIN row) \in Nat /\ IsFiniteSet(DOMAIN row')
  BY <1>1, FS_CardinalityType, FS_AddElement DEF Rows
<1>3. /\ row'[j] = [status |-> "queued", attempt |-> 0, age |-> Cardinality(DOMAIN row)]
      /\ \A k \in DOMAIN row : k # j => row'[k] = row[k]
  BY <1>1 DEF Enqueue
<1>4. row'[j] \in Row
  BY <1>2, <1>3 DEF Row, Statuses
<1>5. QED
  BY <1>1, <1>2, <1>3, <1>4 DEF Rows

LEMMA RowClaimed ==
  ASSUME Rows, NEW j \in Jobs, Claim(j)
  PROVE  /\ Rows' /\ DOMAIN row' = DOMAIN row /\ j \in DOMAIN row
         /\ row[j].status = "queued" /\ row'[j].status = "running"
         /\ row'[j].attempt = row[j].attempt + 1
         /\ \A k \in DOMAIN row : k # j => row'[k] = row[k]
<1>1. j \in DOMAIN row /\ row[j].status = "queued" /\ row[j] \in Row
  BY DEF Claim, Oldest, Rows
<1>2. DOMAIN row' = DOMAIN row /\ row' = [k \in DOMAIN row |-> row'[k]]
  BY DEF Claim
<1>3. row'[j] = [row[j] EXCEPT !.status = "running", !.attempt = row[j].attempt + 1]
  BY <1>1 DEF Claim, Rows
<1>4. \A k \in DOMAIN row : k # j => row'[k] = row[k]
  BY DEF Claim, Rows
<1>5. /\ row'[j] \in Row /\ row'[j].status = "running"
      /\ row'[j].attempt = row[j].attempt + 1
  <2>1. row[j].attempt + 1 \in Nat /\ row[j].age \in Nat /\ "running" \in Statuses
    BY <1>1 DEF Row, Statuses
  <2>2. row'[j] = [status |-> "running", attempt |-> row[j].attempt + 1, age |-> row[j].age]
    BY <1>1, <1>3 DEF Row
  <2>3. QED
    BY <2>1, <2>2 DEF Row
<1>6. QED
  BY <1>1, <1>2, <1>4, <1>5 DEF Rows

LEMMA RowRetried ==
  ASSUME Rows, NEW j \in DOMAIN row,
         row' = [row EXCEPT ![j].status = "queued", ![j].attempt = 0]
  PROVE  /\ Rows' /\ DOMAIN row' = DOMAIN row
         /\ row'[j].status = "queued" /\ row'[j].attempt = 0
         /\ \A k \in DOMAIN row : k # j => row'[k] = row[k]
<1>1. row[j] \in Row
  BY DEF Rows
<1>2. DOMAIN row' = DOMAIN row /\ row' = [k \in DOMAIN row |-> row'[k]]
  OBVIOUS
<1>3. row'[j] = [row[j] EXCEPT !.status = "queued", !.attempt = 0]
  BY DEF Rows
<1>4. \A k \in DOMAIN row : k # j => row'[k] = row[k]
  BY DEF Rows
<1>5. row'[j] \in Row /\ row'[j].status = "queued" /\ row'[j].attempt = 0
  BY <1>1, <1>3 DEF Row, Statuses
<1>6. QED
  BY <1>2, <1>4, <1>5 DEF Rows

\* Booting puts every running row back into the queue, or none.
LEMMA RowsRecovered ==
  ASSUME Rows, Boot
  PROVE  /\ Rows' /\ DOMAIN row' = DOMAIN row
         /\ \A k \in DOMAIN row :
               /\ row'[k].attempt = row[k].attempt
               /\ row[k].status # "running" => row'[k].status = row[k].status
               /\ row[k].status = "running" => row'[k].status \in {"running", "queued"}
<1>1. CASE UNCHANGED row
  BY <1>1 DEF Rows
<1>2. CASE row' = [j \in DOMAIN row |-> IF row[j].status = "running"
                                        THEN [row[j] EXCEPT !.status = "queued"] ELSE row[j]]
  <2>1. DOMAIN row' = DOMAIN row /\ row' = [k \in DOMAIN row |-> row'[k]]
    BY <1>2
  <2>2. ASSUME NEW k \in DOMAIN row
        PROVE  /\ row'[k] \in Row /\ row'[k].attempt = row[k].attempt
               /\ row[k].status # "running" => row'[k].status = row[k].status
               /\ row[k].status = "running" => row'[k].status = "queued"
    <3>1. row'[k] = IF row[k].status = "running"
                    THEN [row[k] EXCEPT !.status = "queued"] ELSE row[k]
      BY <1>2
    <3>2. QED
      BY <3>1 DEF Rows, Row, Statuses
  <2>3. QED
    BY <2>1, <2>2 DEF Rows
<1>3. QED
  BY <1>1, <1>2 DEF Boot

-----------------------------------------------------------------------------
(* The claim loop.                                                           *)

\* A worker that is somewhere in a run holds a row of the catalog.
LEMMA Holding ==
  ASSUME WorkerTyped, NEW p \in WorkerPCs, worker.pc = p
  PROVE  /\ worker # Resting /\ worker \in Claims
         /\ worker.job \in DOMAIN row /\ worker.attempt \in Nat
<1>1. Resting.pc # p
  BY DEF Resting, WorkerPCs
<1>2. worker # Resting
  BY <1>1
<1>3. QED
  BY <1>2 DEF WorkerTyped, Claims

\* The step of a run changes only where the worker is.
LEMMA Moved ==
  ASSUME WorkerTyped, worker \in Claims, NEW p \in WorkerPCs,
         worker' = [worker EXCEPT !.pc = p], DOMAIN row \subseteq DOMAIN row'
  PROVE  /\ worker' \in Claims' /\ worker' # Resting
         /\ worker'.pc = p /\ worker'.job = worker.job /\ worker'.attempt = worker.attempt
<1>1. worker' = [pc |-> p, job |-> worker.job, attempt |-> worker.attempt]
  BY DEF Claims
<1>2. /\ worker.job \in DOMAIN row /\ worker.attempt \in Nat
  BY DEF Claims
<1>3. worker'.pc = p /\ p # "idle"
  BY <1>1 DEF WorkerPCs
<1>4. worker' # Resting
  BY <1>3 DEF Resting
<1>5. QED
  BY <1>1, <1>2, <1>4 DEF Claims

\* The claim of a row and the press of the button, as records of their kind.
LEMMA ClaimTyped ==
  ASSUME NEW j \in DOMAIN row, NEW n \in Nat, worker' = At("read", j, n),
         DOMAIN row \subseteq DOMAIN row'
  PROVE  /\ worker' \in Claims' /\ worker' # Resting
         /\ worker'.pc = "read" /\ worker'.job = j /\ worker'.attempt = n
<1>1. worker' = [pc |-> "read", job |-> j, attempt |-> n]
  BY DEF At
<1>2. worker'.pc # Resting.pc
  BY <1>1 DEF Resting
<1>3. QED
  BY <1>1, <1>2 DEF Claims, WorkerPCs

LEMMA ClaimsStay ==
  ASSUME worker \in Claims, UNCHANGED worker, DOMAIN row \subseteq DOMAIN row'
  PROVE  worker' \in Claims'
<1>1. /\ worker.pc \in WorkerPCs /\ worker.job \in DOMAIN row' /\ worker.attempt \in Nat
      /\ worker = [pc |-> worker.pc, job |-> worker.job, attempt |-> worker.attempt]
  BY DEF Claims
<1>2. QED
  BY <1>1 DEF Claims

LEMMA PressesStay ==
  ASSUME RetryTyped, UNCHANGED retry, DOMAIN row \subseteq DOMAIN row'
  PROVE  RetryTyped'
<1>1. ASSUME NEW o \in Operators, retry[o] \in Presses
      PROVE  retry[o] \in Presses'
  BY <1>1 DEF Presses
<1>2. QED
  BY <1>1 DEF RetryTyped

\* A request that is somewhere holds a row of the catalog as well.
LEMMA Pressing ==
  ASSUME RetryTyped, NEW o \in Operators, retry[o].pc \in RetryPCs
  PROVE  /\ retry[o] # NoRetry /\ retry[o] \in Presses /\ retry[o].job \in DOMAIN row
         /\ DOMAIN retry = Operators
<1>1. retry[o] # NoRetry
  BY DEF NoRetry, RetryPCs
<1>2. QED
  BY <1>1 DEF RetryTyped, Presses

-----------------------------------------------------------------------------
(* Types.                                                                    *)

\* The steps that write the catalog, and those that do not.
LEMMA RowsGrow ==
  ASSUME Typed, Next
  PROVE  Rows' /\ DOMAIN row \subseteq DOMAIN row'
<1>. USE DEF Typed
<1>1. ASSUME NEW j \in Jobs, Claim(j)
      PROVE  Rows' /\ DOMAIN row \subseteq DOMAIN row'
  BY <1>1, RowClaimed
<1>2. ASSUME NEW j \in Jobs, Enqueue(j)
      PROVE  Rows' /\ DOMAIN row \subseteq DOMAIN row'
  BY <1>2, RowAdded
<1>3. ASSUME FinishDone \/ RequeueOnStop \/ Park
      PROVE  Rows' /\ DOMAIN row \subseteq DOMAIN row'
  <2>1. worker.pc \in WorkerPCs
    BY <1>3 DEF FinishDone, RequeueOnStop, Park, WorkerPCs
  <2>2. worker.job \in Jobs
    BY <2>1, Holding DEF Rows
  <2>3. \E t \in Statuses : SetStatus(worker.job, t)
    BY <1>3 DEF FinishDone, RequeueOnStop, Park, Statuses
  <2>4. QED
    BY <2>2, <2>3, StatusSet
<1>4. ASSUME NEW j \in Jobs, TimerFires(j)
      PROVE  Rows' /\ DOMAIN row \subseteq DOMAIN row'
  <2>1. UNCHANGED row \/ \E t \in Statuses : SetStatus(j, t)
    BY <1>4 DEF TimerFires, Statuses
  <2>2. QED
    BY <2>1, StatusSet DEF Rows
<1>5. ASSUME NEW o \in Operators, RetryRequeue(o)
      PROVE  Rows' /\ DOMAIN row \subseteq DOMAIN row'
  <2>1. retry[o].job \in DOMAIN row
    BY <1>5, Pressing DEF RetryRequeue, RetryPCs
  <2>2. CASE UNCHANGED row
    BY <2>2 DEF Rows
  <2>3. QED
    BY <1>5, <2>1, <2>2, RowRetried DEF RetryRequeue
<1>6. CASE Boot
  BY <1>6, RowsRecovered
<1>7. CASE UNCHANGED row
  BY <1>7 DEF Rows
<1>8. QED
  <2>1. CASE WorkerStep
    BY <1>1, <1>3, <1>7, <2>1 DEF WorkerStep, Read, RunFails, Store, Panic, StepFails, Clean,
       BackOff, Discard, catalog
  <2>2. CASE \E j \in Jobs : Upload(j) \/ Enqueue(j) \/ EnqueueFails(j)
                             \/ TimerFires(j) \/ TimerCancelled(j)
    BY <1>2, <1>4, <1>7, <2>2 DEF Upload, EnqueueFails, TimerCancelled, catalog
  <2>3. CASE \E o \in Operators : \/ RetryStat(o) \/ RetryRequeue(o)
                                 \/ \E j \in Jobs : RetryCheck(o, j)
    BY <1>5, <1>7, <2>3 DEF RetryStat, RetryCheck, catalog
  <2>4. CASE Stop \/ Exit \/ Crash
    BY <1>7, <2>4 DEF Stop, Exit, Crash, End, catalog
  <2>5. QED
    BY <1>6, <2>1, <2>2, <2>3, <2>4 DEF Next

\* What a step does with the worker: it rests, stays, claims a row, or goes on.
LEMMA WorkerMoves ==
  ASSUME Typed, Next
  PROVE  \/ worker' = Resting
         \/ UNCHANGED worker
         \/ \E j \in Jobs : Claim(j) /\ worker' = At("read", j, row'[j].attempt)
         \/ /\ worker \in Claims
            /\ \E p \in WorkerPCs : worker' = [worker EXCEPT !.pc = p]
<1>. DEFINE Goes == /\ worker \in Claims
                    /\ \E p \in WorkerPCs : worker' = [worker EXCEPT !.pc = p]
<1>1. ASSUME Read \/ Store \/ FinishDone \/ Park
      PROVE  worker' = Resting \/ Goes
  <2>1. worker.pc \in {"read", "embed", "stored", "failed"}
    BY <1>1 DEF Read, Store, FinishDone, Park
  <2>2. worker.pc \in WorkerPCs
    BY <2>1 DEF WorkerPCs
  <2>3. worker \in Claims
    BY <2>2, Holding DEF Typed
  <2>4. CASE Read
    BY <2>3, <2>4 DEF Read, RunFails, WorkerPCs
  <2>5. CASE Store
    BY <2>3, <2>5 DEF Store, RunFails, WorkerPCs
  <2>6. CASE FinishDone
    BY <2>3, <2>6 DEF FinishDone, Proceed, WorkerPCs
  <2>7. CASE Park
    BY <2>3, <2>7 DEF Park, Proceed, WorkerPCs
  <2>8. QED
    BY <1>1, <2>4, <2>5, <2>6, <2>7
<1>2. CASE WorkerStep
  <2>1. CASE \E j \in Jobs : Claim(j)
    BY <2>1 DEF Claim
  <2>2. QED
    BY <1>1, <1>2, <2>1 DEF WorkerStep, Panic, StepFails, Clean, RequeueOnStop, BackOff, Discard
<1>3. CASE \E j \in Jobs : Upload(j) \/ Enqueue(j) \/ EnqueueFails(j)
                           \/ TimerFires(j) \/ TimerCancelled(j)
  BY <1>3 DEF Upload, Enqueue, EnqueueFails, TimerFires, TimerCancelled
<1>4. CASE \E o \in Operators : \/ RetryStat(o) \/ RetryRequeue(o)
                               \/ \E j \in Jobs : RetryCheck(o, j)
  BY <1>4 DEF RetryStat, RetryRequeue, RetryCheck
<1>5. CASE Stop \/ Exit \/ Crash \/ Boot
  BY <1>5 DEF Stop, Exit, Crash, End, Boot
<1>6. QED
  BY <1>2, <1>3, <1>4, <1>5 DEF Next

LEMMA WorkerTypedStep ==
  ASSUME Typed, Next
  PROVE  WorkerTyped'
<1>1. Rows' /\ DOMAIN row \subseteq DOMAIN row'
  BY RowsGrow
<1>2. CASE worker' = Resting
  BY <1>2 DEF WorkerTyped
<1>3. CASE UNCHANGED worker
  BY <1>1, <1>3, ClaimsStay DEF Typed, WorkerTyped
<1>4. ASSUME NEW j \in Jobs, Claim(j), worker' = At("read", j, row'[j].attempt)
      PROVE  WorkerTyped'
  <2>1. j \in DOMAIN row /\ row'[j].attempt = row[j].attempt + 1 /\ row[j] \in Row
    BY <1>4, RowClaimed DEF Typed, Rows
  <2>2. row'[j].attempt \in Nat
    BY <2>1 DEF Row
  <2>3. PICK n \in Nat : n = row'[j].attempt
    BY <2>2
  <2>4. worker' \in Claims'
    BY <1>1, <1>4, <2>1, <2>3, ClaimTyped
  <2>5. QED
    BY <2>4 DEF WorkerTyped
<1>5. ASSUME worker \in Claims, NEW p \in WorkerPCs, worker' = [worker EXCEPT !.pc = p]
      PROVE  WorkerTyped'
  BY <1>1, <1>5, Moved DEF Typed, WorkerTyped
<1>6. QED
  BY <1>2, <1>3, <1>4, <1>5, WorkerMoves

LEMMA RetryTypedStep ==
  ASSUME Typed, Next
  PROVE  RetryTyped'
<1>1. DOMAIN row \subseteq DOMAIN row'
  BY RowsGrow
<1>2. RetryTyped /\ DOMAIN retry = Operators
  BY DEF Typed, RetryTyped
<1>3. CASE UNCHANGED retry
  BY <1>1, <1>2, <1>3, PressesStay
<1>4. ASSUME NEW o \in Operators, NEW r, r = NoRetry \/ r \in Presses,
             retry' = [retry EXCEPT ![o] = r]
      PROVE  RetryTyped'
  <2>1. retry' = [p \in Operators |-> retry'[p]]
    BY <1>2, <1>4
  <2>2. ASSUME NEW p \in Operators
        PROVE  retry'[p] = NoRetry \/ retry'[p] \in Presses
    BY <1>2, <1>4 DEF RetryTyped
  <2>3. Presses \subseteq Presses'
    BY <1>1 DEF Presses
  <2>4. QED
    BY <2>1, <2>2, <2>3 DEF RetryTyped
<1>5. ASSUME NEW o \in Operators, NEW j \in Jobs, RetryCheck(o, j)
      PROVE  RetryTyped'
  <2>1. [pc |-> "stat", job |-> j] \in Presses
    BY <1>5 DEF RetryCheck, Terminal, In, Has, Presses, RetryPCs
  <2>2. QED
    BY <1>4, <1>5, <2>1 DEF RetryCheck
<1>6. ASSUME NEW o \in Operators, RetryStat(o)
      PROVE  RetryTyped'
  <2>1. retry[o] \in Presses
    BY <1>2, <1>6, Pressing DEF RetryStat, RetryPCs
  <2>2. [retry[o] EXCEPT !.pc = "requeue"] \in Presses
    BY <2>1 DEF Presses, RetryPCs
  <2>3. \/ retry' = [retry EXCEPT ![o] = [retry[o] EXCEPT !.pc = "requeue"]]
        \/ retry' = [retry EXCEPT ![o] = NoRetry]
    BY <1>6 DEF RetryStat
  <2>4. QED
    BY <1>4, <2>2, <2>3
<1>7. ASSUME NEW o \in Operators, RetryRequeue(o)
      PROVE  RetryTyped'
  BY <1>4, <1>7 DEF RetryRequeue
<1>8. CASE End
  BY <1>8 DEF End, RetryTyped
<1>9. QED
  <2>1. CASE WorkerStep
    BY <1>3, <2>1 DEF WorkerStep, Claim, Read, RunFails, Store, Panic, StepFails, FinishDone,
       Clean, RequeueOnStop, BackOff, Park, Discard, process
  <2>2. CASE \E j \in Jobs : Upload(j) \/ Enqueue(j) \/ EnqueueFails(j)
                             \/ TimerFires(j) \/ TimerCancelled(j)
    BY <1>3, <2>2 DEF Upload, Enqueue, EnqueueFails, TimerFires, TimerCancelled
  <2>3. CASE Stop \/ Exit \/ Crash \/ Boot
    BY <1>3, <1>8, <2>3 DEF Stop, Exit, Crash, Boot
  <2>4. QED
    BY <1>5, <1>6, <1>7, <2>1, <2>2, <2>3 DEF Next

LEMMA SetsStep ==
  ASSUME Typed, Next
  PROVE  Sets'
<1>. USE DEF Typed, Sets
<1>1. CASE UNCHANGED <<spool, timers, uploads, up>>
  BY <1>1
<1>2. CASE WorkerStep
  <2>1. CASE BackOff
    <3>1. worker.job \in Jobs
      BY <2>1, Holding DEF BackOff, WorkerPCs, Rows
    <3>2. timers' = [k \in Jobs |-> IF k = worker.job THEN timers[k] + 1 ELSE timers[k]]
      BY <2>1 DEF BackOff
    <3>3. timers' \in [Jobs -> Nat]
      BY <3>2
    <3>4. QED
      BY <2>1, <3>3 DEF BackOff, catalog
  <2>2. CASE Clean \/ Discard
    BY <2>2 DEF Clean, Discard, process
  <2>3. QED
    BY <1>1, <1>2, <2>1, <2>2 DEF WorkerStep, Claim, Read, RunFails, Store, Panic, StepFails,
       FinishDone, RequeueOnStop, Park, catalog, process
<1>3. ASSUME NEW j \in Jobs, \/ Upload(j) \/ Enqueue(j) \/ EnqueueFails(j)
                             \/ TimerFires(j) \/ TimerCancelled(j)
      PROVE  Sets'
  <2>1. CASE Upload(j) \/ Enqueue(j) \/ EnqueueFails(j)
    BY <2>1 DEF Upload, Enqueue, EnqueueFails
  <2>2. CASE TimerFires(j) \/ TimerCancelled(j)
    <3>1. timers[j] \in Nat /\ timers[j] - 1 \in Nat
      BY <2>2 DEF TimerFires, TimerCancelled
    <3>2. timers' = [k \in Jobs |-> IF k = j THEN timers[k] - 1 ELSE timers[k]]
      BY <2>2 DEF TimerFires, TimerCancelled
    <3>3. QED
      BY <2>2, <3>1, <3>2 DEF TimerFires, TimerCancelled, catalog
  <2>3. QED
    BY <1>3, <2>1, <2>2
<1>4. CASE \E o \in Operators : \/ RetryStat(o) \/ RetryRequeue(o)
                               \/ \E j \in Jobs : RetryCheck(o, j)
  BY <1>1, <1>4 DEF RetryStat, RetryRequeue, RetryCheck, catalog
<1>5. CASE Stop \/ Exit \/ Crash \/ Boot
  BY <1>5 DEF Stop, Exit, Crash, End, Boot, NoTimers, catalog
<1>6. QED
  BY <1>2, <1>3, <1>4, <1>5 DEF Next

\* Counting one more, or starting again from zero.
LEMMA CountsStep ==
  ASSUME Typed, Next
  PROVE  Counts'
<1>. USE DEF Typed, Counts
<1>1. CASE UNCHANGED <<docs, history>>
  BY <1>1 DEF history, bounds
<1>2. ASSUME NEW j, Spend(j)
      PROVE  spent' \in [Jobs -> Nat]
  <2>1. spent' = [k \in Jobs |-> IF k = j THEN spent[k] + 1 ELSE spent[k]]
    BY <1>2 DEF Spend
  <2>2. QED
    BY <2>1
<1>3. ASSUME NEW j, Spare(j)
      PROVE  spared' \in [Jobs -> Nat]
  <2>1. spared' = [k \in Jobs |-> IF k = j THEN spared[k] + 1 ELSE spared[k]]
    BY <1>3 DEF Spare
  <2>2. QED
    BY <2>1
<1>4. CutShort => spent' \in [Jobs -> Nat] /\ cuts' \in [Jobs -> Nat] /\ UNCHANGED spared
  BY <1>2 DEF CutShort
<1>5. CASE WorkerStep
  <2>1. ASSUME NEW j \in Jobs, Claim(j)
        PROVE  Counts'
    BY <1>2, <2>1 DEF Claim, history, bounds
  <2>2. CASE Store
    BY <2>2 DEF Store, RunFails, catalog, history, bounds
  <2>3. CASE Panic \/ StepFails
    BY <1>4, <2>3 DEF Panic, StepFails, catalog, bounds
  <2>4. CASE BackOff \/ Park
    BY <1>2, <2>4 DEF BackOff, Park, catalog, bounds
  <2>5. CASE FinishDone \/ RequeueOnStop
    BY <1>3, <2>5 DEF FinishDone, RequeueOnStop, catalog, bounds
  <2>6. QED
    BY <1>1, <1>5, <2>1, <2>2, <2>3, <2>4, <2>5 DEF WorkerStep, Read, RunFails, Clean, Discard,
       catalog
<1>6. CASE \E j \in Jobs : Upload(j) \/ Enqueue(j) \/ EnqueueFails(j)
                           \/ TimerFires(j) \/ TimerCancelled(j)
  BY <1>1, <1>6 DEF Upload, Enqueue, EnqueueFails, TimerFires, TimerCancelled, catalog
<1>7. ASSUME NEW o \in Operators, RetryStat(o) \/ \E j \in Jobs : RetryCheck(o, j)
      PROVE  Counts'
  BY <1>1, <1>7 DEF RetryStat, RetryCheck, catalog, bounds
<1>8. ASSUME NEW o \in Operators, RetryRequeue(o)
      PROVE  Counts'
  <2>1. spent' \in [Jobs -> Nat]
    BY <1>8 DEF RetryRequeue, NewBudget
  <2>2. CASE NewBudget(retry[o].job)
    <3>1. PICK j : j = retry[o].job
      OBVIOUS
    <3>2. spared' = [k \in Jobs |-> IF k # j THEN spared[k]
                                    ELSE IF Terminal(j) THEN 0 ELSE spared[k] + spent[k]]
      BY <2>2, <3>1 DEF NewBudget
    <3>3. \A k \in Jobs : spared'[k] \in Nat
      BY <3>2
    <3>4. spared' \in [Jobs -> Nat]
      BY <3>2, <3>3
    <3>5. QED
      BY <1>8, <2>1, <3>4 DEF RetryRequeue, bounds
  <2>3. QED
    BY <1>8, <2>1, <2>2 DEF RetryRequeue, bounds
<1>9. CASE Stop \/ Exit \/ Crash \/ Boot
  BY <1>4, <1>9 DEF Stop, Exit, Crash, End, Boot, catalog, history, bounds
<1>10. QED
  BY <1>5, <1>6, <1>7, <1>8, <1>9 DEF Next

LEMMA TypedInit == Init => Typed
<1>1. SUFFICES ASSUME Init PROVE Typed
  OBVIOUS
<1>2. DOMAIN row = {} /\ row = [j \in DOMAIN row |-> row[j]]
  <2>1. row = [j \in {} |-> [status |-> "queued", attempt |-> 0, age |-> 0]]
    BY <1>1 DEF Init, NoRows
  <2>2. QED
    BY <2>1, Zenon
<1>3. Rows
  BY <1>2, FS_EmptySet DEF Rows
<1>4. QED
  BY <1>1, <1>3 DEF Init, NoTimers, Typed, Sets, Counts, WorkerTyped, RetryTyped

LEMMA TypedStep == Typed /\ [Next]_vars => Typed'
<1>1. ASSUME Typed, Next PROVE Typed'
  BY <1>1, RowsGrow, SetsStep, CountsStep, WorkerTypedStep, RetryTypedStep DEF Typed
<1>2. ASSUME Typed, UNCHANGED vars PROVE Typed'
  <2>1. /\ UNCHANGED row /\ UNCHANGED spool /\ UNCHANGED docs /\ UNCHANGED up
        /\ UNCHANGED timers /\ UNCHANGED uploads /\ UNCHANGED retry /\ UNCHANGED worker
        /\ UNCHANGED spent /\ UNCHANGED spared /\ UNCHANGED cuts /\ UNCHANGED contested
        /\ UNCHANGED crashes /\ UNCHANGED stops /\ UNCHANGED retries
    BY <1>2 DEF vars, catalog, process, history, bounds
  <2>2. Rows' /\ Sets' /\ Counts'
    BY <1>2, <2>1 DEF Typed, Rows, Sets, Counts
  <2>3. WorkerTyped' /\ RetryTyped'
    BY <1>2, <2>1, ClaimsStay, PressesStay DEF Typed, WorkerTyped
  <2>4. QED
    BY <2>2, <2>3 DEF Typed
<1>3. QED
  BY <1>1, <1>2

LEMMA TypedIsTypeOK == Typed => TypeOK
BY DEF Typed, TypeOK, Rows, Sets, Counts, WorkerTyped, RetryTyped, Claims, Presses

LEMMA AlwaysTyped == Spec => []Typed
BY TypedInit, TypedStep, PTL DEF Spec

\* The state of the ingest service keeps its types: a claimed row and a row
\* asked to be retried are rows of the catalog (jobs.go, worker.go).
THEOREM Types == Spec => []TypeOK
BY AlwaysTyped, TypedIsTypeOK, PTL

-----------------------------------------------------------------------------
(* What may become of a row in one step.                                     *)

Kept(k) ==
    k \in DOMAIN row /\ row'[k].status = row[k].status /\ row'[k].attempt = row[k].attempt
Turned(k, s) ==
    k \in DOMAIN row /\ row'[k].status = s /\ row'[k].attempt = row[k].attempt

Fate(k) ==
    \/ Kept(k)
    \/ Enqueue(k) /\ row'[k].status = "queued" /\ row'[k].attempt = 0
    \/ /\ Claim(k) /\ k \in DOMAIN row /\ row[k].status = "queued"
       /\ row'[k].status = "running" /\ row'[k].attempt = row[k].attempt + 1
    \/ FinishDone /\ k = worker.job /\ Turned(k, "done")
    \/ Park /\ k = worker.job /\ Turned(k, "failed")
    \/ RequeueOnStop /\ k = worker.job /\ Turned(k, "queued")
    \/ TimerFires(k) /\ Turned(k, "queued")
    \/ /\ \E o \in Operators : RetryRequeue(o) /\ retry[o].job = k
       /\ k \in DOMAIN row /\ row'[k].status = "queued" /\ row'[k].attempt = 0
    \/ Boot /\ k \in DOMAIN row /\ row[k].status = "running" /\ Turned(k, "queued")

LEMMA RowFate ==
  ASSUME Typed, Next
  PROVE  \A k \in DOMAIN row' : Fate(k)
<1>. USE DEF Typed
<1>1. ASSUME NEW j \in Jobs, Claim(j), NEW k \in DOMAIN row'
      PROVE  Fate(k)
  BY <1>1, RowClaimed, Zenon DEF Fate, Kept
<1>2. ASSUME NEW j \in Jobs, Enqueue(j), NEW k \in DOMAIN row'
      PROVE  Fate(k)
  BY <1>2, RowAdded, Zenon DEF Fate, Kept
<1>3. ASSUME FinishDone \/ RequeueOnStop \/ Park, NEW k \in DOMAIN row'
      PROVE  Fate(k)
  <2>1. worker.pc \in WorkerPCs
    BY <1>3 DEF FinishDone, RequeueOnStop, Park, WorkerPCs
  <2>2. worker.job \in Jobs
    BY <2>1, Holding DEF Rows
  <2>3. ASSUME NEW t \in Statuses, SetStatus(worker.job, t)
        PROVE  Kept(k) \/ (k = worker.job /\ Turned(k, t))
    <3>1. PICK j \in Jobs : j = worker.job
      BY <2>2
    <3>2. SetStatus(j, t)
      BY <2>3, <3>1
    <3>3. /\ DOMAIN row' = DOMAIN row
          /\ row'[k].attempt = row[k].attempt
          /\ row'[k].status = IF k = j THEN t ELSE row[k].status
      BY <3>2, StatusSet
    <3>4. QED
      BY <3>1, <3>3 DEF Kept, Turned
  <2>4. CASE FinishDone
    BY <2>3, <2>4 DEF FinishDone, Statuses, Fate
  <2>5. CASE RequeueOnStop
    BY <2>3, <2>5 DEF RequeueOnStop, Statuses, Fate
  <2>6. CASE Park
    BY <2>3, <2>6 DEF Park, Statuses, Fate
  <2>7. QED
    BY <1>3, <2>4, <2>5, <2>6
<1>4. ASSUME UNCHANGED row, NEW k \in DOMAIN row'
      PROVE  Fate(k)
  BY <1>4 DEF Fate, Kept
<1>5. ASSUME NEW j \in Jobs, TimerFires(j), NEW k \in DOMAIN row'
      PROVE  Fate(k)
  <2>1. CASE SetStatus(j, "queued")
    <3>1. /\ DOMAIN row' = DOMAIN row
          /\ row'[k].attempt = row[k].attempt
          /\ row'[k].status = IF k = j THEN "queued" ELSE row[k].status
      BY <2>1, StatusSet DEF Statuses
    <3>2. Kept(k) \/ (k = j /\ Turned(k, "queued"))
      BY <3>1 DEF Kept, Turned
    <3>3. QED
      BY <1>5, <3>2 DEF Fate
  <2>2. QED
    BY <1>4, <1>5, <2>1 DEF TimerFires
<1>6. ASSUME NEW o \in Operators, RetryRequeue(o), NEW k \in DOMAIN row'
      PROVE  Fate(k)
  <2>1. retry[o].job \in DOMAIN row
    BY <1>6, Pressing DEF RetryRequeue, RetryPCs
  <2>2. PICK j \in DOMAIN row : j = retry[o].job
    BY <2>1
  <2>3. CASE row' = [row EXCEPT ![j].status = "queued", ![j].attempt = 0]
    <3>1. /\ DOMAIN row' = DOMAIN row /\ row'[j].status = "queued" /\ row'[j].attempt = 0
          /\ k # j => row'[k] = row[k]
      BY <2>3, RowRetried
    <3>2. CASE k = j
      BY <1>6, <2>2, <3>1, <3>2 DEF Fate
    <3>3. CASE k # j
      BY <3>1, <3>3 DEF Fate, Kept
    <3>4. QED
      BY <3>2, <3>3
  <2>4. QED
    BY <1>4, <1>6, <2>2, <2>3 DEF RetryRequeue
<1>7. ASSUME Boot, NEW k \in DOMAIN row'
      PROVE  Fate(k)
  <2>1. /\ k \in DOMAIN row /\ row'[k].attempt = row[k].attempt
        /\ row[k].status # "running" => row'[k].status = row[k].status
        /\ row[k].status = "running" => row'[k].status \in {"running", "queued"}
    BY <1>7, RowsRecovered
  <2>2. QED
    BY <1>7, <2>1 DEF Fate, Kept, Turned
<1>8. QED
  <2>1. CASE WorkerStep
    BY <1>1, <1>3, <1>4, <2>1 DEF WorkerStep, Read, RunFails, Store, Panic, StepFails, Clean,
       BackOff, Discard, catalog
  <2>2. CASE \E j \in Jobs : Upload(j) \/ Enqueue(j) \/ EnqueueFails(j)
                             \/ TimerFires(j) \/ TimerCancelled(j)
    BY <1>2, <1>4, <1>5, <2>2 DEF Upload, EnqueueFails, TimerCancelled, catalog
  <2>3. CASE \E o \in Operators : \/ RetryStat(o) \/ RetryRequeue(o)
                                 \/ \E j \in Jobs : RetryCheck(o, j)
    BY <1>4, <1>6, <2>3 DEF RetryStat, RetryCheck, catalog
  <2>4. CASE Stop \/ Exit \/ Crash
    BY <1>4, <2>4 DEF Stop, Exit, Crash, End, catalog
  <2>5. QED
    BY <1>7, <2>1, <2>2, <2>3, <2>4 DEF Next

-----------------------------------------------------------------------------
(* Done means stored.                                                        *)

\* A run past its transaction has a document in the knowledge base.
Begun == worker.pc = "stored" => docs[worker.job] > 0

Committed == Typed /\ Begun /\ DoneIsStored

\* Documents are only added, and only by the commit of a run.
LEMMA DocsGrow ==
  ASSUME Typed, Next
  PROVE  \/ UNCHANGED docs
         \/ /\ Store /\ worker \in Claims /\ worker.pc = "embed"
            /\ worker' = [worker EXCEPT !.pc = "stored"]
            /\ docs' = [docs EXCEPT ![worker.job] = @ + 1]
            /\ UNCHANGED <<row, process, history>>
<1>1. CASE WorkerStep
  <2>1. CASE Store
    <3>1. worker \in Claims /\ worker.pc = "embed"
      BY <2>1, Holding DEF Store, WorkerPCs, Typed
    <3>2. QED
      BY <2>1, <3>1 DEF Store, RunFails, catalog
  <2>2. QED
    BY <1>1, <2>1 DEF WorkerStep, Claim, Read, RunFails, Panic, StepFails, FinishDone,
       Clean, RequeueOnStop, BackOff, Park, Discard, catalog
<1>2. CASE \E j \in Jobs : Upload(j) \/ Enqueue(j) \/ EnqueueFails(j)
                           \/ TimerFires(j) \/ TimerCancelled(j)
  BY <1>2 DEF Upload, Enqueue, EnqueueFails, TimerFires, TimerCancelled, catalog
<1>3. CASE \E o \in Operators : \/ RetryStat(o) \/ RetryRequeue(o)
                               \/ \E j \in Jobs : RetryCheck(o, j)
  BY <1>3 DEF RetryStat, RetryRequeue, RetryCheck, catalog
<1>4. CASE Stop \/ Exit \/ Crash \/ Boot
  BY <1>4 DEF Stop, Exit, Crash, End, Boot, catalog
<1>5. QED
  BY <1>1, <1>2, <1>3, <1>4 DEF Next

\* Where a run may go, and by which step.
LEMMA RunMoves ==
  ASSUME Typed, Next, worker'.pc \in WorkerPCs
  PROVE  \/ UNCHANGED worker
         \/ worker'.pc = "read"
            /\ \E j \in Jobs : Claim(j) /\ worker' = At("read", j, row'[j].attempt)
         \/ /\ worker \in Claims
            /\ worker'.job = worker.job /\ worker'.attempt = worker.attempt
            /\ \/ Read /\ worker'.pc \in {"embed", "failed"} /\ worker.pc = "read"
               \/ Store /\ worker'.pc = "stored" /\ worker.pc = "embed"
               \/ Store /\ worker'.pc = "failed" /\ worker.pc = "embed"
               \/ FinishDone /\ worker'.pc = "clean" /\ worker.pc = "stored"
               \/ Park /\ worker'.pc = "discard" /\ worker.pc = "failed"
<1>1. worker' # Resting
  BY DEF Resting, WorkerPCs
<1>2. ASSUME Read \/ Store \/ FinishDone \/ Park
      PROVE  worker \in Claims
  <2>1. worker.pc \in WorkerPCs
    BY <1>2 DEF Read, Store, FinishDone, Park, WorkerPCs
  <2>2. QED
    BY <2>1, Holding DEF Typed
<1>3. ASSUME worker \in Claims, NEW p, worker' = [worker EXCEPT !.pc = p]
      PROVE  worker'.pc = p /\ worker'.job = worker.job /\ worker'.attempt = worker.attempt
  BY <1>3 DEF Claims
<1>4. CASE Read
  <2>1. \E p \in {"embed", "failed"} : worker' = [worker EXCEPT !.pc = p]
    BY <1>4 DEF Read, RunFails
  <2>2. QED
    BY <1>2, <1>3, <1>4, <2>1 DEF Read
<1>5. CASE Store
  <2>1. \E p \in {"stored", "failed"} : worker' = [worker EXCEPT !.pc = p]
    BY <1>5 DEF Store, RunFails
  <2>2. QED
    BY <1>2, <1>3, <1>5, <2>1 DEF Store
<1>6. CASE FinishDone
  <2>1. worker' = [worker EXCEPT !.pc = "clean"]
    BY <1>1, <1>6 DEF FinishDone, Proceed
  <2>2. QED
    BY <1>2, <1>3, <1>6, <2>1 DEF FinishDone
<1>7. CASE Park
  <2>1. worker' = [worker EXCEPT !.pc = "discard"]
    BY <1>1, <1>7 DEF Park, Proceed
  <2>2. QED
    BY <1>2, <1>3, <1>7, <2>1 DEF Park
<1>8. ASSUME NEW j \in Jobs, Claim(j)
      PROVE  UNCHANGED worker \/ (worker'.pc = "read" /\ worker' = At("read", j, row'[j].attempt))
  BY <1>8 DEF Claim, At
<1>9. CASE WorkerStep
  BY <1>1, <1>4, <1>5, <1>6, <1>7, <1>8, <1>9 DEF WorkerStep, Panic, StepFails, Clean,
     RequeueOnStop, BackOff, Discard
<1>10. CASE \E j \in Jobs : Upload(j) \/ Enqueue(j) \/ EnqueueFails(j)
                            \/ TimerFires(j) \/ TimerCancelled(j)
  BY <1>10 DEF Upload, Enqueue, EnqueueFails, TimerFires, TimerCancelled
<1>11. CASE \E o \in Operators : \/ RetryStat(o) \/ RetryRequeue(o)
                                \/ \E j \in Jobs : RetryCheck(o, j)
  BY <1>11 DEF RetryStat, RetryRequeue, RetryCheck
<1>12. CASE Stop \/ Exit \/ Crash \/ Boot
  BY <1>1, <1>12 DEF Stop, Exit, Crash, End, Boot
<1>13. QED
  BY <1>9, <1>10, <1>11, <1>12 DEF Next

LEMMA CommittedStep ==
  ASSUME Committed, Next
  PROVE  Begun' /\ DoneIsStored'
<1>. USE DEF Committed
<1>1. \A j \in Jobs : docs[j] \in Nat /\ docs'[j] \in Nat /\ docs'[j] >= docs[j]
  <2>1. docs \in [Jobs -> Nat] /\ docs' \in [Jobs -> Nat]
    BY CountsStep DEF Typed, Counts
  <2>2. CASE UNCHANGED docs
    BY <2>1, <2>2
  <2>3. CASE docs' = [docs EXCEPT ![worker.job] = @ + 1]
    BY <2>1, <2>3
  <2>4. QED
    BY <2>1, <2>2, <2>3, DocsGrow
<1>2. Begun'
  <2>1. SUFFICES ASSUME worker'.pc = "stored" PROVE docs'[worker'.job] > 0
    BY DEF Begun
  <2>2. worker'.pc \in WorkerPCs
    BY <2>1 DEF WorkerPCs
  <2>3. CASE UNCHANGED worker
    <3>1. worker.job \in Jobs
      BY <2>1, <2>2, <2>3, Holding DEF Typed, Rows
    <3>2. QED
      BY <1>1, <2>1, <2>3, <3>1 DEF Begun
  <2>4. CASE Store /\ worker \in Claims /\ worker'.job = worker.job
    <3>1. worker.job \in Jobs
      BY <2>4 DEF Claims, Typed, Rows
    <3>2. worker' # [worker EXCEPT !.pc = "failed"]
      BY <2>1, <2>4 DEF Claims
    <3>3. docs' = [docs EXCEPT ![worker.job] = @ + 1]
      BY <2>4, <3>2 DEF Store, RunFails
    <3>4. docs'[worker.job] = docs[worker.job] + 1
      BY <3>1, <3>3 DEF Typed, Counts
    <3>5. QED
      BY <1>1, <2>4, <3>1, <3>4
  <2>5. QED
    BY <2>1, <2>2, <2>3, <2>4, RunMoves
<1>3. DoneIsStored'
  <2>1. SUFFICES ASSUME NEW j \in Jobs, j \in DOMAIN row', row'[j].status = "done"
                 PROVE  docs'[j] > 0
    BY DEF DoneIsStored, In, Has
  <2>2. docs[j] > 0
    <3>1. CASE Kept(j)
      BY <2>1, <3>1 DEF Kept, DoneIsStored, In, Has
    <3>2. CASE FinishDone /\ j = worker.job
      BY <3>2 DEF FinishDone, Begun
    <3>3. QED
      BY <2>1, <3>1, <3>2, RowFate DEF Fate, Turned
  <2>3. QED
    BY <1>1, <2>2
<1>4. QED
  BY <1>2, <1>3

LEMMA AlwaysCommitted == Spec => []Committed
<1>1. Init => Committed
  <2>1. ASSUME Init PROVE Begun /\ DoneIsStored
    BY <2>1 DEF Init, Begun, Resting, DoneIsStored, In, Has, NoRows
  <2>2. QED
    BY <2>1, TypedInit DEF Committed
<1>2. Committed /\ [Next]_vars => Committed'
  <2>1. ASSUME Committed, Next PROVE Committed'
    <3>1. Typed'
      BY <2>1, TypedStep DEF Committed
    <3>2. QED
      BY <2>1, <3>1, CommittedStep DEF Committed
  <2>2. ASSUME Committed, UNCHANGED vars PROVE Committed'
    <3>1. Typed'
      BY <2>2, TypedStep DEF Committed
    <3>2. QED
      BY <2>2, <3>1 DEF Committed, Begun, DoneIsStored, In, Has, vars, catalog
  <2>3. QED
    BY <2>1, <2>2
<1>3. QED
  BY <1>1, <1>2, PTL DEF Spec

\* A job is reported done only when the knowledge base holds its document:
\* whatever fails, crashes, or is retried, by any number of operators (step).
THEOREM DoneMeansStored == Spec => []DoneIsStored
<1>1. Committed => DoneIsStored
  BY DEF Committed
<1>2. QED
  BY <1>1, AlwaysCommitted, PTL

-----------------------------------------------------------------------------
(* What steps do with uploads, timers, requests and runs.                    *)

\* What is not on disk is gone with the process.
Quiet ==
    up = "down" =>
        /\ worker = Resting /\ timers = NoTimers /\ uploads = {}
        /\ \A o \in Operators : retry[o] = NoRetry

\* A spooled upload has no row yet.
Fresh == \A j \in uploads : ~Has(j)

\* Only Boot does anything while the process is down.
LEMMA Asleep ==
  ASSUME Quiet, up = "down", Next
  PROVE  Boot
<1>1. /\ worker.pc = "idle" /\ worker = Resting /\ uploads = {}
      /\ \A j \in Jobs : timers[j] = 0
      /\ \A o \in Operators : retry[o].pc = "idle"
  BY DEF Quiet, Resting, NoRetry, NoTimers
<1>2. ~WorkerStep
  BY <1>1 DEF WorkerStep, Claim, Read, Store, Panic, StepFails, FinishDone, Clean,
     RequeueOnStop, BackOff, Park, Discard
<1>3. \A j \in Jobs : ~(Upload(j) \/ Enqueue(j) \/ EnqueueFails(j)
                         \/ TimerFires(j) \/ TimerCancelled(j))
  BY <1>1 DEF Upload, Enqueue, EnqueueFails, TimerFires, TimerCancelled
<1>4. \A o \in Operators : ~(RetryStat(o) \/ RetryRequeue(o) \/ \E j \in Jobs : RetryCheck(o, j))
  BY <1>1 DEF RetryStat, RetryRequeue, RetryCheck
<1>5. ~Stop /\ ~Exit /\ ~Crash
  BY DEF Stop, Exit, Crash
<1>6. QED
  BY <1>2, <1>3, <1>4, <1>5 DEF Next

LEMMA QuietStep ==
  ASSUME Quiet, Next
  PROVE  Quiet'
<1>1. SUFFICES ASSUME up' = "down" PROVE Quiet'
  BY DEF Quiet
<1>2. up # "down"
  BY <1>1, Asleep DEF Boot
<1>3. CASE End
  BY <1>3 DEF End, Quiet
<1>4. CASE UNCHANGED up
  BY <1>1, <1>2, <1>4
<1>5. CASE WorkerStep
  BY <1>4, <1>5 DEF WorkerStep, Claim, Read, RunFails, Store, Panic, StepFails, FinishDone,
     Clean, RequeueOnStop, BackOff, Park, Discard, process
<1>6. CASE \E j \in Jobs : Upload(j) \/ Enqueue(j) \/ EnqueueFails(j)
                           \/ TimerFires(j) \/ TimerCancelled(j)
  BY <1>4, <1>6 DEF Upload, Enqueue, EnqueueFails, TimerFires, TimerCancelled
<1>7. CASE \E o \in Operators : \/ RetryStat(o) \/ RetryRequeue(o)
                               \/ \E j \in Jobs : RetryCheck(o, j)
  BY <1>4, <1>7 DEF RetryStat, RetryRequeue, RetryCheck
<1>8. CASE Stop \/ Exit \/ Crash \/ Boot
  BY <1>1, <1>3, <1>8 DEF Stop, Exit, Crash, Boot
<1>9. QED
  BY <1>5, <1>6, <1>7, <1>8 DEF Next

\* Where the uploads, the timers and the requests of the next state come from.
LEMMA UploadsMove ==
  ASSUME Next, NEW k \in uploads'
  PROVE  k \in uploads \/ (Upload(k) /\ ~Has(k) /\ UNCHANGED row)
<1>1. CASE WorkerStep
  BY <1>1 DEF WorkerStep, Claim, Read, RunFails, Store, Panic, StepFails, FinishDone,
     Clean, RequeueOnStop, BackOff, Park, Discard, process
<1>2. CASE \E j \in Jobs : Upload(j) \/ Enqueue(j) \/ EnqueueFails(j)
                           \/ TimerFires(j) \/ TimerCancelled(j)
  BY <1>2 DEF Upload, Enqueue, EnqueueFails, TimerFires, TimerCancelled
<1>3. CASE \E o \in Operators : \/ RetryStat(o) \/ RetryRequeue(o)
                               \/ \E j \in Jobs : RetryCheck(o, j)
  BY <1>3 DEF RetryStat, RetryRequeue, RetryCheck
<1>4. CASE Stop \/ Exit \/ Crash \/ Boot
  BY <1>4 DEF Stop, Exit, Crash, End, Boot
<1>5. QED
  BY <1>1, <1>2, <1>3, <1>4 DEF Next

LEMMA TimersMove ==
  ASSUME Typed, Next, NEW k \in Jobs
  PROVE  /\ timers[k] \in Nat /\ timers'[k] \in Nat
         /\ \/ timers'[k] = timers[k] /\ ~TimerFires(k)
            \/ timers'[k] + 1 = timers[k] /\ TimerFires(k)
            \/ timers'[k] + 1 = timers[k] /\ TimerCancelled(k) /\ up = "stopping"
            \/ timers'[k] = 0 /\ End /\ ~TimerFires(k)
            \/ timers'[k] = timers[k] + 1 /\ BackOff /\ k = worker.job
<1>1. timers \in [Jobs -> Nat] /\ timers' \in [Jobs -> Nat]
  BY SetsStep DEF Typed, Sets
<1>2. ASSUME UNCHANGED timers
      PROVE  timers'[k] = timers[k] /\ ~TimerFires(k)
  <2>1. timers'[k] = timers[k]
    BY <1>2
  <2>2. TimerFires(k) => timers'[k] = timers[k] - 1
    BY <1>1 DEF TimerFires
  <2>3. QED
    BY <1>1, <2>1, <2>2
<1>3. CASE WorkerStep
  <2>1. CASE BackOff
    <3>1. timers'[k] = IF k = worker.job THEN timers[k] + 1 ELSE timers[k]
      BY <1>1, <2>1 DEF BackOff
    <3>2. k # worker.job => ~TimerFires(k)
      BY <1>1, <3>1 DEF TimerFires
    <3>3. QED
      BY <1>1, <2>1, <3>1, <3>2
  <2>2. QED
    BY <1>1, <1>2, <1>3, <2>1 DEF WorkerStep, Claim, Read, RunFails, Store, Panic, StepFails,
       FinishDone, Clean, RequeueOnStop, Park, Discard, process, catalog
<1>4. ASSUME NEW j \in Jobs, TimerFires(j)
      PROVE  \/ timers'[k] = timers[k] /\ k # j
             \/ timers'[k] + 1 = timers[k] /\ TimerFires(k)
  <2>1. timers'[k] = IF k = j THEN timers[k] - 1 ELSE timers[k]
    BY <1>1, <1>4 DEF TimerFires
  <2>2. QED
    BY <1>1, <1>4, <2>1
<1>5. ASSUME NEW j \in Jobs, TimerCancelled(j)
      PROVE  \/ timers'[k] = timers[k] /\ k # j
             \/ timers'[k] + 1 = timers[k] /\ TimerCancelled(k) /\ up = "stopping"
  <2>1. timers'[k] = IF k = j THEN timers[k] - 1 ELSE timers[k]
    BY <1>1, <1>5 DEF TimerCancelled
  <2>2. up = "stopping"
    BY <1>5 DEF TimerCancelled
  <2>3. QED
    BY <1>1, <1>5, <2>1, <2>2
<1>6. timers'[k] = timers[k] => ~TimerFires(k)
  BY <1>1 DEF TimerFires
<1>7. CASE \E j \in Jobs : Upload(j) \/ Enqueue(j) \/ EnqueueFails(j)
                           \/ TimerFires(j) \/ TimerCancelled(j)
  BY <1>1, <1>2, <1>4, <1>5, <1>6, <1>7 DEF Upload, Enqueue, EnqueueFails
<1>8. CASE \E o \in Operators : \/ RetryStat(o) \/ RetryRequeue(o)
                               \/ \E j \in Jobs : RetryCheck(o, j)
  BY <1>1, <1>2, <1>8 DEF RetryStat, RetryRequeue, RetryCheck
<1>9. CASE End
  <2>1. timers'[k] = 0
    BY <1>9 DEF End, NoTimers
  <2>2. ~TimerFires(k)
    BY <1>9 DEF End, TimerFires
  <2>3. QED
    BY <1>1, <1>9, <2>1, <2>2
<1>10. CASE Stop \/ Boot
  BY <1>1, <1>2, <1>10 DEF Stop, Boot
<1>11. QED
  BY <1>3, <1>7, <1>8, <1>9, <1>10 DEF Next, Exit, Crash

LEMMA RequestsMove ==
  ASSUME Typed, Next, NEW o \in Operators, retry'[o] # NoRetry
  PROVE  \/ /\ retry[o] # NoRetry /\ retry'[o].job = retry[o].job
            /\ ~RetryRequeue(o)
         \/ /\ \E j \in Jobs : RetryCheck(o, j) /\ retry'[o].job = j /\ Terminal(j)
            /\ UNCHANGED row
<1>1. RetryTyped /\ DOMAIN retry = Operators
  BY DEF Typed, RetryTyped
<1>2. ~RetryRequeue(o)
  BY <1>1 DEF RetryRequeue
<1>3. CASE UNCHANGED retry
  BY <1>2, <1>3
<1>4. ASSUME NEW p \in Operators, RetryRequeue(p) \/ RetryStat(p)
      PROVE  retry[o] # NoRetry /\ retry'[o].job = retry[o].job
  <2>1. CASE p # o
    BY <1>1, <1>4, <2>1 DEF RetryRequeue, RetryStat
  <2>2. CASE p = o
    <3>1. RetryStat(o) /\ retry[o].pc = "stat"
      BY <1>2, <1>4, <2>2 DEF RetryStat
    <3>2. retry[o] \in Presses /\ retry[o] # NoRetry
      BY <1>1, <3>1, Pressing DEF RetryPCs
    <3>3. retry'[o] = [retry[o] EXCEPT !.pc = "requeue"]
      BY <1>1, <3>1 DEF RetryStat
    <3>4. QED
      BY <3>2, <3>3 DEF Presses
  <2>3. QED
    BY <2>1, <2>2
<1>5. ASSUME NEW p \in Operators, NEW j \in Jobs, RetryCheck(p, j)
      PROVE  \/ retry[o] # NoRetry /\ retry'[o].job = retry[o].job
             \/ RetryCheck(o, j) /\ retry'[o].job = j /\ Terminal(j) /\ UNCHANGED row
  <2>1. CASE p # o
    BY <1>1, <1>5, <2>1 DEF RetryCheck
  <2>2. CASE p = o
    BY <1>1, <1>5, <2>2 DEF RetryCheck, catalog
  <2>3. QED
    BY <2>1, <2>2
<1>6. CASE End
  BY <1>6 DEF End
<1>7. CASE WorkerStep
  BY <1>3, <1>7 DEF WorkerStep, Claim, Read, RunFails, Store, Panic, StepFails, FinishDone,
     Clean, RequeueOnStop, BackOff, Park, Discard, process
<1>8. CASE \E j \in Jobs : Upload(j) \/ Enqueue(j) \/ EnqueueFails(j)
                           \/ TimerFires(j) \/ TimerCancelled(j)
  BY <1>3, <1>8 DEF Upload, Enqueue, EnqueueFails, TimerFires, TimerCancelled
<1>9. CASE Stop \/ Exit \/ Crash \/ Boot
  BY <1>3, <1>6, <1>9 DEF Stop, Exit, Crash, Boot
<1>10. QED
  BY <1>2, <1>4, <1>5, <1>7, <1>8, <1>9 DEF Next

LEMMA FreshStep ==
  ASSUME Typed, Fresh, Next
  PROVE  Fresh'
<1>1. SUFFICES ASSUME NEW k \in uploads', k \in DOMAIN row' PROVE FALSE
  BY DEF Fresh, Has
<1>2. CASE Upload(k) /\ ~Has(k) /\ UNCHANGED row
  BY <1>1, <1>2 DEF Has
<1>3. CASE k \in uploads
  <2>1. k \notin DOMAIN row
    BY <1>3 DEF Fresh, Has
  <2>2. Enqueue(k)
    BY <1>1, <2>1, RowFate DEF Fate, Kept, Turned
  <2>3. QED
    BY <1>1, <2>2 DEF Enqueue
<1>4. QED
  BY <1>1, <1>2, <1>3, UploadsMove

Steady == Typed /\ Quiet /\ Fresh

LEMMA SteadyInit == Init => Steady
<1>1. ASSUME Init PROVE Quiet /\ Fresh
  BY <1>1 DEF Init, Quiet, Fresh
<1>2. QED
  BY <1>1, TypedInit DEF Steady

LEMMA SteadyStep ==
  ASSUME Steady, [Next]_vars
  PROVE  Steady'
<1>1. Typed'
  BY TypedStep DEF Steady
<1>2. CASE Next
  BY <1>1, <1>2, QuietStep, FreshStep DEF Steady
<1>3. CASE UNCHANGED vars
  <2>1. /\ UNCHANGED row /\ UNCHANGED up /\ UNCHANGED timers /\ UNCHANGED uploads
        /\ UNCHANGED retry /\ UNCHANGED worker
    BY <1>3 DEF vars, catalog, process
  <2>2. QED
    BY <1>1, <2>1 DEF Steady, Quiet, Fresh, Has
<1>4. QED
  BY <1>2, <1>3

OnIt(j) == Running /\ worker.job = j
Costs(j, n, m) == spent'[j] = spent[j] + n /\ cuts'[j] = cuts[j] + m

\* A step charges a job nothing, a run that was cut short, a run that failed,
\* or gives it a new budget.
LEMMA CostMoves ==
  ASSUME Typed, Next, NEW j \in Jobs
  PROVE  \/ /\ Costs(j, 0, 0)
            /\ \A o \in Operators : RetryRequeue(o) /\ retry[o].job = j => UNCHANGED row
            /\ ~(OnIt(j) /\ (Park \/ BackOff))
         \/ Costs(j, 1, 1) /\ Claim(j) /\ worker' = Resting
         \/ Costs(j, 1, 1) /\ OnIt(j) /\ UNCHANGED row /\ worker' = Resting
         \/ Costs(j, 1, 0) /\ OnIt(j) /\ BackOff
         \/ Costs(j, 1, 0) /\ OnIt(j) /\ Park
         \/ /\ spent'[j] = 0 /\ cuts'[j] = cuts[j]
            /\ \E o \in Operators : RetryRequeue(o) /\ retry[o].job = j
            /\ row' = [row EXCEPT ![j].status = "queued", ![j].attempt = 0]
<1>1. /\ spent \in [Jobs -> Nat] /\ cuts \in [Jobs -> Nat]
  BY DEF Typed, Counts
<1>2. ASSUME UNCHANGED spent, UNCHANGED cuts
      PROVE  Costs(j, 0, 0)
  BY <1>1, <1>2 DEF Costs
<1>3. ASSUME NEW k, Spend(k)
      PROVE  spent'[j] = IF j = k THEN spent[j] + 1 ELSE spent[j] + 0
  BY <1>1, <1>3 DEF Spend
<1>4. ASSUME NEW k, cuts' = [cuts EXCEPT ![k] = @ + 1]
      PROVE  cuts'[j] = IF j = k THEN cuts[j] + 1 ELSE cuts[j] + 0
  BY <1>1, <1>4
<1>5. ASSUME CutShort
      PROVE  IF OnIt(j) THEN Costs(j, 1, 1) ELSE Costs(j, 0, 0)
  <2>1. CASE Running
    BY <1>3, <1>4, <1>5, <2>1 DEF CutShort, OnIt, Costs
  <2>2. CASE ~Running
    BY <1>2, <1>5, <2>2 DEF CutShort, OnIt
  <2>3. QED
    BY <2>1, <2>2
<1>6. ASSUME NEW k \in Jobs, Claim(k)
      PROVE  \/ Costs(j, 0, 0)
             \/ Costs(j, 1, 1) /\ Claim(j) /\ worker' = Resting
  <2>1. CASE UNCHANGED history
    BY <1>2, <2>1 DEF history
  <2>2. CASE Spend(k) /\ cuts' = [cuts EXCEPT ![k] = @ + 1] /\ UNCHANGED worker
    <3>1. worker' = Resting
      BY <1>6, <2>2 DEF Claim, Working
    <3>2. IF j = k THEN Costs(j, 1, 1) ELSE Costs(j, 0, 0)
      BY <1>3, <1>4, <2>2 DEF Costs
    <3>3. QED
      BY <1>6, <3>1, <3>2
  <2>3. QED
    BY <1>6, <2>1, <2>2 DEF Claim
<1>7. ASSUME Panic \/ StepFails \/ Exit \/ Crash
      PROVE  \/ Costs(j, 0, 0)
             \/ Costs(j, 1, 1) /\ OnIt(j) /\ UNCHANGED row /\ worker' = Resting
  BY <1>5, <1>7 DEF Panic, StepFails, Exit, Crash, End, catalog
<1>8. ASSUME BackOff \/ Park
      PROVE  IF OnIt(j) THEN Costs(j, 1, 0) ELSE Costs(j, 0, 0)
  <2>1. Running /\ Spend(worker.job) /\ UNCHANGED cuts
    BY <1>8 DEF BackOff, Park, Running, Working, Resting
  <2>2. cuts'[j] = cuts[j] + 0
    BY <1>1, <2>1
  <2>3. QED
    BY <1>3, <2>1, <2>2 DEF OnIt, Costs
<1>9. ASSUME NEW o \in Operators, RetryRequeue(o)
       PROVE  \/ Costs(j, 0, 0) /\ (retry[o].job = j => UNCHANGED row)
              \/ /\ spent'[j] = 0 /\ cuts'[j] = cuts[j] /\ retry[o].job = j
                 /\ row' = [row EXCEPT ![j].status = "queued", ![j].attempt = 0]
  BY <1>1, <1>9 DEF RetryRequeue, NewBudget, Costs
<1>10. CASE OnIt(j) /\ (Park \/ BackOff)
  BY <1>8, <1>10
<1>11. CASE ~(OnIt(j) /\ (Park \/ BackOff))
  <2>1. CASE \E o \in Operators : RetryRequeue(o) /\ retry[o].job = j
    BY <1>9, <1>11, <2>1
  <2>2. CASE ~\E o \in Operators : RetryRequeue(o) /\ retry[o].job = j
    <3>1. CASE WorkerStep
      BY <1>2, <1>6, <1>7, <1>8, <1>11, <2>2, <3>1 DEF WorkerStep, Read, RunFails, Store,
         FinishDone, Clean, RequeueOnStop, Discard, history
    <3>2. CASE \E k \in Jobs : Upload(k) \/ Enqueue(k) \/ EnqueueFails(k)
                               \/ TimerFires(k) \/ TimerCancelled(k)
      BY <1>2, <1>11, <2>2, <3>2 DEF Upload, Enqueue, EnqueueFails, TimerFires, TimerCancelled,
         history
    <3>3. CASE \E o \in Operators : \/ RetryStat(o) \/ RetryRequeue(o)
                                   \/ \E k \in Jobs : RetryCheck(o, k)
      BY <1>2, <1>9, <1>11, <2>2, <3>3 DEF RetryStat, RetryCheck, history
    <3>4. CASE Stop \/ Exit \/ Crash \/ Boot
      BY <1>2, <1>7, <1>11, <2>2, <3>4 DEF Stop, Boot, history
    <3>5. QED
      BY <3>1, <3>2, <3>3, <3>4 DEF Next
  <2>3. QED
    BY <2>1, <2>2
<1>12. QED
  BY <1>10, <1>11

\* A run leaves a row by ending it, by putting it back, or by being cut short.
LEMMA RunEnds ==
  ASSUME Typed, Next, NEW j \in Jobs, OnIt(j), ~OnIt(j)'
  PROVE  \/ FinishDone \/ RequeueOnStop \/ Park \/ BackOff
         \/ Costs(j, 1, 1) /\ UNCHANGED row /\ (Panic \/ StepFails \/ End)
<1>1. /\ worker.pc \in {"read", "embed", "stored", "failed"} /\ worker.job = j
      /\ worker # Resting /\ worker.pc \in WorkerPCs /\ Running
  BY DEF OnIt, Running, Working, WorkerPCs
<1>2. ~UNCHANGED worker
  BY DEF OnIt, Running, Working
<1>3. ASSUME CutShort
      PROVE  Costs(j, 1, 1)
  BY <1>1, <1>3 DEF CutShort, Spend, Costs, Typed, Counts
<1>4. worker \in Claims
  BY <1>1, Holding DEF Typed
<1>5. ASSUME NEW p \in {"embed", "stored", "failed"}, worker' = [worker EXCEPT !.pc = p]
      PROVE  FALSE
  <2>1. worker'.pc = p /\ worker'.job = j
    BY <1>1, <1>4, <1>5 DEF Claims
  <2>2. QED
    BY <2>1 DEF OnIt, Running, Working, Resting
<1>6. ~Read /\ ~Store
  BY <1>5 DEF Read, Store, RunFails
<1>7. CASE WorkerStep
  BY <1>1, <1>3, <1>6, <1>7 DEF WorkerStep, Claim, Working, Panic, StepFails, Clean, Discard,
     catalog
<1>8. CASE \E k \in Jobs : Upload(k) \/ Enqueue(k) \/ EnqueueFails(k)
                           \/ TimerFires(k) \/ TimerCancelled(k)
  BY <1>2, <1>8 DEF Upload, Enqueue, EnqueueFails, TimerFires, TimerCancelled
<1>9. CASE \E o \in Operators : \/ RetryStat(o) \/ RetryRequeue(o)
                               \/ \E k \in Jobs : RetryCheck(o, k)
  BY <1>2, <1>9 DEF RetryStat, RetryRequeue, RetryCheck
<1>10. CASE Stop \/ Exit \/ Crash \/ Boot
  BY <1>2, <1>3, <1>10 DEF Stop, Exit, Crash, End, Boot, catalog
<1>11. QED
  BY <1>7, <1>8, <1>9, <1>10 DEF Next

-----------------------------------------------------------------------------
(* However many presses of Retry overlap: a job has only so many runs to      *)
(* come.  Its upload gives it one, a press one more, and a run that ends the   *)
(* job takes one away; a back-off, a shutdown, a crash and a recovery pass    *)
(* the one they found on.                                                    *)

\* The presses under way that are about a job.
On(j) == {o \in Operators : retry[o] # NoRetry /\ retry[o].job = j}
Pending(j) == Cardinality(On(j))

\* The runs a job has to come: the one it is in, one for each timer, one for being
\* queued; and one for a row marked as running that nothing runs, since the next
\* start of the process puts it back.
Load(j) == (IF OnIt(j) THEN 1 ELSE 0) + timers[j]
Chances(j) ==
    IF In(j, {"queued"}) THEN Load(j) + 1
    ELSE IF In(j, {"running"}) /\ Load(j) = 0 THEN 1 ELSE Load(j)

LEMMA PressesCount ==
  ASSUME Typed, Next
  PROVE  /\ retries \in Nat /\ retries' \in Nat /\ retries' >= retries
         /\ \A o \in Operators, j \in Jobs : RetryCheck(o, j) => retries' = retries + 1
<1>1. retries \in Nat /\ retries' \in Nat
  BY CountsStep DEF Typed, Counts
<1>2. ASSUME UNCHANGED retries PROVE retries' >= retries
  BY <1>1, <1>2
<1>3. CASE WorkerStep
  BY <1>1, <1>2, <1>3 DEF WorkerStep, Claim, Read, RunFails, Store, Panic, StepFails, FinishDone,
     Clean, RequeueOnStop, BackOff, Park, Discard, history, bounds, RetryCheck
<1>4. CASE \E k \in Jobs : Upload(k) \/ Enqueue(k) \/ EnqueueFails(k)
                           \/ TimerFires(k) \/ TimerCancelled(k)
  BY <1>1, <1>2, <1>4 DEF Upload, Enqueue, EnqueueFails, TimerFires, TimerCancelled, history,
     bounds, RetryCheck
<1>5. CASE \E o \in Operators : \/ RetryStat(o) \/ RetryRequeue(o)
                               \/ \E k \in Jobs : RetryCheck(o, k)
  BY <1>1, <1>5 DEF RetryStat, RetryRequeue, RetryCheck, history, bounds
<1>6. CASE Stop \/ Exit \/ Crash \/ Boot
  BY <1>1, <1>2, <1>6 DEF Stop, Exit, Crash, End, Boot, history, bounds, RetryCheck
<1>7. QED
  BY <1>1, <1>3, <1>4, <1>5, <1>6 DEF Next, RetryCheck

\* A run that is under way in the next state was under way, with the count it was
\* claimed with, or has just been claimed.
LEMMA RunGoesOn ==
  ASSUME Typed, Next, NEW j \in Jobs, OnIt(j)'
  PROVE  \/ OnIt(j) /\ worker'.attempt = worker.attempt
         \/ Claim(j) /\ worker'.attempt = row'[j].attempt
<1>1. worker'.pc \in {"read", "embed", "stored", "failed"} /\ worker'.job = j
  BY DEF OnIt, Running
<1>2. worker' # Resting /\ worker'.pc \in WorkerPCs
  BY <1>1 DEF Resting, WorkerPCs
<1>3. CASE UNCHANGED worker
  BY <1>1, <1>2, <1>3 DEF OnIt, Running, Working
<1>4. ASSUME NEW k \in Jobs, Claim(k), worker' = At("read", k, row'[k].attempt)
      PROVE  Claim(j) /\ worker'.attempt = row'[j].attempt
  BY <1>1, <1>4 DEF At
<1>5. ASSUME Read \/ Store, worker \in Claims, worker'.job = worker.job
      PROVE  OnIt(j)
  BY <1>1, <1>5 DEF Read, Store, OnIt, Running, Working, Resting
<1>6. QED
  BY <1>1, <1>2, <1>3, <1>4, <1>5, RunMoves

\* A run that holds a job holds a row, and claims nothing more.
LEMMA RunHolds ==
  ASSUME Typed, NEW j \in Jobs, OnIt(j)
  PROVE  /\ worker \in Claims /\ worker # Resting /\ worker.job = j /\ Has(j)
         /\ worker.attempt \in Nat /\ ~Claim(j)
<1>1. worker.pc \in WorkerPCs /\ worker.job = j
  BY DEF OnIt, Running, WorkerPCs
<1>2. QED
  BY <1>1, Holding DEF Typed, Has, Claim, OnIt, Running

\* The load of a job goes up when a run is claimed, and down when a run ends the
\* job or puts it back, or a timer fires.
LEMMA LoadMoves ==
  ASSUME Typed, Next, NEW j \in Jobs
  PROVE  /\ Load(j) \in Nat /\ Load(j)' \in Nat
         /\ Load(j)' <= Load(j) + 1
         /\ ~Claim(j) => Load(j)' <= Load(j)
         /\ (FinishDone \/ Park \/ RequeueOnStop) /\ worker.job = j => Load(j)' + 1 = Load(j)
         /\ TimerFires(j) => Load(j)' + 1 = Load(j)
<1>1. timers[j] \in Nat /\ timers'[j] \in Nat
  BY TimersMove
<1>2. OnIt(j)' /\ ~OnIt(j) => Claim(j)
  BY RunGoesOn
<1>3. CASE BackOff /\ worker.job = j
  <2>1. OnIt(j) /\ ~OnIt(j)'
    BY <1>3 DEF BackOff, OnIt, Running, Working, Resting
  <2>2. timers'[j] = timers[j] + 1
    BY <1>3 DEF BackOff, Typed, Sets
  <2>3. ~FinishDone /\ ~Park /\ ~RequeueOnStop /\ ~TimerFires(j)
    <3>1. ~TimerFires(j)
      BY <1>1, <2>2 DEF TimerFires, Typed, Sets
    <3>2. worker.pc = "failed" /\ worker.attempt < MaxAttempts /\ up = "up"
      BY <1>3 DEF BackOff
    <3>3. ~Park
      BY <1>1, <2>2, <1>3 DEF Park, process
    <3>4. QED
      BY <3>1, <3>2, <3>3 DEF FinishDone, RequeueOnStop
  <2>4. QED
    BY <1>1, <2>1, <2>2, <2>3 DEF Load
<1>4. CASE FinishDone \/ Park \/ RequeueOnStop
  <2>1. UNCHANGED timers
    BY <1>4 DEF FinishDone, Park, RequeueOnStop, process
  <2>2. worker'.pc \in {"clean", "discard", "idle"} /\ Running
    <3>1. worker.pc \in WorkerPCs /\ worker.pc \in {"stored", "failed"}
      BY <1>4 DEF FinishDone, Park, RequeueOnStop, WorkerPCs
    <3>2. worker \in Claims /\ worker # Resting
      BY <3>1, Holding DEF Typed
    <3>3. QED
      BY <1>4, <3>1, <3>2 DEF FinishDone, Park, RequeueOnStop, Proceed, Claims, Resting,
         Running, Working
  <2>3. ~OnIt(j)' /\ (worker.job = j => OnIt(j))
    BY <2>2 DEF OnIt, Running
  <2>4. ~TimerFires(j)
    BY <1>1, <2>1 DEF TimerFires, Typed, Sets
  <2>5. QED
    BY <1>1, <2>1, <2>3, <2>4 DEF Load
<1>5. CASE TimerFires(j)
  <2>1. timers'[j] + 1 = timers[j] /\ UNCHANGED worker
    BY <1>1, <1>5 DEF TimerFires, Typed, Sets
  <2>2. OnIt(j)' <=> OnIt(j)
    BY <2>1 DEF OnIt, Running, Working
  <2>3. ~FinishDone /\ ~Park /\ ~RequeueOnStop
    BY <1>1, <1>4, <2>1 DEF FinishDone, Park, RequeueOnStop, process
  <2>4. QED
    BY <1>1, <2>1, <2>2, <2>3 DEF Load
<1>6. CASE /\ ~(BackOff /\ worker.job = j) /\ ~TimerFires(j)
           /\ ~(FinishDone \/ Park \/ RequeueOnStop)
  <2>1. timers'[j] <= timers[j]
    BY <1>1, <1>6, TimersMove
  <2>2. QED
    BY <1>1, <1>2, <1>6, <2>1 DEF Load
<1>7. QED
  BY <1>3, <1>4, <1>5, <1>6

\* So the runs a job has to come: one more with its upload and with a press of
\* Retry, one less when it is done or parked, and never more otherwise.
LEMMA ChancesMove ==
  ASSUME Steady, Next, NEW j \in Jobs
  PROVE  /\ Chances(j) \in Nat /\ Chances(j)' \in Nat
         /\ Chances(j)' <= Chances(j) + 1
         /\ \/ Enqueue(j) \/ (\E o \in Operators : RetryRequeue(o) /\ retry[o].job = j)
            \/ Chances(j)' <= Chances(j)
         /\ (FinishDone \/ Park) /\ worker.job = j => Chances(j)' + 1 <= Chances(j)
<1>1. /\ Load(j) \in Nat /\ Load(j)' \in Nat
      /\ Load(j)' <= Load(j) + 1
      /\ ~Claim(j) => Load(j)' <= Load(j)
      /\ (FinishDone \/ Park \/ RequeueOnStop) /\ worker.job = j => Load(j)' + 1 = Load(j)
      /\ TimerFires(j) => Load(j)' + 1 = Load(j)
  BY LoadMoves DEF Steady
<1>2. /\ Chances(j) \in Nat /\ Chances(j)' \in Nat
      /\ Chances(j) >= Load(j) /\ Chances(j)' <= Load(j)' + 1
      /\ In(j, {"queued"}) => Chances(j) = Load(j) + 1
      /\ In(j, {"running"}) => Chances(j) >= 1
      /\ In(j, {"running"})' => Chances(j)' = (IF Load(j)' = 0 THEN 1 ELSE Load(j)')
      /\ ~In(j, {"queued"})' /\ ~In(j, {"running"})' => Chances(j)' = Load(j)'
  BY <1>1 DEF Chances, In
<1>3. DOMAIN row \subseteq DOMAIN row'
  BY RowsGrow DEF Steady
<1>4. CASE j \notin DOMAIN row'
  <2>1. ~Claim(j) /\ ~In(j, {"queued"})' /\ ~In(j, {"running"})'
    BY <1>3, <1>4 DEF Claim, Oldest, In, Has
  <2>2. QED
    BY <1>1, <1>2, <2>1
<1>5. CASE Kept(j) /\ ~((FinishDone \/ Park) /\ worker.job = j)
  <2>1. ~Claim(j)
    <3>1. SUFFICES ASSUME Claim(j) PROVE FALSE
      OBVIOUS
    <3>2. row[j].status = "queued" /\ row'[j].status = "running"
      BY <3>1, RowClaimed DEF Steady, Typed
    <3>3. QED
      BY <1>5, <3>2 DEF Kept
  <2>2. /\ In(j, {"queued"})' <=> In(j, {"queued"})
        /\ In(j, {"running"})' <=> In(j, {"running"})
    BY <1>3, <1>5 DEF Kept, In, Has
  <2>3. QED
    BY <1>1, <1>2, <1>5, <2>1, <2>2
<1>6. CASE Enqueue(j)
  <2>1. ~Claim(j) /\ ~FinishDone /\ ~Park
    <3>1. UNCHANGED worker /\ uploads' # uploads
      BY <1>6 DEF Enqueue
    <3>2. QED
      BY <3>1 DEF Claim, FinishDone, Park, process
  <2>2. QED
    BY <1>1, <1>2, <1>6, <2>1
<1>7. CASE /\ Claim(j) /\ row[j].status = "queued" /\ j \in DOMAIN row
           /\ row'[j].status = "running"
  <2>1. In(j, {"queued"}) /\ In(j, {"running"})'
    BY <1>3, <1>7 DEF In, Has
  <2>2. ~FinishDone /\ ~Park
    BY <1>7 DEF Claim, FinishDone, Park, Working, Resting
  <2>3. QED
    BY <1>1, <1>2, <2>1, <2>2
<1>8. CASE (FinishDone \/ Park) /\ worker.job = j
  <2>1. j \in DOMAIN row /\ (SetStatus(j, "done") \/ SetStatus(j, "failed"))
    BY <1>8, Holding DEF FinishDone, Park, WorkerPCs, Steady, Typed
  <2>2. ~In(j, {"queued"})' /\ ~In(j, {"running"})'
    BY <2>1, StatusSet DEF Statuses, In, Steady, Typed
  <2>3. QED
    BY <1>1, <1>2, <1>8, <2>2
<1>9. CASE RequeueOnStop /\ j = worker.job
  <2>1. ~FinishDone /\ ~Park
    BY <1>9 DEF RequeueOnStop, FinishDone, Park
  <2>2. QED
    BY <1>1, <1>2, <1>9, <2>1
<1>10. CASE TimerFires(j)
  <2>1. ~FinishDone /\ ~Park
    <3>1. timers' # timers
      BY <1>10 DEF TimerFires, Steady, Typed, Sets
    <3>2. QED
      BY <3>1 DEF FinishDone, Park, process
  <2>2. QED
    BY <1>1, <1>2, <1>10, <2>1
<1>11. ASSUME NEW o \in Operators, RetryRequeue(o), retry[o].job = j
       PROVE  /\ Chances(j)' <= Chances(j) + 1 /\ ~FinishDone /\ ~Park
  <2>1. UNCHANGED worker /\ retry' # retry
    BY <1>11, Pressing DEF RetryRequeue, RetryPCs, Steady, Typed, RetryTyped
  <2>2. ~FinishDone /\ ~Park /\ ~Claim(j)
    BY <2>1 DEF Claim, FinishDone, Park, process
  <2>3. QED
    BY <1>1, <1>2, <2>2
<1>12. CASE Boot /\ j \in DOMAIN row /\ row[j].status = "running" /\ Turned(j, "queued")
  <2>1. worker = Resting /\ timers = NoTimers /\ UNCHANGED worker /\ UNCHANGED timers
    BY <1>12 DEF Boot, Steady, Quiet
  <2>2. Load(j)' = 0
    BY <2>1 DEF Load, OnIt, Running, Working, NoTimers
  <2>3. In(j, {"running"}) /\ worker.pc = "idle"
    BY <1>12, <2>1 DEF In, Has, Resting
  <2>4. QED
    BY <1>2, <2>2, <2>3 DEF FinishDone, Park
<1>13. QED
  <2>1. CASE j \in DOMAIN row'
    <3>1. Fate(j)
      BY <2>1, RowFate DEF Steady
    <3>2. QED
      BY <1>2, <1>5, <1>6, <1>7, <1>8, <1>9, <1>10, <1>11, <1>12, <3>1 DEF Fate
  <2>2. QED
    BY <1>4, <2>1

\* The presses under way: one more when a press finds a job that has ended, one
\* less when it puts the row back.
LEMMA PendingMoves ==
  ASSUME Typed, Next, NEW j \in Jobs, IsFiniteSet(On(j))
  PROVE  /\ IsFiniteSet(On(j))' /\ Pending(j) \in Nat /\ Pending(j)' \in Nat
         /\ retries \in Nat /\ retries' \in Nat /\ retries' >= retries
         /\ \/ Pending(j)' <= Pending(j)
            \/ /\ Pending(j)' <= Pending(j) + 1 /\ retries' = retries + 1
               /\ Terminal(j) /\ \E o \in Operators : RetryCheck(o, j)
         /\ \A o \in Operators : RetryRequeue(o) /\ retry[o].job = j =>
              Pending(j)' + 1 <= Pending(j) /\ 1 <= Pending(j)
<1>1. RetryTyped /\ DOMAIN retry = Operators
  BY DEF Typed, RetryTyped
<1>2. Pending(j) \in Nat
  BY FS_CardinalityType DEF Pending
<1>3. ASSUME On(j)' \subseteq On(j)
      PROVE  IsFiniteSet(On(j))' /\ Pending(j)' \in Nat /\ Pending(j)' <= Pending(j)
  <2>1. IsFiniteSet(On(j)') /\ Cardinality(On(j)') <= Cardinality(On(j))
    BY <1>3, FS_Subset
  <2>2. Cardinality(On(j)') \in Nat
    BY <2>1, FS_CardinalityType
  <2>3. QED
    BY <2>1, <2>2 DEF Pending
<1>4. ASSUME NEW o \in Operators, RetryRequeue(o), retry[o].job = j
      PROVE  On(j)' \subseteq On(j) /\ Pending(j)' + 1 <= Pending(j) /\ 1 <= Pending(j)
  <2>1. retry[o] # NoRetry
    BY <1>1, <1>4, Pressing DEF RetryRequeue, RetryPCs
  <2>2. o \in On(j)
    BY <1>4, <2>1 DEF On
  <2>3. \A p \in Operators : retry'[p] = IF p = o THEN NoRetry ELSE retry[p]
    BY <1>1, <1>4 DEF RetryRequeue
  <2>4. On(j)' = On(j) \ {o}
    BY <2>1, <2>3, <1>4 DEF On
  <2>5. IsFiniteSet(On(j) \ {o}) /\ Cardinality(On(j) \ {o}) = Cardinality(On(j)) - 1
    BY <2>2, FS_RemoveElement
  <2>6. Cardinality(On(j) \ {o}) \in Nat
    BY <2>5, FS_CardinalityType
  <2>7. Pending(j)' = Cardinality(On(j) \ {o})
    BY <2>4 DEF Pending
  <2>8. QED
    BY <1>2, <2>4, <2>5, <2>6, <2>7 DEF Pending
<1>5. ASSUME NEW o \in Operators, RetryCheck(o, j)
      PROVE  /\ IsFiniteSet(On(j))' /\ Pending(j)' \in Nat /\ Pending(j)' <= Pending(j) + 1
             /\ retries' = retries + 1 /\ Terminal(j)
  <2>1. \A p \in Operators : p # o => retry'[p] = retry[p]
    BY <1>1, <1>5 DEF RetryCheck
  <2>2. On(j)' \subseteq On(j) \cup {o}
    BY <2>1 DEF On
  <2>3. /\ IsFiniteSet(On(j) \cup {o})
        /\ Cardinality(On(j) \cup {o}) <= Cardinality(On(j)) + 1
        /\ Cardinality(On(j) \cup {o}) \in Nat
    <3>1. /\ IsFiniteSet(On(j) \cup {o})
          /\ Cardinality(On(j) \cup {o}) =
               IF o \in On(j) THEN Cardinality(On(j)) ELSE Cardinality(On(j)) + 1
      BY FS_AddElement
    <3>2. QED
      BY <1>2, <3>1, FS_CardinalityType DEF Pending
  <2>4. IsFiniteSet(On(j)') /\ Cardinality(On(j)') <= Cardinality(On(j) \cup {o})
    BY <2>2, <2>3, FS_Subset
  <2>5. Cardinality(On(j)') \in Nat
    BY <2>4, FS_CardinalityType
  <2>6. QED
    BY <1>2, <1>5, <2>3, <2>4, <2>5 DEF Pending, RetryCheck
<1>6. ASSUME ~\E o \in Operators : RetryCheck(o, j)
      PROVE  On(j)' \subseteq On(j)
  <2>1. SUFFICES ASSUME NEW p \in Operators, retry'[p] # NoRetry, retry'[p].job = j
                 PROVE  p \in On(j)
    BY DEF On
  <2>2. retry[p] # NoRetry /\ retry'[p].job = retry[p].job
    BY <1>6, <2>1, RequestsMove
  <2>3. QED
    BY <2>1, <2>2 DEF On
<1>7. /\ retries \in Nat /\ retries' \in Nat /\ retries' >= retries
  BY PressesCount
<1>8. QED
  BY <1>2, <1>3, <1>4, <1>5, <1>6, <1>7

\* The runs to come and the presses under way of a job are never more than the
\* presses there have been, and than one when there has been none: the first press
\* finds a job that has ended, with no run to come.
Rationed(j) ==
    /\ IsFiniteSet(On(j)) /\ Pending(j) <= retries
    /\ retries = 0 => Chances(j) <= 1 /\ (Terminal(j) => Chances(j) = 0)
    /\ retries > 0 => Chances(j) + Pending(j) <= retries
    /\ ~Has(j) => Chances(j) = 0 /\ Pending(j) = 0 /\ spent[j] = 0 /\ docs[j] = 0

Rations == Steady /\ \A j \in Jobs : Rationed(j)

\* How the two move together.
LEMMA RationMoves ==
  ASSUME Rations, Next, NEW j \in Jobs
  PROVE  /\ Chances(j) \in Nat /\ Chances(j)' \in Nat
         /\ Pending(j) \in Nat /\ Pending(j)' \in Nat
         /\ retries \in Nat /\ retries' \in Nat /\ retries' >= retries
         /\ \/ Chances(j)' + Pending(j)' + retries <= Chances(j) + Pending(j) + retries'
            \/ /\ Enqueue(j) /\ Chances(j)' <= 1 /\ Pending(j)' = 0
               /\ ~Has(j) /\ spent[j] = 0 /\ docs[j] = 0
         /\ (FinishDone \/ Park) /\ worker.job = j =>
              Chances(j)' + Pending(j)' + 1 + retries <= Chances(j) + Pending(j) + retries'
<1>1. Steady /\ Rationed(j) /\ Typed
  BY DEF Rations, Steady
<1>2. /\ Chances(j) \in Nat /\ Chances(j)' \in Nat
      /\ Chances(j)' <= Chances(j) + 1
      /\ \/ Enqueue(j) \/ (\E o \in Operators : RetryRequeue(o) /\ retry[o].job = j)
         \/ Chances(j)' <= Chances(j)
      /\ (FinishDone \/ Park) /\ worker.job = j => Chances(j)' + 1 <= Chances(j)
  BY <1>1, ChancesMove
<1>3. /\ Pending(j) \in Nat /\ Pending(j)' \in Nat
      /\ retries \in Nat /\ retries' \in Nat /\ retries' >= retries
      /\ \/ Pending(j)' <= Pending(j)
         \/ /\ Pending(j)' <= Pending(j) + 1 /\ retries' = retries + 1
            /\ \E o \in Operators : RetryCheck(o, j)
      /\ \A o \in Operators : RetryRequeue(o) /\ retry[o].job = j => Pending(j)' + 1 <= Pending(j)
  BY <1>1, PendingMoves DEF Rationed
<1>4. CASE Enqueue(j)
  <2>1. ~Has(j)
    BY <1>1, <1>4 DEF Enqueue, Steady, Fresh
  <2>2. UNCHANGED retry /\ UNCHANGED retries /\ UNCHANGED worker /\ uploads' # uploads
    BY <1>4 DEF Enqueue, history, bounds
  <2>3. Pending(j)' = Pending(j)
    BY <2>2 DEF Pending, On
  <2>4. ~FinishDone /\ ~Park
    BY <2>2 DEF FinishDone, Park, process
  <2>5. QED
    BY <1>1, <1>2, <1>3, <1>4, <2>1, <2>3, <2>4 DEF Rationed
<1>5. CASE \E o \in Operators : RetryRequeue(o) /\ retry[o].job = j
  <2>1. ~FinishDone /\ ~Park
    <3>1. PICK o \in Operators : RetryRequeue(o)
      BY <1>5
    <3>2. retry[o] # NoRetry /\ retry'[o] = NoRetry
      BY <1>1, <3>1, Pressing DEF RetryRequeue, RetryPCs, Typed, RetryTyped
    <3>3. QED
      BY <3>2 DEF FinishDone, Park, process
  <2>2. QED
    BY <1>2, <1>3, <1>5, <2>1
<1>6. CASE Chances(j)' <= Chances(j)
  BY <1>2, <1>3, <1>6
<1>7. QED
  BY <1>2, <1>4, <1>5, <1>6

LEMMA RationedStep ==
  ASSUME Rations, Next, NEW j \in Jobs
  PROVE  Rationed(j)'
<1>1. Steady /\ Rationed(j) /\ Typed
  BY DEF Rations, Steady
<1>2. /\ Chances(j) \in Nat /\ Chances(j)' \in Nat
      /\ Pending(j) \in Nat /\ Pending(j)' \in Nat
      /\ retries \in Nat /\ retries' \in Nat /\ retries' >= retries
      /\ \/ Chances(j)' + Pending(j)' + retries <= Chances(j) + Pending(j) + retries'
         \/ /\ Enqueue(j) /\ Chances(j)' <= 1 /\ Pending(j)' = 0
            /\ ~Has(j) /\ spent[j] = 0 /\ docs[j] = 0
      /\ (FinishDone \/ Park) /\ worker.job = j =>
           Chances(j)' + Pending(j)' + 1 + retries <= Chances(j) + Pending(j) + retries'
  BY RationMoves
<1>3. /\ IsFiniteSet(On(j))'
      /\ \/ Pending(j)' <= Pending(j)
         \/ /\ Pending(j)' <= Pending(j) + 1 /\ retries' = retries + 1
            /\ Terminal(j) /\ \E o \in Operators : RetryCheck(o, j)
  BY <1>1, PendingMoves DEF Rationed
<1>4. Pending(j)' <= retries'
  BY <1>1, <1>2, <1>3 DEF Rationed
<1>5. DOMAIN row \subseteq DOMAIN row'
  BY <1>1, RowsGrow
<1>6. Terminal(j)' => Terminal(j) \/ ((FinishDone \/ Park) /\ worker.job = j)
  <2>1. SUFFICES ASSUME j \in DOMAIN row', row'[j].status \in {"done", "failed"},
                        ~((FinishDone \/ Park) /\ worker.job = j)
                 PROVE  Terminal(j)
    BY DEF Terminal, In, Has
  <2>2. Kept(j)
    BY <1>1, <2>1, RowFate DEF Fate, Turned
  <2>3. QED
    BY <2>1, <2>2 DEF Terminal, In, Has, Kept
<1>7. retries' = 0 => Chances(j)' <= 1 /\ (Terminal(j)' => Chances(j)' = 0)
  <2>1. SUFFICES ASSUME retries' = 0
                 PROVE  Chances(j)' <= 1 /\ (Terminal(j)' => Chances(j)' = 0)
    OBVIOUS
  <2>2. retries = 0 /\ Pending(j) = 0 /\ Pending(j)' = 0
    BY <1>1, <1>2, <1>4, <2>1 DEF Rationed
  <2>3. CASE Enqueue(j) /\ Chances(j)' <= 1
    <3>1. row'[j].status = "queued"
      BY <1>1, <2>3, RowAdded DEF Typed
    <3>2. QED
      BY <2>3, <3>1 DEF Terminal, In
  <2>4. CASE Chances(j)' <= Chances(j)
    BY <1>1, <1>2, <1>6, <2>1, <2>2, <2>4 DEF Rationed
  <2>5. QED
    BY <1>2, <2>1, <2>2, <2>3, <2>4
<1>8. retries' > 0 => Chances(j)' + Pending(j)' <= retries'
  <2>1. SUFFICES ASSUME retries' > 0 PROVE Chances(j)' + Pending(j)' <= retries'
    OBVIOUS
  <2>2. CASE Enqueue(j) /\ Chances(j)' <= 1 /\ Pending(j)' = 0
    BY <1>2, <2>1, <2>2
  <2>3. CASE retries > 0
    BY <1>1, <1>2, <2>2, <2>3 DEF Rationed
  <2>4. CASE retries = 0
    <3>1. Pending(j) = 0 /\ Chances(j) <= 1 /\ (Terminal(j) => Chances(j) = 0)
      BY <1>1, <1>2, <2>4 DEF Rationed
    <3>2. \A o \in Operators : ~(RetryRequeue(o) /\ retry[o].job = j)
      BY <1>1, <3>1, PendingMoves DEF Rationed
    <3>3. CASE Enqueue(j)
      <4>1. ~Has(j) /\ ~Terminal(j)
        BY <1>1, <3>3 DEF Enqueue, Steady, Fresh, Terminal, In
      <4>2. Chances(j) = 0 /\ Chances(j)' <= Chances(j) + 1
        BY <1>1, <4>1, ChancesMove DEF Rationed
      <4>3. QED
        BY <1>2, <1>3, <2>1, <3>1, <4>1, <4>2
    <3>4. CASE ~Enqueue(j)
      <4>1. Chances(j)' <= Chances(j)
        BY <1>1, <3>2, <3>4, ChancesMove
      <4>2. QED
        BY <1>2, <1>3, <2>1, <2>4, <3>1, <4>1
    <3>5. QED
      BY <3>3, <3>4
  <2>5. QED
    BY <1>2, <2>3, <2>4
<1>9. ASSUME ~Has(j)'
      PROVE  Chances(j)' = 0 /\ Pending(j)' = 0 /\ spent'[j] = 0 /\ docs'[j] = 0
  <2>1. ~Has(j) /\ ~Terminal(j) /\ ~Enqueue(j)
    BY <1>1, <1>5, <1>9, RowAdded DEF Has, Terminal, In, Typed
  <2>2. ~OnIt(j) /\ ~Claim(j)
    BY <1>1, <2>1, RunHolds DEF Claim, Oldest, Has
  <2>3. \A o \in Operators : ~(RetryRequeue(o) /\ retry[o].job = j)
    BY <1>1, <2>1, Pressing DEF RetryRequeue, RetryPCs, Has, Typed
  <2>4. spent'[j] = 0
    <3>1. spent[j] = 0
      BY <1>1, <2>1 DEF Rationed
    <3>2. Costs(j, 0, 0)
      BY <1>1, <2>2, <2>3, CostMoves
    <3>3. QED
      BY <3>1, <3>2 DEF Costs
  <2>5. docs'[j] = docs[j]
    <3>1. worker \in Claims => worker.job # j
      BY <2>1 DEF Claims, Has
    <3>2. QED
      BY <1>1, <3>1, DocsGrow DEF Typed, Counts
  <2>6. Pending(j)' = 0
    BY <1>1, <1>2, <1>3, <2>1 DEF Rationed
  <2>7. Chances(j)' <= Chances(j)
    BY <1>1, <2>1, <2>3, ChancesMove
  <2>8. QED
    BY <1>1, <1>2, <2>1, <2>4, <2>5, <2>6, <2>7 DEF Rationed
<1>10. QED
  BY <1>3, <1>4, <1>7, <1>8, <1>9 DEF Rationed

LEMMA AlwaysRations == Spec => []Rations
<1>1. Init => Rations
  <2>1. ASSUME Init, NEW j \in Jobs PROVE Rationed(j)
    <3>1. On(j) = {}
      BY <2>1 DEF Init, On
    <3>2. IsFiniteSet(On(j)) /\ Pending(j) = 0
      BY <3>1, FS_EmptySet DEF Pending
    <3>3. ~Has(j) /\ ~Terminal(j) /\ ~In(j, {"queued"}) /\ ~In(j, {"running"})
      BY <2>1 DEF Init, Has, NoRows, Terminal, In
    <3>4. ~Running /\ timers[j] = 0 /\ spent[j] = 0 /\ docs[j] = 0 /\ retries = 0
      BY <2>1 DEF Init, NoTimers, Running, Working
    <3>5. Chances(j) = 0
      BY <3>3, <3>4 DEF Chances, Load, OnIt
    <3>6. QED
      BY <3>2, <3>3, <3>4, <3>5 DEF Rationed
  <2>2. QED
    BY <2>1, SteadyInit DEF Rations
<1>2. Rations /\ [Next]_vars => Rations'
  <2>1. ASSUME Rations, [Next]_vars PROVE Rations'
    <3>1. Steady'
      BY <2>1, SteadyStep DEF Rations
    <3>2. CASE Next
      BY <2>1, <3>1, <3>2, RationedStep DEF Rations
    <3>3. CASE UNCHANGED vars
      <4>1. /\ UNCHANGED row /\ UNCHANGED worker /\ UNCHANGED docs /\ UNCHANGED spent
            /\ UNCHANGED retry /\ UNCHANGED retries /\ UNCHANGED timers
        BY <3>3 DEF vars, catalog, process, history, bounds
      <4>2. QED
        BY <2>1, <3>1, <4>1 DEF Rations, Rationed, On, Pending, Chances, Load, Terminal, In,
           Has, OnIt, Running, Working
    <3>4. QED
      BY <2>1, <3>2, <3>3
  <2>2. QED
    BY <2>1
<1>3. QED
  BY <1>1, <1>2, PTL DEF Spec

-----------------------------------------------------------------------------
(* A second copy takes a run that was cut short, or a press of Retry.        *)

\* A run that has stored its document and not yet said so has had its chance.
Stored(j) == OnIt(j) /\ worker.pc = "stored"

Copied(j) ==
    docs[j] + Chances(j) + Pending(j)
        <= 1 + cuts[j] + retries + (IF Stored(j) THEN 1 ELSE 0)

Library == Rations /\ \A j \in Jobs : Copied(j)

LEMMA CopiedStep ==
  ASSUME Library, Next, NEW j \in Jobs
  PROVE  Copied(j)'
<1>1. /\ docs[j] \in Nat /\ cuts[j] \in Nat /\ docs'[j] \in Nat /\ cuts'[j] \in Nat
      /\ docs \in [Jobs -> Nat] /\ Typed /\ Rations /\ Copied(j)
  BY CountsStep DEF Library, Rations, Steady, Typed, Counts
<1>2. /\ Chances(j) \in Nat /\ Chances(j)' \in Nat
      /\ Pending(j) \in Nat /\ Pending(j)' \in Nat
      /\ retries \in Nat /\ retries' \in Nat /\ retries' >= retries
      /\ \/ Chances(j)' + Pending(j)' + retries <= Chances(j) + Pending(j) + retries'
         \/ Chances(j)' <= 1 /\ Pending(j)' = 0 /\ docs[j] = 0 /\ Enqueue(j)
      /\ (FinishDone \/ Park) /\ worker.job = j =>
           Chances(j)' + Pending(j)' + 1 + retries <= Chances(j) + Pending(j) + retries'
  BY <1>1, RationMoves
<1>3. cuts'[j] >= cuts[j] /\ (Costs(j, 1, 1) => cuts'[j] = cuts[j] + 1)
  <2>1. Costs(j, 0, 0) \/ Costs(j, 1, 1) \/ Costs(j, 1, 0) \/ cuts'[j] = cuts[j]
    BY <1>1, CostMoves
  <2>2. QED
    BY <1>1, <2>1 DEF Costs
<1>4. CASE /\ Store /\ worker \in Claims /\ worker.pc = "embed"
           /\ worker' = [worker EXCEPT !.pc = "stored"]
           /\ docs' = [docs EXCEPT ![worker.job] = @ + 1]
           /\ worker.job = j
  <2>1. ~Stored(j) /\ Stored(j)'
    BY <1>4 DEF Stored, OnIt, Running, Working, Resting, Claims
  <2>2. docs'[j] = docs[j] + 1 /\ ~Enqueue(j)
    <3>1. ~Enqueue(j)
      BY <1>1, <1>4 DEF Enqueue
    <3>2. QED
      BY <1>1, <1>4, <3>1
  <2>3. QED
    BY <1>1, <1>2, <1>3, <2>1, <2>2 DEF Copied
<1>5. CASE docs'[j] = docs[j] /\ (Stored(j) => Stored(j)')
  BY <1>1, <1>2, <1>3, <1>5 DEF Copied
<1>6. CASE docs'[j] = docs[j] /\ Stored(j) /\ ~Stored(j)'
  <2>1. ~OnIt(j)'
    <3>1. SUFFICES ASSUME OnIt(j)' PROVE FALSE
      OBVIOUS
    <3>2. worker'.pc \in {"read", "embed", "failed"} /\ worker'.pc \in WorkerPCs
      BY <1>6, <3>1 DEF Stored, OnIt, Running, WorkerPCs
    <3>3. ~UNCHANGED worker /\ \A k \in Jobs : ~Claim(k)
      BY <1>6, <3>2 DEF Claim, Stored, OnIt, Running
    <3>4. QED
      BY <1>1, <1>6, <3>2, <3>3, RunMoves DEF Stored
  <2>2. ~RequeueOnStop /\ ~Park /\ ~BackOff /\ worker.job = j
    BY <1>6 DEF RequeueOnStop, Park, BackOff, Stored, OnIt
  <2>3. FinishDone \/ Costs(j, 1, 1)
    BY <1>1, <1>6, <2>1, <2>2, RunEnds DEF Stored
  <2>4. ~Enqueue(j)
    <3>1. Has(j)
      BY <1>1, <1>6, RunHolds DEF Stored
    <3>2. QED
      BY <3>1 DEF Enqueue, Library, Rations, Steady, Fresh
  <2>5. QED
    BY <1>1, <1>2, <1>3, <1>6, <2>2, <2>3, <2>4 DEF Copied
<1>7. QED
  <2>1. ASSUME worker.job # j, docs' = [docs EXCEPT ![worker.job] = @ + 1]
        PROVE  docs'[j] = docs[j]
    BY <1>1, <2>1
  <2>2. QED
    BY <1>1, <1>4, <1>5, <1>6, <2>1, DocsGrow

LEMMA AlwaysLibrary == Spec => []Library
<1>1. Init /\ Rations => Library
  <2>1. ASSUME Init, Rations, NEW j \in Jobs PROVE Copied(j)
    <3>1. docs[j] = 0 /\ cuts[j] = 0 /\ retries = 0 /\ ~Has(j)
      BY <2>1 DEF Init, Has, NoRows
    <3>2. Chances(j) = 0 /\ Pending(j) = 0
      BY <2>1, <3>1 DEF Rations, Rationed
    <3>3. QED
      BY <3>1, <3>2 DEF Copied
  <2>2. QED
    BY <2>1 DEF Library
<1>2. Library /\ [Next]_vars /\ Rations' => Library'
  <2>1. ASSUME Library, [Next]_vars, Rations' PROVE Library'
    <3>1. CASE Next
      BY <2>1, <3>1, CopiedStep DEF Library
    <3>2. CASE UNCHANGED vars
      <4>1. /\ UNCHANGED row /\ UNCHANGED worker /\ UNCHANGED docs /\ UNCHANGED cuts
            /\ UNCHANGED retry /\ UNCHANGED retries /\ UNCHANGED timers
        BY <3>2 DEF vars, catalog, process, history, bounds
      <4>2. QED
        BY <2>1, <4>1 DEF Library, Copied, Stored, On, Pending, Chances, Load, In, Has, OnIt,
           Running, Working
    <3>3. QED
      BY <2>1, <3>1, <3>2
  <2>2. QED
    BY <2>1
<1>3. QED
  BY <1>1, <1>2, AlwaysRations, PTL DEF Spec

\* Every copy of a document after the first is owed to a run that was cut short or
\* to a press of Retry, however many presses overlap: a back-off never ingests again
\* what an earlier run has stored (AddDocument, step).
THEOREM CopiesAreOwed == Spec => []CopiesNeedCuts
<1>1. Library => CopiesNeedCuts
  <2>1. SUFFICES ASSUME Library, NEW j \in Jobs PROVE docs[j] <= 1 + cuts[j] + retries
    BY DEF CopiesNeedCuts
  <2>2. /\ docs[j] \in Nat /\ cuts[j] \in Nat /\ retries \in Nat /\ timers[j] \in Nat
        /\ Typed /\ IsFiniteSet(On(j)) /\ Copied(j)
    BY <2>1 DEF Library, Rations, Rationed, Steady, Typed, Counts, Sets
  <2>3. Pending(j) \in Nat
    BY <2>2, FS_CardinalityType DEF Pending
  <2>4. Chances(j) \in Nat /\ (Stored(j) => Chances(j) >= 1)
    BY <2>2 DEF Chances, Load, Stored
  <2>5. QED
    BY <2>2, <2>3, <2>4 DEF Copied
<1>2. QED
  BY <1>1, AlwaysLibrary, PTL

\* Both together, for any number of operators: a job that is done has its document,
\* and every further copy is owed to a run that was cut short or to a press of Retry
\* (step).
THEOREM CopiesAreAccountedFor == Spec => []DocumentsAddUp
<1>1. DoneIsStored /\ CopiesNeedCuts => DocumentsAddUp
  BY DEF DocumentsAddUp
<1>2. QED
  BY <1>1, DoneMeansStored, CopiesAreOwed, PTL

-----------------------------------------------------------------------------
(* The budget of a job, however many presses of Retry overlap.               *)

\* The claims of a budget: what the row has counted, the last one left out.
Allowed(j) ==
    IF ~Has(j) THEN 0
    ELSE IF row[j].attempt < MaxAttempts THEN row[j].attempt ELSE MaxAttempts - 1

\* A run that may still back off, and whose claim the row has counted.
Counted(j) ==
    OnIt(j) /\ worker.attempt = row[j].attempt /\ row[j].attempt < MaxAttempts

\* Each claim below the budget pays for the back-off it may end in; any other end
\* takes a run away.  A press that resets a row under its run leaves a run that no
\* claim pays for, and a budget of which nothing is spent.
Afforded(j) ==
    /\ OnIt(j) => worker.attempt = row[j].attempt \/ (spent[j] = 0 /\ retries > 0)
    /\ spent[j] + Chances(j) + Pending(j) + (IF Counted(j) THEN 1 ELSE 0)
         <= 1 + retries + cuts[j] + Allowed(j)

Accounts == Rations /\ \A j \in Jobs : Afforded(j)

\* The count of a row goes up with a claim, back to zero with a press of Retry, and
\* otherwise stays.
LEMMA CountMoves ==
  ASSUME Steady, Next, NEW j \in Jobs, Has(j)
  PROVE  /\ Has(j)' /\ row[j].attempt \in Nat /\ row'[j].attempt \in Nat
         /\ \/ row'[j].attempt = row[j].attempt /\ ~Claim(j)
            \/ Claim(j) /\ row'[j].attempt = row[j].attempt + 1
            \/ \E o \in Operators : /\ RetryRequeue(o) /\ retry[o].job = j /\ ~UNCHANGED row
                                    /\ row'[j].attempt = 0
<1>1. j \in DOMAIN row /\ j \in DOMAIN row' /\ Rows' /\ Fate(j) /\ ~Enqueue(j) /\ Typed
  BY RowsGrow, RowFate DEF Steady, Fresh, Has, Enqueue
<1>2. row[j].attempt \in Nat /\ row'[j].attempt \in Nat
  BY <1>1 DEF Typed, Rows, Row
<1>3. Claim(j) => row'[j].attempt = row[j].attempt + 1
  BY <1>1, RowClaimed DEF Typed
<1>4. QED
  BY <1>1, <1>2, <1>3 DEF Fate, Kept, Turned, Has

\* What a step that charges nothing does to the claims of a budget.
LEMMA AllowedMoves ==
  ASSUME Accounts, Next, NEW j \in Jobs, Has(j),
         ~\E o \in Operators : RetryRequeue(o) /\ retry[o].job = j /\ ~UNCHANGED row
  PROVE  /\ Allowed(j) \in Nat /\ Allowed(j)' \in Nat /\ Allowed(j)' >= Allowed(j)
         /\ Counted(j)' => Counted(j) \/ Allowed(j)' = Allowed(j) + 1
<1>. USE AttemptsAssumption
<1>1. Steady /\ Typed
  BY DEF Accounts, Rations, Steady
<1>2. /\ Has(j)' /\ row[j].attempt \in Nat /\ row'[j].attempt \in Nat
      /\ \/ row'[j].attempt = row[j].attempt /\ ~Claim(j)
         \/ Claim(j) /\ row'[j].attempt = row[j].attempt + 1
  BY <1>1, CountMoves
<1>3. Allowed(j) \in Nat /\ Allowed(j)' \in Nat /\ Allowed(j)' >= Allowed(j)
  BY <1>2 DEF Allowed
<1>4. ASSUME Counted(j)'
      PROVE  Counted(j) \/ Allowed(j)' = Allowed(j) + 1
  <2>1. OnIt(j)' /\ worker'.attempt = row'[j].attempt /\ row'[j].attempt < MaxAttempts
    BY <1>4 DEF Counted
  <2>2. CASE OnIt(j) /\ worker'.attempt = worker.attempt /\ ~Claim(j)
    BY <1>2, <2>1, <2>2 DEF Counted
  <2>3. CASE Claim(j)
    <3>1. row'[j].attempt = row[j].attempt + 1
      BY <1>2, <2>3
    <3>2. QED
      BY <1>2, <2>1, <3>1 DEF Allowed
  <2>4. QED
    BY <1>1, <2>1, <2>2, <2>3, RunGoesOn
<1>5. QED
  BY <1>3, <1>4

LEMMA AffordedStep ==
  ASSUME Accounts, Next, Rations', NEW j \in Jobs
  PROVE  Afforded(j)'
<1>. USE AttemptsAssumption
<1>1. /\ spent[j] \in Nat /\ cuts[j] \in Nat /\ spent'[j] \in Nat /\ cuts'[j] \in Nat
      /\ Rations /\ Steady /\ Typed /\ Rationed(j) /\ Rationed(j)' /\ Afforded(j)
  BY CountsStep DEF Accounts, Rations, Steady, Typed, Counts
<1>2. /\ Chances(j) \in Nat /\ Chances(j)' \in Nat
      /\ Pending(j) \in Nat /\ Pending(j)' \in Nat
      /\ retries \in Nat /\ retries' \in Nat /\ retries' >= retries
      /\ \/ Chances(j)' + Pending(j)' + retries <= Chances(j) + Pending(j) + retries'
         \/ Enqueue(j) /\ Chances(j)' <= 1 /\ Pending(j)' = 0 /\ ~Has(j) /\ spent[j] = 0
      /\ (FinishDone \/ Park) /\ worker.job = j =>
           Chances(j)' + Pending(j)' + 1 + retries <= Chances(j) + Pending(j) + retries'
  BY <1>1, RationMoves
<1>3. ASSUME OnIt(j)
      PROVE  /\ Has(j) /\ ~Enqueue(j) /\ worker.job = j
             /\ row[j].attempt \in Nat /\ worker.attempt \in Nat
  <2>1. Has(j) /\ worker.job = j /\ worker.attempt \in Nat
    BY <1>1, <1>3, RunHolds
  <2>2. QED
    BY <1>1, <2>1, CountMoves DEF Enqueue, Steady, Fresh
<1>4. ASSUME ~Has(j)
      PROVE  ~OnIt(j)' /\ Allowed(j)' = 0 /\ ~Counted(j)'
  <2>1. ~OnIt(j) /\ ~Claim(j)
    BY <1>3, <1>4 DEF Claim, Oldest, Has
  <2>2. ~OnIt(j)'
    BY <1>1, <2>1, RunGoesOn
  <2>3. Has(j)' => row'[j].attempt = 0
    BY <1>1, <1>4, RowFate DEF Has, Fate, Kept, Turned
  <2>4. QED
    BY <2>2, <2>3 DEF Allowed, Counted
<1>5. CASE ~Has(j)
  <2>1. Costs(j, 0, 0)
    <3>1. \A o \in Operators : ~(RetryRequeue(o) /\ retry[o].job = j)
      BY <1>1, <1>5, Pressing DEF RetryRequeue, RetryPCs, Has, Typed
    <3>2. ~OnIt(j) /\ ~Claim(j)
      BY <1>3, <1>5 DEF Claim, Oldest, Has
    <3>3. QED
      BY <1>1, <3>1, <3>2, CostMoves
  <2>2. spent[j] = 0 /\ Chances(j) = 0 /\ Pending(j) = 0
    BY <1>1, <1>5 DEF Rationed
  <2>3. QED
    BY <1>1, <1>2, <1>4, <1>5, <2>1, <2>2 DEF Afforded, Costs
<1>6. CASE Has(j) /\ \E o \in Operators : RetryRequeue(o) /\ retry[o].job = j /\ ~UNCHANGED row
  <2>1. PICK o \in Operators : RetryRequeue(o) /\ retry[o].job = j /\ ~UNCHANGED row
    BY <1>6
  <2>2. /\ spent'[j] = 0 /\ UNCHANGED worker /\ UNCHANGED retries /\ UNCHANGED cuts
        /\ row' = [row EXCEPT ![j].status = "queued", ![j].attempt = 0]
    BY <2>1 DEF RetryRequeue, NewBudget, Typed, Counts, bounds, Accounts, Rations, Steady
  <2>3. 1 <= Pending(j)
    BY <1>1, <2>1, PendingMoves DEF Rationed
  <2>4. retries > 0 /\ Chances(j)' + Pending(j)' <= retries'
    BY <1>1, <1>2, <2>2, <2>3 DEF Rationed
  <2>5. row'[j].attempt = 0 /\ Has(j)'
    BY <1>1, <1>6, <2>2, RowRetried DEF Has, Typed
  <2>6. Allowed(j)' = 0
    BY <2>5 DEF Allowed
  <2>7. QED
    BY <1>1, <1>2, <2>2, <2>4, <2>6 DEF Afforded
<1>7. CASE /\ Has(j)
           /\ ~\E o \in Operators : RetryRequeue(o) /\ retry[o].job = j /\ ~UNCHANGED row
  <2>1. /\ Allowed(j) \in Nat /\ Allowed(j)' \in Nat /\ Allowed(j)' >= Allowed(j)
        /\ Counted(j)' => Counted(j) \/ Allowed(j)' = Allowed(j) + 1
    BY <1>7, AllowedMoves
  <2>2. Chances(j)' + Pending(j)' + retries <= Chances(j) + Pending(j) + retries'
    BY <1>2, <1>7
  <2>3. CASE Costs(j, 0, 0)
    <3>1. OnIt(j)' => worker'.attempt = row'[j].attempt \/ (spent'[j] = 0 /\ retries' > 0)
      <4>1. SUFFICES ASSUME OnIt(j)', ~Claim(j)
                     PROVE  worker'.attempt = row'[j].attempt \/ (spent'[j] = 0 /\ retries' > 0)
        BY <1>1, RunGoesOn, RunHolds
      <4>2. OnIt(j) /\ worker'.attempt = worker.attempt
        BY <1>1, <4>1, RunGoesOn
      <4>3. row'[j].attempt = row[j].attempt
        BY <1>1, <1>7, <4>1, CountMoves
      <4>4. QED
        BY <1>1, <1>2, <2>3, <4>2, <4>3 DEF Afforded, Costs
    <3>2. spent'[j] = spent[j] /\ cuts'[j] = cuts[j]
      BY <1>1, <2>3 DEF Costs
    <3>3. QED
      BY <1>1, <1>2, <2>1, <2>2, <3>1, <3>2 DEF Afforded
  <2>4. CASE Costs(j, 1, 1) /\ worker' = Resting
    <3>1. ~OnIt(j)' /\ ~Counted(j)'
      BY <2>4 DEF OnIt, Counted, Running, Working
    <3>2. QED
      BY <1>1, <1>2, <2>1, <2>2, <2>4, <3>1 DEF Afforded, Costs
  <2>5. CASE Costs(j, 1, 0) /\ OnIt(j) /\ BackOff
    <3>1. UNCHANGED row /\ worker' = Resting /\ worker.attempt < MaxAttempts
      BY <2>5 DEF BackOff, catalog
    <3>2. ~OnIt(j)' /\ ~Counted(j)'
      BY <3>1 DEF OnIt, Counted, Running, Working
    <3>3. CASE worker.attempt = row[j].attempt
      <4>1. Counted(j)
        BY <2>5, <3>1, <3>3 DEF Counted
      <4>2. QED
        BY <1>1, <1>2, <2>1, <2>2, <2>5, <3>2, <4>1 DEF Afforded, Costs
    <3>4. CASE spent[j] = 0 /\ retries > 0
      <4>1. Chances(j)' + Pending(j)' <= retries'
        BY <1>1, <1>2, <3>4 DEF Rationed
      <4>2. QED
        BY <1>1, <1>2, <2>1, <2>5, <3>2, <3>4, <4>1 DEF Afforded, Costs
    <3>5. QED
      BY <1>1, <2>5, <3>3, <3>4 DEF Afforded
  <2>6. CASE Costs(j, 1, 0) /\ OnIt(j) /\ Park
    <3>1. ~OnIt(j)' /\ ~Counted(j)'
      <4>1. worker'.pc \in {"discard", "idle"}
        BY <1>1, <2>6, Holding DEF Park, Proceed, Resting, Claims, WorkerPCs, Typed
      <4>2. QED
        BY <4>1 DEF OnIt, Counted, Running
    <3>2. Chances(j)' + Pending(j)' + 1 + retries <= Chances(j) + Pending(j) + retries'
      BY <1>2, <1>3, <2>6
    <3>3. QED
      BY <1>1, <1>2, <2>1, <2>6, <3>1, <3>2 DEF Afforded, Costs
  <2>7. CASE /\ spent'[j] = 0 /\ cuts'[j] = cuts[j]
             /\ \E o \in Operators : RetryRequeue(o) /\ retry[o].job = j
             /\ row' = [row EXCEPT ![j].status = "queued", ![j].attempt = 0]
    \* A row that a press has found queued with nothing counted: nothing to reset.
    <3>1. UNCHANGED row /\ UNCHANGED worker
      BY <1>7, <2>7 DEF RetryRequeue
    <3>2. (OnIt(j)' <=> OnIt(j)) /\ Allowed(j)' = Allowed(j) /\ (Counted(j)' <=> Counted(j))
      BY <3>1 DEF OnIt, Running, Working, Allowed, Counted, Has
    <3>3. spent'[j] = 0 /\ cuts'[j] = cuts[j]
      BY <2>7
    <3>4. OnIt(j)' => worker'.attempt = row'[j].attempt \/ (spent'[j] = 0 /\ retries' > 0)
      <4>1. SUFFICES ASSUME OnIt(j)
                     PROVE  worker'.attempt = row'[j].attempt \/ (spent'[j] = 0 /\ retries' > 0)
        BY <3>2
      <4>2. CASE worker.attempt = row[j].attempt
        BY <3>1, <4>2
      <4>3. CASE retries > 0
        BY <1>2, <3>3, <4>3
      <4>4. QED
        BY <1>1, <4>1, <4>2, <4>3 DEF Afforded
    <3>5. QED
      BY <1>1, <1>2, <2>1, <2>2, <3>2, <3>3, <3>4 DEF Afforded
  <2>8. QED
    BY <1>1, <2>3, <2>4, <2>5, <2>6, <2>7, CostMoves
<1>8. QED
  BY <1>5, <1>6, <1>7

LEMMA AlwaysAccounts == Spec => []Accounts
<1>1. Init /\ Rations => Accounts
  <2>1. ASSUME Init, Rations, NEW j \in Jobs PROVE Afforded(j)
    <3>1. spent[j] = 0 /\ cuts[j] = 0 /\ retries = 0 /\ ~Has(j) /\ ~Running
      BY <2>1 DEF Init, Has, NoRows, Running, Working
    <3>2. Chances(j) = 0 /\ Pending(j) = 0
      BY <2>1, <3>1 DEF Rations, Rationed
    <3>3. Allowed(j) = 0 /\ ~OnIt(j) /\ ~Counted(j)
      BY <3>1 DEF Allowed, OnIt, Counted
    <3>4. QED
      BY <3>1, <3>2, <3>3 DEF Afforded
  <2>2. QED
    BY <2>1 DEF Accounts
<1>2. Accounts /\ [Next]_vars /\ Rations' => Accounts'
  <2>1. ASSUME Accounts, [Next]_vars, Rations' PROVE Accounts'
    <3>1. CASE Next
      BY <2>1, <3>1, AffordedStep DEF Accounts
    <3>2. CASE UNCHANGED vars
      <4>1. /\ UNCHANGED row /\ UNCHANGED worker /\ UNCHANGED spent /\ UNCHANGED cuts
            /\ UNCHANGED retry /\ UNCHANGED retries /\ UNCHANGED timers
        BY <3>2 DEF vars, catalog, process, history, bounds
      <4>2. QED
        BY <2>1, <4>1 DEF Accounts, Afforded, Allowed, Counted, On, Pending, Chances, Load, In,
           Has, OnIt, Running, Working
    <3>3. QED
      BY <2>1, <3>1, <3>2
  <2>2. QED
    BY <2>1
<1>3. QED
  BY <1>1, <1>2, AlwaysRations, PTL DEF Spec

\* However many presses of Retry overlap, and whatever fails, crashes or panics, no
\* job is retried for ever (step: the attempt budget, handleRetryIngestJob).
THEOREM PressesBounded == Spec => []PressesAreBounded
<1>1. Accounts => PressesAreBounded
  <2>1. SUFFICES ASSUME Accounts, NEW j \in Jobs
                 PROVE  spent[j] <= MaxAttempts + cuts[j] + retries
    BY DEF PressesAreBounded
  <2>2. /\ spent[j] \in Nat /\ cuts[j] \in Nat /\ retries \in Nat /\ timers[j] \in Nat
        /\ Typed /\ IsFiniteSet(On(j)) /\ Afforded(j)
    BY <2>1 DEF Accounts, Rations, Rationed, Steady, Typed, Counts, Sets
  <2>3. Pending(j) \in Nat /\ Chances(j) \in Nat
    BY <2>2, FS_CardinalityType DEF Pending, Chances, Load
  <2>4. Allowed(j) \in Nat /\ Allowed(j) <= MaxAttempts - 1
    BY <2>2, AttemptsAssumption DEF Allowed, Has, Typed, Rows, Row
  <2>5. QED
    BY <2>2, <2>3, <2>4, AttemptsAssumption DEF Afforded
<1>2. QED
  BY <1>1, AlwaysAccounts, PTL

-----------------------------------------------------------------------------
(* Who owns a row: its run, its timer, or the one press that is about it.    *)

\* A run holds a running row and no timer waits for it.
Held ==
    Running /\ worker.job \notin contested =>
        In(worker.job, {"running"}) /\ timers[worker.job] = 0

\* A timer waits for a row that is still marked as running, and waits alone.
Waiting == \A j \in Jobs \ contested : timers[j] > 0 => timers[j] = 1 /\ In(j, {"running"})

\* A press under way is about a job that has ended, and alone about it.
Pressed ==
    \A o \in Operators : retry[o] # NoRetry /\ retry[o].job \notin contested =>
        /\ Terminal(retry[o].job)
        /\ \A p \in Operators : retry[p] # NoRetry /\ retry[p].job = retry[o].job => p = o

Owned == Steady /\ Held /\ Waiting /\ Pressed

\* A job that presses have contested stays so until the process ends.
LEMMA ContestedGrows ==
  ASSUME Next
  PROVE  contested \subseteq contested' \/ End
<1>1. CASE WorkerStep
  BY <1>1 DEF WorkerStep, Claim, Read, RunFails, Store, Panic, StepFails, FinishDone, Clean,
     RequeueOnStop, BackOff, Park, Discard, history
<1>2. CASE \E j \in Jobs : Upload(j) \/ Enqueue(j) \/ EnqueueFails(j)
                           \/ TimerFires(j) \/ TimerCancelled(j)
  BY <1>2 DEF Upload, Enqueue, EnqueueFails, TimerFires, TimerCancelled, history
<1>3. CASE \E o \in Operators : \/ RetryStat(o) \/ RetryRequeue(o)
                               \/ \E j \in Jobs : RetryCheck(o, j)
  BY <1>3 DEF RetryStat, RetryRequeue, RetryCheck, history
<1>4. CASE Stop \/ Exit \/ Crash \/ Boot
  BY <1>4 DEF Stop, Exit, Crash, Boot, history
<1>5. QED
  BY <1>1, <1>2, <1>3, <1>4 DEF Next

\* A running row changes only by its run, by its timer, or when the process
\* starts again.
LEMMA RunningFate ==
  ASSUME Owned, Next, NEW k, k \notin contested, In(k, {"running"})
  PROVE  /\ k \in DOMAIN row'
         /\ \/ Kept(k)
            \/ (FinishDone \/ Park \/ RequeueOnStop) /\ k = worker.job
            \/ TimerFires(k)
            \/ Boot /\ up = "down"
<1>1. /\ k \in DOMAIN row /\ row[k].status = "running" /\ k \in DOMAIN row'
  BY RowsGrow DEF In, Has, Owned, Steady
<1>2. ~Enqueue(k)
  BY <1>1 DEF Enqueue, Owned, Steady, Fresh, Has
<1>3. ASSUME NEW o \in Operators, RetryRequeue(o), retry[o].job = k
      PROVE  FALSE
  <2>1. retry[o] # NoRetry
    BY <1>3, Pressing DEF RetryRequeue, RetryPCs, Owned, Steady, Typed
  <2>2. QED
    BY <1>1, <1>3, <2>1 DEF Owned, Pressed, Terminal, In
<1>4. QED
  BY <1>1, <1>2, <1>3, RowFate DEF Fate, Owned, Steady, Boot

\* A row that has ended changes only by a press of Retry.
LEMMA EndedFate ==
  ASSUME Owned, Next, NEW k, k \notin contested, Terminal(k)
  PROVE  /\ k \in DOMAIN row'
         /\ \/ Kept(k)
            \/ \E o \in Operators : RetryRequeue(o) /\ retry[o].job = k
<1>1. k \in DOMAIN row /\ row[k].status \in {"done", "failed"} /\ k \in DOMAIN row'
  BY RowsGrow DEF Terminal, In, Has, Owned, Steady
<1>2. ~Enqueue(k)
  BY <1>1 DEF Enqueue, Owned, Steady, Fresh, Has
<1>3. ~((FinishDone \/ Park \/ RequeueOnStop) /\ k = worker.job)
  BY <1>1 DEF FinishDone, Park, RequeueOnStop, Owned, Held, Running, Working, Resting, In
<1>4. ~TimerFires(k)
  BY <1>1 DEF TimerFires, Owned, Steady, Typed, Rows, Waiting, In
<1>5. QED
  BY <1>1, <1>2, <1>3, <1>4, RowFate DEF Fate, Owned, Steady

LEMMA WaitingStep ==
  ASSUME Owned, Next
  PROVE  Waiting'
<1>. USE DEF Steady
<1>1. SUFFICES ASSUME NEW k \in Jobs, k \notin contested', timers'[k] > 0
               PROVE  timers'[k] = 1 /\ In(k, {"running"})'
  BY DEF Waiting
<1>2. k \notin contested /\ ~End
  BY <1>1, ContestedGrows DEF End, NoTimers
<1>3. CASE timers'[k] = timers[k] + 1 /\ BackOff /\ k = worker.job
  <2>1. Running /\ UNCHANGED row
    BY <1>3 DEF BackOff, Running, Working, Resting, catalog
  <2>2. QED
    BY <1>2, <1>3, <2>1 DEF Owned, Held, In, Has
<1>4. CASE timers'[k] <= timers[k] /\ timers[k] \in Nat /\ ~TimerFires(k)
  <2>1. In(k, {"running"}) /\ timers[k] = 1
    BY <1>1, <1>2, <1>4, TimersMove DEF Owned, Waiting
  <2>2. up # "down"
    BY <2>1 DEF Owned, Quiet, NoTimers
  <2>3. ~((FinishDone \/ Park \/ RequeueOnStop) /\ k = worker.job)
    BY <1>2, <2>1 DEF Owned, Held, Running, Working, Resting, FinishDone, Park, RequeueOnStop
  <2>4. Kept(k) /\ k \in DOMAIN row'
    BY <1>2, <1>4, <2>1, <2>2, <2>3, RunningFate
  <2>5. timers'[k] \in Nat
    BY TimersMove DEF Owned
  <2>6. QED
    BY <1>1, <1>4, <2>1, <2>4, <2>5 DEF In, Has, Kept
<1>5. CASE timers'[k] + 1 = timers[k]
  BY <1>1, <1>2, <1>5, TimersMove DEF Owned, Waiting
<1>6. QED
  BY <1>1, <1>2, <1>3, <1>4, <1>5, TimersMove DEF Owned

LEMMA PressedStep ==
  ASSUME Owned, Next
  PROVE  Pressed'
<1>. USE DEF Owned, Steady
<1>1. SUFFICES ASSUME NEW o \in Operators, NEW k, k = retry'[o].job, retry'[o] # NoRetry,
                      k \notin contested'
               PROVE  /\ Terminal(k)'
                      /\ \A p \in Operators : retry'[p] # NoRetry /\ retry'[p].job = k => p = o
  BY DEF Pressed
<1>2. k \notin contested /\ ~End
  BY <1>1, ContestedGrows DEF End
<1>3. \A p \in Operators, j \in Jobs : RetryCheck(p, j) /\ Asked(j) => j \in contested'
  BY DEF RetryCheck
<1>4. CASE retry[o] # NoRetry /\ retry[o].job = k /\ ~RetryRequeue(o)
  <2>1. /\ Terminal(k)
        /\ \A p \in Operators : retry[p] # NoRetry /\ retry[p].job = k => p = o
    BY <1>2, <1>4 DEF Pressed
  <2>2. \A p \in Operators : RetryRequeue(p) => retry[p].job # k
    BY <1>4, <2>1, Pressing DEF RetryRequeue, RetryPCs, Typed
  <2>3. k \in DOMAIN row' /\ Kept(k)
    BY <1>2, <2>1, <2>2, EndedFate
  <2>4. Terminal(k)'
    BY <2>1, <2>3 DEF Terminal, In, Has, Kept
  <2>5. ASSUME NEW p \in Operators, retry'[p] # NoRetry, retry'[p].job = k
        PROVE  p = o
    <3>1. CASE retry[p] # NoRetry /\ retry'[p].job = retry[p].job
      BY <2>1, <2>5, <3>1
    <3>2. ~RetryCheck(p, k) \/ k \notin Jobs
      BY <1>1, <1>3, <1>4 DEF Asked
    <3>3. QED
      BY <2>5, <3>1, <3>2, RequestsMove
  <2>6. QED
    BY <2>4, <2>5
<1>5. CASE RetryCheck(o, k) /\ k \in Jobs /\ Terminal(k) /\ UNCHANGED row
  <2>1. Terminal(k)'
    BY <1>5 DEF Terminal, In, Has
  <2>2. \A p \in Operators : ~(retry[p] # NoRetry /\ retry[p].job = k)
    BY <1>1, <1>3, <1>5 DEF Asked
  <2>3. \A p \in Operators : p # o => retry'[p] = retry[p]
    BY <1>5 DEF RetryCheck, Typed, RetryTyped
  <2>4. QED
    BY <2>1, <2>2, <2>3
<1>6. QED
  BY <1>1, <1>4, <1>5, RequestsMove

LEMMA HeldStep ==
  ASSUME Owned, Next
  PROVE  Held'
<1>. USE DEF Steady
<1>1. SUFFICES ASSUME Running', NEW k, k = worker'.job, k \notin contested'
               PROVE  In(k, {"running"})' /\ timers'[k] = 0
  BY DEF Held
<1>2. worker'.pc \in {"read", "embed", "stored", "failed"} /\ worker'.pc \in WorkerPCs
  BY <1>1 DEF Running, WorkerPCs
<1>3. k \notin contested /\ ~End
  BY <1>1, <1>2, ContestedGrows DEF End, Resting
<1>4. CASE UNCHANGED worker
  <2>1. Running /\ worker # Resting /\ worker.pc \in WorkerPCs /\ k = worker.job
    BY <1>1, <1>2, <1>4 DEF Running, Working, Resting
  <2>2. In(k, {"running"}) /\ timers[k] = 0
    BY <1>3, <2>1 DEF Owned, Held
  <2>3. worker \in Claims /\ up # "down"
    BY <2>1, Holding DEF Owned, Typed, Quiet
  <2>4. ~FinishDone /\ ~Park /\ ~RequeueOnStop /\ ~BackOff
    BY <1>4, <2>1, <2>3 DEF FinishDone, Park, RequeueOnStop, BackOff, Proceed, Claims
  <2>5. Kept(k) /\ k \in DOMAIN row'
    BY <1>3, <2>2, <2>3, <2>4, RunningFate DEF TimerFires
  <2>6. timers'[k] = 0
    <3>1. k \in Jobs
      BY <2>2 DEF In, Has, Owned, Typed, Rows
    <3>2. QED
      BY <2>2, <2>4, <3>1, TimersMove DEF Owned
  <2>7. QED
    BY <2>2, <2>5, <2>6 DEF In, Has, Kept
<1>5. ASSUME NEW j \in Jobs, Claim(j), worker' = At("read", j, row'[j].attempt)
      PROVE  In(k, {"running"})' /\ timers'[k] = 0
  <2>1. k = j
    BY <1>1, <1>5 DEF At
  <2>2. /\ j \in DOMAIN row' /\ j \in DOMAIN row /\ row[j].status = "queued"
        /\ row'[j].status = "running"
    BY <1>5, RowClaimed DEF Owned, Typed
  <2>3. timers[j] = 0 /\ UNCHANGED timers
    BY <1>3, <1>5, <2>1, <2>2 DEF Owned, Typed, Sets, Waiting, In, Claim, process
  <2>4. QED
    BY <2>1, <2>2, <2>3 DEF In, Has
<1>6. ASSUME Read \/ Store, worker \in Claims, worker'.job = worker.job
      PROVE  In(k, {"running"})' /\ timers'[k] = 0
  <2>1. Running
    BY <1>6 DEF Read, Store, Running, Working, Resting
  <2>2. UNCHANGED row /\ UNCHANGED timers
    BY <1>6 DEF Read, Store, RunFails, catalog, process
  <2>3. QED
    BY <1>1, <1>3, <1>6, <2>1, <2>2 DEF Owned, Held, In, Has
<1>7. QED
  BY <1>2, <1>4, <1>5, <1>6, RunMoves DEF Owned

LEMMA OwnedInit == Init => Owned
<1>1. ASSUME Init PROVE Held /\ Waiting /\ Pressed
  BY <1>1 DEF Init, NoTimers, Held, Waiting, Pressed, Running, Working
<1>2. QED
  BY <1>1, SteadyInit DEF Owned

LEMMA OwnedStep ==
  ASSUME Owned, [Next]_vars
  PROVE  Owned'
<1>1. Steady'
  BY SteadyStep DEF Owned
<1>2. CASE Next
  BY <1>1, <1>2, WaitingStep, PressedStep, HeldStep DEF Owned
<1>3. CASE UNCHANGED vars
  <2>1. /\ UNCHANGED row /\ UNCHANGED timers /\ UNCHANGED retry /\ UNCHANGED worker
        /\ UNCHANGED contested
    BY <1>3 DEF vars, catalog, process, history
  <2>2. QED
    BY <1>1, <2>1 DEF Owned, Held, Waiting, Pressed, Running, Working, Terminal, In, Has
<1>4. QED
  BY <1>2, <1>3

\* Unless presses of Retry about this very job have overlapped since the process
\* started, the row of a run stays running and no timer can put it back: no second
\* run of the job can start under the first (ClaimNextIngest, RequeueIngest,
\* RecoverStaleIngests).
THEOREM RunsDoNotOverlap == Spec => []ClaimIsExclusive
<1>1. Owned => ClaimIsExclusive
  BY DEF Owned, Held, ClaimIsExclusive
<1>2. Owned /\ [Next]_vars => Owned'
  BY OwnedStep
<1>3. QED
  BY <1>1, <1>2, OwnedInit, PTL DEF Spec

-----------------------------------------------------------------------------
(* Parked only once the budget is spent.                                     *)

Tab(j) == spent[j] + spared[j]

\* What a row counts, and what the run in progress goes by, is on the tab, but for
\* that run itself; and a parked job has a full one.
Carried(j) ==
    /\ OnIt(j) => ~Terminal(j) /\ worker.attempt <= Tab(j) + 1
    /\ Has(j) => row[j].attempt <= Tab(j) + IF OnIt(j) THEN 1 ELSE 0
    /\ In(j, {"failed"}) => Tab(j) >= MaxAttempts

Account == Steady /\ \A j \in Jobs : Carried(j)

\* A run that is no longer in progress is on the tab.
LEMMA RunsAreCharged ==
  ASSUME Typed, Next, NEW j \in Jobs, OnIt(j), ~OnIt(j)'
  PROVE  /\ Tab(j)' = Tab(j) + 1 /\ Has(j) /\ Has(j)' /\ row'[j].attempt = row[j].attempt
         /\ \/ row'[j].status = row[j].status
            \/ row'[j].status \in {"done", "queued"}
            \/ row'[j].status = "failed" /\ worker.attempt >= MaxAttempts
<1>1. /\ spent \in [Jobs -> Nat] /\ spared \in [Jobs -> Nat]
      /\ worker.job = j /\ Rows /\ j \in DOMAIN row
  BY RunHolds DEF Typed, Counts, Has
<1>2. CASE FinishDone \/ RequeueOnStop
  <2>1. \E t \in {"done", "queued"} : SetStatus(j, t)
    BY <1>1, <1>2 DEF FinishDone, RequeueOnStop
  <2>2. /\ DOMAIN row' = DOMAIN row /\ row'[j].attempt = row[j].attempt
        /\ row'[j].status \in {"done", "queued"}
    BY <1>1, <2>1, StatusSet DEF Statuses
  <2>3. spent'[j] = spent[j] /\ spared'[j] = spared[j] + 1
    BY <1>1, <1>2 DEF FinishDone, RequeueOnStop, Spare
  <2>4. QED
    BY <1>1, <2>2, <2>3 DEF Tab, Has
<1>3. CASE Park
  <2>1. SetStatus(j, "failed") /\ worker.attempt >= MaxAttempts
    BY <1>1, <1>3 DEF Park
  <2>2. /\ DOMAIN row' = DOMAIN row /\ row'[j].attempt = row[j].attempt
        /\ row'[j].status = "failed"
    BY <1>1, <2>1, StatusSet DEF Statuses
  <2>3. spent'[j] = spent[j] + 1 /\ spared'[j] = spared[j]
    BY <1>1, <1>3 DEF Park, Spend
  <2>4. QED
    BY <1>1, <2>1, <2>2, <2>3 DEF Tab, Has
<1>4. CASE BackOff
  BY <1>1, <1>4 DEF BackOff, Spend, Tab, Has, catalog
<1>5. CASE Costs(j, 1, 1) /\ UNCHANGED row /\ (Panic \/ StepFails \/ End)
  <2>1. UNCHANGED spared
    BY <1>5 DEF Panic, StepFails, End, CutShort
  <2>2. QED
    BY <1>1, <1>5, <2>1 DEF Costs, Tab, Has
<1>6. QED
  BY <1>2, <1>3, <1>4, <1>5, RunEnds

\* Otherwise the tab stays, but for a claim whose row could not be read and for a
\* press that finds the job ended.
LEMMA TabMoves ==
  ASSUME Typed, Next, NEW j \in Jobs, ~OnIt(j) \/ OnIt(j)'
  PROVE  \/ Tab(j)' = Tab(j)
         \/ Tab(j)' = Tab(j) + 1 /\ Claim(j) /\ worker' = Resting
         \/ /\ Tab(j)' = 0 /\ Terminal(j) /\ UNCHANGED worker
            /\ \E o \in Operators : RetryRequeue(o) /\ retry[o].job = j
            /\ row' = [row EXCEPT ![j].status = "queued", ![j].attempt = 0]
<1>1. spent \in [Jobs -> Nat] /\ spared \in [Jobs -> Nat]
  BY DEF Typed, Counts
<1>2. ASSUME UNCHANGED spent, UNCHANGED spared
      PROVE  Tab(j)' = Tab(j)
  BY <1>2 DEF Tab
<1>3. ASSUME FinishDone \/ RequeueOnStop \/ Park \/ BackOff
      PROVE  Tab(j)' = Tab(j)
  <2>1. Running
    BY <1>3 DEF FinishDone, RequeueOnStop, Park, BackOff, Running, Working, Resting
  <2>2. worker.pc \in WorkerPCs
    BY <2>1 DEF Running, WorkerPCs
  <2>3. worker \in Claims
    BY <2>2, Holding DEF Typed
  <2>4. worker'.pc \in {"clean", "discard", "idle"}
    BY <1>3, <2>3 DEF FinishDone, RequeueOnStop, Park, BackOff, Proceed, Resting, Claims
  <2>5. ~OnIt(j)'
    BY <2>4 DEF OnIt, Running
  <2>6. j # worker.job
    BY <2>1, <2>5 DEF OnIt
  <2>7. spent'[j] = spent[j] /\ spared'[j] = spared[j]
    BY <1>1, <1>3, <2>6 DEF FinishDone, RequeueOnStop, Park, BackOff, Spend, Spare
  <2>8. QED
    BY <2>7 DEF Tab
<1>4. ASSUME Panic \/ StepFails \/ End
      PROVE  Tab(j)' = Tab(j)
  <2>1. worker' = Resting /\ CutShort
    BY <1>4 DEF Panic, StepFails, End
  <2>2. ~OnIt(j)
    BY <2>1 DEF OnIt, Running, Working
  <2>3. spent'[j] = spent[j] /\ spared'[j] = spared[j]
    BY <1>1, <2>1, <2>2 DEF CutShort, OnIt, Spend
  <2>4. QED
    BY <2>3 DEF Tab
<1>5. ASSUME NEW k \in Jobs, Claim(k)
      PROVE  Tab(j)' = Tab(j) \/ (Tab(j)' = Tab(j) + 1 /\ Claim(j) /\ worker' = Resting)
  <2>1. CASE UNCHANGED history
    BY <1>2, <2>1 DEF history
  <2>2. CASE Spend(k) /\ UNCHANGED worker /\ UNCHANGED spared
    <3>1. worker' = Resting
      BY <1>5, <2>2 DEF Claim, Working
    <3>2. spent'[j] = (IF j = k THEN spent[j] + 1 ELSE spent[j]) /\ spared'[j] = spared[j]
      BY <1>1, <2>2 DEF Spend
    <3>3. QED
      BY <1>1, <1>5, <3>1, <3>2 DEF Tab
  <2>3. QED
    BY <1>5, <2>1, <2>2 DEF Claim
<1>6. ASSUME NEW o \in Operators, RetryRequeue(o)
      PROVE  \/ Tab(j)' = Tab(j)
             \/ /\ Tab(j)' = 0 /\ Terminal(j) /\ UNCHANGED worker /\ retry[o].job = j
                /\ row' = [row EXCEPT ![j].status = "queued", ![j].attempt = 0]
  <2>1. CASE UNCHANGED <<row, spent, spared>>
    BY <1>2, <2>1
  <2>2. CASE NewBudget(retry[o].job) /\ retry[o].job # j
    <3>1. spent'[j] = spent[j] /\ spared'[j] = spared[j]
      BY <1>1, <2>2 DEF NewBudget
    <3>2. QED
      BY <3>1 DEF Tab
  <2>3. CASE NewBudget(retry[o].job) /\ retry[o].job = j
    <3>1. spent'[j] = 0 /\ spared'[j] = IF Terminal(j) THEN 0 ELSE spared[j] + spent[j]
      BY <1>1, <2>3 DEF NewBudget
    <3>2. CASE ~Terminal(j)
      BY <1>1, <3>1, <3>2 DEF Tab
    <3>3. CASE Terminal(j) /\ ~UNCHANGED <<row, spent, spared>>
      BY <1>6, <2>3, <3>1, <3>3 DEF Tab, RetryRequeue
    <3>4. QED
      BY <2>1, <3>2, <3>3
  <2>4. QED
    BY <1>6, <2>1, <2>2, <2>3 DEF RetryRequeue
<1>7. CASE WorkerStep
  BY <1>2, <1>3, <1>4, <1>5, <1>7 DEF WorkerStep, Read, RunFails, Store, Clean, Discard, history
<1>8. CASE \E k \in Jobs : Upload(k) \/ Enqueue(k) \/ EnqueueFails(k)
                           \/ TimerFires(k) \/ TimerCancelled(k)
  BY <1>2, <1>8 DEF Upload, Enqueue, EnqueueFails, TimerFires, TimerCancelled, history
<1>9. CASE \E o \in Operators : \/ RetryStat(o) \/ RetryRequeue(o)
                               \/ \E k \in Jobs : RetryCheck(o, k)
  BY <1>2, <1>6, <1>9 DEF RetryStat, RetryCheck, history
<1>10. CASE Stop \/ Exit \/ Crash \/ Boot
  BY <1>2, <1>4, <1>10 DEF Stop, Exit, Crash, Boot, history
<1>11. QED
  BY <1>7, <1>8, <1>9, <1>10 DEF Next

LEMMA CarriedStep ==
  ASSUME Account, Next, NEW j \in Jobs
  PROVE  Carried(j)'
<1>. USE AttemptsAssumption
<1>1. /\ Tab(j) \in Nat /\ Tab(j)' \in Nat /\ Steady /\ Typed /\ Carried(j)
  <2>1. /\ spent \in [Jobs -> Nat] /\ spared \in [Jobs -> Nat]
        /\ spent' \in [Jobs -> Nat] /\ spared' \in [Jobs -> Nat]
    BY CountsStep DEF Account, Steady, Typed, Counts
  <2>2. QED
    BY <2>1 DEF Account, Steady, Tab
<1>2. CASE OnIt(j) /\ ~OnIt(j)'
  <2>1. /\ Tab(j)' = Tab(j) + 1 /\ Has(j) /\ Has(j)' /\ row'[j].attempt = row[j].attempt
        /\ \/ row'[j].status = row[j].status
           \/ row'[j].status \in {"done", "queued"}
           \/ row'[j].status = "failed" /\ worker.attempt >= MaxAttempts
    BY <1>1, <1>2, RunsAreCharged
  <2>2. /\ worker.attempt \in Nat /\ row[j].attempt \in Nat
        /\ row[j].status \notin {"done", "failed"} /\ worker.attempt <= Tab(j) + 1
        /\ row[j].attempt <= Tab(j) + 1
    BY <1>1, <1>2, <2>1, RunHolds DEF Carried, Typed, Rows, Row, Has, Terminal, In
  <2>3. In(j, {"failed"})' => Tab(j)' >= MaxAttempts
    BY <1>1, <2>1, <2>2 DEF In
  <2>4. row'[j].attempt <= Tab(j)'
    BY <1>1, <2>1, <2>2
  <2>5. QED
    BY <1>1, <1>2, <2>3, <2>4 DEF Carried
<1>3. CASE ~OnIt(j) \/ OnIt(j)'
  <2>1. /\ Has(j)' => row'[j].attempt \in Nat
        /\ Has(j) => row[j].attempt \in Nat
    BY <1>1, RowsGrow DEF Typed, Rows, Row, Has
  <2>2. ASSUME (FinishDone \/ Park \/ RequeueOnStop) /\ j = worker.job
        PROVE  FALSE
    <3>1. Running /\ worker.pc \in WorkerPCs
      BY <2>2 DEF FinishDone, RequeueOnStop, Park, Running, Working, Resting, WorkerPCs
    <3>2. worker \in Claims
      BY <1>1, <3>1, Holding DEF Typed
    <3>3. worker'.pc \in {"clean", "discard", "idle"}
      BY <2>2, <3>2 DEF FinishDone, RequeueOnStop, Park, Proceed, Resting, Claims
    <3>4. QED
      BY <1>3, <2>2, <3>1, <3>3 DEF OnIt, Running
  <2>3. ASSUME Has(j)'
        PROVE  \/ /\ Has(j) /\ Kept(j) /\ ~Claim(j)
               \/ ~Terminal(j)' /\ row'[j].attempt = 0
               \/ /\ Has(j) /\ ~Terminal(j)' /\ ~Claim(j)
                  /\ row'[j].attempt = row[j].attempt
               \/ /\ Has(j) /\ ~Terminal(j)' /\ Claim(j) /\ ~OnIt(j)
                  /\ row'[j].attempt = row[j].attempt + 1
    <3>1. Fate(j) /\ j \in DOMAIN row'
      BY <1>1, <2>3, RowFate DEF Has
    <3>2. CASE Claim(j)
      <4>1. /\ j \in DOMAIN row /\ row'[j].status = "running"
            /\ row'[j].attempt = row[j].attempt + 1
        BY <1>1, <3>2, RowClaimed DEF Typed
      <4>2. QED
        BY <3>2, <4>1 DEF Has, Terminal, In, OnIt, Running, Claim
    <3>3. CASE ~Claim(j) /\ ~Kept(j)
      BY <2>2, <3>1, <3>3 DEF Fate, Turned, Terminal, In, Has
    <3>4. QED
      BY <3>1, <3>2, <3>3 DEF Kept, Has
  <2>4. ASSUME OnIt(j)'
        PROVE  Has(j)' /\ (\/ OnIt(j) /\ worker'.attempt = worker.attempt
                           \/ Claim(j) /\ worker'.attempt = row'[j].attempt)
    <3>1. worker'.pc \in WorkerPCs /\ worker'.job = j /\ worker' # Resting
      BY <2>4 DEF OnIt, Running, Working, WorkerPCs
    <3>2. Has(j)'
      BY <1>1, <3>1, WorkerTypedStep DEF WorkerTyped, Claims, Has
    <3>3. QED
      BY <1>1, <2>4, <3>2, RunGoesOn
  <2>5. Terminal(j)' => Has(j) /\ Kept(j) /\ Terminal(j)
    BY <2>3 DEF Terminal, In, Has, Kept
  <2>6. CASE Tab(j)' = Tab(j)
    <3>1. In(j, {"failed"})' => Tab(j)' >= MaxAttempts
      BY <1>1, <2>5, <2>6 DEF Terminal, In, Has, Kept, Carried
    <3>2. CASE OnIt(j)' /\ OnIt(j)
      <4>1. /\ ~Terminal(j) /\ worker.attempt <= Tab(j) + 1 /\ Has(j) /\ ~Claim(j)
            /\ row[j].attempt <= Tab(j) + 1
        BY <1>1, <3>2, RunHolds DEF Carried
      <4>2. row'[j].attempt <= Tab(j) + 1 /\ worker'.attempt <= Tab(j) + 1
        BY <1>1, <2>1, <2>3, <2>4, <3>2, <4>1 DEF Kept
      <4>3. QED
        BY <2>5, <2>6, <3>1, <3>2, <4>1, <4>2 DEF Carried
    <3>3. CASE OnIt(j)' /\ ~OnIt(j)
      <4>1. Claim(j) /\ worker'.attempt = row'[j].attempt
        BY <2>4, <3>3
      <4>2. Has(j) /\ row[j].attempt <= Tab(j) /\ row'[j].attempt = row[j].attempt + 1
        BY <1>1, <3>3, <4>1, RowClaimed DEF Carried, Typed, Has
      <4>3. ~Terminal(j)' /\ row'[j].attempt <= Tab(j) + 1
        BY <1>1, <2>1, <2>3, <2>4, <3>3, <4>1, <4>2
      <4>4. QED
        BY <2>6, <3>1, <3>3, <4>1, <4>3 DEF Carried
    <3>4. CASE ~OnIt(j)'
      <4>1. ~OnIt(j)
        BY <1>3, <3>4
      <4>2. ~Claim(j)
        <5>1. SUFFICES ASSUME Claim(j) PROVE FALSE
          OBVIOUS
        <5>2. CASE worker' = At("read", j, row'[j].attempt)
          BY <3>4, <5>2 DEF At, OnIt, Running, Working, Resting
        <5>3. CASE Spend(j) /\ UNCHANGED spared
          <6>1. spent'[j] = spent[j] + 1 /\ spared'[j] = spared[j]
                /\ spent[j] \in Nat /\ spared[j] \in Nat
            BY <1>1, <5>3 DEF Spend, Typed, Counts
          <6>2. QED
            BY <2>6, <6>1 DEF Tab
        <5>4. QED
          BY <5>1, <5>2, <5>3 DEF Claim
      <4>3. Has(j)' => row'[j].attempt <= Tab(j)
        BY <1>1, <2>1, <2>3, <4>1, <4>2 DEF Carried, Kept
      <4>4. QED
        BY <1>1, <2>6, <3>1, <3>4, <4>3 DEF Carried
    <3>5. QED
      BY <3>2, <3>3, <3>4
  <2>7. CASE Tab(j)' = Tab(j) + 1 /\ Claim(j) /\ worker' = Resting
    <3>1. /\ Has(j) /\ row'[j].attempt = row[j].attempt + 1 /\ row'[j].status = "running"
      BY <1>1, <2>7, RowClaimed DEF Typed, Has
    <3>2. ~OnIt(j) /\ ~OnIt(j)' /\ ~In(j, {"failed"})'
      BY <2>7, <3>1 DEF OnIt, Running, Working, In, Claim
    <3>3. row[j].attempt <= Tab(j)
      BY <1>1, <3>1, <3>2 DEF Carried
    <3>4. row'[j].attempt <= Tab(j)'
      BY <1>1, <2>1, <2>7, <3>1, <3>3
    <3>5. QED
      BY <1>1, <3>2, <3>4 DEF Carried
  <2>8. CASE /\ Tab(j)' = 0 /\ Terminal(j) /\ UNCHANGED worker
             /\ row' = [row EXCEPT ![j].status = "queued", ![j].attempt = 0]
    <3>1. ~OnIt(j)
      BY <1>1, <2>8 DEF Carried
    <3>2. ~OnIt(j)'
      BY <2>8, <3>1 DEF OnIt, Running, Working
    <3>3. row'[j].status = "queued" /\ row'[j].attempt = 0
      BY <1>1, <2>8, RowRetried DEF Terminal, In, Has, Typed
    <3>4. QED
      BY <2>8, <3>2, <3>3 DEF Carried, In
  <2>9. QED
    BY <1>1, <1>3, <2>6, <2>7, <2>8, TabMoves
<1>4. QED
  BY <1>2, <1>3

\* A job is parked only once MaxAttempts runs are on its tab: runs that failed or
\* were cut short, and those its row counts all the same, handed back by a shutdown
\* or left over where presses overlap ("failed (after the attempt budget is spent)").
THEOREM NoEarlyParking == Spec => []ParkedAfterBudget
<1>1. Init => Account
  <2>1. ASSUME Init, NEW j \in Jobs PROVE Carried(j)
    BY <2>1 DEF Init, Carried, Has, In, NoRows, OnIt, Running, Working
  <2>2. QED
    BY <2>1, SteadyInit DEF Account
<1>2. Account /\ [Next]_vars => Account'
  <2>1. ASSUME Account, [Next]_vars PROVE Account'
    <3>1. Steady'
      BY <2>1, SteadyStep DEF Account
    <3>2. CASE Next
      BY <2>1, <3>1, <3>2, CarriedStep DEF Account
    <3>3. CASE UNCHANGED vars
      <4>1. /\ UNCHANGED row /\ UNCHANGED worker /\ UNCHANGED spent /\ UNCHANGED spared
        BY <3>3 DEF vars, catalog, history
      <4>2. QED
        BY <2>1, <3>1, <4>1 DEF Account, Carried, Tab, Terminal, In, Has, OnIt, Running, Working
    <3>4. QED
      BY <2>1, <3>2, <3>3
  <2>2. QED
    BY <2>1
<1>3. Account => ParkedAfterBudget
  BY DEF Account, Carried, Tab, ParkedAfterBudget
<1>4. QED
  BY <1>1, <1>2, <1>3, PTL DEF Spec

-----------------------------------------------------------------------------
(* A row marked as running is being run, when nothing on the way can fail.    *)

\* While the process is up, a row marked as running has its run or its timer.
Attended(j) == up = "up" /\ In(j, {"running"}) => Load(j) > 0

Attendance == Steady /\ \A j \in Jobs : Attended(j)

LEMMA AttendedStep ==
  ASSUME Attendance, Next, Faults = {}, NEW j \in Jobs
  PROVE  Attended(j)'
<1>1. /\ Steady /\ Typed /\ Attended(j) /\ ~MayFail
  BY DEF Attendance, Steady, MayFail
<1>2. /\ timers[j] \in Nat /\ timers'[j] \in Nat
      /\ \/ timers'[j] = timers[j]
         \/ TimerFires(j)
         \/ TimerCancelled(j) /\ up = "stopping"
         \/ End
         \/ timers'[j] = timers[j] + 1 /\ BackOff /\ j = worker.job
  BY <1>1, TimersMove
<1>3. SUFFICES ASSUME up' = "up", j \in DOMAIN row', row'[j].status = "running"
               PROVE  Load(j)' > 0
  BY DEF Attended, In, Has
<1>4. ~End
  BY <1>3 DEF End
<1>5. ~Boot
  <2>1. SUFFICES ASSUME Boot PROVE FALSE
    OBVIOUS
  <2>2. /\ j \in DOMAIN row
        /\ row' = [k \in DOMAIN row |-> IF row[k].status = "running"
                                        THEN [row[k] EXCEPT !.status = "queued"] ELSE row[k]]
    BY <1>1, <1>3, <2>1 DEF Boot
  <2>3. row[j] \in Row
    BY <1>1, <2>2 DEF Typed, Rows
  <2>4. QED
    BY <1>3, <2>2, <2>3 DEF Row
<1>6. up = "up"
  <2>1. UNCHANGED up \/ Stop
    BY <1>4, <1>5 DEF Next, WorkerStep, Claim, Read, RunFails, Store, Panic, StepFails,
       FinishDone, Clean, RequeueOnStop, BackOff, Park, Discard, Upload, Enqueue, EnqueueFails,
       TimerFires, TimerCancelled, RetryStat, RetryRequeue, RetryCheck, Exit, Crash, process
  <2>2. QED
    BY <1>3, <2>1 DEF Stop
<1>7. CASE Claim(j)
  <2>1. worker' = At("read", j, row'[j].attempt)
    BY <1>1, <1>7 DEF Claim
  <2>2. OnIt(j)'
    BY <2>1 DEF At, OnIt, Running, Working, Resting
  <2>3. QED
    BY <1>2, <2>2 DEF Load
<1>8. CASE Kept(j)
  <2>1. Load(j) > 0
    BY <1>1, <1>3, <1>6, <1>8 DEF Attended, Kept, In, Has
  <2>2. ~TimerFires(j)
    <3>1. SUFFICES ASSUME TimerFires(j), SetStatus(j, "queued") PROVE FALSE
      BY <1>1 DEF TimerFires
    <3>2. row'[j].status = "queued"
      BY <1>1, <1>8, <3>1, StatusSet DEF Kept, Statuses, Typed
    <3>3. QED
      BY <1>3, <3>2
  <2>3. timers'[j] = timers[j] \/ timers'[j] = timers[j] + 1
    BY <1>2, <1>4, <1>6, <2>2
  <2>4. CASE OnIt(j) /\ ~OnIt(j)'
    <3>1. ~Panic /\ ~StepFails
      BY <1>1 DEF Panic, StepFails, MayFail
    <3>2. worker.job = j /\ j \in DOMAIN row
      BY <1>8, <2>4 DEF OnIt, Kept
    <3>3. ~SetStatus(j, "done") /\ ~SetStatus(j, "failed") /\ ~SetStatus(j, "queued")
      BY <1>1, <1>3, <3>2, StatusSet DEF Statuses, Typed
    <3>4. ~FinishDone /\ ~Park /\ ~RequeueOnStop
      BY <3>2, <3>3 DEF FinishDone, Park, RequeueOnStop
    <3>5. BackOff
      BY <1>1, <1>4, <2>4, <3>1, <3>4, RunEnds
    <3>6. timers'[j] = timers[j] + 1
      BY <1>1, <3>2, <3>5 DEF BackOff, Typed, Sets
    <3>7. QED
      BY <1>2, <3>6 DEF Load
  <2>5. CASE ~OnIt(j) \/ OnIt(j)'
    BY <1>2, <2>1, <2>3, <2>5 DEF Load
  <2>6. QED
    BY <2>4, <2>5
<1>9. QED
  BY <1>1, <1>3, <1>7, <1>8, RowFate DEF Fate, Turned

\* Where no statement of the catalog fails and no extractor panics, a row marked as
\* running is being run or waits for its timer while the process is up, through any
\* number of crashes, shutdowns and overlapping presses of Retry ("the job follows
\* the normal retry-then-park path"): a row is stranded by those faults only.
THEOREM RowsAreOwned == ASSUME Faults = {} PROVE Spec => []RunningIsOwned
<1>1. Init => Attendance
  <2>1. ASSUME Init, NEW j \in Jobs PROVE Attended(j)
    BY <2>1 DEF Init, Attended, In, Has, NoRows
  <2>2. QED
    BY <2>1, SteadyInit DEF Attendance
<1>2. Attendance /\ [Next]_vars => Attendance'
  <2>1. ASSUME Attendance, [Next]_vars PROVE Attendance'
    <3>1. Steady'
      BY <2>1, SteadyStep DEF Attendance
    <3>2. CASE Next
      BY <2>1, <3>1, <3>2, AttendedStep DEF Attendance
    <3>3. CASE UNCHANGED vars
      <4>1. /\ UNCHANGED row /\ UNCHANGED worker /\ UNCHANGED up /\ UNCHANGED timers
        BY <3>3 DEF vars, catalog, process
      <4>2. QED
        BY <2>1, <3>1, <4>1 DEF Attendance, Attended, Load, In, Has, OnIt, Running, Working
    <3>4. QED
      BY <2>1, <3>2, <3>3
  <2>2. QED
    BY <2>1
<1>3. Attendance => RunningIsOwned
  <2>1. SUFFICES ASSUME Attendance, up = "up", NEW j \in Jobs, In(j, {"running"})
                 PROVE  (Working /\ worker.job = j) \/ timers[j] > 0
    BY DEF RunningIsOwned
  <2>2. Load(j) > 0 /\ timers[j] \in Nat
    BY <2>1 DEF Attendance, Attended, Steady, Typed, Sets
  <2>3. QED
    BY <2>2 DEF Load, OnIt, Running
<1>4. QED
  BY <1>1, <1>2, <1>3, PTL DEF Spec

=============================================================================
