-------------------------------- MODULE Budget --------------------------------
(***************************************************************************)
(* Admission and accounting of model calls (completeOne of                   *)
(* internal/llm/router.go, Before and After of internal/costs/governor.go,   *)
(* internal/costs/store.go, the run and execution budgets of internal/llm).  *)
(* A call reserves in turn its share of the execution budget, a slot of the  *)
(* provider, a row against the daily budget, and a share of the run budgets  *)
(* above it; it gives everything back when a step refuses it, and settles    *)
(* everything when the provider has answered.                                *)
(*                                                                          *)
(* One action is one critical section, one transaction, or one operation on  *)
(* the channel of slots.  A process starts with what a crash has left in the *)
(* database, and with nothing in memory.  Money and tokens are one unit; a   *)
(* call has one unit of input and asks for some output.  One provider, one   *)
(* budget period, hard enforcement; a stream is a call whose answer takes    *)
(* long.                                                                     *)
(***************************************************************************)
EXTENDS Naturals, FiniteSets, FiniteSetsExt

CONSTANTS
    Calls,        \* model calls
    Wanted,       \* what a call may ask for, input included
    Usages,       \* what a provider may report, whatever the call had asked for
    Limit,        \* the daily budget
    Buckets,      \* run budgets
    BucketsOf,    \* call -> the run budgets above it
    BucketLimit,  \* what each run budget holds
    ExecLimit,    \* the execution budget of the run: tokens
    MaxCalls,     \* ... and calls
    Slots,        \* MaxConcurrentPerProvider
    Threshold,    \* CircuitFailureThreshold
    Earlier,      \* the calls that a crash of an earlier process cut short
    Orphaned,     \* what they have left reserved, maybe under another limit
    MaxLapses     \* bound on the reservations that pass their TTL

ASSUME CallsAssumption == IsFiniteSet(Calls) /\ Earlier \notin Calls
ASSUME WantedAssumption ==
    /\ IsFiniteSet(Wanted) /\ Wanted # {} /\ Wanted \subseteq Nat \ {0, 1}
ASSUME BucketsAssumption == BucketsOf \in [Calls -> SUBSET Buckets]
ASSUME LimitsAssumption ==
    /\ {Limit, BucketLimit, ExecLimit, MaxCalls, MaxLapses, Orphaned} \subseteq Nat
    /\ Usages \subseteq Nat \ {0}
    /\ {Slots, Threshold} \subseteq Nat \ {0}

VARIABLES
    pc,         \* call -> where it is
    est,        \* call -> its estimate, while the call counts
    cost,       \* call -> what the provider charged, until that is recorded
    result,     \* call -> how its provider call ended, while that matters
    exec,       \* the execution budget: tokens spent and held, calls made
    share,      \* call -> what it holds of the execution budget
    bucket,     \* run budget -> spent and held
    rows,       \* the reservations in the database: call -> estimate
    stale,      \* calls whose reservation has passed its expires_at
    used,       \* the usage the database has recorded
    slots,      \* how many slots of the provider are taken
    mu,         \* the calls (one at most) inside the governor's mutex
    failures,   \* failures of the provider in a row
    open,       \* whether its circuit is open
    late,       \* history: the estimates of calls whose row was deleted as they ran
    execOver,   \* history: what settled calls cost the execution budget above their share
    bucketOver, \* history: run budget -> ... above what they held of it
    dayOver     \* history: ... and the day above their estimates

governor == <<slots, mu, failures, open>>
budgets == <<exec, share, bucket>>
history == <<late, execOver, bucketOver, dayOver>>
database == <<rows, stale, used, history>>
call == <<est, cost, result>>
vars == <<pc, call, budgets, database, governor>>

PCs == {"new", "circuit", "slot", "reserve", "again", "run", "unrow", "unslot", "cancel",
        "call", "lock", "record", "out"}

\* Whose reservations the database holds.
Owners == Calls \cup {Earlier}

TypeOK ==
    /\ pc \in [Calls -> PCs]
    /\ est \in [Calls -> Nat] /\ cost \in [Calls -> Nat] /\ share \in [Calls -> Nat]
    /\ result \in [Calls -> {"none", "ok", "failed"}]
    /\ exec \in [spent : Nat, held : Nat, calls : Nat]
    /\ bucket \in [Buckets -> [spent : Nat, held : Nat]]
    /\ rows \in [Owners -> Nat] /\ stale \subseteq Owners
    /\ {late, execOver, dayOver} \subseteq Nat /\ bucketOver \in [Buckets -> Nat]
    /\ used \in Nat /\ slots \in 0..Slots
    /\ mu \subseteq Calls /\ failures \in Nat /\ open \in BOOLEAN

Total(f, S) == MapThenSumSet(LAMBDA c : f[c], S)
Reserved == Total(rows, Owners)

NothingSpent == [spent |-> 0, held |-> 0]

Init ==
    /\ pc = [c \in Calls |-> "new"]
    /\ est = [c \in Calls |-> 0] /\ cost = est /\ share = est
    /\ execOver = 0 /\ dayOver = 0 /\ bucketOver = [b \in Buckets |-> 0]
    /\ rows = [c \in Owners |-> IF c = Earlier THEN Orphaned ELSE 0]
    /\ result = [c \in Calls |-> "none"]
    /\ stale = {} /\ late = 0
    /\ exec = [spent |-> 0, held |-> 0, calls |-> 0]
    /\ bucket = [b \in Buckets |-> NothingSpent]
    /\ used = 0 /\ slots = 0 /\ mu = {} /\ failures = 0 /\ open = FALSE

\* The three counters of an executionBucket.
Execution(spent, held, calls) == exec' = [spent |-> spent, held |-> held, calls |-> calls]

Go(c, from, to) == pc[c] = from /\ pc' = [pc EXCEPT ![c] = to]

-----------------------------------------------------------------------------
(* Admission.                                                                *)

\* reserveExecution: the output is cut to what the run has left.
Enter(c) ==
    \E want \in Wanted :
        LET left == ExecLimit - exec.spent - exec.held
            fits == exec.calls < MaxCalls /\ left > 1
            granted == IF want < left THEN want ELSE left
        IN IF ~fits
           THEN Go(c, "new", "out") /\ UNCHANGED <<call, budgets, database, governor>>
           ELSE /\ Go(c, "new", "circuit")
                /\ est' = [est EXCEPT ![c] = granted]
                /\ share' = [share EXCEPT ![c] = granted]
                /\ Execution(exec.spent, exec.held + granted, exec.calls + 1)
                /\ UNCHANGED <<cost, result, bucket, database, governor>>

\* acquireProvider reads the circuit ...
CheckCircuit(c) ==
    /\ mu = {}
    /\ Go(c, "circuit", IF open THEN "cancel" ELSE "slot")
    /\ UNCHANGED <<call, budgets, database, governor>>

\* ... and waits for a slot, or for the end of the context; it does not look at
\* the circuit again.
TakeSlot(c) ==
    /\ slots < Slots
    /\ Go(c, "slot", "reserve")
    /\ slots' = slots + 1
    /\ UNCHANGED <<call, budgets, database, mu, failures, open>>

LeaveQueue(c) ==
    /\ Go(c, "slot", "cancel")
    /\ UNCHANGED <<call, budgets, database, governor>>

\* Fault: the reservations of the other calls are not counted.
TryReserveBlind(c) ==
    /\ pc[c] \in {"reserve", "again"}
    /\ pc' = [pc EXCEPT ![c] = IF used + est[c] <= Limit THEN "run" ELSE "unslot"]
    /\ rows' = IF used + est[c] <= Limit THEN [rows EXCEPT ![c] = est[c]] ELSE rows
    /\ UNCHANGED <<call, budgets, stale, used, history, governor>>

\* The transaction of TryReserve: expired rows are deleted, and the call's row is
\* inserted if it fits.  A rejected call may ask once more for what was left then.
TryReserve(c) ==
    LET fresh == [d \in Owners |-> IF d \in stale THEN 0 ELSE rows[d]]
        taken == used + Total(fresh, Owners)
        left == IF taken < Limit THEN Limit - taken ELSE 0
    IN /\ pc[c] \in {"reserve", "again"}
       /\ IF est[c] <= left
          THEN /\ pc' = [pc EXCEPT ![c] = "run"]
               /\ rows' = [fresh EXCEPT ![c] = est[c]]
               /\ stale' = {}
               /\ late' = late + Total(est, stale \cap Calls)
               /\ UNCHANGED est
          ELSE \* The deletion is rolled back with the rest.
               /\ IF pc[c] = "reserve" /\ left > 1
                  THEN est' = [est EXCEPT ![c] = left] /\ pc' = [pc EXCEPT ![c] = "again"]
                  ELSE UNCHANGED est /\ pc' = [pc EXCEPT ![c] = "unslot"]
               /\ UNCHANGED <<rows, stale, late>>
       /\ UNCHANGED <<cost, result, budgets, used, execOver, bucketOver, dayOver, governor>>

\* Fault: what other calls hold of a run budget does not count.
ReserveRunCostBlind(c) ==
    LET fits == \A b \in BucketsOf[c] : bucket[b].spent + est[c] <= BucketLimit
    IN /\ Go(c, "run", IF fits THEN "call" ELSE "unrow")
       /\ bucket' = IF fits
                    THEN [b \in Buckets |-> IF b \in BucketsOf[c]
                             THEN [bucket[b] EXCEPT !.held = @ + est[c]] ELSE bucket[b]]
                    ELSE bucket
       /\ UNCHANGED <<call, exec, share, database, governor>>

\* ReserveRunCost: in every run budget above the call, or in none.
ReserveRunCost(c) ==
    LET fits == \A b \in BucketsOf[c] :
                   bucket[b].spent + bucket[b].held + est[c] <= BucketLimit
    IN /\ Go(c, "run", IF fits THEN "call" ELSE "unrow")
       /\ bucket' = IF fits
                    THEN [b \in Buckets |-> IF b \in BucketsOf[c]
                             THEN [bucket[b] EXCEPT !.held = @ + est[c]] ELSE bucket[b]]
                    ELSE bucket
       /\ UNCHANGED <<call, exec, share, database, governor>>

DropRow(c) == rows' = [rows EXCEPT ![c] = 0] /\ stale' = stale \ {c}

\* The call is refused after its row was inserted: Release ...
DropRefusedRow(c) ==
    /\ Go(c, "unrow", "unslot")
    /\ DropRow(c)
    /\ UNCHANGED <<call, budgets, used, history, governor>>

\* ... releaseProvider, deferred in Before and in After ...
ReleaseSlot(c) ==
    /\ mu = {}
    /\ Go(c, "unslot", IF result[c] = "none" THEN "cancel" ELSE "out")
    /\ slots' = slots - 1
    /\ result' = [result EXCEPT ![c] = "none"]
    /\ UNCHANGED <<est, cost, budgets, database, mu, failures, open>>

\* Fault: an admission that is refused is settled, not cancelled.
SettleRefused(c) ==
    /\ Go(c, "cancel", "out")
    /\ Execution(exec.spent + share[c], exec.held, exec.calls - 1)
    /\ share' = [share EXCEPT ![c] = 0]
    /\ UNCHANGED <<call, bucket, database, governor>>

\* ... and cancel of the execution budget.
Cancel(c) ==
    /\ Go(c, "cancel", "out")
    /\ Execution(exec.spent, exec.held - share[c], exec.calls - 1)
    /\ share' = [share EXCEPT ![c] = 0]
    /\ est' = [est EXCEPT ![c] = 0]
    /\ UNCHANGED <<cost, result, bucket, database, governor>>

-----------------------------------------------------------------------------
(* The call and its settlement.                                              *)

\* The preflight after admission refuses the call: After, without a call.
Preflight(c) ==
    /\ Go(c, "call", "lock")
    /\ UNCHANGED <<call, budgets, database, governor>>

\* What a charge comes to above what was held for it.
Above(charge, held) == IF charge > held THEN charge - held ELSE 0

\* The provider answers, or its stream ends; settle.  The run is charged what the
\* provider reports, and nothing compares that with what was reserved.
Answer(c) ==
    /\ Go(c, "call", "lock")
    /\ result' = [result EXCEPT ![c] = "ok"]
    /\ \E spent \in Usages :
          /\ cost' = [cost EXCEPT ![c] = spent]
          /\ execOver' = execOver + Above(spent, share[c])
          /\ Execution(exec.spent + spent, exec.held - share[c], exec.calls)
    /\ share' = [share EXCEPT ![c] = 0]
    /\ UNCHANGED <<est, bucket, rows, stale, used, late, bucketOver, dayOver, governor>>

\* It fails, or its context ends, which may be in the middle of a stream: the
\* reservation stays charged to the run, and the day is charged what is reported.
Fail(c) ==
    /\ Go(c, "call", "lock")
    /\ result' = [result EXCEPT ![c] = "failed"]
    /\ \E partial \in Usages \cup {0} : cost' = [cost EXCEPT ![c] = partial]
    /\ Execution(exec.spent + share[c], exec.held - share[c], exec.calls)
    /\ share' = [share EXCEPT ![c] = 0]
    /\ UNCHANGED <<est, bucket, database, governor>>

Circuit(c) ==
    IF result[c] = "ok"
    THEN failures' = 0 /\ open' = FALSE
    ELSE /\ failures' = IF failures < Threshold THEN failures + 1 ELSE failures
         /\ open' = (open \/ failures + 1 >= Threshold)

\* After takes the mutex, judges the circuit, and releases the reservation ...
After(c) ==
    /\ mu = {} /\ mu' = {c}
    /\ Go(c, "lock", "record")
    /\ Circuit(c)
    /\ DropRow(c)
    /\ dayOver' = dayOver + Above(cost[c], est[c])
    /\ UNCHANGED <<call, budgets, used, late, execOver, bucketOver, slots>>

Settle(c, charge) ==
    /\ bucket' = [b \in Buckets |-> IF b \in BucketsOf[c]
          THEN [spent |-> bucket[b].spent + charge, held |-> bucket[b].held - est[c]]
          ELSE bucket[b]]
    /\ bucketOver' = [b \in Buckets |->
          bucketOver[b] + IF b \in BucketsOf[c] THEN Above(charge, est[c]) ELSE 0]

\* Fault: the slot is released before the mutex, which releaseProvider takes.
RecordLocked(c) ==
    /\ mu = {}
    /\ Go(c, "record", "unslot")
    /\ Settle(c, IF result[c] = "ok" THEN cost[c] ELSE est[c])
    /\ used' = used + cost[c]
    /\ est' = [est EXCEPT ![c] = 0] /\ cost' = [cost EXCEPT ![c] = 0]
    /\ UNCHANGED <<result, exec, share, rows, stale, late, execOver, dayOver, governor>>

\* ... SettleRunCost, which charges in full what is not known to have cost less,
\* records the usage, and gives back the mutex (no step of another call could tell
\* these three apart).  The deferred calls run in reverse: the mutex, then the slot.
Record(c) ==
    /\ Go(c, "record", "unslot")
    /\ Settle(c, IF result[c] = "ok" THEN cost[c] ELSE est[c])
    /\ used' = used + cost[c]
    /\ est' = [est EXCEPT ![c] = 0] /\ cost' = [cost EXCEPT ![c] = 0]
    /\ mu' = mu \ {c}
    /\ UNCHANGED <<result, exec, share, rows, stale, late, execOver, dayOver,
                   slots, failures, open>>

-----------------------------------------------------------------------------
(* Time.                                                                     *)

\* A reservation passes its TTL, whether or not its call is still running.
Expire(c) ==
    /\ rows[c] > 0 /\ c \notin stale
    /\ late = 0 /\ Cardinality(stale) < MaxLapses
    /\ stale' = stale \cup {c}
    /\ UNCHANGED <<pc, call, budgets, rows, used, history, governor>>

CoolDown ==
    /\ open /\ open' = FALSE
    /\ UNCHANGED <<pc, call, budgets, database, slots, mu, failures>>

Step(c) ==
    \/ Enter(c) \/ CheckCircuit(c) \/ TakeSlot(c) \/ LeaveQueue(c) \/ TryReserve(c)
    \/ ReserveRunCost(c) \/ DropRefusedRow(c) \/ ReleaseSlot(c) \/ Cancel(c)
    \/ Preflight(c) \/ Answer(c) \/ Fail(c)
    \/ After(c) \/ Record(c)

Next ==
    \/ \E c \in Calls : Step(c)
    \/ \E c \in Owners : Expire(c)
    \/ CoolDown

Spec == Init /\ [][Next]_vars

-----------------------------------------------------------------------------
(* Properties.                                                               *)

InFlight == {c \in Calls : pc[c] \in {"call", "lock", "record"}}
Between == {c \in Calls : pc[c] = "record"}

\* Whatever step refuses or fails a call, nothing of it stays reserved: each budget
\* holds the reservations of the calls in flight, and each slot has its call.
NothingLeaks ==
    /\ \A b \in Buckets :
          bucket[b].held = Total(est, {c \in InFlight : b \in BucketsOf[c]})
    /\ exec.held = Total(share, Calls)
    /\ slots = Cardinality({c \in Calls :
          pc[c] \in {"reserve", "again", "run", "unrow", "unslot"}}
          \cup InFlight)
    /\ \A c \in Calls : pc[c] = "out" => share[c] = 0 /\ rows[c] = 0

\* However many calls below it run at the same time, and whether or not their cost is
\* known, a run budget is passed only by what calls cost above what they had been
\* admitted with: nothing is spent or held there that was not reserved or reported.
RunBudgetKept ==
    /\ \A b \in Buckets : bucket[b].spent + bucket[b].held <= BucketLimit + bucketOver[b]
    /\ exec.spent + exec.held <= ExecLimit + execOver

\* The daily budget, or what a crash left reserved if that is more.
Ceiling == Max({Limit, Orphaned})

\* The daily budget is passed by the estimate of one call at most, because only one is
\* between Release and Record; by calls that outlived their reservation; and by what
\* calls cost above their estimates, answered or not.
OvershootBounded ==
    used + Reserved + Total(cost, Between) <=
        Ceiling + late + Max(Wanted) + dayOver

\* Every call that is admitted or waits to be is over in the end: the mutex is given
\* back before the slot is, and no call waits for a slot for ever.
CallsSettle == \A c \in Calls : pc[c] # "new" ~> pc[c] = "out"

\* What that rests on.  A call only moves on, in a number of steps that is known from
\* the start: a reservation that is rejected is tried once more at most ...
StepsLeft == [p \in PCs |->
    CASE p = "new" -> 11 [] p = "circuit" -> 10 [] p = "slot" -> 9 [] p = "reserve" -> 8
      [] p = "again" -> 7 [] p = "run" -> 6 [] p \in {"call", "unrow"} -> 5
      [] p = "lock" -> 4 [] p = "record" -> 3 [] p = "unslot" -> 2 [] p = "cancel" -> 1
      [] p = "out" -> 0]

CallsMoveOn ==
    [][\A c \in Calls : pc'[c] # pc[c] => StepsLeft[pc'[c]] < StepsLeft[pc[c]]]_vars

\* ... and while calls are under way one of them can move, although nobody leaves the
\* queue: whoever has the mutex needs nothing else, and whoever has a slot needs the
\* mutex at most.
CanMove(c) ==
    /\ pc[c] \notin {"new", "out"}
    /\ pc[c] \in {"circuit", "lock", "unslot"} => mu = {}
    /\ pc[c] = "slot" => slots < Slots

NobodyIsStuck ==
    (\E c \in Calls : pc[c] \notin {"new", "out"}) => \E c \in Calls : CanMove(c)
=============================================================================
