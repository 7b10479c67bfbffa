---------------------------- MODULE SafeUndoProofs -----------------------------
(***************************************************************************)
(* Theorems about module SafeUndo, for every number of jobs, resources,      *)
(* changes, previews, confirmations and edits of others.                     *)
(*                                                                           *)
(* TypesHold, and ReceiptsTellTheTruth, which is not inductive: it also      *)
(* takes that a request which may still be executed is one whose action is   *)
(* in doubt, that a plan starts only from actions that are not, and what is  *)
(* known at each stage of a dispatch.  On the same invariant rest            *)
(* StoreImplementsReceipt (every step is a step of Receipt, or none that it  *)
(* sees), TokensDispatchOnce (a token that is still to be used, or in use,   *)
(* has sent nothing that is left to do), EditsOfOthersSurvive (a version     *)
(* that still is the previewed one shows what was previewed) and             *)
(* UndoGoesBackInOrder (a plan to undo is whole, and what it has checked     *)
(* stays clear of other jobs while it holds the gate).                       *)
(***************************************************************************)
EXTENDS SafeUndo, TLAPS

LEMMA TypeOKParts ==
  TypeOK <=> RemoteOK /\ LedgerOK /\ OperationOK /\ RequestsOK /\ HistoryOK
  BY DEF TypeOK

-----------------------------------------------------------------------------
(* Indices, and the parts of the type invariant that a step leaves alone.    *)

LEMMA PartsStay ==
  /\ RemoteOK /\ UNCHANGED remote => RemoteOK'
  /\ LedgerOK /\ UNCHANGED ledger => LedgerOK'
  /\ OperationOK /\ UNCHANGED op => OperationOK'
  /\ RequestsOK /\ UNCHANGED net => RequestsOK'
  /\ HistoryOK /\ UNCHANGED <<tokens, orders, edits, effect, sent>> => HistoryOK'
  BY DEF RemoteOK, LedgerOK, OperationOK, RequestsOK, HistoryOK

LEMMA IndicesInAll ==
  ASSUME NEW j \in Jobs, NEW i \in Indices(j)
  PROVE  i \in AllIndices /\ ResourceOf(j, i) \in Resources /\ Indices(j) \subseteq Nat
<1> DEFINE C == [res : Resources, fields : (SUBSET Fields) \ {{}}]
<1>1. Changes[j] \in Seq(C)
  BY Zenon, ChangesAssumption
<1>2. i \in DOMAIN Changes[j]
  BY DEF Indices
<1> HIDE DEF C
<1>3. Changes[j][i] \in C
  BY <1>1, <1>2
<1>4. Changes[j][i].res \in Resources
  BY <1>3 DEF C
<1>5. QED
  BY <1>1, <1>4 DEF AllIndices, ResourceOf, Indices

LEMMA FieldsOfChange ==
  ASSUME NEW j \in Jobs, NEW i \in Indices(j)
  PROVE  Changes[j][i].fields \subseteq Fields
<1> DEFINE C == [res : Resources, fields : (SUBSET Fields) \ {{}}]
<1>1. Changes[j] \in Seq(C) /\ i \in DOMAIN Changes[j]
  BY Zenon, ChangesAssumption DEF Indices
<1> HIDE DEF C
<1>2. Changes[j][i] \in C
  BY <1>1
<1>3. QED
  BY <1>2 DEF C

\* What an operation under way can rely on.
LEMMA InOperation ==
  ASSUME OperationOK, op.pc # "idle"
  PROVE  IsOperation(op)
  BY DEF OperationOK, Idle, Starting

LEMMA Ending ==
  ASSUME op' = Idle
  PROVE  OperationOK'
  BY DEF OperationOK

-----------------------------------------------------------------------------
(* The ledger.                                                               *)

LEMMA CommitTyped ==
  ASSUME LedgerOK, NEW j \in Jobs, NEW receipt, IsReceipt(receipt, j), Commit(j, receipt)
  PROVE  /\ LedgerOK'
         /\ DOMAIN ledger' = DOMAIN ledger \cup {j}
         /\ ledger'[j] = receipt
         /\ \A k \in DOMAIN ledger : k # j => ledger'[k] = ledger[k]
<1>1. /\ DOMAIN ledger' = DOMAIN ledger \cup {j}
      /\ ledger'[j] = receipt
      /\ \A k \in DOMAIN ledger : k # j => ledger'[k] = ledger[k]
      /\ ledger' = [k \in DOMAIN ledger' |-> ledger'[k]]
  BY DEF Commit
<1>2. DOMAIN ledger \subseteq Jobs /\ \A k \in DOMAIN ledger : IsReceipt(ledger[k], k)
  BY DEF LedgerOK
<1>3. \A k \in DOMAIN ledger' : IsReceipt(ledger'[k], k)
  BY <1>1, <1>2
<1>4. LedgerOK'
  BY <1>1, <1>2, <1>3 DEF LedgerOK, IsReceipt, IsPlan, IsItems
<1>5. QED
  BY <1>1, <1>4

\* A receipt with one action replaced.
LEMMA SetActionTyped ==
  ASSUME LedgerOK, NEW j \in DOMAIN ledger, NEW i \in Indices(j), NEW a \in Action,
         SetAction(j, i, a)
  PROVE  /\ LedgerOK'
         /\ DOMAIN ledger' = DOMAIN ledger
         /\ ledger'[j].acts = [ledger[j].acts EXCEPT ![i] = a]
         /\ ledger'[j].acts[i] = a
         /\ \A m \in Indices(j) : m # i => ledger'[j].acts[m] = ledger[j].acts[m]
         /\ ledger'[j].plan = ledger[j].plan
         /\ \A k \in DOMAIN ledger : k # j => ledger'[k] = ledger[k]
<1> DEFINE receipt == [ledger[j] EXCEPT !.acts[i] = a]
<1>1. j \in Jobs /\ IsReceipt(ledger[j], j)
  BY DEF LedgerOK
<1>2. receipt = [acts |-> [ledger[j].acts EXCEPT ![i] = a],
                 undoStarted |-> ledger[j].undoStarted,
                 attempts |-> ledger[j].attempts,
                 lastToken |-> ledger[j].lastToken, plan |-> ledger[j].plan]
  BY <1>1 DEF IsReceipt
<1>3. [ledger[j].acts EXCEPT ![i] = a] \in [Indices(j) -> Action]
  BY <1>1 DEF IsReceipt
<1>4. /\ receipt.acts = [ledger[j].acts EXCEPT ![i] = a]
      /\ receipt.undoStarted = ledger[j].undoStarted
      /\ receipt.attempts = ledger[j].attempts
      /\ receipt.lastToken = ledger[j].lastToken
      /\ receipt.plan = ledger[j].plan
      /\ receipt = [acts |-> receipt.acts, undoStarted |-> receipt.undoStarted,
                    attempts |-> receipt.attempts, lastToken |-> receipt.lastToken,
                    plan |-> receipt.plan]
  BY <1>2
<1> HIDE DEF receipt
<1>5. IsReceipt(receipt, j)
  BY <1>1, <1>3, <1>4 DEF IsReceipt
<1>6. Commit(j, receipt)
  BY DEF SetAction, receipt
<1>7. /\ LedgerOK' /\ DOMAIN ledger' = DOMAIN ledger \cup {j} /\ ledger'[j] = receipt
      /\ \A k \in DOMAIN ledger : k # j => ledger'[k] = ledger[k]
  BY <1>1, <1>5, <1>6, CommitTyped
<1>8. /\ [ledger[j].acts EXCEPT ![i] = a][i] = a
      /\ \A m \in Indices(j) : m # i => [ledger[j].acts EXCEPT ![i] = a][m] = ledger[j].acts[m]
  BY <1>1 DEF IsReceipt
<1>9. QED
  BY <1>4, <1>7, <1>8

\* A receipt with one action in another status; the action keeps the rest.
LEMMA StatusTyped ==
  ASSUME NEW a \in Action, NEW s \in Statuses
  PROVE  /\ [a EXCEPT !.status = s] \in Action
         /\ [a EXCEPT !.status = s].status = s
         /\ [a EXCEPT !.status = s].reconciled = a.reconciled
         /\ [a EXCEPT !.status = s].prior = a.prior
  BY DEF Action

\* What recovery does to a receipt: only interrupted intents change.
LEMMA LoadTyped ==
  ASSUME NEW receipt, NEW j \in Jobs, IsReceipt(receipt, j)
  PROVE  /\ IsReceipt(Load(receipt), j)
         /\ Load(receipt).plan \in {receipt.plan, NoPlan}
         /\ \A i \in Indices(j) :
               /\ Load(receipt).acts[i].reconciled = receipt.acts[i].reconciled
               /\ Load(receipt).acts[i].status =
                     IF receipt.acts[i].status = "running" THEN "needs_review"
                     ELSE receipt.acts[i].status
<1> DEFINE a(i) == IF receipt.acts[i].status = "running"
                   THEN [receipt.acts[i] EXCEPT !.status = "needs_review"]
                   ELSE receipt.acts[i]
           loaded == [i \in DOMAIN receipt.acts |-> a(i)]
<1>1. receipt.acts \in [Indices(j) -> Action]
  BY DEF IsReceipt
<1>2. \A i \in Indices(j) :
         /\ a(i) \in Action
         /\ a(i).reconciled = receipt.acts[i].reconciled
         /\ a(i).status = IF receipt.acts[i].status = "running" THEN "needs_review"
                          ELSE receipt.acts[i].status
  <2> TAKE i \in Indices(j)
  <2>1. receipt.acts[i] \in Action
    BY <1>1
  <2>2. "needs_review" \in Statuses
    BY DEF Statuses, Uncertain
  <2>3. /\ [receipt.acts[i] EXCEPT !.status = "needs_review"] \in Action
        /\ [receipt.acts[i] EXCEPT !.status = "needs_review"].status = "needs_review"
        /\ [receipt.acts[i] EXCEPT !.status = "needs_review"].reconciled
              = receipt.acts[i].reconciled
    BY <2>1, <2>2, StatusTyped
  <2>4. CASE receipt.acts[i].status = "running"
    BY <2>3, <2>4
  <2>5. CASE receipt.acts[i].status # "running"
    BY <2>1, <2>5
  <2>6. QED
    BY <2>4, <2>5
<1>3. CASE \E i \in DOMAIN receipt.acts : receipt.acts[i].status = "running"
  <2>1. Load(receipt) = [receipt EXCEPT !.plan = NoPlan, !.acts = loaded]
    BY <1>3 DEF Load
  <2> HIDE DEF a
  <2>2. loaded \in [Indices(j) -> Action] /\ \A i \in Indices(j) : loaded[i] = a(i)
    BY <1>1, <1>2
  <2> HIDE DEF loaded
  <2>3. Load(receipt) = [acts |-> loaded, undoStarted |-> receipt.undoStarted,
                         attempts |-> receipt.attempts, lastToken |-> receipt.lastToken,
                         plan |-> NoPlan]
    BY <2>1 DEF IsReceipt
  <2>4. /\ Load(receipt).acts = loaded /\ Load(receipt).plan = NoPlan
        /\ Load(receipt).undoStarted = receipt.undoStarted
        /\ Load(receipt).attempts = receipt.attempts
        /\ Load(receipt).lastToken = receipt.lastToken
    BY <2>3
  <2>5. IsReceipt(Load(receipt), j)
    BY <2>2, <2>3, <2>4 DEF IsReceipt, IsPlan
  <2>6. QED
    BY <1>2, <2>2, <2>4, <2>5
<1>4. CASE ~ \E i \in DOMAIN receipt.acts : receipt.acts[i].status = "running"
  BY <1>1, <1>4 DEF Load
<1>5. QED
  BY <1>3, <1>4

LEMMA RestartTyped ==
  ASSUME LedgerOK, Restart
  PROVE  /\ LedgerOK' /\ DOMAIN ledger' = DOMAIN ledger
         /\ \A j \in DOMAIN ledger : ledger'[j] = Load(ledger[j])
<1>1. /\ DOMAIN ledger' = DOMAIN ledger /\ ledger' = [j \in DOMAIN ledger' |-> ledger'[j]]
      /\ \A j \in DOMAIN ledger : ledger'[j] = Load(ledger[j])
  BY DEF Restart
<1>2. \A j \in DOMAIN ledger : IsReceipt(Load(ledger[j]), j)
  BY LoadTyped DEF LedgerOK
<1>3. QED
  BY <1>1, <1>2 DEF LedgerOK, IsReceipt, IsPlan, IsItems

-----------------------------------------------------------------------------
(* The operation that holds the gate.  TypeOK is not inductive: what an       *)
(* operation works on must be in the ledger and in its plan.                  *)

Dispatching == {"send", "wait", "ok", "refused", "lost"}

GateOK ==
    /\ op.pc = "prepare" => DOMAIN op.found = Indices(op.job) \ op.todo
    /\ op.pc \notin {"idle", "prepare"} => op.job \in DOMAIN ledger
    /\ op.pc \notin {"idle", "prepare", "preview"} => op.todo \subseteq DOMAIN op.found
    /\ op.pc \in Dispatching => op.dir # "reconcile"

TypeInv == TypeOK /\ GateOK

LEMMA Holding ==
  ASSUME NEW o, IsOperation(o), op' = o
  PROVE  OperationOK'
  BY DEF OperationOK, IsOperation, IsDraft, IsItems, Idle, Starting

\* An operation goes on with another counter, index, or rest of its plan.
LEMMA GoOnTyped ==
  ASSUME IsOperation(op), op.pc # "prepare", NEW p \in OpPCs \ {"idle", "prepare"},
         NEW T, T \subseteq Indices(op.job), NEW a, NEW F, IsItems(F, op.job),
         p \in Dispatching => a \in DOMAIN F,
         op' = [pc |-> p, job |-> op.job, dir |-> op.dir, token |-> op.token,
                todo |-> T, at |-> a, found |-> F]
  PROVE  /\ OperationOK'
         /\ op'.pc = p /\ op'.job = op.job /\ op'.dir = op.dir /\ op'.token = op.token
         /\ op'.todo = T /\ op'.at = a /\ op'.found = F
<1>1. op.job \in Jobs /\ op.dir \in Directions /\ op.token \in Nat
  BY DEF IsOperation
<1>3. /\ op'.pc = p /\ op'.job = op.job /\ op'.dir = op.dir /\ op'.token = op.token
      /\ op'.todo = T /\ op'.at = a /\ op'.found = F
      /\ op' = [pc |-> op'.pc, job |-> op'.job, dir |-> op'.dir, token |-> op'.token,
                todo |-> op'.todo, at |-> op'.at, found |-> op'.found]
  OBVIOUS
<1>4. IsOperation(op')
  BY <1>1, <1>3 DEF IsOperation, Dispatching
<1>5. QED
  BY <1>3, <1>4, Holding

LEMMA EmptyPlan ==
  ASSUME NEW j
  PROVE  IsItems(<<>>, j) /\ IsDraft(<<>>, j) /\ DOMAIN <<>> = {}
<1>1. DOMAIN <<>> = {}
  OBVIOUS
<1>2. \A S : <<>> \in [{} -> S]
  OBVIOUS
<1>3. QED
  BY <1>1, <1>2 DEF IsItems, IsDraft

LEMMA StartTyped ==
  ASSUME NEW p \in {"prepare", "preview", "check"}, NEW j \in Jobs, NEW d \in Directions,
         NEW t \in Nat, NEW T, T \subseteq Indices(j), NEW F,
         p = "prepare" => IsDraft(F, j), p # "prepare" => IsItems(F, j),
         op' = Starting(p, j, d, t, T, F)
  PROVE  /\ OperationOK'
         /\ op'.pc = p /\ op'.job = j /\ op'.dir = d /\ op'.token = t
         /\ op'.todo = T /\ op'.found = F
<1>1. op' = [pc |-> p, job |-> j, dir |-> d, token |-> t, todo |-> T, at |-> 0, found |-> F]
  BY DEF Starting
<1>2. /\ op'.pc = p /\ op'.job = j /\ op'.dir = d /\ op'.token = t
      /\ op'.todo = T /\ op'.at = 0 /\ op'.found = F
      /\ op' = [pc |-> op'.pc, job |-> op'.job, dir |-> op'.dir, token |-> op'.token,
                todo |-> op'.todo, at |-> op'.at, found |-> op'.found]
  BY <1>1
<1>3. IsOperation(op')
  BY <1>2 DEF IsOperation, OpPCs
<1>4. QED
  BY <1>2, <1>3, Holding

LEMMA IdlePC == Idle.pc = "idle"
  BY DEF Idle, Starting

LEMMA ActionOf ==
  ASSUME LedgerOK, NEW j \in DOMAIN ledger, NEW i \in Indices(j)
  PROVE  /\ j \in Jobs /\ ledger[j].acts[i] \in Action
         /\ ledger[j].acts[i].status \in Statuses /\ ledger[j].acts[i].prior \in Statuses
         /\ ledger[j].acts[i].reconciled \in BOOLEAN
  BY DEF LedgerOK, IsReceipt, Action

-----------------------------------------------------------------------------
(* Each step keeps the types.                                                *)

\* An operation that ends leaves the gate free.
LEMMA EndKeepsGate ==
  ASSUME op' = Idle
  PROVE  OperationOK' /\ GateOK'
  BY Ending, IdlePC DEF GateOK, Dispatching

LEMMA PrepareTyped ==
  ASSUME TypeInv,
         \/ \E j \in Jobs : BeginPrepare(j)
         \/ \E i \in Turn("apply") : PrepareRead(i)
         \/ PrepareSave
  PROVE  TypeInv'
<1>1. LedgerOK /\ OperationOK /\ RemoteOK /\ RequestsOK /\ HistoryOK /\ GateOK
  BY TypeOKParts DEF TypeInv
<1>2. RemoteOK' /\ RequestsOK' /\ HistoryOK'
  BY <1>1, PartsStay DEF BeginPrepare, PrepareRead, PrepareSave, environment, counters
<1>3. ASSUME NEW j \in Jobs, BeginPrepare(j)
      PROVE  LedgerOK' /\ OperationOK' /\ GateOK'
  <2>1. op' = Starting("prepare", j, "apply", 0, Indices(j), <<>>) /\ UNCHANGED ledger
    BY <1>3 DEF BeginPrepare
  <2>2. IsDraft(<<>>, j) /\ DOMAIN <<>> = {}
    BY EmptyPlan
  <2>3. "apply" \in Directions
    BY DEF Directions
  <2>4. OperationOK' /\ op'.pc = "prepare" /\ op'.job = j /\ op'.todo = Indices(j)
        /\ op'.found = <<>>
    BY <2>1, <2>2, <2>3, StartTyped
  <2>5. GateOK'
    BY <2>2, <2>4 DEF GateOK, Dispatching
  <2>6. QED
    BY <1>1, <2>1, <2>4, <2>5, PartsStay
<1>4. ASSUME NEW i \in Turn("apply"), PrepareRead(i)
      PROVE  LedgerOK' /\ OperationOK' /\ GateOK'
  <2> DEFINE j == op.job
             r == ResourceOf(j, i)
             body == remote[r].body
             changed == {f \in Changes[j][i].fields : body[f] # j}
             a == [status |-> "pending", prior |-> "pending",
                   touched |-> IF r \in Texts THEN Changes[j][i].fields ELSE changed,
                   before |-> body, version |-> remote[r].version,
                   order |-> 0, reconciled |-> FALSE]
             F == [k \in DOMAIN op.found \cup {i} |-> IF k # i THEN op.found[k] ELSE a]
  <2>1. op.pc = "prepare" /\ IsOperation(op) /\ j \in Jobs /\ i \in Indices(j)
        /\ IsDraft(op.found, j) /\ op.todo \subseteq Indices(j) /\ i \in op.todo
        /\ UNCHANGED ledger
    BY <1>1, <1>4, InOperation DEF PrepareRead, Turn, IsOperation
  <2>2. CASE op' = Idle
    BY <1>1, <2>1, <2>2, EndKeepsGate, PartsStay
  <2>3. CASE op' = [op EXCEPT !.todo = @ \ {i}, !.found = F]
    <3>1. a \in Action
      <4>1. r \in Resources /\ body \in [Fields -> Values] /\ remote[r].version \in Nat
        BY <1>1, <2>1, IndicesInAll DEF RemoteOK
      <4>2. Changes[j][i].fields \subseteq Fields
        BY <2>1, IndicesInAll, FieldsOfChange
      <4>3. (IF r \in Texts THEN Changes[j][i].fields ELSE changed) \subseteq Fields
        BY <4>2
      <4> HIDE DEF body, r, changed
      <4>4. QED
        BY <4>1, <4>3 DEF Action, Statuses, Uncertain
    <3> HIDE DEF a
    <3>2. IsDraft(F, j) /\ DOMAIN F = DOMAIN op.found \cup {i}
      BY <2>1, <3>1 DEF IsDraft
    <3> HIDE DEF F
    <3>3. op' = [pc |-> op.pc, job |-> op.job, dir |-> op.dir, token |-> op.token,
                 todo |-> op.todo \ {i}, at |-> op.at, found |-> F]
      BY <2>1, <2>3 DEF IsOperation
    <3>4. /\ op'.pc = op.pc /\ op'.job = op.job /\ op'.dir = op.dir /\ op'.token = op.token
          /\ op'.todo = op.todo \ {i} /\ op'.at = op.at /\ op'.found = F
          /\ op' = [pc |-> op'.pc, job |-> op'.job, dir |-> op'.dir, token |-> op'.token,
                    todo |-> op'.todo, at |-> op'.at, found |-> op'.found]
      BY <3>3
    <3>5. IsOperation(op')
      BY <2>1, <3>2, <3>4 DEF IsOperation
    <3>6. GateOK'
      BY <1>1, <2>1, <3>2, <3>4 DEF GateOK, Dispatching
    <3>7. QED
      BY <1>1, <2>1, <3>5, <3>6, Holding, PartsStay
  <2>4. QED
    BY <1>4, <2>2, <2>3 DEF PrepareRead, GiveWay
<1>5. ASSUME PrepareSave
      PROVE  LedgerOK' /\ OperationOK' /\ GateOK'
  <2> DEFINE receipt == [acts |-> op.found, undoStarted |-> FALSE, attempts |-> 0,
                         lastToken |-> 0, plan |-> NoPlan]
  <2>1. IsOperation(op) /\ op.pc = "prepare" /\ op.todo = {} /\ op.job \in Jobs
    BY <1>1, <1>5, InOperation DEF PrepareSave, IsOperation
  <2>2. DOMAIN op.found = Indices(op.job)
    BY <1>1, <2>1 DEF GateOK, Dispatching
  <2>3. op.found \in [Indices(op.job) -> Action]
    BY <2>1, <2>2 DEF IsOperation, IsDraft
  <2>4. IsReceipt(receipt, op.job)
    BY <2>3 DEF IsReceipt, IsPlan
  <2>5. Commit(op.job, receipt) /\ op' = Idle
    BY <1>5 DEF PrepareSave
  <2> HIDE DEF receipt
  <2>6. QED
    BY <1>1, <2>1, <2>4, <2>5, CommitTyped, EndKeepsGate
<1>6. QED
  BY <1>2, <1>3, <1>4, <1>5 DEF TypeInv, TypeOK

\* A receipt with another plan.
LEMMA PlanTyped ==
  ASSUME NEW receipt, NEW j \in Jobs, IsReceipt(receipt, j), NEW p, IsPlan(p, j)
  PROVE  /\ IsReceipt([receipt EXCEPT !.plan = p], j)
         /\ [receipt EXCEPT !.plan = p].acts = receipt.acts
         /\ [receipt EXCEPT !.plan = p].plan = p
<1> DEFINE new == [receipt EXCEPT !.plan = p]
<1>1. new = [acts |-> receipt.acts, undoStarted |-> receipt.undoStarted,
             attempts |-> receipt.attempts, lastToken |-> receipt.lastToken, plan |-> p]
  BY DEF IsReceipt
<1> HIDE DEF new
<1>2. /\ new.acts = receipt.acts /\ new.undoStarted = receipt.undoStarted
      /\ new.attempts = receipt.attempts /\ new.lastToken = receipt.lastToken
      /\ new.plan = p
  BY <1>1
<1>3. IsReceipt(new, j)
  BY <1>1, <1>2 DEF IsReceipt
<1>4. QED
  BY <1>2, <1>3 DEF new

\* One more item of a plan.
LEMMA ItemTyped ==
  ASSUME NEW j, NEW F, IsItems(F, j), NEW i \in Indices(j), NEW item \in Item
  PROVE  LET G == [k \in DOMAIN F \cup {i} |-> IF k = i THEN item ELSE F[k]] IN
         IsItems(G, j) /\ DOMAIN G = DOMAIN F \cup {i}
  BY DEF IsItems

LEMMA LoadedTyped ==
  ASSUME LedgerOK, NEW j \in DOMAIN ledger, Commit(j, Load(ledger[j]))
  PROVE  LedgerOK' /\ DOMAIN ledger' = DOMAIN ledger
<1>1. j \in Jobs /\ IsReceipt(ledger[j], j)
  BY DEF LedgerOK
<1>2. IsReceipt(Load(ledger[j]), j)
  BY <1>1, LoadTyped
<1>3. LedgerOK' /\ DOMAIN ledger' = DOMAIN ledger \cup {j}
  BY <1>1, <1>2, CommitTyped
<1>4. QED
  BY <1>3

LEMMA PreviewTyped ==
  ASSUME TypeInv,
         \/ \E j \in Jobs : View(j) \/ \E dir \in Directions : BeginPreview(j, dir)
         \/ \E i \in Turn("apply") : PreviewRead(i)
         \/ PreviewSave
  PROVE  TypeInv'
<1>1. LedgerOK /\ OperationOK /\ RemoteOK /\ RequestsOK /\ HistoryOK /\ GateOK
  BY TypeOKParts DEF TypeInv
<1>2. RemoteOK' /\ RequestsOK' /\ HistoryOK'
  <2>1. CASE PreviewSave
    BY <1>1, <2>1, PartsStay DEF PreviewSave, environment, HistoryOK
  <2>2. CASE ~PreviewSave
    BY <1>1, <2>2, PartsStay DEF View, BeginPreview, PreviewRead, environment, counters
  <2>3. QED
    BY <2>1, <2>2
<1>3. ASSUME NEW j \in Jobs, View(j)
      PROVE  LedgerOK' /\ OperationOK' /\ GateOK'
  <2>1. j \in DOMAIN ledger /\ Commit(j, Load(ledger[j])) /\ op = Idle /\ UNCHANGED op
    BY <1>3 DEF View
  <2>2. QED
    BY <1>1, <2>1, LoadedTyped, EndKeepsGate
<1>4. ASSUME NEW j \in Jobs, NEW dir \in Directions, BeginPreview(j, dir)
      PROVE  LedgerOK' /\ OperationOK' /\ GateOK'
  <2>1. j \in DOMAIN ledger /\ Commit(j, Load(ledger[j]))
        /\ op' = Starting("preview", j, dir, 0, Indices(j), <<>>)
    BY <1>4 DEF BeginPreview
  <2>2. LedgerOK' /\ DOMAIN ledger' = DOMAIN ledger
    BY <1>1, <2>1, LoadedTyped
  <2>3. OperationOK' /\ op'.pc = "preview" /\ op'.job = j
    BY <2>1, StartTyped, EmptyPlan
  <2>4. QED
    BY <2>1, <2>2, <2>3 DEF GateOK, Dispatching
<1>5. ASSUME NEW i \in Turn("apply"), PreviewRead(i)
      PROVE  LedgerOK' /\ OperationOK' /\ GateOK'
  <2> DEFINE j == op.job
             a == ledger[j].acts[i]
             snap == remote[ResourceOf(j, i)]
             item == [version |-> snap.version,
                      observed |-> IF op.dir = "reconcile" THEN Observed(snap.body, j, a)
                                   ELSE a.status]
             F == [k \in DOMAIN op.found \cup {i} |-> IF k = i THEN item ELSE op.found[k]]
  <2>1. op.pc = "preview" /\ IsOperation(op) /\ j \in DOMAIN ledger /\ i \in Indices(j)
        /\ IsItems(op.found, j) /\ op.todo \subseteq Indices(j) /\ i \in op.todo
        /\ UNCHANGED ledger
    BY <1>1, <1>5, InOperation DEF PreviewRead, Turn, IsOperation, GateOK
  <2>2. LedgerOK'
    BY <1>1, <2>1, PartsStay
  <2>3. CASE op' = Idle
    BY <2>2, <2>3, EndKeepsGate
  <2>4. CASE op' = [op EXCEPT !.todo = @ \ {i}]
    <3>1. op' = [pc |-> "preview", job |-> op.job, dir |-> op.dir, token |-> op.token,
                 todo |-> op.todo \ {i}, at |-> op.at, found |-> op.found]
      BY <2>1, <2>4 DEF IsOperation
    <3>2. "preview" \in OpPCs \ {"idle", "prepare"} /\ "preview" \notin Dispatching
      BY DEF OpPCs, Dispatching
    <3>3. OperationOK' /\ op'.pc = "preview" /\ op'.job = op.job
      BY <2>1, <3>1, <3>2, GoOnTyped
    <3>4. QED
      BY <2>1, <2>2, <3>3 DEF GateOK, Dispatching
  <2>5. CASE op' = [op EXCEPT !.todo = @ \ {i}, !.found = F]
    <3>1. a.status \in Statuses /\ j \in Jobs /\ Observed(snap.body, j, a) \in Statuses
      BY <1>1, <2>1, ActionOf DEF Observed, Statuses
    <3>2. snap.version \in Nat
      BY <1>1, <2>1, <3>1, IndicesInAll DEF RemoteOK
    <3>3. item \in Item
      BY <3>1, <3>2 DEF Item
    <3> HIDE DEF item
    <3>4. IsItems(F, j)
      BY <2>1, <3>3, ItemTyped
    <3> HIDE DEF F
    <3>5. op' = [pc |-> "preview", job |-> op.job, dir |-> op.dir, token |-> op.token,
                 todo |-> op.todo \ {i}, at |-> op.at, found |-> F]
      BY <2>1, <2>5 DEF IsOperation
    <3>6. "preview" \in OpPCs \ {"idle", "prepare"} /\ "preview" \notin Dispatching
      BY DEF OpPCs, Dispatching
    <3>7. OperationOK' /\ op'.pc = "preview" /\ op'.job = op.job
      BY <2>1, <3>4, <3>5, <3>6, GoOnTyped
    <3>8. QED
      BY <2>1, <2>2, <3>7 DEF GateOK, Dispatching
  <2>6. [[op EXCEPT !.todo = @ \ {i}] EXCEPT
             !.found = [k \in DOMAIN @ \cup {i} |-> IF k = i THEN item ELSE @[k]]]
          = [op EXCEPT !.todo = @ \ {i}, !.found = F]
    <3> HIDE DEF item
    <3>1. QED
      BY <2>1 DEF IsOperation
  <2>7. \/ op' = Idle \/ op' = [op EXCEPT !.todo = @ \ {i}]
        \/ op' = [[op EXCEPT !.todo = @ \ {i}] EXCEPT
                     !.found = [k \in DOMAIN @ \cup {i} |-> IF k = i THEN item ELSE @[k]]]
    BY <1>5 DEF PreviewRead, GiveWay
  <2>8. QED
    BY <2>3, <2>4, <2>5, <2>6, <2>7
<1>6. ASSUME PreviewSave
      PROVE  LedgerOK' /\ OperationOK' /\ GateOK'
  <2> DEFINE p == [token |-> tokens', dir |-> op.dir, items |-> op.found]
  <2>1. op.pc = "preview" /\ IsOperation(op) /\ op.job \in DOMAIN ledger /\ op.job \in Jobs
        /\ IsItems(op.found, op.job) /\ op.dir \in Directions /\ op' = Idle
    BY <1>1, <1>6, InOperation DEF PreviewSave, IsOperation, GateOK
  <2>2. CASE UNCHANGED ledger
    BY <1>1, <2>1, <2>2, PartsStay, EndKeepsGate
  <2>3. CASE tokens' = tokens + 1 /\ Commit(op.job, [ledger[op.job] EXCEPT !.plan = p])
    <3>1. tokens' \in Nat \ {0}
      BY <1>1, <2>3 DEF HistoryOK
    <3>2. IsPlan(p, op.job)
      BY <2>1, <3>1 DEF IsPlan
    <3> HIDE DEF p
    <3>3. IsReceipt([ledger[op.job] EXCEPT !.plan = p], op.job)
      BY <1>1, <2>1, <3>2, PlanTyped DEF LedgerOK
    <3>4. QED
      BY <1>1, <2>1, <2>3, <3>3, CommitTyped, EndKeepsGate
  <2>4. QED
    BY <1>6, <2>2, <2>3 DEF PreviewSave
<1>7. QED
  BY <1>2, <1>3, <1>4, <1>5, <1>6 DEF TypeInv, TypeOK

LEMMA CheckTyped ==
  ASSUME TypeInv,
         \/ \E j \in Jobs : \E token \in 1 .. tokens : BeginExecute(j, token)
         \/ \E i \in Turn(op.dir) : Check(i)
         \/ Consume
  PROVE  TypeInv'
<1>1. LedgerOK /\ OperationOK /\ RemoteOK /\ RequestsOK /\ HistoryOK /\ GateOK
  BY TypeOKParts DEF TypeInv
<1>2. RemoteOK' /\ RequestsOK' /\ HistoryOK'
  BY <1>1, PartsStay DEF BeginExecute, Check, Consume, environment, counters
<1>3. "check" \in OpPCs \ {"idle", "prepare"} /\ "check" \notin Dispatching
      /\ "next" \in OpPCs \ {"idle", "prepare"} /\ "next" \notin Dispatching
  BY DEF OpPCs, Dispatching
<1>4. ASSUME NEW j \in Jobs, NEW token \in 1 .. tokens, BeginExecute(j, token)
      PROVE  LedgerOK' /\ OperationOK' /\ GateOK'
  <2> DEFINE p == ledger[j].plan
  <2>1. j \in DOMAIN ledger /\ p.token = token /\ UNCHANGED ledger
        /\ op' = Starting("check", j, p.dir, token, DOMAIN p.items, p.items)
    BY <1>4 DEF BeginExecute
  <2>2. tokens \in Nat /\ token \in Nat /\ token # 0
    BY <1>1 DEF HistoryOK
  <2>3. IsPlan(p, j)
    BY <1>1, <2>1 DEF LedgerOK, IsReceipt
  <2>4. p # NoPlan
    BY <2>1, <2>2 DEF NoPlan
  <2>5. p.dir \in Directions /\ IsItems(p.items, j)
    BY <2>3, <2>4 DEF IsPlan
  <2> HIDE DEF p
  <2>6. DOMAIN p.items \subseteq Indices(j)
    BY <2>5 DEF IsItems
  <2>7. OperationOK' /\ op'.pc = "check" /\ op'.job = j /\ op'.todo = DOMAIN p.items
        /\ op'.found = p.items
    BY <2>1, <2>2, <2>5, <2>6, StartTyped
  <2>8. QED
    BY <1>1, <2>1, <2>7, PartsStay DEF GateOK, Dispatching
<1>5. ASSUME NEW i \in Turn(op.dir), Check(i)
      PROVE  LedgerOK' /\ OperationOK' /\ GateOK'
  <2>1. op.pc = "check" /\ IsOperation(op) /\ op.job \in DOMAIN ledger
        /\ IsItems(op.found, op.job) /\ op.todo \subseteq Indices(op.job)
        /\ op.todo \subseteq DOMAIN op.found /\ UNCHANGED ledger
    BY <1>1, <1>5, InOperation DEF Check, IsOperation, GateOK
  <2>2. CASE op' = Idle
    BY <1>1, <2>1, <2>2, PartsStay, EndKeepsGate
  <2>3. CASE op' = [op EXCEPT !.todo = @ \ {i}]
    <3>1. op' = [pc |-> "check", job |-> op.job, dir |-> op.dir, token |-> op.token,
                 todo |-> op.todo \ {i}, at |-> op.at, found |-> op.found]
      BY <2>1, <2>3 DEF IsOperation
    <3>2. OperationOK' /\ op'.pc = "check" /\ op'.job = op.job /\ op'.todo = op.todo \ {i}
          /\ op'.found = op.found
      BY <1>3, <2>1, <3>1, GoOnTyped
    <3>3. QED
      BY <1>1, <2>1, <3>2, PartsStay DEF GateOK, Dispatching
  <2>4. QED
    BY <1>5, <2>2, <2>3 DEF Check, GiveWay
<1>6. ASSUME Consume
      PROVE  LedgerOK' /\ OperationOK' /\ GateOK'
  <2> DEFINE old == ledger[op.job]
             new == [old EXCEPT !.lastToken = op.token, !.plan = NoPlan,
                                !.attempts = @ + 1, !.undoStarted = @ \/ op.dir = "undo"]
             started == old.undoStarted \/ op.dir = "undo"
  <2>1. op.pc = "check" /\ IsOperation(op) /\ op.job \in DOMAIN ledger /\ op.job \in Jobs
        /\ IsItems(op.found, op.job) /\ DOMAIN op.found \subseteq Indices(op.job)
        /\ op.token \in Nat /\ IsReceipt(old, op.job)
    BY <1>1, <1>6, InOperation DEF Consume, IsOperation, IsItems, GateOK, LedgerOK
  <2>2. Commit(op.job, new) /\ op' = [op EXCEPT !.pc = "next", !.todo = DOMAIN op.found]
    BY <1>6 DEF Consume
  <2>3. started \in BOOLEAN
    BY Zenon
  <2>3a. new = [old EXCEPT !.lastToken = op.token, !.plan = NoPlan,
                           !.attempts = @ + 1, !.undoStarted = started]
    BY Zenon
  <2> HIDE DEF new, started
  <2>4. new = [acts |-> old.acts, undoStarted |-> started, attempts |-> old.attempts + 1,
               lastToken |-> op.token, plan |-> NoPlan]
    BY <2>1, <2>3a DEF IsReceipt
  <2>5. /\ new.acts = old.acts /\ new.undoStarted = started
        /\ new.attempts = old.attempts + 1 /\ new.lastToken = op.token /\ new.plan = NoPlan
    BY <2>4
  <2>6. IsReceipt(new, op.job)
    BY <2>1, <2>3, <2>4, <2>5 DEF IsReceipt, IsPlan
  <2>7. LedgerOK' /\ op.job \in DOMAIN ledger'
    BY <1>1, <2>1, <2>2, <2>6, CommitTyped
  <2>8. op' = [pc |-> "next", job |-> op.job, dir |-> op.dir, token |-> op.token,
               todo |-> DOMAIN op.found, at |-> op.at, found |-> op.found]
    BY <2>1, <2>2 DEF IsOperation
  <2>9. OperationOK' /\ op'.pc = "next" /\ op'.job = op.job /\ op'.todo = DOMAIN op.found
        /\ op'.found = op.found
    BY <1>3, <2>1, <2>8, GoOnTyped
  <2>10. QED
    BY <2>7, <2>9 DEF GateOK, Dispatching
<1>7. QED
  BY <1>2, <1>4, <1>5, <1>6 DEF TypeInv, TypeOK

\* What holds while a change is being dispatched.
LEMMA Dispatched ==
  ASSUME TypeInv, op.pc \in Dispatching
  PROVE  /\ IsOperation(op) /\ op.job \in DOMAIN ledger /\ op.job \in Jobs
         /\ op.at \in Indices(op.job) /\ op.at \in DOMAIN op.found
         /\ IsItems(op.found, op.job)
         /\ op.todo \subseteq DOMAIN op.found /\ op.todo \subseteq Indices(op.job)
         /\ ledger[op.job].acts[op.at] \in Action
<1>1. op.pc \notin {"idle", "prepare", "preview"}
  BY DEF Dispatching
<1>2. IsOperation(op) /\ op.job \in DOMAIN ledger /\ op.todo \subseteq DOMAIN op.found
  BY <1>1, InOperation DEF TypeInv, TypeOK, GateOK
<1>3. op.at \in Indices(op.job) /\ op.at \in DOMAIN op.found
      /\ IsItems(op.found, op.job) /\ op.job \in Jobs /\ op.todo \subseteq Indices(op.job)
  BY <1>1, <1>2 DEF IsOperation, IsItems, Dispatching
<1>4. QED
  BY <1>2, <1>3, ActionOf DEF TypeInv, TypeOK

\* The operation goes on with its plan, from one stage of a dispatch to another.
LEMMA StageTyped ==
  ASSUME TypeInv, op.pc \in Dispatching, NEW p \in Dispatching \cup {"next"},
         op' = [op EXCEPT !.pc = p], DOMAIN ledger' = DOMAIN ledger
  PROVE  /\ OperationOK' /\ GateOK'
         /\ op'.pc = p /\ op'.job = op.job /\ op'.dir = op.dir /\ op'.token = op.token
         /\ op'.todo = op.todo /\ op'.at = op.at /\ op'.found = op.found
<1>1. /\ IsOperation(op) /\ op.job \in DOMAIN ledger /\ IsItems(op.found, op.job)
      /\ op.todo \subseteq DOMAIN op.found /\ op.todo \subseteq Indices(op.job)
      /\ op.at \in DOMAIN op.found
  BY Dispatched
<1>2. op' = [pc |-> p, job |-> op.job, dir |-> op.dir, token |-> op.token,
             todo |-> op.todo, at |-> op.at, found |-> op.found]
  BY <1>1 DEF IsOperation
<1>3. p \in OpPCs \ {"idle", "prepare"} /\ op.pc # "prepare"
  BY DEF OpPCs, Dispatching
<1>4. /\ OperationOK'
      /\ op'.pc = p /\ op'.job = op.job /\ op'.dir = op.dir /\ op'.token = op.token
      /\ op'.todo = op.todo /\ op'.at = op.at /\ op'.found = op.found
  BY ZenonT(60), <1>1, <1>2, <1>3, GoOnTyped
<1>5. QED
  BY <1>1, <1>4 DEF TypeInv, GateOK, Dispatching

\* What holds of the next change of a plan.
LEMMA NextReady ==
  ASSUME TypeInv, op.pc = "next", NEW i \in op.todo
  PROVE  /\ IsOperation(op) /\ op.job \in DOMAIN ledger /\ op.job \in Jobs
         /\ op.todo \subseteq DOMAIN op.found /\ op.todo \subseteq Indices(op.job)
         /\ IsItems(op.found, op.job)
         /\ i \in Indices(op.job) /\ op.found[i] \in Item
         /\ ledger[op.job].acts[i] \in Action
<1>1. /\ IsOperation(op) /\ op.job \in DOMAIN ledger /\ op.job \in Jobs
      /\ op.todo \subseteq DOMAIN op.found /\ op.todo \subseteq Indices(op.job)
      /\ IsItems(op.found, op.job)
  BY InOperation DEF TypeInv, TypeOK, GateOK, IsOperation
<1>2. i \in Indices(op.job) /\ op.found[i] \in Item
  BY <1>1 DEF IsItems
<1>3. ledger[op.job].acts[i] \in Action
  BY <1>1, <1>2, ActionOf DEF TypeInv, TypeOK
<1>4. QED
  BY <1>1, <1>2, <1>3

\* The operation takes one more change of its plan.
LEMMA NextTyped ==
  ASSUME TypeInv, op.pc = "next", NEW i \in op.todo, DOMAIN ledger' = DOMAIN ledger
  PROVE  /\ op' = [op EXCEPT !.todo = @ \ {i}] =>
               OperationOK' /\ GateOK' /\ op'.pc = "next" /\ op'.job = op.job
               /\ op'.dir = op.dir /\ op'.token = op.token
               /\ op'.todo = op.todo \ {i} /\ op'.found = op.found
         /\ op.dir # "reconcile"
            /\ op' = [op EXCEPT !.pc = "send", !.at = i, !.todo = @ \ {i}] =>
               OperationOK' /\ GateOK' /\ op'.pc = "send" /\ op'.job = op.job
               /\ op'.dir = op.dir /\ op'.token = op.token
               /\ op'.todo = op.todo \ {i} /\ op'.at = i /\ op'.found = op.found
<1>1. /\ IsOperation(op) /\ op.job \in DOMAIN ledger /\ op.job \in Jobs
      /\ op.todo \subseteq DOMAIN op.found /\ op.todo \subseteq Indices(op.job)
      /\ IsItems(op.found, op.job)
  BY NextReady
<1>4. {"next", "send"} \subseteq OpPCs \ {"idle", "prepare"} /\ "next" \notin Dispatching
  BY DEF OpPCs, Dispatching
<1>5. ASSUME op' = [op EXCEPT !.todo = @ \ {i}]
      PROVE  /\ OperationOK' /\ GateOK' /\ op'.pc = "next" /\ op'.job = op.job
             /\ op'.dir = op.dir /\ op'.token = op.token
             /\ op'.todo = op.todo \ {i} /\ op'.found = op.found
  <2>1. op' = [pc |-> "next", job |-> op.job, dir |-> op.dir, token |-> op.token,
               todo |-> op.todo \ {i}, at |-> op.at, found |-> op.found]
    BY <1>1, <1>5 DEF IsOperation
  <2>2. /\ OperationOK' /\ op'.pc = "next" /\ op'.job = op.job
        /\ op'.dir = op.dir /\ op'.token = op.token
        /\ op'.todo = op.todo \ {i} /\ op'.found = op.found
    BY <1>1, <1>4, <2>1, GoOnTyped
  <2>3. QED
    BY <1>1, <2>2 DEF GateOK, Dispatching
<1>6. ASSUME op.dir # "reconcile", op' = [op EXCEPT !.pc = "send", !.at = i, !.todo = @ \ {i}]
      PROVE  /\ OperationOK' /\ GateOK' /\ op'.pc = "send" /\ op'.job = op.job
             /\ op'.dir = op.dir /\ op'.token = op.token
             /\ op'.todo = op.todo \ {i} /\ op'.at = i /\ op'.found = op.found
  <2>1. op' = [pc |-> "send", job |-> op.job, dir |-> op.dir, token |-> op.token,
               todo |-> op.todo \ {i}, at |-> i, found |-> op.found]
    BY <1>1, <1>6 DEF IsOperation
  <2>2. /\ OperationOK' /\ op'.pc = "send" /\ op'.job = op.job
        /\ op'.dir = op.dir /\ op'.token = op.token
        /\ op'.todo = op.todo \ {i} /\ op'.at = i /\ op'.found = op.found
    BY <1>1, <1>4, <2>1, GoOnTyped
  <2>3. QED
    BY <1>1, <1>6, <2>2 DEF GateOK, Dispatching
<1>7. QED
  BY <1>5, <1>6

LEMMA StepTyped ==
  ASSUME TypeInv, \E i \in Turn(op.dir) : Reconcile(i) \/ Intend(i)
  PROVE  TypeInv'
<1>1. LedgerOK /\ OperationOK /\ RemoteOK /\ RequestsOK /\ HistoryOK /\ GateOK
  BY TypeOKParts DEF TypeInv
<1>2. RemoteOK' /\ RequestsOK'
  BY <1>1, PartsStay DEF Reconcile, Intend, environment
<1>3. PICK i \in Turn(op.dir) : Reconcile(i) \/ Intend(i)
  OBVIOUS
<1>4. i \in op.todo /\ op.pc = "next"
  BY <1>3 DEF Turn, Reconcile, Intend
<1> DEFINE a == ledger[op.job].acts[i]
<1>5. op.job \in DOMAIN ledger /\ op.job \in Jobs /\ i \in Indices(op.job)
      /\ op.found[i] \in Item /\ a \in Action
  BY <1>4, NextReady
<1>6. CASE Reconcile(i)
  <2> DEFINE v == remote[ResourceOf(op.job, i)].version
             b == [a EXCEPT !.status = op.found[i].observed, !.version = v,
                            !.reconciled = TRUE]
  <2>1. HistoryOK'
    BY <1>1, <1>6, PartsStay DEF Reconcile, environment, counters
  <2>2. CASE op' = Idle /\ UNCHANGED ledger
    BY <1>1, <1>2, <2>1, <2>2, PartsStay, EndKeepsGate DEF TypeInv, TypeOK
  <2>3. CASE SetAction(op.job, i, b) /\ op' = [op EXCEPT !.todo = @ \ {i}]
    <3>1. v \in Nat
      BY <1>1, <1>5, IndicesInAll DEF RemoteOK
    <3> HIDE DEF v
    <3>2. b \in Action
      BY <1>5, <3>1 DEF Action, Item
    <3> HIDE DEF b, a
    <3>3. LedgerOK' /\ DOMAIN ledger' = DOMAIN ledger
      BY <1>1, <1>5, <2>3, <3>2, SetActionTyped
    <3>4. OperationOK' /\ GateOK'
      BY <1>4, <2>3, <3>3, NextTyped
    <3>5. QED
      BY <1>2, <2>1, <3>3, <3>4 DEF TypeInv, TypeOK
  <2>4. QED
    BY <1>6, <2>2, <2>3 DEF Reconcile, GiveWay
<1>7. CASE Intend(i)
  <2> DEFINE n == IF a.status = "applied" THEN a.order ELSE orders'
             b == [a EXCEPT !.prior = a.status, !.status = "running", !.order = n]
  <2>1. orders' \in Nat /\ UNCHANGED <<environment, tokens, sent>>
    BY <1>1, <1>7 DEF Intend, HistoryOK
  <2>2. HistoryOK'
    BY <1>1, <2>1 DEF HistoryOK, environment
  <2>3. op.dir # "reconcile" /\ SetAction(op.job, i, b)
        /\ op' = [op EXCEPT !.pc = "send", !.at = i, !.todo = @ \ {i}]
    BY <1>7 DEF Intend
  <2>4. n \in Nat
    BY <1>5, <2>1 DEF Action
  <2> HIDE DEF n
  <2>5. b \in Action
    BY <1>5, <2>4 DEF Action, Statuses, Uncertain
  <2> HIDE DEF b, a
  <2>6. LedgerOK' /\ DOMAIN ledger' = DOMAIN ledger
    BY <1>1, <1>5, <2>3, <2>5, SetActionTyped
  <2>7. OperationOK' /\ GateOK'
    BY <1>4, <2>3, <2>6, NextTyped
  <2>8. QED
    BY <1>2, <2>2, <2>6, <2>7 DEF TypeInv, TypeOK
<1>8. QED
  BY <1>3, <1>6, <1>7

LEMMA DispatchTyped ==
  ASSUME TypeInv,
         PermissionLost \/ Send \/ TimeOut \/ ReadBack \/ RecordFailure
  PROVE  TypeInv'
<1>1. LedgerOK /\ OperationOK /\ RemoteOK /\ RequestsOK /\ HistoryOK /\ GateOK
  BY TypeOKParts DEF TypeInv
<1>2. op.pc \in Dispatching
  BY DEF PermissionLost, Send, TimeOut, ReadBack, RecordFailure, Dispatching
<1> DEFINE a == ledger[op.job].acts[op.at]
           snap == remote[ResourceOf(op.job, op.at)]
<1>3. /\ IsOperation(op) /\ op.job \in DOMAIN ledger /\ op.job \in Jobs
      /\ op.at \in Indices(op.job) /\ op.at \in DOMAIN op.found
      /\ IsItems(op.found, op.job) /\ a \in Action
  BY <1>2, Dispatched
<1>4. RemoteOK'
  BY <1>1, PartsStay DEF PermissionLost, Send, TimeOut, ReadBack, RecordFailure, environment
<1>5. CASE Send
  <2> DEFINE q == [token |-> op.token, job |-> op.job, index |-> op.at,
                   dir |-> op.dir, version |-> op.found[op.at].version]
  <2>1. UNCHANGED <<ledger, edits, effect, tokens, orders>>
        /\ op' = [op EXCEPT !.pc = "wait"] /\ net' = net \cup {q}
        /\ sent' = sent \cup {<<op.token, op.job, op.at>>}
    BY <1>5 DEF Send
  <2>2. op.token \in Nat /\ op.found[op.at].version \in Nat /\ op.at \in AllIndices
        /\ op.dir \in {"apply", "undo"}
    BY <1>1, <1>2, <1>3, IndicesInAll DEF IsOperation, IsItems, Item, Directions, GateOK
  <2>3. q \in Request /\ q.index = op.at /\ q.job = op.job
    BY <1>3, <2>2 DEF Request
  <2> HIDE DEF q
  <2>4. RequestsOK'
    BY <1>1, <1>3, <2>1, <2>3 DEF RequestsOK
  <2>5. HistoryOK'
    BY <1>1, <1>3, <2>1, <2>2 DEF HistoryOK
  <2>6. LedgerOK' /\ OperationOK' /\ GateOK'
    <3>1. LedgerOK' /\ DOMAIN ledger' = DOMAIN ledger
      BY <1>1, <2>1, PartsStay
    <3>2. "wait" \in Dispatching \cup {"next"}
      BY DEF Dispatching
    <3>3. QED
      BY <1>2, <2>1, <3>1, <3>2, StageTyped
  <2>7. QED
    BY <1>4, <2>4, <2>5, <2>6 DEF TypeInv, TypeOK
<1>6. CASE ~Send
  <2>1. RequestsOK' /\ HistoryOK'
    BY <1>1, <1>6, PartsStay DEF PermissionLost, TimeOut, ReadBack, RecordFailure,
                                 environment, counters
  <2>2. CASE TimeOut
    <3>1. op' = [op EXCEPT !.pc = "lost"] /\ UNCHANGED ledger
      BY <2>2 DEF TimeOut
    <3>2. LedgerOK' /\ DOMAIN ledger' = DOMAIN ledger
      BY <1>1, <3>1, PartsStay
    <3>3. "lost" \in Dispatching \cup {"next"}
      BY DEF Dispatching
    <3>4. OperationOK' /\ GateOK'
      BY <1>2, <3>1, <3>2, <3>3, StageTyped
    <3>5. QED
      BY <1>4, <2>1, <3>2, <3>4 DEF TypeInv, TypeOK
  <2>3. ASSUME NEW b \in Action, SetAction(op.job, op.at, b),
               op' = Idle \/ op' = [op EXCEPT !.pc = "next"]
        PROVE  TypeInv'
    <3>1. LedgerOK' /\ DOMAIN ledger' = DOMAIN ledger
      BY <1>1, <1>3, <2>3, SetActionTyped
    <3>2. OperationOK' /\ GateOK'
      BY <1>2, <2>3, <3>1, StageTyped, EndKeepsGate
    <3>3. QED
      BY <1>4, <2>1, <3>1, <3>2 DEF TypeInv, TypeOK
  <2>4. \A s \in Statuses : [a EXCEPT !.status = s] \in Action
    BY <1>3, StatusTyped
  <2>5. a.prior \in Statuses /\ {"needs_review", "applied", "undone"} \subseteq Statuses
    BY <1>3 DEF Action, Statuses, Uncertain
  <2>6. CASE PermissionLost
    <3>1. SetAction(op.job, op.at, [a EXCEPT !.status = a.prior]) /\ op' = Idle
      BY <2>6 DEF PermissionLost
    <3> HIDE DEF a
    <3>2. QED
      BY <2>3, <2>4, <2>5, <3>1
  <2>7. CASE RecordFailure
    <3> DEFINE s == IF op.pc = "refused" THEN a.prior ELSE "needs_review"
    <3>1. SetAction(op.job, op.at, [a EXCEPT !.status = s]) /\ op' = Idle
      BY <2>7 DEF RecordFailure
    <3>2. s \in Statuses
      BY <2>5
    <3> HIDE DEF a, s
    <3>3. QED
      BY <2>3, <2>4, <3>1, <3>2
  <2>8. CASE ReadBack
    <3> DEFINE s == IF op.dir = "apply" THEN "applied" ELSE "undone"
               b == [a EXCEPT !.version = snap.version, !.status = s]
    <3>1. \/ SetAction(op.job, op.at, b) /\ op' = [op EXCEPT !.pc = "next"]
          \/ SetAction(op.job, op.at, [a EXCEPT !.status = "needs_review"]) /\ op' = Idle
      BY <2>8 DEF ReadBack
    <3>2. s \in Statuses
      BY <2>5
    <3>3. snap.version \in Nat
      BY <1>1, <1>3, IndicesInAll DEF RemoteOK
    <3> HIDE DEF s, snap
    <3>4. b \in Action
      BY <1>3, <3>2, <3>3 DEF Action
    <3> HIDE DEF a, b
    <3>5. QED
      BY <2>3, <2>4, <2>5, <3>1, <3>4
  <2>9. QED
    BY <1>6, <2>2, <2>6, <2>7, <2>8
<1>7. QED
  BY <1>5, <1>6

LEMMA EndTyped ==
  ASSUME TypeInv, Finish \/ Abandon
  PROVE  TypeInv'
<1>1. op' = Idle /\ UNCHANGED <<ledger, environment, counters>>
  BY DEF Finish, Abandon, GiveWay
<1>2. RemoteOK' /\ LedgerOK' /\ RequestsOK' /\ HistoryOK'
  BY <1>1, PartsStay, TypeOKParts DEF TypeInv, environment, counters
<1>3. QED
  BY <1>1, <1>2, EndKeepsGate DEF TypeInv, TypeOK

\* What an answer does to the operation that waits for it.
LEMMA AnswerTyped ==
  ASSUME TypeInv, NEW q, NEW pc \in {"ok", "refused"}, Answer(q, pc), UNCHANGED ledger
  PROVE  OperationOK' /\ GateOK'
<1>1. LedgerOK /\ OperationOK /\ GateOK
  BY DEF TypeInv, TypeOK
<1>2. {"ok", "refused", "lost"} \subseteq Dispatching \cup {"next"} /\ "wait" \in Dispatching
  BY DEF Dispatching
<1>3. CASE UNCHANGED op
  BY <1>1, <1>3, PartsStay DEF GateOK
<1>4. CASE op.pc = "wait" /\ \E p \in {"ok", "refused", "lost"} : op' = [op EXCEPT !.pc = p]
  BY <1>2, <1>4, StageTyped
<1>5. QED
  BY <1>3, <1>4 DEF Answer

\* A request that may still be executed belongs to a receipt.
RequestsHeld == \A q \in net : q.job \in DOMAIN ledger

LEMMA ServerTyped ==
  ASSUME TypeInv, RequestsHeld, NEW q \in net, ServerWrites(q)
  PROVE  TypeInv'
<1>1. LedgerOK /\ OperationOK /\ RemoteOK /\ RequestsOK /\ HistoryOK /\ GateOK
  BY TypeOKParts DEF TypeInv
<1> DEFINE r == ResourceOf(q.job, q.index)
           a == ledger[q.job].acts[q.index]
           value(f) == IF q.dir = "apply" THEN q.job ELSE a.before[f]
           body == [f \in Fields |-> IF f \in a.touched THEN value(f) ELSE remote[r].body[f]]
           snap == [version |-> remote[r].version + 1, body |-> body]
<1>2. q.job \in Jobs /\ q.dir \in {"apply", "undo"} /\ q.index \in Indices(q.job)
      /\ q.job \in DOMAIN ledger
  BY <1>1 DEF RequestsOK, Request, RequestsHeld
<1>3. r \in Resources
  BY <1>2, IndicesInAll
<1>4. remote' = [remote EXCEPT ![r] = snap]
      /\ effect' = [effect EXCEPT ![q.job][q.index] = q.dir]
      /\ net' = net \ {q} /\ Answer(q, "ok")
      /\ UNCHANGED <<ledger, edits, tokens, orders, sent>>
  BY Zenon DEF ServerWrites, counters
<1>5. RemoteOK'
  <2>1. remote[r].version \in Nat /\ remote[r].body \in [Fields -> Values]
    BY <1>1, <1>3 DEF RemoteOK
  <2>2. a.before \in [Fields -> Values]
    BY <1>1, <1>2, ActionOf DEF Action
  <2>3. \A f \in Fields : value(f) \in Values
    BY <1>2, <2>2 DEF Values
  <2> HIDE DEF value, a, r
  <2>4. body \in [Fields -> Values]
    BY <2>1, <2>3
  <2> HIDE DEF body
  <2>5. snap \in [version : Nat, body : [Fields -> Values]]
    BY <2>1, <2>4
  <2> HIDE DEF snap
  <2>6. QED
    BY <1>1, <1>4, <2>5 DEF RemoteOK
<1>6. HistoryOK'
  BY <1>1, <1>2, <1>4 DEF HistoryOK
<1>7. LedgerOK' /\ RequestsOK'
  BY <1>1, <1>4, PartsStay DEF RequestsOK
<1>8. OperationOK' /\ GateOK'
  BY <1>4, AnswerTyped
<1>9. QED
  BY <1>5, <1>6, <1>7, <1>8 DEF TypeInv, TypeOK

LEMMA EnvironmentTyped ==
  ASSUME TypeInv, RequestsHeld, Environment
  PROVE  TypeInv'
<1>1. LedgerOK /\ OperationOK /\ RemoteOK /\ RequestsOK /\ HistoryOK /\ GateOK
  BY TypeOKParts DEF TypeInv
<1>2. ASSUME NEW q \in net, ServerRefuses(q)
      PROVE  TypeInv'
  <2>1. net' = net \ {q} /\ Answer(q, "refused")
        /\ UNCHANGED <<ledger, remote, edits, effect, tokens, orders, sent>>
    BY Zenon, <1>2 DEF ServerRefuses, counters
  <2>2. RemoteOK' /\ LedgerOK' /\ HistoryOK'
    BY <1>1, <2>1, PartsStay
  <2>3. RequestsOK'
    BY <1>1, <2>1 DEF RequestsOK
  <2>4. OperationOK' /\ GateOK'
    BY <2>1, AnswerTyped
  <2>5. QED
    BY <2>2, <2>3, <2>4 DEF TypeInv, TypeOK
<1>3. ASSUME NEW r \in Resources, NEW f \in Fields, NEW v \in Values, OutsideEdit(r, f, v)
      PROVE  TypeInv'
  <2> DEFINE body == [remote[r].body EXCEPT ![f] = v]
             snap == [version |-> remote[r].version + 1, body |-> body]
  <2>1. remote' = [remote EXCEPT ![r] = snap] /\ edits' = edits + 1
        /\ UNCHANGED <<ledger, op, net, effect, tokens, orders, sent>>
    BY Zenon, <1>3 DEF OutsideEdit, counters
  <2>2. body \in [Fields -> Values] /\ remote[r].version \in Nat
    BY <1>1 DEF RemoteOK
  <2> HIDE DEF body
  <2>3. snap \in [version : Nat, body : [Fields -> Values]]
    BY <2>2
  <2> HIDE DEF snap
  <2>4. RemoteOK'
    BY <1>1, <2>1, <2>3 DEF RemoteOK
  <2>5. LedgerOK' /\ OperationOK' /\ RequestsOK' /\ GateOK'
    BY <1>1, <2>1, PartsStay DEF GateOK
  <2>6. HistoryOK'
    BY <1>1, <2>1 DEF HistoryOK
  <2>7. QED
    BY <2>4, <2>5, <2>6 DEF TypeInv, TypeOK
<1>4. ASSUME Restart
      PROVE  TypeInv'
  <2>1. op' = Idle /\ UNCHANGED <<environment, counters>>
    BY <1>4 DEF Restart
  <2>2. RemoteOK' /\ RequestsOK' /\ HistoryOK'
    BY <1>1, <2>1, PartsStay DEF environment, counters
  <2>3. QED
    BY <1>1, <1>4, <2>1, <2>2, RestartTyped, EndKeepsGate DEF TypeInv, TypeOK
<1>5. QED
  BY <1>2, <1>3, <1>4, ServerTyped DEF Environment

-----------------------------------------------------------------------------
(* All steps together.                                                       *)

LEMMA LedgerGrows ==
  ASSUME [Next]_vars
  PROVE  DOMAIN ledger \subseteq DOMAIN ledger'
<1>1. CASE UNCHANGED vars
  BY <1>1 DEF vars
<1>2. CASE Begin
  BY <1>2 DEF Begin, BeginPrepare, View, BeginPreview, BeginExecute, Commit
<1>3. CASE OpStep
  BY ZenonT(60), <1>3 DEF OpStep, PrepareRead, PrepareSave, PreviewRead, PreviewSave, Check,
     Consume,
              Reconcile, Intend, PermissionLost, Send, TimeOut, ReadBack, RecordFailure,
              Finish, Abandon, SetAction, Commit
<1>4. CASE Environment
  BY <1>4 DEF Environment, ServerWrites, ServerRefuses, OutsideEdit, Restart
<1>5. QED
  BY <1>1, <1>2, <1>3, <1>4 DEF Next

LEMMA RequestsStayHeld ==
  ASSUME TypeInv, RequestsHeld, [Next]_vars
  PROVE  RequestsHeld'
<1>1. CASE Send
  BY <1>1, Dispatched DEF Send, RequestsHeld, Dispatching
<1>2. CASE net' \subseteq net
  BY <1>2, LedgerGrows DEF RequestsHeld
<1>3. Send \/ net' \subseteq net
  <2>1. CASE UNCHANGED vars
    BY <2>1 DEF vars
  <2>2. CASE Begin
    BY <2>2 DEF Begin, BeginPrepare, View, BeginPreview, BeginExecute, environment
  <2>3. CASE OpStep
    BY <2>3 DEF OpStep, PrepareRead, PrepareSave, PreviewRead, PreviewSave, Check, Consume,
                Reconcile, Intend, PermissionLost, TimeOut, ReadBack, RecordFailure,
                Finish, Abandon, environment
  <2>4. CASE Environment
    BY <2>4 DEF Environment, ServerWrites, ServerRefuses, OutsideEdit, Restart, environment
  <2>5. QED
    BY <2>1, <2>2, <2>3, <2>4 DEF Next
<1>4. QED
  BY <1>1, <1>2, <1>3

LEMMA StepsTyped ==
  ASSUME TypeInv, RequestsHeld, [Next]_vars
  PROVE  TypeInv'
<1>1. CASE UNCHANGED vars
  BY <1>1, PartsStay, TypeOKParts DEF TypeInv, GateOK, vars, TypeOK
<1>2. CASE Begin
  BY <1>2, PrepareTyped, PreviewTyped, CheckTyped DEF Begin
<1>3. CASE OpStep
  BY <1>3, PrepareTyped, PreviewTyped, CheckTyped, StepTyped, DispatchTyped, EndTyped
     DEF OpStep
<1>4. CASE Environment
  BY <1>4, EnvironmentTyped
<1>5. QED
  BY <1>1, <1>2, <1>3, <1>4 DEF Next

LEMMA InitTyped ==
  ASSUME Init
  PROVE  TypeInv /\ RequestsHeld
<1>1. RemoteOK
  BY DEF Init, RemoteOK, Values
<1>2. LedgerOK
  BY DEF Init, LedgerOK
<1>3. OperationOK /\ GateOK
  BY IdlePC DEF Init, OperationOK, GateOK, Dispatching
<1>4. RequestsOK /\ RequestsHeld
  BY DEF Init, RequestsOK, RequestsHeld
<1>5. HistoryOK
  BY DEF Init, HistoryOK
<1>6. QED
  BY <1>1, <1>2, <1>3, <1>4, <1>5 DEF TypeInv, TypeOK

\* Every receipt, operation and request is whole and refers to changes that its
\* job has, whatever crashes, refusals and lost answers there have been.
THEOREM TypesHold == Spec => []TypeOK
<1>1. Init => TypeInv /\ RequestsHeld
  BY InitTyped
<1>2. TypeInv /\ RequestsHeld /\ [Next]_vars => (TypeInv /\ RequestsHeld)'
  BY StepsTyped, RequestsStayHeld
<1>3. TypeInv => TypeOK
  BY DEF TypeInv
<1>4. QED
  BY <1>1, <1>2, <1>3, PTL DEF Spec

-----------------------------------------------------------------------------
Certain(j, i) == ledger[j].acts[i].status \notin Uncertain
Decided(j, i) == ledger[j].acts[i].reconciled
NoRequest(j, i) == \A q \in net : ~(q.job = j /\ q.index = i)

\* A job that is not in the ledger has written nothing.
Untouched == \A j \in Jobs \ DOMAIN ledger : \A i \in Indices(j) : effect[j][i] = "none"

\* A prepared change starts as pending, in a ledger that does not have its job.
DraftsPending ==
    op.pc = "prepare" =>
        /\ op.job \notin DOMAIN ledger
        /\ \A i \in DOMAIN op.found :
              /\ op.found[i].status = "pending" /\ op.found[i].reconciled = FALSE
              /\ op.found[i].order = 0

\* Plans to write are about actions that are not in doubt; plans to reconcile are
\* about actions that are, and would record a certain status.
Fits(j, i, dir, item) ==
    IF dir = "reconcile" THEN ~Certain(j, i) /\ item.observed \notin Uncertain
                         ELSE Certain(j, i)

PlansFit ==
    \A j \in DOMAIN ledger : \A i \in DOMAIN ledger[j].plan.items :
        Fits(j, i, ledger[j].plan.dir, ledger[j].plan.items[i])

StepsFit ==
    /\ op.pc \in {"preview", "check"} =>
          \A i \in DOMAIN op.found : Fits(op.job, i, op.dir, op.found[i])
    /\ op.pc \in Dispatching \cup {"next"} =>
          \A i \in op.todo : Fits(op.job, i, op.dir, op.found[i])

\* A certain status is the executed one, and nothing is on its way.
Truthful ==
    \A j \in DOMAIN ledger : \A i \in Indices(j) :
        Certain(j, i) /\ ~Decided(j, i) =>
            ledger[j].acts[i].status = StatusOf(effect[j][i]) /\ NoRequest(j, i)

\* What is known while a change is dispatched: before it is executed the effect
\* is the one of the prior status, and the only request is the one just sent.
Own == [token |-> op.token, job |-> op.job, index |-> op.at, dir |-> op.dir,
        version |-> op.found[op.at].version]

Before == ledger[op.job].acts[op.at].prior = StatusOf(effect[op.job][op.at])

DispatchKnown ==
    op.pc \in Dispatching =>
        /\ ledger[op.job].acts[op.at].status = "running"
        /\ ~Decided(op.job, op.at) =>
              /\ op.pc \in {"send", "refused"} => Before /\ NoRequest(op.job, op.at)
              /\ op.pc = "wait" =>
                    Before /\ \A q \in net : q.job = op.job /\ q.index = op.at => q = Own
              /\ op.pc = "ok" =>
                    effect[op.job][op.at] = op.dir /\ NoRequest(op.job, op.at)

\* The plan under execution has been used up.
PlanConsumed == op.pc \in Dispatching \cup {"next"} => ledger[op.job].plan = NoPlan

OnLedger == Untouched /\ PlansFit /\ Truthful
OnOperation == DraftsPending /\ StepsFit /\ PlanConsumed /\ DispatchKnown
Typed == TypeInv /\ RequestsHeld

LEMMA TruthfulIsTruth == Typed /\ OnLedger => ReceiptTruth
  BY DEF OnLedger, Truthful, ReceiptTruth, Certain, Decided

-----------------------------------------------------------------------------
(* Steps that leave every action as certain or as doubtful as it was.        *)

SameActs ==
    /\ DOMAIN ledger' = DOMAIN ledger
    /\ \A j \in DOMAIN ledger :
          /\ ledger'[j].plan = ledger[j].plan \/ ledger'[j].plan = NoPlan
          /\ \A i \in Indices(j) :
                /\ ledger'[j].acts[i].reconciled = ledger[j].acts[i].reconciled
                /\ \/ ledger'[j].acts[i].status = ledger[j].acts[i].status
                   \/ /\ ledger[j].acts[i].status = "running"
                      /\ ledger'[j].acts[i].status = "needs_review"

LEMMA PlanIndices ==
  ASSUME LedgerOK, NEW j \in DOMAIN ledger
  PROVE  DOMAIN ledger[j].plan.items \subseteq Indices(j)
<1>1. IsPlan(ledger[j].plan, j)
  BY DEF LedgerOK, IsReceipt
<1>2. CASE ledger[j].plan = NoPlan
  BY <1>2, EmptyPlan DEF NoPlan
<1>3. CASE IsItems(ledger[j].plan.items, j)
  BY <1>3 DEF IsItems
<1>4. QED
  BY <1>1, <1>2, <1>3 DEF IsPlan

LEMMA SameActsKeep ==
  ASSUME Typed, OnLedger, SameActs, UNCHANGED <<net, effect>>
  PROVE  OnLedger'
<1>1. /\ DOMAIN ledger' = DOMAIN ledger
      /\ \A j \in DOMAIN ledger : \A i \in Indices(j) :
            /\ ledger'[j].acts[i].reconciled = ledger[j].acts[i].reconciled
            /\ ledger'[j].acts[i].status \notin Uncertain
                  <=> ledger[j].acts[i].status \notin Uncertain
            /\ ledger'[j].acts[i].status \notin Uncertain
                  => ledger'[j].acts[i].status = ledger[j].acts[i].status
  BY DEF SameActs, Uncertain
<1>2. Untouched'
  BY <1>1 DEF OnLedger, Untouched
<1>3. Truthful'
  BY <1>1 DEF OnLedger, Truthful, Certain, Decided, NoRequest
<1>4. PlansFit'
  <2>1. ASSUME NEW j \in DOMAIN ledger, NEW i \in DOMAIN ledger'[j].plan.items
        PROVE  Fits(j, i, ledger[j].plan.dir, ledger[j].plan.items[i])'
    <3>1. ledger'[j].plan = ledger[j].plan
      BY <2>1, EmptyPlan DEF SameActs, NoPlan
    <3>2. i \in Indices(j)
      BY <3>1, PlanIndices DEF Typed, TypeInv, TypeOK
    <3>3. Fits(j, i, ledger[j].plan.dir, ledger[j].plan.items[i])
      BY <2>1, <3>1 DEF OnLedger, PlansFit, Fits
    <3>4. QED
      BY <1>1, <3>1, <3>2, <3>3 DEF Fits, Certain
  <2>2. QED
    BY <1>1, <2>1 DEF PlansFit, Fits
<1>5. QED
  BY <1>2, <1>3, <1>4 DEF OnLedger

LEMMA LedgerUntouched ==
  ASSUME Typed, OnLedger, UNCHANGED <<ledger, net, effect>>
  PROVE  OnLedger'
  BY SameActsKeep DEF SameActs

LEMMA LoadedSame ==
  ASSUME Typed, NEW j \in DOMAIN ledger
  PROVE  /\ Load(ledger[j]).plan = ledger[j].plan \/ Load(ledger[j]).plan = NoPlan
         /\ \A i \in Indices(j) :
               /\ Load(ledger[j]).acts[i].reconciled = ledger[j].acts[i].reconciled
               /\ \/ Load(ledger[j]).acts[i].status = ledger[j].acts[i].status
                  \/ /\ ledger[j].acts[i].status = "running"
                     /\ Load(ledger[j]).acts[i].status = "needs_review"
<1>1. j \in Jobs /\ IsReceipt(ledger[j], j)
  BY DEF Typed, TypeInv, TypeOK, LedgerOK
<1>2. QED
  BY <1>1, LoadTyped

\* A free gate knows nothing.
LEMMA IdleKnows ==
  ASSUME op' = Idle
  PROVE  OnOperation'
  BY IdlePC DEF OnOperation, DraftsPending, StepsFit, Fits, PlanConsumed, DispatchKnown, Dispatching

LEMMA LoadKeeps ==
  ASSUME Typed, OnLedger, NEW j \in DOMAIN ledger, Commit(j, Load(ledger[j])),
         UNCHANGED <<net, effect>>
  PROVE  OnLedger'
<1>1. /\ DOMAIN ledger' = DOMAIN ledger /\ ledger'[j] = Load(ledger[j])
      /\ \A k \in DOMAIN ledger : k # j => ledger'[k] = ledger[k]
  BY DEF Commit
<1>2. SameActs
  BY <1>1, LoadedSame DEF SameActs
<1>3. QED
  BY <1>2, SameActsKeep

LEMMA RestartKeeps ==
  ASSUME Typed, OnLedger, Restart
  PROVE  OnLedger' /\ OnOperation'
<1>1. /\ DOMAIN ledger' = DOMAIN ledger
      /\ \A j \in DOMAIN ledger : ledger'[j] = Load(ledger[j])
      /\ UNCHANGED <<net, effect>> /\ op' = Idle
  BY DEF Restart, environment
<1>2. SameActs
  BY <1>1, LoadedSame DEF SameActs
<1>3. QED
  BY <1>1, <1>2, SameActsKeep, IdleKnows

-----------------------------------------------------------------------------
(* Prepare and Preview.                                                      *)

LEMMA PrepareKnows ==
  ASSUME Typed, OnLedger, OnOperation,
         \/ \E j \in Jobs : BeginPrepare(j)
         \/ \E i \in Turn("apply") : PrepareRead(i)
         \/ PrepareSave
  PROVE  OnLedger' /\ OnOperation'
<1>1. LedgerOK /\ OperationOK /\ GateOK
  BY DEF Typed, TypeInv, TypeOK
<1>2. ASSUME NEW j \in Jobs, BeginPrepare(j)
      PROVE  OnLedger' /\ OnOperation'
  <2>1. j \notin DOMAIN ledger /\ UNCHANGED <<ledger, net, effect>>
        /\ op' = Starting("prepare", j, "apply", 0, Indices(j), <<>>)
    BY <1>2 DEF BeginPrepare, environment
  <2>2. op'.pc = "prepare" /\ op'.job = j /\ op'.found = <<>>
    BY <2>1 DEF Starting
  <2>3. OnOperation'
    BY <2>1, <2>2, EmptyPlan
       DEF OnOperation, DraftsPending, StepsFit, Fits, PlanConsumed, DispatchKnown, Dispatching
  <2>4. QED
    BY <2>1, <2>3, LedgerUntouched
<1>3. ASSUME NEW i \in Turn("apply"), PrepareRead(i)
      PROVE  OnLedger' /\ OnOperation'
  <2>1. op.pc = "prepare" /\ IsOperation(op) /\ UNCHANGED <<ledger, net, effect>>
    BY <1>1, <1>3, InOperation DEF PrepareRead, environment
  <2>2. op' = Idle \/ \E a : a.status = "pending" /\ a.reconciled = FALSE /\ a.order = 0 /\
            op' = [op EXCEPT !.todo = @ \ {i}, !.found =
                     [k \in DOMAIN op.found \cup {i} |-> IF k # i THEN op.found[k] ELSE a]]
    <3>1. CASE op' = Idle
      BY <3>1
    <3>2. CASE op' # Idle
      <4> DEFINE r == ResourceOf(op.job, i)
                 body == remote[r].body
                 changed == {f \in Changes[op.job][i].fields : body[f] # op.job}
                 a == [status |-> "pending", prior |-> "pending",
                       touched |-> IF r \in Texts THEN Changes[op.job][i].fields ELSE changed,
                       before |-> body, version |-> remote[r].version,
                       order |-> 0, reconciled |-> FALSE]
      <4>1. op' = [op EXCEPT !.todo = @ \ {i}, !.found =
                     [k \in DOMAIN op.found \cup {i} |-> IF k # i THEN op.found[k] ELSE a]]
        BY <1>3, <3>2 DEF PrepareRead, GiveWay
      <4>2. a.status = "pending" /\ a.reconciled = FALSE /\ a.order = 0
        OBVIOUS
      <4> HIDE DEF a
      <4>3. QED
        BY <4>1, <4>2
    <3>3. QED
      BY <3>1, <3>2
  <2>3. CASE op' = Idle
    BY <2>1, <2>3, LedgerUntouched, IdleKnows
  <2>4. ASSUME NEW a, a.status = "pending", a.reconciled = FALSE, a.order = 0,
               op' = [op EXCEPT !.todo = @ \ {i}, !.found =
                     [k \in DOMAIN op.found \cup {i} |-> IF k # i THEN op.found[k] ELSE a]]
        PROVE  OnLedger' /\ OnOperation'
    <3> DEFINE F == [k \in DOMAIN op.found \cup {i} |-> IF k # i THEN op.found[k] ELSE a]
    <3>1. \A k \in DOMAIN F : F[k].status = "pending" /\ F[k].reconciled = FALSE
                            /\ F[k].order = 0
      BY <2>1, <2>4 DEF OnOperation, DraftsPending
    <3> HIDE DEF F
    <3>2. op' = [op EXCEPT !.todo = @ \ {i}, !.found = F]
      BY <2>4 DEF F
    <3>3. op'.pc = "prepare" /\ op'.job = op.job /\ op'.found = F
      BY <2>1, <3>2 DEF IsOperation
    <3>4. OnOperation'
      BY <2>1, <3>1, <3>3
         DEF OnOperation, DraftsPending, StepsFit, Fits, PlanConsumed, DispatchKnown, Dispatching
    <3>5. QED
      BY <2>1, <3>4, LedgerUntouched
  <2>5. QED
    BY <2>2, <2>3, <2>4
<1>4. ASSUME PrepareSave
      PROVE  OnLedger' /\ OnOperation'
  <2>0. PICK j \in Jobs : j = op.job
    BY <1>1, <1>4, InOperation DEF PrepareSave, IsOperation
  <2>1. op.pc = "prepare" /\ op.todo = {} /\ j \in Jobs /\ j \notin DOMAIN ledger
        /\ DOMAIN op.found = Indices(j) /\ UNCHANGED <<net, effect>> /\ op' = Idle
    BY <1>1, <1>4, <2>0, InOperation
       DEF PrepareSave, IsOperation, environment, GateOK, OnOperation, DraftsPending
  <2>2. /\ DOMAIN ledger' = DOMAIN ledger \cup {j}
        /\ ledger'[j].acts = op.found /\ ledger'[j].plan = NoPlan
        /\ \A k \in DOMAIN ledger : k # j => ledger'[k] = ledger[k]
    BY <1>4, <2>0 DEF PrepareSave, Commit
  <2>3. \A i \in Indices(j) : ledger'[j].acts[i].status = "pending"
    BY <2>0, <2>1, <2>2 DEF OnOperation, DraftsPending
  <2>4. \A i \in Indices(j) : effect[j][i] = "none" /\ NoRequest(j, i)
    BY <2>1 DEF OnLedger, Untouched, NoRequest, Typed, RequestsHeld
  <2>5. Untouched'
    BY <2>1, <2>2 DEF OnLedger, Untouched
  <2>6. Truthful'
    <3>1. StatusOf("none") = "pending"
      BY DEF StatusOf
    <3>2. \A i \in Indices(j) :
             ledger'[j].acts[i].status = StatusOf(effect'[j][i]) /\ NoRequest(j, i)'
      BY <2>1, <2>3, <2>4, <3>1 DEF NoRequest
    <3>3. ASSUME NEW k \in DOMAIN ledger, NEW i \in Indices(k), k # j,
                 ledger'[k].acts[i].status \notin Uncertain, ~ledger'[k].acts[i].reconciled
          PROVE  ledger'[k].acts[i].status = StatusOf(effect'[k][i]) /\ NoRequest(k, i)'
      <4>1. ledger'[k] = ledger[k]
        BY <2>2, <3>3
      <4>2. ledger[k].acts[i].status = StatusOf(effect[k][i]) /\ NoRequest(k, i)
        BY <3>3, <4>1 DEF OnLedger, Truthful, Certain, Decided
      <4>3. QED
        BY <2>1, <4>1, <4>2 DEF NoRequest
    <3>4. QED
      BY <2>1, <2>2, <3>2, <3>3 DEF Truthful, Certain, Decided
  <2>7. PlansFit'
    <3>1. NoPlan.items = <<>>
      BY DEF NoPlan
    <3>2. QED
      BY <2>1, <2>2, <3>1, EmptyPlan DEF OnLedger, PlansFit, Fits, Certain
  <2>8. QED
    BY <2>1, <2>5, <2>6, <2>7, IdleKnows DEF OnLedger
<1>5. QED
  BY <1>2, <1>3, <1>4

LEMMA PreviewKnows ==
  ASSUME Typed, OnLedger, OnOperation,
         \/ \E j \in Jobs : View(j) \/ \E dir \in Directions : BeginPreview(j, dir)
         \/ \E i \in Turn("apply") : PreviewRead(i)
         \/ PreviewSave
  PROVE  OnLedger' /\ OnOperation'
<1>1. LedgerOK /\ OperationOK /\ GateOK
  BY DEF Typed, TypeInv, TypeOK
<1>2. ASSUME NEW j \in Jobs, View(j)
      PROVE  OnLedger' /\ OnOperation'
  BY <1>2, LoadKeeps, IdleKnows DEF View, environment
<1>3. ASSUME NEW j \in Jobs, NEW dir \in Directions, BeginPreview(j, dir)
      PROVE  OnLedger' /\ OnOperation'
  <2>1. j \in DOMAIN ledger /\ Commit(j, Load(ledger[j])) /\ UNCHANGED <<net, effect>>
        /\ op' = Starting("preview", j, dir, 0, Indices(j), <<>>)
    BY <1>3 DEF BeginPreview, environment
  <2>2. op'.pc = "preview" /\ op'.found = <<>>
    BY <2>1 DEF Starting
  <2>3. OnOperation'
    BY <2>2, EmptyPlan DEF OnOperation, DraftsPending, StepsFit, Fits, PlanConsumed,
       DispatchKnown, Dispatching
  <2>4. QED
    BY <2>1, <2>3, LoadKeeps
<1>4. ASSUME NEW i \in Turn("apply"), PreviewRead(i)
      PROVE  OnLedger' /\ OnOperation'
  <2>1. op.pc = "preview" /\ IsOperation(op) /\ op.job \in DOMAIN ledger
        /\ UNCHANGED <<ledger, net, effect>>
    BY <1>1, <1>4, InOperation DEF PreviewRead, environment, GateOK
  <2>2. CASE op' = Idle
    BY <2>1, <2>2, LedgerUntouched, IdleKnows
  <2>3. CASE op' # Idle
    <3>1. /\ op'.pc = "preview" /\ op'.job = op.job /\ op'.dir = op.dir
          /\ DOMAIN op'.found \subseteq DOMAIN op.found \cup {i}
          /\ \A k \in DOMAIN op'.found :
                \/ k \in DOMAIN op.found /\ op'.found[k] = op.found[k]
                \/ k = i /\ Fits(op.job, i, op.dir, op'.found[i])
      <4> DEFINE a == ledger[op.job].acts[i]
                 snap == remote[ResourceOf(op.job, i)]
                 item == [version |-> snap.version,
                          observed |-> IF op.dir = "reconcile"
                                       THEN Observed(snap.body, op.job, a) ELSE a.status]
      <4>1. \/ op' = [op EXCEPT !.todo = @ \ {i}]
            \/ /\ Wanted(op.dir, a.status)
               /\ op' = [[op EXCEPT !.todo = @ \ {i}] EXCEPT !.found =
                           [k \in DOMAIN @ \cup {i} |-> IF k = i THEN item ELSE @[k]]]
        BY <1>4, <2>3 DEF PreviewRead, GiveWay
      <4>2. Wanted(op.dir, a.status) => Fits(op.job, i, op.dir, item)
        <5>1. Observed(snap.body, op.job, a) \notin Uncertain
          BY DEF Observed, Uncertain
        <5>2. op.dir = "reconcile" => item.observed = Observed(snap.body, op.job, a)
          OBVIOUS
        <5> HIDE DEF item
        <5>3. QED
          BY <5>1, <5>2 DEF Wanted, Fits, Certain, Uncertain
      <4> HIDE DEF item, a
      <4>3. CASE op' = [op EXCEPT !.todo = @ \ {i}]
        BY <2>1, <4>3 DEF IsOperation
      <4>4. ASSUME Wanted(op.dir, a.status),
                   op' = [[op EXCEPT !.todo = @ \ {i}] EXCEPT !.found =
                           [k \in DOMAIN @ \cup {i} |-> IF k = i THEN item ELSE @[k]]]
            PROVE  /\ op'.pc = "preview" /\ op'.job = op.job /\ op'.dir = op.dir
                   /\ DOMAIN op'.found \subseteq DOMAIN op.found \cup {i}
                   /\ \A k \in DOMAIN op'.found :
                         \/ k \in DOMAIN op.found /\ op'.found[k] = op.found[k]
                         \/ k = i /\ Fits(op.job, i, op.dir, op'.found[i])
        <5> DEFINE F == [k \in DOMAIN op.found \cup {i} |->
                            IF k = i THEN item ELSE op.found[k]]
        <5>1. op'.pc = "preview" /\ op'.job = op.job /\ op'.dir = op.dir /\ op'.found = F
          BY <2>1, <4>4 DEF IsOperation
        <5>2. QED
          BY <4>2, <4>4, <5>1
      <4>5. QED
        BY <4>1, <4>3, <4>4
    <3>3. OnOperation'
      BY <2>1, <3>1
         DEF OnOperation, DraftsPending, StepsFit, Fits, PlanConsumed, DispatchKnown,
             Dispatching, Certain
    <3>4. QED
      BY <2>1, <3>3, LedgerUntouched
  <2>4. QED
    BY <2>2, <2>3
<1>5. ASSUME PreviewSave
      PROVE  OnLedger' /\ OnOperation'
  <2>1. op.pc = "preview" /\ op' = Idle /\ UNCHANGED <<net, effect>>
        /\ op.job \in DOMAIN ledger /\ op.job \in Jobs /\ IsOperation(op)
    BY <1>1, <1>5, InOperation DEF PreviewSave, environment, GateOK, IsOperation
  <2>2. CASE UNCHANGED ledger
    BY <2>1, <2>2, LedgerUntouched, IdleKnows
  <2>3. CASE Commit(op.job, [ledger[op.job] EXCEPT
                !.plan = [token |-> tokens', dir |-> op.dir, items |-> op.found]])
    <3> DEFINE p == [token |-> tokens', dir |-> op.dir, items |-> op.found]
    <3>1. p.dir = op.dir /\ p.items = op.found
      OBVIOUS
    <3>2. Commit(op.job, [ledger[op.job] EXCEPT !.plan = p])
      BY <2>3
    <3> HIDE DEF p
    <3>3. ledger[op.job] = [acts |-> ledger[op.job].acts,
                            undoStarted |-> ledger[op.job].undoStarted,
                            attempts |-> ledger[op.job].attempts,
                            lastToken |-> ledger[op.job].lastToken,
                            plan |-> ledger[op.job].plan]
      BY <1>1, <2>1 DEF LedgerOK, IsReceipt
    <3>4. /\ DOMAIN ledger' = DOMAIN ledger
          /\ ledger'[op.job].acts = ledger[op.job].acts /\ ledger'[op.job].plan = p
          /\ \A k \in DOMAIN ledger : k # op.job => ledger'[k] = ledger[k]
      BY <2>1, <3>2, <3>3 DEF Commit
    <3>5. Untouched' /\ Truthful'
      BY <2>1, <3>4 DEF OnLedger, Untouched, Truthful, Certain, Decided, NoRequest
    <3>6. PlansFit'
      BY <2>1, <3>1, <3>4 DEF OnLedger, PlansFit, Fits, OnOperation, StepsFit, Certain
    <3>7. QED
      BY <2>1, <3>5, <3>6, IdleKnows DEF OnLedger
  <2>4. QED
    BY <1>5, <2>2, <2>3 DEF PreviewSave
<1>6. QED
  BY <1>2, <1>3, <1>4, <1>5

-----------------------------------------------------------------------------
(* Execute.                                                                  *)

LEMMA CheckKnows ==
  ASSUME Typed, OnLedger, OnOperation,
         \/ \E j \in Jobs : \E token \in 1 .. tokens : BeginExecute(j, token)
         \/ \E i \in Turn(op.dir) : Check(i)
         \/ Consume
  PROVE  OnLedger' /\ OnOperation'
<1>1. LedgerOK /\ OperationOK /\ GateOK
  BY DEF Typed, TypeInv, TypeOK
<1>2. ASSUME NEW j \in Jobs, NEW token \in 1 .. tokens, BeginExecute(j, token)
      PROVE  OnLedger' /\ OnOperation'
  <2>1. j \in DOMAIN ledger /\ UNCHANGED <<ledger, net, effect>>
        /\ op' = Starting("check", j, ledger[j].plan.dir, token,
                          DOMAIN ledger[j].plan.items, ledger[j].plan.items)
    BY <1>2 DEF BeginExecute, environment
  <2>2. op'.pc = "check" /\ op'.job = j /\ op'.dir = ledger[j].plan.dir
        /\ op'.found = ledger[j].plan.items
    BY <2>1 DEF Starting
  <2>3. OnOperation'
    BY <2>1, <2>2 DEF OnOperation, DraftsPending, StepsFit, Fits, PlanConsumed, DispatchKnown,
                      Dispatching, OnLedger, PlansFit, Certain
  <2>4. QED
    BY <2>1, <2>3, LedgerUntouched
<1>3. ASSUME NEW i \in Turn(op.dir), Check(i)
      PROVE  OnLedger' /\ OnOperation'
  <2>1. op.pc = "check" /\ IsOperation(op) /\ UNCHANGED <<ledger, net, effect>>
    BY <1>1, <1>3, InOperation DEF Check, environment
  <2>2. CASE op' = Idle
    BY <2>1, <2>2, LedgerUntouched, IdleKnows
  <2>3. CASE op' = [op EXCEPT !.todo = @ \ {i}]
    <3>1. op'.pc = "check" /\ op'.job = op.job /\ op'.dir = op.dir /\ op'.found = op.found
      BY <2>1, <2>3 DEF IsOperation
    <3>2. OnOperation'
      BY <2>1, <3>1 DEF OnOperation, DraftsPending, StepsFit, Fits, PlanConsumed,
                        DispatchKnown, Dispatching, Certain
    <3>3. QED
      BY <2>1, <3>2, LedgerUntouched
  <2>4. QED
    BY <1>3, <2>2, <2>3 DEF Check, GiveWay
<1>4. ASSUME Consume
      PROVE  OnLedger' /\ OnOperation'
  <2>1. op.pc = "check" /\ IsOperation(op) /\ op.job \in DOMAIN ledger
        /\ UNCHANGED <<net, effect>>
    BY <1>1, <1>4, InOperation DEF Consume, environment, GateOK
  <2>2. PICK old : old = ledger[op.job]
    OBVIOUS
  <2>3. PICK new : new = [old EXCEPT !.lastToken = op.token, !.plan = NoPlan,
                             !.attempts = @ + 1, !.undoStarted = @ \/ op.dir = "undo"]
    OBVIOUS
  <2>4. new.acts = old.acts /\ new.plan = NoPlan
    <3> DEFINE started == old.undoStarted \/ op.dir = "undo"
    <3>1. new = [old EXCEPT !.lastToken = op.token, !.plan = NoPlan,
                            !.attempts = @ + 1, !.undoStarted = started]
      BY Zenon, <2>3
    <3> HIDE DEF started
    <3>2. IsReceipt(old, op.job)
      BY <1>1, <2>1, <2>2 DEF LedgerOK
    <3>3. QED
      BY <3>1, <3>2 DEF IsReceipt
  <2>5. Commit(op.job, new) /\ op' = [op EXCEPT !.pc = "next", !.todo = DOMAIN op.found]
    BY Zenon, <1>4, <2>2, <2>3 DEF Consume
  <2>6. /\ DOMAIN ledger' = DOMAIN ledger
        /\ ledger'[op.job] = new
        /\ \A k \in DOMAIN ledger : k # op.job => ledger'[k] = ledger[k]
    BY <2>1, <2>5 DEF Commit
  <2>7. SameActs
    BY <2>1, <2>2, <2>4, <2>6 DEF SameActs
  <2>8. op'.pc = "next" /\ op'.job = op.job /\ op'.dir = op.dir /\ op'.todo = DOMAIN op.found
        /\ op'.found = op.found
    BY <2>1, <2>5 DEF IsOperation
  <2>9. OnOperation'
    BY <2>1, <2>2, <2>4, <2>6, <2>8
       DEF OnOperation, DraftsPending, StepsFit, Fits, PlanConsumed, DispatchKnown,
           Dispatching, Certain
  <2>10. QED
    BY <2>1, <2>7, <2>9, SameActsKeep
<1>5. QED
  BY <1>2, <1>3, <1>4

\* An action gets a new status: a certain one only if it is the executed one.
LEMMA ActionKeeps ==
  ASSUME Typed, OnLedger, NEW j \in DOMAIN ledger, NEW i \in Indices(j), NEW a \in Action,
         ledger[j].plan = NoPlan, SetAction(j, i, a), UNCHANGED <<net, effect>>,
         a.status \notin Uncertain /\ ~a.reconciled =>
             a.status = StatusOf(effect[j][i]) /\ NoRequest(j, i)
  PROVE  OnLedger'
<1>1. LedgerOK /\ SetAction(j, i, a)
  BY DEF Typed, TypeInv, TypeOK
<1>2. /\ DOMAIN ledger' = DOMAIN ledger
      /\ ledger'[j].acts[i] = a
      /\ \A m \in Indices(j) : m # i => ledger'[j].acts[m] = ledger[j].acts[m]
      /\ ledger'[j].plan = ledger[j].plan
      /\ \A k \in DOMAIN ledger : k # j => ledger'[k] = ledger[k]
  <2>1. DOMAIN ledger' = DOMAIN ledger
    BY <1>1, SetActionTyped
  <2>2. ledger'[j].acts[i] = a
    <3>1. ledger'[j].acts = [ledger[j].acts EXCEPT ![i] = a]
      BY <1>1, SetActionTyped
    <3>2. ledger[j].acts \in [Indices(j) -> Action]
      BY <1>1 DEF LedgerOK, IsReceipt
    <3>3. QED
      BY <3>1, <3>2
  <2>3. \A m \in Indices(j) : m # i => ledger'[j].acts[m] = ledger[j].acts[m]
    BY <1>1, SetActionTyped
  <2>4. ledger'[j].plan = ledger[j].plan
    BY <1>1, SetActionTyped
  <2>5. \A k \in DOMAIN ledger : k # j => ledger'[k] = ledger[k]
    BY <1>1, SetActionTyped
  <2>6. QED
    BY <2>1, <2>2, <2>3, <2>4, <2>5
<1>3. Untouched'
  BY <1>2 DEF OnLedger, Untouched
<1>4. Truthful'
  <2>1. ASSUME NEW k \in DOMAIN ledger, NEW m \in Indices(k),
               ledger'[k].acts[m].status \notin Uncertain, ~ledger'[k].acts[m].reconciled
        PROVE  ledger'[k].acts[m].status = StatusOf(effect[k][m]) /\ NoRequest(k, m)
    <3>1. CASE k = j /\ m = i
      BY <1>2, <2>1, <3>1
    <3>2. CASE ledger'[k].acts[m] = ledger[k].acts[m]
      BY <2>1, <3>2 DEF OnLedger, Truthful, Certain, Decided
    <3>3. QED
      BY <1>2, <3>1, <3>2
  <2>2. QED
    BY <1>2, <2>1 DEF Truthful, Certain, Decided, NoRequest
<1>5. PlansFit'
  <2>1. NoPlan.items = <<>>
    BY DEF NoPlan
  <2>2. QED
    BY <1>2, <2>1, EmptyPlan DEF OnLedger, PlansFit, Fits, Certain
<1>6. QED
  BY <1>3, <1>4, <1>5 DEF OnLedger

LEMMA StepKnows ==
  ASSUME Typed, OnLedger, OnOperation, \E i \in Turn(op.dir) : Reconcile(i) \/ Intend(i)
  PROVE  OnLedger' /\ OnOperation'
<1>1. LedgerOK /\ OperationOK /\ GateOK /\ RemoteOK /\ HistoryOK
  BY DEF Typed, TypeInv, TypeOK
<1>2. PICK i \in Turn(op.dir) : Reconcile(i) \/ Intend(i)
  OBVIOUS
<1>3. i \in op.todo /\ op.pc = "next" /\ UNCHANGED <<net, effect>>
  BY <1>2 DEF Turn, Reconcile, Intend, environment
<1>4. PICK j \in DOMAIN ledger : j = op.job
  BY <1>1, <1>3 DEF GateOK
<1>5. /\ IsOperation(op) /\ j \in Jobs /\ i \in Indices(j) /\ op.todo \subseteq Indices(j)
      /\ op.found[i] \in Item /\ ledger[j].acts[i] \in Action
  BY <1>3, <1>4, NextReady DEF Typed
<1>6. ledger[j].plan = NoPlan
  BY <1>3, <1>4 DEF OnOperation, PlanConsumed
<1> DEFINE a == ledger[j].acts[i]
<1>7. CASE Reconcile(i)
  <2> DEFINE v == remote[ResourceOf(j, i)].version
             b == [a EXCEPT !.status = op.found[i].observed, !.version = v,
                            !.reconciled = TRUE]
  <2>1. CASE op' = Idle /\ UNCHANGED ledger
    BY <1>3, <2>1, LedgerUntouched, IdleKnows
  <2>2. CASE SetAction(j, i, b) /\ op' = [op EXCEPT !.todo = @ \ {i}]
    <3>1. v \in Nat
      BY <1>1, <1>5, IndicesInAll DEF RemoteOK
    <3> HIDE DEF v
    <3>2. b \in Action /\ b.reconciled = TRUE
      BY <1>5, <3>1 DEF Action, Item
    <3> HIDE DEF b, a
    <3>3. OnLedger'
      BY <1>3, <1>5, <1>6, <2>2, <3>2, ActionKeeps
    <3>4. ledger'[j].plan = NoPlan
      BY <1>1, <1>5, <1>6, <2>2, <3>2, SetActionTyped
    <3>5. op'.pc = "next" /\ op'.job = j /\ op'.dir = "reconcile" /\ op.dir = "reconcile"
          /\ op'.todo = op.todo \ {i} /\ op'.found = op.found
      BY <1>3, <1>4, <1>5, <1>7, <2>2 DEF IsOperation, Reconcile
    <3>5a. \A m \in Indices(j) : m # i => ledger'[j].acts[m] = ledger[j].acts[m]
      BY <1>1, <1>5, <2>2, <3>2, SetActionTyped
    <3>5b. StepsFit'
      <4>1. \A m \in op.todo \ {i} : Fits(j, m, "reconcile", op.found[m])
        BY <1>3, <1>4, <3>5 DEF OnOperation, StepsFit
      <4>2. \A m \in op.todo \ {i} : Fits(j, m, "reconcile", op.found[m])'
        BY <1>5, <3>5, <3>5a, <4>1 DEF Fits, Certain
      <4>3. QED
        BY <3>5, <4>2 DEF StepsFit, Fits, Certain, Dispatching
    <3>6. OnOperation'
      BY <3>4, <3>5, <3>5b
         DEF OnOperation, DraftsPending, PlanConsumed, DispatchKnown, Dispatching
    <3>7. QED
      BY <3>3, <3>6
  <2>3. QED
    BY <1>4, <1>7, <2>1, <2>2 DEF Reconcile, GiveWay
<1>8. CASE Intend(i)
  <2> DEFINE n == IF a.status = "applied" THEN a.order ELSE orders'
             b == [a EXCEPT !.prior = a.status, !.status = "running", !.order = n]
  <2>1. orders' \in Nat
    BY <1>1, <1>8 DEF Intend, HistoryOK
  <2>2. op.dir # "reconcile" /\ SetAction(j, i, b)
        /\ op' = [op EXCEPT !.pc = "send", !.at = i, !.todo = @ \ {i}]
    BY <1>4, <1>8 DEF Intend
  <2>3. n \in Nat
    BY <1>5, <2>1 DEF Action
  <2> HIDE DEF n
  <2>4. /\ b \in Action /\ b.status = "running" /\ b.prior = a.status
        /\ b.reconciled = a.reconciled
    BY <1>5, <2>3 DEF Action, Statuses, Uncertain
  <2> HIDE DEF b
  <2>5. OnLedger'
    BY <1>3, <1>5, <1>6, <2>2, <2>4, ActionKeeps DEF Uncertain
  <2>6. /\ ledger'[j].acts[i] = b /\ ledger'[j].plan = ledger[j].plan
        /\ \A m \in Indices(j) : m # i => ledger'[j].acts[m] = ledger[j].acts[m]
    BY ZenonT(30), <1>1, <1>5, <2>2, <2>4, SetActionTyped
  <2>7. /\ op'.pc = "send" /\ op'.job = j /\ op'.dir = op.dir /\ op'.at = i
        /\ op'.todo = op.todo \ {i}
    BY <1>4, <1>5, <2>2 DEF IsOperation
  <2>8. a.status \notin Uncertain
    BY <1>3, <1>4, <2>2 DEF OnOperation, StepsFit, Fits, Certain
  <2>9. ~a.reconciled => a.status = StatusOf(effect[j][i]) /\ NoRequest(j, i)
    BY <1>5, <2>8 DEF OnLedger, Truthful, Certain, Decided
  <2>10. DispatchKnown'
    BY <1>3, <2>4, <2>6, <2>7, <2>9 DEF DispatchKnown, Before, Decided, NoRequest
  <2>11. StepsFit'
    BY <1>3, <1>4, <1>5, <2>2, <2>6, <2>7 DEF OnOperation, StepsFit, Fits, Certain, Dispatching
  <2>12. QED
    BY <1>6, <2>5, <2>6, <2>7, <2>10, <2>11 DEF OnOperation, DraftsPending, PlanConsumed
<1>9. QED
  BY <1>2, <1>7, <1>8

LEMMA DispatchKnows ==
  ASSUME Typed, OnLedger, OnOperation,
         PermissionLost \/ ReadBack \/ RecordFailure
  PROVE  OnLedger' /\ OnOperation'
<1>1. LedgerOK /\ OperationOK /\ GateOK /\ RemoteOK
  BY DEF Typed, TypeInv, TypeOK
<1>2. op.pc \in {"send", "ok", "refused", "lost"} /\ op.pc \in Dispatching
      /\ UNCHANGED <<net, effect>>
  BY DEF PermissionLost, ReadBack, RecordFailure, environment, Dispatching
<1>3. PICK j \in DOMAIN ledger : j = op.job
  BY <1>2, Dispatched DEF Typed
<1>4. PICK i \in Indices(j) : i = op.at
  BY <1>2, <1>3, Dispatched DEF Typed
<1> DEFINE a == ledger[j].acts[i]
<1>5. IsOperation(op) /\ j \in Jobs /\ a \in Action /\ op.dir \in {"apply", "undo"}
  BY <1>1, <1>2, <1>3, <1>4, Dispatched DEF Typed, IsOperation, Directions, GateOK
<1>6. ledger[j].plan = NoPlan
  BY <1>2, <1>3 DEF OnOperation, PlanConsumed
<1>7. ~a.reconciled => /\ op.pc \in {"send", "refused"} =>
                             a.prior = StatusOf(effect[j][i]) /\ NoRequest(j, i)
                       /\ op.pc = "ok" => effect[j][i] = op.dir /\ NoRequest(j, i)
  BY <1>2, <1>3, <1>4 DEF OnOperation, DispatchKnown, Decided, Before
<1>8. \A s \in Statuses : /\ [a EXCEPT !.status = s] \in Action
                          /\ [a EXCEPT !.status = s].status = s
                          /\ [a EXCEPT !.status = s].reconciled = a.reconciled
  BY <1>5, StatusTyped
<1>9. a.prior \in Statuses /\ {"needs_review", "applied", "undone"} \subseteq Statuses
      /\ "needs_review" \in Uncertain /\ {"applied", "undone"} \cap Uncertain = {}
  BY <1>5 DEF Action, Statuses, Uncertain
<1>10. ASSUME NEW s \in Statuses, SetAction(j, i, [a EXCEPT !.status = s]), op' = Idle,
              s \notin Uncertain /\ ~a.reconciled
                  => s = StatusOf(effect[j][i]) /\ NoRequest(j, i)
       PROVE  OnLedger' /\ OnOperation'
  <2>1. PICK b \in Action : /\ SetAction(j, i, b) /\ b.status = s
                            /\ b.reconciled = a.reconciled
    BY <1>8, <1>10
  <2>2. OnLedger'
    BY <1>2, <1>6, <1>10, <2>1, ActionKeeps
  <2>3. QED
    BY <1>10, <2>2, IdleKnows
<1>11. CASE PermissionLost
  <2>1. SetAction(j, i, [a EXCEPT !.status = a.prior]) /\ op' = Idle /\ op.pc = "send"
    BY <1>3, <1>4, <1>11 DEF PermissionLost
  <2>2. QED
    BY <1>7, <1>9, <1>10, <2>1
<1>12. CASE RecordFailure
  <2> DEFINE s == IF op.pc = "refused" THEN a.prior ELSE "needs_review"
  <2>1. SetAction(j, i, [a EXCEPT !.status = s]) /\ op' = Idle
    BY <1>3, <1>4, <1>12 DEF RecordFailure
  <2>2. s \in Statuses /\ (s \notin Uncertain /\ ~a.reconciled
                              => s = StatusOf(effect[j][i]) /\ NoRequest(j, i))
    BY <1>7, <1>9
  <2> HIDE DEF s
  <2>3. QED
    BY <1>10, <2>1, <2>2
<1>13. CASE ReadBack
  <2> DEFINE snap == remote[ResourceOf(j, i)]
             s == IF op.dir = "apply" THEN "applied" ELSE "undone"
             b == [a EXCEPT !.version = snap.version, !.status = s]
  <2>1. op.pc = "ok"
    BY <1>13 DEF ReadBack
  <2>2. CASE SetAction(j, i, [a EXCEPT !.status = "needs_review"]) /\ op' = Idle
    BY <1>9, <1>10, <2>2
  <2>3. CASE SetAction(j, i, b) /\ op' = [op EXCEPT !.pc = "next"]
    <3>1. snap.version \in Nat
      BY <1>1, <1>5, IndicesInAll DEF RemoteOK
    <3>2. s \in Statuses /\ s \notin Uncertain
      BY <1>9
    <3>3. ~a.reconciled => s = StatusOf(effect[j][i]) /\ NoRequest(j, i)
      <4>1. StatusOf("apply") = "applied" /\ StatusOf("undo") = "undone"
        BY DEF StatusOf
      <4>2. QED
        BY <1>5, <1>7, <2>1, <4>1
    <3> HIDE DEF snap, s
    <3>4. b \in Action /\ b.status = s /\ b.reconciled = a.reconciled
      BY <1>5, <3>1, <3>2 DEF Action
    <3> HIDE DEF b
    <3>5. OnLedger'
      BY <1>2, <1>6, <2>3, <3>3, <3>4, ActionKeeps
    <3>6. /\ ledger'[j].acts = [ledger[j].acts EXCEPT ![i] = b]
          /\ ledger'[j].plan = ledger[j].plan
      BY <1>1, <2>3, <3>4, SetActionTyped
    <3>7. \A m \in Indices(j) : ledger'[j].acts[m] = IF m = i THEN b ELSE ledger[j].acts[m]
      BY <1>1, <3>6 DEF LedgerOK, IsReceipt
    <3>8. op'.pc = "next" /\ op'.job = j /\ op'.dir = op.dir /\ op'.todo = op.todo
          /\ op'.found = op.found /\ op.todo \subseteq Indices(j)
      BY <1>3, <1>5, <2>3 DEF IsOperation
    <3>8a. op.dir # "reconcile"
      BY <1>5
    <3>8b. StepsFit'
      <4>1. \A m \in op.todo : Certain(j, m)
        BY <1>2, <1>3, <3>8a DEF OnOperation, StepsFit, Fits
      <4>2. \A m \in op.todo : ledger'[j].acts[m].status \notin Uncertain
        BY <3>2, <3>4, <3>7, <3>8, <4>1 DEF Certain
      <4>3. QED
        BY <3>8, <3>8a, <4>2 DEF StepsFit, Fits, Certain, Dispatching
    <3>9. OnOperation'
      BY <1>6, <3>6, <3>8, <3>8b
         DEF OnOperation, DraftsPending, PlanConsumed, DispatchKnown, Dispatching
    <3>10. QED
      BY <3>5, <3>9
  <2>4. QED
    BY <1>3, <1>4, <1>13, <2>2, <2>3 DEF ReadBack
<1>14. QED
  BY <1>11, <1>12, <1>13

LEMMA SendKnows ==
  ASSUME Typed, OnLedger, OnOperation, Send
  PROVE  OnLedger' /\ OnOperation'
<1>1. /\ op.pc = "send" /\ op' = [op EXCEPT !.pc = "wait"]
      /\ net' = net \cup {Own} /\ UNCHANGED <<ledger, effect>>
  BY DEF Send, Own
<1>2. op.pc \in Dispatching
  BY <1>1 DEF Dispatching
<1>3. PICK j \in DOMAIN ledger : j = op.job
  BY <1>2, Dispatched DEF Typed
<1>4. PICK i \in Indices(j) : i = op.at
  BY <1>2, <1>3, Dispatched DEF Typed
<1>5. IsOperation(op)
  BY <1>2, Dispatched DEF Typed
<1>6. /\ op'.pc = "wait" /\ op'.job = j /\ op'.dir = op.dir /\ op'.token = op.token
      /\ op'.todo = op.todo /\ op'.at = i /\ op'.found = op.found
  BY <1>1, <1>3, <1>4, <1>5 DEF IsOperation
<1>7. Own' = Own /\ Own.job = j /\ Own.index = i
  BY <1>3, <1>4, <1>6 DEF Own
<1>8. ledger[j].acts[i].status \in Uncertain
  BY <1>2, <1>3, <1>4 DEF OnOperation, DispatchKnown, Uncertain
<1>9. OnLedger'
  BY <1>1, <1>7, <1>8 DEF OnLedger, Untouched, PlansFit, Fits, Truthful, Certain, Decided, NoRequest
<1>10. DispatchKnown'
  BY <1>1, <1>2, <1>3, <1>4, <1>6, <1>7
     DEF OnOperation, DispatchKnown, Before, NoRequest, Decided
<1>11. QED
  BY <1>1, <1>2, <1>3, <1>6, <1>9, <1>10
     DEF OnOperation, DraftsPending, StepsFit, Fits, PlanConsumed, Dispatching, Certain

LEMMA TimeOutKnows ==
  ASSUME Typed, OnLedger, OnOperation, TimeOut
  PROVE  OnLedger' /\ OnOperation'
<1>1. op.pc = "wait" /\ op' = [op EXCEPT !.pc = "lost"] /\ UNCHANGED <<ledger, net, effect>>
  BY DEF TimeOut, environment
<1>2. op.pc \in Dispatching
  BY <1>1 DEF Dispatching
<1>3. IsOperation(op)
  BY <1>2, Dispatched DEF Typed
<1>4. /\ op'.pc = "lost" /\ op'.job = op.job /\ op'.dir = op.dir
      /\ op'.todo = op.todo /\ op'.at = op.at
  BY <1>1, <1>3 DEF IsOperation
<1>5. OnOperation'
  BY <1>1, <1>2, <1>4 DEF OnOperation, DraftsPending, StepsFit, Fits, PlanConsumed,
                          DispatchKnown, Dispatching, Certain
<1>6. QED
  BY <1>1, <1>5, LedgerUntouched

-----------------------------------------------------------------------------
(* The servers.                                                              *)

LEMMA ServerKnows ==
  ASSUME Typed, OnLedger, OnOperation, NEW q \in net, ServerWrites(q) \/ ServerRefuses(q)
  PROVE  OnLedger' /\ OnOperation'
<1>1. RequestsOK /\ HistoryOK
  BY DEF Typed, TypeInv, TypeOK
<1>2. PICK j \in Jobs : j = q.job
  BY <1>1 DEF RequestsOK, Request
<1>3. PICK i \in Indices(j) : i = q.index
  BY <1>1, <1>2 DEF RequestsOK
<1>4. j \in DOMAIN ledger
  BY <1>2 DEF Typed, RequestsHeld
<1>5. UNCHANGED ledger /\ net' = net \ {q}
  BY DEF ServerWrites, ServerRefuses
<1>6. /\ \A k \in Jobs : \A m \in Indices(k) :
            k # j \/ m # i => effect'[k][m] = effect[k][m]
      /\ ServerWrites(q) => effect'[j][i] = q.dir
      /\ ServerRefuses(q) => effect' = effect
  <2>1. CASE ServerRefuses(q)
    <3>1. effect' = effect
      BY <2>1 DEF ServerRefuses
    <3>2. CASE ServerWrites(q)
      BY <1>1, <1>2, <1>3, <3>1, <3>2 DEF ServerWrites, HistoryOK
    <3>3. CASE ~ServerWrites(q)
      BY <3>1, <3>3
    <3>4. QED
      BY <3>2, <3>3
  <2>2. CASE ~ServerRefuses(q)
    <3>1. effect' = [effect EXCEPT ![j][i] = q.dir]
      BY <1>2, <1>3, <2>2 DEF ServerWrites
    <3>2. QED
      BY <1>1, <2>2, <3>1 DEF HistoryOK
  <2>3. QED
    BY <2>1, <2>2
<1>7. OnLedger'
  <2>1. Untouched'
    BY <1>4, <1>5, <1>6 DEF OnLedger, Untouched
  <2>2. PlansFit'
    BY <1>5 DEF OnLedger, PlansFit, Fits, Certain
  <2>3. Truthful'
    <3>1. ASSUME NEW k \in DOMAIN ledger, NEW m \in Indices(k), Certain(k, m), ~Decided(k, m)
          PROVE  ledger[k].acts[m].status = StatusOf(effect'[k][m]) /\ NoRequest(k, m)'
      <4>1. ledger[k].acts[m].status = StatusOf(effect[k][m]) /\ NoRequest(k, m)
        BY <3>1 DEF OnLedger, Truthful
      <4>2. k \in Jobs /\ (k # j \/ m # i)
        BY <1>2, <1>3, <4>1 DEF NoRequest, Typed, TypeInv, TypeOK, LedgerOK
      <4>3. effect'[k][m] = effect[k][m]
        BY <1>6, <4>2
      <4>4. QED
        BY <1>5, <4>1, <4>3 DEF NoRequest
    <3>2. QED
      BY <1>5, <3>1 DEF Truthful, Certain, Decided
  <2>4. QED
    BY <2>1, <2>2, <2>3 DEF OnLedger
<1>8. /\ op' = op \/ \E pc \in {"ok", "refused", "lost"} :
             /\ op.pc = "wait" /\ op.job = j /\ op.at = i
             /\ op' = [op EXCEPT !.pc = pc]
             /\ pc = "ok" => ServerWrites(q)
             /\ pc = "refused" => ServerRefuses(q)
      /\ op.pc = "wait" /\ q = Own => op' # op
  <2>1. \E pc \in {"ok", "refused"} :
           Answer(q, pc) /\ (pc = "ok" => ServerWrites(q)) /\ (pc = "refused" => ServerRefuses(q))
    BY DEF ServerWrites, ServerRefuses
  <2>2. q = Own => op.token = q.token /\ op.job = q.job /\ op.at = q.index
    BY DEF Own
  <2>3. op.pc = "wait" => IsOperation(op)
    BY Dispatched DEF Typed, Dispatching
  <2>4. op.pc = "wait" => \A pc : [op EXCEPT !.pc = pc].pc = pc
    BY <2>3 DEF IsOperation
  <2>5. \A pc \in {"ok", "refused", "lost"} : op.pc = "wait" => [op EXCEPT !.pc = pc] # op
    BY <2>4
  <2>6. QED
    BY <1>2, <1>3, <2>1, <2>2, <2>5 DEF Answer
<1>9. OnOperation'
  <2>1. CASE op' = op
    <3>1. DraftsPending' /\ StepsFit' /\ PlanConsumed'
      BY <1>5, <2>1 DEF OnOperation, DraftsPending, StepsFit, Fits, PlanConsumed, Certain,
         Dispatching
    <3>2. ASSUME op.pc \in Dispatching
          PROVE  DispatchKnown'
      <4>1. PICK k \in DOMAIN ledger : k = op.job
        BY <3>2, Dispatched DEF Typed
      <4>2. PICK m \in Indices(k) : m = op.at
        BY <3>2, <4>1, Dispatched DEF Typed
      <4>3. k \in Jobs
        BY DEF Typed, TypeInv, TypeOK, LedgerOK
      <4>4. Own' = Own
        BY <2>1 DEF Own
      <4>5. CASE k # j \/ m # i
        <5>1. effect'[k][m] = effect[k][m]
          BY <1>6, <4>3, <4>5
        <5>2. QED
          BY <1>5, <2>1, <4>1, <4>2, <4>4, <5>1
             DEF OnOperation, DispatchKnown, Before, NoRequest, Decided
      <4>6. CASE k = j /\ m = i /\ Decided(k, m)
        BY <1>5, <2>1, <4>1, <4>2, <4>6 DEF OnOperation, DispatchKnown, Decided
      <4>7. CASE k = j /\ m = i /\ ~Decided(k, m)
        <5>1. q.job = op.job /\ q.index = op.at /\ ~Decided(op.job, op.at)
          BY <1>2, <1>3, <4>1, <4>2, <4>7
        <5>2. op.pc \notin {"send", "refused", "ok"}
          BY <3>2, <5>1 DEF OnOperation, DispatchKnown, NoRequest
        <5>3. op.pc # "wait"
          BY <1>8, <2>1, <3>2, <5>1 DEF OnOperation, DispatchKnown
        <5>4. op'.pc = op.pc
          BY <2>1
        <5>5. (ledger[op.job].acts[op.at].status = "running")'
          BY <1>5, <2>1, <3>2 DEF OnOperation, DispatchKnown
        <5>6. QED
          BY <5>2, <5>3, <5>4, <5>5 DEF DispatchKnown
      <4>8. QED
        BY <4>5, <4>6, <4>7
    <3>3. ASSUME op.pc \notin Dispatching
          PROVE  DispatchKnown'
      BY <2>1, <3>3 DEF DispatchKnown, Dispatching
    <3>4. QED
      BY <3>1, <3>2, <3>3 DEF OnOperation
  <2>2. CASE op' # op
    <3>1. PICK pc \in {"ok", "refused", "lost"} :
             /\ op.pc = "wait" /\ op.job = j /\ op.at = i
             /\ op' = [op EXCEPT !.pc = pc]
             /\ pc = "ok" => ServerWrites(q)
             /\ pc = "refused" => ServerRefuses(q)
      BY <1>8, <2>2
    <3>2. IsOperation(op) /\ op.pc \in Dispatching
      BY <3>1, Dispatched DEF Typed, Dispatching
    <3>3. op'.pc = pc /\ op'.job = j /\ op'.at = i /\ op'.dir = op.dir /\ op'.todo = op.todo
      BY <3>1, <3>2 DEF IsOperation
    <3>4. DraftsPending' /\ StepsFit' /\ PlanConsumed'
      BY <1>5, <3>1, <3>2, <3>3
         DEF OnOperation, DraftsPending, StepsFit, Fits, PlanConsumed, Certain, Dispatching
    <3>5. ledger[j].acts[i].status = "running"
      BY <3>1, <3>2 DEF OnOperation, DispatchKnown
    <3>6. ASSUME ~Decided(j, i)
          PROVE  /\ ledger[j].acts[i].prior = StatusOf(effect[j][i])
                 /\ q = Own /\ \A p \in net : p.job = j /\ p.index = i => p = q
      BY <1>2, <1>3, <3>1, <3>2, <3>6 DEF OnOperation, DispatchKnown, Before
    <3>7. q = Own => q.dir = op.dir
      BY DEF Own
    <3>8. ~Decided(j, i) => NoRequest(j, i)'
      BY <1>5, <3>6 DEF NoRequest
    <3>9. QED
      BY <1>5, <1>6, <3>1, <3>3, <3>4, <3>5, <3>6, <3>7, <3>8
         DEF OnOperation, DispatchKnown, Before, Decided, NoRequest
  <2>3. QED
    BY <2>1, <2>2
<1>10. QED
  BY <1>7, <1>9

-----------------------------------------------------------------------------
LEMMA EndKnows ==
  ASSUME Typed, OnLedger, OnOperation, Finish \/ Abandon
  PROVE  OnLedger' /\ OnOperation'
<1>1. UNCHANGED <<ledger, net, effect>> /\ op' = Idle
  BY DEF Finish, Abandon, GiveWay, environment
<1>2. QED
  BY <1>1, LedgerUntouched, IdleKnows

LEMMA NothingMoves ==
  ASSUME Typed, OnLedger, OnOperation, UNCHANGED <<ledger, op, net, effect>>
  PROVE  OnLedger' /\ OnOperation'
<1>1. Own' = Own
  BY DEF Own
<1>2. OnOperation'
  BY <1>1 DEF OnOperation, DraftsPending, StepsFit, Fits, PlanConsumed, DispatchKnown,
              Before, NoRequest, Certain, Decided, Dispatching
<1>3. QED
  BY <1>2, LedgerUntouched

LEMMA NextKnows ==
  ASSUME Typed, OnLedger, OnOperation, [Next]_vars
  PROVE  OnLedger' /\ OnOperation'
<1>1. CASE Begin
  BY <1>1, PrepareKnows, PreviewKnows, CheckKnows DEF Begin
<1>2. CASE OpStep
  BY <1>2, PrepareKnows, PreviewKnows, CheckKnows, StepKnows, DispatchKnows, SendKnows,
     TimeOutKnows, EndKnows DEF OpStep
<1>3. CASE Environment
  <2>1. ASSUME NEW r \in Resources, NEW f \in Fields, NEW v \in Values, OutsideEdit(r, f, v)
        PROVE  OnLedger' /\ OnOperation'
    BY <2>1, NothingMoves DEF OutsideEdit
  <2>2. QED
    BY <1>3, <2>1, ServerKnows, RestartKeeps DEF Environment
<1>4. CASE UNCHANGED vars
  BY <1>4, NothingMoves DEF vars
<1>5. QED
  BY <1>1, <1>2, <1>3, <1>4 DEF Next

LEMMA InitKnows == Init => OnLedger /\ OnOperation
<1> SUFFICES ASSUME Init PROVE OnLedger /\ OnOperation
  OBVIOUS
<1>1. DOMAIN ledger = {} /\ op.pc = "idle"
  BY EmptyPlan, IdlePC DEF Init
<1>2. \A j \in Jobs : \A i \in Indices(j) : effect[j][i] = "none"
  BY DEF Init
<1>3. OnLedger
  BY <1>1, <1>2 DEF OnLedger, Untouched, PlansFit, Fits, Truthful
<1>4. OnOperation
  <2>1. op.dir = "apply" /\ op.found = <<>>
    BY DEF Init, Idle, Starting
  <2>2. QED
    BY <1>1, <2>1 DEF OnOperation, DraftsPending, StepsFit, Fits, PlanConsumed, DispatchKnown,
       Dispatching
<1>5. QED
  BY <1>3, <1>4

\* A receipt that is neither in doubt nor decided by an operator says exactly
\* what the server executed last, for every set of jobs, resources and changes,
\* whatever crashes, late requests and lost answers come in between (Execute in
\* internal/safeundo/service.go).
THEOREM ReceiptsTellTheTruth == Spec => []ReceiptTruth
<1>1. Init => Typed /\ OnLedger /\ OnOperation
  BY InitTyped, InitKnows DEF Typed
<1>2. Typed /\ OnLedger /\ OnOperation /\ [Next]_vars => (Typed /\ OnLedger /\ OnOperation)'
  <2>1. Typed /\ [Next]_vars => Typed'
    BY StepsTyped, RequestsStayHeld DEF Typed
  <2>2. QED
    BY <2>1, NextKnows
<1>3. Typed /\ OnLedger /\ OnOperation => ReceiptTruth
  BY TruthfulIsTruth
<1>4. QED
  BY <1>1, <1>2, <1>3, PTL DEF Spec
-----------------------------------------------------------------------------
(* The refinement of Receipt.  What it says of a change is a view of one      *)
(* change at a time, so a step is described by what it does to that view.     *)

ClaimOf(j, i) ==
    IF j \notin DOMAIN ledger THEN "pending"
    ELSE IF ledger[j].acts[i].status \in Uncertain THEN "doubt" ELSE ledger[j].acts[i].status

PersonalOf(j, i) == j \in DOMAIN ledger /\ Decided(j, i)

Actual == [c \in Changed |-> StatusOf(effect[c[1]][c[2]])]
Claims == [c \in Changed |-> ClaimOf(c[1], c[2])]
Personal == [c \in Changed |-> PersonalOf(c[1], c[2])]

SameView(j, i) ==
    /\ ClaimOf(j, i)' = ClaimOf(j, i)
    /\ PersonalOf(j, i)' = PersonalOf(j, i)
    /\ effect'[j][i] = effect[j][i]

LEMMA Views ==
  \A c \in Changed :
        /\ RefinedReceipt!Announce(c) <=>
              /\ Claims[c] # "doubt" /\ Claims' = [Claims EXCEPT ![c] = "doubt"]
              /\ UNCHANGED <<Actual, Personal>>
        /\ RefinedReceipt!Happen(c) <=>
              /\ Claims[c] = "doubt" \/ Personal[c]
              /\ \E s \in {"applied", "undone"} : Actual' = [Actual EXCEPT ![c] = s]
              /\ UNCHANGED <<Claims, Personal>>
        /\ RefinedReceipt!Settle(c) <=>
              /\ Claims[c] = "doubt"
              /\ \E s \in RefinedReceipt!States :
                    (s = Actual[c] \/ Personal[c]) /\ Claims' = [Claims EXCEPT ![c] = s]
              /\ UNCHANGED <<Actual, Personal>>
        /\ RefinedReceipt!Decide(c) <=>
              /\ Claims[c] = "doubt"
              /\ \E s \in RefinedReceipt!States : Claims' = [Claims EXCEPT ![c] = s]
              /\ Personal' = [Personal EXCEPT ![c] = TRUE]
              /\ UNCHANGED Actual
  BY DEF RefinedReceipt!Announce, RefinedReceipt!Happen,
         RefinedReceipt!Settle, RefinedReceipt!Decide,
         Actual, Claims, Personal, ClaimOf, PersonalOf, Decided

LEMMA ViewStays ==
  ASSUME \A j \in Jobs : \A i \in Indices(j) : SameView(j, i)
  PROVE  UNCHANGED RefinedReceipt!vars
<1>1. \A c \in Changed : c[1] \in Jobs /\ c[2] \in Indices(c[1])
  BY DEF Changed
<1>2. Actual' = Actual /\ Claims' = Claims /\ Personal' = Personal
  BY <1>1 DEF SameView, Actual, Claims, Personal
<1>3. QED
  BY <1>2 DEF RefinedReceipt!vars, Actual, Claims, Personal, ClaimOf, PersonalOf, Decided

LEMMA ViewMoves ==
  ASSUME NEW j \in Jobs, NEW i \in Indices(j),
         \A k \in Jobs : \A m \in Indices(k) : k # j \/ m # i => SameView(k, m)
  PROVE  LET c == <<j, i>> IN
         /\ c \in Changed
         /\ Claims[c] = ClaimOf(j, i) /\ Personal[c] = PersonalOf(j, i)
         /\ Actual[c] = StatusOf(effect[j][i])
         /\ Claims' = [Claims EXCEPT ![c] = ClaimOf(j, i)']
         /\ Personal' = [Personal EXCEPT ![c] = PersonalOf(j, i)']
         /\ Actual' = [Actual EXCEPT ![c] = StatusOf(effect'[j][i])]
<1> DEFINE c == <<j, i>>
<1>1. c \in Changed /\ c[1] = j /\ c[2] = i
  BY IndicesInAll DEF Changed
<1>2. \A d \in Changed : d # c => SameView(d[1], d[2])
  BY DEF Changed
<1>3. QED
  BY <1>1, <1>2 DEF SameView, Actual, Claims, Personal

\* The steps that change no receipt as it is read: a plan, a token, an interrupted
\* intent that is now known to need review.
SameClaims ==
    /\ DOMAIN ledger' = DOMAIN ledger
    /\ \A j \in DOMAIN ledger : \A i \in Indices(j) :
          /\ ledger'[j].acts[i].reconciled = ledger[j].acts[i].reconciled
          /\ \/ ledger'[j].acts[i].status = ledger[j].acts[i].status
             \/ /\ ledger[j].acts[i].status = "running"
                /\ ledger'[j].acts[i].status = "needs_review"

LEMMA ClaimsStay ==
  ASSUME SameClaims, UNCHANGED effect
  PROVE  UNCHANGED RefinedReceipt!vars
<1>1. {"running", "needs_review"} = Uncertain
  BY DEF Uncertain
<1>2. \A j \in Jobs : \A i \in Indices(j) : SameView(j, i)
  BY <1>1 DEF SameClaims, SameView, ClaimOf, PersonalOf, Decided
<1>3. QED
  BY <1>2, ViewStays

LEMMA LoadedClaims ==
  ASSUME Typed, NEW j \in DOMAIN ledger, Commit(j, Load(ledger[j]))
  PROVE  SameClaims
<1>1. /\ DOMAIN ledger' = DOMAIN ledger /\ ledger'[j] = Load(ledger[j])
      /\ \A k \in DOMAIN ledger : k # j => ledger'[k] = ledger[k]
  BY DEF Commit
<1>2. QED
  BY <1>1, LoadedSame DEF SameClaims

LEMMA RestartedClaims ==
  ASSUME Typed, Restart
  PROVE  SameClaims
<1>1. /\ DOMAIN ledger' = DOMAIN ledger
      /\ \A j \in DOMAIN ledger : ledger'[j] = Load(ledger[j])
  BY DEF Restart
<1>2. QED
  BY <1>1, LoadedSame DEF SameClaims

SameActions ==
    DOMAIN ledger' = DOMAIN ledger /\ \A k \in DOMAIN ledger : ledger'[k].acts = ledger[k].acts

LEMMA PlannedActions ==
  ASSUME Typed, PreviewSave
  PROVE  SameActions
<1>1. op.pc = "preview" /\ op.job \in DOMAIN ledger /\ IsReceipt(ledger[op.job], op.job)
  BY DEF PreviewSave, Typed, TypeInv, TypeOK, GateOK, LedgerOK
<1>2. CASE UNCHANGED ledger
  BY <1>2 DEF SameActions
<1>3. CASE ~UNCHANGED ledger
  <2> DEFINE p == [token |-> tokens', dir |-> op.dir, items |-> op.found]
  <2>1. Commit(op.job, [ledger[op.job] EXCEPT !.plan = p])
    BY <1>3 DEF PreviewSave
  <2> HIDE DEF p
  <2>2. [ledger[op.job] EXCEPT !.plan = p].acts = ledger[op.job].acts
    BY <1>1 DEF IsReceipt
  <2>3. QED
    BY <1>1, <2>1, <2>2 DEF Commit, SameActions
<1>4. QED
  BY <1>2, <1>3

LEMMA ConsumedActions ==
  ASSUME Typed, Consume
  PROVE  SameActions
<1>1. op.pc = "check" /\ op.job \in DOMAIN ledger /\ IsReceipt(ledger[op.job], op.job)
  BY DEF Consume, Typed, TypeInv, TypeOK, GateOK, LedgerOK
<1> DEFINE old == ledger[op.job]
           started == old.undoStarted \/ op.dir = "undo"
           new == [old EXCEPT !.lastToken = op.token, !.plan = NoPlan,
                              !.attempts = @ + 1, !.undoStarted = started]
<1>2. Commit(op.job, new)
  BY Zenon DEF Consume
<1> HIDE DEF started
<1>3. new.acts = old.acts
  BY <1>1 DEF IsReceipt
<1> HIDE DEF new
<1>4. QED
  BY <1>1, <1>2, <1>3 DEF Commit, SameActions

\* A job enters the ledger with every change pending, as it was before.
LEMMA PrepareRefines ==
  ASSUME Typed, OnOperation, PrepareSave
  PROVE  UNCHANGED RefinedReceipt!vars
<1>1. LedgerOK /\ OperationOK /\ GateOK
  BY DEF Typed, TypeInv, TypeOK
<1>2. PICK j \in Jobs : j = op.job
  BY <1>1, InOperation DEF PrepareSave, IsOperation
<1>3. j \notin DOMAIN ledger /\ DOMAIN op.found = Indices(j) /\ UNCHANGED effect
  BY <1>1, <1>2 DEF PrepareSave, environment, GateOK, OnOperation, DraftsPending
<1>4. /\ DOMAIN ledger' = DOMAIN ledger \cup {j} /\ ledger'[j].acts = op.found
      /\ \A k \in DOMAIN ledger : k # j => ledger'[k] = ledger[k]
  BY <1>2 DEF PrepareSave, Commit
<1>5. \A i \in Indices(j) : op.found[i].status = "pending" /\ op.found[i].reconciled = FALSE
  BY <1>2, <1>3 DEF PrepareSave, OnOperation, DraftsPending
<1>6. \A k \in Jobs : \A m \in Indices(k) : SameView(k, m)
  BY <1>3, <1>4, <1>5 DEF SameView, ClaimOf, PersonalOf, Decided, Uncertain
<1>7. QED
  BY <1>6, ViewStays

\* The receipt of one change gets another status.
LEMMA ActionMoves ==
  ASSUME Typed, NEW j \in DOMAIN ledger, NEW i \in Indices(j), NEW a \in Action,
         SetAction(j, i, a), UNCHANGED effect
  PROVE  /\ j \in Jobs
         /\ \A k \in Jobs : \A m \in Indices(k) : k # j \/ m # i => SameView(k, m)
         /\ ClaimOf(j, i)' = IF a.status \in Uncertain THEN "doubt" ELSE a.status
         /\ PersonalOf(j, i)' = a.reconciled
         /\ effect'[j][i] = effect[j][i]
<1>1. LedgerOK
  BY DEF Typed, TypeInv, TypeOK
<1>2. DOMAIN ledger' = DOMAIN ledger
  BY <1>1, SetActionTyped
<1>3. ledger'[j].acts[i] = a
  <2>1. ledger'[j].acts = [ledger[j].acts EXCEPT ![i] = a]
    BY <1>1, SetActionTyped
  <2>2. ledger[j].acts \in [Indices(j) -> Action]
    BY <1>1 DEF LedgerOK, IsReceipt
  <2>3. QED
    BY <2>1, <2>2
<1>4. \A m \in Indices(j) : m # i => ledger'[j].acts[m] = ledger[j].acts[m]
  BY <1>1, SetActionTyped
<1>5. \A k \in DOMAIN ledger : k # j => ledger'[k] = ledger[k]
  BY <1>1, SetActionTyped
<1>6. \A k \in Jobs : \A m \in Indices(k) : k # j \/ m # i => SameView(k, m)
  BY <1>2, <1>4, <1>5 DEF SameView, ClaimOf, PersonalOf, Decided
<1>7. a.reconciled \in BOOLEAN
  BY DEF Action
<1>8. QED
  BY <1>1, <1>2, <1>3, <1>6, <1>7 DEF ClaimOf, PersonalOf, Decided, LedgerOK

\* Intend announces; Reconcile decides.
LEMMA StepRefines ==
  ASSUME Typed, OnLedger, OnOperation, NEW i \in op.todo, Reconcile(i) \/ Intend(i)
  PROVE  RefinedReceipt!Next \/ UNCHANGED RefinedReceipt!vars
<1>1. op.pc = "next" /\ UNCHANGED effect
  BY DEF Reconcile, Intend, environment
<1>2. PICK j \in DOMAIN ledger : j = op.job
  BY <1>1, NextReady DEF Typed
<1>3. j \in Jobs /\ i \in Indices(j) /\ op.found[i] \in Item /\ ledger[j].acts[i] \in Action
  BY <1>1, <1>2, NextReady DEF Typed
<1> DEFINE a == ledger[j].acts[i]
           c == <<j, i>>
<1>4. Fits(j, i, op.dir, op.found[i])
  BY <1>1, <1>2 DEF OnOperation, StepsFit
<1>5. CASE Reconcile(i)
  <2> DEFINE v == remote[ResourceOf(j, i)].version
             b == [a EXCEPT !.status = op.found[i].observed, !.version = v,
                            !.reconciled = TRUE]
  <2>1. CASE UNCHANGED ledger
    BY <1>1, <2>1, ClaimsStay DEF SameClaims
  <2>2. CASE SetAction(j, i, b)
    <3>1. v \in Nat
      BY <1>3, IndicesInAll DEF Typed, TypeInv, TypeOK, RemoteOK
    <3> HIDE DEF v
    <3>2. b \in Action /\ b.reconciled = TRUE /\ b.status = op.found[i].observed
      BY <1>3, <3>1 DEF Action, Item
    <3> HIDE DEF b
    <3>3. op.dir = "reconcile"
      BY <1>5 DEF Reconcile
    <3>4. a.status \in Uncertain /\ b.status \notin Uncertain
      BY <1>4, <3>2, <3>3 DEF Fits, Certain
    <3>5. b.status \in RefinedReceipt!States
      BY <3>2, <3>4 DEF Action, Statuses, RefinedReceipt!States
    <3>6. /\ \A k \in Jobs : \A m \in Indices(k) : k # j \/ m # i => SameView(k, m)
          /\ ClaimOf(j, i)' = b.status /\ PersonalOf(j, i)' = TRUE
          /\ effect'[j][i] = effect[j][i]
      BY <1>1, <1>3, <2>2, <3>2, <3>4, ActionMoves
    <3>7. /\ c \in Changed /\ Claims[c] = ClaimOf(j, i)
          /\ Claims' = [Claims EXCEPT ![c] = b.status]
          /\ Personal' = [Personal EXCEPT ![c] = TRUE]
          /\ Actual' = [Actual EXCEPT ![c] = Actual[c]]
      BY <1>3, <3>6, ViewMoves
    <3>8. ClaimOf(j, i) = "doubt"
      BY <3>4 DEF ClaimOf
    <3>9. Actual' = Actual
      BY <3>7 DEF Actual
    <3>10. RefinedReceipt!Decide(c)
      BY <3>5, <3>7, <3>8, <3>9, Views
    <3>11. QED
      BY <3>7, <3>10 DEF RefinedReceipt!Next
  <2>3. QED
    BY <1>2, <1>5, <2>1, <2>2 DEF Reconcile
<1>6. CASE Intend(i)
  <2> DEFINE n == IF a.status = "applied" THEN a.order ELSE orders'
             b == [a EXCEPT !.prior = a.status, !.status = "running", !.order = n]
  <2>1. orders' \in Nat
    BY <1>6 DEF Intend, Typed, TypeInv, TypeOK, HistoryOK
  <2>2. op.dir # "reconcile" /\ SetAction(j, i, b)
    BY <1>2, <1>6 DEF Intend
  <2>3. n \in Nat
    BY <1>3, <2>1 DEF Action
  <2> HIDE DEF n
  <2>4. b \in Action /\ b.status = "running" /\ b.reconciled = a.reconciled
    BY <1>3, <2>3 DEF Action, Statuses, Uncertain
  <2> HIDE DEF b
  <2>5. a.status \notin Uncertain /\ a.status # "doubt" /\ "running" \in Uncertain
    BY <1>3, <1>4, <2>2 DEF Fits, Certain, Uncertain, Action, Statuses
  <2>6. /\ \A k \in Jobs : \A m \in Indices(k) : k # j \/ m # i => SameView(k, m)
        /\ ClaimOf(j, i)' = "doubt" /\ PersonalOf(j, i)' = a.reconciled
        /\ effect'[j][i] = effect[j][i]
    BY <1>1, <1>3, <2>2, <2>4, <2>5, ActionMoves
  <2>7. PersonalOf(j, i) = a.reconciled /\ ClaimOf(j, i) = a.status
    BY <1>3, <2>5 DEF PersonalOf, Decided, ClaimOf, Action
  <2>8. /\ c \in Changed /\ Claims[c] = a.status
        /\ Claims' = [Claims EXCEPT ![c] = "doubt"]
        /\ Personal' = [Personal EXCEPT ![c] = Personal[c]]
        /\ Actual' = [Actual EXCEPT ![c] = Actual[c]]
    BY <1>3, <2>6, <2>7, ViewMoves
  <2>9. Actual' = Actual /\ Personal' = Personal
    BY <2>8 DEF Actual, Personal
  <2>10. RefinedReceipt!Announce(c)
    BY <2>5, <2>8, <2>9, Views
  <2>11. QED
    BY <2>8, <2>10 DEF RefinedReceipt!Next
<1>7. QED
  BY <1>5, <1>6

\* The outcome of a dispatch settles the doubt, or leaves it.
LEMMA DispatchRefines ==
  ASSUME Typed, OnLedger, OnOperation, PermissionLost \/ ReadBack \/ RecordFailure
  PROVE  RefinedReceipt!Next \/ UNCHANGED RefinedReceipt!vars
<1>1. op.pc \in {"send", "ok", "refused", "lost"} /\ op.pc \in Dispatching /\ UNCHANGED effect
  BY DEF PermissionLost, ReadBack, RecordFailure, environment, Dispatching
<1>2. PICK j \in DOMAIN ledger : j = op.job
  BY <1>1, Dispatched DEF Typed
<1>3. PICK i \in Indices(j) : i = op.at
  BY <1>1, <1>2, Dispatched DEF Typed
<1> DEFINE a == ledger[j].acts[i]
           c == <<j, i>>
<1>4. j \in Jobs /\ a \in Action /\ op.dir \in {"apply", "undo"}
  BY <1>1, <1>2, <1>3, Dispatched DEF Typed, TypeInv, GateOK, IsOperation, Directions
<1>5. a.status = "running" /\ "running" \in Uncertain
  BY <1>1, <1>2, <1>3 DEF OnOperation, DispatchKnown, Uncertain
<1>6. ~a.reconciled => /\ op.pc \in {"send", "refused"} => a.prior = StatusOf(effect[j][i])
                       /\ op.pc = "ok" => effect[j][i] = op.dir
  BY <1>1, <1>2, <1>3 DEF OnOperation, DispatchKnown, Decided, Before
<1>7. ASSUME NEW b \in Action, SetAction(j, i, b), b.reconciled = a.reconciled,
             b.status \notin Uncertain /\ ~a.reconciled => b.status = StatusOf(effect[j][i])
      PROVE  RefinedReceipt!Next \/ UNCHANGED RefinedReceipt!vars
  <2>1. /\ \A k \in Jobs : \A m \in Indices(k) : k # j \/ m # i => SameView(k, m)
        /\ ClaimOf(j, i)' = IF b.status \in Uncertain THEN "doubt" ELSE b.status
        /\ PersonalOf(j, i)' = a.reconciled
        /\ effect'[j][i] = effect[j][i]
    BY <1>1, <1>7, ActionMoves
  <2>2. ClaimOf(j, i) = "doubt" /\ PersonalOf(j, i) = a.reconciled
    BY <1>4, <1>5 DEF ClaimOf, PersonalOf, Decided, Action
  <2>3. CASE b.status \in Uncertain
    <3>1. SameView(j, i)
      BY <2>1, <2>2, <2>3 DEF SameView
    <3>2. QED
      BY <2>1, <3>1, ViewStays
  <2>4. CASE b.status \notin Uncertain
    <3>1. b.status \in RefinedReceipt!States
      BY <2>4 DEF Action, Statuses, RefinedReceipt!States
    <3>2. /\ c \in Changed /\ Claims[c] = "doubt"
          /\ Actual[c] = StatusOf(effect[j][i]) /\ Personal[c] = a.reconciled
          /\ Claims' = [Claims EXCEPT ![c] = b.status]
          /\ Personal' = [Personal EXCEPT ![c] = Personal[c]]
          /\ Actual' = [Actual EXCEPT ![c] = Actual[c]]
      BY <1>4, <2>1, <2>2, <2>4, ViewMoves
    <3>3. Actual' = Actual /\ Personal' = Personal
      BY <3>2 DEF Actual, Personal
    <3>4. b.status = Actual[c] \/ Personal[c]
      BY <1>4, <1>7, <2>4, <3>2 DEF Action
    <3>5. RefinedReceipt!Settle(c)
      BY <3>1, <3>2, <3>3, <3>4, Views
    <3>6. QED
      BY <3>2, <3>5 DEF RefinedReceipt!Next
  <2>5. QED
    BY <2>3, <2>4
<1>8. \A s \in Statuses : /\ [a EXCEPT !.status = s] \in Action
                          /\ [a EXCEPT !.status = s].status = s
                          /\ [a EXCEPT !.status = s].reconciled = a.reconciled
  BY <1>4, StatusTyped
<1>9. a.prior \in Statuses /\ {"needs_review", "applied", "undone"} \subseteq Statuses
      /\ "needs_review" \in Uncertain
  BY <1>4 DEF Action, Statuses, Uncertain
<1>10. ASSUME NEW s \in Statuses, SetAction(j, i, [a EXCEPT !.status = s]),
              s \notin Uncertain /\ ~a.reconciled => s = StatusOf(effect[j][i])
       PROVE  RefinedReceipt!Next \/ UNCHANGED RefinedReceipt!vars
  <2>1. PICK b \in Action : /\ SetAction(j, i, b) /\ b.status = s
                            /\ b.reconciled = a.reconciled
    BY <1>8, <1>10
  <2>2. QED
    BY <1>7, <1>10, <2>1
<1>11. CASE PermissionLost
  <2>1. SetAction(j, i, [a EXCEPT !.status = a.prior]) /\ op.pc = "send"
    BY <1>2, <1>3, <1>11 DEF PermissionLost
  <2>2. QED
    BY <1>6, <1>9, <1>10, <2>1
<1>12. CASE RecordFailure
  <2> DEFINE s == IF op.pc = "refused" THEN a.prior ELSE "needs_review"
  <2>1. SetAction(j, i, [a EXCEPT !.status = s])
    BY <1>2, <1>3, <1>12 DEF RecordFailure
  <2>2. s \in Statuses /\ (s \notin Uncertain /\ ~a.reconciled => s = StatusOf(effect[j][i]))
    BY <1>6, <1>9
  <2> HIDE DEF s
  <2>3. QED
    BY <1>10, <2>1, <2>2
<1>13. CASE ReadBack
  <2> DEFINE snap == remote[ResourceOf(j, i)]
             s == IF op.dir = "apply" THEN "applied" ELSE "undone"
             b == [a EXCEPT !.version = snap.version, !.status = s]
  <2>1. op.pc = "ok"
    BY <1>13 DEF ReadBack
  <2>2. CASE SetAction(j, i, [a EXCEPT !.status = "needs_review"])
    BY <1>9, <1>10, <2>2
  <2>3. CASE SetAction(j, i, b)
    <3>1. snap.version \in Nat
      BY <1>4, IndicesInAll DEF Typed, TypeInv, TypeOK, RemoteOK
    <3>2. s \in Statuses
      BY <1>9
    <3>3. ~a.reconciled => s = StatusOf(effect[j][i])
      BY <1>4, <1>6, <2>1 DEF StatusOf
    <3> HIDE DEF snap, s
    <3>4. b \in Action /\ b.status = s /\ b.reconciled = a.reconciled
      BY <1>4, <3>1, <3>2 DEF Action
    <3> HIDE DEF b
    <3>5. QED
      BY <1>7, <2>3, <3>3, <3>4
  <2>4. QED
    BY <1>2, <1>3, <1>13, <2>2, <2>3 DEF ReadBack
<1>14. QED
  BY <1>11, <1>12, <1>13

\* What a server executes has been announced: a request that may still arrive is
\* one of an action in doubt, or one that a person has decided about.
LEMMA ServerRefines ==
  ASSUME Typed, OnLedger, OnOperation, NEW q \in net, ServerWrites(q)
  PROVE  RefinedReceipt!Next \/ UNCHANGED RefinedReceipt!vars
<1>1. RequestsOK /\ HistoryOK
  BY DEF Typed, TypeInv, TypeOK
<1>2. PICK j \in Jobs : j = q.job
  BY <1>1 DEF RequestsOK, Request
<1>3. PICK i \in Indices(j) : i = q.index
  BY <1>1, <1>2 DEF RequestsOK
<1>4. j \in DOMAIN ledger
  BY <1>2 DEF Typed, RequestsHeld
<1>5. q.dir \in {"apply", "undo"}
  BY <1>1 DEF RequestsOK, Request
<1>6. UNCHANGED ledger /\ effect' = [effect EXCEPT ![j][i] = q.dir]
  BY <1>2, <1>3 DEF ServerWrites
<1>7. /\ effect'[j][i] = q.dir
      /\ \A k \in Jobs : \A m \in Indices(k) : k # j \/ m # i => effect'[k][m] = effect[k][m]
  BY <1>1, <1>6 DEF HistoryOK
<1>8. /\ \A k \in Jobs : \A m \in Indices(k) : k # j \/ m # i => SameView(k, m)
      /\ ClaimOf(j, i)' = ClaimOf(j, i) /\ PersonalOf(j, i)' = PersonalOf(j, i)
  BY <1>6, <1>7 DEF SameView, ClaimOf, PersonalOf, Decided
<1> DEFINE c == <<j, i>>
<1>9. /\ c \in Changed /\ Claims[c] = ClaimOf(j, i) /\ Personal[c] = PersonalOf(j, i)
      /\ Claims' = [Claims EXCEPT ![c] = Claims[c]]
      /\ Personal' = [Personal EXCEPT ![c] = Personal[c]]
      /\ Actual' = [Actual EXCEPT ![c] = StatusOf(q.dir)]
  BY <1>7, <1>8, ViewMoves
<1>10. Claims' = Claims /\ Personal' = Personal
  BY <1>9 DEF Claims, Personal
<1>11. ClaimOf(j, i) = "doubt" \/ PersonalOf(j, i)
  <2>1. ~(Certain(j, i) /\ ~Decided(j, i))
    BY <1>2, <1>3, <1>4 DEF OnLedger, Truthful, NoRequest
  <2>2. QED
    BY <1>4, <2>1 DEF ClaimOf, PersonalOf, Certain
<1>12. StatusOf(q.dir) \in {"applied", "undone"}
  BY <1>5 DEF StatusOf
<1>13. RefinedReceipt!Happen(c)
  BY <1>9, <1>10, <1>11, <1>12, Views
<1>14. QED
  BY <1>9, <1>13 DEF RefinedReceipt!Next

LEMMA NextRefines ==
  ASSUME Typed, OnLedger, OnOperation, [Next]_vars
  PROVE  RefinedReceipt!Next \/ UNCHANGED RefinedReceipt!vars
<1>1. ASSUME SameClaims, UNCHANGED effect
      PROVE  UNCHANGED RefinedReceipt!vars
  BY <1>1, ClaimsStay
<1>2. UNCHANGED ledger \/ SameActions => SameClaims
  BY DEF SameClaims, SameActions
<1>3. CASE Begin
  <2>1. ASSUME NEW j \in Jobs, BeginPrepare(j) \/ \E token \in 1 .. tokens : BeginExecute(j, token)
        PROVE  UNCHANGED RefinedReceipt!vars
    BY <1>1, <1>2, <2>1 DEF BeginPrepare, BeginExecute, environment
  <2>2. ASSUME NEW j \in Jobs, View(j) \/ \E dir \in Directions : BeginPreview(j, dir)
        PROVE  UNCHANGED RefinedReceipt!vars
    <3>1. j \in DOMAIN ledger /\ Commit(j, Load(ledger[j])) /\ UNCHANGED effect
      BY <2>2 DEF View, BeginPreview, environment
    <3>2. QED
      BY <1>1, <3>1, LoadedClaims
  <2>3. QED
    BY <1>3, <2>1, <2>2 DEF Begin
<1>4. CASE OpStep
  <2>1. CASE \/ \E i \in Turn("apply") : PrepareRead(i) \/ PreviewRead(i)
             \/ \E i \in Turn(op.dir) : Check(i)
             \/ Send \/ TimeOut \/ Finish \/ Abandon
    BY <1>1, <1>2, <2>1 DEF PrepareRead, PreviewRead, Check, Send, TimeOut, Finish, Abandon,
                            environment
  <2>2. CASE PreviewSave
    BY <1>1, <1>2, <2>2, PlannedActions DEF PreviewSave, environment
  <2>3. CASE Consume
    BY <1>1, <1>2, <2>3, ConsumedActions DEF Consume, environment
  <2>4. CASE \E i \in Turn(op.dir) : Reconcile(i) \/ Intend(i)
    BY <2>4, StepRefines DEF Turn
  <2>5. QED
    BY <1>4, <2>1, <2>2, <2>3, <2>4, PrepareRefines, DispatchRefines DEF OpStep
<1>5. CASE Environment
  <2>1. CASE Restart
    BY <1>1, <2>1, RestartedClaims DEF Restart, environment
  <2>2. ASSUME NEW q \in net, ServerRefuses(q)
        PROVE  UNCHANGED RefinedReceipt!vars
    BY <1>1, <1>2, <2>2 DEF ServerRefuses
  <2>3. ASSUME NEW r \in Resources, NEW f \in Fields, NEW v \in Values, OutsideEdit(r, f, v)
        PROVE  UNCHANGED RefinedReceipt!vars
    BY <1>1, <1>2, <2>3 DEF OutsideEdit
  <2>4. QED
    BY <1>5, <2>1, <2>2, <2>3, ServerRefines DEF Environment
<1>6. CASE UNCHANGED vars
  BY <1>1, <1>2, <1>6 DEF vars
<1>7. QED
  BY <1>3, <1>4, <1>5, <1>6 DEF Next

LEMMA InitRefines == Init => RefinedReceipt!Init
<1> SUFFICES ASSUME Init PROVE RefinedReceipt!Init
  OBVIOUS
<1>1. DOMAIN ledger = {}
  BY EmptyPlan DEF Init
<1>2. \A c \in Changed : effect[c[1]][c[2]] = "none"
  BY DEF Init, Changed
<1>3. StatusOf("none") = "pending"
  BY DEF StatusOf
<1>4. QED
  BY <1>1, <1>2, <1>3 DEF RefinedReceipt!Init

\* The Store implements a receipt: it says "doubt" before a change can happen to
\* the resource, and stops saying so only with the truth or by a person's decision
\* (Execute, Preview and NewStore in internal/safeundo).
THEOREM StoreImplementsReceipt == Spec => ImplementsReceipt
<1>1. Init => Typed /\ OnLedger /\ OnOperation
  BY InitTyped, InitKnows DEF Typed
<1>2. Typed /\ OnLedger /\ OnOperation /\ [Next]_vars => (Typed /\ OnLedger /\ OnOperation)'
  <2>1. Typed /\ [Next]_vars => Typed'
    BY StepsTyped, RequestsStayHeld DEF Typed
  <2>2. QED
    BY <2>1, NextKnows
<1>3. Typed /\ OnLedger /\ OnOperation /\ [Next]_vars
          => [RefinedReceipt!Next]_(RefinedReceipt!vars)
  BY NextRefines
<1>4. QED
  BY <1>1, <1>2, <1>3, InitRefines, PTL DEF Spec, ImplementsReceipt, RefinedReceipt!Spec

-----------------------------------------------------------------------------
(* A token dispatches a write once: whatever can still be sent under a token   *)
(* has not been sent under it.                                                *)

Unsent(t, j, m) == <<t, j, m>> \notin sent

SentCounted == \A e \in sent : e[1] <= tokens

PlansFresh ==
    \A j \in DOMAIN ledger :
        LET t == ledger[j].plan.token IN
        t <= tokens /\ (t # 0 => \A m \in Indices(j) : Unsent(t, j, m))

StepsFresh ==
    /\ op.pc \in Dispatching \cup {"check", "next"} => op.token <= tokens
    /\ op.pc = "check" => \A m \in Indices(op.job) : Unsent(op.token, op.job, m)
    /\ op.pc \in Dispatching \cup {"next"} => \A m \in op.todo : Unsent(op.token, op.job, m)
    /\ op.pc \in Dispatching => op.at \notin op.todo
    /\ op.pc = "send" => Unsent(op.token, op.job, op.at)

Fresh == SentCounted /\ PlansFresh /\ StepsFresh

\* Every plan stands or is gone.
PlansStand ==
    \A j \in DOMAIN ledger' :
        \/ j \in DOMAIN ledger /\ ledger'[j].plan = ledger[j].plan
        \/ ledger'[j].plan = NoPlan

LEMMA PlansStayFresh ==
  ASSUME HistoryOK, SentCounted, PlansFresh, PlansStand, UNCHANGED <<tokens, sent>>
  PROVE  SentCounted' /\ PlansFresh'
<1>1. NoPlan.token = 0 /\ tokens \in Nat
  BY DEF NoPlan, HistoryOK
<1>2. QED
  BY <1>1 DEF SentCounted, PlansFresh, PlansStand, Unsent

\* An operation that is not under way to a dispatch promises nothing.
LEMMA OutOfPlan ==
  ASSUME op'.pc \in {"idle", "prepare", "preview"}
  PROVE  StepsFresh'
  BY DEF StepsFresh, Dispatching

LEMMA SameOperation ==
  ASSUME StepsFresh, UNCHANGED <<op, tokens, sent>>
  PROVE  StepsFresh'
  BY DEF StepsFresh, Unsent

LEMMA SetActionPlans ==
  ASSUME LedgerOK, NEW j \in DOMAIN ledger, NEW i, NEW a, SetAction(j, i, a)
  PROVE  DOMAIN ledger' = DOMAIN ledger
         /\ \A k \in DOMAIN ledger : ledger'[k].plan = ledger[k].plan
<1> DEFINE acts == [ledger[j].acts EXCEPT ![i] = a]
<1>1. IsReceipt(ledger[j], j)
  BY DEF LedgerOK
<1>2. [ledger[j] EXCEPT !.acts[i] = a] = [ledger[j] EXCEPT !.acts = acts]
  BY <1>1 DEF IsReceipt
<1> HIDE DEF acts
<1>3. [ledger[j] EXCEPT !.acts = acts].plan = ledger[j].plan
  BY <1>1 DEF IsReceipt
<1>4. QED
  BY <1>2, <1>3 DEF SetAction, Commit

\* Preparing and previewing send nothing; a preview that is saved makes a token
\* that nothing has been sent under.
LEMMA PlanningFresh ==
  ASSUME Typed, Fresh,
         \/ \E j \in Jobs : \/ BeginPrepare(j) \/ View(j)
                            \/ \E dir \in Directions : BeginPreview(j, dir)
         \/ \E i \in Turn("apply") : PrepareRead(i) \/ PreviewRead(i)
         \/ PrepareSave \/ PreviewSave
  PROVE  Fresh'
<1>1. LedgerOK /\ OperationOK /\ GateOK /\ HistoryOK
  BY DEF Typed, TypeInv, TypeOK
<1>2. ASSUME NEW j \in Jobs, BeginPrepare(j)
      PROVE  Fresh'
  <2>1. op'.pc = "prepare" /\ UNCHANGED <<ledger, tokens, sent>>
    BY <1>2 DEF BeginPrepare, Starting, counters
  <2>2. PlansStand
    BY <2>1 DEF PlansStand
  <2>3. QED
    BY <1>1, <2>1, <2>2, OutOfPlan, PlansStayFresh DEF Fresh
<1>3. ASSUME NEW j \in Jobs, View(j) \/ \E dir \in Directions : BeginPreview(j, dir)
      PROVE  Fresh'
  <2>1. /\ j \in DOMAIN ledger /\ Commit(j, Load(ledger[j])) /\ UNCHANGED <<tokens, sent>>
        /\ op'.pc \in {"idle", "preview"}
    BY <1>3, IdlePC DEF View, BeginPreview, Starting, counters
  <2>2. PlansStand
    BY <2>1, LoadedSame DEF Commit, PlansStand
  <2>3. QED
    BY <1>1, <2>1, <2>2, OutOfPlan, PlansStayFresh DEF Fresh
<1>4. ASSUME NEW i \in Turn("apply"), PrepareRead(i) \/ PreviewRead(i)
      PROVE  Fresh'
  <2>1. op.pc \in {"prepare", "preview"} /\ IsOperation(op)
        /\ UNCHANGED <<ledger, tokens, sent>>
    BY <1>1, <1>4, InOperation DEF PrepareRead, PreviewRead, counters
  <2>2. op'.pc \in {"idle", "prepare", "preview"}
    BY <1>4, <2>1, IdlePC DEF PrepareRead, PreviewRead, IsOperation, GiveWay
  <2>3. PlansStand
    BY <2>1 DEF PlansStand
  <2>4. QED
    BY <1>1, <2>1, <2>2, <2>3, OutOfPlan, PlansStayFresh DEF Fresh
<1>5. CASE PrepareSave
  <2>1. op'.pc = "idle" /\ UNCHANGED <<tokens, sent>>
    BY <1>5, IdlePC DEF PrepareSave, counters
  <2>2. PlansStand
    BY <1>5 DEF PrepareSave, Commit, PlansStand
  <2>3. QED
    BY <1>1, <2>1, <2>2, OutOfPlan, PlansStayFresh DEF Fresh
<1>6. CASE PreviewSave
  <2>1. op.job \in DOMAIN ledger /\ IsReceipt(ledger[op.job], op.job) /\ op'.pc = "idle"
        /\ UNCHANGED sent
    BY <1>1, <1>6, IdlePC DEF PreviewSave, GateOK, LedgerOK
  <2>2. CASE UNCHANGED <<ledger, tokens>>
    <3>1. PlansStand
      BY <2>2 DEF PlansStand
    <3>2. QED
      BY <1>1, <2>1, <2>2, <3>1, OutOfPlan, PlansStayFresh DEF Fresh
  <2>3. CASE ~UNCHANGED <<ledger, tokens>>
    <3> DEFINE p == [token |-> tokens', dir |-> op.dir, items |-> op.found]
    <3>1. tokens' = tokens + 1 /\ Commit(op.job, [ledger[op.job] EXCEPT !.plan = p])
      BY <1>6, <2>3 DEF PreviewSave
    <3>2. p.token = tokens' /\ tokens \in Nat
      BY <1>1 DEF HistoryOK
    <3> HIDE DEF p
    <3>3. [ledger[op.job] EXCEPT !.plan = p].plan = p
      BY <2>1 DEF IsReceipt
    <3>4. /\ DOMAIN ledger' = DOMAIN ledger /\ ledger'[op.job].plan.token = tokens'
          /\ \A k \in DOMAIN ledger : k # op.job => ledger'[k] = ledger[k]
      BY <2>1, <3>1, <3>2, <3>3 DEF Commit
    <3>5. \A e \in sent : e[1] \in Nat /\ e[1] <= tokens
      BY <1>1 DEF HistoryOK, Fresh, SentCounted
    <3>6. SentCounted'
      BY <2>1, <3>1, <3>2, <3>5 DEF SentCounted
    <3>7. \A j \in DOMAIN ledger : ledger[j].plan.token \in Nat
      <4>1. \A j : \A plan : IsPlan(plan, j) => plan.token \in Nat
        <5>1. NoPlan.token = 0
          BY DEF NoPlan
        <5>2. QED
          BY <5>1 DEF IsPlan
      <4>2. \A j \in DOMAIN ledger : IsPlan(ledger[j].plan, j)
        BY <1>1 DEF LedgerOK, IsReceipt
      <4>3. QED
        BY <4>1, <4>2
    <3>8. PlansFresh'
      <4>1. \A j, m : <<tokens + 1, j, m>> \notin sent
        BY <3>2, <3>5
      <4>2. tokens' = tokens + 1 /\ tokens \in Nat /\ sent' = sent
        BY <2>1, <3>1, <3>2
      <4>3. ASSUME NEW j \in DOMAIN ledger'
            PROVE  /\ ledger'[j].plan.token <= tokens'
                   /\ \A m \in Indices(j) :
                         ledger'[j].plan.token # 0 => <<ledger'[j].plan.token, j, m>> \notin sent
        <5>1. CASE j = op.job
          BY <3>4, <4>1, <4>2, <5>1
        <5>2. CASE j # op.job
          BY <3>4, <3>7, <4>2, <5>2 DEF Fresh, PlansFresh, Unsent
        <5>3. QED
          BY <5>1, <5>2
      <4>4. QED
        BY <4>2, <4>3 DEF PlansFresh, Unsent
    <3>9. QED
      BY <2>1, <3>6, <3>8, OutOfPlan DEF Fresh
  <2>4. QED
    BY <2>2, <2>3
<1>7. QED
  BY <1>2, <1>3, <1>4, <1>5, <1>6

\* A plan is executed under a token that has sent nothing, and loses it first.
LEMMA CheckingFresh ==
  ASSUME Typed, Fresh,
         \/ \E j \in Jobs : \E token \in 1 .. tokens : BeginExecute(j, token)
         \/ \E i \in Turn(op.dir) : Check(i)
         \/ Consume
  PROVE  Fresh'
<1>1. LedgerOK /\ OperationOK /\ GateOK /\ HistoryOK
  BY DEF Typed, TypeInv, TypeOK
<1>2. ASSUME NEW j \in Jobs, NEW token \in 1 .. tokens, BeginExecute(j, token)
      PROVE  Fresh'
  <2>1. /\ j \in DOMAIN ledger /\ ledger[j].plan.token = token
        /\ UNCHANGED <<ledger, tokens, sent>>
        /\ op'.pc = "check" /\ op'.job = j /\ op'.token = token
    BY <1>2 DEF BeginExecute, Starting, counters
  <2>2. token # 0 /\ token <= tokens
    BY <1>1 DEF HistoryOK
  <2>3. \A m \in Indices(j) : Unsent(token, j, m)
    BY <2>1, <2>2 DEF Fresh, PlansFresh
  <2>4. StepsFresh'
    BY <2>1, <2>2, <2>3 DEF StepsFresh, Unsent, Dispatching
  <2>5. PlansStand
    BY <2>1 DEF PlansStand
  <2>6. QED
    BY <1>1, <2>1, <2>4, <2>5, PlansStayFresh DEF Fresh
<1>3. ASSUME NEW i \in Turn(op.dir), Check(i)
      PROVE  Fresh'
  <2>1. op.pc = "check" /\ IsOperation(op) /\ UNCHANGED <<ledger, tokens, sent>>
    BY <1>1, <1>3, InOperation DEF Check, counters
  <2>2. CASE op' = Idle
    BY <1>1, <2>1, <2>2, IdlePC, OutOfPlan, PlansStayFresh DEF Fresh, PlansStand
  <2>3. CASE op' = [op EXCEPT !.todo = @ \ {i}]
    <3>1. op'.pc = "check" /\ op'.job = op.job /\ op'.token = op.token
      BY <2>1, <2>3 DEF IsOperation
    <3>2. StepsFresh'
      BY <2>1, <3>1 DEF Fresh, StepsFresh, Unsent, Dispatching
    <3>3. QED
      BY <1>1, <2>1, <3>2, PlansStayFresh DEF Fresh, PlansStand
  <2>4. QED
    BY <1>3, <2>2, <2>3 DEF Check, GiveWay
<1>4. CASE Consume
  <2>1. /\ op.pc = "check" /\ IsOperation(op) /\ op.job \in DOMAIN ledger
        /\ IsReceipt(ledger[op.job], op.job) /\ UNCHANGED <<tokens, sent>>
        /\ op' = [op EXCEPT !.pc = "next", !.todo = DOMAIN op.found]
    BY <1>1, <1>4, InOperation DEF Consume, GateOK, LedgerOK, counters
  <2> DEFINE old == ledger[op.job]
             started == old.undoStarted \/ op.dir = "undo"
             new == [old EXCEPT !.lastToken = op.token, !.plan = NoPlan,
                                !.attempts = @ + 1, !.undoStarted = started]
  <2>2. Commit(op.job, new)
    BY Zenon, <1>4 DEF Consume
  <2> HIDE DEF started
  <2>3. new.plan = NoPlan
    BY <2>1 DEF IsReceipt
  <2> HIDE DEF new
  <2>4. PlansStand
    BY <2>1, <2>2, <2>3 DEF Commit, PlansStand
  <2>5. /\ op'.pc = "next" /\ op'.job = op.job /\ op'.token = op.token
        /\ op'.todo = DOMAIN op.found
    BY <2>1 DEF IsOperation
  <2>6. DOMAIN op.found \subseteq Indices(op.job)
    BY <2>1 DEF IsOperation, IsItems
  <2>7. StepsFresh'
    BY <2>1, <2>5, <2>6 DEF Fresh, StepsFresh, Unsent, Dispatching
  <2>8. QED
    BY <1>1, <2>1, <2>4, <2>7, PlansStayFresh DEF Fresh
<1>5. QED
  BY <1>2, <1>3, <1>4

\* Whatever is recorded about the next change, it leaves the rest to be done.
LEMMA StepFresh ==
  ASSUME Typed, Fresh, \E i \in Turn(op.dir) : Reconcile(i) \/ Intend(i)
  PROVE  Fresh'
<1>1. LedgerOK /\ HistoryOK
  BY DEF Typed, TypeInv, TypeOK
<1>2. PICK i \in op.todo : Reconcile(i) \/ Intend(i)
  BY DEF Turn
<1>3. op.pc = "next" /\ UNCHANGED <<tokens, sent>>
  BY <1>2 DEF Reconcile, Intend, counters
<1>4. IsOperation(op) /\ op.job \in DOMAIN ledger /\ i \in Indices(op.job)
  BY <1>2, <1>3, NextReady DEF Typed
<1>5. PlansStand
  <2>1. ASSUME NEW a, SetAction(op.job, i, a)
        PROVE  PlansStand
    BY <1>1, <1>4, <2>1, SetActionPlans DEF PlansStand
  <2>2. CASE UNCHANGED ledger
    BY <2>2 DEF PlansStand
  <2>3. QED
    BY <1>2, <2>1, <2>2 DEF Reconcile, Intend
<1>6. CASE op' = Idle
  BY <1>1, <1>3, <1>5, <1>6, IdlePC, OutOfPlan, PlansStayFresh DEF Fresh
<1>7. CASE op' = [op EXCEPT !.todo = @ \ {i}]
  <2>1. op'.pc = "next" /\ op'.job = op.job /\ op'.token = op.token
        /\ op'.todo = op.todo \ {i}
    BY <1>3, <1>4, <1>7 DEF IsOperation
  <2>2. StepsFresh'
    BY <1>3, <2>1 DEF Fresh, StepsFresh, Unsent, Dispatching
  <2>3. QED
    BY <1>1, <1>3, <1>5, <2>2, PlansStayFresh DEF Fresh
<1>8. CASE op' = [op EXCEPT !.pc = "send", !.at = i, !.todo = @ \ {i}]
  <2>1. op'.pc = "send" /\ op'.job = op.job /\ op'.token = op.token
        /\ op'.todo = op.todo \ {i} /\ op'.at = i
    BY <1>4, <1>8 DEF IsOperation
  <2>2. StepsFresh'
    BY <1>2, <1>3, <2>1 DEF Fresh, StepsFresh, Unsent, Dispatching
  <2>3. QED
    BY <1>1, <1>3, <1>5, <2>2, PlansStayFresh DEF Fresh
<1>9. QED
  BY <1>2, <1>6, <1>7, <1>8 DEF Reconcile, Intend, GiveWay

\* The write that is sent is the one at hand; the plan is no longer there to be
\* executed again.
LEMMA SendFresh ==
  ASSUME Typed, OnOperation, Fresh, Send
  PROVE  Fresh' /\ <<op.token, op.job, op.at>> \notin sent
<1>1. HistoryOK
  BY DEF Typed, TypeInv, TypeOK
<1>2. /\ op.pc = "send" /\ op.pc \in Dispatching /\ op' = [op EXCEPT !.pc = "wait"]
      /\ sent' = sent \cup {<<op.token, op.job, op.at>>} /\ UNCHANGED <<ledger, tokens>>
  BY DEF Send, Dispatching
<1>3. IsOperation(op) /\ op.job \in DOMAIN ledger
  BY <1>2, Dispatched DEF Typed
<1>4. /\ op'.pc = "wait" /\ op'.job = op.job /\ op'.token = op.token
      /\ op'.todo = op.todo /\ op'.at = op.at
  BY <1>2, <1>3 DEF IsOperation
<1>5. op.token <= tokens /\ op.at \notin op.todo /\ Unsent(op.token, op.job, op.at)
      /\ \A m \in op.todo : Unsent(op.token, op.job, m)
  BY <1>2 DEF Fresh, StepsFresh
<1>6. SentCounted'
  BY <1>2, <1>5 DEF Fresh, SentCounted
<1>7. ledger[op.job].plan.token = 0
  BY <1>2 DEF OnOperation, PlanConsumed, NoPlan
<1>8. PlansFresh'
  BY <1>2, <1>7 DEF Fresh, PlansFresh, Unsent
<1>9. StepsFresh'
  BY <1>2, <1>4, <1>5 DEF StepsFresh, Unsent, Dispatching
<1>10. QED
  BY <1>5, <1>6, <1>8, <1>9 DEF Fresh, Unsent

\* The later stages of a dispatch send nothing more.
LEMMA StageFresh ==
  ASSUME Typed, Fresh, op.pc \in Dispatching, UNCHANGED <<tokens, sent>>, PlansStand,
         \/ op' = op \/ op' = Idle
         \/ \E p \in {"next", "ok", "refused", "lost"} : op' = [op EXCEPT !.pc = p]
  PROVE  Fresh'
<1>1. HistoryOK /\ IsOperation(op)
  BY Dispatched DEF Typed, TypeInv, TypeOK
<1>2. SentCounted' /\ PlansFresh'
  BY <1>1, PlansStayFresh DEF Fresh
<1>3. CASE op' = op
  BY <1>2, <1>3, SameOperation DEF Fresh
<1>4. CASE op' = Idle
  BY <1>2, <1>4, IdlePC, OutOfPlan DEF Fresh
<1>5. ASSUME NEW p \in {"next", "ok", "refused", "lost"}, op' = [op EXCEPT !.pc = p]
      PROVE  Fresh'
  <2>1. /\ op'.pc = p /\ op'.job = op.job /\ op'.token = op.token
        /\ op'.todo = op.todo /\ op'.at = op.at
    BY <1>1, <1>5 DEF IsOperation
  <2>2. StepsFresh'
    BY <2>1 DEF Fresh, StepsFresh, Unsent, Dispatching
  <2>3. QED
    BY <1>2, <2>2 DEF Fresh
<1>6. QED
  BY <1>3, <1>4, <1>5

LEMMA DispatchFresh ==
  ASSUME Typed, Fresh, PermissionLost \/ ReadBack \/ RecordFailure
  PROVE  Fresh'
<1>1. LedgerOK
  BY DEF Typed, TypeInv, TypeOK
<1>2. op.pc \in Dispatching /\ UNCHANGED <<tokens, sent>>
  BY DEF PermissionLost, ReadBack, RecordFailure, counters, Dispatching
<1>3. op.job \in DOMAIN ledger
  BY <1>2, Dispatched DEF Typed
<1>4. \E a : SetAction(op.job, op.at, a)
  BY DEF PermissionLost, ReadBack, RecordFailure
<1>5. PlansStand
  BY <1>1, <1>3, <1>4, SetActionPlans DEF PlansStand
<1>6. op' = Idle \/ op' = [op EXCEPT !.pc = "next"]
  BY DEF PermissionLost, ReadBack, RecordFailure
<1>7. QED
  BY <1>2, <1>5, <1>6, StageFresh

LEMMA EnvironmentFresh ==
  ASSUME Typed, Fresh, Environment \/ TimeOut \/ Finish \/ Abandon \/ UNCHANGED vars
  PROVE  Fresh'
<1>1. HistoryOK
  BY DEF Typed, TypeInv, TypeOK
<1>2. CASE Restart
  <2>1. PlansStand
    BY <1>2, LoadedSame DEF Restart, PlansStand
  <2>2. QED
    BY <1>1, <1>2, <2>1, IdlePC, OutOfPlan, PlansStayFresh DEF Restart, counters, Fresh
<1>3. ASSUME UNCHANGED <<ledger, op, tokens, sent>>
      PROVE  Fresh'
  BY <1>1, <1>3, SameOperation, PlansStayFresh DEF Fresh, PlansStand
<1>4. ASSUME NEW q \in net, ServerWrites(q) \/ ServerRefuses(q)
      PROVE  Fresh'
  <2>1. UNCHANGED <<ledger, tokens, sent>> /\ (Answer(q, "ok") \/ Answer(q, "refused"))
    BY <1>4 DEF ServerWrites, ServerRefuses, counters
  <2>2. CASE op' = op
    BY <1>3, <2>1, <2>2
  <2>3. CASE op' # op
    <3>1. op.pc \in Dispatching
          /\ \E p \in {"next", "ok", "refused", "lost"} : op' = [op EXCEPT !.pc = p]
      BY <2>1, <2>3 DEF Answer, Dispatching
    <3>2. QED
      BY <2>1, <3>1, StageFresh DEF PlansStand
  <2>4. QED
    BY <2>2, <2>3
<1>5. ASSUME NEW r \in Resources, NEW f \in Fields, NEW v \in Values, OutsideEdit(r, f, v)
      PROVE  Fresh'
  BY <1>3, <1>5 DEF OutsideEdit, counters
<1>6. CASE TimeOut
  BY <1>6, StageFresh DEF TimeOut, counters, PlansStand, Dispatching
<1>7. CASE Finish \/ Abandon
  BY <1>1, <1>7, IdlePC, OutOfPlan, PlansStayFresh
     DEF Finish, Abandon, GiveWay, counters, Fresh, PlansStand
<1>8. QED
  BY <1>2, <1>3, <1>4, <1>5, <1>6, <1>7 DEF Environment, vars

LEMMA NextFresh ==
  ASSUME Typed, OnOperation, Fresh, [Next]_vars
  PROVE  Fresh'
<1>1. CASE Begin
  BY <1>1, PlanningFresh, CheckingFresh DEF Begin
<1>2. CASE OpStep
  <2>1. CASE \E i \in Turn("apply") : PrepareRead(i) \/ PreviewRead(i)
    BY <2>1, PlanningFresh
  <2>2. CASE \E i \in Turn(op.dir) : Check(i) \/ Reconcile(i) \/ Intend(i)
    BY <2>2, CheckingFresh, StepFresh
  <2>3. CASE PrepareSave \/ PreviewSave \/ Consume
    BY <2>3, PlanningFresh, CheckingFresh
  <2>4. CASE PermissionLost \/ ReadBack \/ RecordFailure
    BY <2>4, DispatchFresh
  <2>5. CASE Send
    BY <2>5, SendFresh
  <2>6. CASE TimeOut \/ Finish \/ Abandon
    BY <2>6, EnvironmentFresh
  <2>7. QED
    BY <1>2, <2>1, <2>2, <2>3, <2>4, <2>5, <2>6 DEF OpStep
<1>3. CASE Environment \/ UNCHANGED vars
  BY <1>3, EnvironmentFresh
<1>4. QED
  BY <1>1, <1>2, <1>3 DEF Next

\* Only Send takes an operation from "send" to "wait".
LEMMA OnlySendSends ==
  ASSUME Typed, [Next]_vars, op.pc = "send", op'.pc = "wait"
  PROVE  Send
<1>1. IsOperation(op)
  BY Dispatched DEF Typed, Dispatching
<1>2. op' # op /\ op' # Idle
  BY IdlePC
<1>3. Begin => op.pc = "idle"
  BY IdlePC DEF Begin, BeginPrepare, View, BeginPreview, BeginExecute
<1>4. CASE OpStep
  <2>1. PermissionLost => op' = Idle
    BY DEF PermissionLost
  <2>2. Abandon => op' = Idle
    BY DEF Abandon, GiveWay
  <2>3. QED
    BY <1>2, <1>4, <2>1, <2>2
       DEF OpStep, PrepareRead, PreviewRead, Check, Reconcile, Intend, PrepareSave, PreviewSave,
           Consume, TimeOut, ReadBack, RecordFailure, Finish
<1>5. ~Environment
  BY <1>2 DEF Environment, ServerWrites, ServerRefuses, Answer, OutsideEdit, Restart
<1>6. QED
  BY <1>2, <1>3, <1>4, <1>5 DEF Next, vars

LEMMA InitFresh == Init => Fresh
<1> SUFFICES ASSUME Init PROVE Fresh
  OBVIOUS
<1>1. DOMAIN ledger = {} /\ op.pc = "idle" /\ sent = {}
  BY EmptyPlan, IdlePC DEF Init
<1>2. QED
  BY <1>1 DEF Fresh, SentCounted, PlansFresh, StepsFresh, Dispatching

\* Delivering a confirmation again can read the receipt, but no token dispatches the
\* same write twice, whatever crashes and lost answers come in between (Execute in
\* internal/safeundo/service.go: the token is consumed before the first write).
THEOREM TokensDispatchOnce == Spec => DispatchOncePerToken
<1> DEFINE Inv == Typed /\ OnLedger /\ OnOperation /\ Fresh
<1>1. Init => Inv
  BY InitTyped, InitKnows, InitFresh DEF Typed
<1>2. Inv /\ [Next]_vars => Inv'
  <2>1. Typed /\ [Next]_vars => Typed'
    BY StepsTyped, RequestsStayHeld DEF Typed
  <2>2. QED
    BY <2>1, NextKnows, NextFresh
<1>3. Inv /\ [Next]_vars
          => [op.pc = "send" /\ op'.pc = "wait" => <<op.token, op.job, op.at>> \notin sent]_vars
  BY OnlySendSends, SendFresh
<1> HIDE DEF Inv
<1>4. QED
  BY <1>1, <1>2, <1>3, PTL DEF Spec, DispatchOncePerToken

-----------------------------------------------------------------------------
(* What every step keeps of the receipts, of the resources, and of the plan    *)
(* under way.                                                                 *)

\* A receipt keeps which fields its action touches, and what they were before.
SameSides ==
    \A j \in DOMAIN ledger :
        /\ j \in DOMAIN ledger'
        /\ \A i \in Indices(j) :
              /\ ledger'[j].acts[i].touched = ledger[j].acts[i].touched
              /\ ledger'[j].acts[i].before = ledger[j].acts[i].before

\* A version is never used again for other values.
RemoteMoves ==
    \A r \in Resources : remote'[r] = remote[r] \/ remote'[r].version > remote[r].version

LEMMA ActionSides ==
  ASSUME LedgerOK, NEW j \in DOMAIN ledger, NEW i \in Indices(j), NEW b \in Action,
         SetAction(j, i, b)
  PROVE  /\ DOMAIN ledger' = DOMAIN ledger
         /\ ledger'[j].acts[i] = b
         /\ \A k \in DOMAIN ledger : \A m \in Indices(k) :
               k # j \/ m # i => ledger'[k].acts[m] = ledger[k].acts[m]
<1>1. DOMAIN ledger' = DOMAIN ledger
  BY SetActionTyped
<1>2. ledger'[j].acts[i] = b
  <2>1. ledger'[j].acts = [ledger[j].acts EXCEPT ![i] = b]
    BY SetActionTyped
  <2>2. ledger[j].acts \in [Indices(j) -> Action]
    BY DEF LedgerOK, IsReceipt
  <2>3. QED
    BY <2>1, <2>2
<1>3. \A m \in Indices(j) : m # i => ledger'[j].acts[m] = ledger[j].acts[m]
  BY SetActionTyped
<1>4. \A k \in DOMAIN ledger : k # j => ledger'[k] = ledger[k]
  BY SetActionTyped
<1>5. QED
  BY <1>1, <1>2, <1>3, <1>4

\* What a commit about one action of the operation can change.
LEMMA CommittedAction ==
  ASSUME Typed, NEW j \in DOMAIN ledger, j = op.job, NEW i \in Indices(j),
         \/ op.pc = "next" /\ i \in op.todo /\ (Reconcile(i) \/ Intend(i))
         \/ op.pc \in Dispatching /\ i = op.at /\ (PermissionLost \/ ReadBack \/ RecordFailure)
  PROVE  UNCHANGED ledger \/ \E b \in Action :
            /\ SetAction(j, i, b)
            /\ b.touched = ledger[j].acts[i].touched /\ b.before = ledger[j].acts[i].before
            /\ b.order = IF Intend(i) /\ op.pc = "next" /\ ledger[j].acts[i].status # "applied"
                         THEN orders + 1 ELSE ledger[j].acts[i].order
            /\ Intend(i) /\ op.pc = "next" => b.status = "running"
            /\ ReadBack /\ op.dir = "undo" => b.status # "applied"
<1> DEFINE a == ledger[j].acts[i]
           v == remote[ResourceOf(j, i)].version
<1>1. a \in Action /\ j \in Jobs
  BY ActionOf DEF Typed, TypeInv, TypeOK
<1>2. v \in Nat /\ orders \in Nat
  BY <1>1, IndicesInAll DEF Typed, TypeInv, TypeOK, RemoteOK, HistoryOK
<1>3. \A s \in Statuses : \A w \in Nat : \A p \in Statuses : \A n \in Nat :
         /\ [status |-> s, prior |-> p, touched |-> a.touched, before |-> a.before,
             version |-> w, order |-> n, reconciled |-> a.reconciled] \in Action
         /\ [status |-> s, prior |-> p, touched |-> a.touched, before |-> a.before,
             version |-> w, order |-> n, reconciled |-> TRUE] \in Action
  BY <1>1 DEF Action
<1>4. a = [status |-> a.status, prior |-> a.prior, touched |-> a.touched,
           before |-> a.before, version |-> a.version, order |-> a.order,
           reconciled |-> a.reconciled]
      /\ a.status \in Statuses /\ a.prior \in Statuses /\ a.version \in Nat /\ a.order \in Nat
  BY <1>1 DEF Action
<1> DEFINE same(b) == b.touched = a.touched /\ b.before = a.before
<1>5. ASSUME NEW s \in Statuses, SetAction(j, i, [a EXCEPT !.status = s])
      PROVE  \E b \in Action : SetAction(j, i, b) /\ same(b) /\ b.order = a.order
                               /\ b.status = s
  <2>1. PICK b : b = [a EXCEPT !.status = s]
    OBVIOUS
  <2>2. b \in Action /\ same(b) /\ b.order = a.order /\ b.status = s
    BY <1>1, <2>1 DEF Action
  <2>3. QED
    BY <1>5, <2>1, <2>2
<1>6. ASSUME op.pc \in Dispatching, i = op.at, PermissionLost \/ ReadBack \/ RecordFailure
      PROVE  \E b \in Action : SetAction(j, i, b) /\ same(b) /\ b.order = a.order
                               /\ (ReadBack /\ op.dir = "undo" => b.status # "applied")
  <2>1. {"needs_review", "applied", "undone"} \subseteq Statuses
    BY DEF Statuses, Uncertain
  <2>2. CASE PermissionLost \/ RecordFailure
    <3>1. \E s \in Statuses : SetAction(j, i, [a EXCEPT !.status = s])
      BY <1>4, <1>6, <2>1, <2>2 DEF PermissionLost, RecordFailure
    <3>2. ~ReadBack
      BY <2>2 DEF PermissionLost, RecordFailure, ReadBack
    <3>3. QED
      BY <1>5, <3>1, <3>2
  <2>3. CASE ReadBack
    <3> DEFINE s == IF op.dir = "apply" THEN "applied" ELSE "undone"
               c == [a EXCEPT !.version = v, !.status = s]
    <3>1. SetAction(j, i, c) \/ SetAction(j, i, [a EXCEPT !.status = "needs_review"])
      BY <1>6, <2>3 DEF ReadBack
    <3>2. s \in Statuses /\ (op.dir = "undo" => s # "applied")
      BY <2>1
    <3> HIDE DEF s, v
    <3>3. c \in Action /\ same(c) /\ c.order = a.order /\ c.status = s
      BY <1>1, <1>2, <3>2 DEF Action
    <3> HIDE DEF c, same
    <3>4. QED
      BY <1>5, <2>1, <3>1, <3>2, <3>3
  <2>4. QED
    BY <1>6, <2>2, <2>3
<1>7. ASSUME op.pc = "next", i \in op.todo, Reconcile(i)
      PROVE  UNCHANGED ledger
             \/ \E b \in Action : SetAction(j, i, b) /\ same(b) /\ b.order = a.order
  <2> DEFINE c == [a EXCEPT !.status = op.found[i].observed, !.version = v,
                            !.reconciled = TRUE]
  <2>1. UNCHANGED ledger \/ SetAction(j, i, c)
    BY <1>7 DEF Reconcile
  <2>2. op.found[i] \in Item
    BY <1>7, NextReady DEF Typed
  <2> HIDE DEF v
  <2>3. c \in Action /\ same(c) /\ c.order = a.order
    BY <1>1, <1>2, <2>2 DEF Action, Item
  <2> HIDE DEF c, same
  <2>4. QED
    BY <2>1, <2>3
<1>8. ASSUME op.pc = "next", i \in op.todo, Intend(i)
      PROVE  \E b \in Action : /\ SetAction(j, i, b) /\ same(b)
                               /\ b.order = IF a.status # "applied" THEN orders + 1
                                            ELSE a.order
                               /\ b.status = "running"
  <2> DEFINE n == IF a.status = "applied" THEN a.order ELSE orders'
             c == [a EXCEPT !.prior = a.status, !.status = "running", !.order = n]
  <2>1. SetAction(j, i, c) /\ orders' = IF a.status = "applied" THEN orders ELSE orders + 1
    BY <1>8 DEF Intend
  <2>2. n \in Nat /\ n = IF a.status # "applied" THEN orders + 1 ELSE a.order
    BY <1>2, <1>4, <2>1
  <2> HIDE DEF n
  <2>3. c \in Action /\ same(c) /\ c.order = n /\ c.status = "running"
    BY <1>1, <2>2 DEF Action, Statuses, Uncertain
  <2> HIDE DEF c, same
  <2>4. QED
    BY <2>1, <2>2, <2>3
<1>9. op.pc = "next" => op.pc \notin Dispatching
  BY DEF Dispatching
<1>10. /\ Reconcile(i) => ~Intend(i) /\ ~ReadBack
       /\ Intend(i) => ~ReadBack
  BY DEF Reconcile, Intend, ReadBack
<1>11. QED
  BY <1>6, <1>7, <1>8, <1>9, <1>10

\* Receipts in which at most an interrupted intent has become one to review.
SameDetails ==
    /\ DOMAIN ledger' = DOMAIN ledger
    /\ \A j \in DOMAIN ledger : \A i \in Indices(j) :
          LET a == ledger[j].acts[i]
              b == ledger'[j].acts[i]
          IN /\ b.touched = a.touched /\ b.before = a.before /\ b.order = a.order
             /\ b.status = a.status \/ (a.status = "running" /\ b.status = "needs_review")

LEMMA LoadedDetails ==
  ASSUME LedgerOK, NEW j \in DOMAIN ledger, NEW i \in Indices(j)
  PROVE  LET a == ledger[j].acts[i]
             b == Load(ledger[j]).acts[i]
         IN /\ b.touched = a.touched /\ b.before = a.before /\ b.order = a.order
            /\ b.status = a.status \/ (a.status = "running" /\ b.status = "needs_review")
<1> DEFINE R == ledger[j]
           L == [k \in DOMAIN R.acts |-> IF R.acts[k].status = "running"
                                         THEN [R.acts[k] EXCEPT !.status = "needs_review"]
                                         ELSE R.acts[k]]
<1>1. IsReceipt(R, j) /\ R.acts \in [Indices(j) -> Action] /\ R.acts[i] \in Action
  BY DEF LedgerOK, IsReceipt
<1>2. PICK c : c = [R.acts[i] EXCEPT !.status = "needs_review"]
  OBVIOUS
<1>3. /\ c.touched = R.acts[i].touched /\ c.before = R.acts[i].before
      /\ c.order = R.acts[i].order /\ c.status = "needs_review"
  BY <1>1, <1>2 DEF Action
<1>4. L[i] = IF R.acts[i].status = "running" THEN c ELSE R.acts[i]
  BY <1>1, <1>2
<1>5. Load(R).acts \in {L, R.acts}
  <2>1. Load(R) = R \/ Load(R) = [R EXCEPT !.plan = NoPlan, !.acts = L]
    BY DEF Load
  <2> HIDE DEF L
  <2>2. [R EXCEPT !.plan = NoPlan, !.acts = L].acts = L
    BY <1>1 DEF IsReceipt
  <2>3. QED
    BY <2>1, <2>2
<1> HIDE DEF L
<1>6. QED
  BY <1>3, <1>4, <1>5

LEMMA QuietDetails ==
  ASSUME Typed,
         \/ UNCHANGED ledger \/ Restart \/ PreviewSave \/ Consume
         \/ \E j \in Jobs : View(j) \/ \E dir \in Directions : BeginPreview(j, dir)
  PROVE  SameDetails
<1>1. LedgerOK
  BY DEF Typed, TypeInv, TypeOK
<1>2. CASE UNCHANGED ledger
  BY <1>2 DEF SameDetails
<1>3. CASE PreviewSave \/ Consume
  BY <1>3, PlannedActions, ConsumedActions DEF SameActions, SameDetails
<1>4. CASE Restart
  <2>1. DOMAIN ledger' = DOMAIN ledger
        /\ \A j \in DOMAIN ledger : ledger'[j] = Load(ledger[j])
    BY <1>4 DEF Restart
  <2>2. QED
    BY <1>1, <2>1, LoadedDetails DEF SameDetails
<1>5. ASSUME NEW j \in Jobs, View(j) \/ \E dir \in Directions : BeginPreview(j, dir)
      PROVE  SameDetails
  <2>1. j \in DOMAIN ledger /\ Commit(j, Load(ledger[j]))
    BY <1>5 DEF View, BeginPreview
  <2>2. /\ DOMAIN ledger' = DOMAIN ledger /\ ledger'[j] = Load(ledger[j])
        /\ \A k \in DOMAIN ledger : k # j => ledger'[k] = ledger[k]
    BY <2>1 DEF Commit
  <2>3. \A k \in DOMAIN ledger : ledger'[k] = ledger[k] \/ ledger'[k] = Load(ledger[k])
    BY <2>2
  <2>4. QED
    BY <1>1, <2>2, <2>3, LoadedDetails DEF SameDetails
<1>6. QED
  BY <1>2, <1>3, <1>4, <1>5

\* The steps by what they do to the ledger: nothing that shows, a new job, or a
\* commit about one action of the operation.
Quiet ==
    \/ UNCHANGED ledger \/ Restart \/ PreviewSave \/ Consume
    \/ \E j \in Jobs : View(j) \/ \E dir \in Directions : BeginPreview(j, dir)

Commits(j, i) ==
    \/ op.pc = "next" /\ i \in op.todo /\ (Reconcile(i) \/ Intend(i))
    \/ op.pc \in Dispatching /\ i = op.at /\ (PermissionLost \/ ReadBack \/ RecordFailure)

LEMMA LedgerSteps ==
  ASSUME Typed, [Next]_vars
  PROVE  \/ Quiet \/ PrepareSave
         \/ \E j \in DOMAIN ledger : \E i \in Indices(j) : j = op.job /\ Commits(j, i)
<1>1. CASE Begin
  BY <1>1 DEF Begin, Quiet, BeginPrepare, BeginExecute
<1>2. CASE OpStep
  <2>1. ASSUME NEW i \in Turn(op.dir), Reconcile(i) \/ Intend(i)
        PROVE  \E j \in DOMAIN ledger : \E k \in Indices(j) : j = op.job /\ Commits(j, k)
    <3>1. i \in op.todo /\ op.pc = "next"
      BY <2>1 DEF Turn, Reconcile, Intend
    <3>2. op.job \in DOMAIN ledger /\ i \in Indices(op.job)
      BY <3>1, NextReady DEF Typed
    <3>3. Commits(op.job, i)
      BY <2>1, <3>1 DEF Commits
    <3>4. QED
      BY <3>2, <3>3
  <2>2. ASSUME PermissionLost \/ ReadBack \/ RecordFailure
        PROVE  \E j \in DOMAIN ledger : \E k \in Indices(j) : j = op.job /\ Commits(j, k)
    <3>1. op.pc \in Dispatching
      BY <2>2 DEF PermissionLost, ReadBack, RecordFailure, Dispatching
    <3>2. op.job \in DOMAIN ledger /\ op.at \in Indices(op.job)
      BY <3>1, Dispatched DEF Typed
    <3>3. Commits(op.job, op.at)
      BY <2>2, <3>1 DEF Commits
    <3>4. QED
      BY <3>2, <3>3
  <2>3. QED
    BY <1>2, <2>1, <2>2 DEF OpStep, Quiet, PrepareRead, PreviewRead, Check, Send, TimeOut,
                            Finish, Abandon
<1>3. CASE Environment \/ UNCHANGED vars
  BY <1>3 DEF Environment, Quiet, ServerWrites, ServerRefuses, OutsideEdit, vars
<1>4. QED
  BY <1>1, <1>2, <1>3 DEF Next

LEMMA SidesStay ==
  ASSUME Typed, OnOperation, [Next]_vars
  PROVE  SameSides
<1>1. LedgerOK
  BY DEF Typed, TypeInv, TypeOK
<1>2. CASE Quiet
  BY <1>2, QuietDetails DEF Quiet, SameDetails, SameSides
<1>3. CASE PrepareSave
  <2>1. op.job \notin DOMAIN ledger
    BY <1>3 DEF PrepareSave, OnOperation, DraftsPending
  <2>2. QED
    BY <1>3, <2>1 DEF PrepareSave, Commit, SameSides
<1>4. ASSUME NEW j \in DOMAIN ledger, NEW i \in Indices(j), j = op.job, Commits(j, i)
      PROVE  SameSides
  <2>1. CASE UNCHANGED ledger
    BY <2>1 DEF SameSides
  <2>2. ASSUME NEW b \in Action, SetAction(j, i, b),
               b.touched = ledger[j].acts[i].touched, b.before = ledger[j].acts[i].before
        PROVE  SameSides
    BY <1>1, <2>2, ActionSides DEF SameSides
  <2>3. QED
    BY <1>4, <2>1, <2>2, CommittedAction DEF Commits
<1>5. QED
  BY <1>2, <1>3, <1>4, LedgerSteps

\* The steps by what they do to the operation.
Active == Dispatching \cup {"preview", "check", "next"}

Continues ==
    /\ op.pc \in Active /\ op'.pc \in Active
    /\ op'.job = op.job /\ op'.dir = op.dir /\ op'.token = op.token /\ op'.found = op.found

PreviewsOneMore(i) ==
    /\ op.pc = "preview" /\ op'.pc = "preview"
    /\ op'.job = op.job /\ op'.dir = op.dir
    /\ DOMAIN op'.found = DOMAIN op.found \cup {i}
    /\ \A k \in DOMAIN op.found \ {i} : op'.found[k] = op.found[k]
    /\ op'.found[i].version = remote[ResourceOf(op.job, i)].version
    /\ Wanted(op.dir, ledger[op.job].acts[i].status) /\ PreviewAccepts(op.job, i, op.dir)

LEMMA PreviewReads ==
  ASSUME Typed, NEW i \in Turn("apply"), PreviewRead(i)
  PROVE  /\ op' = Idle \/ (op'.pc = "preview" /\ op'.todo = op.todo \ {i})
         /\ op' = Idle \/ PreviewsOneMore(i)
            \/ (Continues /\ ~Wanted(op.dir, ledger[op.job].acts[i].status))
<1> DEFINE a == ledger[op.job].acts[i]
           snap == remote[ResourceOf(op.job, i)]
           item == [version |-> snap.version,
                    observed |-> IF op.dir = "reconcile" THEN Observed(snap.body, op.job, a)
                                 ELSE a.status]
           F == [k \in DOMAIN op.found \cup {i} |-> IF k = i THEN item ELSE op.found[k]]
<1>1. op.pc = "preview" /\ IsOperation(op)
  BY InOperation DEF PreviewRead, Typed, TypeInv, TypeOK
<1>2. CASE op' = Idle
  BY <1>2
<1>3. CASE op' = [op EXCEPT !.todo = @ \ {i}] /\ ~Wanted(op.dir, a.status)
  <2>1. /\ op'.pc = "preview" /\ op'.job = op.job /\ op'.dir = op.dir
        /\ op'.token = op.token /\ op'.todo = op.todo \ {i} /\ op'.found = op.found
    BY <1>1, <1>3 DEF IsOperation
  <2>2. QED
    BY <1>1, <1>3, <2>1 DEF Continues, Active
<1>4. CASE /\ op' = [[op EXCEPT !.todo = @ \ {i}] EXCEPT
                        !.found = [k \in DOMAIN @ \cup {i} |-> IF k = i THEN item ELSE @[k]]]
           /\ Wanted(op.dir, a.status) /\ PreviewAccepts(op.job, i, op.dir)
  <2>1. item.version = snap.version
    OBVIOUS
  <2> HIDE DEF item
  <2>2. /\ op'.pc = "preview" /\ op'.job = op.job /\ op'.dir = op.dir
        /\ op'.todo = op.todo \ {i} /\ op'.found = F
    BY <1>1, <1>4 DEF IsOperation
  <2>3. /\ DOMAIN F = DOMAIN op.found \cup {i} /\ F[i] = item
        /\ \A k \in DOMAIN op.found \ {i} : F[k] = op.found[k]
    OBVIOUS
  <2> HIDE DEF F
  <2>4. QED
    BY <1>1, <1>4, <2>1, <2>2, <2>3 DEF PreviewsOneMore
<1>5. QED
  BY <1>2, <1>3, <1>4 DEF PreviewRead, GiveWay

LEMMA OperationSteps ==
  ASSUME Typed, [Next]_vars
  PROVE  \/ op'.pc \in {"idle", "prepare"}
         \/ \E j \in Jobs : \E dir \in Directions :
               BeginPreview(j, dir) /\ op'.pc = "preview" /\ op'.found = <<>>
         \/ \E i \in Turn("apply") : PreviewRead(i) /\ PreviewsOneMore(i)
         \/ \E j \in Jobs : \E token \in 1 .. tokens : BeginExecute(j, token)
         \/ Continues
<1>1. CASE op' = op
  <2>1. op.pc \in Active => Continues
    BY <1>1 DEF Continues
  <2>2. op.pc \in Active \cup {"idle", "prepare"}
    BY IdlePC DEF Typed, TypeInv, TypeOK, OperationOK, IsOperation, OpPCs, Active, Dispatching
  <2>3. QED
    BY <1>1, <2>1, <2>2
<1>2. CASE op' = Idle
  BY <1>2, IdlePC
<1>3. CASE Begin
  <2>1. ASSUME NEW j \in Jobs, NEW dir \in Directions, BeginPreview(j, dir)
        PROVE  op'.pc = "preview" /\ op'.found = <<>>
    BY <2>1 DEF BeginPreview, Starting
  <2>2. ASSUME NEW j \in Jobs, BeginPrepare(j)
        PROVE  op'.pc = "prepare"
    BY <2>2 DEF BeginPrepare, Starting
  <2>3. QED
    BY <1>1, <1>3, <2>1, <2>2 DEF Begin, View
<1>4. CASE OpStep
  <2>1. ASSUME NEW i \in Turn("apply"), PrepareRead(i)
        PROVE  op'.pc \in {"idle", "prepare"}
    <3>1. op.pc = "prepare" /\ IsOperation(op)
      BY <2>1, InOperation DEF PrepareRead, Typed, TypeInv, TypeOK
    <3>2. QED
      BY <2>1, <3>1, IdlePC DEF PrepareRead, GiveWay, IsOperation
  <2>2. ASSUME NEW i \in Turn(op.dir), Check(i) \/ Reconcile(i) \/ Intend(i)
        PROVE  op' = Idle \/ Continues
    <3>1. op.pc \in {"check", "next"} /\ IsOperation(op)
      BY <2>2, InOperation DEF Check, Reconcile, Intend, Typed, TypeInv, TypeOK
    <3>2. \/ op' = Idle \/ op' = [op EXCEPT !.todo = @ \ {i}]
          \/ op' = [op EXCEPT !.pc = "send", !.at = i, !.todo = @ \ {i}]
      BY <2>2 DEF Check, Reconcile, Intend, GiveWay
    <3>3. QED
      BY <3>1, <3>2 DEF Continues, Active, Dispatching, IsOperation
  <2>3. ASSUME Consume
        PROVE  Continues
    <3>1. op.pc = "check" /\ IsOperation(op)
          /\ op' = [op EXCEPT !.pc = "next", !.todo = DOMAIN op.found]
      BY <2>3, InOperation DEF Consume, Typed, TypeInv, TypeOK
    <3>2. QED
      BY <3>1 DEF Continues, Active, IsOperation
  <2>4. ASSUME PermissionLost \/ Send \/ TimeOut \/ ReadBack \/ RecordFailure
        PROVE  op' = Idle \/ Continues
    <3>1. op.pc \in Dispatching
          /\ (op' = Idle \/ \E p \in {"wait", "lost", "next"} : op' = [op EXCEPT !.pc = p])
      BY <2>4 DEF PermissionLost, Send, TimeOut, ReadBack, RecordFailure, Dispatching
    <3>2. IsOperation(op)
      BY <3>1, Dispatched DEF Typed
    <3>3. QED
      BY <3>1, <3>2 DEF Continues, Active, Dispatching, IsOperation
  <2>5. Finish \/ Abandon \/ PrepareSave \/ PreviewSave => op' = Idle
    BY DEF Finish, Abandon, GiveWay, PrepareSave, PreviewSave
  <2>6. ASSUME NEW i \in Turn("apply"), PreviewRead(i)
        PROVE  op' = Idle \/ PreviewsOneMore(i) \/ Continues
    BY <2>6, PreviewReads
  <2>7. QED
    BY <1>2, <1>4, <2>1, <2>2, <2>3, <2>4, <2>5, <2>6 DEF OpStep
<1>5. CASE Environment
  <2>1. ASSUME NEW q \in net, ServerWrites(q) \/ ServerRefuses(q), op' # op
        PROVE  Continues
    <3>1. op.pc = "wait" /\ \E p \in {"ok", "refused", "lost"} : op' = [op EXCEPT !.pc = p]
      BY <2>1 DEF ServerWrites, ServerRefuses, Answer
    <3>2. IsOperation(op)
      BY <3>1, Dispatched DEF Typed, Dispatching
    <3>3. QED
      BY <3>1, <3>2 DEF Continues, Active, Dispatching, IsOperation
  <2>2. QED
    BY <1>1, <1>2, <1>5, <2>1 DEF Environment, OutsideEdit, Restart
<1>6. QED
  BY <1>1, <1>3, <1>4, <1>5 DEF Next, vars

\* A plan stands, is gone, or is the one that a preview has just saved.
LEMMA PlanSteps ==
  ASSUME Typed, [Next]_vars
  PROVE  \A j \in DOMAIN ledger' :
            \/ j \in DOMAIN ledger /\ ledger'[j].plan = ledger[j].plan
            \/ ledger'[j].plan = NoPlan
            \/ /\ PreviewSave /\ j = op.job /\ j \in DOMAIN ledger
               /\ ledger'[j].plan.dir = op.dir /\ ledger'[j].plan.items = op.found
<1>1. LedgerOK
  BY DEF Typed, TypeInv, TypeOK
<1>2. CASE UNCHANGED ledger
  BY <1>2
<1>3. CASE PreviewSave /\ ~UNCHANGED ledger
  <2> DEFINE p == [token |-> tokens', dir |-> op.dir, items |-> op.found]
  <2>1. Commit(op.job, [ledger[op.job] EXCEPT !.plan = p])
    BY <1>3 DEF PreviewSave
  <2>2. p.dir = op.dir /\ p.items = op.found
    OBVIOUS
  <2>3. op.job \in DOMAIN ledger /\ IsReceipt(ledger[op.job], op.job)
    BY <1>1, <1>3 DEF PreviewSave, Typed, TypeInv, GateOK, LedgerOK
  <2> HIDE DEF p
  <2>4. [ledger[op.job] EXCEPT !.plan = p].plan = p
    BY <2>3 DEF IsReceipt
  <2>5. QED
    BY <1>3, <2>1, <2>2, <2>3, <2>4 DEF Commit
<1>4. CASE Consume
  <2> DEFINE old == ledger[op.job]
             started == old.undoStarted \/ op.dir = "undo"
             new == [old EXCEPT !.lastToken = op.token, !.plan = NoPlan,
                                !.attempts = @ + 1, !.undoStarted = started]
  <2>1. Commit(op.job, new)
    BY Zenon, <1>4 DEF Consume
  <2>2. op.job \in DOMAIN ledger /\ IsReceipt(ledger[op.job], op.job)
    BY <1>1, <1>4 DEF Consume, Typed, TypeInv, GateOK, LedgerOK
  <2> HIDE DEF started
  <2>3. new.plan = NoPlan
    BY <2>2 DEF IsReceipt
  <2> HIDE DEF new
  <2>4. QED
    BY <2>1, <2>3 DEF Commit
<1>5. CASE Restart
  BY <1>5, LoadedSame DEF Restart
<1>6. ASSUME NEW j \in Jobs, View(j) \/ \E dir \in Directions : BeginPreview(j, dir)
      PROVE  PlansStand
  <2>1. j \in DOMAIN ledger /\ Commit(j, Load(ledger[j]))
    BY <1>6 DEF View, BeginPreview
  <2>2. QED
    BY <2>1, LoadedSame DEF Commit, PlansStand
<1>7. CASE PrepareSave
  BY <1>7 DEF PrepareSave, Commit
<1>8. ASSUME NEW j \in DOMAIN ledger, NEW i \in Indices(j), j = op.job, Commits(j, i)
      PROVE  PlansStand
  <2>1. CASE UNCHANGED ledger
    BY <2>1 DEF PlansStand
  <2>2. ASSUME NEW b \in Action, SetAction(j, i, b)
        PROVE  PlansStand
    BY <1>1, <2>2, SetActionPlans DEF PlansStand
  <2>3. QED
    BY <1>8, <2>1, <2>2, CommittedAction DEF Commits
<1>9. QED
  BY <1>2, <1>3, <1>4, <1>5, <1>6, <1>7, <1>8, LedgerSteps DEF Quiet, PlansStand

-----------------------------------------------------------------------------
(* Nothing is overwritten.  For a record the server tests the values itself;   *)
(* for a text it tests the version only, so a version that is still the        *)
(* previewed one must mean that the previewed text is still there.            *)

Seen(j, i, dir, v) ==
    LET snap == remote[ResourceOf(j, i)] IN
    /\ v <= snap.version
    /\ v = snap.version => Matches(snap.body, j, ledger[j].acts[i], dir = "undo")

\* A preview accepts a text only at the version that its receipt has recorded, and
\* either kind of resource only as the receipt describes it.
PlansSeen ==
    \A j \in DOMAIN ledger : ledger[j].plan.dir # "reconcile" =>
        \A i \in DOMAIN ledger[j].plan.items :
            Seen(j, i, ledger[j].plan.dir, ledger[j].plan.items[i].version)

StepsSeen ==
    op.pc \in Active /\ op.dir # "reconcile" =>
        \A i \in DOMAIN op.found : Seen(op.job, i, op.dir, op.found[i].version)

RequestsSeen == \A q \in net : Seen(q.job, q.index, q.dir, q.version)

SeenInv == PlansSeen /\ StepsSeen /\ RequestsSeen

LEMMA VersionsGrow ==
  ASSUME Typed, [Next]_vars
  PROVE  RemoteMoves
<1>1. RemoteOK /\ \A r \in Resources : remote[r].version \in Nat
  BY DEF Typed, TypeInv, TypeOK, RemoteOK
<1>2. ASSUME NEW s, NEW B, remote' = [remote EXCEPT ![s] = [version |-> @.version + 1, body |-> B]]
      PROVE  RemoteMoves
  <2>1. \A r \in Resources : r # s => remote'[r] = remote[r]
    BY <1>1, <1>2 DEF RemoteOK
  <2>2. s \in Resources => remote'[s].version = remote[s].version + 1
    BY <1>1, <1>2 DEF RemoteOK
  <2>3. QED
    BY <1>1, <2>1, <2>2 DEF RemoteMoves
<1>3. UNCHANGED remote => RemoteMoves
  BY DEF RemoteMoves
<1>4. ASSUME NEW q \in net, ServerWrites(q)
      PROVE  RemoteMoves
  <2> DEFINE r == ResourceOf(q.job, q.index)
             a == ledger[q.job].acts[q.index]
             value(f) == IF q.dir = "apply" THEN q.job ELSE a.before[f]
             B == [f \in Fields |-> IF f \in a.touched THEN value(f) ELSE remote[r].body[f]]
  <2>1. remote' = [remote EXCEPT ![r] = [version |-> @.version + 1, body |->
             [f \in Fields |-> IF f \in a.touched THEN value(f) ELSE @.body[f]]]]
    BY <1>4 DEF ServerWrites
  <2>2. remote' = [remote EXCEPT ![r] = [version |-> @.version + 1, body |-> B]]
    BY <2>1
  <2> HIDE DEF B
  <2>3. QED
    BY <1>2, <2>2
<1>5. ASSUME NEW r \in Resources, NEW f \in Fields, NEW v \in Values, OutsideEdit(r, f, v)
      PROVE  RemoteMoves
  <2> DEFINE B == [remote[r].body EXCEPT ![f] = v]
  <2>1. remote' = [remote EXCEPT ![r] = [version |-> @.version + 1, body |-> B]]
    BY <1>5 DEF OutsideEdit
  <2> HIDE DEF B
  <2>2. QED
    BY <1>2, <2>1
<1>6. Begin \/ UNCHANGED vars => UNCHANGED remote
  BY DEF Begin, BeginPrepare, View, BeginPreview, BeginExecute, environment, vars
<1>7. OpStep => UNCHANGED remote
  BY DEF OpStep, PrepareRead, PreviewRead, Check, Reconcile, Intend, PrepareSave, PreviewSave,
         Consume, PermissionLost, Send, TimeOut, ReadBack, RecordFailure, Finish, Abandon,
         environment
<1>8. Environment => RemoteMoves
  BY <1>3, <1>4, <1>5 DEF Environment, ServerRefuses, Restart, environment
<1>9. QED
  BY <1>3, <1>6, <1>7, <1>8 DEF Next

LEMMA SeenStays ==
  ASSUME Typed, RemoteOK', SameSides, RemoteMoves
  PROVE  \A j \in DOMAIN ledger : \A i \in Indices(j) : \A d : \A v \in Nat :
            Seen(j, i, d, v) => Seen(j, i, d, v)'
<1>1. TAKE j \in DOMAIN ledger
<1>1a. TAKE i \in Indices(j)
<1>2. TAKE d
<1>3. TAKE v \in Nat
<1>4. HAVE Seen(j, i, d, v)
<1> DEFINE r == ResourceOf(j, i)
<1>5. /\ j \in Jobs /\ r \in Resources
      /\ remote[r].version \in Nat /\ remote'[r].version \in Nat
  BY IndicesInAll DEF Typed, TypeInv, TypeOK, LedgerOK, RemoteOK
<1>6. /\ ledger'[j].acts[i].touched = ledger[j].acts[i].touched
      /\ ledger'[j].acts[i].before = ledger[j].acts[i].before
  BY DEF SameSides
<1>7. CASE remote'[r] = remote[r]
  <2>1. \A after : Matches(remote[r].body, j, ledger[j].acts[i], after)
                      => Matches(remote[r].body, j, ledger'[j].acts[i], after)
    BY <1>6 DEF Matches
  <2>2. QED
    BY <1>4, <1>7, <2>1 DEF Seen
<1>8. CASE remote'[r].version > remote[r].version
  BY <1>4, <1>5, <1>8 DEF Seen
<1>9. QED
  BY <1>5, <1>7, <1>8 DEF RemoteMoves

\* The items of a plan, of an operation, and of a request are about changes that
\* their job has, at versions that are numbers.
LEMMA ItemsSound ==
  ASSUME Typed
  PROVE  /\ \A j \in DOMAIN ledger : \A i \in DOMAIN ledger[j].plan.items :
               i \in Indices(j) /\ ledger[j].plan.items[i].version \in Nat
         /\ op.pc \in Active =>
               /\ op.job \in DOMAIN ledger
               /\ \A i \in DOMAIN op.found : i \in Indices(op.job) /\ op.found[i].version \in Nat
         /\ \A q \in net : q.job \in DOMAIN ledger /\ q.index \in Indices(q.job)
                           /\ q.version \in Nat
<1>1. LedgerOK /\ OperationOK /\ RequestsOK /\ GateOK /\ RequestsHeld
  BY DEF Typed, TypeInv, TypeOK
<1>2. ASSUME NEW j, NEW f, IsItems(f, j)
      PROVE  \A i \in DOMAIN f : i \in Indices(j) /\ f[i].version \in Nat
  BY <1>2 DEF IsItems, Item
<1>3. ASSUME NEW j \in DOMAIN ledger
      PROVE  IsItems(ledger[j].plan.items, j)
  <2>1. IsPlan(ledger[j].plan, j)
    BY <1>1 DEF LedgerOK, IsReceipt
  <2>2. NoPlan.items = <<>>
    BY DEF NoPlan
  <2>3. QED
    BY <2>1, <2>2, EmptyPlan DEF IsPlan
<1>4. ASSUME op.pc \in Active
      PROVE  op.job \in DOMAIN ledger /\ IsItems(op.found, op.job)
  <2>1. op.pc \notin {"idle", "prepare"}
    BY <1>4 DEF Active, Dispatching
  <2>2. QED
    BY <1>1, <2>1, InOperation DEF GateOK, IsOperation
<1>5. \A q \in net : q.version \in Nat /\ q.index \in Indices(q.job)
  BY <1>1 DEF RequestsOK, Request
<1>6. QED
  BY <1>1, <1>2, <1>3, <1>4, <1>5 DEF RequestsHeld

LEMMA NextSeen ==
  ASSUME Typed, Typed', OnOperation, SeenInv, [Next]_vars
  PROVE  SeenInv'
<1>1. \A j \in DOMAIN ledger : \A i \in Indices(j) : \A d : \A v \in Nat :
         Seen(j, i, d, v) => Seen(j, i, d, v)'
  BY SidesStay, VersionsGrow, SeenStays DEF Typed, TypeInv, TypeOK
<1>2. DOMAIN ledger \subseteq DOMAIN ledger'
  BY SidesStay DEF SameSides
<1>3. PlansSeen'
  <2>1. ASSUME NEW j \in DOMAIN ledger', NEW d, d = ledger'[j].plan.dir, d # "reconcile",
               NEW i \in DOMAIN ledger'[j].plan.items, NEW v, v = ledger'[j].plan.items[i].version
        PROVE  Seen(j, i, d, v)'
    <3>1. ledger'[j].plan # NoPlan
      BY <2>1, EmptyPlan DEF NoPlan
    <3>2. CASE j \in DOMAIN ledger /\ ledger'[j].plan = ledger[j].plan
      <4>1. Seen(j, i, d, v) /\ i \in Indices(j) /\ v \in Nat
        BY <2>1, <3>2, ItemsSound DEF SeenInv, PlansSeen
      <4>2. QED
        BY <1>1, <3>2, <4>1
    <3>3. CASE PreviewSave /\ j = op.job /\ j \in DOMAIN ledger
               /\ ledger'[j].plan.dir = op.dir /\ ledger'[j].plan.items = op.found
      <4>1. op.pc \in Active
        BY <3>3 DEF PreviewSave, Active
      <4>2. Seen(j, i, d, v) /\ i \in Indices(j) /\ v \in Nat
        BY <2>1, <3>3, <4>1, ItemsSound DEF SeenInv, StepsSeen
      <4>3. QED
        BY <1>1, <3>3, <4>2
    <3>4. QED
      BY <3>1, <3>2, <3>3, PlanSteps
  <2>2. QED
    BY <2>1 DEF PlansSeen
<1>4. StepsSeen'
  <2>1. CASE op'.pc \in {"idle", "prepare"}
    BY <2>1 DEF StepsSeen, Active, Dispatching
  <2>2. CASE op'.pc = "preview" /\ op'.found = <<>>
    BY <2>2, EmptyPlan DEF StepsSeen
  <2>3. CASE Continues
    <3>1. \A i \in DOMAIN op.found : i \in Indices(op.job) /\ op.found[i].version \in Nat
          /\ op.job \in DOMAIN ledger
      BY <2>3, ItemsSound DEF Continues
    <3>2. op.dir # "reconcile" =>
             \A i \in DOMAIN op.found : Seen(op.job, i, op.dir, op.found[i].version)
      BY <2>3 DEF SeenInv, StepsSeen, Continues
    <3>3. QED
      <4>1. ASSUME op.dir # "reconcile", NEW i \in DOMAIN op.found,
                   NEW j, j = op.job, NEW d, d = op.dir, NEW v, v = op.found[i].version
            PROVE  Seen(j, i, d, v)'
        BY <1>1, <3>1, <3>2, <4>1
      <4>2. QED
        BY <2>3, <4>1 DEF Continues, StepsSeen
  <2>4. ASSUME NEW i \in Turn("apply"), PreviewRead(i), PreviewsOneMore(i)
        PROVE  StepsSeen'
    <3>1. op.pc \in Active /\ op.job \in DOMAIN ledger /\ i \in Indices(op.job)
      <4>1. op.pc = "preview" /\ i \in op.todo
        BY <2>4 DEF PreviewsOneMore, Turn
      <4>2. QED
        BY <4>1, InOperation, ItemsSound DEF Active, IsOperation, Typed, TypeInv, TypeOK
    <3>2. ASSUME op.dir # "reconcile", NEW k \in DOMAIN op'.found,
                 NEW j, j = op.job, NEW d, d = op.dir, NEW v, v = op'.found[k].version
          PROVE  Seen(j, k, d, v)'
      <4>1. CASE k # i
        <5>1. k \in DOMAIN op.found /\ v = op.found[k].version
          BY <2>4, <3>2, <4>1 DEF PreviewsOneMore
        <5>2. Seen(j, k, d, v) /\ k \in Indices(j) /\ v \in Nat
          BY <3>1, <3>2, <5>1, ItemsSound DEF SeenInv, StepsSeen
        <5>3. QED
          BY <1>1, <3>1, <3>2, <5>2
      <4>2. CASE k = i
        <5>1. v = remote[ResourceOf(j, i)].version
              /\ PreviewAccepts(j, i, d) /\ d # "reconcile"
          BY <2>4, <3>2, <4>2 DEF PreviewsOneMore
        <5>2. ResourceOf(j, i) \in Resources
          BY <3>1, <3>2, IndicesInAll DEF Typed, TypeInv, TypeOK, LedgerOK
        <5>3. v \in Nat
          BY <5>1, <5>2 DEF Typed, TypeInv, TypeOK, RemoteOK
        <5>4. Seen(j, i, d, v)
          BY <5>1, <5>3 DEF PreviewAccepts, Seen
        <5>5. QED
          BY <1>1, <3>1, <3>2, <4>2, <5>3, <5>4
      <4>3. QED
        BY <4>1, <4>2
    <3>3. QED
      BY <2>4, <3>2 DEF PreviewsOneMore, StepsSeen
  <2>5. ASSUME NEW j \in Jobs, NEW token \in 1 .. tokens, BeginExecute(j, token)
        PROVE  StepsSeen'
    <3>1. j \in DOMAIN ledger /\ op'.job = j /\ op'.dir = ledger[j].plan.dir
          /\ op'.found = ledger[j].plan.items
      BY <2>5 DEF BeginExecute, Starting
    <3>2. ASSUME ledger[j].plan.dir # "reconcile", NEW i \in DOMAIN ledger[j].plan.items,
                 NEW d, d = ledger[j].plan.dir, NEW v, v = ledger[j].plan.items[i].version
          PROVE  Seen(j, i, d, v)'
      <4>1. Seen(j, i, d, v) /\ i \in Indices(j) /\ v \in Nat
        BY <3>1, <3>2, ItemsSound DEF SeenInv, PlansSeen
      <4>2. QED
        BY <1>1, <3>1, <4>1
    <3>3. QED
      BY <3>1, <3>2 DEF StepsSeen
  <2>6. QED
    BY <2>1, <2>2, <2>3, <2>4, <2>5, OperationSteps
<1>5. RequestsSeen'
  <2>1. ASSUME NEW q \in net
        PROVE  Seen(q.job, q.index, q.dir, q.version)'
    <3>1. /\ q.job \in DOMAIN ledger /\ q.index \in Indices(q.job) /\ q.version \in Nat
          /\ Seen(q.job, q.index, q.dir, q.version)
      BY ItemsSound DEF SeenInv, RequestsSeen
    <3>2. QED
      BY <1>1, <3>1
  <2>2. CASE net' \subseteq net
    BY <2>1, <2>2 DEF RequestsSeen
  <2>3. CASE Send
    <3>1. /\ op.pc \in Dispatching /\ op.pc \in Active /\ net' = net \cup {Own}
          /\ Own.job = op.job /\ Own.index = op.at /\ Own.dir = op.dir
          /\ Own.version = op.found[op.at].version
      BY <2>3 DEF Send, Own, Dispatching, Active
    <3>2. op.dir # "reconcile" /\ op.at \in DOMAIN op.found
      BY <3>1, Dispatched DEF Typed, TypeInv, GateOK
    <3>3. ASSUME NEW j, j = op.job, NEW i, i = op.at, NEW d, d = op.dir,
                 NEW v, v = op.found[op.at].version
          PROVE  Seen(j, i, d, v)'
      <4>1. Seen(j, i, d, v) /\ j \in DOMAIN ledger /\ i \in Indices(j) /\ v \in Nat
        BY <3>1, <3>2, <3>3, ItemsSound DEF SeenInv, StepsSeen
      <4>2. QED
        BY <1>1, <4>1
    <3>4. ASSUME NEW q, q = Own
          PROVE  Seen(q.job, q.index, q.dir, q.version)'
      BY <3>1, <3>3, <3>4
    <3>5. QED
      BY <2>1, <3>1, <3>4 DEF RequestsSeen
  <2>4. ~Send => net' \subseteq net
    BY DEF Next, vars, Begin, BeginPrepare, View, BeginPreview, BeginExecute, environment,
           OpStep, PrepareRead, PreviewRead, Check, Reconcile, Intend, PrepareSave, PreviewSave,
           Consume, PermissionLost, TimeOut, ReadBack, RecordFailure, Finish, Abandon,
           Environment, ServerWrites, ServerRefuses, OutsideEdit, Restart
  <2>5. QED
    BY <2>2, <2>3, <2>4
<1>6. QED
  BY <1>3, <1>4, <1>5 DEF SeenInv

LEMMA InitSeen == Init => SeenInv
<1> SUFFICES ASSUME Init PROVE SeenInv
  OBVIOUS
<1>1. DOMAIN ledger = {} /\ op.pc = "idle" /\ net = {}
  BY EmptyPlan, IdlePC DEF Init
<1>2. QED
  BY <1>1 DEF SeenInv, PlansSeen, StepsSeen, RequestsSeen, Active, Dispatching

\* A write replaces exactly the values that its receipt has recorded: what somebody
\* else has put there since the preview is not overwritten (If-Match with the
\* previewed version, and the tests of the patch, in internal/safeundo).
THEOREM EditsOfOthersSurvive == Spec => NothingOverwritten
<1> DEFINE Inv == Typed /\ OnLedger /\ OnOperation /\ SeenInv
           Exact == \A q \in net : ServerWrites(q) =>
              Matches(remote[ResourceOf(q.job, q.index)].body, q.job,
                      ledger[q.job].acts[q.index], q.dir = "undo")
<1>1. Init => Inv
  BY InitTyped, InitKnows, InitSeen DEF Typed
<1>2. Inv /\ [Next]_vars => Inv'
  <2>1. Typed /\ [Next]_vars => Typed'
    BY StepsTyped, RequestsStayHeld DEF Typed
  <2>2. QED
    BY <2>1, NextKnows, NextSeen
<1>3. Inv => Exact
  BY DEF SeenInv, RequestsSeen, Seen, ServerWrites
<1>4. Inv /\ [Next]_vars => [Exact]_vars
  BY <1>3
<1> HIDE DEF Inv
<1>5. QED
  BY <1>1, <1>2, <1>4, PTL DEF Spec, NothingOverwritten

-----------------------------------------------------------------------------
(* Undo runs in order.  The order of a change is fixed when its write is        *)
(* announced; a plan to undo takes in every applied change of its job, and no   *)
(* other job can come in between while the operation holds the gate.           *)

OrderOf(j, i) == ledger[j].acts[i].order
StatusIn(j, i) == ledger[j].acts[i].status

OrdersCounted ==
    \A j \in DOMAIN ledger : \A i \in Indices(j) :
        OrderOf(j, i) <= orders /\ (StatusIn(j, i) # "pending" => OrderOf(j, i) # 0)

OrdersDistinct ==
    \A j, k \in DOMAIN ledger : \A i \in Indices(j) : \A m \in Indices(k) :
        OrderOf(j, i) = OrderOf(k, m) /\ OrderOf(j, i) # 0 => j = k /\ i = m

\* A plan to undo has every change of its job that is applied.
PlansWhole ==
    \A j \in DOMAIN ledger : ledger[j].plan.dir = "undo" =>
        \A i \in Indices(j) : StatusIn(j, i) = "applied" => i \in DOMAIN ledger[j].plan.items

StepsWhole ==
    op.dir = "undo" =>
        /\ op.pc = "preview" =>
              \A i \in Indices(op.job) \ op.todo :
                  StatusIn(op.job, i) = "applied" => i \in DOMAIN op.found
        /\ op.pc = "check" =>
              \A i \in Indices(op.job) : StatusIn(op.job, i) = "applied" => i \in DOMAIN op.found
        /\ op.pc \in Dispatching \cup {"next"} =>
              \A i \in Indices(op.job) : StatusIn(op.job, i) = "applied" => i \in op.todo
        /\ op.pc \in Dispatching => \A i \in op.todo : i < op.at

\* What has been checked stays clear of other jobs until it is sent.
StepsClear ==
    op.dir = "undo" =>
        /\ op.pc = "check" =>
              \A i \in DOMAIN op.found \ op.todo : ~Competing(op.job, i, "undo")
        /\ op.pc \in Dispatching \cup {"next"} =>
              \A i \in op.todo : ~Competing(op.job, i, "undo")
        /\ op.pc = "send" => ~Competing(op.job, op.at, "undo")

Ordered == OrdersCounted /\ OrdersDistinct
Planned == PlansWhole /\ StepsWhole /\ StepsClear

\* Only an announcement is about an action that is not in doubt, and only it counts
\* an order.
LEMMA CommittedStatus ==
  ASSUME Typed, OnOperation, NEW j \in DOMAIN ledger, j = op.job, NEW i \in Indices(j),
         Commits(j, i), ~(Intend(i) /\ op.pc = "next"), ~UNCHANGED ledger
  PROVE  StatusIn(j, i) \in Uncertain /\ UNCHANGED orders
<1>1. ASSUME op.pc = "next", i \in op.todo, Reconcile(i)
      PROVE  StatusIn(j, i) \in Uncertain /\ UNCHANGED orders
  <2>1. Fits(j, i, op.dir, op.found[i])
    BY <1>1 DEF OnOperation, StepsFit
  <2>2. QED
    BY <1>1, <2>1 DEF Reconcile, Fits, Certain, StatusIn, counters
<1>2. ASSUME op.pc \in Dispatching, i = op.at, PermissionLost \/ ReadBack \/ RecordFailure
      PROVE  StatusIn(j, i) \in Uncertain /\ UNCHANGED orders
  BY <1>2 DEF OnOperation, DispatchKnown, StatusIn, Uncertain, PermissionLost, ReadBack,
              RecordFailure, counters
<1>3. QED
  BY <1>1, <1>2 DEF Commits

LEMMA OrdersTyped ==
  ASSUME Typed
  PROVE  /\ orders \in Nat
         /\ \A j \in DOMAIN ledger : \A i \in Indices(j) :
               OrderOf(j, i) \in Nat /\ StatusIn(j, i) \in Statuses
<1>1. LedgerOK /\ orders \in Nat
  BY DEF Typed, TypeInv, TypeOK, HistoryOK
<1>2. \A j \in DOMAIN ledger : \A i \in Indices(j) : ledger[j].acts[i] \in Action
  BY <1>1, ActionOf
<1>3. QED
  BY <1>1, <1>2 DEF OrderOf, StatusIn, Action

LEMMA OrdersGrow ==
  ASSUME Typed, [Next]_vars
  PROVE  orders' \in Nat /\ orders' >= orders
<1>1. orders \in Nat
  BY OrdersTyped
<1>2. \A i : Intend(i) => orders' = orders \/ orders' = orders + 1
  BY DEF Intend
<1>3. UNCHANGED orders \/ \E i : Intend(i)
  BY DEF Next, vars, counters, Begin, BeginPrepare, View, BeginPreview, BeginExecute,
         OpStep, PrepareRead, PreviewRead, Check, Reconcile, PrepareSave, PreviewSave,
         Consume, PermissionLost, Send, TimeOut, ReadBack, RecordFailure, Finish, Abandon,
         Environment, ServerWrites, ServerRefuses, OutsideEdit, Restart
<1>4. QED
  BY <1>1, <1>2, <1>3

LEMMA NextOrdered ==
  ASSUME Typed, OnOperation, Ordered, [Next]_vars
  PROVE  Ordered'
<1>1. LedgerOK /\ orders \in Nat
      /\ \A j \in DOMAIN ledger : \A i \in Indices(j) : OrderOf(j, i) \in Nat
  BY OrdersTyped DEF Typed, TypeInv, TypeOK
<1>2. CASE Quiet
  <2>1. SameDetails
    BY <1>2, QuietDetails DEF Quiet
  <2>2. orders' \in Nat /\ orders' >= orders
    BY <1>1, OrdersGrow
  <2>3. QED
    BY <1>1, <2>1, <2>2 DEF SameDetails, Ordered, OrdersCounted, OrdersDistinct, OrderOf, StatusIn
<1>3. CASE PrepareSave
  <2>1. /\ op.job \notin DOMAIN ledger /\ UNCHANGED orders
        /\ \A i \in DOMAIN op.found : op.found[i].status = "pending" /\ op.found[i].order = 0
    BY <1>3 DEF PrepareSave, OnOperation, DraftsPending, counters
  <2>2. DOMAIN op.found = Indices(op.job)
    BY <1>3 DEF PrepareSave, Typed, TypeInv, GateOK
  <2>3. /\ DOMAIN ledger' = DOMAIN ledger \cup {op.job} /\ ledger'[op.job].acts = op.found
        /\ \A k \in DOMAIN ledger : k # op.job => ledger'[k] = ledger[k]
    BY <1>3 DEF PrepareSave, Commit
  <2>4. \A i \in Indices(op.job) :
           ledger'[op.job].acts[i].status = "pending" /\ ledger'[op.job].acts[i].order = 0
    BY <2>1, <2>2, <2>3
  <2>5. \A j \in DOMAIN ledger' : j = op.job \/ (j \in DOMAIN ledger /\ ledger'[j] = ledger[j])
    BY <2>1, <2>3
  <2>6. OrdersCounted'
    BY <1>1, <2>1, <2>4, <2>5 DEF Ordered, OrdersCounted, OrderOf, StatusIn
  <2>7. OrdersDistinct'
    BY <2>4, <2>5 DEF Ordered, OrdersDistinct, OrderOf
  <2>8. QED
    BY <2>6, <2>7 DEF Ordered
<1>4. ASSUME NEW j \in DOMAIN ledger, NEW i \in Indices(j), j = op.job, Commits(j, i),
             ~UNCHANGED ledger
      PROVE  Ordered'
  <2>1. PICK b \in Action :
           /\ SetAction(j, i, b)
           /\ b.order = IF Intend(i) /\ op.pc = "next" /\ StatusIn(j, i) # "applied"
                        THEN orders + 1 ELSE OrderOf(j, i)
    BY <1>4, CommittedAction DEF Commits, StatusIn, OrderOf
  <2>2. /\ DOMAIN ledger' = DOMAIN ledger /\ ledger'[j].acts[i] = b
        /\ \A k \in DOMAIN ledger : \A m \in Indices(k) :
              k # j \/ m # i => ledger'[k].acts[m] = ledger[k].acts[m]
    BY <1>1, <2>1, ActionSides
  <2>3. CASE Intend(i) /\ op.pc = "next" /\ StatusIn(j, i) # "applied"
    <3>1. orders' = orders + 1
      BY <1>4, <2>3 DEF Intend, StatusIn
    <3>2. QED
      BY <1>1, <2>1, <2>2, <2>3, <3>1
         DEF Ordered, OrdersCounted, OrdersDistinct, OrderOf, StatusIn
  <2>4. CASE ~(Intend(i) /\ op.pc = "next" /\ StatusIn(j, i) # "applied")
    <3>1. StatusIn(j, i) # "pending" /\ UNCHANGED orders
      <4>1. CASE Intend(i) /\ op.pc = "next"
        BY <1>4, <2>4, <4>1 DEF Intend, StatusIn
      <4>2. CASE ~(Intend(i) /\ op.pc = "next")
        BY <1>4, <4>2, CommittedStatus DEF Uncertain
      <4>3. QED
        BY <4>1, <4>2
    <3>2. OrderOf(j, i) # 0 /\ b.order = OrderOf(j, i)
      BY <2>1, <2>4, <3>1 DEF Ordered, OrdersCounted
    <3>3. QED
      BY <1>1, <2>1, <2>2, <3>1, <3>2
         DEF Ordered, OrdersCounted, OrdersDistinct, OrderOf, StatusIn
  <2>5. QED
    BY <2>3, <2>4
<1>5. QED
  BY <1>2, <1>3, <1>4, LedgerSteps DEF Quiet

\* Nobody else's changes move while the operation holds the gate.
LEMMA StillClear ==
  ASSUME Typed, Typed', NEW j \in DOMAIN ledger, NEW i \in Indices(j),
         ~Competing(j, i, "undo"), DOMAIN ledger' = DOMAIN ledger,
         \A k \in DOMAIN ledger : k # j => ledger'[k].acts = ledger[k].acts,
         ledger'[j].acts[i].touched = ledger[j].acts[i].touched,
         OrderOf(j, i) <= OrderOf(j, i)'
  PROVE  ~Competing(j, i, "undo")'
<1>1. SUFFICES ASSUME Competing(j, i, "undo")'
               PROVE  Competing(j, i, "undo")
  OBVIOUS
<1> DEFINE a == ledger[j].acts[i]
<1>2. PICK k \in DOMAIN ledger \ {j}, m \in AllIndices :
         /\ m \in Indices(k) /\ ResourceOf(k, m) = ResourceOf(j, i)
         /\ Overlap(ResourceOf(j, i), ledger'[j].acts[i], ledger'[k].acts[m])
         /\ \/ ledger'[k].acts[m].status \in Uncertain
            \/ /\ ledger'[k].acts[m].status = "applied"
               /\ ledger'[k].acts[m].order > ledger'[j].acts[i].order
  BY <1>1, IndicesInAll DEF Competing, Typed, TypeInv, TypeOK, LedgerOK
<1>3. ledger'[k].acts[m] = ledger[k].acts[m]
  BY <1>2
<1>4. Overlap(ResourceOf(j, i), a, ledger[k].acts[m])
  BY <1>2, <1>3 DEF Overlap
<1>5. OrderOf(j, i) \in Nat /\ OrderOf(k, m) \in Nat
  BY <1>2, OrdersTyped
<1>6. OrderOf(j, i)' \in Nat
  <2>1. \A n \in DOMAIN ledger' : \A l \in Indices(n) : ledger'[n].acts[l] \in Action
    BY DEF Typed, TypeInv, TypeOK, LedgerOK, IsReceipt
  <2>2. QED
    BY <2>1 DEF OrderOf, Action
<1>7. \/ ledger[k].acts[m].status \in Uncertain
      \/ ledger[k].acts[m].status = "applied" /\ ledger[k].acts[m].order > a.order
  BY <1>2, <1>3, <1>5, <1>6 DEF OrderOf
<1>8. QED
  BY <1>2, <1>4, <1>7 DEF Competing

\* An operation that is not under way to an undo promises nothing.
LEMMA NoUndo ==
  ASSUME op'.pc \in {"idle", "prepare"} \/ op'.dir # "undo"
  PROVE  StepsWhole' /\ StepsClear'
  BY DEF StepsWhole, StepsClear, Dispatching

LEMMA PlansStayWhole ==
  ASSUME Typed, OnOperation, Planned, [Next]_vars
  PROVE  PlansWhole'
<1>1. LedgerOK
  BY DEF Typed, TypeInv, TypeOK
<1>2. ASSUME NEW j \in DOMAIN ledger, ledger'[j].plan = ledger[j].plan,
             ledger[j].plan.dir = "undo", NEW i \in Indices(j), StatusIn(j, i)' = "applied"
      PROVE  StatusIn(j, i) = "applied"
  <2>1. CASE Quiet
    BY <1>2, <2>1, QuietDetails DEF Quiet, SameDetails, StatusIn
  <2>2. CASE PrepareSave
    <3>1. ledger'[j] = ledger[j]
      BY <2>2 DEF PrepareSave, Commit, OnOperation, DraftsPending
    <3>2. QED
      BY <1>2, <3>1 DEF StatusIn
  <2>3. ASSUME NEW k \in DOMAIN ledger, NEW m \in Indices(k), k = op.job, Commits(k, m),
               ~UNCHANGED ledger
        PROVE  StatusIn(j, i) = "applied"
    <3>1. op.pc \in Dispatching \cup {"next"}
      BY <2>3 DEF Commits
    <3>2. k # j
      BY <1>2, <2>3, <3>1 DEF OnOperation, PlanConsumed, NoPlan
    <3>3. \E b \in Action : SetAction(k, m, b)
      BY <2>3, CommittedAction DEF Commits
    <3>4. ledger'[j].acts[i] = ledger[j].acts[i]
      BY <1>1, <2>3, <3>2, <3>3, ActionSides
    <3>5. QED
      BY <1>2, <3>4 DEF StatusIn
  <2>4. QED
    BY <2>1, <2>2, <2>3, LedgerSteps DEF Quiet
<1>3. ASSUME NEW j \in DOMAIN ledger', ledger'[j].plan.dir = "undo",
             NEW i \in Indices(j), ledger'[j].acts[i].status = "applied"
      PROVE  i \in DOMAIN ledger'[j].plan.items
  <2>1. ledger'[j].plan # NoPlan
    BY <1>3 DEF NoPlan
  <2>2. CASE j \in DOMAIN ledger /\ ledger'[j].plan = ledger[j].plan
    BY <1>2, <1>3, <2>2 DEF Planned, PlansWhole, StatusIn
  <2>3. CASE PreviewSave /\ j = op.job /\ j \in DOMAIN ledger
             /\ ledger'[j].plan.dir = op.dir /\ ledger'[j].plan.items = op.found
    <3>1. op.pc = "preview" /\ op.todo = {} /\ ledger'[j].acts = ledger[j].acts
      BY <2>3, PlannedActions DEF PreviewSave, SameActions
    <3>2. QED
      BY <1>3, <2>3, <3>1 DEF Planned, StepsWhole, StatusIn
  <2>4. QED
    BY <2>1, <2>2, <2>3, PlanSteps
<1>4. QED
  BY <1>3 DEF PlansWhole, StatusIn

LEMMA PreviewPlanned ==
  ASSUME Typed, Planned,
         \/ \E j \in Jobs : \/ \E dir \in Directions : BeginPreview(j, dir)
                            \/ \E token \in 1 .. tokens : BeginExecute(j, token)
         \/ \E i \in Turn("apply") : PreviewRead(i)
  PROVE  StepsWhole' /\ StepsClear'
<1>1. ASSUME NEW j \in Jobs, NEW dir \in Directions, BeginPreview(j, dir)
      PROVE  StepsWhole' /\ StepsClear'
  <2>1. op'.pc = "preview" /\ op'.job = j /\ op'.todo = Indices(j)
    BY <1>1 DEF BeginPreview, Starting
  <2>2. QED
    BY <2>1 DEF StepsWhole, StepsClear, Dispatching
<1>2. ASSUME NEW j \in Jobs, NEW token \in 1 .. tokens, BeginExecute(j, token)
      PROVE  StepsWhole' /\ StepsClear'
  <2>1. /\ j \in DOMAIN ledger /\ UNCHANGED ledger /\ op'.pc = "check" /\ op'.job = j
        /\ op'.dir = ledger[j].plan.dir /\ op'.found = ledger[j].plan.items
        /\ op'.todo = DOMAIN ledger[j].plan.items
    BY <1>2 DEF BeginExecute, Starting
  <2>2. QED
    BY <2>1 DEF Planned, PlansWhole, StepsWhole, StepsClear, StatusIn, Dispatching
<1>3. ASSUME NEW i \in Turn("apply"), PreviewRead(i)
      PROVE  StepsWhole' /\ StepsClear'
  <2>1. op.pc = "preview" /\ UNCHANGED ledger
    BY <1>3 DEF PreviewRead
  <2>2. CASE op' = Idle
    BY <2>2, IdlePC, NoUndo
  <2>3. CASE op' # Idle
    <3>1. /\ op'.pc = "preview" /\ op'.todo = op.todo \ {i}
          /\ op'.job = op.job /\ op'.dir = op.dir
          /\ DOMAIN op.found \subseteq DOMAIN op'.found
          /\ i \in DOMAIN op'.found \/ ~Wanted(op.dir, StatusIn(op.job, i))
      BY <1>3, <2>3, PreviewReads DEF PreviewsOneMore, Continues, StatusIn
    <3>2. op.dir = "undo" /\ StatusIn(op.job, i) = "applied" => i \in DOMAIN op'.found
      BY <3>1 DEF Wanted
    <3>3. QED
      BY <2>1, <3>1, <3>2 DEF Planned, StepsWhole, StepsClear, StatusIn, Dispatching
  <2>4. QED
    BY <2>2, <2>3
<1>4. QED
  BY <1>1, <1>2, <1>3

LEMMA CheckPlanned ==
  ASSUME Typed, Typed', Planned, (\E i \in Turn(op.dir) : Check(i)) \/ Consume
  PROVE  StepsWhole' /\ StepsClear'
<1>1. ASSUME NEW i \in Turn(op.dir), Check(i)
      PROVE  StepsWhole' /\ StepsClear'
  <2>1. op.pc = "check" /\ IsOperation(op) /\ UNCHANGED ledger
    BY <1>1, InOperation DEF Check, Typed, TypeInv, TypeOK
  <2>2. CASE op' = Idle
    BY <2>2, IdlePC, NoUndo
  <2>3. CASE op' = [op EXCEPT !.todo = @ \ {i}] /\ ~Competing(op.job, i, op.dir)
    <3>1. /\ op'.pc = "check" /\ op'.job = op.job /\ op'.dir = op.dir
          /\ op'.todo = op.todo \ {i} /\ op'.found = op.found
      BY <2>1, <2>3 DEF IsOperation
    <3>2. ~Competing(op.job, i, "undo")' \/ op.dir # "undo"
      BY <2>1, <2>3, <3>1 DEF Competing
    <3>3. ASSUME op.dir = "undo", NEW m \in DOMAIN op.found \ op.todo
          PROVE  ~Competing(op.job, m, "undo")'
      <4>1. ~Competing(op.job, m, "undo")
        BY <2>1, <3>3 DEF Planned, StepsClear
      <4>2. QED
        BY <2>1, <3>1, <4>1 DEF Competing
    <3>4. StepsClear'
      BY <3>1, <3>2, <3>3 DEF StepsClear, Dispatching
    <3>5. StepsWhole'
      BY <2>1, <3>1 DEF Planned, StepsWhole, StatusIn, Dispatching
    <3>6. QED
      BY <3>4, <3>5
  <2>4. QED
    BY <1>1, <2>2, <2>3 DEF Check, GiveWay
<1>2. CASE Consume
  <2>1. /\ op.pc = "check" /\ IsOperation(op) /\ op.job \in DOMAIN ledger /\ op.todo = {}
        /\ op' = [op EXCEPT !.pc = "next", !.todo = DOMAIN op.found]
    BY <1>2, InOperation DEF Consume, Typed, TypeInv, TypeOK, GateOK
  <2>2. /\ op'.pc = "next" /\ op'.job = op.job /\ op'.dir = op.dir
        /\ op'.todo = DOMAIN op.found
    BY <2>1 DEF IsOperation
  <2>3. SameActions
    BY <1>2, ConsumedActions
  <2>4. StepsWhole'
    BY <2>1, <2>2, <2>3 DEF Planned, StepsWhole, SameActions, StatusIn, Dispatching
  <2>5. ASSUME op.dir = "undo", NEW m \in DOMAIN op.found, NEW j, j = op.job
        PROVE  ~Competing(j, m, "undo")'
    <3>1. ~Competing(j, m, "undo")
      BY <2>1, <2>5 DEF Planned, StepsClear
    <3>2. m \in Indices(j)
      BY <2>1, <2>5 DEF IsOperation, IsItems
    <3>3. OrderOf(j, m) <= OrderOf(j, m)'
      BY <2>1, <2>3, <2>5, <3>2, OrdersTyped DEF SameActions, OrderOf
    <3>4. QED
      BY <2>1, <2>3, <2>5, <3>1, <3>2, <3>3, StillClear DEF SameActions
  <2>6. StepsClear'
    BY <2>2, <2>5 DEF StepsClear, Dispatching
  <2>7. QED
    BY <2>4, <2>6
<1>3. QED
  BY <1>1, <1>2

\* A commit about one action leaves clear what was clear.
LEMMA CommitsClear ==
  ASSUME Typed, Typed', Ordered, NEW j \in DOMAIN ledger, NEW i \in Indices(j),
         NEW b \in Action, SetAction(j, i, b), b.touched = ledger[j].acts[i].touched,
         OrderOf(j, i) <= b.order
  PROVE  /\ \A m \in Indices(j) : ~Competing(j, m, "undo") => ~Competing(j, m, "undo")'
         /\ \A m \in Indices(j) : m # i => StatusIn(j, m)' = StatusIn(j, m)
         /\ StatusIn(j, i)' = b.status
<1>1. LedgerOK
  BY DEF Typed, TypeInv, TypeOK
<1>2. /\ DOMAIN ledger' = DOMAIN ledger /\ ledger'[j].acts[i] = b
      /\ \A m \in Indices(j) : m # i => ledger'[j].acts[m] = ledger[j].acts[m]
  BY <1>1, ActionSides
<1>3. \A k \in DOMAIN ledger : k # j => ledger'[k].acts = ledger[k].acts
  BY <1>1, SetActionTyped
<1>4. ASSUME NEW m \in Indices(j), ~Competing(j, m, "undo")
      PROVE  ~Competing(j, m, "undo")'
  <2>1. OrderOf(j, m) \in Nat
    BY OrdersTyped
  <2>2. /\ ledger'[j].acts[m].touched = ledger[j].acts[m].touched
        /\ OrderOf(j, m) <= OrderOf(j, m)'
    BY <1>2, <2>1 DEF OrderOf
  <2>3. QED
    BY <1>2, <1>3, <1>4, <2>2, StillClear
<1>5. QED
  BY <1>2, <1>4 DEF StatusIn

\* An announcement always shows in the ledger: no action that waits for its turn to
\* be written is already announced.
LEMMA IntendMarks ==
  ASSUME Typed, OnOperation, op.pc = "next", NEW i \in Indices(op.job), i \in op.todo, Intend(i)
  PROVE  ~UNCHANGED ledger
<1> DEFINE a == ledger[op.job].acts[i]
           n == IF a.status = "applied" THEN a.order ELSE orders'
           c == [a EXCEPT !.prior = a.status, !.status = "running", !.order = n]
<1>1. SetAction(op.job, i, c) /\ op.dir # "reconcile"
  BY DEF Intend
<1>2. a \in Action /\ op.job \in DOMAIN ledger
  BY ActionOf, NextReady DEF Typed, TypeInv, TypeOK
<1>3. a.status \notin Uncertain
  BY <1>1 DEF OnOperation, StepsFit, Fits, Certain
<1> HIDE DEF n
<1>4. c.status = "running"
  BY <1>2 DEF Action
<1>5. ledger'[op.job].acts[i] = c
  <2>1. ledger'[op.job] = [ledger[op.job] EXCEPT !.acts[i] = c]
    BY <1>1, <1>2 DEF SetAction, Commit
  <2> HIDE DEF c
  <2>2. /\ IsReceipt(ledger[op.job], op.job)
        /\ ledger[op.job].acts \in [Indices(op.job) -> Action]
    BY <1>2 DEF Typed, TypeInv, TypeOK, LedgerOK, IsReceipt
  <2>3. QED
    BY <2>1, <2>2 DEF IsReceipt
<1> HIDE DEF c
<1>6. QED
  BY <1>3, <1>4, <1>5 DEF Uncertain

\* The change whose turn it is in an undo is the last one left.
LEMMA NextPlannedChange ==
  ASSUME Typed, Typed', OnOperation, Ordered, Planned, NEW i \in Turn(op.dir),
         Reconcile(i) \/ Intend(i)
  PROVE  StepsWhole' /\ StepsClear'
<1>1. op.pc = "next" /\ i \in op.todo /\ IsOperation(op)
  BY InOperation DEF Turn, Reconcile, Intend, Typed, TypeInv, TypeOK
<1>2. CASE Reconcile(i)
  <2>1. op.dir = "reconcile" /\ (op' = Idle \/ op' = [op EXCEPT !.todo = @ \ {i}])
    BY <1>2 DEF Reconcile, GiveWay
  <2>2. op'.pc = "idle" \/ op'.dir = "reconcile"
    BY <1>1, <2>1, IdlePC DEF IsOperation
  <2>3. QED
    BY <2>2, NoUndo
<1>3. CASE Intend(i) /\ op.dir # "undo"
  <2>1. op' = [op EXCEPT !.pc = "send", !.at = i, !.todo = @ \ {i}]
    BY <1>3 DEF Intend
  <2>2. op'.dir # "undo"
    BY <1>1, <1>3, <2>1 DEF IsOperation
  <2>3. QED
    BY <2>2, NoUndo
<1>4. CASE Intend(i) /\ op.dir = "undo"
  <2>1. op' = [op EXCEPT !.pc = "send", !.at = i, !.todo = @ \ {i}]
    BY <1>4 DEF Intend
  <2>2. /\ op'.pc = "send" /\ op'.at = i /\ op'.todo = op.todo \ {i}
        /\ op'.job = op.job /\ op'.dir = op.dir
    BY <1>1, <2>1 DEF IsOperation
  <2>3. op.job \in DOMAIN ledger /\ op.todo \subseteq Indices(op.job)
        /\ Indices(op.job) \subseteq Nat
    BY <1>1, NextReady, IndicesInAll DEF Typed, IsOperation
  <2>4. \A m \in op.todo \ {i} : m < i
    BY <1>1, <1>4, <2>3 DEF Turn
  <2>5. orders \in Nat /\ OrderOf(op.job, i) \in Nat /\ OrderOf(op.job, i) <= orders
    BY <1>1, <2>3, OrdersTyped DEF Ordered, OrdersCounted
  <2>6. i \in Indices(op.job) /\ op.todo \subseteq Indices(op.job)
    BY <1>1, <2>3
  <2>7. PICK b \in Action :
           /\ SetAction(op.job, i, b) /\ b.touched = ledger[op.job].acts[i].touched
           /\ OrderOf(op.job, i) <= b.order /\ b.status = "running"
    <3>1. ~UNCHANGED ledger
      BY <1>1, <1>4, <2>6, IntendMarks
    <3>2. QED
      BY <1>1, <1>4, <2>3, <2>5, <2>6, <3>1, CommittedAction DEF OrderOf
  <2>8. ASSUME NEW j, j = op.job
        PROVE  /\ \A m \in op.todo : ~Competing(j, m, "undo")'
               /\ \A m \in Indices(j) : StatusIn(j, m)' = "applied" => m \in op.todo \ {i}
    <3>1. /\ \A m \in Indices(j) : ~Competing(j, m, "undo") => ~Competing(j, m, "undo")'
          /\ \A m \in Indices(j) : m # i => StatusIn(j, m)' = StatusIn(j, m)
          /\ StatusIn(j, i)' = "running"
      BY <2>3, <2>6, <2>7, <2>8, CommitsClear
    <3>2. \A m \in op.todo : ~Competing(j, m, "undo")
      BY <1>1, <1>4, <2>8 DEF Planned, StepsClear
    <3>3. \A m \in Indices(j) : StatusIn(j, m) = "applied" => m \in op.todo
      BY <1>1, <1>4, <2>8 DEF Planned, StepsWhole
    <3>4. QED
      BY <2>6, <2>8, <3>1, <3>2, <3>3
  <2>9. StepsWhole'
    BY <2>2, <2>4, <2>8 DEF StepsWhole, Dispatching
  <2>10. StepsClear'
    BY <1>1, <2>2, <2>8 DEF StepsClear, Dispatching
  <2>11. QED
    BY <2>9, <2>10
<1>5. QED
  BY <1>2, <1>3, <1>4

\* What the answer to a write leaves to be undone is as clear as before.
LEMMA AnswerPlanned ==
  ASSUME Typed, Typed', OnOperation, Ordered, Planned, PermissionLost \/ ReadBack \/ RecordFailure
  PROVE  StepsWhole' /\ StepsClear'
<1>1. CASE op' = Idle
  BY <1>1, IdlePC, NoUndo
<1>2. CASE ReadBack /\ op' = [op EXCEPT !.pc = "next"]
  <2>1. op.pc = "ok" /\ op.pc \in Dispatching
    BY <1>2 DEF ReadBack, Dispatching
  <2>2. IsOperation(op) /\ op.job \in DOMAIN ledger /\ op.at \in Indices(op.job)
        /\ op.todo \subseteq Indices(op.job) /\ Indices(op.job) \subseteq Nat
    BY <2>1, Dispatched, IndicesInAll DEF Typed
  <2>3. /\ op'.pc = "next" /\ op'.todo = op.todo /\ op'.job = op.job /\ op'.dir = op.dir
    BY <1>2, <2>2 DEF IsOperation
  <2>4. CASE op.dir # "undo"
    BY <2>3, <2>4, NoUndo
  <2>5. CASE op.dir = "undo"
    <3>1. ASSUME NEW j, j = op.job, NEW i, i = op.at
          PROVE  /\ \A m \in op.todo : ~Competing(j, m, "undo")'
                 /\ \A m \in Indices(j) : StatusIn(j, m)' = "applied" => m \in op.todo
      <4>1. /\ \A m \in op.todo : ~Competing(j, m, "undo")
            /\ \A m \in Indices(j) : StatusIn(j, m) = "applied" => m \in op.todo
        BY <2>1, <2>5, <3>1 DEF Planned, StepsClear, StepsWhole
      <4>2. CASE UNCHANGED ledger
        BY <4>1, <4>2 DEF Competing, StatusIn
      <4>3. ASSUME NEW b \in Action, SetAction(j, i, b), b.status # "applied",
                   b.touched = ledger[j].acts[i].touched, b.order = OrderOf(j, i)
            PROVE  /\ \A m \in op.todo : ~Competing(j, m, "undo")'
                   /\ \A m \in Indices(j) : StatusIn(j, m)' = "applied" => m \in op.todo
        <5>1. OrderOf(j, i) <= b.order
          BY <2>2, <3>1, <4>3, OrdersTyped
        <5>2. /\ \A m \in Indices(j) : ~Competing(j, m, "undo") => ~Competing(j, m, "undo")'
              /\ \A m \in Indices(j) : m # i => StatusIn(j, m)' = StatusIn(j, m)
              /\ StatusIn(j, i)' = b.status
          BY <2>2, <3>1, <4>3, <5>1, CommitsClear
        <5>3. QED
          BY <2>2, <3>1, <4>1, <4>3, <5>2
      <4>4. UNCHANGED ledger \/ \E b \in Action :
              /\ SetAction(j, i, b) /\ b.status # "applied"
              /\ b.touched = ledger[j].acts[i].touched /\ b.order = OrderOf(j, i)
        <5>1. op.pc # "next"
          BY <2>1
        <5>2. QED
          BY <1>2, <2>1, <2>2, <2>5, <3>1, <5>1, CommittedAction DEF OrderOf
      <4>5. QED
        BY <4>2, <4>3, <4>4
    <3>2. StepsWhole'
      BY <2>3, <3>1 DEF StepsWhole, Dispatching
    <3>3. StepsClear'
      BY <2>3, <3>1 DEF StepsClear, Dispatching
    <3>4. QED
      BY <3>2, <3>3
  <2>6. QED
    BY <2>4, <2>5
<1>3. QED
  BY <1>1, <1>2 DEF PermissionLost, ReadBack, RecordFailure

\* While the ledger stands, so do the promises of an operation that goes on.
LEMMA StagesPlanned ==
  ASSUME Planned, UNCHANGED ledger,
         \/ op' = op
         \/ /\ op.pc \in Dispatching /\ IsOperation(op)
            /\ \E p \in {"wait", "ok", "refused", "lost"} : op' = [op EXCEPT !.pc = p]
  PROVE  StepsWhole' /\ StepsClear'
<1>1. CASE op' = op
  <2>1. StepsWhole'
    BY <1>1 DEF Planned, StepsWhole, StatusIn
  <2>2. ASSUME op.dir = "undo"
        PROVE  \A m : ~Competing(op.job, m, "undo") => ~Competing(op.job, m, "undo")'
    BY <1>1 DEF Competing
  <2>3. StepsClear'
    BY <1>1, <2>2 DEF Planned, StepsClear
  <2>4. QED
    BY <2>1, <2>3
<1>2. ASSUME op.pc \in Dispatching, IsOperation(op), NEW p \in {"wait", "ok", "refused", "lost"},
             op' = [op EXCEPT !.pc = p]
      PROVE  StepsWhole' /\ StepsClear'
  <2>1. /\ op'.pc = p /\ op'.todo = op.todo /\ op'.job = op.job /\ op'.dir = op.dir
        /\ op'.at = op.at
    BY <1>2 DEF IsOperation
  <2>2. op'.pc \in Dispatching /\ op'.pc \notin {"preview", "check", "send"}
    BY <2>1 DEF Dispatching
  <2>3. StepsWhole'
    BY <1>2, <2>1, <2>2 DEF Planned, StepsWhole, StatusIn
  <2>4. \A m : ~Competing(op.job, m, "undo") => ~Competing(op.job, m, "undo")'
    BY <2>1 DEF Competing
  <2>5. StepsClear'
    BY <1>2, <2>1, <2>2, <2>4 DEF Planned, StepsClear
  <2>6. QED
    BY <2>3, <2>5
<1>3. QED
  BY <1>1, <1>2

\* A receipt is only viewed while no operation holds the gate.
LEMMA ViewPlanned ==
  ASSUME NEW j \in Jobs, View(j)
  PROVE  StepsWhole' /\ StepsClear'
<1>1. op'.pc = "idle"
  BY IdlePC DEF View
<1>2. QED
  BY <1>1, NoUndo

LEMMA NextPlanned ==
  ASSUME Typed, Typed', OnOperation, Ordered, Planned, [Next]_vars
  PROVE  Planned'
<1>1. SUFFICES StepsWhole' /\ StepsClear'
  BY PlansStayWhole DEF Planned
<1>2. CASE op' = Idle
  BY <1>2, IdlePC, NoUndo
<1>3. CASE UNCHANGED ledger /\ op' = op
  BY <1>3, StagesPlanned
<1>4. CASE Begin
  <2>1. ASSUME NEW j \in Jobs, BeginPrepare(j)
        PROVE  StepsWhole' /\ StepsClear'
    <3>1. op'.pc = "prepare"
      BY <2>1 DEF BeginPrepare, Starting
    <3>2. QED
      BY <3>1, NoUndo
  <2>2. ASSUME NEW j \in Jobs, View(j)
        PROVE  StepsWhole' /\ StepsClear'
    BY <2>2, ViewPlanned
  <2>3. QED
    BY <1>4, <2>1, <2>2, PreviewPlanned DEF Begin
<1>5. CASE OpStep
  <2>1. ASSUME NEW i \in Turn("apply"), PrepareRead(i)
        PROVE  StepsWhole' /\ StepsClear'
    <3>1. op.pc = "prepare" /\ IsOperation(op)
      BY <2>1, InOperation DEF PrepareRead, Typed, TypeInv, TypeOK
    <3>2. op'.pc \in {"idle", "prepare"}
      BY <2>1, <3>1, IdlePC DEF PrepareRead, GiveWay, IsOperation
    <3>3. QED
      BY <3>2, NoUndo
  <2>2. ASSUME NEW i \in Turn("apply"), PreviewRead(i)
        PROVE  StepsWhole' /\ StepsClear'
    BY <2>2, PreviewPlanned
  <2>3. ASSUME NEW i \in Turn(op.dir), Check(i) \/ Reconcile(i) \/ Intend(i)
        PROVE  StepsWhole' /\ StepsClear'
    BY <2>3, CheckPlanned, NextPlannedChange
  <2>4. ASSUME Send \/ TimeOut
        PROVE  StepsWhole' /\ StepsClear'
    <3>1. op.pc \in Dispatching /\ UNCHANGED ledger
          /\ \E p \in {"wait", "ok", "refused", "lost"} : op' = [op EXCEPT !.pc = p]
      BY <2>4 DEF Send, TimeOut, Dispatching
    <3>2. QED
      BY <3>1, Dispatched, StagesPlanned DEF Typed
  <2>5. Finish \/ Abandon \/ PrepareSave \/ PreviewSave => op' = Idle
    BY DEF Finish, Abandon, GiveWay, PrepareSave, PreviewSave
  <2>6. QED
    BY <1>2, <1>5, <2>1, <2>2, <2>3, <2>4, <2>5, CheckPlanned, AnswerPlanned DEF OpStep
<1>6. CASE Environment
  <2>1. ASSUME NEW q \in net, ServerWrites(q) \/ ServerRefuses(q), op' # op
        PROVE  StepsWhole' /\ StepsClear'
    <3>1. op.pc \in Dispatching /\ UNCHANGED ledger
          /\ \E p \in {"wait", "ok", "refused", "lost"} : op' = [op EXCEPT !.pc = p]
      BY <2>1 DEF ServerWrites, ServerRefuses, Answer, Dispatching
    <3>2. QED
      BY <3>1, Dispatched, StagesPlanned DEF Typed
  <2>2. ASSUME NEW q \in net, ServerWrites(q) \/ ServerRefuses(q)
        PROVE  UNCHANGED ledger
    BY <2>2 DEF ServerWrites, ServerRefuses
  <2>3. QED
    BY <1>2, <1>3, <1>6, <2>1, <2>2 DEF Environment, OutsideEdit, Restart
<1>7. QED
  BY <1>3, <1>4, <1>5, <1>6 DEF Next, vars

LEMMA InitPlanned == Init => Ordered /\ Planned
<1> SUFFICES ASSUME Init PROVE Ordered /\ Planned
  OBVIOUS
<1>1. DOMAIN ledger = {} /\ op.pc = "idle"
  BY EmptyPlan, IdlePC DEF Init
<1>2. QED
  BY <1>1 DEF Ordered, OrdersCounted, OrdersDistinct, Planned, PlansWhole, StepsWhole,
              StepsClear, Dispatching

\* What the promises say of the undo that is about to be sent.
LEMMA SendInOrder ==
  ASSUME Typed, OnOperation, Ordered, Planned, op.pc = "send", op.dir = "undo"
  PROVE  /\ \A i \in Indices(op.job) : i > op.at => StatusIn(op.job, i) # "applied"
         /\ \A k \in DOMAIN ledger \ {op.job} : \A m \in Indices(k) :
               /\ ResourceOf(k, m) = ResourceOf(op.job, op.at)
               /\ Overlap(ResourceOf(k, m), ledger[op.job].acts[op.at], ledger[k].acts[m])
               /\ StatusIn(k, m) = "applied"
               => OrderOf(k, m) < OrderOf(op.job, op.at)
<1>1. op.pc \in Dispatching
  BY DEF Dispatching
<1>2. op.job \in DOMAIN ledger /\ op.at \in Indices(op.job) /\ Indices(op.job) \subseteq Nat
  BY <1>1, Dispatched, IndicesInAll DEF Typed
<1>3. ASSUME NEW i \in Indices(op.job), i > op.at, StatusIn(op.job, i) = "applied"
      PROVE  FALSE
  <2>1. i < op.at
    BY <1>1, <1>3 DEF Planned, StepsWhole
  <2>2. QED
    BY <1>2, <1>3, <2>1
<1>4. ASSUME NEW k \in DOMAIN ledger \ {op.job}, NEW m \in Indices(k),
             ResourceOf(k, m) = ResourceOf(op.job, op.at),
             Overlap(ResourceOf(k, m), ledger[op.job].acts[op.at], ledger[k].acts[m]),
             StatusIn(k, m) = "applied"
      PROVE  OrderOf(k, m) < OrderOf(op.job, op.at)
  <2>1. ~Competing(op.job, op.at, "undo")
    BY DEF Planned, StepsClear
  <2>2. ~(OrderOf(k, m) > OrderOf(op.job, op.at))
    BY <1>4, <2>1 DEF Competing, StatusIn, OrderOf
  <2>3. OrderOf(k, m) \in Nat /\ OrderOf(op.job, op.at) \in Nat
    BY <1>2, OrdersTyped
  <2>4. OrderOf(op.job, op.at) # 0
    BY <1>1, <1>2 DEF OnOperation, DispatchKnown, Ordered, OrdersCounted, StatusIn
  <2>5. OrderOf(k, m) # OrderOf(op.job, op.at)
    BY <1>2, <2>4 DEF Ordered, OrdersDistinct
  <2>6. QED
    BY <2>2, <2>3, <2>5
<1>5. QED
  BY <1>3, <1>4

\* An undo goes back in order: none is sent while a later change of its own job
\* still stands, or a change that another job made later to the same fields
\* (the reversed plan and competing, internal/safeundo).
THEOREM UndoGoesBackInOrder == Spec => UndoInOrder
<1> DEFINE Inv == Typed /\ OnLedger /\ OnOperation /\ Ordered /\ Planned
           Orderly == op.pc = "send" /\ op.dir = "undo" =>
              /\ \A i \in Indices(op.job) :
                    i > op.at => ~(ledger[op.job].acts[i].status = "applied")
              /\ \A k \in DOMAIN ledger \ {op.job} : \A m \in Indices(k) :
                    /\ ResourceOf(k, m) = ResourceOf(op.job, op.at)
                    /\ Overlap(ResourceOf(k, m), ledger[op.job].acts[op.at],
                               ledger[k].acts[m])
                    /\ ledger[k].acts[m].status = "applied"
                    => ledger[k].acts[m].order < ledger[op.job].acts[op.at].order
           Sends == op.pc = "send" /\ op'.pc = "wait" /\ op.dir = "undo" =>
              LET a == ledger[op.job].acts[op.at]
                  stands(k, m) == ledger[k].acts[m].status = "applied"
              IN /\ \A i \in Indices(op.job) : i > op.at => ~stands(op.job, i)
                 /\ \A k \in DOMAIN ledger \ {op.job} : \A m \in Indices(k) :
                       /\ ResourceOf(k, m) = ResourceOf(op.job, op.at)
                       /\ Overlap(ResourceOf(k, m), a, ledger[k].acts[m])
                       /\ stands(k, m)
                       => ledger[k].acts[m].order < a.order
<1>1. Init => Inv
  BY InitTyped, InitKnows, InitPlanned DEF Typed
<1>2. Inv /\ [Next]_vars => Inv'
  <2>1. Typed /\ [Next]_vars => Typed'
    BY StepsTyped, RequestsStayHeld DEF Typed
  <2>2. QED
    BY <2>1, NextKnows, NextOrdered, NextPlanned
<1>3. Inv => Orderly
  BY SendInOrder DEF StatusIn, OrderOf
<1>4. Orderly => Sends
  OBVIOUS
<1>5. Inv /\ [Next]_vars => [Sends]_vars
  BY <1>3, <1>4
<1> HIDE DEF Inv
<1>6. QED
  BY <1>1, <1>2, <1>5, PTL DEF Spec, UndoInOrder

================================================================================
