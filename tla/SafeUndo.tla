------------------------------- MODULE SafeUndo -------------------------------
(***************************************************************************)
(* Reviewed, reversible changes of external resources (internal/safeundo).  *)
(* An agent prepares a job; a person previews a direction (apply, undo, or   *)
(* accept what is observed after a doubtful write), and confirms the preview *)
(* by its token.  One operation at a time holds the gate of the Store.  Its  *)
(* reads and writes of the resources interleave with other people's edits,   *)
(* with write requests that arrive late, and with crashes of the gateway.    *)
(*                                                                          *)
(* One action is one request to a resource or one commit of the ledger.      *)
(* Field values stand for themselves: job j wants every field it touches to  *)
(* have the value j.                                                         *)
(***************************************************************************)
EXTENDS Naturals, FiniteSets, Sequences

CONSTANTS
    Jobs,        \* job ids (and the values they write)
    Resources,   \* configured resources of one agent
    Texts,       \* those of kind webdav_text; the others are json_record
    Fields,      \* allowlisted fields of a record; the parts of a text
    Original,    \* the value of every field before anybody changed it
    Changes,     \* job -> its changes in order: [res, fields]
    MaxAttempts, \* confirmations of one job (16 in the code)
    MaxTokens,   \* bound on the previews of a behaviour
    MaxEdits,    \* bound on other people's edits
    None

Values     == Jobs \cup {Original}
Directions == {"apply", "undo", "reconcile"}
Uncertain  == {"running", "needs_review"}
Statuses   == {"pending", "applied", "undone"} \cup Uncertain

ASSUME TextsAssumption == Texts \subseteq Resources
ASSUME MaxAssumption == {MaxAttempts, MaxTokens, MaxEdits} \subseteq Nat
ASSUME ChangesAssumption ==
    \A j \in Jobs :
        /\ Changes[j] \in Seq([res : Resources, fields : (SUBSET Fields) \ {{}}])
        /\ \A i, k \in DOMAIN Changes[j] : Changes[j][i].res = Changes[j][k].res => i = k
ASSUME NamesAssumption == Original \notin Jobs /\ None \notin Jobs

VARIABLES
    remote,   \* resource -> its ETag and its fields, as its server has them
    ledger,   \* the SQLite ledger: the receipts of the jobs it holds
    op,       \* the operation that holds the gate
    net,      \* write requests that may still reach their server
    tokens,   \* previews made so far: the tokens are 1 .. tokens
    orders,   \* autoincremented ids of the conflict index
    edits,    \* edits made by others
    effect,   \* history: the last write of a change that its server executed
    sent      \* history: <<token, job, index>> of the requests sent

vars == <<remote, ledger, op, net, tokens, orders, edits, effect, sent>>
environment == <<remote, net, edits, effect>>
counters == <<tokens, orders, sent>>

Indices(j) == DOMAIN Changes[j]
ResourceOf(j, i) == Changes[j][i].res
AllIndices == UNION {Indices(j) : j \in Jobs}

Action == [status : Statuses, prior : Statuses, touched : SUBSET Fields,
           before : [Fields -> Values], version : Nat, order : Nat,
           reconciled : BOOLEAN]
Item == [version : Nat, observed : Statuses]

\* A plan of job j: what was previewed of some of its actions.
IsItems(f, j) == DOMAIN f \subseteq Indices(j) /\ f \in [DOMAIN f -> Item]
IsDraft(f, j) == DOMAIN f \subseteq Indices(j) /\ f \in [DOMAIN f -> Action]

\* The tokens of previews count from 1.
NoPlan == [token |-> 0, dir |-> "apply", items |-> <<>>]

IsPlan(p, j) ==
    \/ p = NoPlan
    \/ /\ p = [token |-> p.token, dir |-> p.dir, items |-> p.items]
       /\ p.token \in Nat \ {0} /\ p.dir \in Directions /\ IsItems(p.items, j)

IsReceipt(receipt, j) ==
    /\ receipt = [acts |-> receipt.acts, undoStarted |-> receipt.undoStarted,
                  attempts |-> receipt.attempts, lastToken |-> receipt.lastToken,
                  plan |-> receipt.plan]
    /\ receipt.acts \in [Indices(j) -> Action]
    /\ receipt.undoStarted \in BOOLEAN
    /\ receipt.attempts \in Nat /\ receipt.lastToken \in Nat
    /\ IsPlan(receipt.plan, j)

Request == [token : Nat, job : Jobs, index : AllIndices, dir : {"apply", "undo"},
            version : Nat]

OpPCs == {"idle", "prepare", "preview", "check", "next", "send", "wait", "ok",
          "refused", "lost"}

\* The local variables of Prepare, Preview and Execute: the loop's remaining
\* indices, the index at hand, and what has been read so far.
Starting(pc, j, dir, token, todo, found) ==
    [pc |-> pc, job |-> j, dir |-> dir, token |-> token, todo |-> todo, at |-> 0,
     found |-> found]

Idle == Starting("idle", None, "apply", 0, {}, <<>>)

IsOperation(o) ==
    /\ o = [pc |-> o.pc, job |-> o.job, dir |-> o.dir, token |-> o.token,
            todo |-> o.todo, at |-> o.at, found |-> o.found]
    /\ o.pc \in OpPCs \ {"idle"} /\ o.job \in Jobs /\ o.dir \in Directions /\ o.token \in Nat
    /\ o.todo \subseteq Indices(o.job)
    /\ IF o.pc = "prepare" THEN IsDraft(o.found, o.job) ELSE IsItems(o.found, o.job)
    /\ o.pc \in {"send", "wait", "ok", "refused", "lost"} => o.at \in DOMAIN o.found

Init ==
    /\ remote = [r \in Resources |-> [version |-> 1, body |-> [f \in Fields |-> Original]]]
    /\ ledger = <<>>
    /\ op = Idle
    /\ net = {}
    /\ tokens = 0 /\ orders = 0 /\ edits = 0
    /\ effect = [j \in Jobs |-> [i \in Indices(j) |-> "none"]]
    /\ sent = {}

-----------------------------------------------------------------------------
(* Helpers of the Store.                                                     *)

\* get and NewStore: a persisted running action cannot still be executing.
Load(receipt) ==
    IF \E i \in DOMAIN receipt.acts : receipt.acts[i].status = "running"
    THEN [receipt EXCEPT
            !.plan = NoPlan,
            !.acts = [i \in DOMAIN receipt.acts |->
                         IF receipt.acts[i].status = "running"
                         THEN [receipt.acts[i] EXCEPT !.status = "needs_review"]
                         ELSE receipt.acts[i]]]
    ELSE receipt

\* The side of a change that a resource shows.
Matches(body, j, a, after) ==
    \A f \in a.touched : body[f] = IF after THEN j ELSE a.before[f]

\* A text is one value; two changes of a record overlap when they share a field.
Overlap(r, a, b) == r \in Texts \/ a.touched \cap b.touched # {}

\* Fault: an undo does not look for jobs applied later.
CompetingInDoubt(j, i, dir) ==
    LET a == ledger[j].acts[i] IN
    \E k \in DOMAIN ledger \ {j} :
        \E m \in Indices(k) :
              /\ ResourceOf(k, m) = ResourceOf(j, i)
              /\ Overlap(ResourceOf(j, i), a, ledger[k].acts[m])
              /\ ledger[k].acts[m].status \in Uncertain

\* The conflict index holds the actions that are neither pending nor undone.
Competing(j, i, dir) ==
    LET a == ledger[j].acts[i] IN
    \E k \in DOMAIN ledger \ {j} :
        \E m \in Indices(k) :
              LET b == ledger[k].acts[m] IN
              /\ ResourceOf(k, m) = ResourceOf(j, i)
              /\ Overlap(ResourceOf(j, i), a, b)
              /\ \/ b.status \in Uncertain
                 \/ dir = "undo" /\ b.status = "applied" /\ b.order > a.order

\* Whose turn it is: plans run in order, an undo in reverse.
Turn(dir) == {i \in op.todo : \A k \in op.todo : IF dir = "undo" THEN i >= k ELSE i <= k}

\* The operation ends without a further commit: authority or context lost, a
\* read that failed, a stale preview, a ledger that cannot be written.
GiveWay == op' = Idle

Commit(j, receipt) ==
    ledger' = [k \in DOMAIN ledger \cup {j} |-> IF k = j THEN receipt ELSE ledger[k]]

SetAction(j, i, a) == Commit(j, [ledger[j] EXCEPT !.acts[i] = a])

-----------------------------------------------------------------------------
(* Prepare.                                                                  *)

BeginPrepare(j) ==
    /\ op = Idle /\ j \notin DOMAIN ledger
    /\ op' = Starting("prepare", j, "apply", 0, Indices(j), <<>>)
    /\ UNCHANGED <<ledger, environment, counters>>

\* One GET, and makeAction: a change without effect is refused.
PrepareRead(i) ==
    LET j == op.job
        r == ResourceOf(j, i)
        body == remote[r].body
        changed == {f \in Changes[j][i].fields : body[f] # j}
    IN
    /\ op.pc = "prepare"
    /\ \/ changed = {} /\ GiveWay
       \/ /\ changed # {}
          /\ op' = [op EXCEPT !.todo = @ \ {i},
                              !.found = [k \in DOMAIN @ \cup {i} |->
                    IF k # i THEN @[k]
                    ELSE [status |-> "pending", prior |-> "pending",
                          touched |-> IF r \in Texts THEN Changes[j][i].fields ELSE changed,
                          before |-> body, version |-> remote[r].version,
                          order |-> 0, reconciled |-> FALSE]]]
    /\ UNCHANGED <<ledger, environment, counters>>

PrepareSave ==
    /\ op.pc = "prepare" /\ op.todo = {}
    /\ Commit(op.job, [acts |-> op.found, undoStarted |-> FALSE, attempts |-> 0,
                       lastToken |-> 0, plan |-> NoPlan])
    /\ op' = Idle
    /\ UNCHANGED <<environment, counters>>

-----------------------------------------------------------------------------
(* Preview.                                                                  *)

BeginPreview(j, dir) ==
    /\ op = Idle /\ j \in DOMAIN ledger /\ tokens < MaxTokens
    /\ ledger[j].attempts < MaxAttempts
    /\ ~(dir = "apply" /\ ledger[j].undoStarted)
    /\ Commit(j, Load(ledger[j]))
    /\ op' = Starting("preview", j, dir, 0, Indices(j), <<>>)
    /\ UNCHANGED <<environment, counters>>

\* Get, and every request that is refused once the receipt is loaded.
View(j) ==
    /\ op = Idle /\ j \in DOMAIN ledger /\ Load(ledger[j]) # ledger[j]
    /\ Commit(j, Load(ledger[j]))
    /\ UNCHANGED <<op, environment, counters>>

Wanted(dir, status) ==
    \/ dir = "apply" /\ status = "pending"
    \/ dir = "undo" /\ status = "applied"
    \/ dir = "reconcile" /\ status \in Uncertain

\* What a reconciliation would record.
Observed(body, j, a) ==
    IF Matches(body, j, a, TRUE) THEN "applied"
    ELSE IF a.prior = "applied" THEN "undone" ELSE "pending"

PreviewAccepts(j, i, dir) ==
    LET a == ledger[j].acts[i]
        snap == remote[ResourceOf(j, i)]
    IN
    /\ ~Competing(j, i, dir)
    /\ IF dir = "reconcile"
       THEN Matches(snap.body, j, a, TRUE) \/ Matches(snap.body, j, a, FALSE)
       ELSE /\ Matches(snap.body, j, a, dir = "undo")
            /\ ResourceOf(j, i) \in Texts => snap.version = a.version

PreviewRead(i) ==
    LET j == op.job
        a == ledger[j].acts[i]
        snap == remote[ResourceOf(j, i)]
        skip == [op EXCEPT !.todo = @ \ {i}]
        item == [version |-> snap.version,
                 observed |-> IF op.dir = "reconcile" THEN Observed(snap.body, j, a)
                              ELSE a.status]
    IN
    /\ op.pc = "preview"
    /\ \/ op.dir # "reconcile" /\ a.status \in Uncertain /\ GiveWay
       \/ /\ op.dir = "reconcile" \/ a.status \notin Uncertain
          /\ \/ ~Wanted(op.dir, a.status) /\ op' = skip
             \/ Wanted(op.dir, a.status) /\ ~PreviewAccepts(j, i, op.dir) /\ GiveWay
             \/ /\ Wanted(op.dir, a.status) /\ PreviewAccepts(j, i, op.dir)
                /\ op' = [skip EXCEPT !.found = [k \in DOMAIN @ \cup {i} |->
                                                    IF k = i THEN item ELSE @[k]]]
    /\ UNCHANGED <<ledger, environment, counters>>

PreviewSave ==
    /\ op.pc = "preview" /\ op.todo = {}
    /\ op' = Idle
    /\ IF DOMAIN op.found = {}
       THEN UNCHANGED <<ledger, tokens>>
       ELSE /\ tokens' = tokens + 1
            /\ Commit(op.job, [ledger[op.job] EXCEPT
                  !.plan = [token |-> tokens', dir |-> op.dir, items |-> op.found]])
    /\ UNCHANGED <<environment, orders, sent>>

-----------------------------------------------------------------------------
(* Execute.                                                                  *)

BeginExecute(j, token) ==
    LET plan == ledger[j].plan IN
    /\ op = Idle /\ j \in DOMAIN ledger
    /\ Load(ledger[j]) = ledger[j]
    /\ ledger[j].lastToken # token
    /\ plan.token = token /\ ledger[j].attempts < MaxAttempts
    /\ op' = Starting("check", j, plan.dir, token, DOMAIN plan.items, plan.items)
    /\ UNCHANGED <<ledger, environment, counters>>

\* "Check every resource before the first write."
Check(i) ==
    LET j == op.job
    IN
    /\ op.pc = "check"
    /\ IF \/ Competing(j, i, op.dir)
          \/ remote[ResourceOf(j, i)].version # op.found[i].version
       THEN GiveWay ELSE op' = [op EXCEPT !.todo = @ \ {i}]
    /\ UNCHANGED <<ledger, environment, counters>>

\* Fault: the token is still good after it has been used.
ConsumeKeepsPlan ==
    LET receipt == ledger[op.job] IN
    /\ op.pc = "check" /\ op.todo = {}
    /\ Commit(op.job, [receipt EXCEPT !.attempts = @ + 1,
                                      !.undoStarted = @ \/ op.dir = "undo"])
    /\ op' = [op EXCEPT !.pc = "next", !.todo = DOMAIN op.found]
    /\ UNCHANGED <<environment, counters>>

\* The token is used up before anything is written.
Consume ==
    LET receipt == ledger[op.job] IN
    /\ op.pc = "check" /\ op.todo = {}
    /\ Commit(op.job, [receipt EXCEPT !.lastToken = op.token, !.plan = NoPlan,
                                      !.attempts = @ + 1,
                                      !.undoStarted = @ \/ op.dir = "undo"])
    /\ op' = [op EXCEPT !.pc = "next", !.todo = DOMAIN op.found]
    /\ UNCHANGED <<environment, counters>>

\* The operator accepts the state that a second GET still shows.
Reconcile(i) ==
    LET j == op.job
        version == remote[ResourceOf(j, i)].version
    IN
    /\ op.pc = "next" /\ op.dir = "reconcile"
    /\ IF version # op.found[i].version
       THEN GiveWay /\ UNCHANGED ledger
       ELSE /\ SetAction(j, i, [ledger[j].acts[i] EXCEPT !.status = op.found[i].observed,
                                                        !.version = version,
                                                        !.reconciled = TRUE])
            /\ op' = [op EXCEPT !.todo = @ \ {i}]
    /\ UNCHANGED <<environment, counters>>

\* Fault: the intent is recorded with the answer, not before the request.
IntendInMemory(i) ==
    /\ op.pc = "next" /\ op.dir # "reconcile"
    /\ op' = [op EXCEPT !.pc = "send", !.at = i, !.todo = @ \ {i}]
    /\ UNCHANGED <<ledger, environment, counters>>

\* The durable intent: from here on any crash means needs_review.
Intend(i) ==
    LET j == op.job
        a == ledger[j].acts[i]
    IN
    /\ op.pc = "next" /\ op.dir # "reconcile"
    /\ orders' = IF a.status = "applied" THEN orders ELSE orders + 1
    /\ SetAction(j, i, [a EXCEPT !.prior = a.status, !.status = "running",
                                 !.order = IF a.status = "applied" THEN @ ELSE orders'])
    /\ op' = [op EXCEPT !.pc = "send", !.at = i, !.todo = @ \ {i}]
    /\ UNCHANGED <<environment, tokens, sent>>

\* Authority is checked again; without it the action is as it was.
PermissionLost ==
    LET a == ledger[op.job].acts[op.at] IN
    /\ op.pc = "send"
    /\ SetAction(op.job, op.at, [a EXCEPT !.status = a.prior])
    /\ op' = Idle
    /\ UNCHANGED <<environment, counters>>

\* Fault: the write is conditional on the version of the moment.
SendCurrentVersion ==
    /\ op.pc = "send"
    /\ net' = net \cup {[token |-> op.token, job |-> op.job, index |-> op.at,
                         dir |-> op.dir, version |-> remote[ResourceOf(op.job, op.at)].version]}
    /\ sent' = sent \cup {<<op.token, op.job, op.at>>}
    /\ op' = [op EXCEPT !.pc = "wait"]
    /\ UNCHANGED <<ledger, remote, edits, effect, tokens, orders>>

\* mutate: a PATCH or PUT with If-Match, never retried.
Send ==
    /\ op.pc = "send"
    /\ net' = net \cup {[token |-> op.token, job |-> op.job, index |-> op.at,
                         dir |-> op.dir, version |-> op.found[op.at].version]}
    /\ sent' = sent \cup {<<op.token, op.job, op.at>>}
    /\ op' = [op EXCEPT !.pc = "wait"]
    /\ UNCHANGED <<ledger, remote, edits, effect, tokens, orders>>

\* Fault: a request without a deadline.
NeverTimesOut == op.pc = "wait" /\ FALSE /\ UNCHANGED vars

\* The answer is late: the request may or may not arrive yet.
TimeOut ==
    /\ op.pc = "wait"
    /\ op' = [op EXCEPT !.pc = "lost"]
    /\ UNCHANGED <<ledger, environment, counters>>

\* A successful write is read back and recorded.
ReadBack ==
    LET j == op.job
        i == op.at
        a == ledger[j].acts[i]
        snap == remote[ResourceOf(j, i)]
        verified == snap.version # op.found[i].version
                    /\ Matches(snap.body, j, a, op.dir = "apply")
    IN
    /\ op.pc = "ok"
    /\ \/ /\ verified
          /\ SetAction(j, i, [a EXCEPT !.version = snap.version,
                                       !.status = IF op.dir = "apply" THEN "applied"
                                                  ELSE "undone"])
          /\ op' = [op EXCEPT !.pc = "next"]
       \/ /\ SetAction(j, i, [a EXCEPT !.status = "needs_review"])
          /\ op' = Idle
    /\ UNCHANGED <<environment, counters>>

\* Fault: a lost answer counts as a refusal.
RecordDoubtAsRefusal ==
    LET a == ledger[op.job].acts[op.at] IN
    /\ op.pc \in {"refused", "lost"}
    /\ SetAction(op.job, op.at, [a EXCEPT !.status = a.prior])
    /\ op' = Idle
    /\ UNCHANGED <<environment, counters>>

\* A certain refusal restores the status; anything else needs review.
RecordFailure ==
    LET a == ledger[op.job].acts[op.at] IN
    /\ op.pc \in {"refused", "lost"}
    /\ SetAction(op.job, op.at,
          [a EXCEPT !.status = IF op.pc = "refused" THEN a.prior ELSE "needs_review"])
    /\ op' = Idle
    /\ UNCHANGED <<environment, counters>>

Finish ==
    /\ op.pc = "next" /\ op.todo = {}
    /\ op' = Idle
    /\ UNCHANGED <<ledger, environment, counters>>

\* Authority or context lost, a read that failed, a commit that failed: the
\* operation ends where it stands.
Abandon ==
    /\ op.pc \notin {"idle", "wait"}
    /\ GiveWay
    /\ UNCHANGED <<ledger, environment, counters>>

-----------------------------------------------------------------------------
(* The servers, other people, and the gateway's crashes.                     *)

Answer(q, pc) ==
    IF op.pc = "wait" /\ op.token = q.token /\ op.job = q.job /\ op.at = q.index
    THEN op' \in {[op EXCEPT !.pc = pc], [op EXCEPT !.pc = "lost"]}
    ELSE UNCHANGED op

\* The contract: If-Match and the tests of the patch, then the touched fields.
ServerWrites(q) ==
    LET r == ResourceOf(q.job, q.index)
        a == ledger[q.job].acts[q.index]
        value(f) == IF q.dir = "apply" THEN q.job ELSE a.before[f]
    IN
    /\ q \in net /\ remote[r].version = q.version
    /\ r \in Texts \/ Matches(remote[r].body, q.job, a, q.dir = "undo")
    /\ remote' = [remote EXCEPT ![r] =
          [version |-> @.version + 1,
           body |-> [f \in Fields |-> IF f \in a.touched THEN value(f) ELSE @.body[f]]]]
    /\ effect' = [effect EXCEPT ![q.job][q.index] = q.dir]
    /\ net' = net \ {q}
    /\ Answer(q, "ok")
    /\ UNCHANGED <<ledger, edits, counters>>

\* A refusal, or a request that never arrives.
ServerRefuses(q) ==
    /\ q \in net
    /\ net' = net \ {q}
    /\ Answer(q, "refused")
    /\ UNCHANGED <<ledger, remote, edits, effect, counters>>

OutsideEdit(r, f, v) ==
    /\ edits < MaxEdits /\ remote[r].body[f] # v
    /\ edits' = edits + 1
    /\ remote' = [remote EXCEPT ![r] = [version |-> @.version + 1,
                                        body |-> [@.body EXCEPT ![f] = v]]]
    /\ UNCHANGED <<ledger, op, net, effect, counters>>

\* NewStore after a crash: interrupted intents need review.
Restart ==
    /\ ledger' = [j \in DOMAIN ledger |-> Load(ledger[j])]
    /\ op' = Idle
    /\ UNCHANGED <<environment, counters>>

-----------------------------------------------------------------------------
Begin ==
    \E j \in Jobs :
        \/ BeginPrepare(j) \/ View(j)
        \/ \E dir \in Directions : BeginPreview(j, dir)
        \/ \E token \in 1 .. tokens : BeginExecute(j, token)

OpStep ==
    \/ \E i \in Turn("apply") : PrepareRead(i) \/ PreviewRead(i)
    \/ \E i \in Turn(op.dir) : Check(i) \/ Reconcile(i) \/ Intend(i)
    \/ PrepareSave \/ PreviewSave \/ Consume \/ PermissionLost \/ Send
    \/ TimeOut \/ ReadBack \/ RecordFailure \/ Finish \/ Abandon

Environment ==
    \/ \E q \in net : ServerWrites(q) \/ ServerRefuses(q)
    \/ \E r \in Resources, f \in Fields, v \in Values : OutsideEdit(r, f, v)
    \/ Restart

Next == Begin \/ OpStep \/ Environment

Spec == Init /\ [][Next]_vars

\* Every request of the Store has a deadline, so an operation that holds the
\* gate always has a next step and takes it.
FairSpec == Spec /\ WF_vars(OpStep)

-----------------------------------------------------------------------------
RemoteOK == remote \in [Resources -> [version : Nat, body : [Fields -> Values]]]

LedgerOK ==
    /\ DOMAIN ledger \subseteq Jobs /\ ledger = [j \in DOMAIN ledger |-> ledger[j]]
    /\ \A j \in DOMAIN ledger : IsReceipt(ledger[j], j)

OperationOK == op = Idle \/ IsOperation(op)

RequestsOK == \A q \in net : q \in Request /\ q.index \in Indices(q.job)

HistoryOK ==
    /\ tokens \in Nat /\ orders \in Nat /\ edits \in Nat
    /\ DOMAIN effect = Jobs
    /\ \A j \in Jobs : effect[j] \in [Indices(j) -> {"none", "apply", "undo"}]
    /\ sent \subseteq Nat \X Jobs \X AllIndices

\* The ledger holds whole receipts, and the operation and the requests refer to
\* changes that their job has.
TypeOK == RemoteOK /\ LedgerOK /\ OperationOK /\ RequestsOK /\ HistoryOK

StatusOf(e) == CASE e = "none" -> "pending" [] e = "apply" -> "applied" [] e = "undo" -> "undone"

\* The receipt tells the truth: unless an operator has accepted an observed
\* state, "pending", "applied" and "undone" say what the server last executed,
\* however the gateway crashed and whichever answers were lost (Execute).
ReceiptTruth ==
    \A j \in DOMAIN ledger : \A i \in Indices(j) :
        LET a == ledger[j].acts[i] IN
        a.status \notin Uncertain /\ ~a.reconciled
            => a.status = StatusOf(effect[j][i])

\* "Repeated delivery can read the current receipt, never dispatch it twice":
\* no token sends the same write a second time.
DispatchOncePerToken ==
    [][op.pc = "send" /\ op'.pc = "wait" => <<op.token, op.job, op.at>> \notin sent]_vars

\* A write replaces exactly the values the receipt recorded: nothing that
\* somebody else put there since is overwritten (If-Match with the previewed
\* version).
NothingOverwritten ==
    [][\A q \in net : ServerWrites(q) =>
          Matches(remote[ResourceOf(q.job, q.index)].body, q.job,
                  ledger[q.job].acts[q.index], q.dir = "undo")]_vars

\* "Undo runs in reverse order" and "refuses to pass a later, overlapping applied
\* job": no undo is sent while a later change of its job stands, or a change that
\* another job made later to the same fields.
UndoInOrder ==
    [][op.pc = "send" /\ op'.pc = "wait" /\ op.dir = "undo" =>
          LET a == ledger[op.job].acts[op.at]
              stands(k, m) == ledger[k].acts[m].status = "applied"
          IN /\ \A i \in Indices(op.job) : i > op.at => ~stands(op.job, i)
             /\ \A k \in DOMAIN ledger \ {op.job} : \A m \in Indices(k) :
                   /\ ResourceOf(k, m) = ResourceOf(op.job, op.at)
                   /\ Overlap(ResourceOf(k, m), a, ledger[k].acts[m])
                   /\ stands(k, m)
                   => ledger[k].acts[m].order < a.order]_vars

\* The gate is given back.
GateReleased == op # Idle ~> op = Idle

\* The receipt implements the abstract one: every write is announced before it
\* can happen, and only the executed write or a person's decision ends a doubt.
Changed == {c \in Jobs \X AllIndices : c[2] \in Indices(c[1])}

RefinedReceipt ==
    INSTANCE Receipt WITH
        Changes <- Changed,
        actual  <- [c \in Changed |-> StatusOf(effect[c[1]][c[2]])],
        claim   <- [c \in Changed |->
                       IF c[1] \notin DOMAIN ledger THEN "pending"
                       ELSE LET status == ledger[c[1]].acts[c[2]].status IN
                            IF status \in Uncertain THEN "doubt" ELSE status],
        decided <- [c \in Changed |->
                       c[1] \in DOMAIN ledger /\ ledger[c[1]].acts[c[2]].reconciled]

ImplementsReceipt == RefinedReceipt!Spec
=============================================================================
