----------------------------- MODULE NodeCommands -----------------------------
(***************************************************************************)
(* Commands for a paired phone (internal/channels/mobile/nodes.go, its       *)
(* handlers in internal/gateway/mobile_nodes.go).  A command is a row that   *)
(* is queued, claimed once, and finished once by the result the phone saved; *)
(* it lapses when nobody asks to claim it in time.  Every call over the      *)
(* network may be late, repeated, or lose its answer.                        *)
(*                                                                          *)
(* One action is one statement on the database, one look at the clock before *)
(* a statement that may wait for the database, or one step of the phone.     *)
(* The phone is not part of the repository: it polls, claims, acts only on   *)
(* the answer of a claim, saves the result, and sends it until it is taken   *)
(* (the protocol comment of nodes.go).  The phone application may be killed  *)
(* and started again at any point; each start is a "life" of it.  Parameters *)
(* and results are left out: a command's id stands for its content.          *)
(***************************************************************************)
EXTENDS Naturals, FiniteSets

CONSTANTS
    Commands,    \* command ids
    Kinds,       \* what a phone can be asked for
    KindOf,      \* command -> its kind
    Lives,       \* starts of the phone application
    MaxQueued    \* commands a device may have queued (100 in the code)

ASSUME KindAssumption == KindOf \in [Commands -> Kinds]
ASSUME MaxQueuedAssumption == MaxQueued \in Nat \ {0}

VARIABLES
    row,       \* command -> its status column, "none" before the insert
    lapsed,    \* commands whose expires_at has passed
    paired,    \* whether the phone is registered
    offers,    \* the capabilities it has registered
    creating,  \* commands whose request has read the registration
    claiming,  \* <<life, command>>: claims that have taken the time and not yet written
    at,        \* life -> command -> how far this life of the phone is with it
    saved,     \* command -> the result on the phone's disk
    done       \* history: command -> how many times the phone has done it

node == <<paired, offers>>
requests == <<creating, claiming>>
server == <<row, lapsed, node, requests>>
phone == <<at, saved, done>>
nodeVars == <<server, phone>>

Results == {"completed", "failed", "declined", "expired"}
Statuses == {"none", "queued", "running"} \cup Results
Progress == {"unseen", "seen", "claimed", "acted", "killed"}

NodeTypeOK ==
    /\ row \in [Commands -> Statuses]
    /\ lapsed \subseteq Commands
    /\ paired \in BOOLEAN /\ offers \subseteq Kinds
    /\ creating \subseteq Commands /\ claiming \subseteq Lives \X Commands
    /\ at \in [Lives -> [Commands -> Progress]]
    /\ saved \in [Commands -> {"none"} \cup Results]
    /\ done \in [Commands -> Nat]

NodeInit ==
    /\ row = [c \in Commands |-> "none"]
    /\ lapsed = {} /\ creating = {} /\ claiming = {}
    /\ paired = FALSE /\ offers = {}
    /\ at = [l \in Lives |-> [c \in Commands |-> "unseen"]]
    /\ saved = [c \in Commands |-> "none"]
    /\ done = [c \in Commands |-> 0]

Offers(k) == paired /\ k \in offers
Waiting(c) == row[c] = "queued" /\ c \notin lapsed
SetRow(c, status) == row' = [row EXCEPT ![c] = status]

-----------------------------------------------------------------------------
(* The server.                                                               *)

\* RegisterNode: the phone states again what its person allows.
RegisterNode ==
    /\ paired' = TRUE
    /\ \E capabilities \in SUBSET Kinds : offers' = capabilities
    /\ UNCHANGED <<row, lapsed, requests, phone>>

\* DeleteDevice (unpairing): one transaction; what is running stays as it is.
DeleteDevice ==
    /\ paired /\ paired' = FALSE /\ offers' = {}
    /\ row' = [c \in Commands |-> IF row[c] = "queued" THEN "expired" ELSE row[c]]
    /\ UNCHANGED <<lapsed, requests, phone>>

\* EnqueueNodeCommand reads the registration ...
Check(c) ==
    /\ Offers(KindOf[c])
    /\ creating' = creating \cup {c}
    /\ UNCHANGED <<row, lapsed, node, claiming, phone>>

\* The rows that count as queued: those whose time had not passed when the request
\* looked at the clock, so some that have lapsed since may be counted.
Queued == Cardinality({c \in Commands : Waiting(c)})
QueuedEarlier == Cardinality({c \in Commands : row[c] = "queued"})

\* ... and inserts the row, unless the id is known (a repeated request: the row
\* is returned as it is) or too many are queued (a conflict).
Insert(c) ==
    /\ c \in creating
    /\ creating' = creating \ {c}
    /\ \/ row[c] = "none" /\ Queued < MaxQueued /\ SetRow(c, "queued")
       \/ (row[c] # "none" \/ QueuedEarlier >= MaxQueued) /\ UNCHANGED row
    /\ UNCHANGED <<lapsed, node, claiming, phone>>

\* expires_at passes.
Lapse(c) ==
    /\ row[c] # "none" /\ c \notin lapsed
    /\ lapsed' = lapsed \cup {c}
    /\ UNCHANGED <<row, node, requests, phone>>

BeginClaim(l, c) ==
    /\ at[l][c] \in {"seen", "killed"} /\ paired
    /\ claiming' = claiming \cup {<<l, c>>}
    /\ UNCHANGED <<row, lapsed, node, creating, phone>>

\* Fault: the update does not look at the expiry.
AskLate(l, c) == BeginClaim(l, c)

\* ClaimNodeCommand takes the time that its statement compares with expires_at, and
\* then waits for the database; too late a time changes no row.
AskToClaim(l, c) == c \notin lapsed /\ BeginClaim(l, c)

\* Fault: the update does not look at the status.
ClaimableAgain(c) == row[c] # "none" /\ Offers(KindOf[c])

\* What else the statement requires, when it is executed.
Claimable(c) == row[c] = "queued" /\ Offers(KindOf[c])

\* The statement.  The answer may be lost, and reaches only the life of the phone that
\* asked.
Claim(l, c) ==
    /\ <<l, c>> \in claiming /\ Claimable(c)
    /\ claiming' = claiming \ {<<l, c>>}
    /\ SetRow(c, "running")
    /\ \/ at[l][c] = "seen" /\ at' = [at EXCEPT ![l][c] = "claimed"]
       \/ UNCHANGED at
    /\ UNCHANGED <<lapsed, node, creating, saved, done>>

\* A claim that changes no row is answered with a conflict, or the database fails.
ClaimFails(l, c) ==
    /\ <<l, c>> \in claiming
    /\ claiming' = claiming \ {<<l, c>>}
    /\ UNCHANGED <<row, lapsed, node, creating, phone>>

\* FinishNodeCommand with the saved result; sent again, it changes nothing.
Finish(c) ==
    /\ saved[c] # "none" /\ paired
    /\ row[c] = "running"
    /\ SetRow(c, saved[c])
    /\ UNCHANGED <<lapsed, node, requests, phone>>

-----------------------------------------------------------------------------
(* The phone (external).                                                     *)

Step(l, c, from, to) == at[l][c] = from /\ at' = [at EXCEPT ![l][c] = to]

\* PendingNodeCommands: the queued rows whose time has not passed.
Poll(l, c) ==
    /\ paired /\ Waiting(c)
    /\ Step(l, c, "unseen", "seen")
    /\ UNCHANGED <<server, saved, done>>

\* It acts on the answer of its claim.
Act(l, c) ==
    /\ Step(l, c, "claimed", "acted")
    /\ done' = [done EXCEPT ![c] = @ + 1]
    /\ UNCHANGED <<server, saved>>

\* It saves what became of it: done, tried in vain, refused, or too late.
Save(l, c) ==
    /\ saved[c] = "none"
    /\ \/ at[l][c] = "acted" /\ saved' = [saved EXCEPT ![c] = "completed"]
       \/ at[l][c] \in {"acted", "claimed"} /\ saved' = [saved EXCEPT ![c] = "failed"]
       \/ at[l][c] = "claimed"
             /\ \E r \in {"declined", "expired"} : saved' = [saved EXCEPT ![c] = r]
    /\ at' = [at EXCEPT ![l][c] = "unseen"]
    /\ UNCHANGED <<server, done>>

\* The application is killed; a claim it has sent may still arrive.
Kill(l) ==
    /\ at' = [at EXCEPT ![l] = [c \in Commands |->
                 IF at[l][c] = "unseen" THEN "unseen" ELSE "killed"]]
    /\ at' # at
    /\ UNCHANGED <<server, saved, done>>

\* Every step but the creation of a command, which has several callers.
NodeStep ==
    \/ RegisterNode \/ DeleteDevice
    \/ \E c \in Commands : Lapse(c) \/ Finish(c)
    \/ \E l \in Lives, c \in Commands :
          \/ AskToClaim(l, c) \/ Claim(l, c) \/ ClaimFails(l, c)
          \/ Poll(l, c) \/ Act(l, c) \/ Save(l, c)
    \/ \E l \in Lives : Kill(l)

NodeNext == NodeStep \/ \E c \in Commands : Check(c) \/ Insert(c)

NodeSpec == NodeInit /\ [][NodeNext]_nodeVars

-----------------------------------------------------------------------------
(* Properties.                                                               *)

\* What the row of a command promises; a queued row whose time has passed is shown as
\* expired (scanNodeCommand).
ErrandState == [c \in Commands |->
    CASE row[c] = "none" -> "absent"
      [] Waiting(c) -> "open"
      [] row[c] = "queued" /\ c \in lapsed -> "late"
      [] row[c] = "running" -> "taken"
      [] OTHER -> row[c]]

Asked == {c \in Commands : \E l \in Lives : <<l, c>> \in claiming}

E == INSTANCE Errand WITH Errands <- Commands, state <- ErrandState, asked <- Asked, done <- done

\* A phone command is done at most once, by who claimed it.  Once its time has passed it
\* is claimed only by a request that took the time before (ClaimNodeCommand), however
\* long that waited for the database; and a final status of the row is true and stays.
ImplementsErrand == E!Spec
=============================================================================
