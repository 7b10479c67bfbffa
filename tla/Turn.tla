--------------------------------- MODULE Turn ---------------------------------
(***************************************************************************)
(* One turn of an agent that reaches for a phone: the built-in branch of     *)
(* internal/runtime/engine_tool_dispatch.go, which asks (module Approvals)   *)
(* and then runs the handlers mobile.invoke and mobile.command_status of     *)
(* internal/runtime/engine_tools_mobile.go (module NodeCommands).            *)
(*                                                                          *)
(* A call of the agent that is also in Commands is a mobile.invoke call: the *)
(* fresh id of its command is the call itself.  The other commands are       *)
(* created by a person's client with an Idempotency-Key, and may be created  *)
(* again.  The gateway may be restarted: it forgets runs, approvals and      *)
(* requests, while the rows and the phone go on.                             *)
(***************************************************************************)
EXTENDS Approvals, NodeCommands

VARIABLES
    sent,    \* calls whose handler has been called
    reading, \* calls whose row has been read as queued, and not yet compared with the time
    told     \* call -> the last status mobile.command_status returned

turnVars == <<sent, reading, told>>
vars == <<brokerVars, nodeVars, turnVars>>

Invokes == Calls \cap Commands
Direct == Commands \ Calls

TypeOK ==
    /\ BrokerTypeOK
    /\ NodeTypeOK
    /\ sent \subseteq Calls /\ reading \subseteq Invokes
    /\ told \in [Calls -> Statuses]

Init ==
    /\ BrokerInit
    /\ NodeInit
    /\ sent = {} /\ reading = {}
    /\ told = [c \in Calls |-> "none"]

-----------------------------------------------------------------------------
\* Fault: an error of the confirmation is taken for a missing policy.
ClearedByError(c) == stage[c] = "left" /\ outcome[c] # "denied"

\* maybeConfirm returned no error.
Cleared(c) == stage[c] = "left" /\ outcome[c] \in {"unasked", "approved"}

\* The handler of mobile.invoke reads the registration, or fails.
Invoke(c) ==
    /\ c \in Invokes \ sent /\ Cleared(c)
    /\ sent' = sent \cup {c}
    /\ Check(c) \/ UNCHANGED nodeVars
    /\ UNCHANGED <<brokerVars, reading, told>>

\* It inserts the command; the end of the run may prevent that.
InsertInvoked(c) ==
    /\ c \in Invokes
    /\ \/ Insert(c)
       \/ /\ c \in ended /\ c \in creating
          /\ creating' = creating \ {c}
          /\ UNCHANGED <<row, lapsed, node, claiming, phone>>
    /\ UNCHANGED <<brokerVars, turnVars>>

\* A person's client creates a command, or repeats the request.
Create(c) ==
    /\ c \in Direct
    /\ Check(c) \/ Insert(c)
    /\ UNCHANGED <<brokerVars, turnVars>>

\* waitForNodeCommand reads the row, and again until the status is final ...
ReadRow(c) ==
    /\ c \in (Invokes \cap sent) \ reading /\ row[c] # "none"
    /\ \/ row[c] = "queued" /\ reading' = reading \cup {c} /\ UNCHANGED told
       \/ row[c] # "queued" /\ told' = [told EXCEPT ![c] = row[c]] /\ UNCHANGED reading
    /\ UNCHANGED <<brokerVars, nodeVars, sent>>

\* ... where scanNodeCommand shows a row that it read as queued by the time it is then.
ShowQueued(c) ==
    /\ c \in reading
    /\ reading' = reading \ {c}
    /\ told' = [told EXCEPT ![c] = IF c \in lapsed THEN "expired" ELSE "queued"]
    /\ UNCHANGED <<brokerVars, nodeVars, sent>>

\* The gateway stops at any point and starts again: every run is over.
Restart ==
    /\ stage' = [c \in Calls |-> IF stage[c] = "idle" THEN "idle" ELSE "left"]
    /\ outcome' = [c \in Calls |->
          IF stage[c] = "waiting" THEN "cancelled" ELSE outcome[c]]
    /\ ended' = ended \cup {c \in Calls : stage[c] # "idle"}
    /\ sent' = sent \cup {c \in Calls : stage[c] # "idle"}
    /\ pending' = {}
    /\ slot' = [c \in Calls |-> <<>>]
    /\ hand' = [d \in Deciders |-> Empty]
    /\ creating' = {} /\ claiming' = {} /\ reading' = {}
    /\ UNCHANGED <<accepted, row, lapsed, node, phone, told>>

Next ==
    \/ BrokerNext /\ UNCHANGED <<nodeVars, turnVars>>
    \/ \E c \in Commands :
          Invoke(c) \/ InsertInvoked(c) \/ Create(c) \/ ReadRow(c) \/ ShowQueued(c)
    \/ NodeStep /\ UNCHANGED <<brokerVars, turnVars>>
    \/ Restart

Spec == Init /\ [][Next]_vars

-----------------------------------------------------------------------------
(* Properties.                                                               *)

\* The phone does what a guarded call asks for only if a person who may decide said
\* yes to that call and the run heard it: not when the run gave up, was refused,
\* or was told no, and not by a command that outlived a restart.
DoneOnlyIfCleared ==
    \A c \in Invokes : done[c] > 0 =>
        \/ outcome[c] = "unasked"
        \/ /\ outcome[c] = "approved"
           /\ \E a \in accepted : a.call = c /\ a.approved /\ <<a.by, c>> \in MayDecide

\* What the agent was last told of its command.  A final status of the row never turns out
\* wrong: what was completed was done once, and what was declined was not and will not
\* be.  "expired" means just that: the phone said so, or was unpaired, and it was
\* and will not be done; or its time has passed, and then a phone that had asked for it
\* in time may still have it or get it (scanNodeCommand, ClaimNodeCommand).
ToldTheTruth ==
    \A c \in Invokes :
        /\ told[c] = "completed" => done[c] = 1
        /\ told[c] = "declined" => done[c] = 0
        /\ told[c] \in Results \ {"expired"} => row[c] = told[c]
        /\ told[c] = "expired" => c \in lapsed \/ (row[c] = "expired" /\ done[c] = 0)
=============================================================================
