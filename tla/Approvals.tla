------------------------------- MODULE Approvals -------------------------------
(***************************************************************************)
(* Approval of a tool call by a person (internal/runtime/confirm.go,         *)
(* maybeConfirm and requiredHumanConfirm of internal/runtime/engine.go, the  *)
(* confirm and approvals handlers of internal/gateway).  A run that reaches  *)
(* a guarded call registers it with the broker and waits on a channel of     *)
(* one slot; any paired device of its owner, or an administrator, answers;   *)
(* the run may end first.                                                    *)
(*                                                                          *)
(* One action is one critical section of the broker, or one operation on     *)
(* the channel.  What is asked, why, and by which device are left out.       *)
(***************************************************************************)
CONSTANTS
    Calls,      \* tool calls; each has an id of its own (a fresh UUID)
    Deciders,   \* requests that carry an answer of a person
    MayDecide   \* <<decider, call>>: the owner of the run, or an administrator

ASSUME MayDecideAssumption == MayDecide \subseteq Deciders \X Calls

VARIABLES
    stage,     \* call -> where its run is
    outcome,   \* call -> how its confirmation ended
    pending,   \* ConfirmBroker.pending: the calls that wait for an answer
    slot,      \* call -> what its channel holds
    ended,     \* calls whose run context is done (deadline, cancel, client gone)
    hand,      \* decider -> the answer it has taken the entry for, not yet sent
    accepted   \* history: the answers whose decider was told "ok"

brokerVars == <<stage, outcome, pending, slot, ended, hand, accepted>>

Stages == {"idle", "waiting", "leaving", "left"}
Outcomes == {"none", "unasked", "approved", "denied", "refused", "cancelled"}
Answers == [call : Calls, approved : BOOLEAN]
Empty == [call |-> "none"]
Accepted == [by : Deciders, call : Calls, approved : BOOLEAN]

BrokerTypeOK ==
    /\ stage \in [Calls -> Stages]
    /\ outcome \in [Calls -> Outcomes]
    /\ pending \subseteq Calls
    /\ slot \in [Calls -> {<<>>, <<TRUE>>, <<FALSE>>}]
    /\ ended \subseteq Calls
    /\ hand \in [Deciders -> Answers \cup {Empty}]
    /\ accepted \subseteq Accepted

BrokerInit ==
    /\ stage = [c \in Calls |-> "idle"]
    /\ outcome = [c \in Calls |-> "none"]
    /\ pending = {}
    /\ slot = [c \in Calls |-> <<>>]
    /\ ended = {}
    /\ hand = [d \in Deciders |-> Empty]
    /\ accepted = {}

Move(c, from, to, how) ==
    /\ stage[c] = from
    /\ stage' = [stage EXCEPT ![c] = to]
    /\ outcome' = [outcome EXCEPT ![c] = how]

-----------------------------------------------------------------------------
(* The run: requiredHumanConfirm.                                            *)

\* maybeConfirm: the agent's policy, as it is now, does not name the tool.
PassUnasked(c) ==
    /\ Move(c, "idle", "left", "unasked")
    /\ UNCHANGED <<pending, slot, ended, hand, accepted>>

\* A schedule or a channel: nobody can be asked, so the call fails.
RefuseUnattended(c) ==
    /\ Move(c, "idle", "left", "refused")
    /\ UNCHANGED <<pending, slot, ended, hand, accepted>>

\* The sender registers the call (and announces it, which may be missed).
Ask(c) ==
    /\ Move(c, "idle", "waiting", "none")
    /\ pending' = pending \cup {c}
    /\ UNCHANGED <<slot, ended, hand, accepted>>

\* case approved := <-resultCh.
Obey(c) ==
    /\ slot[c] # <<>>
    /\ Move(c, "waiting", "leaving", IF slot[c] = <<TRUE>> THEN "approved" ELSE "denied")
    /\ slot' = [slot EXCEPT ![c] = <<>>]
    /\ UNCHANGED <<pending, ended, hand, accepted>>

\* case <-ctx.Done(): select may take it although the channel holds an answer.
GiveUp(c) ==
    /\ c \in ended
    /\ Move(c, "waiting", "leaving", "cancelled")
    /\ UNCHANGED <<pending, slot, ended, hand, accepted>>

\* The deferred Forget.
Forget(c) ==
    /\ Move(c, "leaving", "left", outcome[c])
    /\ pending' = pending \ {c}
    /\ UNCHANGED <<slot, ended, hand, accepted>>

\* The run's deadline passes, it is cancelled, or its client goes away.
EndRun(c) ==
    /\ c \notin ended /\ stage[c] # "idle"
    /\ ended' = ended \cup {c}
    /\ UNCHANGED <<stage, outcome, pending, slot, hand, accepted>>

-----------------------------------------------------------------------------
(* The person: ResolveForPrincipal, behind /chat/confirm and /approvals.     *)

\* Fault: the entry stays in the table until the answer has been sent.
TakeShared(d, c, v) ==
    /\ hand[d] = Empty /\ c \in pending /\ <<d, c>> \in MayDecide
    /\ hand' = [hand EXCEPT ![d] = [call |-> c, approved |-> v]]
    /\ UNCHANGED <<stage, outcome, pending, slot, ended, accepted>>

\* Under the lock: the entry goes to the first answer that may take it.  An
\* answer that finds no entry, or another person's, is told 404.
Take(d, c, v) ==
    /\ hand[d] = Empty /\ c \in pending /\ <<d, c>> \in MayDecide
    /\ pending' = pending \ {c}
    /\ hand' = [hand EXCEPT ![d] = [call |-> c, approved |-> v]]
    /\ UNCHANGED <<stage, outcome, slot, ended, accepted>>

Hand(d) ==
    /\ hand' = [hand EXCEPT ![d] = Empty]
    /\ accepted' = accepted \cup
          {[by |-> d, call |-> hand[d].call, approved |-> hand[d].approved]}

\* Fault: make(chan bool): the sender waits for a receiver.
DeliverUnbuffered(d) ==
    /\ hand[d] # Empty /\ Hand(d)
    /\ LET c == hand[d].call
       IN Move(c, "waiting", "leaving", IF hand[d].approved THEN "approved" ELSE "denied")
    /\ UNCHANGED <<pending, slot, ended>>

\* e.ch <- approved: after the lock, into a channel of capacity one.
Deliver(d) ==
    /\ hand[d] # Empty
    /\ slot[hand[d].call] = <<>>
    /\ slot' = [slot EXCEPT ![hand[d].call] = <<hand[d].approved>>]
    /\ Hand(d)
    /\ UNCHANGED <<stage, outcome, pending, ended>>

Run(c) == PassUnasked(c) \/ RefuseUnattended(c) \/ Ask(c) \/ Obey(c) \/ GiveUp(c) \/ Forget(c)
Decide(d) == Deliver(d) \/ \E c \in Calls, v \in BOOLEAN : Take(d, c, v)

BrokerNext ==
    \/ \E c \in Calls : Run(c) \/ EndRun(c)
    \/ \E d \in Deciders : Decide(d)

-----------------------------------------------------------------------------
(* Properties.                                                               *)

\* At most one answer of a call is accepted, whichever devices sent one, and the
\* run does what it says; an accepted answer is lost only to the end of the run.
AnswerObeyed ==
    /\ \A a, b \in accepted : a.call = b.call => a = b
    /\ \A c \in Calls :
          LET said(v) == \E a \in accepted : a.call = c /\ a.approved = v
          IN /\ outcome[c] = "approved" => said(TRUE)
             /\ outcome[c] = "denied" => said(FALSE)
             /\ outcome[c] = "cancelled" => c \in ended
    /\ \A a \in accepted : <<a.by, a.call>> \in MayDecide

\* The list of approvals shows no call that nobody waits for (Forget's comment).
NoStaleEntries == \A c \in pending : stage[c] \in {"waiting", "leaving"}

\* The request of a person never hangs on the channel of a call, whatever has
\* become of the run: one slot is enough, for a call is taken once.
SenderNeverBlocks == \A d \in Deciders : hand[d] # Empty => ENABLED Deliver(d)
=============================================================================
