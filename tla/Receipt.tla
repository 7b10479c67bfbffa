-------------------------------- MODULE Receipt --------------------------------
(***************************************************************************)
(* What a receipt of changes promises to the person who reads it: it says    *)
(* "doubt" before a change can happen to the resource, and stops saying so   *)
(* only with the truth or by that person's own decision.  internal/safeundo  *)
(* implements it with an intent that is durable before the request is sent,  *)
(* a read-back, and the recovery of interrupted intents (module SafeUndo).   *)
(***************************************************************************)
CONSTANT Changes   \* the reviewed changes

VARIABLES
    actual,    \* what has really happened to the resource
    claim,     \* what the receipt says
    decided    \* whether a person has accepted an observed state

vars == <<actual, claim, decided>>

States == {"pending", "applied", "undone"}

Init ==
    /\ actual = [c \in Changes |-> "pending"]
    /\ claim = [c \in Changes |-> "pending"]
    /\ decided = [c \in Changes |-> FALSE]

\* The intent is recorded.
Announce(c) ==
    /\ claim[c] # "doubt"
    /\ claim' = [claim EXCEPT ![c] = "doubt"]
    /\ UNCHANGED <<actual, decided>>

\* The resource changes, at any time once it has been announced.
Happen(c) ==
    /\ claim[c] = "doubt" \/ decided[c]
    /\ \E s \in {"applied", "undone"} : actual' = [actual EXCEPT ![c] = s]
    /\ UNCHANGED <<claim, decided>>

\* The outcome is known.
Settle(c) ==
    /\ claim[c] = "doubt"
    /\ \E s \in States : (s = actual[c] \/ decided[c]) /\ claim' = [claim EXCEPT ![c] = s]
    /\ UNCHANGED <<actual, decided>>

\* A person settles the doubt.
Decide(c) ==
    /\ claim[c] = "doubt"
    /\ \E s \in States : claim' = [claim EXCEPT ![c] = s]
    /\ decided' = [decided EXCEPT ![c] = TRUE]
    /\ UNCHANGED actual

Next == \E c \in Changes : Announce(c) \/ Happen(c) \/ Settle(c) \/ Decide(c)

Spec == Init /\ [][Next]_vars
=============================================================================
