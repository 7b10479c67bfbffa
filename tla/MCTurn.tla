-------------------------------- MODULE MCTurn --------------------------------
(* A small instance of Turn: one call of an agent, one command of a person.   *)
EXTENDS Turn, TLC
CONSTANTS u1, u2, k

\* Two devices of the owner answer, and one of somebody else.
Owners == {u1, u2} \X Calls
Identities == Permutations({u1, u2}) \cup Permutations(Lives)

\* The phone has one command in hand: two of them meet only where the number of queued
\* commands is limited, and when the phone is unpaired.
InHand(c) == \E l \in Lives : at[l][c] # "unseen" \/ <<l, c>> \in claiming
OneInHand == Cardinality({c \in Commands : InHand(c)}) <= 1

OneKind == [c \in Commands |-> k]
=============================================================================
