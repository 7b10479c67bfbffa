-------------------------------- MODULE Errand --------------------------------
(***************************************************************************)
(* What a phone command promises to whoever asked for it: it is done at      *)
(* most once, only by who took it, and taken only by who asked to in time;   *)
(* how it ended is true and final.  An errand that nobody has taken in time  *)
(* is late, and shown as expired; one who asked in time may still take it.   *)
(* internal/channels/mobile implements it with one row per command and a     *)
(* conditional update per step (module NodeCommands).                        *)
(***************************************************************************)
CONSTANT Errands

VARIABLES
    state,   \* errand -> "absent", "open", "late", "taken", or how it ended
    asked,   \* errands that somebody has asked to take, and has not heard of yet
    done     \* errand -> how many times it has really been done

vars == <<state, asked, done>>

Init ==
    /\ state = [e \in Errands |-> "absent"]
    /\ asked = {}
    /\ done = [e \in Errands |-> 0]

Goes(e, from, to) == state[e] = from /\ state' = [state EXCEPT ![e] = to]

Post(e) == Goes(e, "absent", "open") /\ UNCHANGED <<asked, done>>
Lapse(e) == Goes(e, "open", "late") /\ UNCHANGED <<asked, done>>

AskFor(e) ==
    /\ state[e] # "late"
    /\ asked' = asked \cup {e}
    /\ UNCHANGED <<state, done>>

\* Others may have asked for it as well.
Take(e) ==
    /\ e \in asked /\ (Goes(e, "open", "taken") \/ Goes(e, "late", "taken"))
    /\ asked' \in {asked, asked \ {e}}
    /\ UNCHANGED done

\* Those who asked are refused, or forgotten.
Refuse ==
    /\ asked' \in SUBSET asked
    /\ UNCHANGED <<state, done>>

\* What nobody has taken is withdrawn, several at once.
Withdraw ==
    /\ \E E \in SUBSET Errands :
          /\ \A e \in E : state[e] \in {"open", "late"}
          /\ state' = [e \in Errands |-> IF e \in E THEN "expired" ELSE state[e]]
    /\ UNCHANGED <<asked, done>>

Do(e) ==
    /\ state[e] = "taken" /\ done[e] = 0
    /\ done' = [done EXCEPT ![e] = 1]
    /\ UNCHANGED <<state, asked>>

\* A success is reported only of what was done, a refusal only of what was not.
Report(e) ==
    /\ \/ done[e] = 1 /\ Goes(e, "taken", "completed")
       \/ done[e] = 0 /\ (Goes(e, "taken", "declined") \/ Goes(e, "taken", "expired"))
       \/ Goes(e, "taken", "failed")
    /\ UNCHANGED <<asked, done>>

Next ==
    \/ Refuse \/ Withdraw
    \/ \E e \in Errands : Post(e) \/ Lapse(e) \/ AskFor(e) \/ Take(e) \/ Do(e) \/ Report(e)

Spec == Init /\ [][Next]_vars
=============================================================================
