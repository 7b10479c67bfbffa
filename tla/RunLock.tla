------------------------------- MODULE RunLock -------------------------------
(* What the run lock of the scheduler promises: an agent has at most one run, *)
(* the run in progress ends before the next one begins, only its owner ends   *)
(* it, and a process that dies takes every run with it.                       *)

CONSTANTS
    Agents,
    Threads,
    None      \* no owner: not a thread (NoneAssumption of Scheduler)

VARIABLE owner  \* agent -> the thread that runs it, or None

LockTypeOK == owner \in [Agents -> Threads \cup {None}]

LockInit == owner = [a \in Agents |-> None]

Acquire(t, a) == owner[a] = None /\ owner' = [owner EXCEPT ![a] = t]
Release(t, a) == owner[a] = t /\ owner' = [owner EXCEPT ![a] = None]
Die           == owner' = [a \in Agents |-> None]

LockNext == Die \/ \E t \in Threads, a \in Agents : Acquire(t, a) \/ Release(t, a)

LockSpec == LockInit /\ [][LockNext]_owner
=============================================================================
