------------------------------- MODULE Sidecar -------------------------------
(***************************************************************************)
(* A channel that is a program of its own (internal/channels/external): the  *)
(* Supervisor starts it again whenever it ends, a watcher of the vault       *)
(* (internal/plugins/delegation.go) restarts it when one of its secrets      *)
(* changes, and the gateway stops it at its own end.                         *)
(*                                                                          *)
(* One action is one critical section of the supervisor, one step of         *)
(* Adapter.Stop, or one step of the program.  An adapter stands for one      *)
(* start of the program, and its identity is used again when nobody refers   *)
(* to it.  The secrets are a version number.  Left out: the length of a      *)
(* delay, and so the count of restarts; the messages; and the end of the     *)
(* gateway's context, which kills every program.                             *)
(***************************************************************************)
EXTENDS Naturals, FiniteSets

CONSTANTS MaxRotations   \* bound on the changes of the secrets

VARIABLES
    sup,        \* Start, then the goroutine of supervise
    current,    \* the adapter the supervisor refers to
    next,       \* the adapter that is being started
    stopped,    \* Stop has been called
    stop,       \* whether the channel stop is closed
    program,    \* adapter -> its process
    env,        \* adapter -> the version of the secrets it was given
    once,       \* adapter -> its stopOnce
    vault,      \* the version of the secrets in the vault
    baseline,   \* the version the watcher has seen
    at,         \* caller -> where its call of Restart or Stop is
    victim      \* caller -> the adapter it stops

sidecar == <<program, env, once>>
supervisor == <<sup, current, next>>
stopping == <<stopped, stop>>
watcher == <<vault, baseline>>
callers == <<at, victim>>
sidecarVars == <<supervisor, stopping, sidecar, watcher, callers>>

\* Three can be referred to when one is needed; 0 is no adapter.
Adapters == 1..4
Callers == {"watcher", "stopper"}

SidecarTypeOK ==
    /\ sup \in {"off", "first", "store", "watch", "delay", "due", "spawn", "failed", "ended"}
    /\ {current, next} \subseteq 0..4 /\ {stopped, stop} \subseteq BOOLEAN
    /\ program \in [Adapters -> {"none", "up", "clogged", "dead"}]
    /\ env \in [Adapters -> Nat] /\ once \in [Adapters -> {"no", "running", "done"}]
    /\ {vault, baseline} \subseteq Nat
    /\ at \in [Callers -> {"idle", "changed", "close", "stop", "write", "grace", "done"}]
    /\ victim \in [Callers -> 0..4]

\* buildSupervisor: the watcher has read the secrets, nothing is started.
SidecarInit ==
    /\ sup = "off" /\ current = 0 /\ next = 0
    /\ stopped = FALSE /\ stop = FALSE
    /\ program = [a \in Adapters |-> "none"]
    /\ env = [a \in Adapters |-> 0]
    /\ once = [a \in Adapters |-> "no"]
    /\ vault = 0 /\ baseline = 0
    /\ at = [k \in Callers |-> "idle"]
    /\ victim = [k \in Callers |-> 0]

Live == {a \in Adapters : program[a] \in {"up", "clogged"}}
Goes(from, to) == sup = from /\ sup' = to
Moves(k, from, to) == at[k] = from /\ at' = [at EXCEPT ![k] = to]

-----------------------------------------------------------------------------
(* Start and supervise.                                                      *)

Free == Adapters \ (Live \cup {current, next} \cup {victim[k] : k \in Callers})

\* New: an adapter nobody knows.
NewAdapter(a, as) ==
    /\ a \in Free /\ \A b \in Free : a <= b
    /\ program' = [program EXCEPT ![a] = as]
    /\ once' = [once EXCEPT ![a] = "no"]
    /\ env' = [env EXCEPT ![a] = vault]

\* newAdapter, which reads the secrets before any lock; one that is missing is an error.
Resolve ==
    /\ \/ /\ Goes("off", "first") \/ Goes("due", "spawn")
          /\ \E a \in Adapters : NewAdapter(a, "none") /\ next' = a
       \/ /\ Goes("off", "ended") \/ Goes("due", "failed")
          /\ UNCHANGED <<next, sidecar>>
    /\ UNCHANGED <<current, stopping, watcher, callers>>

Launch ==
    /\ program' = [program EXCEPT ![next] = "up"]
    /\ sup' = "store"
    /\ UNCHANGED <<next, env, once>>

Refuse(to) == sup' = to /\ next' = 0 /\ UNCHANGED sidecar

\* Fault: stopped is read when the delay ends, not where the program is started.
StartUnchecked ==
    /\ sup = "spawn"
    /\ Launch \/ Refuse("failed")
    /\ UNCHANGED <<current, stopping, watcher, callers>>

\* Adapter.Start under the supervisor's lock, which Stop takes as well.
StartAgain ==
    /\ sup = "spawn"
    /\ IF stopped THEN Refuse("ended") ELSE Launch \/ Refuse("failed")
    /\ UNCHANGED <<current, stopping, watcher, callers>>

\* Start does not take the lock; nobody stops what has not been started.
StartFirst ==
    /\ sup = "first"
    /\ Launch \/ Refuse("ended")
    /\ UNCHANGED <<current, stopping, watcher, callers>>

\* s.current = a, under the lock again.
Store ==
    /\ Goes("store", "watch")
    /\ current' = next /\ next' = 0
    /\ UNCHANGED <<stopping, sidecar, watcher, callers>>

\* Fault: an adapter that was never started, whose Done is nil.
StoreUnstarted ==
    /\ Goes("failed", "watch")
    /\ \E a \in Adapters : NewAdapter(a, "none") /\ current' = a
    /\ UNCHANGED <<next, stopping, watcher, callers>>

\* A failed start: an adapter that has ended already takes its place.
StoreFake ==
    /\ Goes("failed", "watch")
    /\ \E a \in Adapters : NewAdapter(a, "dead") /\ current' = a
    /\ UNCHANGED <<next, stopping, watcher, callers>>

\* Fault: Done is closed when the adapter is told to stop.
ExitedOrTold ==
    /\ Goes("watch", IF stopped THEN "ended" ELSE "delay")
    /\ program[current] = "dead" \/ once[current] # "no"
    /\ UNCHANGED <<current, next, stopping, sidecar, watcher, callers>>

\* <-cur.Done(), and the delay is computed under the lock.
Exited ==
    /\ Goes("watch", IF stopped THEN "ended" ELSE "delay")
    /\ program[current] = "dead"
    /\ UNCHANGED <<current, next, stopping, sidecar, watcher, callers>>

DelayOver ==
    /\ Goes("delay", "due")
    /\ UNCHANGED <<current, next, stopping, sidecar, watcher, callers>>

\* <-s.stop
HearStop ==
    /\ stop
    /\ Goes("watch", "ended") \/ Goes("delay", "ended")
    /\ UNCHANGED <<current, next, stopping, sidecar, watcher, callers>>

Supervise ==
    \/ Resolve \/ StartAgain \/ StartFirst \/ Store \/ StoreFake
    \/ Exited \/ DelayOver \/ HearStop

-----------------------------------------------------------------------------
(* The watcher, Restart and Stop.                                            *)

\* The fingerprint of the secrets has changed.
Notice ==
    /\ baseline # vault /\ baseline' = vault
    /\ Moves("watcher", "idle", "changed")
    /\ UNCHANGED <<vault, victim, supervisor, stopping, sidecar>>

\* Restart: the adapter is read under the lock, and stopped without it.
Restart ==
    /\ IF stopped \/ current = 0
       THEN Moves("watcher", "changed", "idle") /\ UNCHANGED victim
       ELSE /\ Moves("watcher", "changed", "stop")
            /\ victim' = [victim EXCEPT !["watcher"] = current]
    /\ UNCHANGED <<supervisor, stopping, sidecar, watcher>>

\* Stop, once, after Start has returned.
Stop ==
    /\ current # 0 \/ sup = "ended"
    /\ Moves("stopper", "idle", "close")
    /\ stopped' = TRUE
    /\ victim' = [victim EXCEPT !["stopper"] = current]
    /\ UNCHANGED <<stop, supervisor, sidecar, watcher>>

CloseStop ==
    /\ Moves("stopper", "close", IF victim["stopper"] = 0 THEN "done" ELSE "stop")
    /\ stop' = TRUE
    /\ UNCHANGED <<stopped, victim, supervisor, sidecar, watcher>>

Return(k, from) ==
    /\ Moves(k, from, IF k = "watcher" THEN "idle" ELSE "done")
    /\ victim' = [victim EXCEPT ![k] = 0]

\* Adapter.Stop: whoever comes second waits until the first has done.
EnterOnce(k) ==
    LET a == victim[k]
    IN \/ /\ Moves(k, "stop", "write")
          /\ once[a] = "no" /\ once' = [once EXCEPT ![a] = "running"]
          /\ UNCHANGED <<victim, program, env, supervisor, stopping, watcher>>
       \/ /\ Return(k, "stop")
          /\ once[a] = "done"
          /\ UNCHANGED <<sidecar, supervisor, stopping, watcher>>

\* The shutdown frame is written, which waits while the program does not read.
WriteShutdown(k) ==
    /\ Moves(k, "write", "grace")
    /\ program[victim[k]] # "clogged"
    /\ UNCHANGED <<victim, sidecar, supervisor, stopping, watcher>>

\* The program exits, or is killed after its grace.
Grace(k) ==
    LET a == victim[k]
    IN /\ Return(k, "grace")
       /\ program' = [program EXCEPT ![a] = "dead"]
       /\ once' = [once EXCEPT ![a] = "done"]
       /\ UNCHANGED <<env, supervisor, stopping, watcher>>

Call(k) == EnterOnce(k) \/ WriteShutdown(k) \/ Grace(k)

-----------------------------------------------------------------------------
(* The program and the vault.                                                *)

\* It crashes, or is killed because it does not greet in time.
Crash(a) ==
    /\ a \in Live /\ program' = [program EXCEPT ![a] = "dead"]
    /\ UNCHANGED <<env, once, supervisor, stopping, watcher, callers>>

\* It stops reading while frames are sent to it, or reads on.
Clog(a) ==
    /\ a \in Live
    /\ program' = [program EXCEPT ![a] = IF program[a] = "up" THEN "clogged" ELSE "up"]
    /\ UNCHANGED <<env, once, supervisor, stopping, watcher, callers>>

Rotate ==
    /\ vault < MaxRotations /\ vault' = vault + 1
    /\ UNCHANGED <<baseline, supervisor, stopping, sidecar, callers>>

SidecarNext ==
    \/ Supervise
    \/ Notice \/ Restart \/ Stop \/ CloseStop \/ \E k \in Callers : Call(k)
    \/ \E a \in Adapters : Crash(a) \/ Clog(a)
    \/ Rotate

SidecarSpec == SidecarInit /\ [][SidecarNext]_sidecarVars

-----------------------------------------------------------------------------
(* Properties.                                                               *)

\* The channel is never served by two programs at once, whatever ends, restarts and
\* stops them at the same time.
OneSidecar == Cardinality(Live) <= 1

\* No program is started once Stop has been called, not even by a delay that ends then.
NothingStartsAfterStop == [][stopped => Live' \subseteq Live]_sidecarVars

Down == Live = {} /\ ~stopped /\ sup \notin {"off", "first", "ended"}

\* Supervision does not give up: as long as it is not stopped, a program that is not
\* running is being started again, however often the start or the secrets fail.
KeepsTrying == Down ~> (~Down \/ sup = "due")

\* "so the sidecar always holds current values": once a change has been dealt with,
\* the program that is running has been given it.
HoldsCurrent ==
    sup = "watch" /\ current \in Live /\ at["watcher"] = "idle" /\ baseline = vault
        => stopped \/ env[current] = vault
=============================================================================
