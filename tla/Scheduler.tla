------------------------------ MODULE Scheduler ------------------------------
(***************************************************************************)
(* The agent scheduler of the gateway (internal/scheduler/scheduler.go),    *)
(* with everything that races with it: the goroutines that execute          *)
(* Scheduler.fireAt (a cron tick, a due one-shot timer, a startup catch-up) *)
(* or a manual run, the HTTP handlers that save, enable, disable, create or *)
(* delete an agent (internal/gateway/api.go), and the SOUL.yaml watcher     *)
(* that reloads definitions and re-registers schedules                      *)
(* (internal/runtime/watcher.go).                                           *)
(*                                                                          *)
(* One action is one critical section (or one file write) of the code; what *)
(* happens between two lock sections may interleave.  Time is abstract: a   *)
(* live cron job may tick, and a waiting timer may come due, at any moment. *)
(***************************************************************************)
EXTENDS Naturals, FiniteSets

CONSTANTS
    Agents,      \* agent ids
    Kind,        \* Kind[a]: the mechanism of a's schedule block, "cron" or "oneshot"
    Threads,     \* goroutines that execute fireAt, or a manual-run request
    Handlers,    \* gateway requests that change an agent
    Reloaders,   \* debounce callbacks of the watcher that may run at once
    Jobs,        \* identities of cron entries and of one-shot timers
    FailLimit,   \* consecutiveFailLimit (the feature is off in the code at <= 0)
    Surfaces,    \* values of [surface] that a save or an edit may choose
    EditedFiles, \* agents whose SOUL.yaml a person edits or removes by hand
    Failures,    \* the steps that may fail: a subset of FailureKinds
    None         \* no definition, no job, no thread

\* Writing SOUL.yaml, removing it, synchronising account connections, the validation at
\* start-up, and the schedule itself: an expression or a time that nobody can parse.
FailureKinds == {"write", "unlink", "connections", "validation", "schedule"}

ASSUME KindAssumption == Kind \in [Agents -> {"cron", "oneshot"}]
ASSUME FailLimitAssumption == FailLimit \in Nat \ {0}
ASSUME FailuresAssumption == Failures \subseteq FailureKinds
ASSUME SurfacesAssumption == Surfaces \subseteq BOOLEAN
ASSUME NoneAssumption ==
    /\ None \notin Agents \cup Jobs \cup Threads \cup Handlers \cup Reloaders
    /\ None \notin [enabled : BOOLEAN, surface : BOOLEAN, valid : BOOLEAN]
ASSUME WritersAssumption == Handlers \cap Reloaders = {}

VARIABLES
    disk,       \* SOUL.yaml files: agent -> definition, or None (absent, not parsable)
    mem,        \* Loader.agents: agent -> definition or None
    shared,     \* handler whose *Definition is the very object in Loader.agents
    dirty,      \* the watcher has a debounce timer for a changed file
    jobs,       \* live cron entries of robfig/cron and waiting timers: job -> agent
    handle,     \* Scheduler.entries and Scheduler.oneshot: agent -> job or None
    cancelled,  \* waiting timers whose context is cancelled
    running,    \* Scheduler.running: agents that own the run lock
    fails,      \* Scheduler.failCounts
    missed,     \* agents whose startup catch-up goroutine has not begun
    invalid,    \* agents whose configuration the boot validation will reject
    th,         \* goroutines in fireAt or in a manual run
    wr,         \* handlers and reloaders: the registration they are carrying out
    rl          \* reloaders: snapshot of the loader and the work still to do

loaderVars == <<disk, mem, shared, dirty>>
tableVars  == <<jobs, handle, cancelled>>
runVars    == <<running, fails>>
bootVars   == <<missed, invalid>>
vars == <<loaderVars, tableVars, runVars, bootVars, th, wr, rl>>

Writers     == Handlers \cup Reloaders
\* valid: the cron expression parses, or the time of the one-shot is set.
Definitions == [enabled : BOOLEAN, surface : BOOLEAN, valid : BOOLEAN]
Choices     == {d \in Definitions : d.surface \in Surfaces /\ (d.valid \/ "schedule" \in Failures)}

IsCron(a) == Kind[a] = "cron"
Off(d)    == d # None /\ ~d.enabled

\* RegisterAgent and scheduledKind: the schedule block counts only for an
\* enabled agent that appears on the schedule surface ...
OnSchedule(d) == d # None /\ d.enabled /\ d.surface

\* ... and it is worth an entry when addCron or addOneShot accepts it.
Wanted(d) == OnSchedule(d) /\ d.valid

ThreadPCs == {"idle", "check", "drop", "gate", "lock", "lookup", "run",
              "qdereg", "qdisable", "qclear", "mark", "deliver", "finish",
              "forget"}

\* Where a thread is between TryStartRun and FinishRun.
OwnerPCs == {"lookup", "run", "qdereg", "qdisable", "qclear", "mark",
             "deliver", "finish"}

ThreadRecord == [pc : ThreadPCs, agent : Agents \cup {None},
                 trig : {"none", "cron", "missed", "oneshot", "manual"},
                 res : {"none", "error", "completed", "incomplete"},
                 bornOff : BOOLEAN]

WriterRecord == [pc : {"idle", "upsert", "store", "dereg", "remove", "add", "swap",
                       "load", "diff", "next"},
                 req : {"none", "create", "save", "enable", "disable",
                        "delete", "reload"},
                 agent : Agents \cup {None}, def : Definitions \cup {None},
                 job : Jobs \cup {None}]

ReloadRecord == [snap : [Agents -> Definitions \cup {None}],
                 drop : SUBSET Agents, reg : SUBSET Agents]

IdleThread == [pc |-> "idle", agent |-> None, trig |-> "none",
               res |-> "none", bornOff |-> FALSE]
IdleWriter == [pc |-> "idle", req |-> "none", agent |-> None, def |-> None,
               job |-> None]
IdleReload == [snap |-> [a \in Agents |-> None], drop |-> {}, reg |-> {}]

-----------------------------------------------------------------------------
(* Start-up: wire.go loads every SOUL.yaml, registers every agent, and then  *)
(* Start launches the catch-up runs (which agents: module MissedRuns).       *)

Registrations(d) ==
    {f \in [Agents -> Jobs \cup {None}] :
        /\ \A a \in Agents : f[a] # None <=> Wanted(d[a])
        /\ \A a, b \in Agents : f[a] = f[b] /\ f[a] # None => a = b}

JobsOf(f) ==
    [j \in Jobs |-> IF \E a \in Agents : f[a] = j
                    THEN CHOOSE a \in Agents : f[a] = j
                    ELSE None]

CatchUpCandidates(d) == {a \in Agents : IsCron(a) /\ Wanted(d[a])}

Rejectable(d) == IF "validation" \in Failures
                 THEN {a \in Agents : d[a] # None /\ d[a].enabled}
                 ELSE {}

Init ==
    /\ disk \in [Agents -> Choices \cup {None}]
    /\ mem = disk
    /\ shared = [a \in Agents |-> None]
    /\ dirty = FALSE
    /\ handle \in Registrations(disk)
    /\ jobs = JobsOf(handle)
    /\ cancelled = {}
    /\ running = {}
    /\ fails = [a \in Agents |-> 0]
    /\ missed \in SUBSET CatchUpCandidates(disk)
    /\ invalid \in SUBSET Rejectable(disk)
    /\ th = [t \in Threads |-> IdleThread]
    /\ wr = [w \in Writers |-> IdleWriter]
    /\ rl = [r \in Reloaders |-> IdleReload]

\* The process dies at any moment and is started again: only files survive.
Restart ==
    /\ UNCHANGED disk
    /\ mem' = disk
    /\ shared' = [a \in Agents |-> None]
    /\ dirty' = FALSE
    /\ handle' \in Registrations(disk)
    /\ jobs' = JobsOf(handle')
    /\ cancelled' = {}
    /\ running' = {}
    /\ fails' = [a \in Agents |-> 0]
    /\ missed' \in SUBSET CatchUpCandidates(disk)
    /\ invalid' \in SUBSET Rejectable(disk)
    /\ th' = [t \in Threads |-> IdleThread]
    /\ wr' = [w \in Writers |-> IdleWriter]
    /\ rl' = [r \in Reloaders |-> IdleReload]

-----------------------------------------------------------------------------
(* Operations on the schedule tables, each one section under Scheduler.mu.   *)

\* DeregisterAgent: remove the cron entry, or cancel the one-shot's context.
Deregister(a) ==
    /\ handle' = [handle EXCEPT ![a] = None]
    /\ jobs' = [j \in Jobs |-> IF j = handle[a] /\ IsCron(a) THEN None ELSE jobs[j]]
    /\ cancelled' = cancelled \cup
                    {j \in Jobs : j = handle[a] /\ ~IsCron(a) /\ jobs[j] = a}

\* SetEnabledInMemory flips the object in the loader's map, and with it the
\* definition of a handler that still holds that very object.
SetEnabledInMemory(a, enabled) ==
    /\ mem' = [mem EXCEPT ![a] = IF @ = None THEN None ELSE [@ EXCEPT !.enabled = enabled]]
    /\ wr' = [w \in Writers |-> IF shared[a] = w
                                THEN [wr[w] EXCEPT !.def.enabled = enabled]
                                ELSE wr[w]]

FreshJob(j) == jobs[j] = None /\ \A a \in Agents : handle[a] # j

\* Whether the agent of a thread has been switched off ever since the thread
\* began, once the loader's map has become m.
WithLoader(m) ==
    [t \in Threads |-> [th[t] EXCEPT !.bornOff =
        @ /\ th[t].agent # None /\ Off(m[th[t].agent])]]

\* validateAgentsAtBoot, which runs beside the scheduler: an agent whose model
\* is not available is switched off; nobody tells the scheduler.  Requests are
\* served once it is over.
BootValidation(a) ==
    /\ a \in invalid
    /\ invalid' = invalid \ {a}
    /\ SetEnabledInMemory(a, FALSE)
    /\ UNCHANGED <<disk, shared, dirty, tableVars, runVars, missed, th, rl>>

-----------------------------------------------------------------------------
(* What starts a goroutine.                                                  *)

Spawn(t, a, trigger) ==
    /\ th[t].pc = "idle"
    /\ th' = [th EXCEPT ![t] = [pc |-> "check", agent |-> a, trig |-> trigger,
                                res |-> "none", bornOff |-> Off(mem[a])]]

\* addCron's closure, called by robfig/cron in a goroutine of its own.
CronTick(t, j) ==
    /\ jobs[j] # None /\ IsCron(jobs[j])
    /\ Spawn(t, jobs[j], "cron")
    /\ UNCHANGED <<loaderVars, tableVars, runVars, bootVars, wr, rl>>

\* The goroutine of addOneShot receives from time.After.  With both channels
\* ready its select may take this branch although the context is cancelled.
TimerDue(t, j) ==
    /\ jobs[j] # None /\ ~IsCron(jobs[j])
    /\ Spawn(t, jobs[j], "oneshot")
    /\ jobs' = [jobs EXCEPT ![j] = None]
    /\ cancelled' = cancelled \ {j}
    /\ UNCHANGED <<loaderVars, handle, runVars, bootVars, wr, rl>>

\* ... or it receives from ctx.Done and ends.
TimerCancelled(j) ==
    /\ j \in cancelled
    /\ jobs' = [jobs EXCEPT ![j] = None]
    /\ cancelled' = cancelled \ {j}
    /\ UNCHANGED <<loaderVars, handle, runVars, bootVars, th, wr, rl>>

\* runMissedOnStartup's "go s.fireAt".
CatchUp(t, a) ==
    /\ a \in missed
    /\ Spawn(t, a, "missed")
    /\ missed' = missed \ {a}
    /\ UNCHANGED <<loaderVars, tableVars, runVars, invalid, wr, rl>>

\* handleManualTrigger finds the agent and asks for the run lock next.
ManualTrigger(t, a) ==
    /\ th[t].pc = "idle" /\ mem[a] # None /\ invalid = {}
    /\ th' = [th EXCEPT ![t] = [pc |-> "lock", agent |-> a, trig |-> "manual",
                                res |-> "none", bornOff |-> FALSE]]
    /\ UNCHANGED <<loaderVars, tableVars, runVars, bootVars, wr, rl>>

-----------------------------------------------------------------------------
(* The body of fireAt.                                                       *)

At(t, p)  == th[t].pc = p
GoTo(t, p) == th' = [th EXCEPT ![t].pc = p]

\* fireAt returns; only addOneShot's goroutine has something left to do.
Return(t) ==
    th' = [th EXCEPT ![t] = IF th[t].trig = "oneshot"
                            THEN [@ EXCEPT !.pc = "forget", !.bornOff = FALSE]
                            ELSE IdleThread]

\* Fault: trusts the registration-time check and does not re-read the definition.
FireCheckTrusting(t) ==
    /\ At(t, "check")
    /\ GoTo(t, "gate")
    /\ UNCHANGED <<loaderVars, tableVars, runVars, bootVars, wr, rl>>

\* "Disabled" is read from the loader at fire time.
FireCheck(t) ==
    /\ At(t, "check")
    /\ GoTo(t, IF Off(mem[th[t].agent]) THEN "drop" ELSE "gate")
    /\ UNCHANGED <<loaderVars, tableVars, runVars, bootVars, wr, rl>>

FireDrop(t) ==
    /\ At(t, "drop")
    /\ Deregister(th[t].agent)
    /\ Return(t)
    /\ UNCHANGED <<loaderVars, runVars, bootVars, wr, rl>>

\* blockedByReadiness: the verdict is the deployment store's, here a free choice.
FireGate(t) ==
    /\ At(t, "gate")
    /\ GoTo(t, "lock") \/ Return(t)
    /\ UNCHANGED <<loaderVars, tableVars, runVars, bootVars, wr, rl>>

\* Fault: the lock of a run that is still executing can be taken over.
TryStartRunExpiring(t) ==
    /\ At(t, "lock")
    /\ running' = running \cup {th[t].agent}
    /\ GoTo(t, IF th[t].trig = "manual" THEN "run" ELSE "lookup")
    /\ UNCHANGED <<loaderVars, tableVars, fails, bootVars, wr, rl>>

\* TryStartRun; a manual run already holds the definition it will use.
TryStartRun(t) ==
    LET a == th[t].agent IN
    /\ At(t, "lock")
    /\ \/ a \in running /\ Return(t) /\ UNCHANGED running
       \/ /\ a \notin running
          /\ running' = running \cup {a}
          /\ GoTo(t, IF th[t].trig = "manual" THEN "run" ELSE "lookup")
    /\ UNCHANGED <<loaderVars, tableVars, fails, bootVars, wr, rl>>

\* Fault: the early return for a missing definition skips FinishRun.
LookupLeaksLock(t) ==
    /\ At(t, "lookup")
    /\ IF mem[th[t].agent] = None THEN Return(t) ELSE GoTo(t, "run")
    /\ UNCHANGED <<loaderVars, tableVars, runVars, bootVars, wr, rl>>

Lookup(t) ==
    /\ At(t, "lookup")
    /\ GoTo(t, IF mem[th[t].agent] = None THEN "finish" ELSE "run")
    /\ UNCHANGED <<loaderVars, tableVars, runVars, bootVars, wr, rl>>

\* engine.Handle returns.  A cron fire counts its failure, or clears the
\* counter, in the first section of recordFireResult.
Counted(t) == th[t].trig \in {"cron", "missed"}

RunCompletes(t) ==
    LET a == th[t].agent IN
    /\ At(t, "run")
    /\ fails' = IF Counted(t) THEN [fails EXCEPT ![a] = 0] ELSE fails
    /\ th' = [th EXCEPT ![t].pc = IF Counted(t) THEN "mark" ELSE "deliver",
                        ![t].res = "completed"]
    /\ UNCHANGED <<loaderVars, tableVars, running, bootVars, wr, rl>>

RunFails(t, outcome) ==
    LET a == th[t].agent
        next == IF outcome = "error" THEN "finish" ELSE "deliver"
    IN
    /\ At(t, "run")
    /\ fails' = IF Counted(t) THEN [fails EXCEPT ![a] = @ + 1] ELSE fails
    /\ th' = [th EXCEPT ![t].pc = IF fails'[a] >= FailLimit /\ Counted(t)
                                  THEN "qdereg" ELSE next,
                        ![t].res = outcome]
    /\ UNCHANGED <<loaderVars, tableVars, running, bootVars, wr, rl>>

\* recordFireResult quarantines the agent in three further sections.
QuarantineDeregister(t) ==
    /\ At(t, "qdereg")
    /\ Deregister(th[t].agent)
    /\ GoTo(t, "qdisable")
    /\ UNCHANGED <<loaderVars, runVars, bootVars, wr, rl>>

QuarantineDisable(t) ==
    /\ At(t, "qdisable")
    /\ SetEnabledInMemory(th[t].agent, FALSE)
    /\ GoTo(t, "qclear")
    /\ UNCHANGED <<disk, shared, dirty, tableVars, runVars, bootVars, rl>>

\* Fault: the counter survives the quarantine.
QuarantineKeepsCount(t) ==
    /\ At(t, "qclear")
    /\ GoTo(t, IF th[t].res = "error" THEN "finish" ELSE "deliver")
    /\ UNCHANGED <<loaderVars, tableVars, runVars, bootVars, wr, rl>>

QuarantineClear(t) ==
    /\ At(t, "qclear")
    /\ fails' = [fails EXCEPT ![th[t].agent] = 0]
    /\ GoTo(t, IF th[t].res = "error" THEN "finish" ELSE "deliver")
    /\ UNCHANGED <<loaderVars, tableVars, running, bootVars, wr, rl>>

\* markScheduleCompleted (the file it writes: module MissedRuns).
MarkCompleted(t) ==
    /\ At(t, "mark")
    /\ GoTo(t, "deliver")
    /\ UNCHANGED <<loaderVars, tableVars, runVars, bootVars, wr, rl>>

\* sendScheduledOutput (where it goes is not modelled).
Deliver(t) ==
    /\ At(t, "deliver")
    /\ GoTo(t, "finish")
    /\ UNCHANGED <<loaderVars, tableVars, runVars, bootVars, wr, rl>>

FinishRun(t) ==
    /\ At(t, "finish")
    /\ running' = running \ {th[t].agent}
    /\ Return(t)
    /\ UNCHANGED <<loaderVars, tableVars, fails, bootVars, wr, rl>>

\* After a one-shot has fired, its goroutine deletes the agent's entry.
OneShotForget(t) ==
    /\ At(t, "forget")
    /\ handle' = [handle EXCEPT ![th[t].agent] = None]
    /\ th' = [th EXCEPT ![t] = IdleThread]
    /\ UNCHANGED <<loaderVars, jobs, cancelled, runVars, bootVars, wr, rl>>

-----------------------------------------------------------------------------
(* Gateway requests: create, save, enable, disable, delete.                  *)

\* A handler is done; it no longer holds the definition it stored.
Done(w) ==
    /\ wr' = [wr EXCEPT ![w] = IF w \in Handlers THEN IdleWriter
                               ELSE [@ EXCEPT !.pc = "next", !.job = None]]
    /\ shared' = [a \in Agents |-> IF shared[a] = w THEN None ELSE shared[a]]

Request(h, a, r, d) ==
    /\ wr[h].pc = "idle" /\ invalid = {}
    /\ r \in {"save", "enable", "disable"} => mem[a] # None
    /\ r = "enable" => d = [mem[a] EXCEPT !.enabled = TRUE]
    /\ r = "disable" => d = [mem[a] EXCEPT !.enabled = FALSE]
    /\ (r = "delete") = (d = None)
    /\ wr' = [wr EXCEPT ![h] = [pc |-> IF r = "delete" THEN "dereg" ELSE "upsert",
                                req |-> r, agent |-> a, def |-> d, job |-> None]]
    /\ UNCHANGED <<loaderVars, tableVars, runVars, bootVars, th, rl>>

\* Loader.Upsert writes the file, without the loader's lock ...
Upsert(h) ==
    LET a == wr[h].agent IN
    /\ wr[h].pc = "upsert"
    /\ disk' = [disk EXCEPT ![a] = wr[h].def]
    /\ dirty' = TRUE
    /\ wr' = [wr EXCEPT ![h].pc = "store"]
    /\ UNCHANGED <<mem, shared, tableVars, runVars, bootVars, th, rl>>

UpsertFails(h) ==
    /\ "write" \in Failures /\ wr[h].pc = "upsert"
    /\ wr' = [wr EXCEPT ![h] = IdleWriter]
    /\ UNCHANGED <<loaderVars, tableVars, runVars, bootVars, th, rl>>

\* ... and then puts the handler's own object into the map.
StoreDefinition(h) ==
    /\ wr[h].pc = "store"
    /\ mem' = [mem EXCEPT ![wr[h].agent] = wr[h].def]
    /\ th' = WithLoader(mem')
    /\ UNCHANGED <<disk, dirty, tableVars, runVars, bootVars, rl>>

Store(h) ==
    /\ StoreDefinition(h)
    /\ shared' = [shared EXCEPT ![wr[h].agent] = h]
    /\ wr' = [wr EXCEPT ![h].pc =
                  IF wr[h].req \in {"save", "disable"} THEN "dereg" ELSE "add"]

\* A create or a save whose account connections cannot be synchronised returns here.
StoreUnsynced(h) ==
    /\ "connections" \in Failures /\ wr[h].req \in {"create", "save"}
    /\ StoreDefinition(h)
    /\ shared' = [shared EXCEPT ![wr[h].agent] = None]
    /\ wr' = [wr EXCEPT ![h] = IdleWriter]

HandlerDeregister(h) ==
    /\ wr[h].pc = "dereg"
    /\ Deregister(wr[h].agent)
    /\ \/ wr[h].req = "disable" /\ Done(h)
       \/ /\ wr[h].req # "disable"
          /\ wr' = [wr EXCEPT ![h].pc = IF wr[h].req = "save" THEN "add" ELSE "remove"]
          /\ UNCHANGED shared
    /\ UNCHANGED <<disk, mem, dirty, runVars, bootVars, th, rl>>

\* Loader.Delete removes the file, then the definition ...
Remove(h) ==
    LET a == wr[h].agent IN
    /\ wr[h].pc = "remove" /\ mem[a] # None
    /\ disk' = [disk EXCEPT ![a] = None]
    /\ mem' = [mem EXCEPT ![a] = None]
    /\ shared' = [shared EXCEPT ![a] = None]
    /\ dirty' = TRUE
    /\ th' = WithLoader(mem')
    /\ wr' = [wr EXCEPT ![h] = IdleWriter]
    /\ UNCHANGED <<tableVars, runVars, bootVars, rl>>

\* ... leaves everything alone when the loader knows no such agent ...
RemoveNothing(h) ==
    /\ wr[h].pc = "remove" /\ mem[wr[h].agent] = None
    /\ wr' = [wr EXCEPT ![h] = IdleWriter]
    /\ UNCHANGED <<loaderVars, tableVars, runVars, bootVars, th, rl>>

\* ... and keeps the definition when the file cannot be removed.
RemoveFails(h) ==
    /\ "unlink" \in Failures
    /\ wr[h].pc = "remove" /\ mem[wr[h].agent] # None
    /\ wr' = [wr EXCEPT ![h] = IdleWriter]
    /\ UNCHANGED <<loaderVars, tableVars, runVars, bootVars, th, rl>>

-----------------------------------------------------------------------------
(* RegisterAgent, called by handlers and by the watcher.                     *)

RegisterSkip(w) ==
    /\ wr[w].pc = "add" /\ ~OnSchedule(wr[w].def)
    /\ Done(w)
    /\ UNCHANGED <<disk, mem, dirty, tableVars, runVars, bootVars, th, rl>>

\* addCron or addOneShot returns an error, which the caller logs: whatever entry the
\* agent has stays, and after a save or in a reload it has none any more.
RegisterFails(w) ==
    /\ wr[w].pc = "add" /\ OnSchedule(wr[w].def) /\ ~wr[w].def.valid
    /\ Done(w)
    /\ UNCHANGED <<disk, mem, dirty, tableVars, runVars, bootVars, th, rl>>

\* addCron adds the new entry to robfig/cron before it takes Scheduler.mu ...
AddCron(w, j) ==
    LET a == wr[w].agent IN
    /\ wr[w].pc = "add" /\ Wanted(wr[w].def) /\ IsCron(a)
    /\ FreshJob(j)
    /\ jobs' = [jobs EXCEPT ![j] = a]
    /\ wr' = [wr EXCEPT ![w].pc = "swap", ![w].job = j]
    /\ UNCHANGED <<loaderVars, handle, cancelled, runVars, bootVars, th, rl>>

\* Fault: re-registration does not remove the previous entry.
SwapCronKeepsOld(w) ==
    /\ wr[w].pc = "swap"
    /\ handle' = [handle EXCEPT ![wr[w].agent] = wr[w].job]
    /\ Done(w)
    /\ UNCHANGED <<disk, mem, dirty, jobs, cancelled, runVars, bootVars, th, rl>>

\* ... and replaces the old entry under the lock.
SwapCron(w) ==
    LET a == wr[w].agent IN
    /\ wr[w].pc = "swap"
    /\ jobs' = [j \in Jobs |-> IF j = handle[a] THEN None ELSE jobs[j]]
    /\ handle' = [handle EXCEPT ![a] = wr[w].job]
    /\ Done(w)
    /\ UNCHANGED <<disk, mem, dirty, cancelled, runVars, bootVars, th, rl>>

AddOneShot(w, j) ==
    LET a == wr[w].agent IN
    /\ wr[w].pc = "add" /\ Wanted(wr[w].def) /\ ~IsCron(a)
    /\ FreshJob(j)
    /\ cancelled' = cancelled \cup {i \in Jobs : i = handle[a] /\ jobs[i] = a}
    /\ handle' = [handle EXCEPT ![a] = j]
    /\ jobs' = [jobs EXCEPT ![j] = a]
    /\ Done(w)
    /\ UNCHANGED <<disk, mem, dirty, runVars, bootVars, th, rl>>

-----------------------------------------------------------------------------
(* Watcher.reload.                                                           *)

EditFile(a, d) ==
    /\ a \in EditedFiles /\ disk[a] # d
    /\ disk' = [disk EXCEPT ![a] = d]
    /\ dirty' = TRUE
    /\ UNCHANGED <<mem, shared, tableVars, runVars, bootVars, th, wr, rl>>

ReloadBegin(r) ==
    /\ dirty /\ wr[r].pc = "idle"
    /\ dirty' = FALSE
    /\ rl' = [rl EXCEPT ![r].snap = mem]
    /\ wr' = [wr EXCEPT ![r].pc = "load", ![r].req = "reload"]
    /\ UNCHANGED <<disk, mem, shared, tableVars, runVars, bootVars, th>>

\* LoadAll replaces every definition by what its file says.
ReloadLoad(r) ==
    /\ wr[r].pc = "load"
    /\ mem' = disk
    /\ shared' = [a \in Agents |-> None]
    /\ th' = WithLoader(mem')
    /\ wr' = [wr EXCEPT ![r].pc = "diff"]
    /\ UNCHANGED <<disk, dirty, tableVars, runVars, bootVars, rl>>

\* Fault: only added and removed agents count as changed.
OnlyPresenceChanged(old, new) == old = None \/ new = None

\* scheduleChanged compares Enabled, Trigger and the schedule block; the
\* surfaces are not among the fields it looks at.
ScheduleChanged(old, new) ==
    \/ old = None \/ new = None
    \/ old.enabled # new.enabled \/ old.valid # new.valid

ReloadDiff(r) ==
    LET old == rl[r].snap IN
    /\ wr[r].pc = "diff"
    /\ rl' = [rl EXCEPT ![r] =
          [snap |-> mem,
           drop |-> {a \in Agents : old[a] # None /\ ScheduleChanged(old[a], mem[a])},
           reg  |-> {a \in Agents : mem[a] # None /\ ScheduleChanged(old[a], mem[a])}]]
    /\ wr' = [wr EXCEPT ![r].pc = "next"]
    /\ UNCHANGED <<loaderVars, tableVars, runVars, bootVars, th>>

ReloadDrop(r, a) ==
    /\ wr[r].pc = "next" /\ a \in rl[r].drop
    /\ Deregister(a)
    /\ rl' = [rl EXCEPT ![r].drop = @ \ {a}]
    /\ UNCHANGED <<loaderVars, runVars, bootVars, th, wr>>

ReloadRegister(r, a) ==
    /\ wr[r].pc = "next" /\ rl[r].drop = {} /\ a \in rl[r].reg
    /\ rl' = [rl EXCEPT ![r].reg = @ \ {a}]
    /\ wr' = [wr EXCEPT ![r].pc = "add", ![r].agent = a, ![r].def = rl[r].snap[a]]
    /\ UNCHANGED <<loaderVars, tableVars, runVars, bootVars, th>>

ReloadEnd(r) ==
    /\ wr[r].pc = "next" /\ rl[r].drop = {} /\ rl[r].reg = {}
    /\ wr' = [wr EXCEPT ![r] = IdleWriter]
    /\ rl' = [rl EXCEPT ![r] = IdleReload]
    /\ UNCHANGED <<loaderVars, tableVars, runVars, bootVars, th>>

-----------------------------------------------------------------------------
ThreadStep(t) ==
    \/ FireCheck(t) \/ FireDrop(t) \/ FireGate(t) \/ TryStartRun(t)
    \/ Lookup(t) \/ RunCompletes(t)
    \/ \E o \in {"error", "incomplete"} : RunFails(t, o)
    \/ QuarantineDeregister(t) \/ QuarantineDisable(t) \/ QuarantineClear(t)
    \/ MarkCompleted(t) \/ Deliver(t) \/ FinishRun(t) \/ OneShotForget(t)

StartThread(t) ==
    \/ \E j \in Jobs : CronTick(t, j) \/ TimerDue(t, j)
    \/ \E a \in Agents : CatchUp(t, a) \/ ManualTrigger(t, a)

HandlerStep(h) ==
    \/ Upsert(h) \/ UpsertFails(h) \/ Store(h) \/ StoreUnsynced(h)
    \/ HandlerDeregister(h) \/ Remove(h) \/ RemoveNothing(h) \/ RemoveFails(h)

RegisterStep(w) ==
    \/ RegisterSkip(w) \/ RegisterFails(w) \/ SwapCron(w)
    \/ \E j \in Jobs : AddCron(w, j) \/ AddOneShot(w, j)

ReloadStep(r) ==
    \/ ReloadBegin(r) \/ ReloadLoad(r) \/ ReloadDiff(r) \/ ReloadEnd(r)
    \/ \E a \in Agents : ReloadDrop(r, a) \/ ReloadRegister(r, a)

NewRequest ==
    \E h \in Handlers, a \in Agents, d \in Choices \cup {None},
       r \in {"create", "save", "enable", "disable", "delete"} : Request(h, a, r, d)

Next ==
    \/ \E t \in Threads : StartThread(t) \/ ThreadStep(t)
    \/ \E j \in Jobs : TimerCancelled(j)
    \/ \E a \in Agents : BootValidation(a)
    \/ NewRequest
    \/ \E h \in Handlers : HandlerStep(h)
    \/ \E w \in Writers : RegisterStep(w)
    \/ \E r \in Reloaders : ReloadStep(r)
    \/ \E a \in EditedFiles, d \in Choices \cup {None} : EditFile(a, d)
    \/ Restart

Spec == Init /\ [][Next]_vars

(* Fairness: a goroutine that can go on does; a run ends because its context *)
(* carries the agent's run_timeout; a live cron job keeps ticking and a timer *)
(* comes due.  Requests, edits, the gate's verdict and crashes are free.      *)
Fairness ==
    /\ \A t \in Threads : WF_vars(ThreadStep(t))
    /\ \A a \in Agents : SF_vars(\E t \in Threads, j \in Jobs :
            handle[a] = j /\ (CronTick(t, j) \/ TimerDue(t, j)))
    /\ \A w \in Writers : WF_vars(RegisterStep(w))
    /\ \A h \in Handlers : WF_vars(HandlerStep(h))
    /\ \A r \in Reloaders : WF_vars(ReloadStep(r))

FairSpec == Spec /\ Fairness

-----------------------------------------------------------------------------
TypeOK ==
    /\ disk \in [Agents -> Definitions \cup {None}]
    /\ mem \in [Agents -> Definitions \cup {None}]
    /\ shared \in [Agents -> Handlers \cup {None}]
    /\ dirty \in BOOLEAN
    /\ jobs \in [Jobs -> Agents \cup {None}]
    /\ handle \in [Agents -> Jobs \cup {None}]
    /\ cancelled \subseteq Jobs
    /\ running \subseteq Agents
    /\ fails \in [Agents -> Nat]
    /\ missed \subseteq Agents
    /\ invalid \subseteq Agents
    /\ th \in [Threads -> ThreadRecord]
    /\ wr \in [Writers -> WriterRecord]
    /\ rl \in [Reloaders -> ReloadRecord]

Owns(t, a) == th[t].agent = a /\ th[t].pc \in OwnerPCs

\* At most one run of an agent is in progress, whatever starts it: ticks that
\* overlap, a catch-up, a timer, a person pressing Run (TryStartRun/FinishRun).
MutualExclusion ==
    \A a \in Agents : \A t, u \in Threads : Owns(t, a) /\ Owns(u, a) => t = u

\* The run lock is held exactly while some goroutine is between TryStartRun
\* and FinishRun: no path of fireAt leaks it, none releases another's.
LockMatchesOwner ==
    \A a \in Agents : a \in running <=> \E t \in Threads : Owns(t, a)

\* "Disabled has to mean disabled at fire time" (fireAt): a scheduled goroutine
\* that began after the agent was switched off, and found it off ever since,
\* never gets past the check, however stale the entry that started it.
DisabledNeverRuns ==
    \A t \in Threads : th[t].bornOff => th[t].pc \in {"check", "drop"}

\* Re-registration never leaves a second live cron entry behind: a live entry
\* is the one the scheduler knows, or is about to replace it (addCron).
NoOrphanEntry ==
    \A j \in Jobs : jobs[j] # None /\ IsCron(jobs[j]) =>
        \/ handle[jobs[j]] = j
        \/ \E w \in Writers : wr[w].pc = "swap" /\ wr[w].job = j

\* A cron agent at the failure limit is being quarantined at this moment, so a
\* fire that starts later always begins below the limit (recordFireResult).
QuarantineInProgress ==
    \A a \in Agents :
        /\ fails[a] <= FailLimit
        /\ fails[a] = FailLimit =>
             \E t \in Threads : /\ th[t].agent = a
                                /\ th[t].pc \in {"qdereg", "qdisable", "qclear"}

\* Only a scheduled run that owns the run lock raises the failure counter:
\* the count of consecutive failures is serial per agent.
FailuresCountedUnderLock ==
    [][\A a \in Agents : fails'[a] > fails[a] =>
          \E t \in Threads : Owns(t, a) /\ th[t].trig \in {"cron", "missed"}]_vars

\* Quiet: no goroutine, no request, no reload and no catch-up is under way.
Quiet ==
    /\ \A t \in Threads : th[t].pc = "idle"
    /\ \A w \in Writers : wr[w].pc = "idle"
    /\ missed = {} /\ invalid = {}
    /\ Reloaders # {} => ~dirty

\* "Re-enabling still takes effect without a restart" (fireAt): once everything has
\* settled, an agent that is enabled, with a schedule that parses, has its cron entry.
EnabledIsScheduled ==
    Quiet => \A a \in Agents : IsCron(a) /\ Wanted(mem[a]) => handle[a] # None

\* It does not hold: fireAt may deregister an agent that it saw switched off and that
\* a request has registered again meanwhile ...
StaleDrop == \E t \in Threads : FireDrop(t) /\ Wanted(mem[th[t].agent])

\* ... a request may fail after it has stored the definition and before it registers
\* it, or after it has deregistered the agent that it then cannot delete ...
LosesEntry == StaleDrop \/ \E h \in Handlers : StoreUnsynced(h) \/ RemoveFails(h)

\* ... and requests that change one agent may cross each other on their way from the
\* loader to the scheduler.
RequestsApart ==
    \A h, k \in Handlers : h # k /\ wr[h].agent = wr[k].agent => wr[h].agent = None

\* Once a reload is over, the agents in the cron table are exactly those the
\* definitions schedule: additions, removals and the changes scheduleChanged looks
\* for are all carried out.  It does not compare surfaces, so this holds for edits
\* that leave the surface of an agent alone (a single value in Surfaces).
TableMatchesDefinitions ==
    Quiet => \A a \in Agents : IsCron(a) => (handle[a] # None <=> Wanted(mem[a]))

\* A one-shot the schedule page lists is waiting for its time, or firing.
NoPhantomOneShot ==
    \A a \in Agents : ~IsCron(a) /\ handle[a] # None =>
        \/ jobs[handle[a]] = a
        \/ \E t \in Threads : th[t].agent = a /\ th[t].trig = "oneshot"

\* The scheduler's table and what is live agree, whatever registers, switches, fires and
\* forgets agents at once (addCron, addOneShot).
TableIsTrue == NoOrphanEntry /\ NoPhantomOneShot

-----------------------------------------------------------------------------
(* The run lock implements the abstract lock.                                *)
OwnerOf(a) == IF \E t \in Threads : Owns(t, a)
              THEN CHOOSE t \in Threads : Owns(t, a) ELSE None

Lock == INSTANCE RunLock WITH owner <- [a \in Agents |-> OwnerOf(a)]

\* Runs of one agent follow each other like the owners of an abstract lock:
\* TryStartRun acquires, FinishRun releases, no other step changes the owner.
ImplementsRunLock == Lock!LockSpec
=============================================================================
