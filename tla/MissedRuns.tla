------------------------------ MODULE MissedRuns ------------------------------
(***************************************************************************)
(* What a restart of the gateway does to the schedule                        *)
(* (internal/scheduler/scheduler.go): the completed fires on file, the       *)
(* catch-up of missed cron fires at start-up, and one-shots that come due.   *)
(* Module Scheduler has the table and the goroutines of one process; here    *)
(* the table does not change and time and the file are explicit.             *)
(*                                                                          *)
(* Time is counted in ticks of a clock; a cron agent is due at the           *)
(* multiples of Period.  A time of zero is "never".                          *)
(***************************************************************************)
EXTENDS Naturals, FiniteSets, FiniteSetsExt

CONSTANTS
    Crons,      \* enabled cron agents with run_missed_on_startup
    OneShots,   \* enabled one-shot agents
    DueAt,      \* schedule.at of every one-shot
    Period,     \* the cron expression
    Window,     \* missed_startup_window
    Threads,    \* goroutines of fireAt
    Horizon,    \* bound on the clock
    MaxBoots,   \* bound on the starts of the process
    Faults      \* what may go wrong: subset of {"crash", "save", "load"}

ASSUME ClockAssumption ==
    {DueAt, Period, Window} \subseteq Nat \ {0} /\ {Horizon, MaxBoots} \subseteq Nat
ASSUME AgentsAssumption == Crons \cap OneShots = {}
ASSUME FaultsAssumption == Faults \subseteq {"crash", "save", "load"}

VARIABLES
    now,
    file,      \* schedule state on disk: the last completed fire of every cron agent
    mem,       \* the scheduler's copy of it
    hasSeen,   \* history: this process has read the file, or written it
    boot,      \* the process: how far its start is, and the catch-up's clock and agents
    nextFire,  \* the cron library: when an entry is due
    timers,    \* one-shots whose goroutine waits
    running,   \* the run locks
    th,        \* goroutines of fireAt
    completed, \* history: the runs that completed: agent, slot, time, process
    tried,     \* history: per cron agent, the latest fire that ran or was turned away
    lost,      \* history: slots that came due while the daemon was not running
    boots

disk == <<file, mem, hasSeen>>
history == <<completed, tried, lost>>
missedVars == <<now, disk, boot, nextFire, timers, running, th, history, boots>>

Agents == Crons \cup OneShots
Times == 0 .. Horizon
Slots == {t \in Times : t > 0 /\ t % Period = 0}
NextSlot(t) == (t \div Period + 1) * Period

NoProcess == [pc |-> "down", at |-> 0, todo |-> {}]
Never == [a \in Crons |-> 0]
Absent == [a \in {} |-> 0]      \* no file has been written yet
Recorded(a) == IF file = Absent THEN 0 ELSE file[a]
Idle == [pc |-> "idle"]
Fire(a, trig, at, slot) == [pc |-> "gate", agent |-> a, trig |-> trig, at |-> at, slot |-> slot]

Alive == boot.pc # "down"
IsIdle(t) == th[t] = Idle
At(t, pc) == th[t].pc = pc
GoTo(t, pc) == th' = [th EXCEPT ![t].pc = pc]

MissedInit ==
    /\ now = 0
    /\ file = Absent /\ mem = Never /\ hasSeen = FALSE
    /\ boot = NoProcess
    /\ nextFire = Never
    /\ timers = {} /\ running = {}
    /\ th = [t \in Threads |-> Idle]
    /\ completed = {} /\ tried = Never /\ lost = {}
    /\ boots = 0

-----------------------------------------------------------------------------
(* The clock and the process.                                                *)

\* A host that sleeps lets time pass with the process standing still.
Advance ==
    /\ now < Horizon
    /\ now' = now + 1
    /\ lost' = IF boot.pc \in {"down", "registered"} /\ now' \in Slots
               THEN lost \cup {now'} ELSE lost
    /\ UNCHANGED <<disk, boot, nextFire, timers, running, th, completed, tried, boots>>

\* wire.go registers every agent before the daemon starts.
Boot ==
    /\ ~Alive /\ boots < MaxBoots
    /\ boots' = boots + 1
    /\ boot' = [NoProcess EXCEPT !.pc = "registered"]
    /\ timers' = OneShots
    /\ mem' = Never /\ hasSeen' = FALSE
    /\ UNCHANGED <<now, file, nextFire, running, th, history>>

DaemonStarts ==
    /\ boot.pc = "registered"
    /\ boot' = [boot EXCEPT !.pc = "daemon"]
    /\ nextFire' = [a \in Crons |-> NextSlot(now)]
    /\ UNCHANGED <<now, disk, timers, running, th, history, boots>>

\* runMissedOnStartup takes the time once.
CatchUpBegins ==
    /\ boot.pc = "daemon"
    /\ boot' = [pc |-> "started", at |-> now, todo |-> Crons]
    /\ UNCHANGED <<now, disk, nextFire, timers, running, th, history, boots>>

\* SIGTERM and a crash alike: what is in memory is lost, a run in progress too.
Killed ==
    /\ Alive /\ "crash" \in Faults
    /\ boot' = NoProcess /\ mem' = Never /\ hasSeen' = FALSE
    /\ nextFire' = Never /\ timers' = {} /\ running' = {}
    /\ th' = [t \in Threads |-> Idle]
    /\ lost' = {}
    /\ UNCHANGED <<now, file, completed, tried, boots>>

-----------------------------------------------------------------------------
(* The state file.                                                           *)

\* loadStateLocked: until a file has been written the copy stands.
Loaded == IF file = Absent THEN mem ELSE file

\* A file that cannot be read leaves the copy as it is, and the caller goes on with it.
Known(read) == IF read THEN Loaded ELSE mem

\* How a load and a save may end.
Reads == IF "load" \in Faults THEN BOOLEAN ELSE {TRUE}
Saves == IF "save" \in Faults THEN BOOLEAN ELSE {TRUE}

\* missedCronFire: the fires after the last completed one and inside the window.
MissedFires(a, known) ==
    {s \in Slots : s > known[a] /\ s + Window > boot.at /\ s <= boot.at}

\* Fault: the first fire found is taken.
Oldest(missed) == Min(missed)
Latest(missed) == Max(missed)

\* One agent of the catch-up: its latest missed fire, if any, is fired.
CheckMissed(a) ==
    /\ a \in boot.todo
    /\ boot' = [boot EXCEPT !.todo = @ \ {a}]
    /\ \E read \in Reads :
          LET missed == MissedFires(a, Known(read)) IN
          /\ mem' = Known(read) /\ hasSeen' = (hasSeen \/ read)
          /\ \/ missed = {} /\ UNCHANGED th
             \/ /\ missed # {}
                /\ \E t \in Threads :
                      /\ IsIdle(t)
                      /\ th' = [th EXCEPT ![t] =
                                   Fire(a, "missed", Latest(missed), Latest(missed))]
    /\ UNCHANGED <<now, file, nextFire, timers, running, history, boots>>

-----------------------------------------------------------------------------
(* Fires.                                                                    *)

\* The cron library runs an entry that is due once, and looks ahead from there.
Tick(a, t) ==
    /\ boot.pc \in {"daemon", "started"} /\ now >= nextFire[a]
    /\ IsIdle(t)
    /\ th' = [th EXCEPT ![t] = Fire(a, "cron", now, nextFire[a])]
    /\ nextFire' = [nextFire EXCEPT ![a] = NextSlot(now)]
    /\ UNCHANGED <<now, disk, boot, timers, running, history, boots>>

\* A one-shot in the past fires at once.
TimerDue(a, t) ==
    /\ a \in timers /\ now >= DueAt
    /\ IsIdle(t)
    /\ th' = [th EXCEPT ![t] = Fire(a, "oneshot", now, DueAt)]
    /\ timers' = timers \ {a}
    /\ UNCHANGED <<now, disk, boot, nextFire, running, history, boots>>

TryStartRun(t) ==
    /\ At(t, "gate")
    /\ tried' = [a \in Crons |-> IF a = th[t].agent THEN Max({tried[a], th[t].slot}) ELSE tried[a]]
    /\ \/ /\ th[t].agent \notin running
          /\ running' = running \cup {th[t].agent}
          /\ GoTo(t, "run")
       \/ /\ th' = [th EXCEPT ![t] = Idle]      \* running already, or not certified
          /\ UNCHANGED running
    /\ UNCHANGED <<now, disk, boot, nextFire, timers, completed, lost, boots>>

RunCompletes(t) ==
    /\ At(t, "run")
    /\ completed' = completed \cup {<<th[t].agent, th[t].slot, th[t].at, boots>>}
    /\ GoTo(t, IF th[t].trig = "oneshot" THEN "deliver" ELSE "mark")
    /\ UNCHANGED <<now, disk, boot, nextFire, timers, running, tried, lost, boots>>

\* Fault: a run that stopped short of its goal is recorded like any other.
RunEndsAnyhow(t) ==
    /\ At(t, "run")
    /\ GoTo(t, IF th[t].trig = "oneshot" THEN "deliver" ELSE "mark") \/ GoTo(t, "finish")
    /\ UNCHANGED <<now, disk, boot, nextFire, timers, running, history, boots>>

\* An incomplete run is delivered and not recorded; a failed one is neither.
RunFails(t) ==
    /\ At(t, "run")
    /\ GoTo(t, "deliver") \/ GoTo(t, "finish")
    /\ UNCHANGED <<now, disk, boot, nextFire, timers, running, history, boots>>

\* The record of an agent is set, and the whole map is written.
Record(a, at, known, read) ==
    \E saved \in Saves :
       /\ mem' = [known EXCEPT ![a] = at]
       /\ file' = IF saved THEN mem' ELSE file
       /\ hasSeen' = (hasSeen \/ read \/ saved)

\* Fault: the last writer wins.
MarkLatest(t) ==
    /\ At(t, "mark")
    /\ \E read \in Reads : Record(th[t].agent, th[t].at, Known(read), read)
    /\ GoTo(t, "deliver")
    /\ UNCHANGED <<now, boot, nextFire, timers, running, history, boots>>

\* markScheduleCompleted: a record that is read never goes back; errors are only logged.
MarkCompleted(t) ==
    LET a == th[t].agent IN
    /\ At(t, "mark")
    /\ \E read \in Reads :
          \/ /\ Known(read)[a] > th[t].at
             /\ mem' = Known(read) /\ hasSeen' = (hasSeen \/ read)
             /\ UNCHANGED file
          \/ Known(read)[a] <= th[t].at /\ Record(a, th[t].at, Known(read), read)
    /\ GoTo(t, "deliver")
    /\ UNCHANGED <<now, boot, nextFire, timers, running, history, boots>>

Deliver(t) ==
    /\ At(t, "deliver")
    /\ GoTo(t, "finish")
    /\ UNCHANGED <<now, disk, boot, nextFire, timers, running, history, boots>>

FinishRun(t) ==
    /\ At(t, "finish")
    /\ running' = running \ {th[t].agent}
    /\ th' = [th EXCEPT ![t] = Idle]
    /\ UNCHANGED <<now, disk, boot, nextFire, timers, history, boots>>

-----------------------------------------------------------------------------
ThreadStep(t) ==
    \/ TryStartRun(t) \/ RunCompletes(t) \/ RunFails(t)
    \/ MarkCompleted(t) \/ Deliver(t) \/ FinishRun(t)

StartStep == Boot \/ DaemonStarts \/ CatchUpBegins \/ \E a \in Crons : CheckMissed(a)

MissedNext ==
    \/ Advance \/ Killed \/ StartStep
    \/ \E t \in Threads :
          \/ ThreadStep(t)
          \/ \E a \in Crons : Tick(a, t)
          \/ \E a \in OneShots : TimerDue(a, t)

MissedSpec == MissedInit /\ [][MissedNext]_missedVars

\* A start goes on, and a goroutine ends (its run has a timeout).
MissedFairSpec ==
    MissedSpec /\ WF_missedVars(StartStep) /\ \A t \in Threads : WF_missedVars(ThreadStep(t))

-----------------------------------------------------------------------------
Records == [Crons -> Times]

MissedTypeOK ==
    /\ now \in Times /\ boots \in Nat
    /\ file \in Records \cup {Absent} /\ mem \in Records /\ hasSeen \in BOOLEAN
    /\ boot \in [pc : {"down", "registered", "daemon", "started"}, at : Times, todo : SUBSET Crons]
    /\ nextFire \in [Crons -> 0 .. Horizon + Period]
    /\ timers \subseteq OneShots /\ running \subseteq Agents
    /\ \A t \in Threads :
          \/ IsIdle(t)
          \/ th[t] \in [pc : {"gate", "run", "mark", "deliver", "finish"}, agent : Agents,
                        trig : {"cron", "missed", "oneshot"}, at : Times, slot : Times]
    /\ completed \subseteq Agents \X Times \X Times \X Nat /\ tried \in Records
    /\ lost \subseteq Slots

\* What the file says was completed was completed, at the time it says, whatever run
\* stopped short, load or save failed, or process ended since (markScheduleCompleted).
RecordIsEarned ==
    \A a \in Crons : Recorded(a) = 0 \/ \E run \in completed : run[1] = a /\ run[3] = Recorded(a)

\* The record of an agent goes back only when a process writes the file that has not
\* been able to read it since its start (markScheduleCompleted goes on with an empty
\* map then): never when a catch-up of an old fire ends after the run of a newer one,
\* and never again in a process that has read the file or written it once.
RecordNeverGoesBack ==
    [][hasSeen => \A a \in Crons : Recorded(a) <= Recorded(a)']_missedVars

\* The latest fire that came due while the daemon was not running, if the window still
\* holds it, is run after the next start, or turned away by a run in progress or
\* by the readiness gate, unless a later fire of the agent takes its place.
MissedIsMadeUp ==
    \A a \in Crons, s \in Slots :
        (/\ boot.pc = "started" /\ a \in boot.todo
         /\ s \in lost /\ s + Window > boot.at
         /\ \A other \in Slots : other <= boot.at => other <= s)
            ~> (tried[a] >= s \/ ~Alive)

\* The fire of this goroutine completed in an earlier process.
RanBefore(t) ==
    \E run \in completed : run[1] = th[t].agent /\ run[2] = th[t].slot /\ run[4] < boots

\* "Run once at `schedule.at`."
OneShotRunsOnce ==
    [][\A t \in Threads : RunCompletes(t) => th[t].agent \in Crons \/ ~RanBefore(t)]_missedVars
=============================================================================
