---------------------------- MODULE SchedulerProofs ----------------------------
(***************************************************************************)
(* Theorems about module Scheduler, for every number of agents, goroutines,  *)
(* requests, reloads and cron entries: the types; the run lock, which        *)
(* excludes the runs of one agent, agrees with what the goroutines do and    *)
(* implements the abstract lock RunLock; what rests on the lock: the failure *)
(* counter, the quarantine and the fire-time check; the tables of cron       *)
(* entries and of one-shot timers, which agree with what is live; the two    *)
(* ways in which an enabled agent loses its entry; and the watcher, whose    *)
(* reloads alone keep the table equal to the definitions.                    *)
(***************************************************************************)
EXTENDS Scheduler, TLAPS

-----------------------------------------------------------------------------
(* The typing invariant.  TypeOK is not inductive: SetEnabledInMemory reaches *)
(* through the loader's map into the definition that a handler holds, so the  *)
(* invariant also says what such a handler is doing.                          *)

LoaderOK ==
    /\ disk \in [Agents -> Definitions \cup {None}]
    /\ mem \in [Agents -> Definitions \cup {None}]
    /\ dirty \in BOOLEAN

TablesOK ==
    /\ jobs \in [Jobs -> Agents \cup {None}]
    /\ handle \in [Agents -> Jobs \cup {None}]
    /\ cancelled \subseteq Jobs

RunsOK == running \subseteq Agents /\ fails \in [Agents -> Nat]

BootOK == missed \subseteq Agents /\ invalid \subseteq Agents

\* A goroutine that is under way has an agent.
ThreadsBusy == \A t \in Threads : th[t].pc # "idle" => th[t].agent \in Agents

ThreadsOK == th \in [Threads -> ThreadRecord] /\ ThreadsBusy

\* A handler on its way into Loader.Upsert has a definition to store; only
\* some requests deregister.
StoringDefined ==
    \A h \in Handlers :
        /\ wr[h].pc \in {"upsert", "store"} => wr[h].def # None /\ wr[h].req # "delete"
        /\ wr[h].pc = "dereg" => wr[h].req \in {"save", "disable", "delete"}

\* A handler whose object is in the loader's map is registering that agent.
Holds(h, a) ==
    /\ wr[h].agent = a /\ wr[h].def # None /\ wr[h].req # "delete"
    /\ wr[h].pc \in {"dereg", "add", "swap"}

SharedHeld == \A a \in Agents : shared[a] # None => Holds(shared[a], a)

WritersOK ==
    /\ wr \in [Writers -> WriterRecord]
    /\ shared \in [Agents -> Handlers \cup {None}]
    /\ StoringDefined
    /\ SharedHeld

ReloadsOK == rl \in [Reloaders -> ReloadRecord]

TypeInv ==
    /\ LoaderOK /\ TablesOK /\ RunsOK /\ BootOK
    /\ ThreadsOK /\ WritersOK /\ ReloadsOK

LEMMA TypeInvImpliesTypeOK == TypeInv => TypeOK
  BY DEF TypeInv, LoaderOK, TablesOK, RunsOK, BootOK, ThreadsOK, WritersOK,
         ReloadsOK, TypeOK

\* Each part stays as it is in a step that leaves its variables alone.
LEMMA PartsStay ==
  /\ LoaderOK /\ UNCHANGED <<disk, mem, dirty>> => LoaderOK'
  /\ TablesOK /\ UNCHANGED tableVars => TablesOK'
  /\ RunsOK /\ UNCHANGED runVars => RunsOK'
  /\ BootOK /\ UNCHANGED bootVars => BootOK'
  /\ ThreadsOK /\ UNCHANGED th => ThreadsOK'
  /\ WritersOK /\ UNCHANGED <<wr, shared>> => WritersOK'
  /\ ReloadsOK /\ UNCHANGED rl => ReloadsOK'
  BY DEF LoaderOK, TablesOK, RunsOK, BootOK, ThreadsOK, WritersOK, ReloadsOK,
         ThreadsBusy, StoringDefined, SharedHeld, Holds, tableVars, runVars, bootVars

-----------------------------------------------------------------------------
(* What the building blocks of the actions do to the types.                  *)

LEMMA GoToTyped ==
  ASSUME ThreadsOK, NEW t \in Threads, NEW p \in ThreadPCs, th[t].pc # "idle", GoTo(t, p)
  PROVE  ThreadsOK'
  BY DEF ThreadsOK, ThreadsBusy, GoTo, ThreadRecord, ThreadPCs

LEMMA OutcomeTyped ==
  ASSUME ThreadsOK, NEW t \in Threads, NEW p \in ThreadPCs, th[t].pc # "idle",
         NEW r \in {"none", "error", "completed", "incomplete"},
         th' = [th EXCEPT ![t].pc = p, ![t].res = r]
  PROVE  ThreadsOK'
<1>1. th[t] \in ThreadRecord /\ th[t].agent \in Agents
  BY DEF ThreadsOK, ThreadsBusy
<1>2. th' = [th EXCEPT ![t] = [th[t] EXCEPT !.pc = p, !.res = r]]
  BY DEF ThreadsOK
<1>3. /\ [th[t] EXCEPT !.pc = p, !.res = r] \in ThreadRecord
      /\ [th[t] EXCEPT !.pc = p, !.res = r].agent = th[t].agent
  BY <1>1 DEF ThreadRecord
<1>4. QED
  BY <1>1, <1>2, <1>3 DEF ThreadsOK, ThreadsBusy

LEMMA ReturnTyped ==
  ASSUME ThreadsOK, NEW t \in Threads, th[t].pc # "idle", Return(t)
  PROVE  ThreadsOK'
  BY ZenonT(60) DEF ThreadsOK, ThreadsBusy, Return, ThreadRecord, ThreadPCs, IdleThread

LEMMA SpawnTyped ==
  ASSUME ThreadsOK, NEW t \in Threads, NEW a \in Agents,
         NEW g \in {"cron", "missed", "oneshot"}, Spawn(t, a, g)
  PROVE  ThreadsOK'
  BY DEF ThreadsOK, ThreadsBusy, Spawn, ThreadRecord, ThreadPCs, Off

LEMMA WithLoaderTyped ==
  ASSUME ThreadsOK, NEW m, th' = WithLoader(m)
  PROVE  ThreadsOK'
<1> DEFINE stillOff(t) == th[t].bornOff /\ th[t].agent # None /\ Off(m[th[t].agent])
<1>1. ASSUME NEW t \in Threads
      PROVE  /\ th'[t] \in ThreadRecord
             /\ th'[t].pc = th[t].pc /\ th'[t].agent = th[t].agent
  <2>1. stillOff(t) \in BOOLEAN
    BY Zenon
  <2>2. th'[t] = [th[t] EXCEPT !.bornOff = stillOff(t)]
    BY Zenon DEF WithLoader
  <2> HIDE DEF stillOff
  <2>3. th[t] \in ThreadRecord
    BY DEF ThreadsOK
  <2>4. QED
    BY <2>1, <2>2, <2>3 DEF ThreadRecord
<1>2. th' = [t \in Threads |-> th'[t]]
  BY DEF WithLoader
<1>3. th' \in [Threads -> ThreadRecord]
  BY <1>1, <1>2
<1>4. QED
  BY <1>1, <1>3 DEF ThreadsOK, ThreadsBusy

LEMMA DeregisterTyped ==
  ASSUME TablesOK, NEW a \in Agents \cup {None}, Deregister(a)
  PROVE  TablesOK'
  BY DEF TablesOK, Deregister

LEMMA RegistrationsTyped ==
  ASSUME NEW d, NEW f \in Registrations(d)
  PROVE  /\ f \in [Agents -> Jobs \cup {None}]
         /\ JobsOf(f) \in [Jobs -> Agents \cup {None}]
  BY DEF Registrations, JobsOf

\* A handler changes its program counter; its object, if it is in the map,
\* stays in use.
LEMMA WriterGoesTyped ==
  ASSUME WritersOK, NEW w \in Writers, UNCHANGED shared,
         NEW p \in {"store", "remove", "add", "swap", "diff", "next"},
         wr' = [wr EXCEPT ![w].pc = p],
         p = "store" => wr[w].pc \in {"upsert", "store"} \/ w \notin Handlers,
         p \in {"add", "swap"} \/ wr[w].req = "delete"
           \/ wr[w].pc \notin {"dereg", "add", "swap"}
  PROVE  WritersOK'
<1> USE NoneAssumption, WritersAssumption
<1>1. wr' \in [Writers -> WriterRecord]
  BY DEF WritersOK, WriterRecord
<1>2. StoringDefined'
  BY DEF WritersOK, StoringDefined, Writers, WriterRecord
<1>3. SharedHeld'
  BY DEF WritersOK, SharedHeld, Holds, Writers, WriterRecord
<1>4. QED
  BY <1>1, <1>2, <1>3 DEF WritersOK

LEMMA DoneTyped ==
  ASSUME WritersOK, NEW w \in Writers, Done(w)
  PROVE  WritersOK'
<1> USE NoneAssumption, WritersAssumption
<1>1. wr' \in [Writers -> WriterRecord]
  <2> DEFINE ended == IF w \in Handlers THEN IdleWriter
                      ELSE [wr[w] EXCEPT !.pc = "next", !.job = None]
  <2>1. ended \in WriterRecord
    <3>1. IdleWriter \in WriterRecord
      BY DEF IdleWriter, WriterRecord
    <3>2. wr[w] \in WriterRecord
      BY DEF WritersOK
    <3>3. [wr[w] EXCEPT !.pc = "next", !.job = None] \in WriterRecord
      BY <3>2 DEF WriterRecord
    <3>4. QED
      BY <3>1, <3>3
  <2>2. wr' = [wr EXCEPT ![w] = ended]
    BY DEF Done
  <2> HIDE DEF ended
  <2>3. QED
    BY <2>1, <2>2 DEF WritersOK
<1>2. shared' \in [Agents -> Handlers \cup {None}]
  BY DEF WritersOK, Done
<1>3. StoringDefined'
  BY DEF WritersOK, Done, StoringDefined, Writers, WriterRecord, IdleWriter
<1>4. SharedHeld'
  BY DEF WritersOK, Done, SharedHeld, Holds, Writers
<1>5. QED
  BY <1>1, <1>2, <1>3, <1>4 DEF WritersOK

\* A handler gives up or is done, and its object is not in the map.
LEMMA HandlerEndsTyped ==
  ASSUME WritersOK, NEW h \in Handlers, wr' = [wr EXCEPT ![h] = IdleWriter],
         wr[h].pc \notin {"dereg", "add", "swap"},
         shared' \in [Agents -> Handlers \cup {None}],
         \A a \in Agents : shared'[a] # None => shared'[a] = shared[a]
  PROVE  WritersOK'
<1> USE NoneAssumption, WritersAssumption
<1>1. wr' \in [Writers -> WriterRecord]
  BY DEF WritersOK, WriterRecord, IdleWriter
<1>2. StoringDefined'
  BY DEF WritersOK, StoringDefined, Writers, WriterRecord, IdleWriter
<1>3. ASSUME NEW a \in Agents, shared'[a] # None
      PROVE  Holds(shared[a], a)'
  <2>1. Holds(shared[a], a) /\ shared[a] \in Handlers /\ shared'[a] = shared[a]
    BY <1>3 DEF WritersOK, SharedHeld
  <2>2. shared[a] # h
    BY <2>1 DEF Holds
  <2>3. QED
    BY <2>1, <2>2 DEF Holds, WritersOK, Writers
<1>4. QED
  BY <1>1, <1>2, <1>3 DEF WritersOK, SharedHeld

LEMMA SetEnabledTyped ==
  ASSUME LoaderOK, WritersOK, NEW a \in Agents, NEW b \in BOOLEAN,
         SetEnabledInMemory(a, b), UNCHANGED <<disk, shared, dirty>>
  PROVE  LoaderOK' /\ WritersOK'
<1> USE NoneAssumption, WritersAssumption
<1>1. LoaderOK'
  BY DEF LoaderOK, SetEnabledInMemory, Definitions
<1>2. ASSUME NEW w \in Writers, shared[a] = w
      PROVE  wr[w].def \in Definitions /\ wr'[w] = [wr[w] EXCEPT !.def.enabled = b]
  BY <1>2 DEF WritersOK, SharedHeld, Holds, SetEnabledInMemory, WriterRecord, Writers
<1>3. ASSUME NEW w \in Writers
      PROVE  /\ wr'[w] \in WriterRecord
             /\ wr'[w].pc = wr[w].pc /\ wr'[w].agent = wr[w].agent
             /\ wr'[w].req = wr[w].req
             /\ wr[w].def # None => wr'[w].def # None
  <2>1. wr[w] \in WriterRecord
    BY DEF WritersOK
  <2>2. CASE shared[a] = w
    <3> DEFINE d == [wr[w].def EXCEPT !.enabled = b]
    <3>1. d \in Definitions
      BY <1>2, <2>2 DEF Definitions
    <3>2. d # None
      BY <3>1 DEF Definitions
    <3>3. wr'[w] = [wr[w] EXCEPT !.def = d]
      BY <1>2, <2>2
    <3> HIDE DEF d
    <3>4. QED
      BY <2>1, <3>1, <3>2, <3>3 DEF WriterRecord
  <2>3. CASE shared[a] # w
    BY <2>1, <2>3 DEF SetEnabledInMemory
  <2>4. QED
    BY <2>2, <2>3
<1>4. wr' \in [Writers -> WriterRecord]
  BY <1>3 DEF SetEnabledInMemory
<1>5. StoringDefined' /\ SharedHeld'
  BY <1>3 DEF WritersOK, StoringDefined, SharedHeld, Holds, Writers
<1>6. QED
  BY <1>1, <1>4, <1>5 DEF WritersOK

-----------------------------------------------------------------------------
(* Type correctness.                                                         *)

LEMMA InitTyped == Init => TypeInv
<1> SUFFICES ASSUME Init PROVE TypeInv
  OBVIOUS
<1> USE NoneAssumption, WritersAssumption DEF Init
<1>1. LoaderOK
  BY DEF LoaderOK, Choices
<1>2. TablesOK
  BY RegistrationsTyped DEF TablesOK
<1>3. RunsOK /\ BootOK
  BY DEF RunsOK, BootOK, CatchUpCandidates, Rejectable
<1>4. ThreadsOK
  BY DEF ThreadsOK, ThreadsBusy, ThreadRecord, ThreadPCs, IdleThread
<1>5. WritersOK
  BY DEF WritersOK, StoringDefined, SharedHeld, WriterRecord, IdleWriter, Writers
<1>6. ReloadsOK
  BY DEF ReloadsOK, ReloadRecord, IdleReload
<1>7. QED
  BY <1>1, <1>2, <1>3, <1>4, <1>5, <1>6 DEF TypeInv

LEMMA RestartTyped == TypeInv /\ Restart => TypeInv'
<1> SUFFICES ASSUME TypeInv, Restart PROVE TypeInv'
  OBVIOUS
<1> USE NoneAssumption, WritersAssumption DEF Restart, TypeInv
<1>1. LoaderOK'
  BY DEF LoaderOK
<1>2. TablesOK'
  BY RegistrationsTyped DEF TablesOK
<1>3. RunsOK' /\ BootOK'
  BY DEF RunsOK, BootOK, CatchUpCandidates, Rejectable
<1>4. ThreadsOK'
  BY DEF ThreadsOK, ThreadsBusy, ThreadRecord, ThreadPCs, IdleThread
<1>5. WritersOK'
  BY DEF WritersOK, StoringDefined, SharedHeld, WriterRecord, IdleWriter, Writers
<1>6. ReloadsOK'
  BY DEF ReloadsOK, ReloadRecord, IdleReload
<1>7. QED
  BY <1>1, <1>2, <1>3, <1>4, <1>5, <1>6

LEMMA StartTyped ==
  ASSUME TypeInv, NEW t \in Threads, StartThread(t)
  PROVE  TypeInv'
<1> USE PartsStay DEF TypeInv, loaderVars
<1>1. ASSUME NEW j \in Jobs, CronTick(t, j) PROVE TypeInv'
  <2>1. ThreadsOK'
    BY <1>1, SpawnTyped DEF CronTick, TablesOK
  <2>2. QED
    BY <1>1, <2>1 DEF CronTick
<1>2. ASSUME NEW j \in Jobs, TimerDue(t, j) PROVE TypeInv'
  <2>1. ThreadsOK'
    BY <1>2, SpawnTyped DEF TimerDue, TablesOK
  <2>2. TablesOK'
    BY <1>2 DEF TimerDue, TablesOK
  <2>3. QED
    BY <1>2, <2>1, <2>2 DEF TimerDue
<1>3. ASSUME NEW a \in Agents, CatchUp(t, a) PROVE TypeInv'
  <2>1. ThreadsOK'
    BY <1>3, SpawnTyped DEF CatchUp
  <2>2. BootOK'
    BY <1>3 DEF CatchUp, BootOK
  <2>3. QED
    BY <1>3, <2>1, <2>2 DEF CatchUp
<1>4. ASSUME NEW a \in Agents, ManualTrigger(t, a) PROVE TypeInv'
  <2>1. ThreadsOK'
    BY <1>4 DEF ManualTrigger, ThreadsOK, ThreadsBusy, ThreadRecord, ThreadPCs
  <2>2. QED
    BY <1>4, <2>1 DEF ManualTrigger
<1>5. QED
  BY <1>1, <1>2, <1>3, <1>4 DEF StartThread

LEMMA ThreadTyped ==
  ASSUME TypeInv, NEW t \in Threads, ThreadStep(t)
  PROVE  TypeInv'
<1> USE PartsStay, GoToTyped, ReturnTyped DEF TypeInv, loaderVars, ThreadPCs, At
<1>a. th[t].pc # "idle" => th[t].agent \in Agents
  BY DEF ThreadsOK, ThreadsBusy
<1>1. CASE FireCheck(t)
  BY <1>1 DEF FireCheck
<1>2. CASE FireDrop(t)
  BY <1>2, <1>a, DeregisterTyped DEF FireDrop
<1>3. CASE FireGate(t)
  BY <1>3 DEF FireGate
<1>4. CASE TryStartRun(t)
  <2>1. ThreadsOK'
    BY <1>4 DEF TryStartRun
  <2>2. RunsOK'
    BY <1>4, <1>a DEF TryStartRun, RunsOK
  <2>3. QED
    BY <1>4, <2>1, <2>2 DEF TryStartRun
<1>5. CASE Lookup(t)
  BY <1>5 DEF Lookup
<1>6. CASE RunCompletes(t)
  <2>1. ThreadsOK'
    <3>1. CASE Counted(t)
      BY <1>6, <3>1, OutcomeTyped DEF RunCompletes
    <3>2. CASE ~Counted(t)
      BY <1>6, <3>2, OutcomeTyped DEF RunCompletes
    <3>3. QED
      BY <3>1, <3>2
  <2>2. RunsOK'
    BY <1>6 DEF RunCompletes, RunsOK
  <2>3. QED
    BY <1>6, <2>1, <2>2 DEF RunCompletes
<1>7. ASSUME NEW o \in {"error", "incomplete"}, RunFails(t, o) PROVE TypeInv'
  <2>1. ThreadsOK'
    <3> DEFINE p == IF fails'[th[t].agent] >= FailLimit /\ Counted(t) THEN "qdereg"
                    ELSE IF o = "error" THEN "finish" ELSE "deliver"
    <3>1. p \in ThreadPCs
      BY Zenon
    <3>2. th[t].pc # "idle" /\ th' = [th EXCEPT ![t].pc = p, ![t].res = o]
      BY <1>7 DEF RunFails
    <3> HIDE DEF p
    <3>3. QED
      BY <3>1, <3>2, OutcomeTyped
  <2>2. RunsOK'
    <3>1. fails' = [fails EXCEPT ![th[t].agent] = @ + 1] \/ fails' = fails
      BY <1>7 DEF RunFails
    <3>2. running' = running
      BY <1>7 DEF RunFails
    <3>3. QED
      BY <1>7, <1>a, <3>1, <3>2 DEF RunFails, RunsOK
  <2>3. QED
    BY <1>7, <2>1, <2>2 DEF RunFails
<1>8. CASE QuarantineDeregister(t)
  BY <1>8, <1>a, DeregisterTyped DEF QuarantineDeregister
<1>9. CASE QuarantineDisable(t)
  BY <1>9, <1>a, SetEnabledTyped DEF QuarantineDisable
<1>10. CASE QuarantineClear(t)
  <2>1. RunsOK'
    BY <1>10 DEF QuarantineClear, RunsOK
  <2>2. QED
    BY <1>10, <2>1 DEF QuarantineClear
<1>11. CASE MarkCompleted(t)
  BY <1>11 DEF MarkCompleted
<1>12. CASE Deliver(t)
  BY <1>12 DEF Deliver
<1>13. CASE FinishRun(t)
  <2>1. RunsOK'
    BY <1>13 DEF FinishRun, RunsOK
  <2>2. QED
    BY <1>13, <2>1 DEF FinishRun
<1>14. CASE OneShotForget(t)
  <2>1. ThreadsOK'
    BY <1>14 DEF OneShotForget, ThreadsOK, ThreadsBusy, IdleThread, ThreadRecord
  <2>2. TablesOK'
    BY <1>14 DEF OneShotForget, TablesOK
  <2>3. QED
    BY <1>14, <2>1, <2>2 DEF OneShotForget
<1>15. QED
  BY <1>1, <1>2, <1>3, <1>4, <1>5, <1>6, <1>7, <1>8, <1>9, <1>10, <1>11,
     <1>12, <1>13, <1>14 DEF ThreadStep

LEMMA RequestTyped ==
  ASSUME TypeInv, NEW h \in Handlers, NEW a \in Agents, NEW d \in Choices \cup {None},
         NEW r \in {"create", "save", "enable", "disable", "delete"}, Request(h, a, r, d)
  PROVE  TypeInv'
<1> USE NoneAssumption, WritersAssumption
<1> DEFINE new == [pc |-> IF r = "delete" THEN "dereg" ELSE "upsert", req |-> r,
                   agent |-> a, def |-> d, job |-> None]
<1>1. /\ wr' = [wr EXCEPT ![h] = new] /\ UNCHANGED shared
      /\ wr[h].pc = "idle"
      /\ r # "delete" => d # None
  BY DEF Request, loaderVars
<1>2. new \in WriterRecord /\ (r # "delete" => new.def # None) /\ new.pc \in {"dereg", "upsert"}
      /\ new.req = r /\ (new.pc = "upsert" <=> r # "delete")
  BY <1>1 DEF WriterRecord, Choices
<1> HIDE DEF new
<1>3. WritersOK'
  BY <1>1, <1>2 DEF TypeInv, WritersOK, StoringDefined, SharedHeld, Holds, Writers
<1>4. QED
  BY <1>3, PartsStay DEF Request, TypeInv, loaderVars

LEMMA HandlerTyped ==
  ASSUME TypeInv, NEW h \in Handlers, HandlerStep(h)
  PROVE  TypeInv'
<1> USE PartsStay, NoneAssumption, WritersAssumption DEF TypeInv, loaderVars, Writers
<1>a. wr[h] \in WriterRecord /\ h \in Writers
  BY DEF WritersOK
<1>1. CASE Upsert(h)
  <2>1. WritersOK'
    BY <1>1, WriterGoesTyped DEF Upsert
  <2>2. LoaderOK'
    BY <1>1, <1>a DEF Upsert, LoaderOK, WriterRecord
  <2>3. QED
    BY <1>1, <2>1, <2>2 DEF Upsert
<1>2. CASE UpsertFails(h)
  <2>1. WritersOK'
    BY <1>2, HandlerEndsTyped DEF UpsertFails, WritersOK
  <2>2. QED
    BY <1>2, <2>1 DEF UpsertFails
<1>3. CASE Store(h)
  <2>1. LoaderOK'
    BY <1>3, <1>a DEF Store, StoreDefinition, LoaderOK, WriterRecord
  <2>2. ThreadsOK'
    BY <1>3, WithLoaderTyped DEF Store, StoreDefinition
  <2>3. WritersOK'
    <3>1. /\ shared' = [shared EXCEPT ![wr[h].agent] = h]
          /\ wr' = [wr EXCEPT ![h].pc =
                       IF wr[h].req \in {"save", "disable"} THEN "dereg" ELSE "add"]
          /\ mem' = [mem EXCEPT ![wr[h].agent] = wr[h].def]
      BY <1>3 DEF Store, StoreDefinition
    <3>2. wr[h].pc = "store" /\ wr[h].def # None
      BY <1>3 DEF Store, StoreDefinition, WritersOK, StoringDefined
    <3>3. wr[h].req # "delete"
      BY <3>2 DEF WritersOK, StoringDefined
    <3>4. /\ wr'[h].pc \in {"dereg", "add"} /\ wr'[h].agent = wr[h].agent
          /\ wr'[h].def = wr[h].def /\ wr'[h].req = wr[h].req
          /\ wr'[h] \in WriterRecord
          /\ wr'[h].pc = "dereg" => wr'[h].req \in {"save", "disable"}
      BY <3>1, <1>a DEF WritersOK, WriterRecord
    <3>5. \A w \in Writers : w # h => wr'[w] = wr[w]
      BY <3>1 DEF WritersOK
    <3>6. wr' \in [Writers -> WriterRecord] /\ shared' \in [Agents -> Handlers \cup {None}]
      BY <3>1, <3>4, <3>5 DEF WritersOK
    <3>7. StoringDefined'
      BY <3>4, <3>5 DEF WritersOK, StoringDefined
    <3>8. ASSUME NEW a \in Agents, shared'[a] # None
          PROVE  Holds(shared[a], a)'
      <4>1. CASE a = wr[h].agent
        BY <4>1, <3>1, <3>2, <3>3, <3>4 DEF Holds, WritersOK
      <4>2. CASE a # wr[h].agent
        <5>1. shared'[a] = shared[a] /\ Holds(shared[a], a) /\ shared[a] \in Writers
          BY <4>2, <3>1, <3>8 DEF WritersOK, SharedHeld
        <5>2. shared[a] # h
          BY <5>1, <3>2 DEF Holds
        <5>3. QED
          BY <5>1, <5>2, <3>5 DEF Holds
      <4>3. QED
        BY <4>1, <4>2
    <3>9. QED
      BY <3>6, <3>7, <3>8 DEF WritersOK, SharedHeld
  <2>4. QED
    BY <1>3, <2>1, <2>2, <2>3 DEF Store, StoreDefinition
<1>6. CASE StoreUnsynced(h)
  <2>1. LoaderOK'
    BY <1>6, <1>a DEF StoreUnsynced, StoreDefinition, LoaderOK, WriterRecord
  <2>2. ThreadsOK'
    BY <1>6, WithLoaderTyped DEF StoreUnsynced, StoreDefinition
  <2>3. WritersOK'
    <3>1. /\ shared' = [shared EXCEPT ![wr[h].agent] = None] /\ wr[h].pc = "store"
          /\ wr' = [wr EXCEPT ![h] = IdleWriter]
          /\ mem' = [mem EXCEPT ![wr[h].agent] = wr[h].def]
      BY <1>6 DEF StoreUnsynced, StoreDefinition
    <3>2. QED
      BY <3>1, HandlerEndsTyped DEF WritersOK
  <2>4. QED
    BY <1>6, <2>1, <2>2, <2>3 DEF StoreUnsynced, StoreDefinition
<1>4. CASE HandlerDeregister(h)
  <2>1. TablesOK'
    BY <1>4, <1>a, DeregisterTyped DEF HandlerDeregister, WriterRecord
  <2>2. WritersOK'
    <3>1. CASE wr[h].req = "disable"
      BY <1>4, <3>1, DoneTyped DEF HandlerDeregister
    <3>2. CASE wr[h].req = "save"
      BY <1>4, <3>2, WriterGoesTyped DEF HandlerDeregister
    <3>3. CASE wr[h].req = "delete"
      <4>1. wr' = [wr EXCEPT ![h].pc = "remove"] /\ UNCHANGED shared /\ wr[h].pc = "dereg"
        BY <1>4, <3>3 DEF HandlerDeregister
      <4>2. QED
        BY <3>3, <4>1, WriterGoesTyped
    <3>4. QED
      BY <1>4, <3>1, <3>2, <3>3 DEF HandlerDeregister, WritersOK, StoringDefined
  <2>3. QED
    BY <1>4, <2>1, <2>2 DEF HandlerDeregister
<1>5. CASE Remove(h)
  <2>1. LoaderOK'
    BY <1>5 DEF Remove, LoaderOK
  <2>2. ThreadsOK'
    BY <1>5, WithLoaderTyped DEF Remove
  <2>3. WritersOK'
    BY <1>5, HandlerEndsTyped DEF Remove, WritersOK
  <2>4. QED
    BY <1>5, <2>1, <2>2, <2>3 DEF Remove
<1>7. CASE RemoveNothing(h) \/ RemoveFails(h)
  <2>1. WritersOK'
    BY <1>7, HandlerEndsTyped DEF RemoveNothing, RemoveFails, WritersOK
  <2>2. QED
    BY <1>7, <2>1 DEF RemoveNothing, RemoveFails
<1>8. QED
  BY <1>1, <1>2, <1>3, <1>4, <1>5, <1>6, <1>7 DEF HandlerStep

LEMMA RegisterTyped ==
  ASSUME TypeInv, NEW w \in Writers, RegisterStep(w)
  PROVE  TypeInv'
<1> USE PartsStay, NoneAssumption, WritersAssumption DEF TypeInv, loaderVars
<1>a. wr[w] \in WriterRecord
  BY DEF WritersOK
<1>1. CASE RegisterSkip(w) \/ RegisterFails(w)
  BY <1>1, DoneTyped DEF RegisterSkip, RegisterFails
<1>2. CASE SwapCron(w)
  <2>1. TablesOK'
    BY <1>2, <1>a DEF SwapCron, TablesOK, WriterRecord
  <2>2. QED
    BY <1>2, <2>1, DoneTyped DEF SwapCron
<1>3. ASSUME NEW j \in Jobs, AddCron(w, j) PROVE TypeInv'
  <2>1. TablesOK'
    BY <1>3, <1>a DEF AddCron, TablesOK, WriterRecord
  <2>2. WritersOK'
    <3>1. wr' = [wr EXCEPT ![w] = [wr[w] EXCEPT !.pc = "swap", !.job = j]]
      BY <1>3 DEF AddCron, WritersOK
    <3>2. [wr[w] EXCEPT !.pc = "swap", !.job = j] \in WriterRecord
      BY <1>a DEF WriterRecord
    <3>3. wr' \in [Writers -> WriterRecord]
      BY <3>1, <3>2 DEF WritersOK
    <3>4. StoringDefined' /\ SharedHeld'
      BY <1>3, <1>a, <3>1 DEF AddCron, WritersOK, StoringDefined, SharedHeld, Holds,
                               Writers, WriterRecord
    <3>5. QED
      BY <1>3, <3>3, <3>4 DEF AddCron, WritersOK
  <2>3. QED
    BY <1>3, <2>1, <2>2 DEF AddCron
<1>4. ASSUME NEW j \in Jobs, AddOneShot(w, j) PROVE TypeInv'
  <2>1. TablesOK'
    BY <1>4, <1>a DEF AddOneShot, TablesOK, WriterRecord
  <2>2. QED
    BY <1>4, <2>1, DoneTyped DEF AddOneShot
<1>5. QED
  BY <1>1, <1>2, <1>3, <1>4 DEF RegisterStep

\* The steps of a reload move only its own record.
LEMMA ReloaderMovesTyped ==
  ASSUME WritersOK, NEW r \in Reloaders, NEW x \in WriterRecord,
         wr' = [wr EXCEPT ![r] = x], UNCHANGED shared
  PROVE  WritersOK'
<1> USE NoneAssumption, WritersAssumption
<1>1. wr' \in [Writers -> WriterRecord]
  BY DEF WritersOK
<1>2. \A h \in Handlers : wr'[h] = wr[h]
  BY DEF WritersOK, Writers
<1>3. StoringDefined' /\ SharedHeld'
  BY <1>2 DEF WritersOK, StoringDefined, SharedHeld, Holds
<1>4. QED
  BY <1>1, <1>3 DEF WritersOK

LEMMA ReloadTyped ==
  ASSUME TypeInv, NEW r \in Reloaders, ReloadStep(r)
  PROVE  TypeInv'
<1> USE PartsStay, NoneAssumption, WritersAssumption DEF TypeInv, loaderVars
<1>a. wr[r] \in WriterRecord /\ r \in Writers /\ rl[r] \in ReloadRecord
  BY DEF WritersOK, ReloadsOK, Writers
<1>1. CASE ReloadBegin(r)
  <2>1. WritersOK'
    <3>1. wr' = [wr EXCEPT ![r] = [wr[r] EXCEPT !.pc = "load", !.req = "reload"]]
      BY <1>1 DEF ReloadBegin, WritersOK
    <3>2. [wr[r] EXCEPT !.pc = "load", !.req = "reload"] \in WriterRecord
      BY <1>a DEF WriterRecord
    <3>3. QED
      BY <1>1, <3>1, <3>2, ReloaderMovesTyped DEF ReloadBegin
  <2>2. ReloadsOK' /\ LoaderOK'
    BY <1>1, <1>a DEF ReloadBegin, ReloadsOK, ReloadRecord, LoaderOK
  <2>3. QED
    BY <1>1, <2>1, <2>2 DEF ReloadBegin
<1>2. CASE ReloadLoad(r)
  <2>1. ThreadsOK'
    BY <1>2, WithLoaderTyped DEF ReloadLoad
  <2>2. LoaderOK'
    BY <1>2 DEF ReloadLoad, LoaderOK
  <2>3. WritersOK'
    <3>1. /\ wr'[r] = [wr[r] EXCEPT !.pc = "diff"]
          /\ \A h \in Handlers : wr'[h] = wr[h]
          /\ wr' = [wr EXCEPT ![r] = [wr[r] EXCEPT !.pc = "diff"]]
      BY <1>2, <1>a DEF ReloadLoad, WritersOK, Writers
    <3>2. [wr[r] EXCEPT !.pc = "diff"] \in WriterRecord
      BY <1>a DEF WriterRecord
    <3>3. wr' \in [Writers -> WriterRecord]
      BY <3>1, <3>2 DEF WritersOK
    <3>4. shared' = [a \in Agents |-> None]
      BY <1>2 DEF ReloadLoad
    <3>5. QED
      BY <3>1, <3>3, <3>4 DEF WritersOK, StoringDefined, SharedHeld
  <2>4. QED
    BY <1>2, <2>1, <2>2, <2>3 DEF ReloadLoad
<1>3. CASE ReloadDiff(r)
  <2>1. WritersOK'
    <3>1. [wr[r] EXCEPT !.pc = "next"] \in WriterRecord
      BY <1>a DEF WriterRecord
    <3>2. QED
      BY <1>3, <3>1, ReloaderMovesTyped DEF ReloadDiff
  <2>2. ReloadsOK'
    BY <1>3 DEF ReloadDiff, ReloadsOK, ReloadRecord, LoaderOK
  <2>3. QED
    BY <1>3, <2>1, <2>2 DEF ReloadDiff
<1>4. CASE ReloadEnd(r)
  <2>1. WritersOK'
    <3>1. IdleWriter \in WriterRecord
      BY DEF WriterRecord, IdleWriter
    <3>2. QED
      BY <1>4, <3>1, ReloaderMovesTyped DEF ReloadEnd
  <2>2. ReloadsOK'
    BY <1>4 DEF ReloadEnd, ReloadsOK, ReloadRecord, IdleReload
  <2>3. QED
    BY <1>4, <2>1, <2>2 DEF ReloadEnd
<1>5. ASSUME NEW a \in Agents, ReloadDrop(r, a) PROVE TypeInv'
  <2>1. ReloadsOK'
    BY <1>5, <1>a DEF ReloadDrop, ReloadsOK, ReloadRecord
  <2>2. QED
    BY <1>5, <2>1, DeregisterTyped DEF ReloadDrop
<1>6. ASSUME NEW a \in Agents, ReloadRegister(r, a) PROVE TypeInv'
  <2>1. WritersOK'
    <3> DEFINE x == [wr[r] EXCEPT !.pc = "add", !.agent = a, !.def = rl[r].snap[a]]
    <3>1. wr' = [wr EXCEPT ![r] = x]
      BY <1>6 DEF ReloadRegister, WritersOK
    <3>2. x \in WriterRecord
      BY <1>a DEF WriterRecord, ReloadRecord
    <3> HIDE DEF x
    <3>3. QED
      BY <1>6, <3>1, <3>2, ReloaderMovesTyped DEF ReloadRegister
  <2>2. ReloadsOK'
    BY <1>6, <1>a DEF ReloadRegister, ReloadsOK, ReloadRecord
  <2>3. QED
    BY <1>6, <2>1, <2>2 DEF ReloadRegister
<1>7. QED
  BY <1>1, <1>2, <1>3, <1>4, <1>5, <1>6 DEF ReloadStep

LEMMA NextTyped == TypeInv /\ [Next]_vars => TypeInv'
<1> SUFFICES ASSUME TypeInv, [Next]_vars PROVE TypeInv'
  OBVIOUS
<1>1. ASSUME NEW t \in Threads, StartThread(t) PROVE TypeInv'
  BY <1>1, StartTyped
<1>2. ASSUME NEW t \in Threads, ThreadStep(t) PROVE TypeInv'
  BY <1>2, ThreadTyped
<1>3. ASSUME NEW j \in Jobs, TimerCancelled(j) PROVE TypeInv'
  <2>1. TablesOK'
    BY <1>3 DEF TimerCancelled, TypeInv, TablesOK
  <2>2. QED
    BY <1>3, <2>1, PartsStay DEF TimerCancelled, TypeInv, loaderVars
<1>4. ASSUME NEW a \in Agents, BootValidation(a) PROVE TypeInv'
  <2>1. BootOK'
    BY <1>4 DEF BootValidation, TypeInv, BootOK
  <2>2. LoaderOK' /\ WritersOK'
    BY <1>4, SetEnabledTyped DEF BootValidation, TypeInv
  <2>3. QED
    BY <1>4, <2>1, <2>2, PartsStay DEF BootValidation, TypeInv
<1>5. CASE NewRequest
  BY <1>5, RequestTyped DEF NewRequest
<1>6. ASSUME NEW h \in Handlers, HandlerStep(h) PROVE TypeInv'
  BY <1>6, HandlerTyped
<1>7. ASSUME NEW w \in Writers, RegisterStep(w) PROVE TypeInv'
  BY <1>7, RegisterTyped
<1>8. ASSUME NEW r \in Reloaders, ReloadStep(r) PROVE TypeInv'
  BY <1>8, ReloadTyped
<1>9. ASSUME NEW a \in EditedFiles, NEW d \in Choices \cup {None}, EditFile(a, d)
      PROVE  TypeInv'
  <2>1. LoaderOK'
    BY <1>9 DEF EditFile, TypeInv, LoaderOK, Choices
  <2>2. QED
    BY <1>9, <2>1, PartsStay DEF EditFile, TypeInv
<1>10. CASE Restart
  BY <1>10, RestartTyped
<1>11. CASE UNCHANGED vars
  BY <1>11, PartsStay DEF TypeInv, vars, loaderVars
<1>12. QED
  BY <1>1, <1>2, <1>3, <1>4, <1>5, <1>6, <1>7, <1>8, <1>9, <1>10, <1>11 DEF Next

LEMMA AlwaysTyped == Spec => []TypeInv
  BY InitTyped, NextTyped, PTL DEF Spec

\* Every variable keeps its type: whatever races, no handler, reload, fire or
\* quarantine stores a value of the wrong kind.
THEOREM TypeCorrect == Spec => []TypeOK
  BY AlwaysTyped, TypeInvImpliesTypeOK, PTL

-----------------------------------------------------------------------------
-----------------------------------------------------------------------------
(* What a step may do to the lock, told by the map and by the goroutines.    *)

LockSame ==
    /\ running' = running
    /\ \A t \in Threads, a \in Agents : Owns(t, a)' <=> Owns(t, a)

LockTaken(t, a) ==
    /\ a \notin running
    /\ running' = running \cup {a}
    /\ \A u \in Threads, b \in Agents :
          Owns(u, b)' <=> Owns(u, b) \/ (u = t /\ b = a)

LockGiven(t, a) ==
    /\ Owns(t, a)
    /\ running' = running \ {a}
    /\ \A u \in Threads, b \in Agents :
          Owns(u, b)' <=> Owns(u, b) /\ ~(u = t /\ b = a)

LockGone ==
    /\ running' = {}
    /\ \A t \in Threads, a \in Agents : ~Owns(t, a)'

LockStep ==
    \/ LockSame \/ LockGone
    \/ \E t \in Threads, a \in Agents : LockTaken(t, a) \/ LockGiven(t, a)

-----------------------------------------------------------------------------
(* Goroutines one at a time: only t moves.                                   *)

Moves(t, p) ==
    /\ th'[t].pc = p /\ th'[t].agent = th[t].agent
    /\ \A u \in Threads \ {t} : th'[u].pc = th[u].pc /\ th'[u].agent = th[u].agent

LEMMA GoToMoves ==
  ASSUME ThreadsOK, NEW t \in Threads, NEW p, GoTo(t, p)
  PROVE  Moves(t, p)
  BY DEF ThreadsOK, GoTo, Moves, ThreadRecord

LEMMA OutcomeMoves ==
  ASSUME ThreadsOK, NEW t \in Threads, NEW p, NEW r,
         th' = [th EXCEPT ![t].pc = p, ![t].res = r]
  PROVE  Moves(t, p)
  BY DEF ThreadsOK, Moves, ThreadRecord

\* The end of fireAt.
LEMMA ReturnMoves ==
  ASSUME ThreadsOK, NEW t \in Threads, Return(t)
  PROVE  /\ th'[t].pc \in {"idle", "forget"}
         /\ \A u \in Threads \ {t} : th'[u].pc = th[u].pc /\ th'[u].agent = th[u].agent
  BY DEF ThreadsOK, Return, IdleThread, ThreadRecord

\* Inside the run, or outside it, a move keeps the lock as it is.
LEMMA MoveKeepsLock ==
  ASSUME NEW t \in Threads, NEW p, Moves(t, p), UNCHANGED running,
         p \in OwnerPCs <=> th[t].pc \in OwnerPCs
  PROVE  LockSame
  BY DEF Moves, LockSame, Owns

LEMMA ReturnKeepsLock ==
  ASSUME ThreadsOK, NEW t \in Threads, Return(t), UNCHANGED running,
         th[t].pc \notin OwnerPCs
  PROVE  LockSame
  BY ReturnMoves DEF LockSame, Owns, OwnerPCs

LEMMA ThreadOnLock ==
  ASSUME TypeInv, NEW t \in Threads, ThreadStep(t)
  PROVE  LockStep
<1> USE GoToMoves, MoveKeepsLock, ReturnKeepsLock
    DEF TypeInv, At, OwnerPCs, runVars, LockStep
<1>a. th[t].pc # "idle" => th[t].agent \in Agents
  BY DEF ThreadsOK, ThreadsBusy
<1>1. CASE FireCheck(t)
  BY <1>1 DEF FireCheck
<1>2. CASE FireDrop(t)
  BY <1>2 DEF FireDrop
<1>3. CASE FireGate(t)
  BY <1>3 DEF FireGate
<1>4. CASE TryStartRun(t)
  <2>1. CASE th[t].agent \in running /\ Return(t) /\ UNCHANGED running
    BY <1>4, <2>1 DEF TryStartRun
  <2>2. CASE /\ th[t].agent \notin running
             /\ running' = running \cup {th[t].agent}
             /\ GoTo(t, IF th[t].trig = "manual" THEN "run" ELSE "lookup")
    <3>1. \E p \in {"run", "lookup"} : Moves(t, p)
      BY <2>2
    <3>2. LockTaken(t, th[t].agent)
      BY <1>4, <2>2, <3>1 DEF TryStartRun, LockTaken, Moves, Owns
    <3>3. QED
      BY <1>4, <1>a, <3>2 DEF TryStartRun
  <2>3. QED
    BY <1>4, <2>1, <2>2 DEF TryStartRun
<1>5. CASE Lookup(t)
  BY <1>5 DEF Lookup
<1>6. CASE RunCompletes(t)
  <2>1. \E p \in {"mark", "deliver"} : Moves(t, p)
    BY <1>6, OutcomeMoves DEF RunCompletes
  <2>2. QED
    BY <1>6, <2>1 DEF RunCompletes
<1>7. ASSUME NEW o \in {"error", "incomplete"}, RunFails(t, o) PROVE LockStep
  <2> DEFINE p == IF fails'[th[t].agent] >= FailLimit /\ Counted(t) THEN "qdereg"
                  ELSE IF o = "error" THEN "finish" ELSE "deliver"
  <2>1. p \in OwnerPCs
    BY Zenon
  <2>2. th' = [th EXCEPT ![t].pc = p, ![t].res = o] /\ running' = running
    BY <1>7 DEF RunFails
  <2> HIDE DEF p
  <2>3. QED
    BY ZenonT(60), <1>7, <2>1, <2>2, OutcomeMoves DEF RunFails
<1>8. CASE QuarantineDeregister(t)
  BY <1>8 DEF QuarantineDeregister
<1>9. CASE QuarantineDisable(t)
  BY <1>9 DEF QuarantineDisable
<1>10. CASE QuarantineClear(t)
  BY <1>10 DEF QuarantineClear
<1>11. CASE MarkCompleted(t)
  BY <1>11 DEF MarkCompleted
<1>12. CASE Deliver(t)
  BY <1>12 DEF Deliver
<1>13. CASE FinishRun(t)
  <2>1. LockGiven(t, th[t].agent)
    BY <1>13, ReturnMoves DEF FinishRun, LockGiven, Owns
  <2>2. QED
    BY <1>13, <1>a, <2>1 DEF FinishRun
<1>14. CASE OneShotForget(t)
  <2>1. th'[t].pc = "idle" /\ \A u \in Threads \ {t} : th'[u] = th[u]
    BY <1>14 DEF OneShotForget, ThreadsOK, IdleThread
  <2>2. QED
    BY <1>14, <2>1 DEF OneShotForget, LockSame, Owns
<1>15. QED
  BY <1>1, <1>2, <1>3, <1>4, <1>5, <1>6, <1>7, <1>8, <1>9, <1>10, <1>11,
     <1>12, <1>13, <1>14 DEF ThreadStep

\* Whoever is not executing fireAt leaves program counters and agents alone.
LEMMA WithLoaderKeepsThreads ==
  ASSUME NEW m, th' = WithLoader(m), ThreadsOK
  PROVE  \A t \in Threads : th'[t].pc = th[t].pc /\ th'[t].agent = th[t].agent
  BY DEF WithLoader, ThreadsOK, ThreadRecord

LEMMA StartKeepsLock ==
  ASSUME TypeInv, NEW t \in Threads, StartThread(t)
  PROVE  LockSame
<1>1. /\ running' = running
      /\ th[t].pc = "idle"
      /\ th'[t].pc \in {"check", "lock"}
      /\ \A u \in Threads \ {t} : th'[u] = th[u]
  BY DEF StartThread, CronTick, TimerDue, CatchUp, ManualTrigger, Spawn, TypeInv,
         ThreadsOK, runVars
<1>2. QED
  BY <1>1 DEF LockSame, Owns, OwnerPCs

LEMMA OthersKeepLock ==
  ASSUME TypeInv,
         \/ \E j \in Jobs : TimerCancelled(j)
         \/ \E a \in Agents : BootValidation(a)
         \/ NewRequest
         \/ \E h \in Handlers : HandlerStep(h)
         \/ \E w \in Writers : RegisterStep(w)
         \/ \E r \in Reloaders : ReloadStep(r)
         \/ \E a \in EditedFiles, d \in Choices \cup {None} : EditFile(a, d)
         \/ UNCHANGED vars
  PROVE  LockSame
<1>1. running' = running
  BY DEF TimerCancelled, BootValidation, NewRequest, Request, HandlerStep, Upsert,
         UpsertFails, Store, StoreUnsynced, StoreDefinition, HandlerDeregister, Remove,
         RemoveNothing, RemoveFails, RegisterStep, RegisterSkip, RegisterFails,
         AddCron, SwapCron, AddOneShot, ReloadStep, ReloadBegin, ReloadLoad,
         ReloadDiff, ReloadDrop, ReloadRegister, ReloadEnd, EditFile, runVars, vars
<1>2. th' = th \/ \E m : th' = WithLoader(m)
  BY DEF TimerCancelled, BootValidation, NewRequest, Request, HandlerStep, Upsert,
         UpsertFails, Store, StoreUnsynced, StoreDefinition, HandlerDeregister, Remove,
         RemoveNothing, RemoveFails, RegisterStep, RegisterSkip, RegisterFails,
         AddCron, SwapCron, AddOneShot, ReloadStep, ReloadBegin, ReloadLoad,
         ReloadDiff, ReloadDrop, ReloadRegister, ReloadEnd, EditFile, vars
<1>3. \A t \in Threads : th'[t].pc = th[t].pc /\ th'[t].agent = th[t].agent
  BY <1>2, WithLoaderKeepsThreads DEF TypeInv
<1>4. QED
  BY <1>1, <1>3 DEF LockSame, Owns

LEMMA NextOnLock == TypeInv /\ [Next]_vars => LockStep
<1> SUFFICES ASSUME TypeInv, [Next]_vars PROVE LockStep
  OBVIOUS
<1>1. ASSUME NEW t \in Threads, StartThread(t) PROVE LockStep
  BY <1>1, StartKeepsLock DEF LockStep
<1>2. ASSUME NEW t \in Threads, ThreadStep(t) PROVE LockStep
  BY <1>2, ThreadOnLock
<1>3. CASE Restart
  <2>1. LockGone
    BY <1>3 DEF Restart, LockGone, Owns, OwnerPCs, IdleThread
  <2>2. QED
    BY <2>1 DEF LockStep
<1>4. QED
  BY <1>1, <1>2, <1>3, OthersKeepLock DEF Next, LockStep

-----------------------------------------------------------------------------
(* Mutual exclusion.  The two invariants are inductive only together: a run   *)
(* that starts is the only one because the map knows every run in progress,   *)
(* and the map stays right because a run that ends is the only one.           *)

LockInv == MutualExclusion /\ LockMatchesOwner

LEMMA InitLocked == Init => LockInv
  BY DEF Init, LockInv, MutualExclusion, LockMatchesOwner, Owns, OwnerPCs, IdleThread

LEMMA StepLocked == LockInv /\ LockStep => LockInv'
<1> SUFFICES ASSUME LockInv, LockStep PROVE LockInv'
  OBVIOUS
<1> USE DEF LockInv, MutualExclusion, LockMatchesOwner
<1>1. CASE LockSame
  BY <1>1 DEF LockSame
<1>2. CASE LockGone
  BY <1>2 DEF LockGone
<1>3. ASSUME NEW t \in Threads, NEW a \in Agents, LockTaken(t, a) PROVE LockInv'
  BY <1>3 DEF LockTaken
<1>4. ASSUME NEW t \in Threads, NEW a \in Agents, LockGiven(t, a) PROVE LockInv'
  BY <1>4 DEF LockGiven
<1>5. QED
  BY <1>1, <1>2, <1>3, <1>4 DEF LockStep

LEMMA AlwaysLocked == Spec => [](TypeInv /\ LockInv)
<1>1. Init => TypeInv /\ LockInv
  BY InitTyped, InitLocked
<1>2. TypeInv /\ LockInv /\ [Next]_vars => TypeInv' /\ LockInv'
  BY NextTyped, NextOnLock, StepLocked
<1>3. QED
  BY <1>1, <1>2, PTL DEF Spec

\* No agent ever has two runs in progress, whatever ticks, timers, catch-ups,
\* requests, reloads and restarts do (TryStartRun, FinishRun).
THEOREM RunsExcludeEachOther == Spec => []MutualExclusion
  BY AlwaysLocked, PTL DEF LockInv

\* The run lock is held exactly by the runs in progress: none is leaked by an
\* early return of fireAt, none is released by a goroutine that never took it.
THEOREM LockIsNeverLeaked == Spec => []LockMatchesOwner
  BY AlwaysLocked, PTL DEF LockInv

-----------------------------------------------------------------------------
(* Refinement of the abstract lock.                                          *)

LEMMA OwnerIsUnique ==
  ASSUME MutualExclusion, NEW a \in Agents
  PROVE  /\ \A t \in Threads : Owns(t, a) => OwnerOf(a) = t
         /\ (\A t \in Threads : ~Owns(t, a)) => OwnerOf(a) = None
  BY DEF MutualExclusion, OwnerOf

LEMMA OwnerIsUniqueNext ==
  ASSUME MutualExclusion', NEW a \in Agents
  PROVE  /\ \A t \in Threads : Owns(t, a)' => OwnerOf(a)' = t
         /\ (\A t \in Threads : ~Owns(t, a)') => OwnerOf(a)' = None
  BY DEF MutualExclusion, OwnerOf

LEMMA InitRefines == Init => Lock!LockInit
<1> SUFFICES ASSUME Init PROVE Lock!LockInit
  OBVIOUS
<1>1. \A t \in Threads, a \in Agents : ~Owns(t, a)
  BY DEF Init, Owns, OwnerPCs, IdleThread
<1>2. MutualExclusion
  BY <1>1 DEF MutualExclusion
<1>3. QED
  BY <1>1, <1>2, OwnerIsUnique DEF Lock!LockInit

LEMMA StepRefines ==
  ASSUME LockInv, LockInv', LockStep
  PROVE  \/ Lock!LockNext
         \/ UNCHANGED [a \in Agents |-> OwnerOf(a)]
<1> USE OwnerIsUnique, OwnerIsUniqueNext DEF LockInv
<1>1. CASE LockSame
  <2>1. \A a \in Agents : OwnerOf(a)' = OwnerOf(a)
    BY <1>1 DEF LockSame
  <2>2. QED
    BY <2>1
<1>2. CASE LockGone
  <2>1. \A a \in Agents : OwnerOf(a)' = None
    BY <1>2 DEF LockGone
  <2>2. QED
    BY <2>1 DEF Lock!LockNext, Lock!Die
<1>3. ASSUME NEW t \in Threads, NEW a \in Agents, LockTaken(t, a)
      PROVE  Lock!LockNext
  <2>1. OwnerOf(a) = None /\ OwnerOf(a)' = t
    BY <1>3 DEF LockTaken, LockMatchesOwner
  <2>2. \A b \in Agents \ {a} : OwnerOf(b)' = OwnerOf(b)
    BY <1>3 DEF LockTaken
  <2>3. Lock!Acquire(t, a)
    BY <2>1, <2>2 DEF Lock!Acquire
  <2>4. QED
    BY <2>3 DEF Lock!LockNext
<1>4. ASSUME NEW t \in Threads, NEW a \in Agents, LockGiven(t, a)
      PROVE  Lock!LockNext
  <2>1. OwnerOf(a) = t /\ OwnerOf(a)' = None
    BY <1>4 DEF LockGiven, MutualExclusion
  <2>2. \A b \in Agents \ {a} : OwnerOf(b)' = OwnerOf(b)
    BY <1>4 DEF LockGiven
  <2>3. Lock!Release(t, a)
    BY <2>1, <2>2 DEF Lock!Release
  <2>4. QED
    BY <2>3 DEF Lock!LockNext
<1>5. QED
  BY <1>1, <1>2, <1>3, <1>4 DEF LockStep

\* The runs of an agent implement the abstract lock: TryStartRun acquires it,
\* FinishRun releases it, a crash ends every run, and no other step of the
\* scheduler, the handlers or the watcher changes an owner.
THEOREM RunLockImplemented == Spec => ImplementsRunLock
<1>1. Init => Lock!LockInit
  BY InitRefines
<1>2. /\ TypeInv /\ LockInv /\ TypeInv' /\ LockInv' /\ [Next]_vars
      => [Lock!LockNext]_([a \in Agents |-> OwnerOf(a)])
  BY NextOnLock, StepRefines
<1>3. QED
  BY <1>1, <1>2, AlwaysLocked, PTL DEF Spec, ImplementsRunLock, Lock!LockSpec

-----------------------------------------------------------------------------
(* The failure counter.                                                      *)

\* Where the counter can change: a run that fails, a run that completes, the
\* end of a quarantine, and a restart.
LEMMA OnlyRunsCount ==
  ASSUME [Next]_vars
  PROVE  \/ fails' = fails
         \/ Restart
         \/ \E t \in Threads : \/ RunCompletes(t)
                               \/ QuarantineClear(t)
                               \/ \E o \in {"error", "incomplete"} : RunFails(t, o)
  BY ZenonT(60) DEF Next, StartThread, CronTick, TimerDue, CatchUp, ManualTrigger, ThreadStep,
         FireCheck, FireDrop, FireGate, TryStartRun, Lookup, QuarantineDeregister,
         QuarantineDisable, MarkCompleted, Deliver, FinishRun, OneShotForget,
         TimerCancelled, BootValidation, NewRequest, Request, HandlerStep, Upsert,
         UpsertFails, Store, StoreUnsynced, StoreDefinition, HandlerDeregister, Remove,
         RemoveNothing, RemoveFails, RegisterStep, RegisterSkip, RegisterFails,
         AddCron, SwapCron, AddOneShot, ReloadStep, ReloadBegin, ReloadLoad,
         ReloadDiff, ReloadDrop, ReloadRegister, ReloadEnd, EditFile, runVars, vars

LEMMA CountedByOwner ==
  ASSUME TypeInv, [Next]_vars, NEW a \in Agents, fails'[a] > fails[a]
  PROVE  \E t \in Threads : Owns(t, a) /\ th[t].trig \in {"cron", "missed"}
<1> USE DEF TypeInv, RunsOK
<1>1. fails' # fails
  OBVIOUS
<1>2. CASE Restart
  BY <1>2 DEF Restart
<1>3. ASSUME NEW t \in Threads, RunCompletes(t) PROVE FALSE
  BY <1>3 DEF RunCompletes
<1>4. ASSUME NEW t \in Threads, QuarantineClear(t) PROVE FALSE
  BY <1>4 DEF QuarantineClear
<1>5. ASSUME NEW t \in Threads, NEW o \in {"error", "incomplete"}, RunFails(t, o)
      PROVE  Owns(t, a) /\ th[t].trig \in {"cron", "missed"}
  <2>1. Counted(t) /\ th[t].agent = a /\ th[t].pc = "run"
    BY <1>5 DEF RunFails, At
  <2>2. QED
    BY <2>1 DEF Counted, Owns, OwnerPCs
<1>6. QED
  BY <1>1, <1>2, <1>3, <1>4, <1>5, OnlyRunsCount

\* Only the scheduled run that owns the lock of an agent raises its counter, so
\* consecutive failures are counted one after the other (recordFireResult).
THEOREM FailuresAreSerial == Spec => FailuresCountedUnderLock
<1>1. TypeInv /\ [Next]_vars =>
        [\A a \in Agents : fails'[a] > fails[a] =>
           \E t \in Threads : Owns(t, a) /\ th[t].trig \in {"cron", "missed"}]_vars
  BY CountedByOwner
<1>2. QED
  BY <1>1, AlwaysTyped, PTL DEF Spec, FailuresCountedUnderLock

-----------------------------------------------------------------------------
(* The quarantine.  A counter can stand at the limit only while a goroutine   *)
(* is between the increment and the deletion of recordFireResult; it owns the *)
(* run lock all that time, so no other run of the agent can count.            *)

Quarantining(t, a) ==
    th[t].agent = a /\ th[t].pc \in {"qdereg", "qdisable", "qclear"}

\* Goroutines outside recordFireResult keep every quarantine in progress.
QuarantinesGoOn ==
    \A t \in Threads, a \in Agents : Quarantining(t, a) => Quarantining(t, a)'

LEMMA StillQuarantined ==
  ASSUME QuarantineInProgress, UNCHANGED fails, QuarantinesGoOn
  PROVE  QuarantineInProgress'
  BY DEF QuarantineInProgress, QuarantinesGoOn, Quarantining

LEMMA MoveKeepsQuarantines ==
  ASSUME NEW t \in Threads, NEW p, Moves(t, p),
         th[t].pc \notin {"qdereg", "qdisable", "qclear"}
           \/ p \in {"qdereg", "qdisable", "qclear"}
  PROVE  QuarantinesGoOn
  BY DEF Moves, QuarantinesGoOn, Quarantining

LEMMA ReturnKeepsQuarantines ==
  ASSUME ThreadsOK, NEW t \in Threads, Return(t),
         th[t].pc \notin {"qdereg", "qdisable", "qclear"}
  PROVE  QuarantinesGoOn
  BY ReturnMoves DEF QuarantinesGoOn, Quarantining

\* The only run of an agent is not yet at the limit when it ends.
LEMMA BelowLimitInRun ==
  ASSUME TypeInv, LockInv, QuarantineInProgress, NEW t \in Threads, th[t].pc = "run"
  PROVE  fails[th[t].agent] < FailLimit
<1>1. th[t].agent \in Agents /\ Owns(t, th[t].agent)
  BY DEF TypeInv, ThreadsOK, ThreadsBusy, Owns, OwnerPCs
<1>2. ~ \E u \in Threads : Quarantining(u, th[t].agent)
  BY <1>1 DEF LockInv, MutualExclusion, Quarantining, Owns, OwnerPCs
<1>3. /\ fails[th[t].agent] \in Nat /\ fails[th[t].agent] <= FailLimit
      /\ fails[th[t].agent] # FailLimit
  BY <1>1, <1>2 DEF QuarantineInProgress, Quarantining, TypeInv, RunsOK
<1>4. QED
  BY <1>3, FailLimitAssumption

LEMMA FireQuarantines ==
  ASSUME TypeInv, LockInv, QuarantineInProgress, NEW t \in Threads, ThreadStep(t)
  PROVE  QuarantineInProgress'
<1> USE GoToMoves, MoveKeepsQuarantines, ReturnKeepsQuarantines, StillQuarantined,
        FailLimitAssumption
    DEF TypeInv, At, runVars
<1>a. th[t].pc # "idle" => th[t].agent \in Agents
  BY DEF ThreadsOK, ThreadsBusy
<1>1. CASE FireCheck(t)
  BY <1>1 DEF FireCheck
<1>2. CASE FireDrop(t)
  BY <1>2 DEF FireDrop
<1>3. CASE FireGate(t)
  BY <1>3 DEF FireGate
<1>4. CASE TryStartRun(t)
  BY <1>4 DEF TryStartRun
<1>5. CASE Lookup(t)
  BY <1>5 DEF Lookup
<1>6. CASE RunCompletes(t)
  <2>1. \E p : Moves(t, p)
    BY <1>6, OutcomeMoves DEF RunCompletes
  <2>2. QuarantinesGoOn
    BY <1>6, <2>1 DEF RunCompletes
  <2>3. \A a \in Agents : fails'[a] = fails[a] \/ fails'[a] = 0
    BY <1>6 DEF RunCompletes, RunsOK
  <2>4. QED
    BY <2>2, <2>3 DEF QuarantineInProgress, QuarantinesGoOn, Quarantining
<1>7. ASSUME NEW o \in {"error", "incomplete"}, RunFails(t, o)
      PROVE  QuarantineInProgress'
  <2> DEFINE p == IF fails'[th[t].agent] >= FailLimit /\ Counted(t) THEN "qdereg"
                  ELSE IF o = "error" THEN "finish" ELSE "deliver"
  <2>1. th[t].pc = "run" /\ th' = [th EXCEPT ![t].pc = p, ![t].res = o]
    BY <1>7 DEF RunFails
  <2>2. Moves(t, p)
    BY <2>1, OutcomeMoves
  <2>3. QuarantinesGoOn
    BY <2>1, <2>2
  <2>4. CASE ~Counted(t)
    BY <1>7, <2>3, <2>4 DEF RunFails
  <2>5. CASE Counted(t)
    <3>1. /\ fails' = [fails EXCEPT ![th[t].agent] = @ + 1]
          /\ fails[th[t].agent] \in Nat /\ fails[th[t].agent] < FailLimit
      BY <1>7, <1>a, <2>1, <2>5, BelowLimitInRun DEF RunFails, RunsOK
    <3>2. fails'[th[t].agent] = fails[th[t].agent] + 1 /\ fails'[th[t].agent] <= FailLimit
      BY <1>a, <2>1, <3>1 DEF RunsOK
    <3>3. ASSUME fails'[th[t].agent] = FailLimit
          PROVE  th'[t].agent = th[t].agent /\ th'[t].pc = "qdereg"
      <4>1. p = "qdereg"
        BY <1>7, <2>5, <3>3, FailLimitAssumption DEF RunFails
      <4> HIDE DEF p
      <4>2. QED
        BY <2>2, <4>1 DEF Moves
    <3>4. \A a \in Agents \ {th[t].agent} : fails'[a] = fails[a]
      BY <3>1 DEF RunsOK
    <3> HIDE DEF p
    <3>5. ASSUME NEW a \in Agents
          PROVE  /\ fails'[a] <= FailLimit
                 /\ fails'[a] = FailLimit => \E u \in Threads : Quarantining(u, a)'
      <4>1. CASE a = th[t].agent
        BY <3>2, <3>3, <4>1 DEF Quarantining
      <4>2. CASE a # th[t].agent
        BY <2>3, <3>4, <4>2 DEF QuarantineInProgress, QuarantinesGoOn, Quarantining
      <4>3. QED
        BY <4>1, <4>2
    <3>6. QED
      BY <3>5 DEF QuarantineInProgress, Quarantining
  <2>6. QED
    BY <2>4, <2>5
<1>8. CASE QuarantineDeregister(t)
  BY <1>8 DEF QuarantineDeregister
<1>9. CASE QuarantineDisable(t)
  BY <1>9 DEF QuarantineDisable
<1>10. CASE QuarantineClear(t)
  <2>1. \E p : Moves(t, p)
    BY <1>10 DEF QuarantineClear
  <2>2. fails'[th[t].agent] = 0 /\ \A a \in Agents \ {th[t].agent} : fails'[a] = fails[a]
    BY <1>10, <1>a DEF QuarantineClear, RunsOK
  <2>3. QED
    BY <2>1, <2>2 DEF QuarantineInProgress, Moves
<1>11. CASE MarkCompleted(t)
  BY <1>11 DEF MarkCompleted
<1>12. CASE Deliver(t)
  BY <1>12 DEF Deliver
<1>13. CASE FinishRun(t)
  BY <1>13 DEF FinishRun
<1>14. CASE OneShotForget(t)
  <2>1. QuarantinesGoOn
    BY <1>14 DEF OneShotForget, ThreadsOK, IdleThread, QuarantinesGoOn, Quarantining
  <2>2. QED
    BY <1>14, <2>1 DEF OneShotForget
<1>15. QED
  BY <1>1, <1>2, <1>3, <1>4, <1>5, <1>6, <1>7, <1>8, <1>9, <1>10, <1>11,
     <1>12, <1>13, <1>14 DEF ThreadStep

LEMMA OthersQuarantine ==
  ASSUME TypeInv, QuarantineInProgress, [Next]_vars,
         ~ \E t \in Threads : ThreadStep(t)
  PROVE  QuarantineInProgress'
<1>1. CASE Restart
  BY <1>1, FailLimitAssumption DEF Restart, QuarantineInProgress
<1>2. CASE ~Restart
  <2>1. fails' = fails
    BY <1>2, OnlyRunsCount DEF ThreadStep
  <2>2. ASSUME NEW t \in Threads, StartThread(t) PROVE QuarantinesGoOn
    <3>1. th[t].pc = "idle" /\ \A u \in Threads \ {t} : th'[u] = th[u]
      BY <2>2 DEF StartThread, CronTick, TimerDue, CatchUp, ManualTrigger, Spawn,
                  TypeInv, ThreadsOK
    <3>2. QED
      BY <3>1 DEF QuarantinesGoOn, Quarantining
  <2>3. th' = th \/ (\E m : th' = WithLoader(m)) \/ \E t \in Threads : StartThread(t)
    BY <1>2
    DEF Next, TimerCancelled, BootValidation, NewRequest, Request, HandlerStep, Upsert,
        UpsertFails, Store, StoreUnsynced, StoreDefinition, HandlerDeregister, Remove,
        RemoveNothing, RemoveFails, RegisterStep, RegisterSkip, RegisterFails,
        AddCron, SwapCron, AddOneShot, ReloadStep, ReloadBegin, ReloadLoad,
        ReloadDiff, ReloadDrop, ReloadRegister, ReloadEnd, EditFile, vars
  <2>4. QuarantinesGoOn
    BY <2>2, <2>3, WithLoaderKeepsThreads DEF QuarantinesGoOn, Quarantining, TypeInv
  <2>5. QED
    BY <2>1, <2>4, StillQuarantined
<1>3. QED
  BY <1>1, <1>2

\* A counter never passes the limit, and one that reaches it is on its way back
\* to zero with the agent switched off: no failure is counted twice and no
\* agent is left at the limit (recordFireResult).
THEOREM QuarantineCompletes == Spec => []QuarantineInProgress
<1>1. Init => QuarantineInProgress
  BY FailLimitAssumption DEF Init, QuarantineInProgress
<1>2. /\ TypeInv /\ LockInv /\ QuarantineInProgress /\ [Next]_vars
      => QuarantineInProgress'
  BY FireQuarantines, OthersQuarantine
<1>3. QED
  BY <1>1, <1>2, AlwaysLocked, PTL DEF Spec

-----------------------------------------------------------------------------
(* Disabled means disabled at fire time.  The flag bornOff of a goroutine is  *)
(* on only while its agent is off, and a goroutine whose flag is on has not    *)
(* come past the check.                                                        *)

BornOff == \A t \in Threads :
    th[t].bornOff => th[t].pc \in {"check", "drop"} /\ Off(mem[th[t].agent])

\* Switching an agent off leaves every agent that is off as it is.
OffStaysOff == \A a \in Agents : Off(mem[a]) => Off(mem'[a])

LEMMA SwitchOffStaysOff ==
  ASSUME LoaderOK, NEW a \in Agents, SetEnabledInMemory(a, FALSE)
  PROVE  OffStaysOff
  BY NoneAssumption DEF LoaderOK, SetEnabledInMemory, OffStaysOff, Off, Definitions

\* Only goroutine t moves, and it takes its flag along or drops it.
FlagKept(t) ==
    /\ th'[t].bornOff => th[t].bornOff /\ th'[t].agent = th[t].agent
    /\ \A u \in Threads \ {t} : th'[u] = th[u]

LEMMA GoToKeepsFlag ==
  ASSUME ThreadsOK, NEW t \in Threads, NEW p, GoTo(t, p)
  PROVE  FlagKept(t) /\ th'[t].pc = p
  BY DEF ThreadsOK, GoTo, FlagKept, ThreadRecord

LEMMA ReturnKeepsFlag ==
  ASSUME ThreadsOK, NEW t \in Threads, Return(t)
  PROVE  FlagKept(t) /\ ~th'[t].bornOff
  BY DEF ThreadsOK, Return, IdleThread, FlagKept, ThreadRecord

\* A goroutine past the check has no flag to lose.
LEMMA PastTheCheck ==
  ASSUME TypeInv, BornOff, NEW t \in Threads, th[t].pc \notin {"check", "drop"},
         FlagKept(t), OffStaysOff
  PROVE  BornOff'
<1>1. ~th'[t].bornOff
  BY DEF FlagKept, BornOff
<1>2. ASSUME NEW u \in Threads \ {t}, th'[u].bornOff
      PROVE  th'[u].pc \in {"check", "drop"} /\ Off(mem'[th'[u].agent])
  <2>1. th'[u] = th[u] /\ th[u].pc \in {"check", "drop"} /\ Off(mem[th[u].agent])
    BY <1>2 DEF FlagKept, BornOff
  <2>2. th[u].agent \in Agents
    BY <2>1 DEF TypeInv, ThreadsOK, ThreadsBusy
  <2>3. QED
    BY <2>1, <2>2 DEF OffStaysOff
<1>3. QED
  BY <1>1, <1>2 DEF BornOff

LEMMA FireHeedsOff ==
  ASSUME TypeInv, BornOff, NEW t \in Threads, ThreadStep(t)
  PROVE  BornOff'
<1> USE GoToKeepsFlag, ReturnKeepsFlag, PastTheCheck DEF TypeInv, At
<1>1. mem' = mem => OffStaysOff
  BY DEF OffStaysOff
<1>2. CASE FireCheck(t)
  BY <1>2 DEF FireCheck, BornOff, FlagKept, loaderVars
<1>3. CASE FireDrop(t)
  BY <1>3 DEF FireDrop, BornOff, FlagKept, loaderVars
<1>4. CASE FireGate(t)
  BY <1>1, <1>4 DEF FireGate, loaderVars
<1>5. CASE TryStartRun(t)
  BY <1>1, <1>5 DEF TryStartRun, loaderVars
<1>6. CASE Lookup(t)
  BY <1>1, <1>6 DEF Lookup, loaderVars
<1>7. CASE RunCompletes(t) \/ \E o \in {"error", "incomplete"} : RunFails(t, o)
  <2>1. th[t].pc = "run" /\ mem' = mem
    BY <1>7 DEF RunCompletes, RunFails, loaderVars
  <2>2. \E p, r : th' = [th EXCEPT ![t].pc = p, ![t].res = r]
    BY <1>7 DEF RunCompletes, RunFails
  <2>3. FlagKept(t)
    BY <2>2 DEF FlagKept, ThreadsOK, ThreadRecord
  <2>4. QED
    BY <1>1, <2>1, <2>3
<1>8. CASE QuarantineDeregister(t)
  BY <1>1, <1>8 DEF QuarantineDeregister, loaderVars
<1>9. CASE QuarantineDisable(t)
  <2>1. OffStaysOff
    BY <1>9, SwitchOffStaysOff DEF QuarantineDisable, ThreadsOK, ThreadsBusy
  <2>2. QED
    BY <1>9, <2>1 DEF QuarantineDisable
<1>10. CASE QuarantineClear(t)
  BY <1>1, <1>10 DEF QuarantineClear, loaderVars
<1>11. CASE MarkCompleted(t)
  BY <1>1, <1>11 DEF MarkCompleted, loaderVars
<1>12. CASE Deliver(t)
  BY <1>1, <1>12 DEF Deliver, loaderVars
<1>13. CASE FinishRun(t)
  BY <1>1, <1>13 DEF FinishRun, loaderVars
<1>14. CASE OneShotForget(t)
  BY <1>1, <1>14 DEF OneShotForget, loaderVars, FlagKept, ThreadsOK, IdleThread
<1>15. QED
  BY <1>2, <1>3, <1>4, <1>5, <1>6, <1>7, <1>8, <1>9, <1>10, <1>11, <1>12,
     <1>13, <1>14 DEF ThreadStep

LEMMA StartHeedsOff ==
  ASSUME TypeInv, BornOff, NEW t \in Threads, StartThread(t)
  PROVE  BornOff'
<1>1. mem' = mem
  BY DEF StartThread, CronTick, TimerDue, CatchUp, ManualTrigger, loaderVars
<1>2. \A u \in Threads \ {t} : th'[u] = th[u]
  BY DEF StartThread, CronTick, TimerDue, CatchUp, ManualTrigger, Spawn, TypeInv,
         ThreadsOK
<1>3. th'[t].bornOff => th'[t].pc = "check" /\ Off(mem[th'[t].agent])
  BY DEF StartThread, CronTick, TimerDue, CatchUp, ManualTrigger, Spawn, TypeInv,
         ThreadsOK
<1>4. QED
  BY <1>1, <1>2, <1>3 DEF BornOff

\* The other steps put a new map in place, switch one agent off, or touch
\* neither the map nor the goroutines.
LEMMA OthersHeedOff ==
  ASSUME TypeInv, BornOff, [Next]_vars,
         ~ \E t \in Threads : StartThread(t) \/ ThreadStep(t)
  PROVE  BornOff'
<1>1. CASE Restart
  BY <1>1 DEF Restart, BornOff, IdleThread
<1>2. CASE th' = WithLoader(mem')
  <2> DEFINE stillOff(t) == th[t].bornOff /\ th[t].agent # None /\ Off(mem'[th[t].agent])
  <2>1. ASSUME NEW t \in Threads, th'[t].bornOff
        PROVE  th'[t].pc \in {"check", "drop"} /\ Off(mem'[th'[t].agent])
    <3>1. th'[t] = [th[t] EXCEPT !.bornOff = stillOff(t)]
      BY <1>2, Zenon DEF WithLoader
    <3> HIDE DEF stillOff
    <3>2. stillOff(t) /\ th'[t].pc = th[t].pc /\ th'[t].agent = th[t].agent
      BY <2>1, <3>1 DEF TypeInv, ThreadsOK, ThreadRecord
    <3>3. QED
      BY <3>2 DEF stillOff, BornOff
  <2>2. QED
    BY <2>1 DEF BornOff
<1>3. CASE th' = th /\ OffStaysOff
  BY <1>3 DEF BornOff, OffStaysOff, TypeInv, ThreadsOK, ThreadsBusy
<1>4. ASSUME NEW a \in Agents, BootValidation(a) PROVE th' = th /\ OffStaysOff
  BY <1>4, SwitchOffStaysOff DEF BootValidation, TypeInv
<1>5. \/ Restart
      \/ th' = WithLoader(mem')
      \/ th' = th /\ mem' = mem
      \/ \E a \in Agents : BootValidation(a)
  BY ZenonT(60) DEF Next, TimerCancelled, NewRequest, Request, HandlerStep, Upsert,
         UpsertFails, Store, StoreUnsynced, StoreDefinition, HandlerDeregister, Remove,
         RemoveNothing, RemoveFails, RegisterStep, RegisterSkip, RegisterFails,
         AddCron, SwapCron, AddOneShot, ReloadStep, ReloadBegin, ReloadLoad,
         ReloadDiff, ReloadDrop, ReloadRegister, ReloadEnd, EditFile, loaderVars, vars
<1>6. mem' = mem => OffStaysOff
  BY DEF OffStaysOff
<1>7. QED
  BY <1>1, <1>2, <1>3, <1>4, <1>5, <1>6

\* "Disabled has to mean disabled at fire time": a scheduled goroutine whose
\* agent was off when it began, and has been off since, never comes past the
\* check of fireAt, whatever entry, timer or catch-up started it.
THEOREM OffMeansOff == Spec => []DisabledNeverRuns
<1>1. Init => BornOff
  BY DEF Init, BornOff, IdleThread
<1>2. TypeInv /\ BornOff /\ [Next]_vars => BornOff'
  BY FireHeedsOff, StartHeedsOff, OthersHeedOff
<1>3. BornOff => DisabledNeverRuns
  BY DEF BornOff, DisabledNeverRuns
<1>4. QED
  BY <1>1, <1>2, <1>3, AlwaysTyped, PTL DEF Spec

-----------------------------------------------------------------------------
(* The tables.  What the scheduler lists and what is live agree: each entry   *)
(* has one owner, an entry about to replace another is known to its writer    *)
(* alone, a cancelled timer is nobody's, and a one-shot that is listed waits  *)
(* or fires.                                                                  *)

WritersBusy ==
    \A w \in Writers : wr[w].pc \in {"upsert", "store", "dereg", "remove", "add", "swap"} =>
        wr[w].agent \in Agents

HandlesOwn ==
    \A a \in Agents : handle[a] # None =>
        /\ jobs[handle[a]] = a \/ (~IsCron(a) /\ jobs[handle[a]] = None)
        /\ \A b \in Agents : handle[b] = handle[a] => b = a

Swapping(w, j) == wr[w].pc = "swap" /\ wr[w].job = j

SwapsOwn ==
    \A w \in Writers : \A j : Swapping(w, j) =>
        /\ j \in Jobs /\ IsCron(wr[w].agent) /\ jobs[j] = wr[w].agent
        /\ wr[w].agent \in Agents
        /\ \A a \in Agents : handle[a] # j
        /\ \A v \in Writers : Swapping(v, j) => v = w

CancelledWait ==
    \A j \in cancelled :
        jobs[j] # None /\ ~IsCron(jobs[j]) /\ \A a \in Agents : handle[a] # j

Firing(t, a) == th[t].agent = a /\ th[t].trig = "oneshot" /\ th[t].pc # "idle"

TimersWait ==
    \A a \in Agents : ~IsCron(a) /\ handle[a] # None =>
        jobs[handle[a]] = a \/ \E t \in Threads : Firing(t, a)

\* Only the goroutine of a one-shot forgets an entry.
ForgetsTimers ==
    \A t \in Threads :
        /\ th[t].pc = "forget" => th[t].trig = "oneshot"
        /\ th[t].trig = "oneshot" /\ th[t].pc # "idle" => ~IsCron(th[t].agent)

\* NoOrphanEntry, with the replacement that is under way.
EntriesKnown ==
    \A j \in Jobs : jobs[j] # None /\ IsCron(jobs[j]) =>
        handle[jobs[j]] = j \/ \E w \in Writers : Swapping(w, j)

Tables == HandlesOwn /\ SwapsOwn /\ CancelledWait /\ TimersWait /\ EntriesKnown

\* The steps of other goroutines and requests leave these as they are.
SameSwaps ==
    \A w \in Writers :
        /\ \A j : Swapping(w, j)' = Swapping(w, j)
        /\ wr[w].pc = "swap" => wr'[w].agent = wr[w].agent

FiringsLast == \A t \in Threads : \A a : Firing(t, a) => Firing(t, a)'

LEMMA TablesStay ==
  ASSUME Tables, UNCHANGED tableVars, SameSwaps, FiringsLast
  PROVE  Tables'
<1> USE DEF tableVars
<1>1. HandlesOwn'
  BY DEF Tables, HandlesOwn
<1>2. SwapsOwn'
  <2>1. ASSUME NEW w \in Writers, NEW j, Swapping(w, j)
        PROVE  wr'[w].agent = wr[w].agent
    BY <2>1 DEF SameSwaps, Swapping
  <2>2. QED
    BY <2>1 DEF Tables, SwapsOwn, SameSwaps
<1>3. CancelledWait'
  BY DEF Tables, CancelledWait
<1>4. TimersWait'
  BY DEF Tables, TimersWait, FiringsLast
<1>5. EntriesKnown'
  BY DEF Tables, EntriesKnown, SameSwaps
<1>6. QED
  BY <1>1, <1>2, <1>3, <1>4, <1>5 DEF Tables

LEMMA DeregisterKeepsTables ==
  ASSUME TablesOK, Tables, NEW a \in Agents, Deregister(a), SameSwaps, FiringsLast
  PROVE  Tables'
<1> USE NoneAssumption
<1>1. /\ handle'[a] = None /\ \A b \in Agents : b # a => handle'[b] = handle[b]
      /\ \A j \in Jobs : jobs'[j] = IF j = handle[a] /\ IsCron(a) THEN None ELSE jobs[j]
  BY DEF Deregister, TablesOK
<1>2. \A b \in Agents : b # a /\ handle[b] # None =>
         /\ handle[b] \in Jobs /\ handle[b] # handle[a] /\ jobs'[handle[b]] = jobs[handle[b]]
  BY <1>1 DEF Tables, HandlesOwn, TablesOK
<1>3. HandlesOwn'
  BY <1>1, <1>2 DEF Tables, HandlesOwn
<1>4. SwapsOwn'
  <2>1. ASSUME NEW w \in Writers, NEW j, Swapping(w, j)
        PROVE  /\ wr'[w].agent = wr[w].agent /\ j \in Jobs /\ handle[a] # j
               /\ \A b \in Agents : handle'[b] # j
               /\ jobs'[j] = jobs[j]
    BY <1>1, <2>1 DEF SameSwaps, Swapping, Tables, SwapsOwn
  <2>2. QED
    BY <2>1 DEF Tables, SwapsOwn, SameSwaps
<1>5. CancelledWait'
  <2>1. ASSUME NEW j \in cancelled
        PROVE  jobs'[j] # None /\ ~IsCron(jobs'[j]) /\ \A b \in Agents : handle'[b] # j
    <3>1. j \in Jobs /\ \A b \in Agents : handle[b] # j
      BY DEF Tables, CancelledWait, TablesOK
    <3>2. QED
      BY <1>1, <3>1 DEF Tables, CancelledWait
  <2>2. ASSUME NEW j \in Jobs, j = handle[a], ~IsCron(a), jobs[j] = a
        PROVE  jobs'[j] # None /\ ~IsCron(jobs'[j]) /\ \A b \in Agents : handle'[b] # j
    BY <1>1, <1>2, <2>2
  <2>3. QED
    BY <2>1, <2>2 DEF CancelledWait, Deregister
<1>6. TimersWait'
  BY <1>1, <1>2 DEF Tables, TimersWait, FiringsLast
<1>7. EntriesKnown'
  <2>1. ASSUME NEW j \in Jobs, jobs'[j] # None, IsCron(jobs'[j])
        PROVE  handle'[jobs'[j]] = j \/ \E w \in Writers : Swapping(w, j)
    <3>1. jobs'[j] = jobs[j] /\ jobs[j] \in Agents
      BY <1>1, <2>1 DEF TablesOK
    <3>2. jobs[j] = a => handle[a] # j
      BY <1>1, <2>1, <3>1
    <3>3. QED
      BY <1>1, <2>1, <3>1, <3>2 DEF Tables, EntriesKnown
  <2>2. QED
    BY <2>1 DEF EntriesKnown, SameSwaps
<1>8. QED
  BY <1>3, <1>4, <1>5, <1>6, <1>7 DEF Tables

\* A start of the process: every entry is that of the agent that has it.
LEMMA RegisteredTables ==
  ASSUME NEW d, handle' \in Registrations(d), jobs' = JobsOf(handle'), cancelled' = {},
         th' = [t \in Threads |-> IdleThread], wr' = [w \in Writers |-> IdleWriter]
  PROVE  Tables'
<1> USE NoneAssumption
<1>1. /\ handle' \in [Agents -> Jobs \cup {None}]
      /\ \A a, b \in Agents : handle'[a] = handle'[b] /\ handle'[a] # None => a = b
  BY DEF Registrations
<1>2. ASSUME NEW a \in Agents, handle'[a] # None
      PROVE  jobs'[handle'[a]] = a
  <2>1. handle'[a] \in Jobs
    BY <1>1, <1>2
  <2>2. jobs'[handle'[a]] = CHOOSE b \in Agents : handle'[b] = handle'[a]
    BY <2>1 DEF JobsOf
  <2>3. QED
    BY <1>1, <1>2, <2>2
<1>3. ASSUME NEW j \in Jobs, jobs'[j] # None
      PROVE  handle'[jobs'[j]] = j
  BY <1>3 DEF JobsOf
<1>4. \A w \in Writers : \A j : ~Swapping(w, j)'
  BY DEF Swapping, IdleWriter
<1>5. QED
  BY <1>1, <1>2, <1>3, <1>4
     DEF Tables, HandlesOwn, SwapsOwn, CancelledWait, TimersWait, EntriesKnown

-----------------------------------------------------------------------------
(* The steps that move an entry.                                             *)

LEMMA AddCronKeepsTables ==
  ASSUME TypeInv, WritersBusy, Tables, NEW w \in Writers, NEW j \in Jobs, AddCron(w, j)
  PROVE  Tables'
<1> USE NoneAssumption
<1> DEFINE a == wr[w].agent
<1>1. /\ a \in Agents /\ IsCron(a) /\ wr[w].pc = "add"
      /\ jobs[j] = None /\ \A b \in Agents : handle[b] # j
      /\ UNCHANGED <<handle, cancelled, th>>
  BY DEF AddCron, WritersBusy, FreshJob
<1>2. jobs'[j] = a /\ \A i \in Jobs : i # j => jobs'[i] = jobs[i]
  BY DEF AddCron, TypeInv, TablesOK
<1>3. /\ wr'[w].pc = "swap" /\ wr'[w].job = j /\ wr'[w].agent = a
      /\ \A v \in Writers : v # w => wr'[v] = wr[v]
  BY DEF AddCron, TypeInv, WritersOK, WriterRecord
<1>4. \A v \in Writers : \A i :
         Swapping(v, i)' <=> (v = w /\ i = j) \/ (v # w /\ Swapping(v, i))
  BY <1>3 DEF Swapping
<1>5. \A v \in Writers : \A i : Swapping(v, i) => v # w /\ i # j /\ i \in Jobs
  BY <1>1 DEF Swapping, Tables, SwapsOwn
<1>6. HandlesOwn'
  BY <1>1, <1>2 DEF Tables, HandlesOwn, TypeInv, TablesOK
<1>7. SwapsOwn'
  BY <1>1, <1>2, <1>3, <1>4, <1>5 DEF Tables, SwapsOwn
<1>8. CancelledWait'
  BY <1>1, <1>2 DEF Tables, CancelledWait, TypeInv, TablesOK
<1>9. TimersWait'
  BY <1>1, <1>2 DEF Tables, TimersWait, Firing, TypeInv, TablesOK
<1>10. EntriesKnown'
  BY <1>1, <1>2, <1>4, <1>5 DEF Tables, EntriesKnown
<1>11. QED
  BY <1>6, <1>7, <1>8, <1>9, <1>10 DEF Tables

LEMMA SwapCronKeepsTables ==
  ASSUME TypeInv, Tables, NEW w \in Writers, SwapCron(w)
  PROVE  Tables'
<1> USE NoneAssumption
<1> DEFINE a == wr[w].agent
           n == wr[w].job
<1>1. wr[w].pc = "swap" /\ Swapping(w, n) /\ UNCHANGED <<cancelled, th>>
  BY DEF SwapCron, Swapping
<1>2. /\ a \in Agents /\ IsCron(a) /\ n \in Jobs /\ jobs[n] = a
      /\ \A b \in Agents : handle[b] # n
      /\ \A v \in Writers : Swapping(v, n) => v = w
  BY <1>1 DEF Tables, SwapsOwn
<1>3. /\ \A j \in Jobs : jobs'[j] = IF j = handle[a] THEN None ELSE jobs[j]
      /\ handle'[a] = n /\ \A b \in Agents : b # a => handle'[b] = handle[b]
  BY <1>2 DEF SwapCron, TypeInv, TablesOK
<1>4. /\ wr'[w].pc # "swap" /\ \A v \in Writers : v # w => wr'[v] = wr[v]
  BY DEF SwapCron, Done, IdleWriter, TypeInv, WritersOK, WriterRecord
<1>5. \A v \in Writers : \A i : Swapping(v, i)' <=> (v # w /\ Swapping(v, i))
  BY <1>4 DEF Swapping
<1>6. \A b \in Agents : b # a /\ handle[b] # None =>
         /\ handle[b] \in Jobs /\ handle[b] # handle[a] /\ handle[b] # n
         /\ jobs'[handle[b]] = jobs[handle[b]]
  BY <1>2, <1>3 DEF Tables, HandlesOwn, TypeInv, TablesOK
<1>7. jobs'[n] = a
  BY <1>2, <1>3
<1>8. HandlesOwn'
  BY <1>2, <1>3, <1>6, <1>7 DEF Tables, HandlesOwn
<1>9. SwapsOwn'
  <2>1. ASSUME NEW v \in Writers, NEW i, v # w, Swapping(v, i)
        PROVE  /\ wr'[v] = wr[v] /\ i \in Jobs /\ i # n /\ jobs'[i] = jobs[i]
               /\ \A b \in Agents : handle'[b] # i
    <3>1. i \in Jobs /\ i # n /\ \A b \in Agents : handle[b] # i
      BY <1>2, <2>1 DEF Tables, SwapsOwn
    <3>2. QED
      BY <1>2, <1>3, <1>4, <2>1, <3>1
  <2>2. QED
    BY <1>5, <2>1 DEF Tables, SwapsOwn
<1>10. CancelledWait'
  <2>1. ASSUME NEW j \in cancelled
        PROVE  /\ jobs'[j] = jobs[j] /\ \A b \in Agents : handle'[b] # j
    <3>1. j \in Jobs /\ ~IsCron(jobs[j]) /\ \A b \in Agents : handle[b] # j
      BY DEF Tables, CancelledWait, TypeInv, TablesOK
    <3>2. QED
      BY <1>2, <1>3, <3>1
  <2>2. QED
    BY <1>1, <2>1 DEF Tables, CancelledWait
<1>11. TimersWait'
  BY <1>1, <1>2, <1>3, <1>6 DEF Tables, TimersWait, Firing
<1>12. EntriesKnown'
  <2>1. ASSUME NEW j \in Jobs, jobs'[j] # None, IsCron(jobs'[j])
        PROVE  handle'[jobs'[j]] = j \/ \E v \in Writers : Swapping(v, j)'
    <3>1. jobs'[j] = jobs[j] /\ jobs[j] \in Agents /\ j # handle[a]
      BY <1>3, <2>1 DEF TypeInv, TablesOK
    <3>2. CASE j = n
      BY <1>2, <1>3, <3>1, <3>2
    <3>3. CASE j # n
      <4>1. ~Swapping(w, j)
        BY <3>3 DEF Swapping
      <4>2. QED
        BY <1>3, <1>5, <2>1, <3>1, <4>1 DEF Tables, EntriesKnown
    <3>4. QED
      BY <3>2, <3>3
  <2>2. QED
    BY <2>1 DEF EntriesKnown
<1>13. QED
  BY <1>8, <1>9, <1>10, <1>11, <1>12 DEF Tables

LEMMA AddOneShotKeepsTables ==
  ASSUME TypeInv, WritersBusy, Tables, NEW w \in Writers, NEW j \in Jobs, AddOneShot(w, j)
  PROVE  Tables'
<1> USE NoneAssumption
<1> DEFINE a == wr[w].agent
<1>1. /\ a \in Agents /\ ~IsCron(a) /\ wr[w].pc = "add"
      /\ jobs[j] = None /\ \A b \in Agents : handle[b] # j
      /\ UNCHANGED th
  BY DEF AddOneShot, WritersBusy, FreshJob
<1>2. /\ jobs'[j] = a /\ \A i \in Jobs : i # j => jobs'[i] = jobs[i]
      /\ handle'[a] = j /\ \A b \in Agents : b # a => handle'[b] = handle[b]
  BY <1>1 DEF AddOneShot, TypeInv, TablesOK
<1>3. /\ wr'[w].pc # "swap" /\ \A v \in Writers : v # w => wr'[v] = wr[v]
  BY DEF AddOneShot, Done, IdleWriter, TypeInv, WritersOK, WriterRecord
<1>4. \A v \in Writers : \A i : Swapping(v, i)' <=> (v # w /\ Swapping(v, i))
  BY <1>3 DEF Swapping
<1>5. HandlesOwn'
  BY <1>1, <1>2 DEF Tables, HandlesOwn, TypeInv, TablesOK
<1>6. SwapsOwn'
  <2>1. ASSUME NEW v \in Writers, NEW i, v # w, Swapping(v, i)
        PROVE  /\ wr'[v] = wr[v] /\ i \in Jobs /\ jobs'[i] = jobs[i]
               /\ \A b \in Agents : handle'[b] # i
    BY <1>1, <1>2, <1>3, <2>1 DEF Tables, SwapsOwn
  <2>2. QED
    BY <1>4, <2>1 DEF Tables, SwapsOwn
<1>7. CancelledWait'
  <2>1. ASSUME NEW i \in cancelled
        PROVE  jobs'[i] = jobs[i] /\ \A b \in Agents : handle'[b] # i
    BY <1>1, <1>2 DEF Tables, CancelledWait, TypeInv, TablesOK
  <2>2. ASSUME NEW i \in Jobs, i = handle[a], jobs[i] = a
        PROVE  jobs'[i] = a /\ \A b \in Agents : handle'[b] # i
    BY <1>1, <1>2, <2>2 DEF Tables, HandlesOwn
  <2>3. cancelled' = cancelled \cup {i \in Jobs : i = handle[a] /\ jobs[i] = a}
    BY DEF AddOneShot
  <2>4. \A i \in cancelled : jobs[i] # None /\ ~IsCron(jobs[i])
    BY DEF Tables, CancelledWait
  <2>5. QED
    BY <1>1, <2>1, <2>2, <2>3, <2>4 DEF CancelledWait
<1>8. TimersWait'
  BY <1>1, <1>2 DEF Tables, TimersWait, Firing, TypeInv, TablesOK
<1>9. EntriesKnown'
  <2>1. ASSUME NEW i \in Jobs, jobs'[i] # None, IsCron(jobs'[i])
        PROVE  handle'[jobs'[i]] = i \/ \E v \in Writers : Swapping(v, i)'
    <3>1. jobs'[i] = jobs[i] /\ jobs[i] \in Agents /\ jobs[i] # a
      BY <1>1, <1>2, <2>1 DEF TypeInv, TablesOK
    <3>2. ~Swapping(w, i)
      BY <1>1 DEF Swapping
    <3>3. QED
      BY <1>2, <1>4, <2>1, <3>1, <3>2 DEF Tables, EntriesKnown
  <2>2. QED
    BY <2>1 DEF EntriesKnown
<1>10. QED
  BY <1>5, <1>6, <1>7, <1>8, <1>9 DEF Tables

\* A timer leaves the waiting ones, because it fires or because it is cancelled.
LEMMA TimerKeepsTables ==
  ASSUME TypeInv, Tables, NEW i \in Jobs, jobs[i] # None, ~IsCron(jobs[i]),
         jobs' = [jobs EXCEPT ![i] = None], cancelled' = cancelled \ {i},
         UNCHANGED <<handle, wr>>, FiringsLast,
         \A a \in Agents : handle[a] = i => \E t \in Threads : Firing(t, a)'
  PROVE  Tables'
<1> USE NoneAssumption
<1>1. jobs'[i] = None /\ \A j \in Jobs : j # i => jobs'[j] = jobs[j]
  BY DEF TypeInv, TablesOK
<1>2. \A v \in Writers : \A j : Swapping(v, j)' = Swapping(v, j)
  BY DEF Swapping
<1>3. HandlesOwn'
  BY <1>1 DEF Tables, HandlesOwn, TypeInv, TablesOK
<1>4. SwapsOwn'
  <2>1. ASSUME NEW v \in Writers, NEW j, Swapping(v, j)
        PROVE  j \in Jobs /\ jobs'[j] = jobs[j]
    BY <1>1, <2>1 DEF Tables, SwapsOwn
  <2>2. QED
    BY <1>2, <2>1 DEF Tables, SwapsOwn
<1>5. CancelledWait'
  BY <1>1 DEF Tables, CancelledWait, TypeInv, TablesOK
<1>6. TimersWait'
  <2>1. ASSUME NEW a \in Agents, ~IsCron(a), handle[a] # None, handle[a] # i
        PROVE  jobs'[handle[a]] = a \/ \E t \in Threads : Firing(t, a)'
    <3>1. jobs'[handle[a]] = jobs[handle[a]]
      BY <1>1, <2>1 DEF TypeInv, TablesOK
    <3>2. QED
      BY <2>1, <3>1 DEF Tables, TimersWait, FiringsLast
  <2>2. QED
    BY <2>1 DEF TimersWait
<1>7. EntriesKnown'
  BY <1>1, <1>2 DEF Tables, EntriesKnown
<1>8. QED
  BY <1>3, <1>4, <1>5, <1>6, <1>7 DEF Tables

LEMMA ForgetKeepsTables ==
  ASSUME TypeInv, ForgetsTimers, Tables, NEW t \in Threads, OneShotForget(t)
  PROVE  Tables'
<1> USE NoneAssumption
<1> DEFINE a == th[t].agent
<1>1. a \in Agents /\ ~IsCron(a) /\ UNCHANGED <<jobs, cancelled, wr>>
  BY DEF OneShotForget, At, ForgetsTimers, TypeInv, ThreadsOK, ThreadsBusy
<1>2. handle'[a] = None /\ \A b \in Agents : b # a => handle'[b] = handle[b]
  BY <1>1 DEF OneShotForget, TypeInv, TablesOK
<1>3. \A u \in Threads : u # t => th'[u] = th[u]
  BY DEF OneShotForget, TypeInv, ThreadsOK
<1>4. \A v \in Writers : \A j : Swapping(v, j)' = Swapping(v, j)
  BY <1>1 DEF Swapping
<1>5. HandlesOwn' /\ CancelledWait'
  BY <1>1, <1>2 DEF Tables, HandlesOwn, CancelledWait, TypeInv, TablesOK
<1>6. SwapsOwn'
  BY <1>1, <1>2, <1>4 DEF Tables, SwapsOwn
<1>7. TimersWait'
  BY <1>1, <1>2, <1>3 DEF Tables, TimersWait, Firing
<1>8. EntriesKnown'
  BY <1>1, <1>2, <1>4 DEF Tables, EntriesKnown, TypeInv, TablesOK
<1>9. QED
  BY <1>5, <1>6, <1>7, <1>8 DEF Tables

-----------------------------------------------------------------------------
(* The other steps: a goroutine goes on for the agent and the trigger it has, *)
(* and a writer that is not about to swap stays so.                           *)

ThreadGoes(t) ==
    /\ \A u \in Threads : u # t => th'[u] = th[u]
    /\ \/ th'[t].pc = "idle" /\ th[t].trig # "oneshot"
       \/ /\ th'[t].agent = th[t].agent /\ th'[t].trig = th[t].trig
          /\ th'[t].pc # "idle" /\ (th'[t].pc = "forget" => th[t].trig = "oneshot")

LEMMA GoToGoes ==
  ASSUME ThreadsOK, NEW t \in Threads, NEW p, p \notin {"idle", "forget"}, GoTo(t, p)
  PROVE  ThreadGoes(t)
  BY DEF ThreadsOK, GoTo, ThreadGoes, ThreadRecord

LEMMA OutcomeGoes ==
  ASSUME ThreadsOK, NEW t \in Threads, NEW p, p \notin {"idle", "forget"}, NEW r,
         th' = [th EXCEPT ![t].pc = p, ![t].res = r]
  PROVE  ThreadGoes(t)
  BY DEF ThreadsOK, ThreadGoes, ThreadRecord

LEMMA ReturnGoes ==
  ASSUME ThreadsOK, NEW t \in Threads, Return(t)
  PROVE  ThreadGoes(t)
<1>1. th[t] \in ThreadRecord /\ \A u \in Threads : u # t => th'[u] = th[u]
  BY DEF ThreadsOK, Return
<1>2. CASE th[t].trig = "oneshot"
  <2>1. th'[t] = [th[t] EXCEPT !.pc = "forget", !.bornOff = FALSE]
    BY <1>2 DEF ThreadsOK, Return
  <2>2. QED
    BY <1>1, <1>2, <2>1 DEF ThreadGoes, ThreadRecord
<1>3. CASE th[t].trig # "oneshot"
  <2>1. th'[t] = IdleThread
    BY <1>3 DEF ThreadsOK, Return
  <2>2. QED
    BY <1>1, <1>3, <2>1 DEF ThreadGoes, IdleThread
<1>4. QED
  BY <1>2, <1>3

LEMMA ThreadsGo ==
  ASSUME TypeInv, NEW t \in Threads, ThreadStep(t), ~OneShotForget(t)
  PROVE  th[t].pc # "idle" /\ ThreadGoes(t)
<1> USE GoToGoes, ReturnGoes DEF TypeInv, At
<1>1. CASE FireCheck(t) \/ FireDrop(t) \/ FireGate(t)
  BY <1>1 DEF FireCheck, FireDrop, FireGate
<1>2. CASE TryStartRun(t) \/ Lookup(t) \/ FinishRun(t)
  BY <1>2 DEF TryStartRun, Lookup, FinishRun
<1>3. CASE RunCompletes(t)
  <2>1. \E p \in {"mark", "deliver"} : th' = [th EXCEPT ![t].pc = p, ![t].res = "completed"]
    BY <1>3 DEF RunCompletes
  <2>2. QED
    BY <1>3, <2>1, OutcomeGoes DEF RunCompletes
<1>4. ASSUME NEW o \in {"error", "incomplete"}, RunFails(t, o)
      PROVE  th[t].pc # "idle" /\ ThreadGoes(t)
  <2>1. \E p \in {"qdereg", "finish", "deliver"} :
           th' = [th EXCEPT ![t].pc = p, ![t].res = o]
    BY <1>4 DEF RunFails
  <2>2. QED
    BY <1>4, <2>1, OutcomeGoes DEF RunFails
<1>5. CASE QuarantineDeregister(t) \/ QuarantineDisable(t) \/ QuarantineClear(t)
  BY <1>5 DEF QuarantineDeregister, QuarantineDisable, QuarantineClear
<1>6. CASE MarkCompleted(t) \/ Deliver(t)
  BY <1>6 DEF MarkCompleted, Deliver
<1>7. QED
  BY <1>1, <1>2, <1>3, <1>4, <1>5, <1>6 DEF ThreadStep

LEMMA GoingFires ==
  ASSUME NEW t \in Threads, ThreadGoes(t)
  PROVE  FiringsLast
  BY DEF ThreadGoes, FiringsLast, Firing

LEMMA WithLoaderFires ==
  ASSUME ThreadsOK, NEW m, th' = WithLoader(m)
  PROVE  \A t \in Threads : /\ th'[t].pc = th[t].pc /\ th'[t].agent = th[t].agent
                            /\ th'[t].trig = th[t].trig
  BY DEF WithLoader, ThreadsOK, ThreadRecord

\* What a step does to the goroutines.
LEMMA ThreadMoves ==
  ASSUME TypeInv, [Next]_vars
  PROVE  \/ Restart
         \/ \E t \in Threads : OneShotForget(t)
         \/ \E t \in Threads : th[t].pc # "idle" /\ ThreadGoes(t)
         \/ \E t \in Threads : /\ th[t].pc = "idle" /\ th'[t].pc \in {"check", "lock"}
                               /\ \A u \in Threads : u # t => th'[u] = th[u]
                               /\ th'[t].trig = "oneshot" => ~IsCron(th'[t].agent)
         \/ \A t \in Threads : /\ th'[t].pc = th[t].pc /\ th'[t].agent = th[t].agent
                               /\ th'[t].trig = th[t].trig
<1>1. ASSUME NEW t \in Threads, StartThread(t)
      PROVE  /\ th[t].pc = "idle" /\ th'[t].pc \in {"check", "lock"}
             /\ \A u \in Threads : u # t => th'[u] = th[u]
             /\ th'[t].trig = "oneshot" => ~IsCron(th'[t].agent)
  <2>1. ASSUME NEW j \in Jobs, CronTick(t, j) \/ TimerDue(t, j)
        PROVE  /\ th[t].pc = "idle" /\ th'[t].pc \in {"check", "lock"}
               /\ \A u \in Threads : u # t => th'[u] = th[u]
               /\ th'[t].trig = "oneshot" => ~IsCron(th'[t].agent)
    BY <2>1 DEF CronTick, TimerDue, Spawn, TypeInv, ThreadsOK
  <2>2. ASSUME NEW a \in Agents, CatchUp(t, a) \/ ManualTrigger(t, a)
        PROVE  /\ th[t].pc = "idle" /\ th'[t].pc \in {"check", "lock"}
               /\ \A u \in Threads : u # t => th'[u] = th[u]
               /\ th'[t].trig = "oneshot" => ~IsCron(th'[t].agent)
    BY <2>2 DEF CatchUp, ManualTrigger, Spawn, TypeInv, ThreadsOK
  <2>3. QED
    BY <1>1, <2>1, <2>2 DEF StartThread
<1>2. th' = th \/ (\E m : th' = WithLoader(m)) \/ Restart
      \/ \E t \in Threads : StartThread(t) \/ ThreadStep(t)
  BY DEF Next, vars, TimerCancelled, BootValidation, NewRequest, Request, HandlerStep, Upsert,
         UpsertFails, Store, StoreUnsynced, StoreDefinition, HandlerDeregister, Remove,
         RemoveNothing, RemoveFails, RegisterStep, RegisterSkip, RegisterFails,
         AddCron, SwapCron, AddOneShot, ReloadStep, ReloadBegin, ReloadLoad,
         ReloadDiff, ReloadDrop, ReloadRegister, ReloadEnd, EditFile
<1>3. QED
  BY <1>1, <1>2, ThreadsGo, WithLoaderFires DEF TypeInv

LEMMA NextForgets ==
  ASSUME TypeInv, ForgetsTimers, [Next]_vars
  PROVE  ForgetsTimers'
<1>1. CASE Restart
  BY <1>1 DEF Restart, IdleThread, ForgetsTimers
<1>2. ASSUME NEW t \in Threads, OneShotForget(t)
      PROVE  ForgetsTimers'
  BY <1>2 DEF OneShotForget, IdleThread, ForgetsTimers, TypeInv, ThreadsOK
<1>3. ASSUME NEW t \in Threads, th[t].pc # "idle", ThreadGoes(t)
      PROVE  ForgetsTimers'
  BY <1>3 DEF ThreadGoes, ForgetsTimers
<1>4. ASSUME NEW t \in Threads, th'[t].pc \in {"check", "lock"},
             \A u \in Threads : u # t => th'[u] = th[u],
             th'[t].trig = "oneshot" => ~IsCron(th'[t].agent)
      PROVE  ForgetsTimers'
  BY <1>4 DEF ForgetsTimers
<1>5. QED
  BY <1>1, <1>2, <1>3, <1>4, ThreadMoves DEF ForgetsTimers

\* Every step but the three named ones leaves the firing one-shots.
LEMMA NextFires ==
  ASSUME TypeInv, [Next]_vars, ~Restart, ~ \E t \in Threads : OneShotForget(t)
  PROVE  FiringsLast
<1>1. ASSUME NEW t \in Threads, th[t].pc # "idle", ThreadGoes(t)
      PROVE  FiringsLast
  BY <1>1, GoingFires
<1>2. ASSUME NEW t \in Threads, th[t].pc = "idle",
             \A u \in Threads : u # t => th'[u] = th[u]
      PROVE  FiringsLast
  BY <1>2 DEF FiringsLast, Firing
<1>3. QED
  BY <1>1, <1>2, ThreadMoves DEF FiringsLast, Firing

AgentPCs == {"upsert", "store", "dereg", "remove", "add", "swap"}

WriterGoes(w) ==
    /\ \A v \in Writers : v # w => wr'[v] = wr[v]
    /\ wr[w].pc # "swap" /\ wr'[w].pc # "swap"
    /\ wr'[w].pc \in AgentPCs => wr'[w].agent \in Agents

SameWriters ==
    \A w \in Writers : /\ wr'[w].pc = wr[w].pc /\ wr'[w].job = wr[w].job
                       /\ wr'[w].agent = wr[w].agent

LEMMA DoneGoes ==
  ASSUME WritersOK, NEW w \in Writers, Done(w)
  PROVE  /\ \A v \in Writers : v # w => wr'[v] = wr[v]
         /\ wr'[w].pc \in {"idle", "next"}
  BY DEF WritersOK, Done, IdleWriter, WriterRecord

LEMMA StageGoes ==
  ASSUME WritersOK, WritersBusy, NEW w \in Writers, NEW p, p # "swap", wr[w].pc # "swap",
         wr[w].pc \in AgentPCs \/ p \notin AgentPCs, wr' = [wr EXCEPT ![w].pc = p]
  PROVE  WriterGoes(w)
  BY DEF WritersOK, WritersBusy, WriterGoes, AgentPCs, WriterRecord

LEMMA EndGoes ==
  ASSUME WritersOK, NEW w \in Writers, wr[w].pc # "swap", wr' = [wr EXCEPT ![w] = IdleWriter]
  PROVE  WriterGoes(w)
  BY DEF WritersOK, WriterGoes, IdleWriter, AgentPCs

LEMMA HandlersGo ==
  ASSUME TypeInv, WritersBusy, NEW h \in Handlers, HandlerStep(h)
  PROVE  h \in Writers /\ WriterGoes(h)
<1> USE DoneGoes, StageGoes, EndGoes DEF TypeInv, AgentPCs
<1>1. h \in Writers
  BY DEF Writers
<1>2. CASE Upsert(h) \/ UpsertFails(h)
  BY <1>1, <1>2 DEF Upsert, UpsertFails
<1>3. CASE Store(h) \/ StoreUnsynced(h)
  BY <1>1, <1>3 DEF Store, StoreUnsynced, StoreDefinition
<1>4. CASE HandlerDeregister(h)
  <2>1. CASE Done(h)
    BY <1>1, <1>4, <2>1 DEF HandlerDeregister, WriterGoes
  <2>2. CASE wr' = [wr EXCEPT ![h].pc = IF wr[h].req = "save" THEN "add" ELSE "remove"]
    BY <1>1, <1>4, <2>2 DEF HandlerDeregister
  <2>3. QED
    BY <1>4, <2>1, <2>2 DEF HandlerDeregister
<1>5. CASE Remove(h) \/ RemoveNothing(h) \/ RemoveFails(h)
  BY <1>1, <1>5 DEF Remove, RemoveNothing, RemoveFails
<1>6. QED
  BY <1>1, <1>2, <1>3, <1>4, <1>5 DEF HandlerStep

LEMMA RegistersGo ==
  ASSUME TypeInv, NEW w \in Writers,
         RegisterSkip(w) \/ RegisterFails(w) \/ \E j \in Jobs : AddOneShot(w, j)
  PROVE  WriterGoes(w)
<1>1. wr[w].pc = "add" /\ Done(w)
  BY DEF RegisterSkip, RegisterFails, AddOneShot
<1>2. QED
  BY <1>1, DoneGoes DEF WriterGoes, AgentPCs, TypeInv

LEMMA ReloadsGo ==
  ASSUME TypeInv, WritersBusy, NEW r \in Reloaders, ReloadStep(r)
  PROVE  r \in Writers /\ (WriterGoes(r) \/ SameWriters)
<1> USE StageGoes, EndGoes DEF TypeInv, AgentPCs
<1>1. r \in Writers /\ wr[r] \in WriterRecord
  BY DEF Writers, WritersOK
<1>2. CASE ReloadBegin(r)
  BY <1>1, <1>2 DEF ReloadBegin, WriterGoes, WritersOK, WriterRecord
<1>3. CASE ReloadLoad(r) \/ ReloadDiff(r) \/ ReloadEnd(r)
  BY <1>1, <1>3 DEF ReloadLoad, ReloadDiff, ReloadEnd
<1>4. ASSUME NEW a \in Agents, ReloadDrop(r, a)
      PROVE  SameWriters
  BY <1>4 DEF ReloadDrop, SameWriters
<1>5. ASSUME NEW a \in Agents, ReloadRegister(r, a)
      PROVE  WriterGoes(r)
  <2>1. /\ wr[r].pc = "next" /\ wr'[r].pc = "add" /\ wr'[r].agent = a
        /\ \A v \in Writers : v # r => wr'[v] = wr[v]
    BY <1>1, <1>5 DEF ReloadRegister, WritersOK, WriterRecord
  <2>2. QED
    BY <2>1 DEF WriterGoes
<1>6. QED
  BY <1>1, <1>2, <1>3, <1>4, <1>5 DEF ReloadStep

LEMMA SwitchSameWriters ==
  ASSUME WritersOK, NEW a, NEW b \in BOOLEAN, SetEnabledInMemory(a, b)
  PROVE  SameWriters
<1> DEFINE r(w) == [wr[w] EXCEPT !.def.enabled = b]
<1>1. ASSUME NEW w \in Writers
      PROVE  wr'[w].pc = wr[w].pc /\ wr'[w].job = wr[w].job /\ wr'[w].agent = wr[w].agent
  <2>1. wr[w] \in WriterRecord
    BY DEF WritersOK
  <2>2. wr'[w] \in {r(w), wr[w]}
    BY DEF SetEnabledInMemory
  <2>3. r(w).pc = wr[w].pc /\ r(w).job = wr[w].job /\ r(w).agent = wr[w].agent
    <3> DEFINE d == [wr[w].def EXCEPT !.enabled = b]
    <3>1. r(w) = [wr[w] EXCEPT !.def = d]
      BY <2>1 DEF WriterRecord
    <3> HIDE DEF d, r
    <3>2. QED
      BY <2>1, <3>1 DEF WriterRecord
  <2> HIDE DEF r
  <2>4. QED
    BY <2>2, <2>3
<1>2. QED
  BY <1>1 DEF SameWriters

\* What a step does to the requests and reloads.
LEMMA WriterMoves ==
  ASSUME TypeInv, WritersBusy, [Next]_vars
  PROVE  \/ Restart
         \/ \E w \in Writers : SwapCron(w) \/ \E j \in Jobs : AddCron(w, j)
         \/ \E w \in Writers : WriterGoes(w)
         \/ SameWriters
<1>1. CASE NewRequest
  <2>1. PICK h \in Handlers, a \in Agents, d \in Choices \cup {None},
             r \in {"create", "save", "enable", "disable", "delete"} : Request(h, a, r, d)
    BY <1>1 DEF NewRequest
  <2>2. h \in Writers /\ wr[h].pc = "idle"
    BY <2>1 DEF Writers, Request
  <2>3. wr'[h].agent = a /\ wr'[h].pc # "swap" /\ \A v \in Writers : v # h => wr'[v] = wr[v]
    BY <2>1, <2>2 DEF Request, TypeInv, WritersOK
  <2>4. QED
    BY <2>2, <2>3 DEF WriterGoes
<1>2. ASSUME NEW a \in Agents, BootValidation(a)
      PROVE  SameWriters
  BY <1>2, SwitchSameWriters DEF BootValidation, TypeInv
<1>3. ASSUME NEW t \in Threads, QuarantineDisable(t)
      PROVE  SameWriters
  BY <1>3, SwitchSameWriters DEF QuarantineDisable, TypeInv
<1>4. UNCHANGED wr => SameWriters
  BY DEF SameWriters
<1>5. ASSUME NEW t \in Threads, StartThread(t) \/ ThreadStep(t)
      PROVE  SameWriters
  <2>1. UNCHANGED wr \/ QuarantineDisable(t)
    BY <1>5 DEF StartThread, CronTick, TimerDue, CatchUp, ManualTrigger, ThreadStep, FireCheck,
            FireDrop, FireGate, TryStartRun, Lookup, RunCompletes, RunFails,
            QuarantineDeregister, QuarantineClear, MarkCompleted, Deliver, FinishRun,
            OneShotForget
  <2>2. QED
    BY <1>3, <1>4, <2>1
<1>6. ASSUME NEW w \in Writers, RegisterStep(w)
      PROVE  \/ SwapCron(w) \/ \E j \in Jobs : AddCron(w, j)
             \/ WriterGoes(w)
  BY <1>6, RegistersGo DEF RegisterStep
<1>7. QED
  BY <1>1, <1>2, <1>4, <1>5, <1>6, HandlersGo, ReloadsGo
     DEF Next, TimerCancelled, EditFile, vars

LEMMA NextBusy ==
  ASSUME TypeInv, WritersBusy, [Next]_vars
  PROVE  WritersBusy'
<1>1. CASE Restart
  BY <1>1 DEF Restart, IdleWriter, WritersBusy
<1>2. ASSUME NEW w \in Writers, SwapCron(w)
      PROVE  WritersBusy'
  <2>1. Done(w)
    BY <1>2 DEF SwapCron
  <2>2. QED
    BY <2>1, DoneGoes DEF WritersBusy, TypeInv
<1>3. ASSUME NEW w \in Writers, NEW j \in Jobs, AddCron(w, j)
      PROVE  WritersBusy'
  <2>1. /\ wr[w].pc = "add" /\ wr'[w].agent = wr[w].agent
        /\ \A v \in Writers : v # w => wr'[v] = wr[v]
    BY <1>3 DEF AddCron, TypeInv, WritersOK, WriterRecord
  <2>2. QED
    BY <2>1 DEF WritersBusy
<1>4. ASSUME NEW w \in Writers, WriterGoes(w)
      PROVE  WritersBusy'
  BY <1>4 DEF WriterGoes, WritersBusy, AgentPCs
<1>5. SameWriters => WritersBusy'
  BY DEF SameWriters, WritersBusy
<1>6. QED
  BY <1>1, <1>2, <1>3, <1>4, <1>5, WriterMoves

LEMMA NextSwaps ==
  ASSUME TypeInv, WritersBusy, [Next]_vars, ~Restart,
         ~ \E w \in Writers : SwapCron(w) \/ \E j \in Jobs : AddCron(w, j)
  PROVE  SameSwaps
<1>1. ASSUME NEW w \in Writers, WriterGoes(w)
      PROVE  SameSwaps
  BY <1>1 DEF WriterGoes, SameSwaps, Swapping
<1>2. SameWriters => SameSwaps
  BY DEF SameWriters, SameSwaps, Swapping
<1>3. QED
  BY <1>1, <1>2, WriterMoves

\* What a step does to the tables.
LEMMA TableMoves ==
  ASSUME TypeInv, WritersBusy, [Next]_vars
  PROVE  \/ Restart
         \/ \E t \in Threads : OneShotForget(t) \/ \E j \in Jobs : TimerDue(t, j)
         \/ \E j \in Jobs : TimerCancelled(j)
         \/ \E w \in Writers : \/ SwapCron(w)
                               \/ \E j \in Jobs : AddCron(w, j) \/ AddOneShot(w, j)
         \/ UNCHANGED tableVars
         \/ \E a \in Agents : Deregister(a)
<1>1. ASSUME NEW t \in Threads, FireDrop(t) \/ QuarantineDeregister(t)
      PROVE  \E a \in Agents : Deregister(a)
  BY <1>1 DEF FireDrop, QuarantineDeregister, At, TypeInv, ThreadsOK, ThreadsBusy
<1>2. ASSUME NEW t \in Threads, ThreadStep(t)
      PROVE  UNCHANGED tableVars \/ OneShotForget(t) \/ FireDrop(t) \/ QuarantineDeregister(t)
  BY <1>2 DEF ThreadStep, FireCheck, FireGate, TryStartRun, Lookup, RunCompletes, RunFails,
          QuarantineDisable, QuarantineClear, MarkCompleted, Deliver, FinishRun
<1>3. ASSUME NEW t \in Threads, StartThread(t)
      PROVE  UNCHANGED tableVars \/ \E j \in Jobs : TimerDue(t, j)
  BY <1>3 DEF StartThread, CronTick, CatchUp, ManualTrigger
<1>4. ASSUME NEW h \in Handlers, HandlerDeregister(h)
      PROVE  \E a \in Agents : Deregister(a)
  BY <1>4 DEF HandlerDeregister, WritersBusy, Writers
<1>5. ASSUME NEW h \in Handlers, HandlerStep(h)
      PROVE  UNCHANGED tableVars \/ HandlerDeregister(h)
  BY <1>5 DEF HandlerStep, Upsert, UpsertFails, Store, StoreUnsynced, StoreDefinition, Remove,
          RemoveNothing, RemoveFails, loaderVars
<1>6. ASSUME NEW r \in Reloaders, ReloadStep(r)
      PROVE  UNCHANGED tableVars \/ \E a \in Agents : Deregister(a)
  BY <1>6 DEF ReloadStep, ReloadBegin, ReloadLoad, ReloadDiff, ReloadEnd, ReloadDrop,
          ReloadRegister
<1>7. ASSUME NEW w \in Writers, RegisterStep(w)
      PROVE  \/ UNCHANGED tableVars
             \/ SwapCron(w) \/ \E j \in Jobs : AddCron(w, j) \/ AddOneShot(w, j)
  BY <1>7 DEF RegisterStep, RegisterSkip, RegisterFails
<1>8. NewRequest \/ (\E a \in Agents : BootValidation(a)) \/ UNCHANGED vars
      \/ (\E a \in EditedFiles, d \in Choices \cup {None} : EditFile(a, d))
         => UNCHANGED tableVars
  BY DEF NewRequest, Request, BootValidation, EditFile, vars
<1>9. QED
  BY <1>1, <1>2, <1>3, <1>4, <1>5, <1>6, <1>7, <1>8 DEF Next

LEMMA NextTables ==
  ASSUME TypeInv, WritersBusy, ForgetsTimers, Tables, [Next]_vars
  PROVE  Tables'
<1>1. CASE Restart
  BY <1>1, RegisteredTables DEF Restart
<1>2. ASSUME NEW t \in Threads, OneShotForget(t)
      PROVE  Tables'
  BY <1>2, ForgetKeepsTables
<1>3. ASSUME NEW w \in Writers, NEW j \in Jobs, AddCron(w, j) \/ AddOneShot(w, j)
      PROVE  Tables'
  BY <1>3, AddCronKeepsTables, AddOneShotKeepsTables
<1>4. ASSUME NEW w \in Writers, SwapCron(w)
      PROVE  Tables'
  BY <1>4, SwapCronKeepsTables
<1>5. CASE /\ ~Restart /\ ~ \E t \in Threads : OneShotForget(t)
           /\ ~ \E w \in Writers : SwapCron(w) \/ \E j \in Jobs : AddCron(w, j)
  <2>1. FiringsLast /\ SameSwaps
    BY <1>5, NextFires, NextSwaps
  <2>2. UNCHANGED tableVars \/ (\E a \in Agents : Deregister(a)) => Tables'
    BY <2>1, TablesStay, DeregisterKeepsTables DEF TypeInv
  <2>3. ASSUME NEW t \in Threads, NEW j \in Jobs, TimerDue(t, j)
        PROVE  Tables'
    <3>1. /\ jobs[j] # None /\ ~IsCron(jobs[j]) /\ jobs' = [jobs EXCEPT ![j] = None]
          /\ cancelled' = cancelled \ {j} /\ UNCHANGED <<handle, wr>>
      BY <2>3 DEF TimerDue
    <3>2. \A a \in Agents : handle[a] = j => a = jobs[j]
      BY <3>1, NoneAssumption DEF Tables, HandlesOwn
    <3>3. ASSUME NEW a \in Agents, handle[a] = j
          PROVE  \E u \in Threads : Firing(u, a)'
      <4>1. th'[t].agent = a /\ th'[t].trig = "oneshot" /\ th'[t].pc = "check"
        BY <2>3, <3>2, <3>3 DEF TimerDue, Spawn, TypeInv, ThreadsOK
      <4>2. QED
        BY <4>1 DEF Firing
    <3>4. QED
      BY <2>1, <3>1, <3>3, TimerKeepsTables
  <2>4. ASSUME NEW j \in Jobs, TimerCancelled(j)
        PROVE  Tables'
    <3>1. /\ jobs[j] # None /\ ~IsCron(jobs[j]) /\ \A a \in Agents : handle[a] # j
          /\ jobs' = [jobs EXCEPT ![j] = None]
          /\ cancelled' = cancelled \ {j} /\ UNCHANGED <<handle, wr>>
      BY <2>4 DEF TimerCancelled, Tables, CancelledWait
    <3>2. QED
      BY <2>1, <3>1, TimerKeepsTables
  <2>5. QED
    BY <1>3, <1>5, <2>2, <2>3, <2>4, TableMoves
<1>6. QED
  BY <1>1, <1>2, <1>3, <1>4, <1>5

\* The first state is that of a start of the process.
LEMMA InitTables == Init => WritersBusy /\ ForgetsTimers /\ Tables
<1> SUFFICES ASSUME Init PROVE WritersBusy /\ ForgetsTimers /\ Tables
  OBVIOUS
<1> USE NoneAssumption
<1>1. /\ handle \in [Agents -> Jobs \cup {None}]
      /\ \A a, b \in Agents : handle[a] = handle[b] /\ handle[a] # None => a = b
      /\ jobs = JobsOf(handle) /\ cancelled = {}
      /\ th = [t \in Threads |-> IdleThread] /\ wr = [w \in Writers |-> IdleWriter]
  BY DEF Init, Registrations
<1>2. ASSUME NEW a \in Agents, handle[a] # None
      PROVE  jobs[handle[a]] = a
  <2>1. handle[a] \in Jobs
    BY <1>1, <1>2
  <2>2. jobs[handle[a]] = CHOOSE b \in Agents : handle[b] = handle[a]
    BY <1>1, <2>1 DEF JobsOf
  <2>3. QED
    BY <1>1, <1>2, <2>2
<1>3. ASSUME NEW j \in Jobs, jobs[j] # None
      PROVE  handle[jobs[j]] = j
  BY <1>1, <1>3 DEF JobsOf
<1>4. WritersBusy /\ ForgetsTimers /\ \A w \in Writers : \A j : ~Swapping(w, j)
  BY <1>1 DEF WritersBusy, ForgetsTimers, Swapping, IdleWriter, IdleThread
<1>5. QED
  BY <1>1, <1>2, <1>3, <1>4
     DEF Tables, HandlesOwn, SwapsOwn, CancelledWait, TimersWait, EntriesKnown

LEMMA AlwaysConsistent == Spec => [](TypeInv /\ WritersBusy /\ ForgetsTimers /\ Tables)
<1>1. Init => TypeInv /\ WritersBusy /\ ForgetsTimers /\ Tables
  BY InitTyped, InitTables
<1>2. /\ TypeInv /\ WritersBusy /\ ForgetsTimers /\ Tables /\ [Next]_vars
      => (TypeInv /\ WritersBusy /\ ForgetsTimers /\ Tables)'
  BY NextTyped, NextBusy, NextForgets, NextTables
<1>3. QED
  BY <1>1, <1>2, PTL DEF Spec

LEMMA AlwaysTables == Spec => []Tables
  BY AlwaysConsistent, PTL

\* Re-registration never leaves a second live cron entry behind, however the
\* requests and reloads that register an agent at once interleave (addCron).
THEOREM NoEntryIsOrphaned == Spec => []NoOrphanEntry
<1>1. Tables => NoOrphanEntry
  BY DEF Tables, EntriesKnown, Swapping, NoOrphanEntry
<1>2. QED
  BY <1>1, AlwaysTables, PTL

\* A one-shot that the schedule page lists is waiting for its time, or firing,
\* whatever registers it again or switches it off meanwhile (addOneShot).
THEOREM NoOneShotIsAPhantom == Spec => []NoPhantomOneShot
<1>1. Tables => NoPhantomOneShot
  BY DEF Tables, TimersWait, Firing, NoPhantomOneShot
<1>2. QED
  BY <1>1, AlwaysTables, PTL

\* The table and what is live agree at every moment, for cron entries and one-shots
\* (addCron, addOneShot).
THEOREM TheTableIsTrue == Spec => []TableIsTrue
<1>1. NoOrphanEntry /\ NoPhantomOneShot => TableIsTrue
  BY DEF TableIsTrue
<1>2. QED
  BY <1>1, NoEntryIsOrphaned, NoOneShotIsAPhantom, PTL

-----------------------------------------------------------------------------
(* The watcher by itself.  With no run and no request under way, and one      *)
(* reload at a time, the table follows the definitions: at first those of     *)
(* the snapshot, then, agent by agent, those that were loaded.                *)

Undisturbed(r) ==
    /\ Threads = {} /\ Handlers = {} /\ Reloaders = {r}
    /\ "validation" \notin Failures
    /\ \A s, u \in Surfaces : s = u

Given == [Agents -> Choices \cup {None}]

\* As far as a is concerned, the cron table is that of definition d.
Follows(a, d) == IsCron(a) => (handle[a] # None <=> Wanted(d))

Registering(r, a) == wr[r].pc \in {"add", "swap"} /\ wr[r].agent = a

Watching(r) ==
    /\ invalid = {} /\ disk \in Given /\ mem \in Given /\ rl[r].snap \in Given
    /\ wr[r].pc \in {"idle", "load", "diff", "next", "add", "swap"}

\* Up to the comparison nothing in the table has changed.
Before(r) ==
    /\ wr[r].pc = "idle" => \A a \in Agents : Follows(a, mem[a])
    /\ wr[r].pc \in {"load", "diff"} => \A a \in Agents : Follows(a, rl[r].snap[a])

\* Then an agent is to be dropped, or to be registered, or being registered, or done.
Midway(r) ==
    wr[r].pc \in {"next", "add", "swap"} =>
        /\ rl[r].snap = mem
        /\ \A a \in Agents :
              /\ a \in rl[r].drop => a \in rl[r].reg \/ mem[a] = None
              /\ a \in rl[r].reg \ rl[r].drop => Follows(a, None)
              /\ a \notin rl[r].drop \cup rl[r].reg =>
                     Registering(r, a) \/ Follows(a, mem[a])

AtWork(r) ==
    wr[r].pc \in {"add", "swap"} =>
        /\ wr[r].agent \in Agents \ rl[r].reg /\ wr[r].def = mem[wr[r].agent]
        /\ rl[r].drop = {} /\ Follows(wr[r].agent, None)
        /\ wr[r].pc = "swap" => Wanted(wr[r].def) /\ wr[r].job \in Jobs

Following(r) == Watching(r) /\ Before(r) /\ Midway(r) /\ AtWork(r)

\* The only writer is the reload.
LEMMA OneWriter ==
  ASSUME NEW r, Undisturbed(r), TypeOK
  PROVE  /\ Writers = {r} /\ r \in Reloaders /\ r \notin Handlers
         /\ wr \in [{r} -> WriterRecord] /\ rl \in [{r} -> ReloadRecord]
  BY DEF Undisturbed, TypeOK, Writers

\* A definition that is given is wanted exactly if it is enabled: all have one surface.
LEMMA SameSurface ==
  ASSUME NEW r, Undisturbed(r), NEW d \in Choices \cup {None}, NEW e \in Choices \cup {None},
         ~ ScheduleChanged(d, e)
  PROVE  Wanted(d) <=> Wanted(e)
  BY DEF Undisturbed, Choices, Definitions, ScheduleChanged, Wanted, OnSchedule

LEMMA StartFollows ==
  ASSUME NEW r, Undisturbed(r), Init
  PROVE  Following(r)
<1> USE NoneAssumption
<1>1. /\ disk \in Given /\ mem = disk /\ handle \in Registrations(disk)
      /\ wr = [w \in Writers |-> IdleWriter] /\ rl = [s \in Reloaders |-> IdleReload]
      /\ invalid = {}
  BY DEF Init, Given, Undisturbed, Rejectable
<1>2. r \in Writers /\ r \in Reloaders
  BY DEF Undisturbed, Writers
<1>3. wr[r].pc = "idle" /\ rl[r].snap \in Given
  BY <1>1, <1>2 DEF IdleWriter, IdleReload, Given
<1>4. \A a \in Agents : Follows(a, mem[a])
  BY <1>1 DEF Registrations, Follows
<1>5. QED
  BY <1>1, <1>3, <1>4 DEF Following, Watching, Before, Midway, AtWork

LEMMA RestartFollows ==
  ASSUME NEW r, Undisturbed(r), Following(r), Restart
  PROVE  Following(r)'
<1> USE NoneAssumption
<1>1. /\ disk' \in Given /\ mem' = disk' /\ handle' \in Registrations(disk')
      /\ wr' = [w \in Writers |-> IdleWriter] /\ rl' = [s \in Reloaders |-> IdleReload]
      /\ invalid' = {}
  BY DEF Restart, Given, Undisturbed, Rejectable, Following, Watching
<1>2. r \in Writers /\ r \in Reloaders
  BY DEF Undisturbed, Writers
<1>3. wr'[r].pc = "idle" /\ rl'[r].snap \in Given
  BY <1>1, <1>2 DEF IdleWriter, IdleReload, Given
<1>4. \A a \in Agents : Follows(a, mem[a])'
  BY <1>1 DEF Registrations, Follows
<1>5. QED
  BY <1>1, <1>3, <1>4 DEF Following, Watching, Before, Midway, AtWork

\* What neither the table nor the reload sees.
LEMMA ElsewhereFollows ==
  ASSUME NEW r, Following(r), disk' \in Given,
         UNCHANGED <<mem, handle, invalid, wr, rl>>
  PROVE  Following(r)'
  BY DEF Following, Watching, Before, Midway, AtWork, Follows, Registering

-----------------------------------------------------------------------------
LEMMA SnapshotFollows ==
  ASSUME NEW r, Undisturbed(r), TypeOK, Following(r), ReloadBegin(r)
  PROVE  Following(r)'
<1>1. /\ rl'[r].snap = mem /\ wr'[r].pc = "load" /\ wr[r].pc = "idle"
      /\ UNCHANGED <<disk, mem, handle, invalid>>
  BY OneWriter DEF ReloadBegin, ReloadRecord, WriterRecord, bootVars, tableVars
<1>2. QED
  BY <1>1 DEF Following, Watching, Before, Midway, AtWork, Follows, Given

LEMMA LoadFollows ==
  ASSUME NEW r, Undisturbed(r), TypeOK, Following(r), ReloadLoad(r)
  PROVE  Following(r)'
<1>1. /\ wr[r].pc = "load" /\ wr'[r].pc = "diff" /\ mem' = disk
      /\ UNCHANGED <<disk, handle, invalid, rl>>
  BY OneWriter DEF ReloadLoad, WriterRecord, bootVars, tableVars
<1>2. QED
  BY <1>1 DEF Following, Watching, Before, Midway, AtWork, Follows

LEMMA DiffFollows ==
  ASSUME NEW r, Undisturbed(r), TypeOK, Following(r), ReloadDiff(r)
  PROVE  Following(r)'
<1> DEFINE old == rl[r].snap
<1>1. /\ wr[r].pc = "diff" /\ wr'[r].pc = "next"
      /\ UNCHANGED <<disk, mem, handle, invalid>>
  BY OneWriter DEF ReloadDiff, WriterRecord, bootVars, tableVars, loaderVars
<1>2. /\ rl'[r].snap = mem
      /\ rl'[r].drop = {a \in Agents : old[a] # None /\ ScheduleChanged(old[a], mem[a])}
      /\ rl'[r].reg = {a \in Agents : mem[a] # None /\ ScheduleChanged(old[a], mem[a])}
  BY OneWriter DEF ReloadDiff
<1>3. \A a \in Agents : Follows(a, old[a])
  BY <1>1 DEF Following, Before
<1>4. \A a \in Agents : old[a] \in Choices \cup {None} /\ mem[a] \in Choices \cup {None}
  BY DEF Following, Watching, Given
<1>5. ASSUME NEW a \in Agents
      PROVE  /\ a \in rl'[r].drop => a \in rl'[r].reg \/ mem[a] = None
             /\ a \in rl'[r].reg \ rl'[r].drop => Follows(a, None)
             /\ a \notin rl'[r].drop \cup rl'[r].reg => Follows(a, mem[a])
  <2>1. a \in rl'[r].drop => a \in rl'[r].reg \/ mem[a] = None
    BY <1>2
  <2>2. a \in rl'[r].reg \ rl'[r].drop => Follows(a, None)
    <3>1. a \in rl'[r].reg \ rl'[r].drop => old[a] = None
      BY <1>2
    <3>2. QED
      BY <3>1, <1>3
  <2>3. ASSUME a \notin rl'[r].drop \cup rl'[r].reg PROVE Follows(a, mem[a])
    <3>1. CASE ScheduleChanged(old[a], mem[a])
      <4>1. old[a] = None /\ mem[a] = None
        BY <2>3, <3>1, <1>2
      <4>2. QED
        BY <4>1, <1>3
    <3>2. CASE ~ ScheduleChanged(old[a], mem[a])
      <4>1. Wanted(old[a]) <=> Wanted(mem[a])
        BY <3>2, <1>4, SameSurface
      <4>2. QED
        BY <4>1, <1>3 DEF Follows
    <3>3. QED
      BY <3>1, <3>2
  <2>4. QED
    BY <2>1, <2>2, <2>3
<1>6. Watching(r)'
  BY <1>1, <1>2 DEF Following, Watching
<1>7. Midway(r)'
  BY <1>1, <1>2, <1>5 DEF Midway, Follows
<1>8. QED
  BY <1>1, <1>6, <1>7 DEF Following, Before, AtWork

LEMMA DropFollows ==
  ASSUME NEW r, Undisturbed(r), TypeOK, Following(r), NEW a \in Agents, ReloadDrop(r, a)
  PROVE  Following(r)'
<1> USE NoneAssumption
<1>1. /\ wr[r].pc = "next" /\ a \in rl[r].drop
      /\ rl'[r].drop = rl[r].drop \ {a} /\ rl'[r].reg = rl[r].reg /\ rl'[r].snap = rl[r].snap
      /\ UNCHANGED <<disk, mem, invalid, wr>>
  BY OneWriter DEF ReloadDrop, ReloadRecord, bootVars, loaderVars
<1>2. handle' = [handle EXCEPT ![a] = None]
  BY DEF ReloadDrop, Deregister
<1>3. handle \in [Agents -> Jobs \cup {None}]
  BY DEF TypeOK
<1>4. Midway(r)'
  <2>1. rl[r].snap = mem
    BY <1>1 DEF Following, Midway
  <2>2. ASSUME NEW b \in Agents
        PROVE  /\ b \in rl'[r].drop => b \in rl[r].reg \/ mem[b] = None
               /\ b \in rl[r].reg \ rl'[r].drop => (IsCron(b) => handle'[b] = None)
               /\ b \notin rl'[r].drop \cup rl[r].reg =>
                    (IsCron(b) => (handle'[b] # None <=> Wanted(mem[b])))
    <3>1. /\ b \in rl[r].drop => b \in rl[r].reg \/ mem[b] = None
          /\ b \in rl[r].reg \ rl[r].drop => Follows(b, None)
          /\ b \notin rl[r].drop \cup rl[r].reg => Follows(b, mem[b])
      BY <1>1 DEF Following, Midway, Registering
    <3>2. CASE b = a
      <4>1. handle'[b] = None
        BY <1>2, <1>3, <3>2
      <4>2. b \notin rl[r].reg => mem[b] = None
        BY <3>1, <3>2, <1>1
      <4>3. QED
        BY <4>1, <4>2, <1>1, <3>2 DEF Wanted, OnSchedule
    <3>3. CASE b # a
      <4>1. handle'[b] = handle[b] /\ (b \in rl'[r].drop <=> b \in rl[r].drop)
        BY <1>1, <1>2, <1>3, <3>3
      <4>2. QED
        BY <4>1, <3>1 DEF Follows, Wanted, OnSchedule
    <3>4. QED
      BY <3>2, <3>3
  <2>3. QED
    BY <1>1, <2>1, <2>2 DEF Midway, Follows, Wanted, OnSchedule
<1>5. Watching(r)'
  BY <1>1 DEF Following, Watching
<1>6. QED
  BY <1>1, <1>4, <1>5 DEF Following, Before, AtWork

LEMMA TurnFollows ==
  ASSUME NEW r, Undisturbed(r), TypeOK, Following(r), NEW a \in Agents, ReloadRegister(r, a)
  PROVE  Following(r)'
<1>1. /\ wr[r].pc = "next" /\ a \in rl[r].reg /\ rl[r].drop = {}
      /\ rl'[r].drop = {} /\ rl'[r].reg = rl[r].reg \ {a} /\ rl'[r].snap = rl[r].snap
      /\ UNCHANGED <<disk, mem, invalid, handle>>
  BY OneWriter DEF ReloadRegister, ReloadRecord, bootVars, loaderVars, tableVars
<1>2. wr'[r].pc = "add" /\ wr'[r].agent = a /\ wr'[r].def = rl[r].snap[a]
  BY OneWriter DEF ReloadRegister, WriterRecord
<1>3. /\ rl[r].snap = mem
      /\ \A b \in Agents :
            /\ b \in rl[r].reg => Follows(b, None)
            /\ b \notin rl[r].reg => Follows(b, mem[b])
  BY <1>1 DEF Following, Midway, Registering
<1>4. Watching(r)' /\ Before(r)'
  BY <1>1, <1>2 DEF Following, Watching, Before
<1>5. Midway(r)'
  BY <1>1, <1>2, <1>3 DEF Midway, Follows, Registering
<1>6. AtWork(r)'
  BY <1>1, <1>2, <1>3 DEF AtWork, Follows
<1>7. QED
  BY <1>4, <1>5, <1>6 DEF Following

LEMMA EndFollows ==
  ASSUME NEW r, Undisturbed(r), TypeOK, Following(r), ReloadEnd(r)
  PROVE  Following(r)'
<1>1. /\ wr[r].pc = "next" /\ rl[r].drop = {} /\ rl[r].reg = {}
      /\ wr'[r].pc = "idle" /\ rl'[r] = IdleReload
      /\ UNCHANGED <<disk, mem, invalid, handle>>
  BY OneWriter DEF ReloadEnd, IdleWriter, bootVars, loaderVars, tableVars
<1>2. \A a \in Agents : Follows(a, mem[a])
  BY <1>1 DEF Following, Midway, Registering
<1>3. rl'[r].snap \in Given
  BY <1>1 DEF IdleReload, Given
<1>4. QED
  BY <1>1, <1>2, <1>3 DEF Following, Watching, Before, Midway, AtWork, Follows

-----------------------------------------------------------------------------
\* The agent that is registered is done: the table is as its definition says.
LEMMA RegisteredFollows ==
  ASSUME NEW r, Undisturbed(r), TypeOK, Following(r), wr[r].pc \in {"add", "swap"}, Done(r),
         UNCHANGED <<disk, mem, invalid, rl>>,
         \A b \in Agents : b # wr[r].agent => handle'[b] = handle[b],
         IsCron(wr[r].agent) => (handle'[wr[r].agent] # None <=> Wanted(wr[r].def))
  PROVE  Following(r)'
<1> DEFINE a == wr[r].agent
<1>1. wr'[r].pc = "next"
  BY OneWriter DEF Done, WriterRecord
<1>2. /\ a \in Agents /\ a \notin rl[r].reg /\ wr[r].def = mem[a] /\ rl[r].drop = {}
      /\ rl[r].snap = mem
      /\ \A b \in Agents :
            /\ b \in rl[r].reg => Follows(b, None)
            /\ b \notin rl[r].reg => b = a \/ Follows(b, mem[b])
  BY DEF Following, Midway, AtWork, Registering
<1>3. ASSUME NEW b \in Agents
      PROVE  /\ b \in rl[r].reg => (IsCron(b) => (handle'[b] # None <=> Wanted(None)))
             /\ b \notin rl[r].reg => (IsCron(b) => (handle'[b] # None <=> Wanted(mem[b])))
  <2>1. CASE b = a
    BY <2>1, <1>2
  <2>2. CASE b # a
    BY <2>2, <1>2 DEF Follows
  <2>3. QED
    BY <2>1, <2>2
<1>4. Midway(r)'
  BY <1>1, <1>2, <1>3 DEF Midway, Follows
<1>5. Watching(r)' /\ Before(r)' /\ AtWork(r)'
  BY <1>1 DEF Following, Watching, Before, AtWork
<1>6. QED
  BY <1>4, <1>5 DEF Following

LEMMA RegistrationFollows ==
  ASSUME NEW r, Undisturbed(r), TypeOK, Following(r), RegisterStep(r)
  PROVE  Following(r)'
<1> USE NoneAssumption
<1> DEFINE a == wr[r].agent
<1>1. handle \in [Agents -> Jobs \cup {None}] /\ mem \in [Agents -> Definitions \cup {None}]
  BY DEF TypeOK
<1>2. wr[r].pc \in {"add", "swap"} =>
        a \in Agents /\ (IsCron(a) => handle[a] = None)
  BY DEF Following, AtWork, Follows, Wanted, OnSchedule
<1>3. CASE RegisterSkip(r) \/ RegisterFails(r)
  <2>1. /\ wr[r].pc = "add" /\ ~Wanted(wr[r].def) /\ Done(r)
        /\ UNCHANGED <<disk, mem, invalid, rl, handle>>
    BY <1>3 DEF RegisterSkip, RegisterFails, Wanted, bootVars, tableVars
  <2>2. QED
    BY <2>1, <1>2, RegisteredFollows
<1>4. CASE SwapCron(r)
  <2>1. /\ wr[r].pc = "swap" /\ Done(r) /\ handle' = [handle EXCEPT ![a] = wr[r].job]
        /\ UNCHANGED <<disk, mem, invalid, rl>>
    BY <1>4 DEF SwapCron, bootVars
  <2>2. Wanted(wr[r].def) /\ wr[r].job # None
    BY <2>1 DEF Following, AtWork
  <2>3. /\ \A b \in Agents : b # a => handle'[b] = handle[b]
        /\ handle'[a] = wr[r].job
    BY <2>1, <1>1, <1>2
  <2>4. QED
    BY <2>1, <2>2, <2>3, RegisteredFollows
<1>5. ASSUME NEW j \in Jobs, AddOneShot(r, j) PROVE Following(r)'
  <2>1. /\ wr[r].pc = "add" /\ Done(r) /\ ~IsCron(a) /\ handle' = [handle EXCEPT ![a] = j]
        /\ UNCHANGED <<disk, mem, invalid, rl>>
    BY <1>5 DEF AddOneShot, bootVars
  <2>2. \A b \in Agents : b # a => handle'[b] = handle[b]
    BY <2>1, <1>1, <1>2
  <2>3. QED
    BY <2>1, <2>2, RegisteredFollows
<1>6. ASSUME NEW j \in Jobs, AddCron(r, j) PROVE Following(r)'
  <2>1. /\ wr[r].pc = "add" /\ Wanted(wr[r].def)
        /\ UNCHANGED <<disk, mem, invalid, rl, handle>>
    BY <1>6 DEF AddCron, bootVars, loaderVars
  <2>2. /\ wr'[r].pc = "swap" /\ wr'[r].agent = a /\ wr'[r].def = wr[r].def
        /\ wr'[r].job = j
    <3>1. wr' = [wr EXCEPT ![r].pc = "swap", ![r].job = j]
      BY <1>6 DEF AddCron
    <3>2. wr \in [{r} -> WriterRecord] /\ wr[r] \in WriterRecord
      BY OneWriter
    <3>3. wr'[r] = [[wr[r] EXCEPT !.pc = "swap"] EXCEPT !.job = j]
      BY <3>1, <3>2
    <3>4. QED
      BY <3>2, <3>3 DEF WriterRecord
  <2>3. Watching(r)' /\ Before(r)'
    BY <2>1, <2>2 DEF Following, Watching, Before
  <2>4. Midway(r)'
    BY <2>1, <2>2 DEF Following, Midway, Registering, Follows
  <2>5. AtWork(r)'
    BY <2>1, <2>2 DEF Following, AtWork, Follows
  <2>6. QED
    BY <2>3, <2>4, <2>5 DEF Following
<1>7. QED
  BY <1>3, <1>4, <1>5, <1>6 DEF RegisterStep

LEMMA NextFollows ==
  ASSUME NEW r, Undisturbed(r), TypeOK, Following(r), [Next]_vars
  PROVE  Following(r)'
<1>1. disk \in Given /\ invalid = {} /\ Writers = {r} /\ Reloaders = {r} /\ Handlers = {}
      /\ Threads = {}
  BY OneWriter DEF Following, Watching, Undisturbed
<1>2. CASE UNCHANGED vars
  <2>1. UNCHANGED <<disk, mem, handle, invalid, wr, rl>>
    BY <1>2 DEF vars, loaderVars, tableVars, bootVars
  <2>2. QED
    BY <2>1, <1>1, ElsewhereFollows
<1>3. ASSUME NEW j \in Jobs, TimerCancelled(j) PROVE Following(r)'
  <2>1. UNCHANGED <<disk, mem, handle, invalid, wr, rl>>
    BY <1>3 DEF TimerCancelled, loaderVars, bootVars
  <2>2. QED
    BY <2>1, <1>1, ElsewhereFollows
<1>4. ASSUME NEW a \in EditedFiles, NEW d \in Choices \cup {None}, EditFile(a, d)
      PROVE  Following(r)'
  <2>1. UNCHANGED <<mem, handle, invalid, wr, rl>> /\ disk' = [disk EXCEPT ![a] = d]
    BY <1>4 DEF EditFile, tableVars, bootVars
  <2>2. disk' \in Given
    BY <2>1, <1>1 DEF Given
  <2>3. QED
    BY <2>1, <2>2, ElsewhereFollows
<1>5. CASE Restart
  BY <1>5, RestartFollows
<1>6. CASE RegisterStep(r)
  BY <1>6, RegistrationFollows
<1>7. CASE ReloadStep(r)
  BY <1>7, SnapshotFollows, LoadFollows, DiffFollows, DropFollows, TurnFollows, EndFollows
     DEF ReloadStep
<1>8. \A a \in Agents : ~ BootValidation(a)
  BY <1>1 DEF BootValidation
<1>9. QED
  BY <1>1, <1>2, <1>3, <1>4, <1>5, <1>6, <1>7, <1>8 DEF Next, NewRequest

\* While no run and no request is under way and one reload follows the other, the
\* agents in the cron table are those that the definitions schedule as soon as a
\* reload is over, however many files were edited, and at whatever moment of it
\* (Watcher.reload).
THEOREM TheTableFollows ==
  ASSUME NEW r, Undisturbed(r)
  PROVE  Spec => []TableMatchesDefinitions
<1>1. Init => Following(r)
  BY StartFollows
<1>2. TypeOK /\ Following(r) /\ [Next]_vars => Following(r)'
  BY NextFollows
<1>3. Following(r) => TableMatchesDefinitions
  <2> SUFFICES ASSUME Following(r), Quiet, NEW a \in Agents, IsCron(a)
               PROVE  handle[a] # None <=> Wanted(mem[a])
    BY DEF TableMatchesDefinitions
  <2>1. wr[r].pc = "idle"
    BY DEF Quiet, Undisturbed, Writers
  <2>2. QED
    BY <2>1 DEF Following, Before, Follows
<1>4. QED
  BY <1>1, <1>2, <1>3, TypeCorrect, PTL DEF Spec

-----------------------------------------------------------------------------
(* How an enabled agent loses its entry.  Without reloads, as long as the     *)
(* requests for one agent do not overlap, only the steps of LosesEntry may    *)
(* leave an enabled agent whose schedule parses without an entry: the drop    *)
(* that acts on an old look at the agent, and the requests that fail halfway. *)
(* Whoever else takes an entry away puts another in its place, or switches    *)
(* the agent off.                                                            *)

\* A handler in the middle of a registration has the very definition that is in the
\* loader's map, whatever switches it off on the way.
HeldBy(h) ==
    /\ wr[h].pc \in {"dereg", "add", "swap"} /\ wr[h].req # "delete" =>
          shared[wr[h].agent] = h /\ mem[wr[h].agent] = wr[h].def
    /\ wr[h].req = "disable" => wr[h].def # None /\ ~wr[h].def.enabled
    /\ wr[h].pc \in {"add", "swap"} => wr[h].req \notin {"delete", "disable"}

Held == \A h \in Handlers : HeldBy(h)

LEMMA HeldStays ==
  ASSUME NEW h \in Handlers, HeldBy(h), wr'[h] = wr[h],
         wr[h].pc \in {"dereg", "add", "swap"} =>
            shared'[wr[h].agent] = shared[wr[h].agent] /\ mem'[wr[h].agent] = mem[wr[h].agent]
  PROVE  HeldBy(h)'
  BY DEF HeldBy

\* An agent is switched off: its definition in the map is the handler's.
LEMMA SwitchHeld ==
  ASSUME TypeInv, WritersBusy, Held, NEW a \in Agents, SetEnabledInMemory(a, FALSE),
         UNCHANGED <<disk, shared, dirty>>
  PROVE  Held'
<1> USE NoneAssumption, WritersAssumption
<1> SUFFICES ASSUME NEW h \in Handlers PROVE HeldBy(h)'
  BY DEF Held
<1>1. HeldBy(h) /\ h \in Writers /\ wr[h] \in WriterRecord
  BY DEF Held, Writers, TypeInv, WritersOK
<1>2. CASE shared[a] # h
  <2>1. wr'[h] = wr[h]
    BY <1>1, <1>2 DEF SetEnabledInMemory
  <2>2. \A b \in Agents : b # a => mem'[b] = mem[b]
    BY DEF SetEnabledInMemory, TypeInv, LoaderOK
  <2>3. wr[h].pc \in {"dereg", "add", "swap"} /\ wr[h].req # "delete" =>
           wr[h].agent # a /\ wr[h].agent \in Agents
    <3>1. wr[h].pc \in {"dereg", "add", "swap"} /\ wr[h].req # "delete" =>
             shared[wr[h].agent] = h
      BY <1>1 DEF HeldBy
    <3>2. wr[h].pc \in {"dereg", "add", "swap"} /\ wr[h].req # "delete" => wr[h].agent # a
      BY <1>2, <3>1
    <3>3. wr[h].pc \in {"dereg", "add", "swap"} => wr[h].agent \in Agents
      BY <1>1 DEF WritersBusy
    <3>4. QED
      BY <3>2, <3>3
  <2>4. QED
    BY <1>1, <2>1, <2>2, <2>3 DEF HeldBy
<1>3. CASE shared[a] = h
  <2>1. Holds(h, a) /\ mem[a] = wr[h].def
    BY <1>1, <1>3 DEF TypeInv, WritersOK, SharedHeld, Holds, HeldBy
  <2>2. wr[h].def \in Definitions
    BY <1>1, <2>1 DEF Holds, WriterRecord
  <2> DEFINE d == [wr[h].def EXCEPT !.enabled = FALSE]
  <2>3. d \in Definitions /\ d # None /\ ~d.enabled
    BY <2>2 DEF Definitions
  <2>4. mem'[a] = d
    BY <2>1 DEF Holds, SetEnabledInMemory, TypeInv, LoaderOK
  <2>5. wr'[h] = [wr[h] EXCEPT !.def = d]
    BY <1>1, <1>3 DEF SetEnabledInMemory
  <2> HIDE DEF d
  <2>6. /\ wr'[h].pc = wr[h].pc /\ wr'[h].agent = wr[h].agent /\ wr'[h].req = wr[h].req
        /\ wr'[h].def = d
    BY <1>1, <2>5 DEF WriterRecord
  <2>7. QED
    BY <1>1, <1>3, <2>1, <2>3, <2>4, <2>6 DEF HeldBy, Holds
<1>4. QED
  BY <1>2, <1>3

\* Requests that register work on different agents.
LEMMA ApartHeld ==
  ASSUME TypeInv, WritersBusy, RequestsApart, NEW h \in Handlers, NEW k \in Handlers, h # k,
         wr[h].pc \in {"dereg", "add", "swap"}
  PROVE  wr[h].agent # wr[k].agent
  BY NoneAssumption DEF RequestsApart, WritersBusy, Writers

\* A handler that is done holds nothing, and what others hold stays.
LEMMA DoneHeld ==
  ASSUME TypeInv, WritersBusy, Held, NEW k \in Handlers, Done(k), UNCHANGED mem
  PROVE  Held'
<1> USE NoneAssumption, WritersAssumption
<1>1. /\ wr'[k] = IdleWriter /\ \A h \in Handlers : h # k => wr'[h] = wr[h]
      /\ shared' = [a \in Agents |-> IF shared[a] = k THEN None ELSE shared[a]]
      /\ shared \in [Agents -> Handlers \cup {None}]
  BY DEF Done, TypeInv, WritersOK, Writers
<1>2. HeldBy(k)'
  BY <1>1 DEF HeldBy, IdleWriter
<1>3. ASSUME NEW h \in Handlers, h # k PROVE HeldBy(h)'
  <2>1. /\ HeldBy(h) /\ wr'[h] = wr[h]
        /\ wr[h].pc \in {"dereg", "add", "swap"} => wr[h].agent \in Agents
    BY <1>1, <1>3 DEF Held, WritersBusy, Writers
  <2>2. wr[h].pc \in {"dereg", "add", "swap"} /\ wr[h].req # "delete" =>
           shared'[wr[h].agent] = h
    BY <1>1, <1>3, <2>1 DEF HeldBy
  <2>3. QED
    BY <1>1, <2>1, <2>2 DEF HeldBy
<1>4. QED
  BY <1>2, <1>3 DEF Held

LEMMA HeldNext ==
  ASSUME TypeInv, WritersBusy, Held, RequestsApart, [Next]_vars, Reloaders = {}
  PROVE  Held'
<1> USE NoneAssumption, WritersAssumption
<1>0. /\ Writers = Handlers /\ wr \in [Writers -> WriterRecord]
      /\ shared \in [Agents -> Handlers \cup {None}]
      /\ mem \in [Agents -> Definitions \cup {None}]
  BY DEF Writers, TypeInv, WritersOK, LoaderOK
<1>1. UNCHANGED <<mem, shared, wr>> => Held'
  BY HeldStays DEF Held
<1>2. ASSUME NEW t \in Threads, StartThread(t) \/ ThreadStep(t) PROVE Held'
  <2>1. CASE QuarantineDisable(t)
    <3>1. th[t].agent \in Agents
      BY <2>1 DEF QuarantineDisable, At, TypeInv, ThreadsOK, ThreadsBusy
    <3>2. QED
      BY <2>1, <3>1, SwitchHeld DEF QuarantineDisable
  <2>2. CASE ~QuarantineDisable(t)
    <3>1. UNCHANGED <<mem, shared, wr>>
      BY <1>2, <2>2 DEF StartThread, CronTick, TimerDue, CatchUp, ManualTrigger, ThreadStep,
         FireCheck, FireDrop, FireGate, TryStartRun, Lookup, RunCompletes, RunFails,
         QuarantineDeregister, QuarantineClear, MarkCompleted, Deliver, FinishRun,
         OneShotForget, loaderVars
    <3>2. QED
      BY <1>1, <3>1
  <2>3. QED
    BY <2>1, <2>2
<1>3. ASSUME NEW j \in Jobs, TimerCancelled(j) PROVE Held'
  BY <1>1, <1>3 DEF TimerCancelled, loaderVars
<1>4. ASSUME NEW a \in Agents, BootValidation(a) PROVE Held'
  BY <1>4, SwitchHeld DEF BootValidation
<1>5. CASE NewRequest
  <2>1. PICK k \in Handlers, a \in Agents, d \in Choices \cup {None},
             r \in {"create", "save", "enable", "disable", "delete"} : Request(k, a, r, d)
    BY <1>5 DEF NewRequest
  <2>2. /\ wr'[k] = [pc |-> IF r = "delete" THEN "dereg" ELSE "upsert",
                     req |-> r, agent |-> a, def |-> d, job |-> None]
        /\ \A h \in Handlers : h # k => wr'[h] = wr[h]
        /\ UNCHANGED <<mem, shared>>
    BY <1>0, <2>1 DEF Request, loaderVars
  <2>3. r = "disable" => d # None /\ ~d.enabled
    <3>1. ASSUME r = "disable" PROVE mem[a] \in Definitions /\ d = [mem[a] EXCEPT !.enabled = FALSE]
      BY <1>0, <2>1, <3>1 DEF Request
    <3>2. ASSUME r = "disable" PROVE d \in Definitions /\ ~d.enabled
      BY <3>1, <3>2 DEF Definitions
    <3>3. QED
      BY <3>2 DEF Definitions
  <2>4. HeldBy(k)'
    BY <2>2, <2>3 DEF HeldBy
  <2>5. QED
    BY <2>2, <2>4, HeldStays DEF Held
<1>6. ASSUME NEW k \in Handlers, HandlerStep(k) PROVE Held'
  <2>0. wr[k] \in WriterRecord /\ HeldBy(k)
    BY <1>0 DEF Held
  <2>1. CASE Upsert(k)
    <3>1. /\ wr[k].pc = "upsert" /\ wr' = [wr EXCEPT ![k].pc = "store"] /\ UNCHANGED <<mem, shared>>
      BY <2>1 DEF Upsert
    <3>2. HeldBy(k)'
      BY <1>0, <2>0, <3>1 DEF HeldBy, WriterRecord
    <3>3. QED
      BY <1>0, <3>1, <3>2, HeldStays DEF Held
  <2>2. CASE UpsertFails(k)
    <3>1. wr' = [wr EXCEPT ![k] = IdleWriter] /\ UNCHANGED <<mem, shared>>
      BY <2>2 DEF UpsertFails, loaderVars
    <3>2. HeldBy(k)'
      BY <1>0, <3>1 DEF HeldBy, IdleWriter
    <3>3. QED
      BY <1>0, <3>1, <3>2, HeldStays DEF Held
  <2>3. CASE Store(k)
    <3> DEFINE a == wr[k].agent
    <3>1. /\ wr[k].pc = "store" /\ a \in Agents /\ wr[k].def # None /\ wr[k].req # "delete"
          /\ mem' = [mem EXCEPT ![a] = wr[k].def] /\ shared' = [shared EXCEPT ![a] = k]
          /\ wr' = [wr EXCEPT ![k].pc =
                      IF wr[k].req \in {"save", "disable"} THEN "dereg" ELSE "add"]
      BY <1>0, <2>3 DEF Store, StoreDefinition, WritersBusy, TypeInv, WritersOK, StoringDefined
    <3>2. HeldBy(k)'
      BY <1>0, <2>0, <3>1 DEF HeldBy, WriterRecord
    <3>3. ASSUME NEW h \in Handlers, h # k PROVE HeldBy(h)'
      <4>1. wr'[h] = wr[h] /\ HeldBy(h)
        BY <1>0, <3>1, <3>3 DEF Held
      <4>2. wr[h].pc \in {"dereg", "add", "swap"} => wr[h].agent # a
        BY <3>3, ApartHeld
      <4>3. QED
        BY <1>0, <3>1, <4>1, <4>2, HeldStays
    <3>4. QED
      BY <3>2, <3>3 DEF Held
  <2>4. CASE HandlerDeregister(k)
    <3>1. /\ wr[k].pc = "dereg" /\ UNCHANGED mem
          /\ \/ wr[k].req = "disable" /\ Done(k)
             \/ /\ wr[k].req # "disable" /\ UNCHANGED shared
                /\ wr' = [wr EXCEPT ![k].pc = IF wr[k].req = "save" THEN "add" ELSE "remove"]
      BY <2>4 DEF HandlerDeregister
    <3>2. CASE Done(k)
      BY <3>1, <3>2, DoneHeld
    <3>3. CASE wr[k].req # "disable" /\ ~Done(k)
      <4>1. HeldBy(k)'
        BY <1>0, <2>0, <3>1, <3>3 DEF HeldBy, WriterRecord
      <4>2. QED
        BY <1>0, <3>1, <3>3, <4>1, HeldStays DEF Held
    <3>4. QED
      BY <3>1, <3>2, <3>3
  <2>5. CASE Remove(k)
    <3> DEFINE a == wr[k].agent
    <3>1. /\ wr[k].pc = "remove" /\ a \in Agents
          /\ mem' = [mem EXCEPT ![a] = None] /\ shared' = [shared EXCEPT ![a] = None]
          /\ wr' = [wr EXCEPT ![k] = IdleWriter]
      BY <1>0, <2>5 DEF Remove, WritersBusy
    <3>2. HeldBy(k)'
      BY <1>0, <3>1 DEF HeldBy, IdleWriter
    <3>3. ASSUME NEW h \in Handlers, h # k PROVE HeldBy(h)'
      <4>1. wr'[h] = wr[h] /\ HeldBy(h)
        BY <1>0, <3>1, <3>3 DEF Held
      <4>2. wr[h].pc \in {"dereg", "add", "swap"} => wr[h].agent # a
        BY <3>3, ApartHeld
      <4>3. QED
        BY <1>0, <3>1, <4>1, <4>2, HeldStays
    <3>4. QED
      BY <3>2, <3>3 DEF Held
  <2>6. CASE StoreUnsynced(k)
    <3> DEFINE a == wr[k].agent
    <3>1. /\ wr[k].pc = "store" /\ a \in Agents
          /\ mem' = [mem EXCEPT ![a] = wr[k].def] /\ shared' = [shared EXCEPT ![a] = None]
          /\ wr' = [wr EXCEPT ![k] = IdleWriter]
      BY <1>0, <2>6 DEF StoreUnsynced, StoreDefinition, WritersBusy
    <3>2. HeldBy(k)'
      BY <1>0, <3>1 DEF HeldBy, IdleWriter
    <3>3. ASSUME NEW h \in Handlers, h # k PROVE HeldBy(h)'
      <4>1. wr'[h] = wr[h] /\ HeldBy(h)
        BY <1>0, <3>1, <3>3 DEF Held
      <4>2. wr[h].pc \in {"dereg", "add", "swap"} => wr[h].agent # a
        BY <3>3, ApartHeld
      <4>3. QED
        BY <1>0, <3>1, <4>1, <4>2, HeldStays
    <3>4. QED
      BY <3>2, <3>3 DEF Held
  <2>7. CASE RemoveNothing(k) \/ RemoveFails(k)
    <3>1. wr' = [wr EXCEPT ![k] = IdleWriter] /\ UNCHANGED <<mem, shared>>
      BY <2>7 DEF RemoveNothing, RemoveFails, loaderVars
    <3>2. HeldBy(k)'
      BY <1>0, <3>1 DEF HeldBy, IdleWriter
    <3>3. QED
      BY <1>0, <3>1, <3>2, HeldStays DEF Held
  <2>8. QED
    BY <1>6, <2>1, <2>2, <2>3, <2>4, <2>5, <2>6, <2>7 DEF HandlerStep
<1>7. ASSUME NEW k \in Writers, RegisterStep(k) PROVE Held'
  <2>0. k \in Handlers /\ wr[k] \in WriterRecord /\ HeldBy(k)
    BY <1>0 DEF Held
  <2>1. CASE UNCHANGED mem /\ Done(k)
    BY <1>0, <2>0, <2>1, DoneHeld
  <2>2. ASSUME NEW j \in Jobs, AddCron(k, j) PROVE Held'
    <3>1. /\ wr[k].pc = "add" /\ UNCHANGED <<mem, shared>>
          /\ wr' = [wr EXCEPT ![k].pc = "swap", ![k].job = j]
      BY <2>2 DEF AddCron, loaderVars
    <3>2. wr'[k] = [[wr[k] EXCEPT !.pc = "swap"] EXCEPT !.job = j]
      BY <1>0, <3>1
    <3>3. /\ wr'[k].pc = "swap" /\ wr'[k].agent = wr[k].agent /\ wr'[k].req = wr[k].req
          /\ wr'[k].def = wr[k].def
      BY <2>0, <3>2 DEF WriterRecord
    <3>4. HeldBy(k)'
      BY <2>0, <3>1, <3>3 DEF HeldBy
    <3>5. QED
      BY <1>0, <3>1, <3>4, HeldStays DEF Held
  <2>3. QED
    BY <1>7, <2>1, <2>2 DEF RegisterStep, RegisterSkip, RegisterFails, SwapCron, AddOneShot
<1>8. ASSUME NEW a \in EditedFiles, NEW d \in Choices \cup {None}, EditFile(a, d) PROVE Held'
  BY <1>1, <1>8 DEF EditFile
<1>9. CASE Restart
  BY <1>0, <1>9 DEF Restart, Held, HeldBy, IdleWriter
<1>10. CASE UNCHANGED vars
  BY <1>1, <1>10 DEF vars, loaderVars
<1>11. QED
  BY <1>2, <1>3, <1>4, <1>5, <1>6, <1>7, <1>8, <1>9, <1>10 DEF Next

\* An enabled cron agent has an entry, or is being quarantined, or a request is about
\* to register or to delete it.
Quarantined(a) == \E t \in Threads : th[t].agent = a /\ th[t].pc = "qdisable"
Attended(a) ==
    \E h \in Handlers : wr[h].agent = a /\ wr[h].pc \in {"dereg", "remove", "add", "swap"}

KeptFor(a) ==
    IsCron(a) /\ Wanted(mem[a]) => handle[a] # None \/ Quarantined(a) \/ Attended(a)

Kept == \A a \in Agents : KeptFor(a)

QuarantinesLast == \A a \in Agents : Quarantined(a) => Quarantined(a)'

LEMMA KeptStays ==
  ASSUME Kept, NEW a \in Agents, mem'[a] = mem[a], Quarantined(a) => Quarantined(a)',
         Attended(a) => Attended(a)', IsCron(a) /\ handle[a] # None => handle'[a] # None
  PROVE  KeptFor(a)'
  BY DEF Kept, KeptFor

\* A goroutine goes on; only that of a quarantine leaves "qdisable".
LEMMA QuarantinesGo ==
  ASSUME TypeInv, NEW t \in Threads, StartThread(t) \/ ThreadStep(t), ~QuarantineDisable(t)
  PROVE  QuarantinesLast
<1>1. th[t].pc # "qdisable" /\ th \in [Threads -> ThreadRecord]
  BY DEF StartThread, CronTick, TimerDue, CatchUp, ManualTrigger, ThreadStep, Spawn, At,
     FireCheck, FireDrop, FireGate, TryStartRun, Lookup, RunCompletes, RunFails,
     QuarantineDeregister, QuarantineClear, MarkCompleted, Deliver, FinishRun,
     OneShotForget, TypeInv, ThreadsOK
<1>2. \A u \in Threads : u # t => th'[u] = th[u]
  <2>1. CASE StartThread(t)
    BY <1>1, <2>1 DEF StartThread, CronTick, TimerDue, CatchUp, ManualTrigger, Spawn
  <2>2. CASE OneShotForget(t)
    BY <1>1, <2>2 DEF OneShotForget
  <2>3. CASE ThreadStep(t) /\ ~OneShotForget(t)
    BY <2>3, ThreadsGo DEF ThreadGoes
  <2>4. QED
    BY <2>1, <2>2, <2>3
<1>3. QED
  BY <1>1, <1>2 DEF QuarantinesLast, Quarantined

\* The request of k moves on, for the agent it has.
LEMMA AttentionStays ==
  ASSUME NEW k \in Handlers, NEW a, \A h \in Handlers : h # k => wr'[h] = wr[h],
         wr[k].agent = a /\ wr[k].pc \in {"dereg", "remove", "add", "swap"} =>
            wr'[k].agent = a /\ wr'[k].pc \in {"dereg", "remove", "add", "swap"}
  PROVE  Attended(a) => Attended(a)'
  BY DEF Attended

\* Whoever is switched off needs no entry; the others are left alone.
LEMMA SwitchKept ==
  ASSUME TypeInv, Kept, NEW b \in Agents, SetEnabledInMemory(b, FALSE), UNCHANGED handle,
         NEW a \in Agents, a # b => (Quarantined(a) => Quarantined(a)')
  PROVE  KeptFor(a)'
<1> USE NoneAssumption
<1>0. /\ mem \in [Agents -> Definitions \cup {None}]
      /\ mem' = [mem EXCEPT ![b] = IF @ = None THEN None ELSE [@ EXCEPT !.enabled = FALSE]]
  BY DEF TypeInv, LoaderOK, SetEnabledInMemory
<1>1. CASE a = b
  <2>1. ~Wanted(mem'[a])
    <3>1. CASE mem[a] = None
      BY <1>0, <1>1, <3>1 DEF Wanted, OnSchedule
    <3>2. CASE mem[a] # None
      <4>1. mem[a] \in Definitions /\ mem'[a] = [mem[a] EXCEPT !.enabled = FALSE]
        BY <1>0, <1>1, <3>2
      <4>2. ~mem'[a].enabled
        BY <4>1 DEF Definitions
      <4>3. QED
        BY <4>2 DEF Wanted, OnSchedule
    <3>3. QED
      BY <3>1, <3>2
  <2>2. QED
    BY <2>1 DEF KeptFor
<1>2. CASE a # b
  <2>1. SameWriters
    BY SwitchSameWriters DEF TypeInv
  <2>2. Attended(a) => Attended(a)'
    BY <2>1 DEF SameWriters, Attended, Writers
  <2>3. QED
    BY <1>0, <1>2, <2>2, KeptStays
<1>3. QED
  BY <1>1, <1>2

LEMMA KeptByThreads ==
  ASSUME TypeInv, ForgetsTimers, Kept, NEW t \in Threads, StartThread(t) \/ ThreadStep(t),
         ~LosesEntry
  PROVE  Kept'
<1> USE NoneAssumption
<1> DEFINE mine == th[t].agent
<1>0. /\ mem \in [Agents -> Definitions \cup {None}] /\ handle \in [Agents -> Jobs \cup {None}]
      /\ th \in [Threads -> ThreadRecord]
  BY DEF TypeInv, LoaderOK, TablesOK, ThreadsOK
<1> SUFFICES ASSUME NEW a \in Agents PROVE KeptFor(a)'
  BY DEF Kept
<1>1. CASE QuarantineDisable(t)
  <2>1. /\ SetEnabledInMemory(mine, FALSE) /\ UNCHANGED handle /\ mine \in Agents
        /\ \A u \in Threads : u # t => th'[u] = th[u]
    BY <1>1 DEF QuarantineDisable, tableVars, At, GoTo, TypeInv, ThreadsOK, ThreadsBusy
  <2>2. a # mine => (Quarantined(a) => Quarantined(a)')
    BY <2>1 DEF Quarantined
  <2>3. QED
    BY <2>1, <2>2, SwitchKept
<1>2. CASE ~QuarantineDisable(t)
  <2>1. Quarantined(a) => Quarantined(a)'
    BY <1>2, QuarantinesGo DEF QuarantinesLast
  <2>2. UNCHANGED <<mem, wr>>
    BY <1>2 DEF StartThread, CronTick, TimerDue, CatchUp, ManualTrigger, ThreadStep,
       FireCheck, FireDrop, FireGate, TryStartRun, Lookup, RunCompletes, RunFails,
       QuarantineDeregister, QuarantineClear, MarkCompleted, Deliver, FinishRun,
       OneShotForget, loaderVars
  <2>3. Attended(a) => Attended(a)'
    BY <2>2 DEF Attended
  <2>4. CASE FireDrop(t)
    <3>1. mine \in Agents /\ ~Wanted(mem[mine]) /\ handle' = [handle EXCEPT ![mine] = None]
      BY <2>4 DEF LosesEntry, StaleDrop, FireDrop, Deregister, At, TypeInv, ThreadsOK, ThreadsBusy
    <3>2. CASE a = mine
      BY <2>2, <3>1, <3>2 DEF KeptFor
    <3>3. CASE a # mine
      BY <1>0, <2>1, <2>2, <2>3, <3>1, <3>3, KeptStays
    <3>4. QED
      BY <3>2, <3>3
  <2>5. CASE QuarantineDeregister(t)
    <3>1. /\ mine \in Agents /\ handle' = [handle EXCEPT ![mine] = None]
          /\ th' = [th EXCEPT ![t].pc = "qdisable"]
      BY <2>5 DEF QuarantineDeregister, Deregister, At, GoTo, TypeInv, ThreadsOK, ThreadsBusy
    <3>2. CASE a = mine
      <4>1. Quarantined(a)'
        BY <1>0, <3>1, <3>2 DEF Quarantined, ThreadRecord
      <4>2. QED
        BY <4>1 DEF KeptFor
    <3>3. CASE a # mine
      BY <1>0, <2>1, <2>2, <2>3, <3>1, <3>3, KeptStays
    <3>4. QED
      BY <3>2, <3>3
  <2>6. CASE OneShotForget(t)
    <3>1. ~IsCron(mine) /\ handle' = [handle EXCEPT ![mine] = None]
      BY <2>6 DEF OneShotForget, At, ForgetsTimers
    <3>2. QED
      BY <1>0, <2>1, <2>2, <2>3, <3>1, KeptStays
  <2>7. CASE ~(FireDrop(t) \/ QuarantineDeregister(t) \/ OneShotForget(t))
    <3>1. UNCHANGED handle
      BY <1>2, <2>7 DEF StartThread, CronTick, TimerDue, CatchUp, ManualTrigger, ThreadStep,
         FireCheck, FireGate, TryStartRun, Lookup, RunCompletes, RunFails,
         QuarantineClear, MarkCompleted, Deliver, FinishRun, tableVars
    <3>2. QED
      BY <2>1, <2>2, <2>3, <3>1, KeptStays
  <2>8. QED
    BY <2>4, <2>5, <2>6, <2>7
<1>3. QED
  BY <1>1, <1>2

LEMMA KeptByRequests ==
  ASSUME TypeInv, WritersBusy, Held, Kept, NEW k \in Handlers, HandlerStep(k),
         Writers = Handlers, ~LosesEntry
  PROVE  Kept'
<1> USE NoneAssumption
<1> DEFINE mine == wr[k].agent
<1>0. /\ mem \in [Agents -> Definitions \cup {None}] /\ handle \in [Agents -> Jobs \cup {None}]
      /\ wr \in [Handlers -> WriterRecord] /\ ThreadsOK /\ HeldBy(k)
  BY DEF TypeInv, LoaderOK, TablesOK, WritersOK, Held
<1> SUFFICES ASSUME NEW a \in Agents PROVE KeptFor(a)'
  BY DEF Kept
<1>1. CASE Upsert(k) \/ UpsertFails(k)
  <2>1. /\ wr[k].pc = "upsert" /\ UNCHANGED <<mem, handle, th>>
        /\ \A h \in Handlers : h # k => wr'[h] = wr[h]
    BY <1>0, <1>1 DEF Upsert, UpsertFails, loaderVars, tableVars
  <2>2. Quarantined(a) => Quarantined(a)'
    BY <2>1 DEF Quarantined
  <2>3. Attended(a) => Attended(a)'
    BY <2>1, AttentionStays
  <2>4. QED
    BY <2>1, <2>2, <2>3, KeptStays
<1>2. CASE Store(k)
  <2>1. /\ wr[k].pc = "store" /\ mine \in Agents /\ UNCHANGED handle
        /\ mem' = [mem EXCEPT ![mine] = wr[k].def] /\ th' = WithLoader(mem')
        /\ wr' = [wr EXCEPT ![k].pc =
                    IF wr[k].req \in {"save", "disable"} THEN "dereg" ELSE "add"]
    BY <1>0, <1>2 DEF Store, StoreDefinition, WritersBusy, tableVars
  <2>2. CASE a = mine
    <3>1. Attended(a)'
      BY <1>0, <2>1, <2>2 DEF Attended, WriterRecord
    <3>2. QED
      BY <3>1 DEF KeptFor
  <2>3. CASE a # mine
    <3>1. Quarantined(a) => Quarantined(a)'
      BY <1>0, <2>1, WithLoaderFires DEF Quarantined
    <3>2. Attended(a) => Attended(a)'
      BY <1>0, <2>1, AttentionStays
    <3>3. QED
      BY <1>0, <2>1, <2>3, <3>1, <3>2, KeptStays
  <2>4. QED
    BY <2>2, <2>3
<1>3. CASE HandlerDeregister(k)
  <2>1. /\ wr[k].pc = "dereg" /\ mine \in Agents /\ UNCHANGED <<mem, th>>
        /\ handle' = [handle EXCEPT ![mine] = None]
        /\ \/ wr[k].req = "disable" /\ Done(k)
           \/ wr' = [wr EXCEPT ![k].pc = IF wr[k].req = "save" THEN "add" ELSE "remove"]
    BY <1>0, <1>3 DEF HandlerDeregister, Deregister, WritersBusy
  <2>2. \A h \in Handlers : h # k => wr'[h] = wr[h]
    BY <1>0, <2>1 DEF Done
  <2>3. Quarantined(a) => Quarantined(a)'
    BY <2>1 DEF Quarantined
  <2>4. CASE a # mine
    <3>1. Attended(a) => Attended(a)'
      BY <2>2, <2>4, AttentionStays
    <3>2. QED
      BY <1>0, <2>1, <2>3, <2>4, <3>1, KeptStays
  <2>5. CASE a = mine /\ wr[k].req = "disable"
    <3>1. mem'[a] = wr[k].def /\ ~wr[k].def.enabled
      BY <1>0, <2>1, <2>5 DEF HeldBy
    <3>2. QED
      BY <3>1 DEF KeptFor, Wanted, OnSchedule
  <2>6. CASE a = mine /\ wr[k].req # "disable"
    <3>1. Attended(a)'
      BY <1>0, <2>1, <2>6 DEF Attended, WriterRecord
    <3>2. QED
      BY <3>1 DEF KeptFor
  <2>7. QED
    BY <2>4, <2>5, <2>6
<1>4. CASE Remove(k)
  <2>1. /\ wr[k].pc = "remove" /\ mine \in Agents /\ UNCHANGED handle
        /\ mem' = [mem EXCEPT ![mine] = None] /\ th' = WithLoader(mem')
        /\ \A h \in Handlers : h # k => wr'[h] = wr[h]
    BY <1>0, <1>4 DEF Remove, WritersBusy, tableVars
  <2>2. CASE a = mine
    BY <1>0, <2>1, <2>2 DEF KeptFor, Wanted, OnSchedule
  <2>3. CASE a # mine
    <3>1. Quarantined(a) => Quarantined(a)'
      BY <1>0, <2>1, WithLoaderFires DEF Quarantined
    <3>2. Attended(a) => Attended(a)'
      BY <2>1, <2>3, AttentionStays
    <3>3. QED
      BY <1>0, <2>1, <2>3, <3>1, <3>2, KeptStays
  <2>4. QED
    BY <2>2, <2>3
<1>5. CASE RemoveNothing(k)
  <2>1. /\ mem[mine] = None /\ UNCHANGED <<mem, handle, th>>
        /\ \A h \in Handlers : h # k => wr'[h] = wr[h]
    BY <1>0, <1>5 DEF RemoveNothing, loaderVars, tableVars
  <2>2. CASE a = mine
    BY <2>1, <2>2 DEF KeptFor, Wanted, OnSchedule
  <2>3. CASE a # mine
    <3>1. Attended(a) => Attended(a)'
      BY <2>1, <2>3, AttentionStays
    <3>2. QED
      BY <2>1, <3>1, KeptStays DEF Quarantined
  <2>4. QED
    BY <2>2, <2>3
<1>6. QED
  BY <1>1, <1>2, <1>3, <1>4, <1>5 DEF HandlerStep, LosesEntry

LEMMA KeptByRegistrations ==
  ASSUME TypeInv, WritersBusy, Held, Tables, Kept, NEW k \in Handlers, RegisterStep(k),
         Writers = Handlers
  PROVE  Kept'
<1> USE NoneAssumption
<1> DEFINE mine == wr[k].agent
<1>0. /\ mem \in [Agents -> Definitions \cup {None}] /\ handle \in [Agents -> Jobs \cup {None}]
      /\ wr \in [Handlers -> WriterRecord] /\ HeldBy(k)
  BY DEF TypeInv, LoaderOK, TablesOK, WritersOK, Held
<1> SUFFICES ASSUME NEW a \in Agents PROVE KeptFor(a)'
  BY DEF Kept
<1>1. /\ UNCHANGED <<mem, th>> /\ \A h \in Handlers : h # k => wr'[h] = wr[h]
      /\ mine \in Agents
  BY <1>0 DEF RegisterStep, RegisterSkip, RegisterFails, SwapCron, AddCron, AddOneShot, Done,
     loaderVars, WritersBusy
<1>2. Quarantined(a) => Quarantined(a)'
  BY <1>1 DEF Quarantined
<1>3. CASE a # mine
  <2>1. handle'[a] = handle[a]
    BY <1>0, <1>1, <1>3 DEF RegisterStep, RegisterSkip, RegisterFails, SwapCron, AddCron,
       AddOneShot, tableVars
  <2>2. Attended(a) => Attended(a)'
    BY <1>1, <1>3, AttentionStays
  <2>3. QED
    BY <1>1, <1>2, <2>1, <2>2, KeptStays
<1>4. CASE a = mine
  <2>1. CASE RegisterSkip(k) \/ RegisterFails(k)
    <3>1. mem'[a] = wr[k].def /\ ~Wanted(wr[k].def)
      BY <1>0, <1>1, <1>4, <2>1 DEF RegisterSkip, RegisterFails, Wanted, HeldBy
    <3>2. QED
      BY <3>1 DEF KeptFor
  <2>2. CASE SwapCron(k)
    <3>1. wr[k].job \in Jobs
      BY <2>2 DEF SwapCron, Tables, SwapsOwn, Swapping
    <3>2. handle'[a] # None
      BY <1>0, <1>4, <2>2, <3>1 DEF SwapCron
    <3>3. QED
      BY <3>2 DEF KeptFor
  <2>3. ASSUME NEW j \in Jobs, AddCron(k, j) PROVE KeptFor(a)'
    <3>1. wr'[k] = [[wr[k] EXCEPT !.pc = "swap"] EXCEPT !.job = j]
      BY <1>0, <2>3 DEF AddCron
    <3>2. wr'[k].pc = "swap" /\ wr'[k].agent = a
      BY <1>0, <1>4, <3>1 DEF WriterRecord
    <3>3. QED
      BY <3>2 DEF KeptFor, Attended
  <2>4. ASSUME NEW j \in Jobs, AddOneShot(k, j) PROVE KeptFor(a)'
    BY <1>4, <2>4 DEF AddOneShot, KeptFor
  <2>5. QED
    BY <2>1, <2>2, <2>3, <2>4 DEF RegisterStep
<1>5. QED
  BY <1>3, <1>4

LEMMA KeptNext ==
  ASSUME TypeInv, WritersBusy, ForgetsTimers, Tables, Held, Kept, [Next]_vars,
         ~LosesEntry, Reloaders = {}
  PROVE  Kept'
<1> USE NoneAssumption
<1>0. Writers = Handlers
  BY DEF Writers
<1>1. ASSUME UNCHANGED <<mem, handle, th, wr>>, NEW a \in Agents PROVE KeptFor(a)'
  BY <1>1, KeptStays DEF Quarantined, Attended
<1>2. ASSUME NEW j \in Jobs, TimerCancelled(j) PROVE Kept'
  BY <1>1, <1>2 DEF TimerCancelled, loaderVars, Kept
<1>3. ASSUME NEW b \in Agents, BootValidation(b), NEW a \in Agents PROVE KeptFor(a)'
  <2>1. SetEnabledInMemory(b, FALSE) /\ UNCHANGED <<handle, th>>
    BY <1>3 DEF BootValidation, tableVars
  <2>2. Quarantined(a) => Quarantined(a)'
    BY <2>1 DEF Quarantined
  <2>3. QED
    BY <2>1, <2>2, SwitchKept
<1>4. ASSUME NewRequest, NEW a \in Agents PROVE KeptFor(a)'
  <2>1. PICK k \in Handlers, b \in Agents, d \in Choices \cup {None},
             r \in {"create", "save", "enable", "disable", "delete"} : Request(k, b, r, d)
    BY <1>4 DEF NewRequest
  <2>2. /\ wr[k].pc = "idle" /\ UNCHANGED <<mem, handle, th>>
        /\ \A h \in Handlers : h # k => wr'[h] = wr[h]
    BY <1>0, <2>1 DEF Request, loaderVars, tableVars, TypeInv, WritersOK
  <2>3. Attended(a) => Attended(a)'
    BY <2>2, AttentionStays
  <2>4. Quarantined(a) => Quarantined(a)'
    BY <2>2 DEF Quarantined
  <2>5. QED
    BY <2>2, <2>3, <2>4, KeptStays
<1>5. ASSUME NEW a \in EditedFiles, NEW d \in Choices \cup {None}, EditFile(a, d) PROVE Kept'
  BY <1>1, <1>5 DEF EditFile, tableVars, Kept
<1>6. ASSUME Restart, NEW a \in Agents PROVE KeptFor(a)'
  BY <1>6 DEF Restart, Registrations, KeptFor
<1>7. ASSUME UNCHANGED vars PROVE Kept'
  BY <1>1, <1>7 DEF vars, loaderVars, tableVars, Kept
<1>8. QED
  BY <1>0, <1>2, <1>3, <1>4, <1>5, <1>6, <1>7, KeptByThreads, KeptByRequests,
     KeptByRegistrations DEF Next, Kept

\* Re-enabling takes effect without a restart (fireAt's comment), except through the gaps
\* the model names: without reloads, an enabled cron agent whose expression parses has its
\* entry whenever everything is quiet, whatever runs, quarantines, failing writes, failing
\* registrations and restarts came before, if no drop acts on an old look at the agent, no
\* request fails between storing a definition and registering it or between deregistering
\* an agent and removing its file, and the requests for one agent do not overlap.
THEOREM EntriesAreKept ==
  ASSUME Reloaders = {}
  PROVE  Spec /\ []RequestsApart /\ [][~LosesEntry]_vars => []EnabledIsScheduled
<1>1. Init => Held /\ Kept
  BY DEF Init, Held, HeldBy, Kept, KeptFor, Registrations, Writers, IdleWriter
<1>2. /\ TypeInv /\ WritersBusy /\ ForgetsTimers /\ Tables /\ Held /\ Kept /\ RequestsApart
      /\ [Next]_vars /\ [~LosesEntry]_vars
      => (Held /\ Kept)'
  <2>1. ASSUME TypeInv, WritersBusy, ForgetsTimers, Tables, Held, Kept, RequestsApart,
               [Next]_vars, ~LosesEntry
        PROVE  Held' /\ Kept'
    BY <2>1, HeldNext, KeptNext
  <2>2. ASSUME Held, Kept, UNCHANGED vars PROVE Held' /\ Kept'
    BY <2>2 DEF vars, loaderVars, tableVars, Held, HeldBy, Kept, KeptFor, Quarantined, Attended
  <2>3. QED
    BY <2>1, <2>2
<1>3. Kept => EnabledIsScheduled
  BY DEF Kept, KeptFor, EnabledIsScheduled, Quiet, Quarantined, Attended, Writers
<1>4. QED
  BY <1>1, <1>2, <1>3, AlwaysConsistent, PTL DEF Spec

================================================================================
