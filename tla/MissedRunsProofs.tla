--------------------------- MODULE MissedRunsProofs ---------------------------
(***************************************************************************)
(* Proofs about what a restart does to the schedule (module MissedRuns):     *)
(* the record of completed fires is earned and never goes back.              *)
(***************************************************************************)
EXTENDS MissedRuns, Integers, WellFoundedInduction, TLAPS

-----------------------------------------------------------------------------
(* Times.                                                                    *)

LEMMA MaxIsIn == ASSUME NEW S \in SUBSET Times, S # {} PROVE Max(S) \in S
<1> DEFINE D == {n \in Nat : \E s \in S : n = Horizon - s}
<1>1. Horizon \in Nat
  BY ClockAssumption
<1>2. \A s \in S : s \in Nat /\ Horizon - s \in D
  BY <1>1 DEF Times
<1>3. D # {} /\ D \subseteq Nat
  BY <1>2
<1>4. PICK n \in D : \A m \in D : ~ (<<m, n>> \in OpToRel(<, Nat))
  <2> HIDE DEF D
  <2>1. QED
    BY <1>3, NatLessThanWellFounded, WFMin
<1>5. PICK s \in S : n = Horizon - s
  OBVIOUS
<1>6. \A r \in S : ~ (Horizon - r < n)
  BY <1>2, <1>4, <1>3 DEF OpToRel
<1>7. \A r \in S : s >= r
  BY <1>1, <1>2, <1>5, <1>6
<1>8. QED
  BY <1>7 DEF Max

LEMMA NextSlotType == ASSUME NEW t \in Times PROVE NextSlot(t) \in 0 .. Horizon + Period
<1>1. t \in Nat /\ t <= Horizon /\ Horizon \in Nat /\ Period \in Nat \ {0}
  BY ClockAssumption DEF Times
<1>2. t \div Period \in Nat /\ (t \div Period) * Period <= t
  BY <1>1
<1>3. (t \div Period + 1) * Period = (t \div Period) * Period + Period
  BY <1>1, <1>2
<1>4. (t \div Period) * Period \in Nat
  BY <1>1, <1>2
<1>5. QED
  BY <1>1, <1>2, <1>3, <1>4 DEF NextSlot

-----------------------------------------------------------------------------
(* Types.  A goroutine that has a fire has one of an agent that may have it.  *)

Stages == {"gate", "run", "mark", "deliver", "finish"}

Fires == [pc : Stages, agent : Agents, trig : {"cron", "missed", "oneshot"},
          at : Times, slot : Times]

Placed == th \in [Threads -> Fires \cup {Idle}]

\* Only the fire of a cron agent is recorded.
Marks == \A t \in Threads :
    ~ IsIdle(t) => /\ th[t].trig # "oneshot" => th[t].agent \in Crons
                   /\ th[t].pc = "mark" => th[t].trig # "oneshot"

TypeInv == MissedTypeOK /\ Placed /\ Marks

LEMMA IdleIsNone == Idle \notin Fires
  BY DEF Idle, Fires, Stages

LEMMA Busy ==
  ASSUME TypeInv, NEW t \in Threads, NEW pc \in Stages, At(t, pc)
  PROVE  ~ IsIdle(t) /\ th[t] \in Fires
<1>1. th[t] # Idle
  BY DEF At, Idle, Stages
<1>2. QED
  BY <1>1 DEF TypeInv, Placed, IsIdle

\* A goroutine goes on, and changes nothing of its fire.
LEMMA GoesOn ==
  ASSUME TypeInv, NEW t \in Threads, th[t] \in Fires, NEW pc \in Stages, GoTo(t, pc),
         pc = "mark" => th[t].trig # "oneshot"
  PROVE  /\ Placed' /\ Marks'
         /\ th'[t].agent = th[t].agent /\ th'[t].at = th[t].at /\ th'[t].pc = pc
         /\ th'[t].trig = th[t].trig /\ th'[t] \in Fires
         /\ \A u \in Threads \ {t} : th'[u] = th[u]
<1> DEFINE f == [th[t] EXCEPT !.pc = pc]
<1>1. /\ f \in Fires /\ f.pc = pc /\ f.agent = th[t].agent /\ f.at = th[t].at
      /\ f.trig = th[t].trig
  BY DEF Fires
<1>2. th' = [th EXCEPT ![t] = f]
  BY DEF GoTo
<1> HIDE DEF f
<1>3. th'[t] = f /\ (\A u \in Threads \ {t} : th'[u] = th[u]) /\ Placed'
  BY <1>1, <1>2 DEF TypeInv, Placed
<1>4. Marks'
  <2> SUFFICES ASSUME NEW u \in Threads, ~ IsIdle(u)'
               PROVE  /\ th'[u].trig # "oneshot" => th'[u].agent \in Crons
                      /\ th'[u].pc = "mark" => th'[u].trig # "oneshot"
    BY DEF Marks
  <2>1. CASE u = t
    <3>1. th[t] # Idle
      BY IdleIsNone
    <3>2. QED
      BY <1>1, <1>3, <2>1, <3>1 DEF TypeInv, Marks, IsIdle
  <2>2. CASE u # t
    BY <1>3, <2>2 DEF TypeInv, Marks, IsIdle
  <2>3. QED
    BY <2>1, <2>2
<1>5. QED
  BY <1>1, <1>3, <1>4

\* A goroutine ends.
LEMMA Ends ==
  ASSUME TypeInv, NEW t \in Threads, th' = [th EXCEPT ![t] = Idle]
  PROVE  Placed' /\ Marks' /\ \A u \in Threads : th'[u] = IF u = t THEN Idle ELSE th[u]
<1>1. Placed' /\ \A u \in Threads : th'[u] = IF u = t THEN Idle ELSE th[u]
  BY DEF TypeInv, Placed
<1>2. QED
  BY <1>1 DEF TypeInv, Marks, IsIdle

\* A goroutine gets a fire.
LEMMA Begins ==
  ASSUME TypeInv, NEW t \in Threads, NEW a \in Agents, NEW trig \in {"cron", "missed", "oneshot"},
         NEW at \in Times, NEW slot \in Times, th' = [th EXCEPT ![t] = Fire(a, trig, at, slot)],
         trig # "oneshot" => a \in Crons
  PROVE  /\ Placed' /\ Marks'
         /\ \A u \in Threads : th'[u].pc = "mark" => th[u] = th'[u]
<1> DEFINE f == Fire(a, trig, at, slot)
<1>1. f \in Fires /\ f.pc = "gate" /\ f.agent = a /\ f.trig = trig
  BY DEF Fire, Fires, Stages
<1> HIDE DEF f
<1>2. th' = [th EXCEPT ![t] = f]
  BY DEF f
<1>3. th'[t] = f /\ (\A u \in Threads \ {t} : th'[u] = th[u]) /\ Placed'
  BY <1>1, <1>2 DEF TypeInv, Placed
<1>4. Marks'
  <2> SUFFICES ASSUME NEW u \in Threads, ~ IsIdle(u)'
               PROVE  /\ th'[u].trig # "oneshot" => th'[u].agent \in Crons
                      /\ th'[u].pc = "mark" => th'[u].trig # "oneshot"
    BY DEF Marks
  <2>1. CASE u = t
    BY <1>1, <1>3, <2>1
  <2>2. CASE u # t
    BY <1>3, <2>2 DEF TypeInv, Marks, IsIdle
  <2>3. QED
    BY <2>1, <2>2
<1>5. QED
  BY <1>1, <1>3, <1>4

LEMMA TypeInit == MissedInit => TypeInv
<1> SUFFICES ASSUME MissedInit PROVE TypeInv
  OBVIOUS
<1>1. 0 \in Times /\ 0 \in 0 .. Horizon + Period
  BY ClockAssumption DEF Times
<1>2. Placed /\ Marks
  BY DEF MissedInit, Placed, Marks, IsIdle
<1>3. MissedTypeOK
  <2>1. boot \in [pc : {"down", "registered", "daemon", "started"}, at : Times,
                  todo : SUBSET Crons]
    BY <1>1 DEF MissedInit, NoProcess
  <2>2. Never \in Records /\ nextFire \in [Crons -> 0 .. Horizon + Period] /\ tried \in Records
    BY <1>1 DEF MissedInit, Never, Records
  <2>3. QED
    BY <1>1, <2>1, <2>2 DEF MissedInit, MissedTypeOK, IsIdle
<1>4. QED
  BY <1>2, <1>3 DEF TypeInv

\* The goroutines' part of the type invariant is that of Placed.
LEMMA ThreadTypes ==
  ASSUME Placed
  PROVE  \A t \in Threads :
            \/ IsIdle(t)
            \/ th[t] \in [pc : {"gate", "run", "mark", "deliver", "finish"}, agent : Agents,
                          trig : {"cron", "missed", "oneshot"}, at : Times, slot : Times]
  BY DEF Placed, IsIdle, Fires, Stages

\* The rest of it.
Rest ==
    /\ now \in Times /\ boots \in Nat
    /\ file \in Records \cup {Absent} /\ mem \in Records /\ hasSeen \in BOOLEAN
    /\ boot \in [pc : {"down", "registered", "daemon", "started"}, at : Times, todo : SUBSET Crons]
    /\ nextFire \in [Crons -> 0 .. Horizon + Period]
    /\ timers \subseteq OneShots /\ running \subseteq Agents
    /\ completed \subseteq Agents \X Times \X Times \X Nat /\ tried \in Records
    /\ lost \subseteq Slots

LEMMA RestIs == (TypeInv <=> Rest /\ Placed /\ Marks) /\ (Rest /\ Placed => MissedTypeOK)
<1>1. Rest /\ Placed => MissedTypeOK
  BY ThreadTypes DEF Rest, MissedTypeOK
<1>2. MissedTypeOK => Rest
  BY DEF Rest, MissedTypeOK
<1>3. QED
  BY <1>1, <1>2 DEF TypeInv

\* Whether the file could be read or not.
LEMMA KnownType == TypeInv => Reads \subseteq BOOLEAN /\ \A read \in Reads : Known(read) \in Records
  BY DEF TypeInv, MissedTypeOK, Loaded, Known, Reads

LEMMA ThreadsStep == TypeInv /\ [MissedNext]_missedVars => Placed' /\ Marks'
<1> SUFFICES ASSUME TypeInv, [MissedNext]_missedVars PROVE Placed' /\ Marks'
  OBVIOUS
<1>0. ASSUME UNCHANGED th PROVE Placed' /\ Marks'
  BY <1>0 DEF TypeInv, Placed, Marks, IsIdle
<1>1. CASE Advance \/ Boot \/ DaemonStarts \/ CatchUpBegins
  BY <1>0, <1>1 DEF Advance, Boot, DaemonStarts, CatchUpBegins
<1>2. CASE Killed
  BY <1>2 DEF Killed, Placed, Marks, IsIdle
<1>3. ASSUME NEW a \in Crons, CheckMissed(a) PROVE Placed' /\ Marks'
  <2>0. PICK read \in Reads :
          LET missed == MissedFires(a, Known(read)) IN
          \/ UNCHANGED th
          \/ /\ missed # {}
             /\ \E t \in Threads :
                   th' = [th EXCEPT ![t] = Fire(a, "missed", Latest(missed), Latest(missed))]
    BY <1>3 DEF CheckMissed
  <2> DEFINE missed == MissedFires(a, Known(read))
  <2>1. CASE UNCHANGED th
    BY <1>0, <2>1
  <2>2. CASE missed # {} /\ ~ UNCHANGED th
    <3>1. missed \in SUBSET Times
      BY DEF MissedFires, Slots
    <3>2. Latest(missed) \in Times
      BY <2>2, <3>1, MaxIsIn DEF Latest
    <3>3. PICK t \in Threads :
             th' = [th EXCEPT ![t] = Fire(a, "missed", Latest(missed), Latest(missed))]
      BY <2>0, <2>2
    <3> HIDE DEF missed
    <3>4. QED
      BY <3>2, <3>3, Begins DEF Agents
  <2>3. QED
    BY <2>0, <2>1, <2>2
<1>4. ASSUME NEW t \in Threads, NEW a \in Crons, Tick(a, t) PROVE Placed' /\ Marks'
  <2>1. nextFire[a] \in Times /\ now \in Times
    BY <1>4, ClockAssumption DEF TypeInv, MissedTypeOK, Tick, Times
  <2>2. QED
    BY <1>4, <2>1, Begins DEF Tick, Agents
<1>5. ASSUME NEW t \in Threads, NEW a \in OneShots, TimerDue(a, t) PROVE Placed' /\ Marks'
  <2>1. DueAt \in Times /\ now \in Times
    BY <1>5, ClockAssumption DEF TypeInv, MissedTypeOK, TimerDue, Times
  <2>2. QED
    BY <1>5, <2>1, Begins DEF TimerDue, Agents
<1>6. ASSUME NEW t \in Threads, TryStartRun(t) PROVE Placed' /\ Marks'
  BY <1>6, Busy, GoesOn, Ends DEF TryStartRun, Stages
<1>7. ASSUME NEW t \in Threads, RunCompletes(t) PROVE Placed' /\ Marks'
  BY <1>7, Busy, GoesOn DEF RunCompletes, Stages
<1>8. ASSUME NEW t \in Threads, RunFails(t) PROVE Placed' /\ Marks'
  BY <1>8, Busy, GoesOn DEF RunFails, Stages
<1>9. ASSUME NEW t \in Threads, MarkCompleted(t) PROVE Placed' /\ Marks'
  BY <1>9, Busy, GoesOn DEF MarkCompleted, Stages
<1>10. ASSUME NEW t \in Threads, Deliver(t) PROVE Placed' /\ Marks'
  BY <1>10, Busy, GoesOn DEF Deliver, Stages
<1>11. ASSUME NEW t \in Threads, FinishRun(t) PROVE Placed' /\ Marks'
  BY <1>11, Ends DEF FinishRun
<1>12. CASE UNCHANGED missedVars
  BY <1>0, <1>12 DEF missedVars
<1>13. QED
  BY <1>1, <1>2, <1>3, <1>4, <1>5, <1>6, <1>7, <1>8, <1>9, <1>10, <1>11, <1>12
     DEF MissedNext, StartStep, ThreadStep

LEMMA RestStep == TypeInv /\ [MissedNext]_missedVars => Rest'
<1> SUFFICES ASSUME TypeInv, [MissedNext]_missedVars PROVE Rest'
  OBVIOUS
<1>0. Rest /\ Never \in Records /\ Horizon \in Nat
  BY RestIs, ClockAssumption DEF Never, Records, Times
<1> USE DEF Rest, disk, history
<1>1. CASE Advance
  <2>1. now' \in Times
    BY <1>0, <1>1 DEF Advance, Times
  <2>2. lost' \subseteq Slots
    BY <1>0, <1>1 DEF Advance
  <2>3. QED
    BY <1>0, <1>1, <2>1, <2>2 DEF Advance
<1>2. CASE Boot
  <2>1. boot' \in [pc : {"down", "registered", "daemon", "started"}, at : Times,
                   todo : SUBSET Crons]
    BY <1>0, <1>2 DEF Boot, NoProcess, Times
  <2>2. QED
    <3>1. mem' \in Records /\ hasSeen' \in BOOLEAN /\ file' = file
      BY <1>0, <1>2 DEF Boot
    <3>2. QED
      BY <1>0, <1>2, <2>1, <3>1 DEF Boot
<1>3. CASE DaemonStarts
  <2>1. nextFire' \in [Crons -> 0 .. Horizon + Period]
    <3>1. NextSlot(now) \in 0 .. Horizon + Period
      BY <1>0, NextSlotType
    <3>2. QED
      BY <1>3, <3>1 DEF DaemonStarts
  <2>2. boot' \in [pc : {"down", "registered", "daemon", "started"}, at : Times,
                   todo : SUBSET Crons]
    BY <1>0, <1>3 DEF DaemonStarts
  <2>3. QED
    BY <1>0, <1>3, <2>1, <2>2 DEF DaemonStarts
<1>4. CASE CatchUpBegins
  BY <1>0, <1>4 DEF CatchUpBegins
<1>5. CASE Killed
  <2>1. boot' \in [pc : {"down", "registered", "daemon", "started"}, at : Times,
                   todo : SUBSET Crons]
    BY <1>0, <1>5 DEF Killed, NoProcess, Times
  <2>2. nextFire' \in [Crons -> 0 .. Horizon + Period]
    BY <1>0, <1>5, ClockAssumption DEF Killed, Never
  <2>3. QED
    BY <1>0, <1>5, <2>1, <2>2 DEF Killed
<1>6. ASSUME NEW a \in Crons, CheckMissed(a) PROVE Rest'
  <2>1. boot' \in [pc : {"down", "registered", "daemon", "started"}, at : Times,
                   todo : SUBSET Crons]
    BY <1>0, <1>6 DEF CheckMissed
  <2>2. mem' \in Records /\ hasSeen' \in BOOLEAN
    BY <1>0, <1>6, KnownType DEF CheckMissed
  <2>3. QED
    BY <1>0, <1>6, <2>1, <2>2 DEF CheckMissed
<1>7. ASSUME NEW t \in Threads, NEW a \in Crons, Tick(a, t) PROVE Rest'
  <2>1. NextSlot(now) \in 0 .. Horizon + Period
    BY <1>0, NextSlotType
  <2>2. QED
    BY <1>0, <1>7, <2>1 DEF Tick
<1>8. ASSUME NEW t \in Threads, NEW a \in OneShots, TimerDue(a, t) PROVE Rest'
  BY <1>0, <1>8 DEF TimerDue
<1>9. ASSUME NEW t \in Threads, TryStartRun(t) PROVE Rest'
  <2>1. th[t] \in Fires
    BY <1>9, Busy DEF TryStartRun, Stages
  <2>2. th[t].agent \in Agents /\ th[t].slot \in Times
    BY <2>1 DEF Fires
  <2>3. tried' \in Records
    <3>1. \A a \in Crons : Max({tried[a], th[t].slot}) \in Times
      <4> SUFFICES ASSUME NEW a \in Crons PROVE Max({tried[a], th[t].slot}) \in Times
        OBVIOUS
      <4>1. {tried[a], th[t].slot} \in SUBSET Times
        BY <1>0, <2>2 DEF Records
      <4>2. QED
        BY <4>1, MaxIsIn
    <3>2. QED
      BY <1>0, <1>9, <3>1 DEF TryStartRun, Records
  <2>4. running' \subseteq Agents
    BY <1>0, <1>9, <2>2 DEF TryStartRun
  <2>5. QED
    BY <1>0, <1>9, <2>3, <2>4 DEF TryStartRun
<1>10. ASSUME NEW t \in Threads, RunCompletes(t) PROVE Rest'
  <2>1. th[t] \in Fires
    BY <1>10, Busy DEF RunCompletes, Stages
  <2>2. th[t].agent \in Agents /\ th[t].slot \in Times /\ th[t].at \in Times
    BY <2>1 DEF Fires
  <2>3. QED
    BY <1>0, <1>10, <2>2 DEF RunCompletes
<1>11. ASSUME NEW t \in Threads, RunFails(t) PROVE Rest'
  BY <1>0, <1>11 DEF RunFails
<1>12. ASSUME NEW t \in Threads, MarkCompleted(t) PROVE Rest'
  <2>1. th[t] \in Fires
    BY <1>12, Busy DEF MarkCompleted, Stages
  <2>2. th[t].at \in Times
    BY <2>1 DEF Fires
  <2>3. mem' \in Records /\ hasSeen' \in BOOLEAN
    BY <1>0, <1>12, <2>2, KnownType DEF MarkCompleted, Record, Records
  <2>4. file' = file \/ file' = mem'
    BY <1>12 DEF MarkCompleted, Record
  <2>5. QED
    BY <1>0, <1>12, <2>3, <2>4 DEF MarkCompleted
<1>13. ASSUME NEW t \in Threads, Deliver(t) PROVE Rest'
  BY <1>0, <1>13 DEF Deliver
<1>14. ASSUME NEW t \in Threads, FinishRun(t) PROVE Rest'
  BY <1>0, <1>14 DEF FinishRun
<1>15. CASE UNCHANGED missedVars
  BY <1>0, <1>15 DEF missedVars
<1>16. QED
  BY <1>1, <1>2, <1>3, <1>4, <1>5, <1>6, <1>7, <1>8, <1>9, <1>10, <1>11, <1>12, <1>13, <1>14,
     <1>15
     DEF MissedNext, StartStep, ThreadStep

LEMMA AlwaysTyped == MissedSpec => []TypeInv
<1>1. Rest' /\ Placed' /\ Marks' => TypeInv'
  BY RestIs, PTL
<1>2. QED
  BY <1>1, TypeInit, ThreadsStep, RestStep, PTL DEF MissedSpec

\* A goroutine that records a fire has one of a cron agent, and every time is one that
\* the clock has shown.
THEOREM Types == MissedSpec => []MissedTypeOK
  BY AlwaysTyped, PTL DEF TypeInv

-----------------------------------------------------------------------------
(* The record.                                                               *)

\* Some run of the agent at that time completed.
Earned(a, at) == at = 0 \/ \E run \in completed : run[1] = a /\ run[3] = at

\* Besides the file, its copy in memory is earned (a save may have failed), and what
\* a goroutine is about to write.  The copy of a process that has read the file, or
\* written it, is never behind the file.
EarnedInv ==
    /\ \A a \in Crons : Earned(a, Recorded(a)) /\ Earned(a, mem[a])
    /\ \A t \in Threads : At(t, "mark") => Earned(th[t].agent, th[t].at)
    /\ hasSeen => \A a \in Crons : Recorded(a) <= mem[a]

LEMMA KnownIs ==
  ASSUME TypeInv, EarnedInv, NEW read \in Reads, NEW a \in Crons
  PROVE  /\ Earned(a, Known(read)[a]) /\ Known(read)[a] \in Nat /\ Recorded(a) \in Nat
         /\ read \/ hasSeen => Recorded(a) <= Known(read)[a]
<1>0. mem[a] \in Nat /\ read \in BOOLEAN
  BY KnownType DEF TypeInv, MissedTypeOK, Records, Times
<1>1. Recorded(a) \in Nat /\ Loaded[a] \in Nat /\ Earned(a, Loaded[a]) /\ Recorded(a) <= Loaded[a]
  <2>1. CASE file = Absent
    BY <1>0, <2>1 DEF EarnedInv, Loaded, Recorded
  <2>2. CASE file # Absent
    <3>1. file[a] \in Nat
      BY <2>2 DEF TypeInv, MissedTypeOK, Records, Times
    <3>2. QED
      BY <2>2, <3>1 DEF EarnedInv, Loaded, Recorded
  <2>3. QED
    BY <2>1, <2>2
<1>2. CASE read
  BY <1>1, <1>2 DEF Known
<1>3. CASE ~ read
  BY <1>0, <1>1, <1>3 DEF Known, EarnedInv
<1>4. QED
  BY <1>0, <1>2, <1>3

LEMMA EarnedInit == MissedInit => EarnedInv
<1> SUFFICES ASSUME MissedInit PROVE EarnedInv
  OBVIOUS
<1>1. \A t \in Threads : ~ At(t, "mark")
  BY DEF MissedInit, At, Idle
<1>2. QED
  BY <1>1 DEF MissedInit, EarnedInv, Earned, Recorded, Never

\* A step that records nothing and sends no goroutine to record.
LEMMA EarnedStays ==
  ASSUME EarnedInv, UNCHANGED file, completed \subseteq completed',
         \A a \in Crons : mem'[a] = mem[a] \/ mem'[a] = 0 \/ Earned(a, mem'[a]),
         \A t \in Threads : th'[t].pc = "mark" => th[t] = th'[t],
         \/ UNCHANGED <<mem, hasSeen>>
         \/ hasSeen' => \A a \in Crons : Recorded(a) <= mem'[a]
  PROVE  EarnedInv'
<1>1. \A a \in Crons : Earned(a, Recorded(a)) /\ Recorded(a)' = Recorded(a)
  BY DEF EarnedInv, Recorded
<1>2. \A a, n : Earned(a, n) => (n = 0 \/ \E run \in completed' : run[1] = a /\ run[3] = n)
  BY DEF Earned
<1>3. QED
  BY <1>1, <1>2 DEF EarnedInv, Earned, At

\* What markScheduleCompleted leaves in the file and in the copy, whether the file can be
\* read and written or not.
LEMMA Marked ==
  ASSUME TypeInv, EarnedInv, NEW t \in Threads, MarkCompleted(t), th[t].agent \in Crons,
         th[t] \in Fires, Earned(th[t].agent, th[t].at), NEW b \in Crons
  PROVE  /\ Earned(b, mem'[b])
         /\ Recorded(b)' = Recorded(b) \/ Recorded(b)' = mem'[b]
         /\ hasSeen' => Recorded(b)' <= mem'[b]
         /\ hasSeen => Recorded(b) <= Recorded(b)'
<1> DEFINE a == th[t].agent
           at == th[t].at
<1>0. at \in Nat
  BY DEF Fires, Times
<1>1. PICK read \in Reads :
        \/ mem' = Known(read) /\ hasSeen' = (hasSeen \/ read) /\ UNCHANGED file
        \/ Known(read)[a] <= at /\ Record(a, at, Known(read), read)
  BY DEF MarkCompleted
<1> DEFINE known == Known(read)
<1>2. /\ known \in Records /\ Earned(b, known[b]) /\ known[b] \in Nat /\ Recorded(b) \in Nat
      /\ read \/ hasSeen => Recorded(b) <= known[b]
  BY KnownIs, KnownType
<1>3. CASE mem' = known /\ hasSeen' = (hasSeen \/ read) /\ UNCHANGED file
  <2>1. Recorded(b)' = Recorded(b) /\ (hasSeen' => read \/ hasSeen)
    BY <1>3 DEF Recorded
  <2>2. Earned(b, mem'[b]) /\ (hasSeen' => Recorded(b) <= mem'[b])
    BY <1>2, <1>3, <2>1
  <2>3. QED
    BY <1>2, <2>1, <2>2
<1>4. CASE known[a] <= at /\ Record(a, at, known, read)
  <2>1. PICK saved \in Saves :
          /\ mem' = [known EXCEPT ![a] = at]
          /\ file' = IF saved THEN mem' ELSE file
          /\ hasSeen' = (hasSeen \/ read \/ saved)
    BY <1>4 DEF Record
  <2> HIDE DEF known, a, at
  <2>2. mem'[b] = (IF b = a THEN at ELSE known[b]) /\ DOMAIN mem' = Crons /\ known[b] <= mem'[b]
    BY <1>0, <1>2, <1>4, <2>1 DEF Records
  <2>3. Earned(b, mem'[b])
    BY <1>2, <2>2 DEF a, at
  <2>4. mem'[b] \in Nat
    BY <1>0, <1>2, <2>2
  <2>5. CASE saved
    <3>1. mem' # Absent
      <4>1. DOMAIN Absent = {} /\ DOMAIN mem' # {}
        BY <2>2 DEF Absent
      <4>2. QED
        BY <4>1
    <3>2. Recorded(b)' = mem'[b]
      BY <2>1, <2>5, <3>1 DEF Recorded
    <3>3. QED
      BY <1>2, <2>2, <2>3, <2>4, <3>2
  <2>6. CASE ~ saved
    <3>1. Recorded(b)' = Recorded(b) /\ (hasSeen' => hasSeen \/ read)
      BY <2>1, <2>6 DEF Recorded, Saves
    <3>2. QED
      BY <1>2, <2>2, <2>3, <2>4, <3>1
  <2>7. QED
    BY <2>5, <2>6
<1>5. QED
  BY <1>1, <1>3, <1>4

LEMMA EarnedStep == TypeInv /\ EarnedInv /\ [MissedNext]_missedVars => EarnedInv'
<1> SUFFICES ASSUME TypeInv, EarnedInv, [MissedNext]_missedVars PROVE EarnedInv'
  OBVIOUS
<1> USE DEF disk, history
<1>1. CASE Advance \/ Boot \/ DaemonStarts \/ CatchUpBegins
  BY <1>1, EarnedStays DEF Advance, Boot, DaemonStarts, CatchUpBegins, Never
<1>2. CASE Killed
  <2>1. \A t \in Threads : th'[t].pc # "mark"
    BY <1>2 DEF Killed, Idle
  <2>2. QED
    BY <1>2, <2>1, EarnedStays DEF Killed, Never
<1>3. ASSUME NEW a \in Crons, CheckMissed(a) PROVE EarnedInv'
  <2>0. PICK read \in Reads :
          LET missed == MissedFires(a, Known(read)) IN
          /\ mem' = Known(read) /\ hasSeen' = (hasSeen \/ read)
          /\ \/ UNCHANGED th
             \/ /\ missed # {}
                /\ \E t \in Threads :
                      th' = [th EXCEPT ![t] = Fire(a, "missed", Latest(missed), Latest(missed))]
    BY <1>3 DEF CheckMissed
  <2>1. UNCHANGED <<file, completed>>
    BY <1>3 DEF CheckMissed
  <2>2. \A t \in Threads : th'[t].pc = "mark" => th[t] = th'[t]
    <3> DEFINE missed == MissedFires(a, Known(read))
    <3>1. CASE missed # {} /\ ~ UNCHANGED th
      <4>1. PICK t \in Threads :
               th' = [th EXCEPT ![t] = Fire(a, "missed", Latest(missed), Latest(missed))]
        BY <2>0, <3>1
      <4>2. missed \in SUBSET Times
        BY DEF MissedFires, Slots
      <4>3. Latest(missed) \in Times
        BY <3>1, <4>2, MaxIsIn DEF Latest
      <4> HIDE DEF missed
      <4>4. QED
        BY <4>1, <4>3, Begins DEF Agents
    <3>2. QED
      BY <2>0, <3>1
  <2>3. QED
    BY <2>0, <2>1, <2>2, EarnedStays, KnownIs
<1>4. ASSUME NEW t \in Threads, NEW a \in Crons, Tick(a, t) PROVE EarnedInv'
  <2>1. \A u \in Threads : th'[u].pc = "mark" => th[u] = th'[u]
    <3>1. nextFire[a] \in Times /\ now \in Times
      BY <1>4, ClockAssumption DEF TypeInv, MissedTypeOK, Tick, Times
    <3>2. QED
      BY <1>4, <3>1, Begins DEF Tick, Agents
  <2>2. QED
    BY <1>4, <2>1, EarnedStays DEF Tick
<1>5. ASSUME NEW t \in Threads, NEW a \in OneShots, TimerDue(a, t) PROVE EarnedInv'
  <2>1. \A u \in Threads : th'[u].pc = "mark" => th[u] = th'[u]
    <3>1. DueAt \in Times /\ now \in Times
      BY <1>5, ClockAssumption DEF TypeInv, MissedTypeOK, TimerDue, Times
    <3>2. QED
      BY <1>5, <3>1, Begins DEF TimerDue, Agents
  <2>2. QED
    BY <1>5, <2>1, EarnedStays DEF TimerDue
<1>6. ASSUME NEW t \in Threads, UNCHANGED <<disk, completed>>, At(t, "gate") \/ At(t, "run")
                                 \/ At(t, "deliver") \/ At(t, "finish"),
             GoTo(t, "run") \/ GoTo(t, "deliver") \/ GoTo(t, "finish")
                \/ th' = [th EXCEPT ![t] = Idle]
      PROVE  EarnedInv'
  <2>1. \A u \in Threads : th'[u].pc = "mark" => th[u] = th'[u]
    <3>1. th[t] \in Fires
      BY <1>6, Busy DEF Stages
    <3>2. CASE th' = [th EXCEPT ![t] = Idle]
      BY <3>2, Ends DEF Idle
    <3>3. ASSUME NEW pc \in {"run", "deliver", "finish"}, GoTo(t, pc)
          PROVE  \A u \in Threads : th'[u].pc = "mark" => th[u] = th'[u]
      BY <3>1, <3>3, GoesOn DEF Stages
    <3>4. QED
      BY <1>6, <3>2, <3>3
  <2>2. QED
    BY <1>6, <2>1, EarnedStays
<1>7. ASSUME NEW t \in Threads, RunCompletes(t) PROVE EarnedInv'
  <2>1. th[t] \in Fires
    BY <1>7, Busy DEF RunCompletes, Stages
  <2>2. /\ th'[t].agent = th[t].agent /\ th'[t].at = th[t].at
        /\ \A u \in Threads \ {t} : th'[u] = th[u]
    BY <1>7, <2>1, GoesOn DEF RunCompletes, Stages
  <2>3. /\ completed' = completed \cup {<<th[t].agent, th[t].slot, th[t].at, boots>>}
        /\ UNCHANGED disk
    BY <1>7 DEF RunCompletes
  <2>4. \A a, n : Earned(a, n) => (n = 0 \/ \E run \in completed' : run[1] = a /\ run[3] = n)
    BY <2>3 DEF Earned
  <2>5. \E run \in completed' : run[1] = th[t].agent /\ run[3] = th[t].at
    <3> DEFINE run == <<th[t].agent, th[t].slot, th[t].at, boots>>
    <3>1. run[1] = th[t].agent /\ run[3] = th[t].at /\ run \in completed'
      BY <2>3
    <3>2. QED
      BY <3>1
  <2>6. QED
    BY <2>2, <2>3, <2>4, <2>5 DEF EarnedInv, Earned, Recorded, At
<1>8. ASSUME NEW t \in Threads, MarkCompleted(t) PROVE EarnedInv'
  <2>1. th[t] \in Fires /\ th[t].agent \in Crons /\ Earned(th[t].agent, th[t].at)
    <3>1. th[t] \in Fires /\ ~ IsIdle(t)
      BY <1>8, Busy DEF MarkCompleted, Stages
    <3>2. QED
      BY <1>8, <3>1 DEF TypeInv, Marks, EarnedInv, MarkCompleted, At
  <2>2. th'[t].pc = "deliver" /\ \A u \in Threads \ {t} : th'[u] = th[u]
    BY <1>8, <2>1, GoesOn DEF MarkCompleted, Stages
  <2>3. \A a \in Crons : Earned(a, mem'[a])
    BY <1>8, <2>1, Marked
  <2>4. /\ \A a \in Crons : Recorded(a)' = Recorded(a) \/ Recorded(a)' = mem'[a] \/ Recorded(a)' = 0
        /\ hasSeen' => \A a \in Crons : Recorded(a)' <= mem'[a]
    BY <1>8, <2>1, Marked
  <2>5. completed' = completed
    BY <1>8 DEF MarkCompleted
  <2>6. QED
    BY <2>2, <2>3, <2>4, <2>5 DEF EarnedInv, Earned, At
<1>9. ASSUME NEW t \in Threads, TryStartRun(t) \/ RunFails(t) \/ Deliver(t) \/ FinishRun(t)
      PROVE  EarnedInv'
  BY <1>6, <1>9 DEF TryStartRun, RunFails, Deliver, FinishRun
<1>10. CASE UNCHANGED missedVars
  BY <1>10, EarnedStays DEF missedVars
<1>11. QED
  BY <1>1, <1>2, <1>3, <1>4, <1>5, <1>7, <1>8, <1>9, <1>10 DEF MissedNext, StartStep, ThreadStep

LEMMA AlwaysEarned == MissedSpec => [](TypeInv /\ EarnedInv)
<1>1. MissedSpec => []EarnedInv
  BY EarnedInit, EarnedStep, AlwaysTyped, PTL DEF MissedSpec
<1>2. QED
  BY <1>1, AlwaysTyped, PTL

\* The file never says more than what some run completed, whatever load or save failed
\* and whatever was cut off between the run and the save (markScheduleCompleted).
THEOREM TheRecordIsEarned == MissedSpec => []RecordIsEarned
<1>1. EarnedInv => RecordIsEarned
  BY DEF EarnedInv, RecordIsEarned, Earned
<1>2. QED
  BY <1>1, AlwaysEarned, PTL

LEMMA NoStepBack ==
  TypeInv /\ EarnedInv /\ [MissedNext]_missedVars
    => (hasSeen => \A a \in Crons : Recorded(a) <= Recorded(a)')
<1> SUFFICES ASSUME TypeInv, EarnedInv, [MissedNext]_missedVars, hasSeen, NEW b \in Crons
             PROVE  Recorded(b) <= Recorded(b)'
  OBVIOUS
<1> USE DEF disk, history
<1>0. Recorded(b) \in Nat
  BY KnownIs DEF Reads
<1>1. ASSUME UNCHANGED file PROVE Recorded(b) <= Recorded(b)'
  BY <1>0, <1>1 DEF Recorded
<1>2. ASSUME NEW t \in Threads, MarkCompleted(t) PROVE Recorded(b) <= Recorded(b)'
  <2>1. th[t] \in Fires /\ ~ IsIdle(t)
    BY <1>2, Busy DEF MarkCompleted, Stages
  <2>2. th[t].agent \in Crons /\ Earned(th[t].agent, th[t].at)
    BY <1>2, <2>1 DEF TypeInv, Marks, EarnedInv, MarkCompleted, At
  <2>3. QED
    BY <1>2, <2>1, <2>2, Marked
<1>3. QED
  BY <1>1, <1>2
     DEF MissedNext, StartStep, ThreadStep, Advance, Killed, Boot, DaemonStarts, CatchUpBegins,
         CheckMissed, Tick, TimerDue, TryStartRun, RunCompletes, RunFails, Deliver, FinishRun,
         missedVars

\* A fire that completes late never overwrites the record of a newer one
\* (markScheduleCompleted): the record of an agent goes back only in a process that
\* writes the file without having been able to read it since its start.
THEOREM TheRecordStands == MissedSpec => RecordNeverGoesBack
  BY NoStepBack, AlwaysEarned, PTL DEF MissedSpec, RecordNeverGoesBack
=============================================================================
