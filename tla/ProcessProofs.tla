----------------------------- MODULE ProcessProofs -----------------------------
(***************************************************************************)
(* Proofs about the programs that the gateway starts: the workers of the     *)
(* Python pool (module PythonPool), and the sidecar of a channel (module     *)
(* Sidecar).  The two have nothing in common but this file.                  *)
(***************************************************************************)
EXTENDS PythonPool, Sidecar, FiniteSetTheorems, TLAPS

-----------------------------------------------------------------------------
(* Types, and what a run and a replacement hold at each stage.               *)

\* A run holds a worker from Acquire to Push or Reap, and one only; a replacement
\* has one from Spawn to Install.
Stages ==
    \A r \in Runs :
        /\ held[r] # {} => run[r] \in {"talk", "push", "kill", "reap"}
        /\ \A v, w \in held[r] : v = w
        /\ fresh[r] # {} => spare[r] = "give"
        /\ \A v, w \in fresh[r] : v = w
        /\ run[r] = "push" => sender[r] = "answered"
        /\ attempts[r] <= MaxAttempts /\ (attempts[r] = MaxAttempts => spare[r] = "lost")

Staged == TypeOK /\ Stages

LEMMA StagedInit == Init => Staged
<1> SUFFICES ASSUME Init PROVE Staged
  OBVIOUS
<1>1. 1..Size \subseteq Workers
  <2>1. Cardinality(Runs) \in Nat
    BY RunsAssumption, FS_CardinalityType
  <2>2. QED
    BY <2>1, SizeAssumption DEF Workers
<1>2. QED
  BY <1>1, AttemptsAssumption DEF Init, Staged, TypeOK, Stages, RunPCs, SenderPCs, SparePCs

LEMMA StagedNext == Staged /\ [Next]_vars => Staged'
<1> SUFFICES ASSUME Staged, [Next]_vars PROVE Staged'
  OBVIOUS
<1> USE DEF Staged, TypeOK, Stages, RunPCs, SenderPCs, SparePCs
<1>1. ASSUME NEW r \in Runs, Start(r) PROVE Staged'
  BY <1>1 DEF Start, Go
<1>2. ASSUME NEW r \in Runs, Acquire(r) PROVE Staged'
  BY <1>2 DEF Acquire, Go, Say
<1>3. ASSUME NEW r \in Runs, Leave(r) PROVE Staged'
  BY <1>3 DEF Leave, Go
<1>4. ASSUME NEW r \in Runs, Finish(r) PROVE Staged'
  BY <1>4 DEF Finish, Go
<1>5. ASSUME NEW r \in Runs, TimeOut(r) PROVE Staged'
  BY <1>5 DEF TimeOut, Go
<1>6. ASSUME NEW r \in Runs, Push(r) PROVE Staged'
  BY <1>6 DEF Push, Go, Give
<1>7. ASSUME NEW r \in Runs, Kill(r) PROVE Staged'
  BY <1>7 DEF Kill, Go
<1>8. ASSUME NEW r \in Runs, Reap(r) PROVE Staged'
  BY <1>8 DEF Reap, Go, Turn
<1>9. ASSUME NEW r \in Runs, Sending(r) PROVE Staged'
  BY <1>9 DEF Sending, Send, Hear, Say
<1>10. ASSUME NEW r \in Runs, EndRun(r) PROVE Staged'
  BY <1>10 DEF EndRun
<1>11. ASSUME NEW r \in Runs, CheckOpen(r) PROVE Staged'
  BY <1>11 DEF CheckOpen, Turn
<1>12. ASSUME NEW r \in Runs, Spawn(r) PROVE Staged'
  BY <1>12 DEF Spawn, Turn
<1>13. ASSUME NEW r \in Runs, SpawnFails(r) PROVE Staged'
  BY <1>13, AttemptsAssumption DEF SpawnFails, Turn
<1>14. ASSUME NEW r \in Runs, Wake(r) PROVE Staged'
  BY <1>14 DEF Wake, Turn
<1>15. ASSUME NEW r \in Runs, Install(r) PROVE Staged'
  BY <1>15 DEF Install, Turn, Give
<1>16. CASE Close
  BY <1>16 DEF Close, Mark, CloseChannel, Drain
<1>17. ASSUME NEW w \in Workers, Die(w) PROVE Staged'
  BY <1>17 DEF Die
<1>18. CASE UNCHANGED vars
  BY <1>18 DEF vars
<1>19. QED
  BY <1>1, <1>2, <1>3, <1>4, <1>5, <1>6, <1>7, <1>8, <1>9, <1>10, <1>11, <1>12, <1>13,
     <1>14, <1>15, <1>16, <1>17, <1>18 DEF Next, Running, Replacing

LEMMA AlwaysStaged == Spec => []Staged
  BY StagedInit, StagedNext, PTL DEF Spec

\* Every variable keeps its type, for any number of runs and workers.
THEOREM Types == Spec => []TypeOK
<1>1. Staged => TypeOK
  BY DEF Staged
<1>2. QED
  BY <1>1, AlwaysStaged, PTL

-----------------------------------------------------------------------------
(* Where the workers are.                                                    *)

\* A worker that has not been started is nowhere.
Unborn ==
    \A w \in Workers : proc[w] = "unborn" =>
        w \notin idle /\ \A r \in Runs : w \notin held[r] \cup fresh[r]

Placed == Staged /\ Unborn /\ NoStrays

LEMMA PlacedInit == Init => Placed
  BY StagedInit DEF Init, Placed, Unborn, NoStrays

LEMMA PlacedNext == Placed /\ [Next]_vars => Placed'
<1> SUFFICES ASSUME Placed, [Next]_vars PROVE (Unborn /\ NoStrays)'
  BY StagedNext DEF Placed
<1> USE DEF Placed, Staged, TypeOK, Stages, Unborn, NoStrays
<1>1. ASSUME NEW r \in Runs, Start(r) PROVE (Unborn /\ NoStrays)'
  BY <1>1 DEF Start, Go
<1>2. ASSUME NEW r \in Runs, Acquire(r) PROVE (Unborn /\ NoStrays)'
  BY <1>2 DEF Acquire, Go, Say
<1>3. ASSUME NEW r \in Runs, Leave(r) PROVE (Unborn /\ NoStrays)'
  BY <1>3 DEF Leave, Go
<1>4. ASSUME NEW r \in Runs, Finish(r) PROVE (Unborn /\ NoStrays)'
  BY <1>4 DEF Finish, Go
<1>5. ASSUME NEW r \in Runs, TimeOut(r) PROVE (Unborn /\ NoStrays)'
  BY <1>5 DEF TimeOut, Go
<1>6. ASSUME NEW r \in Runs, Push(r) PROVE (Unborn /\ NoStrays)'
  BY <1>6 DEF Push, Go, Give
<1>7. ASSUME NEW r \in Runs, Kill(r) PROVE (Unborn /\ NoStrays)'
  BY <1>7 DEF Kill, Go
<1>8. ASSUME NEW r \in Runs, Reap(r) PROVE (Unborn /\ NoStrays)'
  BY <1>8 DEF Reap, Go, Turn
<1>9. ASSUME NEW r \in Runs, Sending(r) PROVE (Unborn /\ NoStrays)'
  BY <1>9 DEF Sending, Send, Hear, Say
<1>10. ASSUME NEW r \in Runs, EndRun(r) PROVE (Unborn /\ NoStrays)'
  BY <1>10 DEF EndRun
<1>11. ASSUME NEW r \in Runs, CheckOpen(r) PROVE (Unborn /\ NoStrays)'
  BY <1>11 DEF CheckOpen, Turn
<1>12. ASSUME NEW r \in Runs, Spawn(r) PROVE (Unborn /\ NoStrays)'
  BY <1>12 DEF Spawn, Turn
<1>13. ASSUME NEW r \in Runs, SpawnFails(r) PROVE (Unborn /\ NoStrays)'
  BY <1>13 DEF SpawnFails, Turn
<1>14. ASSUME NEW r \in Runs, Wake(r) PROVE (Unborn /\ NoStrays)'
  BY <1>14 DEF Wake, Turn
<1>15. ASSUME NEW r \in Runs, Install(r) PROVE (Unborn /\ NoStrays)'
  BY <1>15 DEF Install, Turn, Give
<1>16. CASE Close
  BY <1>16 DEF Close, Mark, CloseChannel, Drain
<1>17. ASSUME NEW w \in Workers, Die(w) PROVE (Unborn /\ NoStrays)'
  BY <1>17 DEF Die
<1>18. CASE UNCHANGED vars
  BY <1>18 DEF vars
<1>19. QED
  BY <1>1, <1>2, <1>3, <1>4, <1>5, <1>6, <1>7, <1>8, <1>9, <1>10, <1>11, <1>12, <1>13,
     <1>14, <1>15, <1>16, <1>17, <1>18 DEF Next, Running, Replacing

LEMMA AlwaysPlaced == Spec => []Placed
  BY PlacedInit, PlacedNext, PTL DEF Spec

\* A worker has one user and no process is forgotten, whatever dies, fails to start
\* or is closed, and however many runs there are.
THEOREM NobodyStrays == Spec => []NoStrays
<1>1. Placed => NoStrays
  BY DEF Placed
<1>2. QED
  BY <1>1, AlwaysPlaced, PTL

-----------------------------------------------------------------------------
(* Wait and the read of the answer.                                          *)

Readable == Placed /\ NeverReapedWhileRead

LEMMA ReadableNext == Readable /\ [Next]_vars => Readable'
<1> SUFFICES ASSUME Readable, [Next]_vars PROVE NeverReapedWhileRead'
  BY PlacedNext DEF Readable
<1> USE DEF Readable, Placed, Staged, TypeOK, Stages, NoStrays, NeverReapedWhileRead, SenderPCs
<1>1. ASSUME NEW r \in Runs, Start(r) PROVE NeverReapedWhileRead'
  BY <1>1 DEF Start, Go
<1>2. ASSUME NEW r \in Runs, Acquire(r) PROVE NeverReapedWhileRead'
  BY <1>2 DEF Acquire, Go, Say
<1>3. ASSUME NEW r \in Runs, Leave(r) PROVE NeverReapedWhileRead'
  BY <1>3 DEF Leave, Go
<1>4. ASSUME NEW r \in Runs, Finish(r) PROVE NeverReapedWhileRead'
  BY <1>4 DEF Finish, Go
<1>5. ASSUME NEW r \in Runs, TimeOut(r) PROVE NeverReapedWhileRead'
  BY <1>5 DEF TimeOut, Go
<1>6. ASSUME NEW r \in Runs, Push(r) PROVE NeverReapedWhileRead'
  BY <1>6 DEF Push, Go, Give
<1>7. ASSUME NEW r \in Runs, Kill(r) PROVE NeverReapedWhileRead'
  BY <1>7 DEF Kill, Go
<1>8. ASSUME NEW r \in Runs, Reap(r) PROVE NeverReapedWhileRead'
  BY <1>8 DEF Reap, Go, Turn
<1>9. ASSUME NEW r \in Runs, Sending(r) PROVE NeverReapedWhileRead'
  BY <1>9 DEF Sending, Send, Hear, Say
<1>10. ASSUME NEW r \in Runs, EndRun(r) PROVE NeverReapedWhileRead'
  BY <1>10 DEF EndRun
<1>11. ASSUME NEW r \in Runs, CheckOpen(r) PROVE NeverReapedWhileRead'
  BY <1>11 DEF CheckOpen, Turn
<1>12. ASSUME NEW r \in Runs, Spawn(r) PROVE NeverReapedWhileRead'
  BY <1>12 DEF Spawn, Turn
<1>13. ASSUME NEW r \in Runs, SpawnFails(r) PROVE NeverReapedWhileRead'
  BY <1>13 DEF SpawnFails, Turn
<1>14. ASSUME NEW r \in Runs, Wake(r) PROVE NeverReapedWhileRead'
  BY <1>14 DEF Wake, Turn
<1>15. ASSUME NEW r \in Runs, Install(r) PROVE NeverReapedWhileRead'
  BY <1>15 DEF Install, Turn, Give
<1>16. CASE Close
  BY <1>16 DEF Close, Mark, CloseChannel, Drain
<1>17. ASSUME NEW w \in Workers, Die(w) PROVE NeverReapedWhileRead'
  BY <1>17 DEF Die
<1>18. CASE UNCHANGED vars
  BY <1>18 DEF vars
<1>19. QED
  BY <1>1, <1>2, <1>3, <1>4, <1>5, <1>6, <1>7, <1>8, <1>9, <1>10, <1>11, <1>12, <1>13,
     <1>14, <1>15, <1>16, <1>17, <1>18 DEF Next, Running, Replacing

\* The process of a worker is waited for only after the answer has been read to its
\* end, so a cancelled run never breaks another one's worker.
THEOREM WaitFollowsRead == Spec => []NeverReapedWhileRead
<1>1. Init => Readable
  BY PlacedInit DEF Init, Readable, NeverReapedWhileRead
<1>2. Readable => NeverReapedWhileRead
  BY DEF Readable
<1>3. QED
  BY <1>1, <1>2, ReadableNext, PTL DEF Spec

-----------------------------------------------------------------------------
(* The places of the pool.                                                   *)

LEMMA PlacesCounted ==
  ASSUME Staged
  PROVE  /\ IsFiniteSet(idle) /\ Cardinality(idle) \in Nat
         /\ IsFiniteSet(Holding) /\ Cardinality(Holding) \in Nat
         /\ IsFiniteSet(Pending) /\ Cardinality(Pending) \in Nat
         /\ IsFiniteSet(Lost) /\ Cardinality(Lost) \in Nat
<1>1. IsFiniteSet(Workers)
  <2>1. Cardinality(Runs) \in Nat
    BY RunsAssumption, FS_CardinalityType
  <2>2. QED
    BY <2>1, SizeAssumption, FS_Interval DEF Workers
<1>2. IsFiniteSet(idle)
  BY <1>1, FS_Subset DEF Staged, TypeOK
<1>3. Holding \in SUBSET Runs /\ Pending \in SUBSET Runs /\ Lost \in SUBSET Runs
  BY DEF Holding, Pending, Lost
<1>4. IsFiniteSet(Holding) /\ IsFiniteSet(Pending) /\ IsFiniteSet(Lost)
  BY <1>3, RunsAssumption, FS_Subset
<1>5. QED
  BY <1>2, <1>4, FS_CardinalityType

\* What a step does to the places: nothing; or an idle worker becomes a run's, and
\* returns; or the run gives it up, and its place is filled again, or lost; or, once
\* the pool closes, a place goes.
Unmoved == idle' = idle /\ Holding' = Holding /\ Pending' = Pending /\ Lost' = Lost

Taken ==
    /\ \E w \in idle : idle' = idle \ {w}
    /\ \E r \in Runs \ Holding : Holding' = Holding \cup {r}
    /\ Pending' = Pending /\ Lost' = Lost

Filled ==
    /\ Room /\ \E w \in Workers \ idle : idle' = idle \cup {w}
    /\ \/ Pending' = Pending /\ \E r \in Holding : Holding' = Holding \ {r}
       \/ Holding' = Holding /\ \E r \in Pending : Pending' = Pending \ {r}
    /\ Lost' = Lost

GivenUp ==
    /\ \E r \in Holding \ Pending :
          Holding' = Holding \ {r} /\ Pending' = Pending \cup {r}
    /\ idle' = idle /\ Lost' = Lost

GoneForGood ==
    /\ \E r \in Pending \ Lost : Pending' = Pending \ {r} /\ Lost' = Lost \cup {r}
    /\ idle' = idle /\ Holding' = Holding

Shut ==
    /\ closed
    /\ \/ Pending' = Pending /\ \E w \in idle : idle' = idle \ {w}
       \/ idle' = idle /\ \E r \in Pending : Pending' = Pending \ {r}
    /\ Holding' = Holding /\ Lost' = Lost

LEMMA PlacesMove ==
  ASSUME Placed, [Next]_vars
  PROVE  Unmoved \/ Taken \/ Filled \/ GivenUp \/ GoneForGood \/ Shut
<1> USE DEF Placed, Staged, TypeOK, Stages, NoStrays, Holding, Pending, Lost, closed
<1>1. ASSUME NEW r \in Runs, Start(r) PROVE Unmoved
  BY <1>1 DEF Start, Go, Unmoved
<1>2. ASSUME NEW r \in Runs, Acquire(r) PROVE Taken
  <2>1. PICK w \in idle : idle' = idle \ {w} /\ held' = [held EXCEPT ![r] = {w}]
    BY <1>2 DEF Acquire
  <2>2. r \notin Holding /\ Holding' = Holding \cup {r}
    BY <1>2, <2>1 DEF Acquire, Go
  <2>3. Pending' = Pending /\ Lost' = Lost
    BY <1>2 DEF Acquire
  <2>4. QED
    BY <2>1, <2>2, <2>3 DEF Taken
<1>3. ASSUME NEW r \in Runs, Leave(r) PROVE Unmoved
  BY <1>3 DEF Leave, Go, Unmoved
<1>4. ASSUME NEW r \in Runs, Finish(r) PROVE Unmoved
  BY <1>4 DEF Finish, Go, Unmoved
<1>5. ASSUME NEW r \in Runs, TimeOut(r) PROVE Unmoved
  BY <1>5 DEF TimeOut, Go, Unmoved
<1>6. ASSUME NEW r \in Runs, Push(r) PROVE Filled
  <2>1. PICK w \in held[r] : Room /\ idle' = idle \cup {w}
    BY <1>6 DEF Push, Give
  <2>2. w \in Workers \ idle
    BY <2>1
  <2>3. r \in Holding /\ Holding' = Holding \ {r}
    BY <1>6, <2>1 DEF Push
  <2>4. Pending' = Pending /\ Lost' = Lost
    BY <1>6 DEF Push
  <2>5. QED
    BY <2>1, <2>2, <2>3, <2>4 DEF Filled
<1>7. ASSUME NEW r \in Runs, Kill(r) PROVE Unmoved
  BY <1>7 DEF Kill, Go, Unmoved
<1>8. ASSUME NEW r \in Runs, Reap(r) PROVE GivenUp
  <2>1. r \in Holding /\ Holding' = Holding \ {r}
    BY <1>8 DEF Reap
  <2>2. r \notin Pending /\ Pending' = Pending \cup {r}
    BY <1>8 DEF Reap, Turn
  <2>3. idle' = idle /\ Lost' = Lost
    BY <1>8 DEF Reap, Turn
  <2>4. QED
    BY <2>1, <2>2, <2>3 DEF GivenUp
<1>9. ASSUME NEW r \in Runs, Sending(r) PROVE Unmoved
  BY <1>9 DEF Sending, Send, Hear, Say, Unmoved
<1>10. ASSUME NEW r \in Runs, EndRun(r) PROVE Unmoved
  BY <1>10 DEF EndRun, Unmoved
<1>11. ASSUME NEW r \in Runs, CheckOpen(r) PROVE Unmoved \/ Shut
  BY <1>11 DEF CheckOpen, Turn, Unmoved, Shut
<1>12. ASSUME NEW r \in Runs, Spawn(r) PROVE Unmoved
  BY <1>12 DEF Spawn, Turn, Unmoved
<1>13. ASSUME NEW r \in Runs, SpawnFails(r) PROVE Unmoved \/ GoneForGood
  BY <1>13, AttemptsAssumption DEF SpawnFails, Turn, Unmoved, GoneForGood
<1>14. ASSUME NEW r \in Runs, Wake(r) PROVE Unmoved \/ Shut
  BY <1>14 DEF Wake, Turn, Unmoved, Shut
<1>15. ASSUME NEW r \in Runs, Install(r) PROVE Filled
  BY <1>15 DEF Install, Turn, Give, Filled
<1>16. Close => Unmoved \/ Shut
  BY DEF Close, Mark, CloseChannel, Drain, Unmoved, Shut
<1>17. ASSUME NEW w \in Workers, Die(w) PROVE Unmoved
  BY <1>17 DEF Die, Unmoved
<1>18. UNCHANGED vars => Unmoved
  BY DEF vars, Unmoved
<1>19. QED
  BY <1>1, <1>2, <1>3, <1>4, <1>5, <1>6, <1>7, <1>8, <1>9, <1>10, <1>11, <1>12, <1>13,
     <1>14, <1>15, <1>16, <1>17, <1>18 DEF Next, Running, Replacing

LEMMA ClosedForEver == ASSUME Placed, [Next]_vars, closed PROVE closed'
  BY ZenonT(30) DEF Next, Running, Sending, Replacing, Start, Acquire, Leave, Finish, TimeOut, Push,
     Kill, Reap, Send, Hear, EndRun, CheckOpen, Spawn, SpawnFails, Wake, Install,
     Close, Mark, CloseChannel, Drain, Die, vars, closed

Accounted == Placed /\ ShrinksByFailedStarts

LEMMA AccountedNext == Accounted /\ [Next]_vars => Accounted'
<1> SUFFICES ASSUME Accounted, [Next]_vars PROVE ShrinksByFailedStarts'
  BY PlacedNext DEF Accounted
<1>1. Placed /\ ShrinksByFailedStarts /\ Staged
  BY DEF Accounted, Placed
<1>2. closed => closed'
  BY <1>1, ClosedForEver
<1> DEFINE i == Cardinality(idle)   h == Cardinality(Holding)
           p == Cardinality(Pending) l == Cardinality(Lost)
<1>3. i \in Nat /\ h \in Nat /\ p \in Nat /\ l \in Nat /\ Size \in Nat
  BY <1>1, PlacesCounted, SizeAssumption
<1>4. Places = i + h + p + l /\ Places' = i' + h' + p' + l'
  BY DEF Places, Filling
<1>5. i + h + p + l <= Size /\ (~closed => i + h + p + l = Size)
  BY <1>1, <1>4 DEF ShrinksByFailedStarts
<1>6. ASSUME i' + h' + p' + l' = i + h + p + l
      PROVE  ShrinksByFailedStarts'
  BY <1>2, <1>4, <1>5, <1>6 DEF ShrinksByFailedStarts
<1> HIDE DEF i, h, p, l
<1>7. CASE Unmoved
  BY <1>6, <1>7 DEF Unmoved, i, h, p, l
<1>8. CASE Taken
  <2>1. i' = i - 1 /\ h' = h + 1 /\ p' = p /\ l' = l
    <3>1. i' = i - 1
      BY <1>1, <1>8, PlacesCounted, FS_RemoveElement DEF Taken, i
    <3>2. h' = h + 1
      BY <1>1, <1>8, PlacesCounted, FS_AddElement DEF Taken, h
    <3>3. p' = p
      BY <1>8 DEF Taken, p
    <3>4. l' = l
      BY <1>8 DEF Taken, l
    <3>5. QED
      BY <3>1, <3>2, <3>3, <3>4
  <2>2. QED
    BY <2>1, <1>3, <1>6
<1>9. CASE Filled
  <2>1. i' = i + 1 /\ l' = l /\ ((h' = h - 1 /\ p' = p) \/ (h' = h /\ p' = p - 1))
    <3>1. i' = i + 1 /\ l' = l
      BY <1>1, <1>9, PlacesCounted, FS_AddElement DEF Filled, i, l
    <3>2. CASE Pending' = Pending /\ \E r \in Holding : Holding' = Holding \ {r}
      BY <1>1, <3>1, <3>2, PlacesCounted, FS_RemoveElement DEF h, p
    <3>3. CASE Holding' = Holding /\ \E r \in Pending : Pending' = Pending \ {r}
      BY <1>1, <3>1, <3>3, PlacesCounted, FS_RemoveElement DEF h, p
    <3>4. QED
      BY <1>9, <3>2, <3>3 DEF Filled
  <2>2. QED
    BY <2>1, <1>3, <1>6
<1>10. CASE GivenUp
  <2>1. i' = i /\ h' = h - 1 /\ p' = p + 1 /\ l' = l
    <3>1. i' = i
      BY <1>10 DEF GivenUp, i
    <3>2. h' = h - 1
      BY <1>1, <1>10, PlacesCounted, FS_RemoveElement DEF GivenUp, h
    <3>3. p' = p + 1
      BY <1>1, <1>10, PlacesCounted, FS_AddElement DEF GivenUp, p
    <3>4. l' = l
      BY <1>10 DEF GivenUp, l
    <3>5. QED
      BY <3>1, <3>2, <3>3, <3>4
  <2>2. QED
    BY <2>1, <1>3, <1>6
<1>11. CASE GoneForGood
  <2>1. i' = i /\ h' = h /\ p' = p - 1 /\ l' = l + 1
    <3>1. i' = i
      BY <1>11 DEF GoneForGood, i
    <3>2. h' = h
      BY <1>11 DEF GoneForGood, h
    <3>3. p' = p - 1
      BY <1>1, <1>11, PlacesCounted, FS_RemoveElement DEF GoneForGood, p
    <3>4. l' = l + 1
      BY <1>1, <1>11, PlacesCounted, FS_AddElement DEF GoneForGood, l
    <3>5. QED
      BY <3>1, <3>2, <3>3, <3>4
  <2>2. QED
    BY <2>1, <1>3, <1>6
<1>12. CASE Shut
  <2>1. h' = h /\ l' = l /\ ((i' = i - 1 /\ p' = p) \/ (i' = i /\ p' = p - 1))
    <3>1. CASE Pending' = Pending /\ \E w \in idle : idle' = idle \ {w}
      BY <1>1, <1>12, <3>1, PlacesCounted, FS_RemoveElement DEF Shut, i, h, p, l
    <3>2. CASE idle' = idle /\ \E r \in Pending : Pending' = Pending \ {r}
      BY <1>1, <1>12, <3>2, PlacesCounted, FS_RemoveElement DEF Shut, i, h, p, l
    <3>3. QED
      BY <1>12, <3>1, <3>2 DEF Shut
  <2>2. closed'
    BY <1>2, <1>12 DEF Shut
  <2>3. QED
    BY <2>1, <2>2, <1>3, <1>4, <1>5 DEF ShrinksByFailedStarts
<1>13. QED
  BY <1>1, <1>7, <1>8, <1>9, <1>10, <1>11, <1>12, PlacesMove

LEMMA AccountedInit == Init => Accounted
<1> SUFFICES ASSUME Init PROVE ShrinksByFailedStarts
  BY PlacedInit DEF Accounted
<1>1. Cardinality(idle) = Size
  BY SizeAssumption, FS_Interval DEF Init
<1>2. Holding = {} /\ Pending = {} /\ Lost = {}
  BY AttemptsAssumption DEF Init, Holding, Pending, Lost
<1>3. QED
  BY <1>1, <1>2, FS_EmptySet, SizeAssumption DEF ShrinksByFailedStarts, Places, Filling

\* An open pool has lost a place for each replacement all of whose starts have failed,
\* and no other; so no send into the channel of idle workers ever waits and no place is
\* forgotten; a closing pool only has fewer (Run, replaceWorker).
THEOREM PoolShrinksByFailedStarts == Spec => []ShrinksByFailedStarts
<1>1. Accounted => ShrinksByFailedStarts
  BY DEF Accounted
<1>2. QED
  BY <1>1, AccountedInit, AccountedNext, PTL DEF Spec

-----------------------------------------------------------------------------
(* Why every run and every replacement ends (RunsFinish), as far as it can be *)
(* said without fairness.                                                    *)

\* A run has a worker from Acquire to Push or Reap; once it is killed it is dead, and
\* neither Drain nor another run waits for it; a replacement installs what it started.
InHand ==
    \A r \in Runs :
        /\ run[r] \in {"talk", "push", "kill", "reap"} => held[r] # {}
        /\ run[r] = "reap" => \A w \in held[r] : proc[w] = "dead"
        /\ spare[r] = "give" => fresh[r] # {}

LEMMA InHandNext == Placed /\ InHand /\ [Next]_vars => InHand'
<1> SUFFICES ASSUME Placed, InHand, [Next]_vars PROVE InHand'
  OBVIOUS
<1> USE DEF InHand, Placed, Staged, TypeOK, Stages, Unborn, NoStrays
<1>1. ASSUME NEW r \in Runs, Start(r) PROVE InHand'
  BY <1>1 DEF Start, Go
<1>2. ASSUME NEW r \in Runs, Acquire(r) PROVE InHand'
  BY <1>2 DEF Acquire, Go, Say
<1>3. ASSUME NEW r \in Runs, Leave(r) PROVE InHand'
  BY <1>3 DEF Leave, Go
<1>4. ASSUME NEW r \in Runs, Finish(r) PROVE InHand'
  BY <1>4 DEF Finish, Go
<1>5. ASSUME NEW r \in Runs, TimeOut(r) PROVE InHand'
  BY <1>5 DEF TimeOut, Go
<1>6. ASSUME NEW r \in Runs, Push(r) PROVE InHand'
  BY <1>6 DEF Push, Go, Give
<1>7. ASSUME NEW r \in Runs, Kill(r) PROVE InHand'
  BY <1>7 DEF Kill, Go
<1>8. ASSUME NEW r \in Runs, Reap(r) PROVE InHand'
  BY <1>8 DEF Reap, Go, Turn
<1>9. ASSUME NEW r \in Runs, Sending(r) PROVE InHand'
  BY <1>9 DEF Sending, Send, Hear, Say
<1>10. ASSUME NEW r \in Runs, EndRun(r) PROVE InHand'
  BY <1>10 DEF EndRun
<1>11. ASSUME NEW r \in Runs, CheckOpen(r) PROVE InHand'
  BY <1>11 DEF CheckOpen, Turn
<1>12. ASSUME NEW r \in Runs, Spawn(r) PROVE InHand'
  BY <1>12 DEF Spawn, Turn
<1>13. ASSUME NEW r \in Runs, SpawnFails(r) PROVE InHand'
  BY <1>13 DEF SpawnFails, Turn
<1>14. ASSUME NEW r \in Runs, Wake(r) PROVE InHand'
  BY <1>14 DEF Wake, Turn
<1>15. ASSUME NEW r \in Runs, Install(r) PROVE InHand'
  BY <1>15 DEF Install, Turn, Give
<1>16. CASE Close
  BY <1>16 DEF Close, Mark, CloseChannel, Drain
<1>17. ASSUME NEW w \in Workers, Die(w) PROVE InHand'
  BY <1>17 DEF Die
<1>18. CASE UNCHANGED vars
  BY <1>18 DEF vars
<1>19. QED
  BY <1>1, <1>2, <1>3, <1>4, <1>5, <1>6, <1>7, <1>8, <1>9, <1>10, <1>11, <1>12, <1>13,
     <1>14, <1>15, <1>16, <1>17, <1>18 DEF Next, Running, Replacing

\* A set of runs that is not empty takes a place at least.
LEMMA TakesAPlace ==
  ASSUME NEW S, IsFiniteSet(S), S # {}
  PROVE  Cardinality(S) \in Nat /\ 1 <= Cardinality(S)
<1>1. Cardinality(S) \in Nat /\ Cardinality(S) # 0
  BY FS_CardinalityType, FS_EmptySet
<1>2. QED
  BY <1>1

\* Neither the channel of idle workers nor the wait for a killed process ever holds up
\* a goroutine, whatever ends, dies or closes meanwhile; a run waits for a worker only
\* while somebody has one, as long as the pool is open (Run, kill, replaceWorker).
THEOREM PoolNeverStuck == Spec => []NobodyWaitsInVain
<1>1. Init => InHand
  BY DEF Init, InHand
<1>2. ASSUME Accounted, InHand PROVE NobodyWaitsInVain
  <2>1. /\ IsFiniteSet(Holding) /\ IsFiniteSet(Pending)
        /\ Cardinality(idle) \in Nat /\ Cardinality(Holding) \in Nat
        /\ Cardinality(Pending) \in Nat /\ Cardinality(Lost) \in Nat /\ Size \in Nat
    BY <1>2, PlacesCounted, SizeAssumption DEF Accounted, Placed
  <2>2. Places <= Size /\ (~closed => Places = Size)
    BY <1>2 DEF Accounted, ShrinksByFailedStarts
  <2>3. ASSUME NEW r \in Runs, run[r] = "push" \/ spare[r] = "give" PROVE Room
    <3>1. r \in Holding \/ r \in Pending
      BY <1>2, <2>3 DEF InHand, Holding, Pending
    <3>2. 1 <= Cardinality(Holding) \/ 1 <= Cardinality(Pending)
      BY <2>1, <3>1, TakesAPlace
    <3>3. QED
      BY <2>1, <2>2, <3>2 DEF Places, Filling, Room
  <2>4. ASSUME ~closed, idle = {}, Holding \cup Pending = {} PROVE Cardinality(Lost) = Size
    <3>1. Holding = {} /\ Pending = {}
      BY <2>4
    <3>2. Cardinality(idle) = 0 /\ Cardinality(Holding) = 0 /\ Cardinality(Pending) = 0
      BY <2>4, <3>1, FS_EmptySet
    <3>3. QED
      BY <2>1, <2>2, <2>4, <3>2 DEF Places, Filling
  <2>5. QED
    BY <1>2, <2>3, <2>4 DEF NobodyWaitsInVain, InHand
<1>3. Spec => []Accounted
  BY AccountedInit, AccountedNext, PTL DEF Spec
<1>4. Spec => []InHand
  BY <1>1, InHandNext, AlwaysPlaced, PTL DEF Spec
<1>5. QED
  BY <1>2, <1>3, <1>4, PTL

-----------------------------------------------------------------------------
(* The sidecar of a channel: types, and where a program may be alive.        *)

LEMMA SidecarTypeInit == SidecarInit => SidecarTypeOK
<1> SUFFICES ASSUME SidecarInit PROVE SidecarTypeOK
  OBVIOUS
<1>1. /\ program \in [Adapters -> {"none", "up", "clogged", "dead"}]
      /\ env \in [Adapters -> Nat] /\ once \in [Adapters -> {"no", "running", "done"}]
      /\ at \in [Callers -> {"idle", "changed", "close", "stop", "write", "grace", "done"}]
      /\ victim \in [Callers -> 0..4]
  BY DEF SidecarInit
<1>2. {current, next} \subseteq 0..4 /\ {vault, baseline} \subseteq Nat
  BY DEF SidecarInit
<1>3. {stopped, stop} \subseteq BOOLEAN
  BY DEF SidecarInit
<1>4. sup \in {"off", "first", "store", "watch", "delay", "due", "spawn", "failed", "ended"}
  BY DEF SidecarInit
<1>5. QED
  BY <1>1, <1>2, <1>3, <1>4 DEF SidecarTypeOK

LEMMA SidecarTypeStep == SidecarTypeOK /\ [SidecarNext]_sidecarVars => SidecarTypeOK'
<1> SUFFICES ASSUME SidecarTypeOK, [SidecarNext]_sidecarVars PROVE SidecarTypeOK'
  OBVIOUS
<1> USE DEF SidecarTypeOK, Adapters, Callers, Goes, Moves, sidecar, supervisor, stopping, watcher,
            callers
<1>1. CASE Resolve
  BY <1>1 DEF Resolve, NewAdapter, Free
<1>2. CASE StartAgain
  BY <1>2 DEF StartAgain, Launch, Refuse
<1>3. CASE StartFirst
  BY <1>3 DEF StartFirst, Launch, Refuse
<1>4. CASE Store
  BY <1>4 DEF Store
<1>5. CASE StoreFake
  BY <1>5 DEF StoreFake, NewAdapter, Free
<1>6. CASE Exited
  BY <1>6 DEF Exited
<1>7. CASE DelayOver
  BY <1>7 DEF DelayOver
<1>8. CASE HearStop
  BY <1>8 DEF HearStop
<1>9. CASE Notice
  BY <1>9 DEF Notice
<1>10. CASE Restart
  BY <1>10 DEF Restart
<1>11. CASE Stop
  BY <1>11 DEF Stop
<1>12. CASE CloseStop
  BY <1>12 DEF CloseStop
<1>13. CASE Rotate
  BY <1>13 DEF Rotate
<1>14. ASSUME NEW k \in Callers, EnterOnce(k) PROVE SidecarTypeOK'
  BY <1>14 DEF EnterOnce, Return
<1>15. ASSUME NEW k \in Callers, WriteShutdown(k) PROVE SidecarTypeOK'
  BY <1>15 DEF WriteShutdown
<1>16. ASSUME NEW k \in Callers, Grace(k) PROVE SidecarTypeOK'
  <2>1. program' \in [Adapters -> {"none", "up", "clogged", "dead"}]
        /\ once' \in [Adapters -> {"no", "running", "done"}]
    BY <1>16 DEF Grace
  <2>2. at' \in [Callers -> {"idle", "changed", "close", "stop", "write", "grace", "done"}]
        /\ victim' \in [Callers -> 0..4]
    BY <1>16 DEF Grace, Return
  <2>3. QED
    BY <1>16, <2>1, <2>2 DEF Grace
<1>17. ASSUME NEW a \in Adapters, Crash(a) PROVE SidecarTypeOK'
  BY <1>17 DEF Crash
<1>18. ASSUME NEW a \in Adapters, Clog(a) PROVE SidecarTypeOK'
  BY <1>18 DEF Clog
<1>19. CASE UNCHANGED sidecarVars
  BY <1>19 DEF sidecarVars
<1>20. QED
  BY <1>1, <1>2, <1>3, <1>4, <1>5, <1>6, <1>7, <1>8, <1>9, <1>10, <1>11, <1>12, <1>13, <1>14,
     <1>15, <1>16, <1>17, <1>18, <1>19
     DEF SidecarNext, Supervise, Call

\* The supervisor has at most one adapter whose program runs: the one it refers to while
\* it watches, and the one it has just started before it refers to it.
AliveWhere ==
    /\ sup \in {"off", "first", "delay", "due", "spawn", "failed"} => Live = {}
    /\ sup = "store" => Live \subseteq {next}
    /\ sup \in {"watch", "ended"} => Live \subseteq {current}

\* Nobody can stop what Start has not stored.
Unstarted == sup \in {"off", "first"} => current = 0 /\ ~stopped

Supervised == SidecarTypeOK /\ AliveWhere /\ Unstarted

LEMMA SupervisedInit == SidecarInit => Supervised
  BY SidecarTypeInit DEF SidecarInit, Supervised, AliveWhere, Unstarted, Live

\* What a step does to the programs that run.
LEMMA LiveMoves ==
  ASSUME SidecarTypeOK, Unstarted, [SidecarNext]_sidecarVars
  PROVE  \/ Live' \subseteq Live
         \/ Live' \subseteq Live \cup {next} /\ sup \in {"first", "spawn"} /\ ~stopped
            /\ sup' = "store" /\ next' = next
<1> DEFINE Goal == \/ Live' \subseteq Live
                   \/ Live' \subseteq Live \cup {next} /\ sup \in {"first", "spawn"} /\ ~stopped
                      /\ sup' = "store" /\ next' = next
<1>0. ASSUME UNCHANGED program PROVE Live' \subseteq Live
  BY <1>0 DEF Live
<1> USE <1>0 DEF SidecarTypeOK, Goes, sidecar, supervisor, stopping, watcher, callers
<1>1. CASE Resolve
  BY <1>1 DEF Resolve, NewAdapter, Free, Live, Unstarted
<1>2. CASE StartAgain
  BY <1>2 DEF StartAgain, Launch, Refuse, Live, Unstarted
<1>3. CASE StartFirst
  BY <1>3 DEF StartFirst, Launch, Refuse, Live, Unstarted
<1>4. CASE Store
  BY <1>4 DEF Store, Live, Unstarted
<1>5. CASE StoreFake
  BY <1>5 DEF StoreFake, NewAdapter, Free, Live, Unstarted
<1>6. CASE Exited
  BY <1>6 DEF Exited, Live, Unstarted
<1>7. CASE DelayOver
  BY <1>7 DEF DelayOver, Live, Unstarted
<1>8. CASE HearStop
  BY <1>8 DEF HearStop, Live, Unstarted
<1>9. CASE Notice
  BY <1>9 DEF Notice, Live, Unstarted
<1>10. CASE Restart
  BY <1>10 DEF Restart, Live, Unstarted
<1>11. CASE Stop
  BY <1>11 DEF Stop, Live, Unstarted
<1>12. CASE CloseStop
  BY <1>12 DEF CloseStop, Live, Unstarted
<1>13. CASE Rotate
  BY <1>13 DEF Rotate, Live, Unstarted
<1>14. ASSUME NEW k \in Callers, EnterOnce(k) PROVE Goal
  BY <1>14 DEF EnterOnce, Return, Live, Unstarted
<1>15. ASSUME NEW k \in Callers, WriteShutdown(k) PROVE Goal
  BY <1>15 DEF WriteShutdown, Live, Unstarted
<1>16. ASSUME NEW k \in Callers, Grace(k) PROVE Goal
  BY <1>16 DEF Grace, Return, Live, Unstarted
<1>17. ASSUME NEW a \in Adapters, Crash(a) PROVE Goal
  BY <1>17 DEF Crash, Live, Unstarted
<1>18. ASSUME NEW a \in Adapters, Clog(a) PROVE Goal
  BY <1>18 DEF Clog, Live, Unstarted
<1>19. CASE UNCHANGED sidecarVars
  BY <1>19 DEF sidecarVars
<1>20. QED
  BY <1>1, <1>2, <1>3, <1>4, <1>5, <1>6, <1>7, <1>8, <1>9, <1>10, <1>11, <1>12, <1>13, <1>14,
     <1>15, <1>16, <1>17, <1>18, <1>19
     DEF SidecarNext, Supervise, Call

LEMMA SupervisedStep == Supervised /\ [SidecarNext]_sidecarVars => Supervised'
<1> SUFFICES ASSUME Supervised, [SidecarNext]_sidecarVars PROVE AliveWhere' /\ Unstarted'
  BY SidecarTypeStep DEF Supervised
<1>0. \/ Live' \subseteq Live
      \/ Live' \subseteq Live \cup {next} /\ sup \in {"first", "spawn"} /\ ~stopped
         /\ sup' = "store" /\ next' = next
  BY LiveMoves DEF Supervised
<1>00. AliveWhere /\ Unstarted
  BY DEF Supervised
<1> USE <1>0, <1>00 DEF AliveWhere, Unstarted, Goes, sidecar, supervisor, stopping, watcher, callers
<1>1. CASE Resolve
  BY <1>1 DEF Resolve, NewAdapter, Free
<1>2. CASE StartAgain
  BY <1>2 DEF StartAgain, Launch, Refuse
<1>3. CASE StartFirst
  BY <1>3 DEF StartFirst, Launch, Refuse
<1>4. CASE Store
  BY <1>4 DEF Store
<1>5. CASE StoreFake
  BY <1>5 DEF StoreFake, NewAdapter, Free
<1>6. CASE Exited
  <2>1. Live = {}
    BY <1>6 DEF Exited, Live
  <2>2. QED
    BY <1>6, <2>1 DEF Exited
<1>7. CASE DelayOver
  BY <1>7 DEF DelayOver
<1>8. CASE HearStop
  BY <1>8 DEF HearStop
<1>9. CASE Notice
  BY <1>9 DEF Notice
<1>10. CASE Restart
  BY <1>10 DEF Restart
<1>11. CASE Stop
  BY <1>11 DEF Stop
<1>12. CASE CloseStop
  BY <1>12 DEF CloseStop
<1>13. CASE Rotate
  BY <1>13 DEF Rotate
<1>14. ASSUME NEW k \in Callers, EnterOnce(k) PROVE AliveWhere' /\ Unstarted'
  BY <1>14 DEF EnterOnce, Return
<1>15. ASSUME NEW k \in Callers, WriteShutdown(k) PROVE AliveWhere' /\ Unstarted'
  BY <1>15 DEF WriteShutdown
<1>16. ASSUME NEW k \in Callers, Grace(k) PROVE AliveWhere' /\ Unstarted'
  BY <1>16 DEF Grace, Return
<1>17. ASSUME NEW a \in Adapters, Crash(a) PROVE AliveWhere' /\ Unstarted'
  BY <1>17 DEF Crash
<1>18. ASSUME NEW a \in Adapters, Clog(a) PROVE AliveWhere' /\ Unstarted'
  BY <1>18 DEF Clog
<1>19. CASE UNCHANGED sidecarVars
  BY <1>19 DEF sidecarVars
<1>20. QED
  BY <1>1, <1>2, <1>3, <1>4, <1>5, <1>6, <1>7, <1>8, <1>9, <1>10, <1>11, <1>12, <1>13, <1>14,
     <1>15, <1>16, <1>17, <1>18, <1>19
     DEF SidecarNext, Supervise, Call

LEMMA AlwaysSupervised == SidecarSpec => []Supervised
  BY SupervisedInit, SupervisedStep, PTL DEF SidecarSpec

\* Adapters are used again only when nobody refers to them, so no index is made up.
THEOREM SidecarTypes == SidecarSpec => []SidecarTypeOK
  BY AlwaysSupervised, PTL DEF Supervised

\* Never two programs for one channel, whatever ends, restarts, rotates and stops at the
\* same time (Supervisor.supervise, Restart and Stop).
THEOREM NeverTwoSidecars == SidecarSpec => []OneSidecar
<1>1. Supervised => OneSidecar
  <2> SUFFICES ASSUME Supervised PROVE Cardinality(Live) <= 1
    BY DEF OneSidecar
  <2>1. Live = {} \/ \E a \in Adapters : Live = {a}
    BY DEF Supervised, SidecarTypeOK, AliveWhere, Live
  <2>2. Cardinality({}) = 0 /\ \A a \in Adapters : Cardinality({a}) = 1
    BY FS_EmptySet, FS_Singleton
  <2>3. QED
    BY <2>1, <2>2
<1>2. QED
  BY <1>1, AlwaysSupervised, PTL

\* Once Stop has set its flag no program starts: the start of a retry reads the flag under
\* the lock under which Stop sets it, and the first start comes before any Stop.
THEOREM NothingStartsOnceStopped == SidecarSpec => NothingStartsAfterStop
<1>1. Supervised /\ [SidecarNext]_sidecarVars => (stopped => Live' \subseteq Live)
  BY LiveMoves DEF Supervised
<1>2. QED
  BY <1>1, AlwaysSupervised, PTL DEF SidecarSpec, NothingStartsAfterStop
=============================================================================
