------------------------------ MODULE PythonPool ------------------------------
(***************************************************************************)
(* The pool of Python workers (internal/executor/pool/pool.go).  A run takes *)
(* an idle worker from a buffered channel, sends its request and waits for   *)
(* the answer in a goroutine of its own, and puts the worker back; after an  *)
(* error or at the end of its context it kills the worker, and a goroutine   *)
(* starts another one in its place.  Close marks the pool and drains it.     *)
(*                                                                          *)
(* One action is one critical section, one channel operation, or one step of *)
(* a process.  What is asked of a worker is left out, and so is the order of *)
(* the idle workers.                                                         *)
(***************************************************************************)
EXTENDS Naturals, FiniteSets

CONSTANTS
    Runs,         \* calls of Pool.Run, one each
    Size,         \* size of the pool
    MaxAttempts   \* starts of a replacement before it is given up (5 in the code)

ASSUME SizeAssumption == Size \in Nat \ {0}
ASSUME RunsAssumption == IsFiniteSet(Runs)
ASSUME AttemptsAssumption == MaxAttempts \in Nat \ {0}

VARIABLES
    proc,        \* worker -> its process
    idle,        \* the channel of idle workers
    run,         \* run -> where it is
    held,        \* run -> the set of at most one worker that it holds
    sender,      \* run -> its send goroutine
    over,        \* runs whose context is done
    spare,       \* run -> the goroutine that replaces its worker
    attempts,    \* run -> failed starts of that goroutine
    fresh,       \* run -> the worker that goroutine has started
    closing      \* Close

\* The processes, in the order of their start; a run replaces one at most.
Workers == 1..(Size + Cardinality(Runs))

vars == <<proc, idle, run, held, sender, over, spare, attempts, fresh, closing>>

RunPCs == {"new", "acquire", "talk", "push", "kill", "reap", "out"}
SenderPCs == {"none", "starting", "reading", "answered", "failed"}
SparePCs == {"none", "check", "start", "wait", "give", "lost"}

TypeOK ==
    /\ proc \in [Workers -> {"unborn", "up", "dead", "reaped"}]
    /\ idle \subseteq Workers
    /\ run \in [Runs -> RunPCs]
    /\ held \in [Runs -> SUBSET Workers]
    /\ sender \in [Runs -> SenderPCs]
    /\ over \subseteq Runs
    /\ spare \in [Runs -> SparePCs]
    /\ attempts \in [Runs -> Nat]
    /\ fresh \in [Runs -> SUBSET Workers]
    /\ closing \in {"open", "marked", "draining", "closed"}

\* New: every worker has been started.
Init ==
    /\ idle = 1..Size
    /\ proc = [w \in Workers |-> IF w \in idle THEN "up" ELSE "unborn"]
    /\ run = [r \in Runs |-> "new"]
    /\ held = [r \in Runs |-> {}]
    /\ sender = [r \in Runs |-> "none"]
    /\ over = {}
    /\ spare = [r \in Runs |-> "none"]
    /\ attempts = [r \in Runs |-> 0]
    /\ fresh = [r \in Runs |-> {}]
    /\ closing = "open"

Go(r, from, to) == run[r] = from /\ run' = [run EXCEPT ![r] = to]
Say(r, from, to) == sender[r] = from /\ sender' = [sender EXCEPT ![r] = to]
Turn(r, from, to) == spare[r] = from /\ spare' = [spare EXCEPT ![r] = to]

\* A send into the channel of idle workers waits while it is full.
Room == Cardinality(idle) < Size
Give(w) == Room /\ idle' = idle \cup {w}

closed == closing # "open"

-----------------------------------------------------------------------------
(* Run.                                                                      *)

Start(r) ==
    /\ Go(r, "new", IF closed THEN "out" ELSE "acquire")
    /\ UNCHANGED <<proc, idle, held, sender, over, spare, attempts, fresh, closing>>

\* w = <-p.workers, and the goroutine that will send.
Acquire(r) ==
    /\ Go(r, "acquire", "talk")
    /\ \E w \in idle : idle' = idle \ {w} /\ held' = [held EXCEPT ![r] = {w}]
    /\ Say(r, "none", "starting")
    /\ UNCHANGED <<proc, over, spare, attempts, fresh, closing>>

\* The context ends before a worker is free.
Leave(r) ==
    /\ r \in over
    /\ Go(r, "acquire", "out")
    /\ UNCHANGED <<proc, idle, held, sender, over, spare, attempts, fresh, closing>>

\* send: the write fails if the pipe is closed, else the answer is awaited.
Send(r) ==
    /\ Say(r, "starting",
           IF \E w \in held[r] : proc[w] = "up" THEN "reading" ELSE "failed")
    /\ UNCHANGED <<proc, idle, run, held, over, spare, attempts, fresh, closing>>

\* The worker has answered, with an error of the tool, or its pipe has ended.
Hear(r) ==
    /\ \E how \in {"answered", "failed"} : Say(r, "reading", how)
    /\ UNCHANGED <<proc, idle, run, held, over, spare, attempts, fresh, closing>>

Finish(r) ==
    /\ \/ sender[r] = "answered" /\ Go(r, "talk", "push")
       \/ sender[r] = "failed" /\ Go(r, "talk", "kill")
    /\ UNCHANGED <<proc, idle, held, sender, over, spare, attempts, fresh, closing>>

\* The context ends during the round trip.
TimeOut(r) ==
    /\ r \in over
    /\ Go(r, "talk", "kill")
    /\ UNCHANGED <<proc, idle, held, sender, over, spare, attempts, fresh, closing>>

\* p.workers <- w.
Push(r) ==
    /\ Go(r, "push", "out")
    /\ held' = [held EXCEPT ![r] = {}]
    /\ \E w \in held[r] : Give(w)
    /\ UNCHANGED <<proc, sender, over, spare, attempts, fresh, closing>>

\* Fault: only stdin is closed; a tool that is at work does not notice.
KillStdinOnly(r) ==
    /\ Go(r, "kill", "reap")
    /\ UNCHANGED <<proc, idle, held, sender, over, spare, attempts, fresh, closing>>

\* kill: the process dies, which ends the read of the send goroutine ...
Kill(r) ==
    /\ Go(r, "kill", "reap")
    /\ \E w \in held[r] : proc' = [proc EXCEPT ![w] = "dead"]
    /\ UNCHANGED <<idle, held, sender, over, spare, attempts, fresh, closing>>

\* Fault: os/exec is asked to wait while the answer is still being read.
ReapAtOnce(r) ==
    /\ Go(r, "reap", "out")
    /\ \E w \in held[r] : proc' = [proc EXCEPT ![w] = "reaped"]
    /\ held' = [held EXCEPT ![r] = {}]
    /\ Turn(r, "none", "check")
    /\ UNCHANGED <<idle, sender, over, attempts, fresh, closing>>

\* ... and kill waits for that read (ioMu) before Wait; then replaceWorker.
Reap(r) ==
    /\ sender[r] # "reading"
    /\ Go(r, "reap", "out")
    /\ \E w \in held[r] : proc' = [proc EXCEPT ![w] = "reaped"]
    /\ held' = [held EXCEPT ![r] = {}]
    /\ Turn(r, "none", "check")
    /\ UNCHANGED <<idle, sender, over, attempts, fresh, closing>>

EndRun(r) ==
    /\ r \notin over
    /\ over' = over \cup {r}
    /\ UNCHANGED <<proc, idle, run, held, sender, spare, attempts, fresh, closing>>

-----------------------------------------------------------------------------
(* replaceWorker.                                                            *)

CheckOpen(r) ==
    /\ Turn(r, "check", IF closed THEN "none" ELSE "start")
    /\ UNCHANGED <<proc, idle, run, held, sender, over, attempts, fresh, closing>>

\* spawnWorker.
Spawn(r) ==
    /\ Turn(r, "start", "give")
    /\ \E w \in Workers :
          /\ proc[w] = "unborn" /\ \A v \in 1..(w - 1) : proc[v] # "unborn"
          /\ proc' = [proc EXCEPT ![w] = "up"]
          /\ fresh' = [fresh EXCEPT ![r] = {w}]
    /\ UNCHANGED <<idle, run, held, sender, over, attempts, closing>>

\* The interpreter cannot be started; after the last attempt nobody tries again.
SpawnFails(r) ==
    /\ Turn(r, "start", IF attempts[r] + 1 < MaxAttempts THEN "wait" ELSE "lost")
    /\ attempts' = [attempts EXCEPT ![r] = @ + 1]
    /\ UNCHANGED <<proc, idle, run, held, sender, over, fresh, closing>>

\* The back-off ends, or Close has closed closeCh.
Wake(r) ==
    /\ \/ Turn(r, "wait", "check")
       \/ closing \in {"draining", "closed"} /\ Turn(r, "wait", "none")
    /\ UNCHANGED <<proc, idle, run, held, sender, over, attempts, fresh, closing>>

Install(r) ==
    /\ Turn(r, "give", "none")
    /\ \E w \in fresh[r] : Give(w)
    /\ fresh' = [fresh EXCEPT ![r] = {}]
    /\ UNCHANGED <<proc, run, held, sender, over, attempts, closing>>

-----------------------------------------------------------------------------
(* Close, and processes that die by themselves.                              *)

Mark ==
    /\ closing = "open" /\ closing' = "marked"
    /\ UNCHANGED <<proc, idle, run, held, sender, over, spare, attempts, fresh>>

CloseChannel ==
    /\ closing = "marked" /\ closing' = "draining"
    /\ UNCHANGED <<proc, idle, run, held, sender, over, spare, attempts, fresh>>

\* Fault: the idle workers are taken from the channel and left alone.
DrainOnly ==
    /\ closing = "draining"
    /\ idle' = {} /\ closing' = "closed"
    /\ UNCHANGED <<proc, run, held, sender, over, spare, attempts, fresh>>

\* The idle workers are killed one by one, until none is found.
Drain ==
    /\ closing = "draining"
    /\ \/ \E w \in idle :
             /\ idle' = idle \ {w}
             /\ proc' = [proc EXCEPT ![w] = "reaped"]
             /\ UNCHANGED closing
       \/ idle = {} /\ closing' = "closed" /\ UNCHANGED <<idle, proc>>
    /\ UNCHANGED <<run, held, sender, over, spare, attempts, fresh>>

Close == Mark \/ CloseChannel \/ Drain

Die(w) ==
    /\ proc[w] = "up"
    /\ proc' = [proc EXCEPT ![w] = "dead"]
    /\ UNCHANGED <<idle, run, held, sender, over, spare, attempts, fresh, closing>>

-----------------------------------------------------------------------------
Running(r) ==
    \/ Start(r) \/ Acquire(r) \/ Leave(r) \/ Finish(r) \/ TimeOut(r)
    \/ Push(r) \/ Kill(r) \/ Reap(r)
Sending(r) == Send(r) \/ Hear(r)
Replacing(r) ==
    CheckOpen(r) \/ Spawn(r) \/ SpawnFails(r) \/ Wake(r) \/ Install(r)

Next ==
    \/ \E r \in Runs : Running(r) \/ Sending(r) \/ Replacing(r) \/ EndRun(r)
    \/ Close
    \/ \E w \in Workers : Die(w)

Spec == Init /\ [][Next]_vars

\* Goroutines are scheduled and a context ends; a tool need not answer, but the
\* pipe of a process that is dead ends.
FairSpec ==
    /\ Spec
    /\ \A r \in Runs :
          /\ WF_vars(Running(r)) /\ WF_vars(Replacing(r)) /\ WF_vars(EndRun(r))
          /\ WF_vars(Send(r))
          /\ WF_vars(Hear(r) /\ \A w \in held[r] : proc[w] # "up")

-----------------------------------------------------------------------------
(* Properties.                                                               *)

Holding == {r \in Runs : held[r] # {}}
Pending == {r \in Runs : spare[r] \in {"check", "start", "wait", "give"}}
Filling == Cardinality(idle) + Cardinality(Holding) + Cardinality(Pending)

\* "If a worker crashes (non-zero exit) it is automatically replaced by a fresh process
\* so the pool never shrinks below the configured size": each place of an open pool is
\* an idle worker, a run's, or one that is being filled again.
PoolKeepsItsSize == ~closed => Filling = Size

\* How often all the starts of a replacement have failed, one after the other.
Lost == {r \in Runs : attempts[r] = MaxAttempts}
Places == Filling + Cardinality(Lost)

\* What holds instead: an open pool has lost a place for each replacement none of whose
\* starts has succeeded, and no other, whatever dies, hangs, is killed or comes back;
\* and there is never a worker too many for the channel, also while it closes.
ShrinksByFailedStarts == Places <= Size /\ (~closed => Places = Size)

\* A worker is in one place only, and no process is left running in none.
NoStrays ==
    /\ \A r, s \in Runs :
          /\ held[r] \cap idle = {} /\ fresh[r] \cap idle = {}
          /\ held[r] \cap fresh[s] = {}
          /\ r # s => held[r] \cap held[s] = {} /\ fresh[r] \cap fresh[s] = {}
    /\ \A w \in Workers : proc[w] = "up" =>
          w \in idle \/ \E r \in Runs : w \in held[r] \cup fresh[r]

\* os/exec closes the pipe in Wait: never while the answer is being read, which
\* would turn a cancellation into a broken worker (the comment in kill).
NeverReapedWhileRead ==
    \A r \in Runs : sender[r] = "reading" =>
        \E w \in held[r] : proc[w] # "reaped"

\* Every run ends, and so does every replacement, although a tool may never answer,
\* the interpreter may be gone, and the pool may close under them.
RunsFinish ==
    \A r \in Runs :
        /\ run[r] # "new" ~> run[r] = "out"
        /\ spare[r] # "none" ~> spare[r] \in {"none", "lost"}

\* What that rests on.  A worker that comes back finds room in the channel, also while
\* Close drains it; kill waits for the read of a process that is dead, and such a read
\* ends; and an open pool has no idle worker only while each is a run's, or is being
\* replaced, or has been given up.
NobodyWaitsInVain ==
    /\ \A r \in Runs :
          /\ run[r] \in {"push", "kill", "reap"} => held[r] # {}
          /\ run[r] = "push" \/ spare[r] = "give" => Room
          /\ run[r] = "reap" => \A w \in held[r] : proc[w] = "dead"
    /\ ~closed /\ idle = {} => Holding \cup Pending # {} \/ Cardinality(Lost) = Size

\* "Close shuts down all workers": once Close has returned and the runs that it met
\* are over, no worker is left.
CloseStopsWorkers ==
    closing = "closed"
        /\ (\A r \in Runs : run[r] \in {"new", "out"} /\ spare[r] \in {"none", "lost"})
        => \A w \in Workers : proc[w] # "up"
=============================================================================
