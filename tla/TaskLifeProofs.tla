--------------------------- MODULE TaskLifeProofs ---------------------------
(***************************************************************************)
(* Theorems about the life of a dispatched task, from the executor's queue *)
(* to its last attempt or to the death of its process: what the registry   *)
(* and the run history know of it at every moment.  They hold for every    *)
(* schedule, pool, clock and number of processes, with a database that may *)
(* lose any write.                                                         *)
(***************************************************************************)
EXTENDS SchedulerProofs

-----------------------------------------------------------------------------
(* Steps in the life of one task *)

\* Task t goes from one stage to another; all others stay as they are.
Moves(t, from, to) ==
  /\ t \in DOMAIN task /\ task[t].st = from
  /\ DOMAIN task' = DOMAIN task
  /\ \A u \in DOMAIN task \ {t} : task'[u] = task[u]
  /\ task'[t].st = to
  /\ task'[t].job = task[t].job /\ task'[t].inc = task[t].inc
  /\ task'[t].def = task[t].def /\ task'[t].room = task[t].room

\* It stays in the same attempt, and keeps its result.
SameAttempt(t) == task'[t].attempt = task[t].attempt /\ task'[t].result = task[t].result

LEMMA AdvanceMoves ==
  ASSUME TypeOK, NEW t, NEW from, NEW to, Advance(t, from, to)
  PROVE  Moves(t, from, to) /\ SameAttempt(t)
  <1>1. t \in DOMAIN task /\ task[t] \in TaskFields /\ task[t].st = from
    BY DEF Advance, TypeOK, IsMap, TaskRecord
  <1>2. /\ DOMAIN task' = DOMAIN task
        /\ task'[t] = [task[t] EXCEPT !.st = to]
        /\ \A u \in DOMAIN task \ {t} : task'[u] = task[u]
    BY <1>1 DEF Advance
  <1> QED
    BY <1>1, <1>2 DEF Moves, SameAttempt, TaskFields

LEMMA RunEndsMoves ==
  ASSUME TypeOK, NEW t, RunEnds(t)
  PROVE  Moves(t, "running", "ended") /\ task'[t].attempt = task[t].attempt
  <1>1. t \in DOMAIN task /\ task[t] \in TaskFields /\ task[t].st = "running"
    BY DEF RunEnds, TypeOK, IsMap, TaskRecord
  <1>2. PICK status \in Outcomes :
          task' = [task EXCEPT ![t] = [task[t] EXCEPT !.st = "ended", !.result = status]]
    BY DEF RunEnds
  <1>3. /\ DOMAIN task' = DOMAIN task
        /\ task'[t] = [task[t] EXCEPT !.st = "ended", !.result = status]
        /\ \A u \in DOMAIN task \ {t} : task'[u] = task[u]
    BY <1>1, <1>2
  <1> QED
    BY <1>1, <1>3 DEF Moves, TaskFields

LEMMA FinishMoves ==
  ASSUME TypeOK, NEW t, FinishAttempt(t)
  PROVE  \/ /\ Moves(t, "recorded", "begin") /\ Retries(t)
            /\ task'[t].attempt = task[t].attempt + 1
         \/ Moves(t, "recorded", "done") /\ SameAttempt(t) /\ ~Retries(t)
  <1>1. t \in DOMAIN task /\ task[t] \in TaskFields /\ task[t].st = "recorded"
    BY DEF FinishAttempt, TypeOK, IsMap, TaskRecord
  <1>2. CASE Retries(t)
    <2>1. task' = [task EXCEPT ![t] = [task[t] EXCEPT !.st = "begin", !.attempt = @ + 1,
                                                      !.result = "none"]]
      BY <1>1, <1>2 DEF FinishAttempt
    <2>2. /\ DOMAIN task' = DOMAIN task
          /\ task'[t] = [task[t] EXCEPT !.st = "begin", !.attempt = @ + 1, !.result = "none"]
          /\ \A u \in DOMAIN task \ {t} : task'[u] = task[u]
      BY <1>1, <2>1
    <2> QED BY <1>1, <1>2, <2>2 DEF Moves, TaskFields
  <1>3. CASE ~Retries(t)
    <2>1. /\ DOMAIN task' = DOMAIN task
          /\ task'[t] = [task[t] EXCEPT !.st = "done"]
          /\ \A u \in DOMAIN task \ {t} : task'[u] = task[u]
      BY <1>1, <1>3 DEF FinishAttempt
    <2> QED BY <1>1, <1>3, <2>1 DEF Moves, SameAttempt, TaskFields
  <1> QED
    BY <1>2, <1>3

\* Every step of a pool thread, and of an orphaned subprocess, moves one task.
LEMMA ThreadMoves ==
  ASSUME TypeOK, NEW t, ThreadStep(t) \/ OrphanEnds(t)
  PROVE  \E from \in OnThread \cup {"orphan"}, to \in TaskState \ {"queued", "orphan"} :
            /\ Moves(t, from, to)
            /\ to \in OnThread => from \in OnThread
            /\ to = "lost" => from = "orphan"
  <1> USE DEF OnThread, TaskState, Unfinished
  <1>1. CASE StartAttempt(t)
    BY <1>1, AdvanceMoves DEF StartAttempt
  <1>2. CASE LogStart(t)
    BY <1>2, AdvanceMoves DEF LogStart
  <1>3. CASE RunEnds(t)
    BY <1>3, RunEndsMoves
  <1>4. CASE LogCompletion(t)
    BY <1>4, AdvanceMoves DEF LogCompletion
  <1>5. CASE FinishAttempt(t)
    BY <1>5, FinishMoves
  <1>6. CASE OrphanEnds(t)
    BY <1>6, AdvanceMoves DEF OrphanEnds
  <1> QED
    BY <1>1, <1>2, <1>3, <1>4, <1>5, <1>6 DEF ThreadStep

\* A dispatch adds one task, at the end of the queue.
Adds(t, j) ==
  /\ t \in Tasks \ DOMAIN task
  /\ DOMAIN task' = DOMAIN task \cup {t} /\ queue' = Append(queue, t)
  /\ task'[t] = NewTask(j, Load < threads')
  /\ \A u \in DOMAIN task : task'[u] = task[u]

LEMMA DispatchAdds ==
  ASSUME NEW j, Submit(j) \/ SubmitRaises(j)
  PROVE  /\ \E t \in Tasks : Adds(t, j)
         /\ threads' = threads \/ threads' = threads + 1
  <1>1. Enqueue(j, threads') /\ (threads' = threads \/ threads' = threads + 1)
    BY DEF Submit, SubmitRaises
  <1> QED
    BY <1>1 DEF Enqueue, Adds, Put

-----------------------------------------------------------------------------
(* The pool has a thread for every task in progress, so that none is left   *)
(* when the last thread has been joined.                                    *)

PoolInv == Cardinality(TasksIn(OnThread)) <= threads

LEMMA BusyThreads ==
  ASSUME TypeInv
  PROVE  /\ IsFiniteSet(TasksIn(OnThread))
         /\ Cardinality(TasksIn(OnThread)) \in Nat
         /\ threads \in Nat
  <1>1. TasksIn(OnThread) \subseteq DOMAIN task
    BY DEF TasksIn
  <1>2. IsFiniteSet(TasksIn(OnThread))
    BY <1>1, FS_Subset DEF TypeInv, FiniteInv
  <1> QED
    BY <1>2, FS_CardinalityType, BoundsAssumption DEF TypeInv, TypeOK

\* The steps of the loop that dispatch nothing, the threads that leave, the
\* signals, the operator and the clock: no task takes part, and no process
\* begins or ends but for one that could not load the file.
Quiet ==
  \/ Boot \/ BootFails \/ StopLoop \/ CheckReload \/ LoadFile \/ PollClock \/ EndDispatch
  \/ Beat \/ Wake \/ ThreadLeaves
  \/ \E j \in todo : AlreadyDispatched(j) \/ SkipOverlap(j)
  \/ Sighup \/ Sigterm \/ EditFile \/ ClockTick \/ ClockStepsBack \/ UNCHANGED vars

\* Of them, only those of a shutdown concern the pool.
QuietFacts ==
  /\ UNCHANGED <<task, running, rows, unrecorded, incarnation>>
  /\ pc' = "exited" => pc \in {"boot", "exited"}
  /\ \A place \in {"boot", "stopped"} : pc' = place => pc = place
  /\ \A place \in {"stopped", "exited"} : pc = place => pc' = place
  /\ \/ StopLoop
     \/ ThreadLeaves
     \/ UNCHANGED <<queue, threads>> /\ (pc' = "shutdown" <=> pc = "shutdown")

LEMMA QuietStep == Quiet => QuietFacts
  <1> USE DEF QuietFacts, GoTo, loopVars, othersVars, signalVars, historyVars, poolVars,
              threadUnchanged
  <1>1. Boot => QuietFacts
    BY DEF Boot
  <1>2. BootFails => QuietFacts
    BY DEF BootFails
  <1>3. CheckReload \/ LoadFile => QuietFacts
    BY DEF CheckReload, LoadFile
  <1>4. PollClock \/ EndDispatch => QuietFacts
    BY DEF PollClock, EndDispatch
  <1>5. Beat \/ Wake => QuietFacts
    BY DEF Beat, Wake
  <1>6. (\E j \in todo : AlreadyDispatched(j) \/ SkipOverlap(j)) => QuietFacts
    BY DEF AlreadyDispatched, SkipOverlap
  <1>7. Sighup \/ Sigterm \/ EditFile \/ ClockTick \/ ClockStepsBack => QuietFacts
    BY DEF Sighup, Sigterm, EditFile, ClockTick, ClockStepsBack, SetClock
  <1>8. UNCHANGED vars => QuietFacts
    BY DEF vars
  <1>9. StopLoop \/ ThreadLeaves => QuietFacts
    BY DEF StopLoop, ThreadLeaves
  <1> QED
    BY <1>1, <1>2, <1>3, <1>4, <1>5, <1>6, <1>7, <1>8, <1>9 DEF Quiet

\* A shutdown completes when no thread has a task.
Stops == ShutdownCompletes /\ TasksIn(OnThread) = {}

\* Every step is one of seven kinds.
LEMMA StepKinds ==
  ASSUME TypeInv, PoolInv, [Next]_vars
  PROVE  \/ Quiet
         \/ Respawn
         \/ \E j \in todo : Submit(j) \/ SubmitRaises(j)
         \/ PickUp
         \/ \E t \in DOMAIN task : ThreadStep(t) \/ OrphanEnds(t)
         \/ Stops
         \/ Crash
  <1>1. ShutdownCompletes => TasksIn(OnThread) = {}
    <2>1. ShutdownCompletes => Cardinality(TasksIn(OnThread)) = 0
      BY BusyThreads DEF PoolInv, ShutdownCompletes
    <2> QED BY <2>1, BusyThreads, FS_EmptySet
  <1> QED
    BY <1>1 DEF Next, MainLoop, Environment, Quiet, Stops

\* What a step does to the tasks in progress.
LEMMA PickUpBusy ==
  ASSUME TypeInv, PickUp
  PROVE  /\ Cardinality(TasksIn(OnThread)') \in Nat
         /\ Cardinality(TasksIn(OnThread)') <= Cardinality(TasksIn(OnThread)) + 1
  <1>1. Moves(Head(queue), "queued", "begin")
    BY AdvanceMoves DEF PickUp, TypeInv
  <1>2. TasksIn(OnThread)' = TasksIn(OnThread) \cup {Head(queue)}
    BY <1>1 DEF Moves, TasksIn, OnThread
  <1>3. IsFiniteSet(TasksIn(OnThread)) /\ Cardinality(TasksIn(OnThread)) \in Nat
    BY BusyThreads
  <1>4. Cardinality(TasksIn(OnThread) \cup {Head(queue)})
          \in {Cardinality(TasksIn(OnThread)), Cardinality(TasksIn(OnThread)) + 1}
    BY <1>3, FS_AddElement
  <1> QED
    BY <1>2, <1>3, <1>4

LEMMA ThreadBusy ==
  ASSUME TypeInv, NEW t \in DOMAIN task, ThreadStep(t) \/ OrphanEnds(t)
  PROVE  /\ Cardinality(TasksIn(OnThread)') \in Nat
         /\ Cardinality(TasksIn(OnThread)') <= Cardinality(TasksIn(OnThread))
  <1>1. PICK from \in OnThread \cup {"orphan"}, to \in TaskState \ {"queued", "orphan"} :
           Moves(t, from, to) /\ (to \in OnThread => from \in OnThread)
    BY ThreadMoves DEF TypeInv
  <1>2. TasksIn(OnThread)' \subseteq TasksIn(OnThread)
    BY <1>1 DEF Moves, TasksIn
  <1> QED
    BY <1>2, BusyThreads, FS_Subset, FS_CardinalityType

LEMMA AddsBusy ==
  ASSUME NEW t, NEW j, Adds(t, j)
  PROVE  TasksIn(OnThread)' = TasksIn(OnThread)
  BY DEF Adds, TasksIn, NewTask, OnThread

LEMMA PoolInit == Init => PoolInv
  <1> SUFFICES ASSUME Init PROVE PoolInv
    OBVIOUS
  <1>1. TasksIn(OnThread) = {} /\ threads = 0
    BY DEF Init, TasksIn, EmptyMap
  <1> QED
    BY <1>1, FS_EmptySet DEF PoolInv

LEMMA PoolStep == TypeInv /\ PoolInv /\ [Next]_vars => PoolInv'
  <1> SUFFICES ASSUME TypeInv, PoolInv, [Next]_vars PROVE PoolInv'
    OBVIOUS
  <1>0. Cardinality(TasksIn(OnThread)) \in Nat /\ threads \in Nat
    BY BusyThreads
  <1>1. CASE Quiet
    <2>1. UNCHANGED task /\ (StopLoop \/ ThreadLeaves \/ UNCHANGED threads)
      BY <1>1, QuietStep DEF QuietFacts
    <2>2. TasksIn(OnThread)' = TasksIn(OnThread)
      BY <2>1 DEF TasksIn
    <2>3. CASE ThreadLeaves
      BY <1>0, <2>2, <2>3 DEF ThreadLeaves, HasFreeThread, PoolInv
    <2>4. CASE UNCHANGED threads
      BY <2>2, <2>4 DEF PoolInv
    <2> QED BY <2>1, <2>3, <2>4 DEF StopLoop
  <1>2. CASE Respawn
    BY <1>2 DEF Respawn, poolVars, PoolInv, TasksIn
  <1>3. ASSUME NEW j \in todo, Submit(j) \/ SubmitRaises(j)
        PROVE  PoolInv'
    BY <1>0, <1>3, DispatchAdds, AddsBusy DEF PoolInv
  <1>4. CASE PickUp
    <2>1. UNCHANGED threads /\ HasFreeThread
      BY <1>4 DEF PickUp
    <2> QED BY <1>0, <1>4, <2>1, PickUpBusy DEF PoolInv, HasFreeThread
  <1>5. ASSUME NEW t \in DOMAIN task, ThreadStep(t) \/ OrphanEnds(t)
        PROVE  PoolInv'
    <2>1. UNCHANGED threads
      BY <1>5 DEF ThreadStep, StartAttempt, LogStart, RunEnds, LogCompletion, FinishAttempt,
                  OrphanEnds
    <2> QED BY <1>0, <1>5, <2>1, ThreadBusy DEF PoolInv
  <1>6. CASE Stops \/ Crash
    <2>1. TasksIn(OnThread)' = {}
      <3>1. \A t \in DOMAIN task : task[t] \in TaskFields
        BY DEF TypeInv, TypeOK, IsMap, TaskRecord
      <3>2. CASE Stops
        BY <3>1, <3>2 DEF Stops, ShutdownCompletes, TasksIn, TaskFields, OnThread
      <3>3. CASE Crash
        <4>1. \A r \in TaskFields : Bereaved(r).st \notin OnThread
          BY DEF Bereaved, TaskFields, Unfinished, OnThread
        <4> QED BY <3>1, <3>3, <4>1 DEF Crash, TasksIn
      <3> QED BY <1>6, <3>2, <3>3
    <2>2. threads' \in Nat
      BY <1>0, <1>6 DEF Stops, ShutdownCompletes, Crash
    <2> QED BY <2>1, <2>2, FS_EmptySet DEF PoolInv
  <1> QED
    BY <1>1, <1>2, <1>3, <1>4, <1>5, <1>6, StepKinds

\* What every step of the proofs below starts from.
Steady == TypeInv /\ PoolInv

LEMMA SteadyInit == Init => Steady
  BY TypeInit, PoolInit DEF Steady

LEMMA SteadyStep == Steady /\ [Next]_vars => Steady'
  BY TypeStep, PoolStep DEF Steady

-----------------------------------------------------------------------------
(* Tasks and processes: a process that has ended leaves no unfinished task,  *)
(* and one that has not ended has lost none.                                 *)

ProcessInv ==
  /\ \A t \in DOMAIN task : task[t].inc <= incarnation
  /\ \A t \in TasksIn(Unfinished) :
       task[t].inc = incarnation /\ pc \notin {"boot", "stopped", "exited"}
  /\ \A t \in TasksIn({"lost", "orphan"}) :
       task[t].inc = incarnation => pc \in {"stopped", "exited"}

LEMMA ProcessInit == Init => ProcessInv
  BY DEF Init, ProcessInv, TasksIn, EmptyMap

LEMMA ProcessMoves ==
  ASSUME TypeOK, ProcessInv, UNCHANGED <<pc, incarnation>>,
         NEW t, NEW from, NEW to, Moves(t, from, to),
         to \in Unfinished => from \in Unfinished,
         to \in {"lost", "orphan"} => from \in {"lost", "orphan"}
  PROVE  ProcessInv'
  BY DEF ProcessInv, Moves, TasksIn

LEMMA ProcessStep == Steady /\ ProcessInv /\ [Next]_vars => ProcessInv'
  <1> SUFFICES ASSUME TypeInv, PoolInv, TypeOK, ProcessInv, [Next]_vars
               PROVE  ProcessInv'
    BY DEF Steady, TypeInv
  <1>1. CASE Quiet
    BY <1>1, QuietStep DEF QuietFacts, ProcessInv, TasksIn
  <1>2. CASE Respawn
    <2>1. \A t \in DOMAIN task : task[t].inc \in Int /\ incarnation \in Int
      BY BoundsAssumption DEF TypeOK, IsMap, TaskRecord, TaskFields
    <2>2. \A t \in DOMAIN task : task[t].inc < incarnation' /\ task[t].st \notin Unfinished
      BY <1>2, <2>1 DEF Respawn, ProcessInv, TasksIn
    <2> QED BY <1>2, <2>1, <2>2 DEF Respawn, ProcessInv, TasksIn, poolVars
  <1>3. ASSUME NEW j \in todo, Submit(j) \/ SubmitRaises(j)
        PROVE  ProcessInv'
    <2>1. UNCHANGED incarnation /\ pc' \in {"dispatch", "sleep"} /\ pc = "dispatch"
      BY <1>3 DEF Submit, SubmitRaises, Enqueue
    <2>2. PICK t \in Tasks : Adds(t, j)
      BY <1>3, DispatchAdds
    <2>3. incarnation \in Int
      BY DEF TypeOK
    <2> QED BY <2>1, <2>2, <2>3 DEF ProcessInv, Adds, NewTask, TasksIn
  <1>4. CASE PickUp
    <2>1. Moves(Head(queue), "queued", "begin")
      BY <1>4, AdvanceMoves DEF PickUp
    <2>2. UNCHANGED <<pc, incarnation>>
      BY <1>4 DEF PickUp, threadUnchanged, loopVars
    <2> QED BY <2>1, <2>2, ProcessMoves DEF Unfinished
  <1>5. ASSUME NEW t \in DOMAIN task, ThreadStep(t) \/ OrphanEnds(t)
        PROVE  ProcessInv'
    <2>1. UNCHANGED <<pc, incarnation>>
      BY <1>5 DEF ThreadStep, StartAttempt, LogStart, RunEnds, LogCompletion, FinishAttempt,
                  OrphanEnds, threadUnchanged, loopVars
    <2>2. PICK from \in OnThread \cup {"orphan"}, to \in TaskState \ {"queued", "orphan"} :
             /\ Moves(t, from, to)
             /\ to \in OnThread => from \in OnThread
             /\ to = "lost" => from = "orphan"
      BY <1>5, ThreadMoves
    <2>3. to \in Unfinished => from \in Unfinished
      BY <2>2 DEF Unfinished
    <2> QED BY <2>1, <2>2, <2>3, ProcessMoves
  <1>6. CASE Stops
    <2>1. pc = "shutdown" /\ pc' = "stopped" /\ UNCHANGED incarnation
      BY <1>6 DEF Stops, ShutdownCompletes, GoTo
    <2>2. DOMAIN task' = DOMAIN task
          /\ \A t \in DOMAIN task :
               task'[t].inc = task[t].inc /\ task'[t].st \notin Unfinished
      <3>1. \A t \in DOMAIN task : task[t] \in TaskFields /\ task[t].st \notin OnThread
        BY <1>6 DEF Stops, ShutdownCompletes, TasksIn, TypeOK, IsMap, TaskRecord
      <3> QED BY <1>6, <3>1 DEF Stops, ShutdownCompletes, TaskFields, Unfinished, OnThread
    <2> QED BY <2>1, <2>2 DEF ProcessInv, TasksIn
  <1>7. CASE Crash
    <2>1. pc' = "exited" /\ UNCHANGED incarnation
      BY <1>7 DEF Crash, GoTo
    <2>2. \A r \in TaskFields : Bereaved(r).inc = r.inc /\ Bereaved(r).st \notin Unfinished
      BY DEF Bereaved, TaskFields, Unfinished, OnThread
    <2>3. DOMAIN task' = DOMAIN task
          /\ \A t \in DOMAIN task :
               task'[t].inc = task[t].inc /\ task'[t].st \notin Unfinished
      BY <1>7, <2>2 DEF Crash, TypeOK, IsMap, TaskRecord
    <2> QED BY <2>1, <2>3 DEF ProcessInv, TasksIn
  <1> QED
    BY <1>1, <1>2, <1>3, <1>4, <1>5, <1>6, <1>7, StepKinds

-----------------------------------------------------------------------------
(* The executor's queue holds exactly the tasks that wait, each once, and    *)
(* behind them during a shutdown the token that makes the threads leave.     *)

QueueInv ==
  /\ \A i \in DOMAIN queue : queue[i] # None => queue[i] \in TasksIn({"queued"})
  /\ \A i, k \in DOMAIN queue : queue[i] = queue[k] => i = k
  /\ \A t \in TasksIn({"queued"}) : \E i \in DOMAIN queue : queue[i] = t
  /\ \A i \in DOMAIN queue : queue[i] = None <=> (pc = "shutdown" /\ i = Len(queue))
  /\ pc = "shutdown" => queue # <<>>

LEMMA QueueInit == Init => QueueInv
  BY DEF Init, QueueInv, TasksIn, EmptyMap

\* No task has the token's place.
LEMMA TokenIsNoTask == TypeOK => None \notin DOMAIN task
  BY NoneAssumption DEF TypeOK, IsMap

LEMMA StopLoopQueue == TypeOK /\ QueueInv /\ StopLoop => QueueInv'
  <1> SUFFICES ASSUME TypeOK, QueueInv, StopLoop PROVE QueueInv'
    OBVIOUS
  <1>1. /\ queue \in Seq(DOMAIN task \cup {None}) /\ queue' = Append(queue, None)
        /\ pc = "top" /\ pc' = "shutdown" /\ UNCHANGED task
    BY DEF StopLoop, GoTo, TypeOK
  <1>2. /\ \A i \in DOMAIN queue : i \in DOMAIN queue' /\ queue'[i] = queue[i]
        /\ Len(queue') = Len(queue) + 1 /\ Len(queue') \in DOMAIN queue'
        /\ queue'[Len(queue')] = None /\ queue' # <<>>
        /\ \A i \in DOMAIN queue' : i \in DOMAIN queue \/ i = Len(queue')
        /\ \A i \in DOMAIN queue : i # Len(queue')
    BY <1>1
  <1>3. \A i \in DOMAIN queue : queue[i] # None
    BY <1>1 DEF QueueInv
  <1> QED
    BY <1>1, <1>2, <1>3 DEF QueueInv, TasksIn

\* The token is at the head only when no task waits, and stays there.
LEMMA LeaveQueue ==
  ASSUME TypeOK, QueueInv, ThreadLeaves
  PROVE  pc = "shutdown" /\ UNCHANGED <<pc, queue, task>> /\ queue = <<None>>
  <1>1. /\ queue \in Seq(DOMAIN task \cup {None}) /\ queue # <<>> /\ queue[1] = None
        /\ 1 \in DOMAIN queue /\ queue' = Append(Tail(queue), None)
        /\ UNCHANGED <<pc, task>>
    BY DEF ThreadLeaves, TypeOK, threadUnchanged, loopVars
  <1>2. pc = "shutdown" /\ Len(queue) = 1
    BY <1>1 DEF QueueInv
  <1>3. queue = <<None>>
    <2>1. \A i \in 1 .. 1 : queue[i] = <<None>>[i]
      BY <1>1
    <2>2. queue = [i \in 1 .. 1 |-> queue[i]] /\ <<None>> = [i \in 1 .. 1 |-> <<None>>[i]]
      BY <1>1, <1>2
    <2> QED BY <2>1, <2>2
  <1>4. Append(Tail(<<None>>), None) = <<None>>
    OBVIOUS
  <1> QED
    BY <1>1, <1>2, <1>3, <1>4

LEMMA PickUpQueue == TypeOK /\ QueueInv /\ PickUp => QueueInv'
  <1> SUFFICES ASSUME TypeOK, QueueInv, PickUp PROVE QueueInv'
    OBVIOUS
  <1>1. /\ queue \in Seq(DOMAIN task \cup {None}) /\ queue # <<>> /\ queue' = Tail(queue)
        /\ Head(queue) # None /\ UNCHANGED pc
    BY DEF TypeOK, PickUp, threadUnchanged, loopVars
  <1>2. Moves(Head(queue), "queued", "begin")
    BY AdvanceMoves DEF PickUp
  <1>3. /\ 1 \in DOMAIN queue /\ Head(queue) = queue[1]
        /\ \A i \in DOMAIN queue' : i + 1 \in DOMAIN queue /\ queue'[i] = queue[i + 1] /\ i + 1 # 1
        /\ \A i \in DOMAIN queue : i # 1 => i - 1 \in DOMAIN queue' /\ queue'[i - 1] = queue[i]
    BY <1>1
  <1>4. \A i \in DOMAIN queue' : queue'[i] # Head(queue)
    BY <1>3 DEF QueueInv
  <1>5. \A i \in DOMAIN queue' : queue'[i] # None => queue'[i] \in TasksIn({"queued"})'
    BY <1>2, <1>3, <1>4 DEF QueueInv, TasksIn, Moves
  <1>6. \A i, k \in DOMAIN queue' : queue'[i] = queue'[k] => i = k
    <2> TAKE i, k \in DOMAIN queue'
    <2>1. i \in Int /\ k \in Int
      BY <1>1
    <2>2. queue[i + 1] = queue[k + 1] => i + 1 = k + 1
      BY <1>3 DEF QueueInv
    <2> QED BY <1>3, <2>1, <2>2
  <1>7. \A t \in TasksIn({"queued"})' : \E i \in DOMAIN queue' : queue'[i] = t
    <2> TAKE t \in TasksIn({"queued"})'
    <2>1. t # Head(queue) /\ t \in TasksIn({"queued"})
      BY <1>2 DEF Moves, TasksIn
    <2>2. PICK i \in DOMAIN queue : queue[i] = t
      BY <2>1 DEF QueueInv
    <2> QED BY <1>3, <2>1, <2>2
  <1>8. Len(queue') = Len(queue) - 1 /\ Len(queue) \in Nat
    BY <1>1
  <1>9. \A i \in DOMAIN queue' : queue'[i] = None <=> (pc = "shutdown" /\ i = Len(queue'))
    <2> TAKE i \in DOMAIN queue'
    <2>1. i \in Int
      BY <1>1
    <2> QED BY <1>3, <1>8, <2>1 DEF QueueInv
  <1>10. pc = "shutdown" => queue' # <<>>
    <2>1. pc = "shutdown" => Len(queue) # 1
      BY <1>1, <1>3 DEF QueueInv
    <2>2. queue' = <<>> => Len(queue') = 0
      BY <1>1
    <2> QED BY <1>8, <2>1, <2>2
  <1> QED
    BY <1>1, <1>5, <1>6, <1>7, <1>9, <1>10 DEF QueueInv

LEMMA AddsQueue ==
  ASSUME TypeOK, QueueInv, NEW t, NEW j, Adds(t, j), "shutdown" \notin {pc, pc'}
  PROVE  QueueInv'
  <1>1. /\ queue \in Seq(DOMAIN task \cup {None}) /\ queue' = Append(queue, t)
        /\ t \notin DOMAIN task /\ t # None
    BY NoneAssumption DEF TypeOK, Adds
  <1>2. /\ \A i \in DOMAIN queue : i \in DOMAIN queue' /\ queue'[i] = queue[i]
        /\ Len(queue) + 1 \in DOMAIN queue' /\ queue'[Len(queue) + 1] = t
        /\ \A i \in DOMAIN queue' : i \in DOMAIN queue \/ i = Len(queue) + 1
        /\ \A i \in DOMAIN queue : queue[i] # None /\ queue[i] \in DOMAIN task
    BY <1>1 DEF QueueInv
  <1>3. TasksIn({"queued"})' = TasksIn({"queued"}) \cup {t}
    BY DEF Adds, TasksIn, NewTask
  <1> QED
    BY <1>1, <1>2, <1>3 DEF QueueInv

LEMMA QueueStep == Steady /\ QueueInv /\ [Next]_vars => QueueInv'
  <1> SUFFICES ASSUME TypeInv, PoolInv, TypeOK, QueueInv, [Next]_vars
               PROVE  QueueInv'
    BY DEF Steady, TypeInv
  <1>1. CASE Quiet
    <2>1. CASE StopLoop
      BY <2>1, StopLoopQueue
    <2>2. CASE ThreadLeaves
      BY <2>2, LeaveQueue DEF QueueInv, TasksIn
    <2>3. CASE UNCHANGED queue /\ (pc' = "shutdown" <=> pc = "shutdown")
      BY <1>1, <2>3, QuietStep DEF QuietFacts, QueueInv, TasksIn
    <2> QED BY <1>1, <2>1, <2>2, <2>3, QuietStep DEF QuietFacts
  <1>2. CASE Respawn
    BY <1>2 DEF Respawn, poolVars, QueueInv, TasksIn
  <1>3. ASSUME NEW j \in todo, Submit(j) \/ SubmitRaises(j)
        PROVE  QueueInv'
    BY <1>3, DispatchAdds, AddsQueue DEF Submit, SubmitRaises, Enqueue
  <1>4. CASE PickUp
    BY <1>4, PickUpQueue
  <1>5. ASSUME NEW t \in DOMAIN task, ThreadStep(t) \/ OrphanEnds(t)
        PROVE  QueueInv'
    <2>1. UNCHANGED <<pc, queue>>
      BY <1>5 DEF ThreadStep, StartAttempt, LogStart, RunEnds, LogCompletion, FinishAttempt,
                  OrphanEnds, threadUnchanged, loopVars
    <2>2. PICK from \in OnThread \cup {"orphan"}, to \in TaskState \ {"queued", "orphan"} :
             Moves(t, from, to)
      BY <1>5, ThreadMoves
    <2>3. TasksIn({"queued"})' = TasksIn({"queued"})
      BY <2>2 DEF Moves, TasksIn, OnThread
    <2> QED BY <2>1, <2>3 DEF QueueInv
  <1>6. CASE Stops \/ Crash
    <2>1. queue' = <<>> /\ pc' # "shutdown"
      BY <1>6 DEF Stops, ShutdownCompletes, Crash, GoTo
    <2>2. TasksIn({"queued"})' = {}
      <3>1. \A t \in DOMAIN task : task[t] \in TaskFields
        BY DEF TypeOK, IsMap, TaskRecord
      <3>2. CASE Stops
        BY <3>1, <3>2 DEF Stops, ShutdownCompletes, TasksIn, TaskFields
      <3>3. CASE Crash
        <4>1. \A r \in TaskFields : Bereaved(r).st # "queued"
          BY DEF Bereaved, TaskFields, Unfinished
        <4> QED BY <3>1, <3>3, <4>1 DEF Crash, TasksIn
      <3> QED BY <1>6, <3>2, <3>3
    <2> QED BY <2>1, <2>2 DEF QueueInv
  <1> QED
    BY <1>1, <1>2, <1>3, <1>4, <1>5, <1>6, StepKinds

-----------------------------------------------------------------------------
(* The registry.  An execution overwrites the entry of an earlier one of the *)
(* same name, and the first to finish removes it: so every entry is that of  *)
(* an attempt in flight, although not every attempt in flight has an entry.  *)

RegistryInv ==
  \A j \in DOMAIN running :
    \E t \in TasksIn(InFlight) : task[t].job = j /\ running[j] = Execution(t)

LEMMA RegistryInit == Init => RegistryInv
  BY DEF Init, InitRegistry, RegistryInv, EmptyMap

\* A task that stays in flight, or was not, does not disturb the others' entries.
LEMMA RegistryMoves ==
  ASSUME RegistryInv, UNCHANGED running, NEW t, NEW from, NEW to, Moves(t, from, to),
         from \in InFlight => to \in InFlight /\ task'[t].attempt = task[t].attempt
  PROVE  RegistryInv'
  BY DEF RegistryInv, Moves, TasksIn, Execution

LEMMA ThreadRegistry ==
  ASSUME TypeOK, RegistryInv, NEW t \in DOMAIN task, ThreadStep(t) \/ OrphanEnds(t)
  PROVE  RegistryInv'
  <1> USE DEF InFlight
  <1>1. CASE StartAttempt(t)
    <2>1. Moves(t, "begin", "registered") /\ SameAttempt(t)
      BY <1>1, AdvanceMoves DEF StartAttempt
    <2>2. /\ DOMAIN running' = DOMAIN running \cup {task[t].job}
          /\ running'[task[t].job] = Execution(t)
          /\ \A j \in DOMAIN running : j # task[t].job => running'[j] = running[j]
      BY <1>1 DEF StartAttempt, MarkStarted, Put
    <2>3. t \in TasksIn(InFlight)' /\ task'[t].job = task[t].job
          /\ running'[task[t].job] = Execution(t)'
      BY <2>1, <2>2 DEF Moves, SameAttempt, TasksIn, Execution
    <2>4. ASSUME NEW j \in DOMAIN running, j # task[t].job
          PROVE  \E u \in TasksIn(InFlight)' : task'[u].job = j /\ running'[j] = Execution(u)'
      <3>1. PICK u \in TasksIn(InFlight) : task[u].job = j /\ running[j] = Execution(u)
        BY DEF RegistryInv
      <3>2. u # t /\ u \in DOMAIN task /\ task'[u] = task[u]
        BY <2>1, <3>1 DEF Moves, TasksIn
      <3> QED BY <2>1, <2>2, <2>4, <3>1, <3>2 DEF TasksIn, Execution, Moves
    <2> QED BY <2>2, <2>3, <2>4 DEF RegistryInv
  <1>2. CASE LogStart(t)
    <2>1. Moves(t, "registered", "running") /\ SameAttempt(t) /\ UNCHANGED running
      BY <1>2, AdvanceMoves DEF LogStart
    <2> QED BY <2>1, RegistryMoves DEF SameAttempt
  <1>3. CASE RunEnds(t)
    BY <1>3, RunEndsMoves, RegistryMoves DEF RunEnds
  <1>4. CASE LogCompletion(t)
    <2>1. Moves(t, "ended", "recorded") /\ SameAttempt(t) /\ UNCHANGED running
      BY <1>4, AdvanceMoves DEF LogCompletion
    <2> QED BY <2>1, RegistryMoves DEF SameAttempt
  <1>5. CASE FinishAttempt(t)
    <2>1. PICK to : Moves(t, "recorded", to)
      BY <1>5, FinishMoves
    <2>2. /\ DOMAIN running' = DOMAIN running \ {task[t].job}
          /\ \A j \in DOMAIN running' : running'[j] = running[j]
      BY <1>5 DEF FinishAttempt, MarkFinished, Drop
    <2>3. ASSUME NEW j \in DOMAIN running'
          PROVE  \E u \in TasksIn(InFlight)' : task'[u].job = j /\ running'[j] = Execution(u)'
      <3>1. PICK u \in TasksIn(InFlight) : task[u].job = j /\ running[j] = Execution(u)
        BY <2>2 DEF RegistryInv
      <3>2. u # t /\ u \in DOMAIN task /\ task'[u] = task[u]
        BY <2>1, <2>2, <3>1 DEF Moves, TasksIn
      <3> QED BY <2>1, <2>2, <3>1, <3>2 DEF TasksIn, Execution, Moves
    <2> QED BY <2>3 DEF RegistryInv
  <1>6. CASE OrphanEnds(t)
    <2>1. Moves(t, "orphan", "lost") /\ UNCHANGED running
      BY <1>6, AdvanceMoves DEF OrphanEnds
    <2> QED BY <2>1, RegistryMoves
  <1> QED
    BY <1>1, <1>2, <1>3, <1>4, <1>5, <1>6 DEF ThreadStep

LEMMA RegistryStep == Steady /\ RegistryInv /\ [Next]_vars => RegistryInv'
  <1> SUFFICES ASSUME TypeInv, PoolInv, TypeOK, RegistryInv, [Next]_vars
               PROVE  RegistryInv'
    BY DEF Steady, TypeInv
  <1>1. CASE Quiet \/ Respawn
    <2>1. UNCHANGED <<task, running>>
      BY <1>1, QuietStep DEF QuietFacts, Respawn, poolVars
    <2> QED BY <2>1 DEF RegistryInv, TasksIn, Execution
  <1>2. ASSUME NEW j \in todo, Submit(j) \/ SubmitRaises(j)
        PROVE  RegistryInv'
    <2>1. PICK t \in Tasks : Adds(t, j)
      BY <1>2, DispatchAdds
    <2>2. UNCHANGED running
      BY <1>2 DEF Submit, SubmitRaises
    <2> QED BY <2>1, <2>2 DEF RegistryInv, Adds, TasksIn, Execution
  <1>3. CASE PickUp
    <2>1. Moves(Head(queue), "queued", "begin") /\ UNCHANGED running
      BY <1>3, AdvanceMoves DEF PickUp
    <2> QED BY <2>1, RegistryMoves DEF InFlight
  <1>4. CASE \E t \in DOMAIN task : ThreadStep(t) \/ OrphanEnds(t)
    BY <1>4, ThreadRegistry
  <1>5. CASE Stops
    <2>1. DOMAIN running = {} /\ UNCHANGED running
      BY <1>5 DEF Stops, ShutdownCompletes, RegistryInv, TasksIn, InFlight, OnThread
    <2> QED BY <2>1 DEF RegistryInv
  <1>6. CASE Crash
    BY <1>6, EmptyMapType DEF Crash, RegistryInv
  <1> QED
    BY <1>1, <1>2, <1>3, <1>4, <1>5, <1>6, StepKinds

\* At every moment an entry of the registry names an attempt that is in flight
\* in the present process: no job is ever refused on account of a run that is
\* over, whatever overlaps, retries, kills and restarts there were.
THEOREM NoGhosts == Spec => []RegistryGhostFree
  <1>1. Init => Steady /\ ProcessInv /\ RegistryInv
    BY SteadyInit, ProcessInit, RegistryInit
  <1>2. Steady /\ ProcessInv /\ RegistryInv /\ [Next]_vars
          => Steady' /\ ProcessInv' /\ RegistryInv'
    BY SteadyStep, ProcessStep, RegistryStep
  <1>3. ProcessInv /\ RegistryInv => RegistryGhostFree
    BY DEF ProcessInv, RegistryInv, RegistryGhostFree, TasksIn, InFlight, Unfinished, OnThread
  <1> QED
    BY <1>1, <1>2, <1>3, PTL DEF Spec

-----------------------------------------------------------------------------
(* Tasks, their attempts and their definitions *)

\* The definition comes from a file that was loaded.
Loaded(def) == \E f \in Files : \E j \in DOMAIN f.jobs : def = f.jobs[j]

AttemptInv ==
  /\ \A j \in DOMAIN schedule : Loaded(schedule[j])
  /\ \A t \in DOMAIN task :
       /\ Loaded(task[t].def)
       /\ task[t].attempt <= MaxAttempts(task[t].def)
       /\ task[t].st = "queued" => task[t].attempt = 1
       /\ task[t].st = "done" => ~Retries(t)

\* The end of a process, by a shutdown or a kill, takes the unfinished tasks
\* with it and leaves the others, and the history, as they are.
LEMMA EndOfProcess ==
  ASSUME TypeOK, Stops \/ Crash
  PROVE  /\ UNCHANGED <<rows, unrecorded, schedule>> /\ DOMAIN task' = DOMAIN task
         /\ \A t \in DOMAIN task :
              /\ SameAttempt(t) /\ task'[t].def = task[t].def
              /\ \/ task[t].st \in Unfinished /\ task'[t].st \in {"lost", "orphan"}
                 \/ task[t].st \notin Unfinished /\ task'[t].st = task[t].st
  <1> USE DEF SameAttempt, historyVars
  <1>1. \A t \in DOMAIN task : task[t] \in TaskFields
    BY DEF TypeOK, IsMap, TaskRecord
  <1>2. CASE Stops
    BY <1>1, <1>2 DEF Stops, ShutdownCompletes, TaskFields, TasksIn, Unfinished
  <1>3. CASE Crash
    <2>1. \A r \in TaskFields :
            /\ Bereaved(r).attempt = r.attempt /\ Bereaved(r).result = r.result
            /\ Bereaved(r).def = r.def
            /\ \/ r.st \in Unfinished /\ Bereaved(r).st \in {"lost", "orphan"}
               \/ r.st \notin Unfinished /\ Bereaved(r).st = r.st
      BY DEF Bereaved, TaskFields, Unfinished, OnThread
    <2> QED BY <1>1, <1>3, <2>1 DEF Crash
  <1> QED
    BY <1>2, <1>3

LEMMA AttemptInit == Init => AttemptInv
  BY DEF Init, AttemptInv, EmptyMap

\* Only Boot, LoadFile and Respawn change the schedule in force.
LEMMA ScheduleStep ==
  ASSUME TypeOK, \A j \in DOMAIN schedule : Loaded(schedule[j]), Quiet \/ Respawn
  PROVE  \A j \in DOMAIN schedule' : Loaded(schedule'[j])
  <1> USE DEF loopVars, othersVars, signalVars, historyVars, poolVars, GoTo
  <1>1. ASSUME NEW f \in Files, NEW j \in DOMAIN f.jobs
        PROVE  Loaded(f.jobs[j])
    BY DEF Loaded
  <1>2. CASE Boot \/ LoadFile
    BY <1>1, <1>2 DEF Boot, LoadFile, TypeOK
  <1>3. CASE Respawn
    BY <1>3 DEF Respawn, EmptyMap
  <1>4. CASE \/ BootFails \/ StopLoop \/ CheckReload \/ PollClock \/ EndDispatch \/ Beat
             \/ Wake \/ ThreadLeaves
    BY <1>4 DEF BootFails, StopLoop, CheckReload, PollClock, EndDispatch, Beat, Wake,
                ThreadLeaves, threadUnchanged
  <1>5. CASE \E j \in todo : AlreadyDispatched(j) \/ SkipOverlap(j)
    BY <1>5 DEF AlreadyDispatched, SkipOverlap
  <1>6. CASE Sighup \/ Sigterm \/ EditFile \/ ClockTick \/ ClockStepsBack
    BY <1>6 DEF Sighup, Sigterm, EditFile, ClockTick, ClockStepsBack, SetClock
  <1>7. CASE UNCHANGED vars
    BY <1>7 DEF vars
  <1> QED
    BY <1>2, <1>3, <1>4, <1>5, <1>6, <1>7 DEF Quiet

LEMMA AttemptMoves ==
  ASSUME AttemptInv, UNCHANGED schedule, NEW t, NEW from, NEW to, Moves(t, from, to),
         to # "queued",
         \/ task'[t].attempt = task[t].attempt
         \/ Retries(t) /\ task'[t].attempt = task[t].attempt + 1 /\ task[t].attempt \in Nat
                       /\ task[t].def \in JobDef,
         to = "done" => task'[t].result = task[t].result /\ ~Retries(t)
  PROVE  AttemptInv'
  <1>1. ASSUME NEW u \in DOMAIN task'
        PROVE  /\ Loaded(task'[u].def)
               /\ task'[u].attempt <= MaxAttempts(task'[u].def)
               /\ task'[u].st = "queued" => task'[u].attempt = 1
               /\ task'[u].st = "done" => ~Retries(u)'
    <2>1. CASE u # t
      BY <1>1, <2>1 DEF AttemptInv, Moves, Retries, Loaded, MaxAttempts
    <2>2. CASE u = t
      <3>1. Loaded(task'[u].def) /\ (task'[u].st # "queued")
        BY <2>2 DEF AttemptInv, Moves, Loaded
      <3>2. task'[u].attempt <= MaxAttempts(task'[u].def)
        BY <2>2 DEF AttemptInv, Moves, Retries, MaxAttempts, JobDef
      <3>3. task'[u].st = "done" => ~Retries(u)'
        BY <2>2 DEF Moves, Retries, MaxAttempts
      <3> QED BY <3>1, <3>2, <3>3
    <2> QED BY <2>1, <2>2
  <1> QED
    BY <1>1 DEF AttemptInv, Loaded

LEMMA AttemptStep == Steady /\ AttemptInv /\ [Next]_vars => AttemptInv'
  <1> SUFFICES ASSUME TypeInv, PoolInv, AttemptInv, [Next]_vars PROVE AttemptInv'
    BY DEF Steady
  <1>0. TypeOK
    BY DEF TypeInv
  <1>1. CASE Quiet \/ Respawn
    <2>1. UNCHANGED task
      BY <1>1, QuietStep DEF QuietFacts, Respawn, poolVars
    <2> QED BY <1>0, <1>1, <2>1, ScheduleStep DEF AttemptInv, Loaded, Retries, MaxAttempts
  <1>2. ASSUME NEW j \in todo, Submit(j) \/ SubmitRaises(j)
        PROVE  AttemptInv'
    <2>1. PICK t \in Tasks : Adds(t, j)
      BY <1>2, DispatchAdds
    <2>2. UNCHANGED schedule /\ j \in DOMAIN schedule /\ schedule[j].maxRetries \in Int
      BY <1>2 DEF Submit, SubmitRaises, TypeInv, TypeOK, TodoInv, IsSchedule, IsMap, JobDef
    <2> QED BY <2>1, <2>2 DEF AttemptInv, Adds, NewTask, MaxAttempts, Loaded, Retries
  <1>3. CASE PickUp
    <2>1. Moves(Head(queue), "queued", "begin") /\ SameAttempt(Head(queue))
      BY <1>0, <1>3, AdvanceMoves DEF PickUp
    <2>2. UNCHANGED schedule
      BY <1>3 DEF PickUp, threadUnchanged
    <2> QED BY <2>1, <2>2, AttemptMoves DEF SameAttempt
  <1>4. ASSUME NEW t \in DOMAIN task, ThreadStep(t) \/ OrphanEnds(t)
        PROVE  AttemptInv'
    <2>1. UNCHANGED schedule
      BY <1>4 DEF ThreadStep, StartAttempt, LogStart, RunEnds, LogCompletion, FinishAttempt,
                  OrphanEnds, threadUnchanged
    <2>2. task[t].attempt \in Nat /\ task[t].def \in JobDef
      BY <1>0 DEF TypeOK, IsMap, TaskRecord, TaskFields
    <2>3. CASE StartAttempt(t) \/ LogStart(t) \/ LogCompletion(t) \/ OrphanEnds(t)
      <3>1. PICK from, to : Moves(t, from, to) /\ SameAttempt(t) /\ to \notin {"queued", "done"}
        BY <1>0, <2>3, AdvanceMoves DEF StartAttempt, LogStart, LogCompletion, OrphanEnds
      <3> QED BY <2>1, <3>1, AttemptMoves DEF SameAttempt
    <2>4. CASE RunEnds(t)
      BY <1>0, <2>1, <2>4, RunEndsMoves, AttemptMoves
    <2>5. CASE FinishAttempt(t)
      BY <1>0, <2>1, <2>2, <2>5, FinishMoves, AttemptMoves DEF SameAttempt
    <2> QED BY <1>4, <2>3, <2>4, <2>5 DEF ThreadStep
  <1>5. CASE Stops \/ Crash
    <2>1. ASSUME NEW t \in DOMAIN task
          PROVE  /\ SameAttempt(t) /\ task'[t].def = task[t].def
                 /\ task'[t].st \in {"queued", "done"} => task'[t].st = task[t].st
      BY <1>0, <1>5, EndOfProcess
    <2>2. UNCHANGED schedule /\ DOMAIN task' = DOMAIN task
      BY <1>0, <1>5, EndOfProcess
    <2> QED BY <2>1, <2>2 DEF AttemptInv, SameAttempt, Loaded, Retries, MaxAttempts
  <1> QED
    BY <1>1, <1>2, <1>3, <1>4, <1>5, StepKinds

-----------------------------------------------------------------------------
(* The run history.  What a row may say follows from how far its attempt has *)
(* come (RowInv), and that it is there from what the database has lost       *)
(* (RecordInv).                                                              *)

NotLogged == {"queued", "begin", "registered"}
Underway  == {"running", "ended"}
Recorded  == {"recorded", "done"}

RowInv ==
  \A t \in Tasks : \A a \in Nat \ {0} :
    <<t, a>> \in DOMAIN rows =>
      /\ t \in DOMAIN task /\ a <= task[t].attempt
      /\ a < task[t].attempt => rows[<<t, a>>] # "success"
      /\ a = task[t].attempt =>
           /\ task[t].st \notin NotLogged
           /\ task[t].st \in Underway => rows[<<t, a>>] = "started"
           /\ task[t].st = "recorded" => rows[<<t, a>>] \in {"started", task[t].result}

RecordInv ==
  \A t \in DOMAIN task :
    /\ \A a \in Nat \ {0} :
         a < task[t].attempt =>
           \/ <<t, a>> \in unrecorded
           \/ <<t, a>> \in DOMAIN rows /\ rows[<<t, a>>] \in Terminal \ {"success"}
    /\ task[t].st \in Underway => Execution(t) \in unrecorded \cup DOMAIN rows
    /\ task[t].st \in Recorded =>
         \/ Execution(t) \in unrecorded
         \/ Execution(t) \in DOMAIN rows /\ rows[Execution(t)] = task[t].result

HistoryInv == RowInv /\ RecordInv

LEMMA HistoryInit == Init => HistoryInv
  BY DEF Init, InitHistory, HistoryInv, RowInv, RecordInv, EmptyMap

\* The history of every attempt but the one t is in stays the same.
WritesOnly(t) ==
  /\ \A e : e # Execution(t) => /\ e \in DOMAIN rows' <=> e \in DOMAIN rows
                                /\ e \in DOMAIN rows => rows'[e] = rows[e]
                                /\ e \in unrecorded' <=> e \in unrecorded
  /\ unrecorded \subseteq unrecorded'

LEMMA LogStartWrites ==
  ASSUME NEW t, LogStart(t)
  PROVE  /\ WritesOnly(t) /\ Execution(t) \in DOMAIN rows' \cup unrecorded'
         /\ Execution(t) \in DOMAIN rows' =>
              \/ rows'[Execution(t)] = "started"
              \/ Execution(t) \in DOMAIN rows /\ rows'[Execution(t)] = rows[Execution(t)]
  <1>1. CASE WriteFails(Execution(t))
    BY <1>1 DEF WriteFails, WritesOnly
  <1>2. CASE rows' = Put(rows, Execution(t), "started") /\ UNCHANGED unrecorded
    BY <1>2 DEF Put, WritesOnly
  <1> QED
    BY <1>1, <1>2 DEF LogStart, RecordStart

LEMMA LogCompletionWrites ==
  ASSUME TypeOK, NEW t, LogCompletion(t)
  PROVE  /\ WritesOnly(t) /\ DOMAIN rows' = DOMAIN rows
         /\ Execution(t) \in DOMAIN rows =>
              rows'[Execution(t)] \in {rows[Execution(t)], task[t].result}
         /\ Execution(t) \in DOMAIN rows =>
              Execution(t) \in unrecorded' \/ rows'[Execution(t)] = task[t].result
  <1>1. CASE WriteFails(Execution(t))
    BY <1>1 DEF WriteFails, WritesOnly
  <1>2. CASE /\ Execution(t) \in DOMAIN rows
             /\ rows' = [rows EXCEPT ![Execution(t)] = task[t].result]
             /\ UNCHANGED unrecorded
    BY <1>2 DEF WritesOnly
  <1>3. CASE Execution(t) \notin DOMAIN rows /\ UNCHANGED <<rows, unrecorded>>
    BY <1>3 DEF WritesOnly
  <1> QED
    BY <1>1, <1>2, <1>3 DEF LogCompletion, RecordCompletion

\* Moves of a task that write nothing.
LEMMA UnloggedMoves ==
  ASSUME TypeOK, HistoryInv, UNCHANGED <<rows, unrecorded>>,
         NEW t, NEW from, NEW to, Moves(t, from, to),
         task'[t].attempt = task[t].attempt,
         to \in NotLogged => from \in NotLogged,
         to \in Underway => from \in Underway,
         to \in Recorded => from \in Recorded /\ task'[t].result = task[t].result,
         to # "recorded"
  PROVE  HistoryInv'
  <1> USE DEF Moves, NotLogged, Underway, Recorded
  <1>1. RowInv'
    BY DEF HistoryInv, RowInv
  <1>2. RecordInv'
    BY DEF HistoryInv, RecordInv, Execution
  <1> QED
    BY <1>1, <1>2 DEF HistoryInv

LEMMA LogStartHistory ==
  ASSUME TypeOK, HistoryInv, NEW t \in DOMAIN task, LogStart(t)
  PROVE  HistoryInv'
  <1> USE DEF NotLogged, Underway, Recorded
  <1>1. Moves(t, "registered", "running") /\ SameAttempt(t)
    BY AdvanceMoves DEF LogStart
  <1>2. t \in Tasks /\ task[t].attempt \in Nat \ {0} /\ Execution(t) = <<t, task[t].attempt>>
    BY DEF TypeOK, IsMap, TaskRecord, TaskFields, Execution
  <1>3. Execution(t) \notin DOMAIN rows
    BY <1>1, <1>2 DEF HistoryInv, RowInv, Moves
  <1>4. /\ WritesOnly(t) /\ Execution(t) \in DOMAIN rows' \cup unrecorded'
        /\ Execution(t) \in DOMAIN rows' => rows'[Execution(t)] = "started"
    BY <1>3, LogStartWrites
  <1>5. RowInv'
    <2> SUFFICES ASSUME NEW u \in Tasks, NEW a \in Nat \ {0}, <<u, a>> \in DOMAIN rows'
                 PROVE  /\ u \in DOMAIN task' /\ a <= task'[u].attempt
                        /\ a < task'[u].attempt => rows'[<<u, a>>] # "success"
                        /\ a = task'[u].attempt =>
                             /\ task'[u].st \notin NotLogged
                             /\ task'[u].st \in Underway => rows'[<<u, a>>] = "started"
                             /\ task'[u].st = "recorded" =>
                                  rows'[<<u, a>>] \in {"started", task'[u].result}
      BY DEF RowInv
    <2>1. CASE <<u, a>> = Execution(t)
      BY <1>1, <1>2, <1>4, <2>1 DEF Moves, SameAttempt
    <2>2. CASE <<u, a>> # Execution(t)
      <3>1. <<u, a>> \in DOMAIN rows /\ rows'[<<u, a>>] = rows[<<u, a>>]
        BY <1>4, <2>2 DEF WritesOnly
      <3>2. u # t \/ a # task[t].attempt
        BY <1>2, <2>2
      <3> QED BY <1>1, <1>2, <3>1, <3>2 DEF HistoryInv, RowInv, Moves, SameAttempt
    <2> QED BY <2>1, <2>2
  <1>6. RecordInv'
    BY <1>1, <1>2, <1>4 DEF HistoryInv, RecordInv, WritesOnly, Moves, SameAttempt, Execution
  <1> QED
    BY <1>5, <1>6 DEF HistoryInv

LEMMA LogCompletionHistory ==
  ASSUME TypeOK, HistoryInv, NEW t \in DOMAIN task, LogCompletion(t)
  PROVE  HistoryInv'
  <1> USE DEF NotLogged, Underway, Recorded
  <1>1. Moves(t, "ended", "recorded") /\ SameAttempt(t)
    BY AdvanceMoves DEF LogCompletion
  <1>2. t \in Tasks /\ task[t].attempt \in Nat \ {0} /\ Execution(t) = <<t, task[t].attempt>>
    BY DEF TypeOK, IsMap, TaskRecord, TaskFields, Execution
  <1>3. Execution(t) \in DOMAIN rows => rows[Execution(t)] = "started"
    BY <1>1, <1>2 DEF HistoryInv, RowInv, Moves
  <1>4. Execution(t) \in unrecorded \cup DOMAIN rows
    BY <1>1 DEF HistoryInv, RecordInv, Moves
  <1>5. RowInv'
    BY <1>1, <1>2, <1>3, LogCompletionWrites DEF HistoryInv, RowInv, WritesOnly, Moves, SameAttempt
  <1>6. RecordInv'
    BY <1>1, <1>2, <1>4, LogCompletionWrites
       DEF HistoryInv, RecordInv, WritesOnly, Moves, SameAttempt, Execution
  <1> QED
    BY <1>5, <1>6 DEF HistoryInv

\* The attempt is over: its row is that of an earlier attempt if there is another.
LEMMA RetryHistory ==
  ASSUME TypeOK, HistoryInv, NEW t \in DOMAIN task, UNCHANGED <<rows, unrecorded>>,
         Moves(t, "recorded", "begin"), Retries(t), task'[t].attempt = task[t].attempt + 1
  PROVE  HistoryInv'
  <1> USE DEF NotLogged, Underway, Recorded
  <1>1. /\ t \in Tasks /\ task[t].attempt \in Nat \ {0}
        /\ Execution(t) = <<t, task[t].attempt>>
        /\ task[t].result \in Terminal \ {"success"}
    BY DEF TypeOK, IsMap, TaskRecord, TaskFields, Execution, Moves, Over, Retries
  <1>2. \A u \in DOMAIN task : task[u].attempt \in Nat \ {0}
    BY DEF TypeOK, IsMap, TaskRecord, TaskFields
  <1>3. RowInv'
    BY <1>1, <1>2 DEF HistoryInv, RowInv, Moves
  <1>4. RecordInv'
    <2>1. \A a \in Nat \ {0} : a < task'[t].attempt => a < task[t].attempt \/ a = task[t].attempt
      BY <1>1
    <2>2. \/ <<t, task[t].attempt>> \in unrecorded
          \/ /\ <<t, task[t].attempt>> \in DOMAIN rows
             /\ rows[<<t, task[t].attempt>>] \in Terminal \ {"success"}
      BY <1>1 DEF HistoryInv, RecordInv, Moves
    <2> QED BY <2>1, <2>2 DEF HistoryInv, RecordInv, Moves, Execution
  <1> QED
    BY <1>3, <1>4 DEF HistoryInv

LEMMA HistoryStep == Steady /\ HistoryInv /\ [Next]_vars => HistoryInv'
  <1> SUFFICES ASSUME TypeInv, PoolInv, TypeOK, HistoryInv, [Next]_vars
               PROVE  HistoryInv'
    BY DEF Steady, TypeInv
  <1> USE DEF NotLogged, Underway, Recorded, historyVars
  <1>1. CASE Quiet \/ Respawn
    <2>1. UNCHANGED <<task, rows, unrecorded>>
      BY <1>1, QuietStep DEF QuietFacts, Respawn, poolVars
    <2> QED BY <2>1 DEF HistoryInv, RowInv, RecordInv, Execution
  <1>2. ASSUME NEW j \in todo, Submit(j) \/ SubmitRaises(j)
        PROVE  HistoryInv'
    <2>1. PICK t \in Tasks : Adds(t, j)
      BY <1>2, DispatchAdds
    <2>2. UNCHANGED <<rows, unrecorded>>
      BY <1>2 DEF Submit, SubmitRaises
    <2>3. RowInv'
      BY <2>1, <2>2 DEF HistoryInv, RowInv, Adds
    <2>4. RecordInv'
      BY <2>1, <2>2 DEF HistoryInv, RecordInv, Adds, NewTask, Execution
    <2> QED BY <2>3, <2>4 DEF HistoryInv
  <1>3. CASE PickUp
    <2>1. Moves(Head(queue), "queued", "begin") /\ SameAttempt(Head(queue))
      BY <1>3, AdvanceMoves DEF PickUp
    <2> QED BY <1>3, <2>1, UnloggedMoves DEF PickUp, SameAttempt
  <1>4. ASSUME NEW t \in DOMAIN task, ThreadStep(t) \/ OrphanEnds(t)
        PROVE  HistoryInv'
    <2>1. CASE StartAttempt(t)
      BY <2>1, AdvanceMoves, UnloggedMoves DEF StartAttempt, SameAttempt
    <2>2. CASE LogStart(t)
      BY <2>2, LogStartHistory
    <2>3. CASE RunEnds(t)
      BY <2>3, RunEndsMoves, UnloggedMoves DEF RunEnds
    <2>4. CASE LogCompletion(t)
      BY <2>4, LogCompletionHistory
    <2>5. CASE FinishAttempt(t)
      <3>1. UNCHANGED <<rows, unrecorded>>
        BY <2>5 DEF FinishAttempt
      <3>2. CASE Moves(t, "recorded", "done") /\ SameAttempt(t)
        BY <3>1, <3>2, UnloggedMoves DEF SameAttempt
      <3> QED BY <2>5, <3>1, <3>2, FinishMoves, RetryHistory
    <2>6. CASE OrphanEnds(t)
      BY <2>6, AdvanceMoves, UnloggedMoves DEF OrphanEnds, SameAttempt
    <2> QED BY <1>4, <2>1, <2>2, <2>3, <2>4, <2>5, <2>6 DEF ThreadStep
  <1>5. CASE Stops \/ Crash
    <2>1. RowInv'
      BY <1>5, EndOfProcess DEF HistoryInv, RowInv, SameAttempt
    <2>2. RecordInv'
      BY <1>5, EndOfProcess DEF HistoryInv, RecordInv, SameAttempt, Execution
    <2> QED BY <2>1, <2>2 DEF HistoryInv
  <1> QED
    BY <1>1, <1>2, <1>3, <1>4, <1>5, StepKinds

\* Every attempt that ended while its process lived has a row with an outcome,
\* that of the run if it is the last and not a success if it is an earlier one,
\* unless the database lost one of its two writes.
THEOREM HistoryIsComplete == Spec => []HistoryComplete
  <1>0. Steady => TypeInv
    BY DEF Steady
  <1>1. Init => Steady /\ HistoryInv
    BY SteadyInit, HistoryInit
  <1>2. Steady /\ HistoryInv /\ [Next]_vars => Steady' /\ HistoryInv'
    BY SteadyStep, HistoryStep
  <1>3. TypeInv /\ HistoryInv => HistoryComplete
    <2>1. TypeInv => \A t \in DOMAIN task : task[t].attempt \in Nat \ {0}
      BY DEF TypeInv, TypeOK, IsMap, TaskRecord, TaskFields
    <2> SUFFICES ASSUME TypeInv, HistoryInv, NEW t \in DOMAIN task,
                        NEW a \in 1 .. task[t].attempt,
                        <<t, a>> \notin unrecorded,
                        ~(a = task[t].attempt /\ task[t].st \notin {"recorded", "done"})
                 PROVE  /\ <<t, a>> \in DOMAIN rows
                        /\ IF a = task[t].attempt THEN rows[<<t, a>>] = task[t].result
                                                  ELSE rows[<<t, a>>] \in Terminal \ {"success"}
      BY DEF HistoryComplete
    <2>2. CASE a = task[t].attempt
      BY <2>2 DEF HistoryInv, RecordInv, Execution, Recorded
    <2>3. CASE a # task[t].attempt
      <3>1. a \in Nat \ {0} /\ a < task[t].attempt
        BY <2>1, <2>3
      <3> QED BY <2>3, <3>1 DEF HistoryInv, RecordInv
    <2> QED BY <2>2, <2>3
  <1> QED
    BY <1>0, <1>1, <1>2, <1>3, PTL DEF Spec

-----------------------------------------------------------------------------
(* A requested stop.  The token stands behind every queued task, so the      *)
(* threads are gone only when no task is left; unless there never was one.   *)

\* The tasks of the present process.
Mine == {t \in DOMAIN task : task[t].inc = incarnation}

DrainInv ==
  Alive /\ threads = 0 =>
    \/ pc = "shutdown" /\ queue = <<None>>
    \/ \A t \in Mine : SubmitMayFail /\ task[t].st = "queued"

LEMMA DrainInit == Init => DrainInv
  BY DEF Init, DrainInv, Mine, EmptyMap

LEMMA DrainStep ==
  ASSUME Steady, ProcessInv, QueueInv, DrainInv, [Next]_vars
  PROVE  DrainInv'
  <1>0. /\ TypeInv /\ PoolInv /\ TypeOK /\ threads \in Nat
        /\ Cardinality(TasksIn(OnThread)) \in Nat
    BY BusyThreads DEF Steady, TypeInv
  <1>1. CASE Quiet
    <2>1. /\ UNCHANGED <<task, incarnation>>
          /\ Alive' => Alive
          /\ \/ StopLoop
             \/ ThreadLeaves
             \/ UNCHANGED <<queue, threads>> /\ (pc' = "shutdown" <=> pc = "shutdown")
      BY <1>1, QuietStep DEF QuietFacts, Alive
    <2>2. CASE StopLoop
      BY <2>1, <2>2 DEF StopLoop, DrainInv, Mine
    <2>3. CASE ThreadLeaves
      <3>1. pc' = "shutdown" /\ queue' = <<None>>
        BY <1>0, <2>3, LeaveQueue
      <3> QED BY <3>1 DEF DrainInv
    <2>4. CASE UNCHANGED <<queue, threads>> /\ (pc' = "shutdown" <=> pc = "shutdown")
      BY <2>1, <2>4 DEF DrainInv, Mine
    <2> QED BY <2>1, <2>2, <2>3, <2>4
  <1>2. CASE Respawn
    <2>1. incarnation \in Int /\ incarnation' = incarnation + 1 /\ UNCHANGED task
      BY <1>0, <1>2 DEF TypeOK, Respawn, poolVars
    <2>2. \A t \in DOMAIN task : task[t].inc \in Int /\ task[t].inc <= incarnation
      BY <1>0, BoundsAssumption DEF TypeOK, IsMap, TaskRecord, TaskFields, ProcessInv
    <2>3. Mine' = {}
      BY <2>1, <2>2 DEF Mine
    <2> QED BY <2>3 DEF DrainInv
  <1>3. ASSUME NEW j \in todo, Submit(j)
        PROVE  DrainInv'
    <2>1. Load \in Nat
      BY <1>0 DEF Load, TypeOK
    <2>2. threads' # 0
      BY <1>0, <1>3, <2>1, BoundsAssumption DEF Submit, PoolGrows
    <2> QED BY <2>2 DEF DrainInv
  <1>4. ASSUME NEW j \in todo, SubmitRaises(j)
        PROVE  DrainInv'
    <2>1. PICK t \in Tasks : Adds(t, j)
      BY <1>4, DispatchAdds
    <2>2. UNCHANGED <<threads, incarnation>> /\ SubmitMayFail /\ pc = "dispatch"
      BY <1>4 DEF SubmitRaises, Enqueue
    <2>3. threads = 0 => \A u \in Mine : task[u].st = "queued"
      BY <2>2 DEF DrainInv, Alive
    <2>4. \A u \in Mine' : u = t \/ (u \in Mine /\ task'[u] = task[u])
      BY <2>1, <2>2 DEF Adds, Mine
    <2>5. task'[t].st = "queued"
      BY <2>1 DEF Adds, NewTask
    <2> QED BY <2>2, <2>3, <2>4, <2>5 DEF DrainInv
  <1>5. CASE PickUp
    BY <1>0, <1>5 DEF PickUp, HasFreeThread, DrainInv
  <1>6. ASSUME NEW t \in DOMAIN task, ThreadStep(t)
        PROVE  DrainInv'
    <2>1. t \in TasksIn(OnThread) /\ UNCHANGED threads
      BY <1>6 DEF ThreadStep, StartAttempt, LogStart, RunEnds, LogCompletion, FinishAttempt,
                  Advance, TasksIn, OnThread
    <2>2. Cardinality(TasksIn(OnThread)) # 0
      BY <1>0, <2>1, BusyThreads, FS_EmptySet
    <2> QED BY <1>0, <2>1, <2>2 DEF PoolInv, DrainInv
  <1>7. ASSUME NEW t \in DOMAIN task, OrphanEnds(t)
        PROVE  DrainInv'
    <2>1. Moves(t, "orphan", "lost") /\ UNCHANGED <<pc, queue, threads, incarnation>>
      BY <1>0, <1>7, AdvanceMoves DEF OrphanEnds, threadUnchanged, loopVars
    <2>2. Alive => t \notin Mine
      BY <2>1 DEF Moves, ProcessInv, TasksIn, Alive, Mine
    <2>3. Alive => (Mine' = Mine /\ \A u \in Mine : task'[u] = task[u])
      BY <2>1, <2>2 DEF Moves, Mine
    <2> QED BY <2>1, <2>3 DEF DrainInv, Alive
  <1>8. CASE Stops \/ Crash
    BY <1>8 DEF Stops, ShutdownCompletes, Crash, GoTo, DrainInv, Alive
  <1> QED
    BY <1>0, <1>1, <1>2, <1>3, <1>4, <1>5, <1>6, <1>7, <1>8, StepKinds

\* What is known of the tasks of every process, alive or not.
TaskLifeInv == Steady /\ ProcessInv /\ QueueInv /\ AttemptInv /\ HistoryInv

LEMMA TaskLifeInit == Init => TaskLifeInv
  BY SteadyInit, ProcessInit, QueueInit, AttemptInit, HistoryInit DEF TaskLifeInv

LEMMA TaskLifeStep == TaskLifeInv /\ [Next]_vars => TaskLifeInv'
  BY SteadyStep, ProcessStep, QueueStep, AttemptStep, HistoryStep DEF TaskLifeInv

LEMMA TaskLifeTypes == TaskLifeInv => TypeInv /\ PoolInv /\ TypeOK
  BY DEF TaskLifeInv, Steady, TypeInv

LEMMA ShutdownDrains ==
  ASSUME TaskLifeInv, DrainInv, Stops
  PROVE  StoppedIsDrained'
  <1>1. /\ pc = "shutdown" /\ threads = 0 /\ TasksIn(OnThread) = {} /\ Alive
        /\ UNCHANGED <<rows, incarnation>>
    BY DEF Stops, ShutdownCompletes, historyVars, Alive
  <1>2. \A t \in DOMAIN task : task[t] \in TaskFields /\ t \in Tasks
    BY TaskLifeTypes DEF TypeOK, IsMap, TaskRecord
  <1>3. DOMAIN task' = DOMAIN task
        /\ \A t \in DOMAIN task :
             task'[t] = IF task[t].st = "queued" THEN [task[t] EXCEPT !.st = "lost"]
                                                 ELSE task[t]
    BY DEF Stops, ShutdownCompletes
  <1>4. Mine' = Mine
    BY <1>1, <1>2, <1>3 DEF Mine, TaskFields
  <1>5. CASE queue = <<None>>
    <2> SUFFICES ASSUME NEW t \in Mine PROVE task'[t].st = "done" /\ ~Retries(t)'
      BY <1>4 DEF StoppedIsDrained, Mine
    <2>1. task[t].st # "queued"
      <3>1. \A i \in DOMAIN queue : queue[i] = None
        BY <1>5
      <3> QED BY <3>1, TokenIsNoTask, TaskLifeTypes DEF TaskLifeInv, QueueInv, TasksIn, Mine
    <2>2. task[t].st \notin OnThread \cup {"lost", "orphan"}
      BY <1>1 DEF TaskLifeInv, ProcessInv, TasksIn, Mine
    <2>3. task[t].st = "done" /\ task'[t] = task[t]
      BY <1>2, <1>3, <2>1, <2>2 DEF Mine, TaskFields, TaskState, Unfinished
    <2> QED BY <2>3 DEF TaskLifeInv, AttemptInv, Mine, Retries, MaxAttempts
  <1>6. CASE \A t \in Mine : SubmitMayFail /\ task[t].st = "queued"
    <2> SUFFICES ASSUME NEW t \in Mine
                 PROVE  /\ SubmitMayFail
                        /\ task'[t].st = "lost" /\ \A e \in DOMAIN rows : e[1] # t
      <3>1. CASE Mine = {}
        BY <1>4, <3>1 DEF StoppedIsDrained, Mine
      <3> QED BY <1>1, <1>4, <3>1 DEF StoppedIsDrained, Mine
    <2>1. \A e \in DOMAIN rows : e[1] # t
      <3> SUFFICES ASSUME NEW e \in DOMAIN rows, e[1] = t PROVE FALSE
        OBVIOUS
      <3>1. PICK a \in Nat \ {0} : e = <<t, a>>
        BY TaskLifeTypes DEF TypeOK, IsMap, Executions
      <3>2. a <= 1 /\ task[t].attempt = 1
        BY <1>2, <1>6, <3>1 DEF TaskLifeInv, HistoryInv, RowInv, AttemptInv, Mine
      <3> QED BY <1>2, <1>6, <3>1, <3>2 DEF TaskLifeInv, HistoryInv, RowInv, NotLogged, Mine
    <2>2. task'[t].st = "lost"
      BY <1>2, <1>3, <1>6 DEF TaskFields, Mine
    <2> QED BY <1>6, <2>1, <2>2
  <1> QED
    BY <1>1, <1>5, <1>6 DEF DrainInv

LEMMA DrainedStep ==
  ASSUME TaskLifeInv, DrainInv, StoppedIsDrained, [Next]_vars
  PROVE  StoppedIsDrained'
  <1>0. TypeInv /\ PoolInv /\ TypeOK /\ ProcessInv
    BY TaskLifeTypes DEF TaskLifeInv
  <1>1. CASE Quiet
    BY <1>1, QuietStep DEF QuietFacts, StoppedIsDrained, Retries, MaxAttempts
  <1>2. CASE Respawn
    BY <1>2 DEF Respawn, StoppedIsDrained
  <1>3. ASSUME NEW j \in todo, Submit(j) \/ SubmitRaises(j)
        PROVE  StoppedIsDrained'
    BY <1>3 DEF Submit, SubmitRaises, Enqueue, StoppedIsDrained
  <1>4. CASE PickUp
    <2>1. pc \notin {"stopped"} /\ UNCHANGED pc
      BY <1>0, <1>4 DEF PickUp, Advance, ProcessInv, TasksIn, Unfinished, threadUnchanged, loopVars
    <2> QED BY <2>1 DEF StoppedIsDrained
  <1>5. ASSUME NEW t \in DOMAIN task, ThreadStep(t) \/ OrphanEnds(t)
        PROVE  StoppedIsDrained'
    <2>1. UNCHANGED <<pc, incarnation>>
      BY <1>5 DEF ThreadStep, StartAttempt, LogStart, RunEnds, LogCompletion, FinishAttempt,
                  OrphanEnds, threadUnchanged, loopVars
    <2>2. CASE ThreadStep(t)
      <3>1. task[t].st \in Unfinished
        BY <2>2 DEF ThreadStep, StartAttempt, LogStart, RunEnds, LogCompletion, FinishAttempt,
                    Advance, Unfinished, OnThread
      <3>2. pc # "stopped"
        BY <1>0, <3>1 DEF ProcessInv, TasksIn
      <3> QED BY <2>1, <3>2 DEF StoppedIsDrained
    <2>3. CASE OrphanEnds(t)
      <3>1. Moves(t, "orphan", "lost") /\ UNCHANGED rows
        BY <1>0, <2>3, AdvanceMoves DEF OrphanEnds, historyVars
      <3>2. pc = "stopped" => task[t].inc # incarnation
        BY <3>1 DEF StoppedIsDrained, Moves
      <3> QED BY <2>1, <3>1, <3>2 DEF StoppedIsDrained, Moves, Retries, MaxAttempts
    <2> QED BY <1>5, <2>2, <2>3
  <1>6. CASE Stops
    BY <1>6, ShutdownDrains
  <1>7. CASE Crash
    BY <1>7 DEF Crash, GoTo, StoppedIsDrained
  <1> QED
    BY <1>0, <1>1, <1>2, <1>3, <1>4, <1>5, <1>6, <1>7, StepKinds

\* A worker that stops on request has by then finished every task it dispatched,
\* with all the attempts the task was to have: the tasks that waited behind
\* others when the request came, and those whose submit raised, included.  Only
\* a process that never had a thread loses its tasks, all of them unbegun.
THEOREM StopDrains == Spec => []StoppedIsDrained
  <1>1. Init => TaskLifeInv /\ DrainInv /\ StoppedIsDrained
    BY TaskLifeInit, DrainInit DEF Init, StoppedIsDrained
  <1>2. TaskLifeInv /\ DrainInv /\ StoppedIsDrained /\ [Next]_vars
          => TaskLifeInv' /\ DrainInv' /\ StoppedIsDrained'
    BY TaskLifeStep, DrainStep, DrainedStep DEF TaskLifeInv
  <1> QED
    BY <1>1, <1>2, PTL DEF Spec

-----------------------------------------------------------------------------
(* The run history implements JobRuns: what its readers see of a dispatch,  *)
(* whatever the order of its attempts' writes with those of others.         *)

\* Any attempt a task is in is one the files allow.
LEMMA AttemptAllowed ==
  ASSUME TypeOK, AttemptInv, NEW t \in DOMAIN task
  PROVE  task[t].attempt \in Attempts
  <1>1. task[t].attempt \in Nat \ {0} /\ task[t].attempt <= MaxAttempts(task[t].def)
    BY DEF TypeOK, IsMap, TaskRecord, TaskFields, AttemptInv
  <1>2. PICK f \in Files : \E j \in DOMAIN f.jobs : task[t].def = f.jobs[j]
    BY DEF AttemptInv, Loaded
  <1>3. PICK j \in DOMAIN f.jobs : task[t].def = f.jobs[j]
    BY <1>2
  <1>4. MaxAttempts(f.jobs[j]) \in Nat
    <2>1. IsSchedule(f.jobs)
      BY FilesAssumption
    <2>2. f.jobs[j].maxRetries \in Int
      BY <2>1 DEF IsSchedule, IsMap, JobDef
    <2> QED BY <2>2 DEF MaxAttempts
  <1> QED
    BY <1>1, <1>3, <1>4 DEF Attempts

\* The history of the other tasks' attempts reads as before.
LEMMA OtherRuns ==
  ASSUME NEW t, WritesOnly(t), NEW u \in Tasks, u # t
  PROVE  RunsOf(u)' = RunsOf(u)
  <1>1. \A a : <<u, a>> # Execution(t)
    BY DEF Execution
  <1>2. {a \in Attempts : <<u, a>> \in DOMAIN rows'} = {a \in Attempts : <<u, a>> \in DOMAIN rows}
    BY <1>1 DEF WritesOnly
  <1>3. \A a \in Attempts : <<u, a>> \in DOMAIN rows => rows'[<<u, a>>] = rows[<<u, a>>]
    BY <1>1 DEF WritesOnly
  <1> QED
    BY <1>2, <1>3 DEF RunsOf

\* A write that inserts no row and changes none is no step of the log.
LEMMA SilentWrite ==
  ASSUME UNCHANGED rows
  PROVE  UNCHANGED [t \in Tasks |-> RunsOf(t)]
  BY DEF RunsOf

\* record_start logs a new attempt.
LEMMA LogStartOpens ==
  ASSUME TaskLifeInv, NEW t \in DOMAIN task, LogStart(t), ~UNCHANGED rows
  PROVE  Log!Next
  <1> DEFINE a == task[t].attempt
  <1>1. /\ t \in Tasks /\ a \in Nat \ {0} /\ a \in Attempts /\ Execution(t) = <<t, a>>
        /\ task[t].st = "registered"
    BY AttemptAllowed, TaskLifeTypes DEF TaskLifeInv, TypeOK, IsMap, TaskRecord, TaskFields,
                                         Execution, LogStart, Advance
  <1>2. rows' = Put(rows, <<t, a>>, "started")
    BY <1>1 DEF LogStart, RecordStart, WriteFails
  <1>3. \A b \in DOMAIN RunsOf(t) : b < a /\ RunsOf(t)[b] # "success"
    <2> SUFFICES ASSUME NEW b \in Attempts, <<t, b>> \in DOMAIN rows
                 PROVE  b < a /\ rows[<<t, b>>] # "success"
      BY DEF RunsOf
    <2>1. b \in Nat \ {0}
      BY TaskLifeTypes DEF TypeOK, IsMap, Executions
    <2>2. b <= a /\ b # a
      BY <1>1, <2>1 DEF TaskLifeInv, HistoryInv, RowInv, NotLogged
    <2>3. b < a
      BY <1>1, <2>1, <2>2
    <2> QED BY <1>1, <2>1, <2>3 DEF TaskLifeInv, HistoryInv, RowInv
  <1>4. RunsOf(t)' = Put(RunsOf(t), a, "started")
    BY <1>1, <1>2 DEF RunsOf, Put
  <1>5. RunsOf(t)' # RunsOf(t)
    <2>1. a \in DOMAIN RunsOf(t)' /\ a \notin DOMAIN RunsOf(t)
      BY <1>1, <1>3, <1>4 DEF Put
    <2> QED BY <2>1
  <1>6. \A u \in Tasks : u # t => RunsOf(u)' = RunsOf(u)
    BY LogStartWrites, OtherRuns
  <1>7. [u \in Tasks |-> RunsOf(u)]' = [[u \in Tasks |-> RunsOf(u)] EXCEPT ![t] = Put(@, a, "started")]
    BY <1>1, <1>4, <1>6
  <1>8. Log!Open(t, a)
    BY <1>1, <1>3, <1>7 DEF Log!Open, Log!Logged, Log!Put, Put
  <1> QED
    BY <1>1, <1>5, <1>8 DEF Log!Next

\* record_completion closes the run, or changes nothing.
LEMMA LogCompletionCloses ==
  ASSUME TaskLifeInv, NEW t \in DOMAIN task, LogCompletion(t), ~UNCHANGED rows
  PROVE  Log!Next
  <1> DEFINE a == task[t].attempt
             outcome == task[t].result
  <1>1. /\ t \in Tasks /\ a \in Nat \ {0} /\ a \in Attempts /\ Execution(t) = <<t, a>>
        /\ task[t].st = "ended" /\ outcome \in Terminal
    BY AttemptAllowed, TaskLifeTypes DEF TaskLifeInv, TypeOK, IsMap, TaskRecord, TaskFields,
                                         Execution, LogCompletion, Advance, Over
  <1>2. <<t, a>> \in DOMAIN rows /\ rows' = [rows EXCEPT ![<<t, a>>] = outcome]
    BY <1>1 DEF LogCompletion, RecordCompletion, WriteFails
  <1>3. rows[<<t, a>>] = "started"
    BY <1>1, <1>2 DEF TaskLifeInv, HistoryInv, RowInv, Underway
  <1>4. a \in DOMAIN RunsOf(t) /\ RunsOf(t)[a] = "started"
    BY <1>1, <1>2, <1>3 DEF RunsOf
  <1>5. \A b \in DOMAIN RunsOf(t) : b <= a
    <2> SUFFICES ASSUME NEW b \in Attempts, <<t, b>> \in DOMAIN rows
                 PROVE  b <= a
      BY DEF RunsOf
    <2>1. b \in Nat \ {0}
      BY TaskLifeTypes DEF TypeOK, IsMap, Executions
    <2> QED BY <1>1, <2>1 DEF TaskLifeInv, HistoryInv, RowInv
  <1>6. RunsOf(t)' = [RunsOf(t) EXCEPT ![a] = outcome]
    BY <1>1, <1>2 DEF RunsOf
  <1>7. RunsOf(t)' # RunsOf(t)
    BY <1>1, <1>4, <1>6 DEF Terminal
  <1>8. \A u \in Tasks : u # t => RunsOf(u)' = RunsOf(u)
    BY LogCompletionWrites, OtherRuns, TaskLifeTypes
  <1>9. [u \in Tasks |-> RunsOf(u)]' = [[u \in Tasks |-> RunsOf(u)] EXCEPT ![t][a] = outcome]
    BY <1>1, <1>6, <1>8
  <1>10. Log!Close(t, a, outcome)
    BY <1>1, <1>4, <1>5, <1>9 DEF Log!Close, Log!Logged
  <1> QED
    BY <1>1, <1>4, <1>7, <1>10 DEF Log!Next, Log!Logged, Log!Endings, Terminal

LEMMA LogStep ==
  ASSUME TaskLifeInv, [Next]_vars
  PROVE  Log!Next \/ UNCHANGED [t \in Tasks |-> RunsOf(t)]
  <1> USE DEF historyVars
  <1>1. CASE UNCHANGED rows
    BY <1>1, SilentWrite
  <1>2. CASE \/ Quiet \/ Respawn \/ PickUp \/ Stops \/ Crash
             \/ \E j \in todo : Submit(j) \/ SubmitRaises(j)
    <2>1. UNCHANGED rows
      BY <1>2, QuietStep DEF QuietFacts, Respawn, PickUp, Stops, ShutdownCompletes, Crash, Submit,
                             SubmitRaises
    <2> QED BY <2>1, SilentWrite
  <1>3. ASSUME NEW t \in DOMAIN task, ThreadStep(t) \/ OrphanEnds(t), ~UNCHANGED rows
        PROVE  Log!Next
    <2>1. LogStart(t) \/ LogCompletion(t)
      BY <1>3 DEF ThreadStep, StartAttempt, RunEnds, FinishAttempt, OrphanEnds
    <2> QED BY <1>3, <2>1, LogStartOpens, LogCompletionCloses
  <1> QED
    BY <1>1, <1>2, <1>3, StepKinds, TaskLifeTypes

\* The run history implements the log its readers are promised: the runs of a
\* dispatch appear in the order of their attempts, each is closed at most once,
\* and none follows a success, whatever the database loses and whenever the
\* process is killed or stopped.
THEOREM HistoryImplementsLog == Spec => HistoryIsALog
  <1>1. Init => TaskLifeInv
    BY TaskLifeInit
  <1>2. Init => Log!Init
    BY DEF Init, InitHistory, Log!Init, RunsOf, EmptyMap, Log!EmptyMap
  <1>3. TaskLifeInv /\ [Next]_vars => TaskLifeInv'
    BY TaskLifeStep
  <1>4. TaskLifeInv /\ [Next]_vars => [Log!Next]_([t \in Tasks |-> RunsOf(t)])
    BY LogStep
  <1> QED
    BY <1>1, <1>2, <1>3, <1>4, PTL DEF Spec, HistoryIsALog, Log!Spec

-----------------------------------------------------------------------------
(* Overlap.  The registry alone does not keep a job from overlapping itself: *)
(* a task is not in it before its first attempt begins, nor during a retry   *)
(* delay.  For a plain job the first gap is closed by a pool that picks up   *)
(* promptly what it has room for, and there is no second one.                *)

\* There was room for it, and it is not yet in the registry for the first time.
Waiting(t) ==
  /\ task[t].room
  /\ task[t].st = "queued" \/ (task[t].st = "begin" /\ task[t].attempt = 1)

\* A task that there was room for has a thread to take it, after those that
\* are queued before it.
RoomInv ==
  \A i \in DOMAIN queue :
    queue[i] # None /\ task[queue[i]].room => i + Cardinality(TasksIn(OnThread)) <= threads

\* When the loop comes to dispatch a job, no task of the job is waiting.
PromptInv ==
  /\ pc \in {"top", "load", "poll"} => \A t \in DOMAIN task : ~Waiting(t)
  /\ pc = "dispatch" => \A t \in DOMAIN task : Waiting(t) => task[t].job \notin todo

PlainInv ==
  /\ \A t, u \in TasksIn(Unfinished) :
       task[t].job = task[u].job /\ Plain(task[t].job) => t = u
  /\ \A t \in TasksIn(InFlight) : Plain(task[t].job) => IsRunning(task[t].job)

LEMMA RoomInit == Init => RoomInv
  BY DEF Init, RoomInv

\* The steps of a thread leave the queue and the room of a task as they are.
LEMMA ThreadRoom ==
  ASSUME TypeInv, RoomInv, NEW t \in DOMAIN task, ThreadStep(t) \/ OrphanEnds(t)
  PROVE  RoomInv'
  <1>0. TypeOK /\ Cardinality(TasksIn(OnThread)) \in Nat /\ threads \in Nat
    BY BusyThreads DEF TypeInv
  <1>1. UNCHANGED <<queue, threads>>
    BY DEF ThreadStep, StartAttempt, LogStart, RunEnds, LogCompletion, FinishAttempt, OrphanEnds
  <1>2. SameTasks
    BY <1>0, TaskStepFrame
  <1>3. \A i \in DOMAIN queue : i \in Nat /\ (queue[i] # None => queue[i] \in DOMAIN task)
    BY <1>0 DEF TypeOK
  <1>4. /\ Cardinality(TasksIn(OnThread)') \in Nat
        /\ Cardinality(TasksIn(OnThread)') <= Cardinality(TasksIn(OnThread))
    BY ThreadBusy
  <1> SUFFICES ASSUME NEW i \in DOMAIN queue, queue[i] # None, task'[queue[i]].room
               PROVE  i + Cardinality(TasksIn(OnThread)') <= threads
    BY <1>1 DEF RoomInv
  <1>5. i + Cardinality(TasksIn(OnThread)) <= threads
    BY <1>2, <1>3 DEF RoomInv, SameTasks
  <1> QED
    BY <1>0, <1>3, <1>4, <1>5

\* A task taken from the queue moves the others up by one.
LEMMA PickUpRoom ==
  ASSUME TypeInv, RoomInv, PickUp
  PROVE  RoomInv'
  <1>0. TypeOK /\ Cardinality(TasksIn(OnThread)) \in Nat /\ threads \in Nat
    BY BusyThreads DEF TypeInv
  <1>1. /\ queue \in Seq(DOMAIN task \cup {None}) /\ queue # <<>> /\ queue' = Tail(queue)
        /\ UNCHANGED threads
    BY <1>0 DEF TypeOK, PickUp
  <1>2. \A i \in DOMAIN queue' : i \in Nat /\ i + 1 \in DOMAIN queue /\ queue'[i] = queue[i + 1]
    BY <1>1
  <1>3. SameTasks
    BY <1>0, TaskStepFrame
  <1>4. /\ Cardinality(TasksIn(OnThread)') \in Nat
        /\ Cardinality(TasksIn(OnThread)') <= Cardinality(TasksIn(OnThread)) + 1
    BY PickUpBusy
  <1> SUFFICES ASSUME NEW i \in DOMAIN queue', queue'[i] # None, task'[queue'[i]].room
               PROVE  i + Cardinality(TasksIn(OnThread)') <= threads
    BY <1>1 DEF RoomInv
  <1>5. queue[i + 1] # None /\ queue[i + 1] \in DOMAIN task
    BY <1>1, <1>2
  <1>6. task[queue[i + 1]].room
    BY <1>2, <1>3, <1>5 DEF SameTasks
  <1>7. (i + 1) + Cardinality(TasksIn(OnThread)) <= threads
    BY <1>2, <1>5, <1>6 DEF RoomInv
  <1> QED
    BY <1>0, <1>2, <1>4, <1>7

LEMMA AddsRoom ==
  ASSUME TypeInv, RoomInv, NEW t, NEW j, Adds(t, j), threads' = threads \/ threads' = threads + 1
  PROVE  RoomInv'
  <1>0. TypeOK /\ Cardinality(TasksIn(OnThread)) \in Nat /\ threads \in Nat
    BY BusyThreads DEF TypeInv
  <1>1. queue \in Seq(DOMAIN task \cup {None}) /\ queue' = Append(queue, t)
    BY <1>0 DEF TypeOK, Adds
  <1>2. TasksIn(OnThread)' = TasksIn(OnThread)
    BY AddsBusy
  <1>3. /\ Len(queue) \in Nat /\ queue'[Len(queue) + 1] = t
        /\ \A i \in DOMAIN queue : i \in Nat /\ queue'[i] = queue[i]
        /\ \A i \in DOMAIN queue' : i \in DOMAIN queue \/ i = Len(queue) + 1
    BY <1>1
  <1> SUFFICES ASSUME NEW i \in DOMAIN queue', queue'[i] # None, task'[queue'[i]].room
               PROVE  i + Cardinality(TasksIn(OnThread)) <= threads'
    BY <1>2 DEF RoomInv
  <1>4. CASE i \in DOMAIN queue
    <2>1. queue[i] # None /\ queue[i] \in DOMAIN task
      BY <1>1, <1>3, <1>4
    <2>2. task[queue[i]].room
      BY <1>3, <1>4, <2>1 DEF Adds
    <2>3. i + Cardinality(TasksIn(OnThread)) <= threads /\ i \in Nat
      BY <1>3, <1>4, <2>1, <2>2 DEF RoomInv
    <2> QED BY <1>0, <2>3
  <1>5. CASE i = Len(queue) + 1
    <2>1. task'[t].room = (Load < threads')
      BY DEF Adds, NewTask
    <2>2. Load < threads'
      BY <1>3, <1>5, <2>1
    <2> QED BY <1>0, <1>3, <1>5, <2>2 DEF Load
  <1> QED
    BY <1>3, <1>4, <1>5

LEMMA RoomStep ==
  ASSUME Steady, QueueInv, RoomInv, [Next]_vars
  PROVE  RoomInv'
  <1>0. TypeInv /\ PoolInv /\ TypeOK
    BY DEF Steady, TypeInv
  <1>1. CASE Quiet
    <2>1. UNCHANGED task /\ (StopLoop \/ ThreadLeaves \/ UNCHANGED <<queue, threads>>)
      BY <1>1, QuietStep DEF QuietFacts
    <2>2. TasksIn(OnThread)' = TasksIn(OnThread)
      BY <2>1 DEF TasksIn
    <2>3. CASE StopLoop
      <3>1. /\ queue \in Seq(DOMAIN task \cup {None}) /\ queue' = Append(queue, None)
            /\ UNCHANGED threads
        BY <1>0, <2>3 DEF StopLoop, TypeOK
      <3>2. \A i \in DOMAIN queue' : queue'[i] # None => i \in DOMAIN queue /\ queue'[i] = queue[i]
        BY <3>1
      <3> QED BY <2>1, <2>2, <3>1, <3>2 DEF RoomInv
    <2>4. CASE ThreadLeaves
      <3>1. queue' = <<None>>
        BY <1>0, <2>4, LeaveQueue
      <3> QED BY <3>1 DEF RoomInv
    <2>5. CASE UNCHANGED <<queue, threads>>
      BY <2>1, <2>2, <2>5 DEF RoomInv
    <2> QED BY <2>1, <2>3, <2>4, <2>5
  <1>2. CASE Respawn
    BY <1>2 DEF Respawn, poolVars, RoomInv, TasksIn
  <1>3. ASSUME NEW j \in todo, Submit(j) \/ SubmitRaises(j)
        PROVE  RoomInv'
    BY <1>0, <1>3, DispatchAdds, AddsRoom
  <1>4. CASE PickUp
    BY <1>0, <1>4, PickUpRoom
  <1>5. CASE \E t \in DOMAIN task : ThreadStep(t) \/ OrphanEnds(t)
    BY <1>0, <1>5, ThreadRoom
  <1>6. CASE Stops \/ Crash
    BY <1>6 DEF Stops, ShutdownCompletes, Crash, RoomInv
  <1> QED
    BY <1>0, <1>1, <1>2, <1>3, <1>4, <1>5, <1>6, StepKinds

\* As long as a task waits there is a free thread: the loop does not wake.
LEMMA WakeSettled ==
  ASSUME TypeInv, QueueInv, RoomInv, ~Unsettled
  PROVE  \A t \in DOMAIN task : ~Waiting(t)
  <1>1. ASSUME NEW t \in DOMAIN task, task[t].room, task[t].st = "queued"
        PROVE  FALSE
    <2>1. PICK i \in DOMAIN queue : queue[i] = t
      BY <1>1 DEF QueueInv, TasksIn
    <2>2. i \in Nat \ {0} /\ queue # <<>> /\ t # None
      BY <2>1, TokenIsNoTask DEF TypeInv, TypeOK
    <2>3. i + Cardinality(TasksIn(OnThread)) <= threads
      BY <1>1, <2>1, <2>2 DEF RoomInv
    <2>4. HasFreeThread
      BY <2>2, <2>3, BusyThreads DEF HasFreeThread
    <2> QED BY <2>2, <2>4 DEF Unsettled
  <1> QED
    BY <1>1 DEF Unsettled, Waiting, TasksIn

LEMMA PromptInit == Init => PromptInv
  BY DEF Init, PromptInv

LEMMA QuietPrompt ==
  ASSUME PickupIsPrompt, TypeInv, ProcessInv, QueueInv, RoomInv, PromptInv, Quiet
  PROVE  PromptInv'
  <1> USE DEF PromptInv, GoTo, loopVars, othersVars, poolVars
  <1>0. UNCHANGED task /\ (\A t \in DOMAIN task : Waiting(t)' <=> Waiting(t))
    BY QuietStep DEF QuietFacts, Waiting
  <1>1. CASE Boot
    <2>1. \A t \in DOMAIN task : ~Waiting(t)
      BY <1>1 DEF Boot, ProcessInv, TasksIn, Unfinished, OnThread, Waiting
    <2> QED BY <1>0, <1>1, <2>1 DEF Boot
  <1>2. CASE BootFails \/ StopLoop \/ EndDispatch \/ Beat \/ ThreadLeaves
    BY <1>0, <1>2 DEF BootFails, StopLoop, EndDispatch, Beat, ThreadLeaves, threadUnchanged
  <1>3. CASE CheckReload \/ LoadFile \/ PollClock
    BY <1>0, <1>3 DEF CheckReload, LoadFile, PollClock
  <1>4. CASE Wake
    <2>1. \A t \in DOMAIN task : ~Waiting(t)
      BY <1>4, WakeSettled DEF Wake
    <2> QED BY <1>0, <1>4, <2>1 DEF Wake
  <1>5. CASE \E j \in todo : AlreadyDispatched(j) \/ SkipOverlap(j)
    BY <1>0, <1>5 DEF AlreadyDispatched, SkipOverlap
  <1>6. CASE Sighup \/ Sigterm \/ EditFile \/ ClockTick \/ ClockStepsBack \/ UNCHANGED vars
    BY <1>0, <1>6 DEF Sighup, Sigterm, EditFile, ClockTick, ClockStepsBack, SetClock, vars
  <1> QED
    BY <1>1, <1>2, <1>3, <1>4, <1>5, <1>6 DEF Quiet

LEMMA PromptStep ==
  ASSUME PickupIsPrompt, TaskLifeInv, RoomInv, PromptInv, [Next]_vars
  PROVE  PromptInv'
  <1>0. TypeInv /\ PoolInv /\ TypeOK /\ ProcessInv /\ QueueInv
    BY TaskLifeTypes DEF TaskLifeInv
  <1>1. CASE Quiet
    BY <1>0, <1>1, QuietPrompt
  <1>2. CASE Respawn
    BY <1>2 DEF Respawn, PromptInv
  <1>3. ASSUME NEW j \in todo, Submit(j)
        PROVE  PromptInv'
    <2>1. PICK t \in Tasks : Adds(t, j)
      BY <1>3, DispatchAdds
    <2>2. pc = "dispatch" /\ pc' = pc /\ todo' = todo \ {j}
      BY <1>3 DEF Submit, Enqueue
    <2>3. \A u \in DOMAIN task : (Waiting(u)' <=> Waiting(u)) /\ task'[u] = task[u]
      BY <2>1 DEF Adds, Waiting
    <2> QED BY <2>1, <2>2, <2>3 DEF PromptInv, Adds, NewTask
  <1>4. ASSUME NEW j \in todo, SubmitRaises(j)
        PROVE  PromptInv'
    BY <1>4 DEF SubmitRaises, PromptInv
  <1>5. ASSUME NEW t, NEW from, NEW to, Moves(t, from, to), UNCHANGED <<pc, todo>>,
               Waiting(t)' => Waiting(t)
        PROVE  PromptInv'
    BY <1>5 DEF PromptInv, Moves, Waiting
  <1>6. CASE PickUp
    <2>1. Moves(Head(queue), "queued", "begin") /\ UNCHANGED <<pc, todo>>
      BY <1>0, <1>6, AdvanceMoves DEF PickUp, threadUnchanged, loopVars
    <2> QED BY <1>5, <2>1 DEF Waiting, Moves
  <1>7. ASSUME NEW t \in DOMAIN task, ThreadStep(t) \/ OrphanEnds(t)
        PROVE  PromptInv'
    <2>1. UNCHANGED <<pc, todo>>
      BY <1>7 DEF ThreadStep, StartAttempt, LogStart, RunEnds, LogCompletion, FinishAttempt,
                  OrphanEnds, threadUnchanged, loopVars
    <2>2. \E from, to : Moves(t, from, to) /\ ~Waiting(t)'
      <3>1. CASE StartAttempt(t) \/ LogStart(t) \/ LogCompletion(t) \/ OrphanEnds(t)
        BY <1>0, <3>1, AdvanceMoves
           DEF StartAttempt, LogStart, LogCompletion, OrphanEnds, Waiting, Moves
      <3>2. CASE RunEnds(t)
        BY <1>0, <3>2, RunEndsMoves DEF Waiting, Moves
      <3>3. CASE FinishAttempt(t)
        <4>1. task[t].attempt \in Nat \ {0}
          BY <1>0 DEF TypeOK, IsMap, TaskRecord, TaskFields
        <4>2. \/ Moves(t, "recorded", "begin") /\ task'[t].attempt = task[t].attempt + 1
              \/ Moves(t, "recorded", "done")
          BY <1>0, <3>3, FinishMoves
        <4>3. CASE Moves(t, "recorded", "begin") /\ task'[t].attempt = task[t].attempt + 1
          BY <4>1, <4>3 DEF Waiting, Moves
        <4>4. CASE Moves(t, "recorded", "done")
          BY <4>4 DEF Waiting, Moves
        <4> QED BY <4>2, <4>3, <4>4
      <3> QED BY <1>7, <3>1, <3>2, <3>3 DEF ThreadStep
    <2> QED BY <1>5, <2>1, <2>2
  <1>8. CASE Stops \/ Crash
    BY <1>8 DEF Stops, ShutdownCompletes, Crash, GoTo, PromptInv
  <1> QED
    BY <1>0, <1>1, <1>2, <1>3, <1>4, <1>6, <1>7, <1>8, StepKinds

LEMMA PlainInit == Init => PlainInv
  BY DEF Init, PlainInv, TasksIn, EmptyMap

\* A job that is plain after a step was plain before.
LEMMA PlainBefore ==
  ASSUME Steady, [Next]_vars, NEW j, Plain(j)'
  PROVE  Plain(j)
  <1>0. TypeInv /\ PoolInv /\ TypeOK
    BY DEF Steady, TypeInv
  <1>1. CASE Quiet \/ Respawn
    <2>1. UNCHANGED task
      BY <1>1, QuietStep DEF QuietFacts, Respawn, poolVars
    <2> QED BY <2>1 DEF Plain, MaxAttempts
  <1>2. ASSUME NEW i \in todo, Submit(i) \/ SubmitRaises(i)
        PROVE  Plain(j)
    <2>1. PICK t \in Tasks : Adds(t, i)
      BY <1>2, DispatchAdds
    <2> QED BY <2>1 DEF Adds, Plain, MaxAttempts
  <1>3. CASE \/ PickUp \/ Stops \/ Crash
             \/ \E t \in DOMAIN task : ThreadStep(t) \/ OrphanEnds(t)
    BY <1>0, <1>3, TaskStepFrame DEF Stops, SameTasks, Plain, MaxAttempts
  <1> QED
    BY <1>0, <1>1, <1>2, <1>3, StepKinds

\* The dispatch of a plain job finds no unfinished task of the job.
LEMMA PlainDispatch ==
  ASSUME Steady, AttemptInv, PromptInv, PlainInv, NEW j \in todo,
         Submit(j) \/ SubmitRaises(j), [Next]_vars
  PROVE  PlainInv'
  <1>0. TypeOK /\ TodoInv
    BY DEF Steady, TypeInv
  <1>1. PICK t \in Tasks : Adds(t, j)
    BY DispatchAdds
  <1>2. UNCHANGED running /\ pc = "dispatch"
    BY DEF Submit, SubmitRaises, Enqueue
  <1>3. ASSUME Plain(j)', NEW u \in TasksIn(Unfinished), task[u].job = j
        PROVE  FALSE
    <2>1. Plain(j) /\ ~schedule[j].allowConcurrent
      <3>1. task'[t].job = j /\ task'[t].def = schedule[j] /\ t \in DOMAIN task'
        BY <1>1 DEF Adds, NewTask
      <3> QED BY <1>0, <1>3, <3>1, PlainBefore DEF Plain
    <2>2. ~IsRunning(j)
      BY <2>1 DEF Submit, SubmitRaises, Enqueue
    <2>3. u \in DOMAIN task /\ task[u].st \in Unfinished /\ task[u].attempt \in Nat \ {0}
          /\ task[u].attempt <= MaxAttempts(task[u].def) /\ MaxAttempts(task[u].def) = 1
          /\ task[u].room
      BY <1>0, <1>3, <2>1 DEF TasksIn, TypeOK, IsMap, TaskRecord, TaskFields, AttemptInv, Plain
    <2>4. task[u].st \notin InFlight
      BY <1>3, <2>1, <2>2, <2>3 DEF PlainInv, TasksIn
    <2>5. Waiting(u)
      <3>1. task[u].st \in {"queued", "begin"}
        BY <2>3, <2>4 DEF Unfinished, OnThread, InFlight
      <3>2. task[u].attempt = 1
        BY <2>3
      <3> QED BY <2>3, <3>1, <3>2 DEF Waiting
    <2> QED BY <1>2, <1>3, <2>3, <2>5 DEF PromptInv
  <1>4. \A i : Plain(i)' => Plain(i)
    BY <1>0, PlainBefore
  <1>5. /\ TasksIn(Unfinished)' = TasksIn(Unfinished) \cup {t} /\ t \notin DOMAIN task
        /\ TasksIn(InFlight)' = TasksIn(InFlight) /\ task'[t].job = j
        /\ \A u \in DOMAIN task : task'[u] = task[u]
    BY <1>1 DEF Adds, NewTask, TasksIn, Unfinished, InFlight
  <1>6. TasksIn(Unfinished) \subseteq DOMAIN task /\ TasksIn(InFlight) \subseteq DOMAIN task
    BY DEF TasksIn
  <1> QED
    BY <1>2, <1>3, <1>4, <1>5, <1>6 DEF PlainInv, IsRunning

LEMMA PlainStep ==
  ASSUME Steady, AttemptInv, PromptInv, PlainInv, [Next]_vars
  PROVE  PlainInv'
  <1>0. TypeInv /\ PoolInv /\ TypeOK /\ \A j : Plain(j)' => Plain(j)
    BY PlainBefore DEF Steady, TypeInv
  <1>1. CASE Quiet \/ Respawn
    <2>1. UNCHANGED <<task, running>>
      BY <1>1, QuietStep DEF QuietFacts, Respawn, poolVars
    <2> QED BY <2>1 DEF PlainInv, TasksIn, IsRunning, Plain, MaxAttempts
  <1>2. CASE \E j \in todo : Submit(j) \/ SubmitRaises(j)
    BY <1>2, PlainDispatch
  <1>3. ASSUME NEW t, NEW from, NEW to, Moves(t, from, to), UNCHANGED running,
               to \in Unfinished => from \in Unfinished,
               to \in InFlight => from \in InFlight
        PROVE  PlainInv'
    BY <1>0, <1>3 DEF PlainInv, Moves, TasksIn, IsRunning
  <1>4. CASE PickUp
    <2>1. Moves(Head(queue), "queued", "begin") /\ UNCHANGED running
      BY <1>0, <1>4, AdvanceMoves DEF PickUp
    <2> QED BY <1>3, <2>1 DEF Unfinished, InFlight
  <1>5. ASSUME NEW t \in DOMAIN task, ThreadStep(t) \/ OrphanEnds(t)
        PROVE  PlainInv'
    <2>1. CASE StartAttempt(t)
      <3>1. Moves(t, "begin", "registered")
        BY <1>0, <2>1, AdvanceMoves DEF StartAttempt
      <3>2. DOMAIN running' = DOMAIN running \cup {task[t].job}
        BY <2>1 DEF StartAttempt, MarkStarted, Put
      <3> QED BY <1>0, <3>1, <3>2 DEF PlainInv, Moves, TasksIn, IsRunning, Unfinished, OnThread
    <2>2. CASE LogStart(t)
      BY <1>0, <1>3, <2>2, AdvanceMoves DEF LogStart, Unfinished, OnThread, InFlight
    <2>3. CASE RunEnds(t)
      BY <1>0, <1>3, <2>3, RunEndsMoves DEF RunEnds, Unfinished, OnThread, InFlight
    <2>4. CASE LogCompletion(t)
      BY <1>0, <1>3, <2>4, AdvanceMoves DEF LogCompletion, Unfinished, OnThread, InFlight
    <2>5. CASE FinishAttempt(t)
      <3>1. PICK to \in {"begin", "done"} : Moves(t, "recorded", to)
        BY <1>0, <2>5, FinishMoves
      <3>2. DOMAIN running' = DOMAIN running \ {task[t].job}
        BY <2>5 DEF FinishAttempt, MarkFinished, Drop
      <3>3. InFlight \subseteq Unfinished /\ "recorded" \in Unfinished /\ to \notin InFlight
        BY DEF InFlight, Unfinished, OnThread
      <3> QED BY <1>0, <3>1, <3>2, <3>3 DEF PlainInv, Moves, TasksIn, IsRunning
    <2>6. CASE OrphanEnds(t)
      BY <1>0, <1>3, <2>6, AdvanceMoves DEF OrphanEnds, Unfinished, OnThread, InFlight
    <2> QED BY <1>5, <2>1, <2>2, <2>3, <2>4, <2>5, <2>6 DEF ThreadStep
  <1>6. CASE Stops \/ Crash
    <2>1. TasksIn(Unfinished)' = {}
      <3>1. \A s \in {"lost", "orphan"} : s \notin Unfinished
        BY DEF Unfinished, OnThread
      <3> QED BY <1>0, <1>6, <3>1, EndOfProcess DEF TasksIn
    <2>2. TasksIn(InFlight)' = {}
      BY <2>1 DEF TasksIn, InFlight, Unfinished, OnThread
    <2> QED BY <2>1, <2>2 DEF PlainInv
  <1> QED
    BY <1>0, <1>1, <1>2, <1>4, <1>5, <1>6, StepKinds

\* A job that has never had a retry, been allowed to run concurrently or been
\* queued behind all threads does not overlap itself in one process, whatever
\* the other jobs do, the operator edits, or is killed, as long as free threads
\* begin their tasks before the loop wakes.
THEOREM PlainJobsAreSerial ==
  ASSUME PickupIsPrompt
  PROVE  Spec => []PlainJobsDoNotOverlap
  <1> DEFINE OverlapInv == TaskLifeInv /\ RoomInv /\ PromptInv /\ PlainInv
  <1>1. Init => OverlapInv
    BY TaskLifeInit, RoomInit, PromptInit, PlainInit
  <1>2. OverlapInv /\ [Next]_vars => OverlapInv'
    BY TaskLifeStep, RoomStep, PromptStep, PlainStep DEF TaskLifeInv
  <1>3. OverlapInv => PlainJobsDoNotOverlap
    BY DEF PlainInv, PlainJobsDoNotOverlap, TasksIn, Unfinished, OnThread
  <1> QED
    BY <1>1, <1>2, <1>3, PTL DEF Spec

=============================================================================
