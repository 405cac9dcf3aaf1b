-------------------------- MODULE SchedulerProofs --------------------------
(***************************************************************************)
(* Theorems about the scheduler worker, for every number of jobs, tasks,   *)
(* pool threads, minutes and processes, and every content of the schedule  *)
(* file.                                                                   *)
(***************************************************************************)
EXTENDS SchedulerProperties, FiniteSetTheorems, TLAPS

-----------------------------------------------------------------------------
(* Dictionaries *)

LEMMA EmptyMapType ==
  ASSUME NEW K, NEW V
  PROVE  IsMap(EmptyMap, K, V) /\ DOMAIN EmptyMap = {}
  BY DEF IsMap, EmptyMap

LEMMA PutType ==
  ASSUME NEW K, NEW V, NEW m, IsMap(m, K, V), NEW k \in K, NEW v \in V
  PROVE  IsMap(Put(m, k, v), K, V)
  BY DEF IsMap, Put

LEMMA DropType ==
  ASSUME NEW K, NEW V, NEW m, IsMap(m, K, V), NEW k
  PROVE  IsMap(Drop(m, k), K, V)
  BY DEF IsMap, Drop

LEMMA ExceptType ==
  ASSUME NEW K, NEW V, NEW m, IsMap(m, K, V), NEW k \in DOMAIN m, NEW v \in V
  PROVE  IsMap([m EXCEPT ![k] = v], K, V)
  BY DEF IsMap

-----------------------------------------------------------------------------
(* Type correctness *)

\* The dispatch loop looks only at jobs of the loaded schedule.
TodoInv ==
  /\ todo \subseteq DOMAIN schedule
  /\ pc \notin {"dispatch", "exited"} => todo = {}

\* A process has dispatched finitely many tasks.
FiniteInv == IsFiniteSet(DOMAIN task)

TypeInv == TypeOK /\ TodoInv /\ FiniteInv

LEMMA TypeInit == Init => TypeInv
  <1> SUFFICES ASSUME Init PROVE TypeInv
    OBVIOUS
  <1>1. IsMap(task, Tasks, TaskRecord) /\ queue \in Seq(DOMAIN task \cup {None})
    BY EmptyMapType DEF Init
  <1>2. IsMap(running, Jobs, Executions) /\ IsMap(rows, Executions, Status)
    BY EmptyMapType DEF Init, InitRegistry, InitHistory
  <1>3. IsSchedule(schedule)
    BY EmptyMapType DEF Init, IsSchedule
  <1>4. 0 \in Minutes /\ 1 \in 1 .. MaxIncarnation /\ 0 \in 0 .. PoolSize
    BY BoundsAssumption DEF Minutes
  <1> QED
    BY <1>1, <1>2, <1>3, <1>4, EmptyMapType, FS_EmptySet
    DEF Init, InitHistory, TypeOK, TypeInv, TodoInv, FiniteInv

LEMMA BootType == TypeInv /\ Boot => TypeInv'
  <1> SUFFICES ASSUME TypeInv, Boot PROVE TypeInv'
    OBVIOUS
  <1>1. IsSchedule(schedule')
    BY FilesAssumption DEF TypeInv, FiniteInv, TypeOK, Boot
  <1>2. TodoInv'
    BY DEF TypeInv, TodoInv, Boot, GoTo
  <1> QED
    BY <1>1, <1>2 DEF TypeInv, FiniteInv, TypeOK, Boot, GoTo, signalVars, historyVars, poolVars

LEMMA RespawnType == TypeInv /\ Respawn => TypeInv'
  <1> SUFFICES ASSUME TypeInv, Respawn PROVE TypeInv'
    OBVIOUS
  <1>1. IsSchedule(schedule')
    BY EmptyMapType DEF Respawn, IsSchedule
  <1>2. incarnation' \in 1 .. MaxIncarnation
    BY BoundsAssumption DEF Respawn, TypeInv, TypeOK
  <1> QED
    BY <1>1, <1>2 DEF TypeInv, FiniteInv, TypeOK, TodoInv, Respawn, historyVars, poolVars

LEMMA LoadType == TypeInv /\ LoadFile => TypeInv'
  <1> SUFFICES ASSUME TypeInv, LoadFile PROVE TypeInv'
    OBVIOUS
  <1>1. IsSchedule(schedule')
    BY FilesAssumption DEF TypeInv, FiniteInv, TypeOK, LoadFile
  <1>2. TodoInv'
    BY DEF TypeInv, TodoInv, LoadFile, GoTo
  <1> QED
    BY <1>1, <1>2 DEF TypeInv, FiniteInv, TypeOK, LoadFile, GoTo, signalVars, historyVars, poolVars

\* The other steps of the loop that neither dispatch nor shut down.
LEMMA LoopType ==
  TypeInv /\ (BootFails \/ StopLoop \/ CheckReload \/ PollClock \/ EndDispatch \/ Beat \/ Wake)
    => TypeInv'
  <1> USE DEF TypeInv, FiniteInv, TypeOK, TodoInv, GoTo, othersVars, signalVars, historyVars, poolVars
  <1>1. TypeInv /\ BootFails => TypeInv'
    BY DEF BootFails
  <1>2. TypeInv /\ StopLoop => TypeInv'
    BY DEF StopLoop
  <1>3. TypeInv /\ PollClock => TypeInv'
    <2>1. TypeInv => DueJobs(schedule, clock) \subseteq DOMAIN schedule
      BY DEF DueJobs
    <2>2. TypeInv => DOMAIN schedule \subseteq Jobs
      BY DEF IsSchedule, IsMap
    <2> QED BY <2>1, <2>2 DEF PollClock
  <1>4. TypeInv /\ EndDispatch => TypeInv'
    BY DEF EndDispatch
  <1>5. TypeInv /\ Beat => TypeInv'
    BY DEF Beat
  <1>6. TypeInv /\ Wake => TypeInv'
    BY DEF Wake
  <1>7. TypeInv /\ CheckReload => TypeInv'
    BY DEF CheckReload
  <1> QED
    BY <1>1, <1>2, <1>3, <1>4, <1>5, <1>6, <1>7

\* What a dispatched job leaves behind.
LEMMA EnqueueType ==
  ASSUME TypeInv, NEW j \in todo, NEW size, Enqueue(j, size)
  PROVE  /\ dispatched' \subseteq Jobs \X Minutes
         /\ IsMap(task', Tasks, TaskRecord)
         /\ queue' \in Seq(DOMAIN task' \cup {None})
         /\ FiniteInv'
  <1> DEFINE room == Load < size
  <1>1. PICK t \in Tasks \ DOMAIN task :
          task' = Put(task, t, NewTask(j, room)) /\ queue' = Append(queue, t)
    BY DEF Enqueue
  <1>2. j \in Jobs /\ schedule[j] \in JobDef
    BY DEF TypeInv, FiniteInv, TypeOK, TodoInv, IsSchedule, IsMap
  <1>0. room \in BOOLEAN
    OBVIOUS
  <1> HIDE DEF room
  <1>3. NewTask(j, room) \in TaskRecord
    <2>1. now \in Minutes /\ incarnation \in 1 .. MaxIncarnation
      BY DEF TypeInv, TypeOK
    <2>2. "queued" \in TaskState \ Over
      BY DEF TaskState, Unfinished, Over
    <2> QED BY <1>0, <1>2, <2>1, <2>2 DEF NewTask, TaskRecord, TaskFields
  <1>4. IsMap(task', Tasks, TaskRecord) /\ DOMAIN task' = DOMAIN task \cup {t}
    <2>1. IsMap(task, Tasks, TaskRecord)
      BY DEF TypeInv, TypeOK
    <2>2. IsMap(task', Tasks, TaskRecord)
      BY <1>1, <1>3, <2>1, PutType
    <2> QED BY <1>1, <2>2 DEF Put
  <1>5. queue' \in Seq(DOMAIN task' \cup {None})
    BY <1>1, <1>4 DEF TypeInv, TypeOK
  <1>6. dispatched' \subseteq Jobs \X Minutes
    BY <1>2 DEF Enqueue, TypeInv, TypeOK
  <1>7. FiniteInv'
    BY <1>4, FS_AddElement DEF TypeInv, FiniteInv
  <1> QED
    BY <1>4, <1>5, <1>6, <1>7

LEMMA DispatchType ==
  ASSUME TypeInv, NEW j \in todo,
         AlreadyDispatched(j) \/ SkipOverlap(j) \/ Submit(j) \/ SubmitRaises(j)
  PROVE  TypeInv'
  <1> USE DEF TypeInv, FiniteInv, TypeOK, TodoInv
  <1>1. CASE AlreadyDispatched(j) \/ SkipOverlap(j)
    BY <1>1 DEF AlreadyDispatched, SkipOverlap, othersVars, signalVars, historyVars,
                poolVars
  <1>2. CASE Submit(j)
    <2>1. threads' \in 0 .. PoolSize
      BY <1>2, BoundsAssumption DEF Submit, PoolGrows
    <2> QED BY <1>2, <2>1, EnqueueType DEF Submit, signalVars, historyVars
  <1>3. CASE SubmitRaises(j)
    BY <1>3, EnqueueType DEF SubmitRaises, signalVars, historyVars
  <1> QED
    BY <1>1, <1>2, <1>3

\* A task that goes through another stage of its life is still a task.
LEMMA RestageType ==
  ASSUME NEW r \in TaskRecord, NEW s \in TaskState, s \in Over => r.st \in Over
  PROVE  [r EXCEPT !.st = s] \in TaskRecord
  BY DEF TaskRecord, TaskFields

LEMMA ShutdownType == TypeInv /\ ShutdownCompletes => TypeInv'
  <1> SUFFICES ASSUME TypeInv, ShutdownCompletes PROVE TypeInv'
    OBVIOUS
  <1>1. /\ IsMap(task', Tasks, TaskRecord) /\ queue' \in Seq(DOMAIN task' \cup {None})
        /\ DOMAIN task' = DOMAIN task
    <2>1. "lost" \in TaskState \ Over
      BY DEF TaskState, Over
    <2>2. \A t \in DOMAIN task : task[t] \in TaskRecord
      BY DEF TypeInv, FiniteInv, TypeOK, IsMap
    <2>3. \A t \in DOMAIN task : task'[t] \in TaskRecord
      BY <2>1, <2>2, RestageType DEF ShutdownCompletes
    <2> QED BY <2>3 DEF TypeInv, FiniteInv, TypeOK, IsMap, ShutdownCompletes
  <1> QED
    BY <1>1 DEF TypeInv, FiniteInv, TypeOK, TodoInv, ShutdownCompletes, GoTo, signalVars, historyVars

LEMMA CrashType == TypeInv /\ Crash => TypeInv'
  <1> SUFFICES ASSUME TypeInv, Crash PROVE TypeInv'
    OBVIOUS
  <1>1. /\ IsMap(task', Tasks, TaskRecord) /\ queue' \in Seq(DOMAIN task' \cup {None})
        /\ DOMAIN task' = DOMAIN task
    <2>1. "lost" \in TaskState \ Over /\ "orphan" \in TaskState \ Over
      BY DEF TaskState, Over
    <2>2. \A t \in DOMAIN task : task[t] \in TaskRecord
      BY DEF TypeInv, FiniteInv, TypeOK, IsMap
    <2>3. \A t \in DOMAIN task : Bereaved(task[t]) \in TaskRecord
      BY <2>1, <2>2, RestageType DEF Bereaved
    <2>4. DOMAIN task' = DOMAIN task /\ \A t \in DOMAIN task : task'[t] = Bereaved(task[t])
      BY DEF Crash
    <2> QED BY <2>3, <2>4 DEF TypeInv, FiniteInv, TypeOK, IsMap, Crash
  <1>3. threads' \in 0 .. PoolSize
    BY BoundsAssumption DEF Crash
  <1>2. IsMap(running', Jobs, Executions)
    BY EmptyMapType DEF Crash
  <1> QED
    BY <1>1, <1>2, <1>3 DEF TypeInv, FiniteInv, TypeOK, TodoInv, Crash, GoTo, signalVars, historyVars

\* What Advance does to the type of task.
LEMMA AdvanceType ==
  ASSUME TypeInv, NEW t, NEW from, NEW to \in TaskState, Advance(t, from, to),
         to \in Over => from \in Over
  PROVE  /\ t \in Tasks /\ Execution(t) \in Executions /\ task[t].job \in Jobs
         /\ from \in Over => task[t].result \in Terminal
         /\ IsMap(task', Tasks, TaskRecord) /\ DOMAIN task' = DOMAIN task
  <1>1. t \in DOMAIN task /\ t \in Tasks /\ task[t] \in TaskRecord /\ task[t].st = from
    BY DEF Advance, TypeInv, TypeOK, IsMap
  <1>2. task' = [task EXCEPT ![t] = [task[t] EXCEPT !.st = to]]
    BY DEF Advance
  <1>3. [task[t] EXCEPT !.st = to] \in TaskRecord
    BY <1>1, RestageType
  <1>4. IsMap(task', Tasks, TaskRecord)
    BY <1>1, <1>2, <1>3, ExceptType DEF TypeInv, TypeOK
  <1> QED
    BY <1>1, <1>2, <1>4 DEF TaskRecord, TaskFields, Execution, Executions

LEMMA HistoryType ==
  ASSUME TypeInv, NEW e \in Executions, NEW s \in Status,
         RecordStart(e) \/ RecordCompletion(e, s)
  PROVE  IsMap(rows', Executions, Status) /\ unrecorded' \subseteq Executions
  <1>1. IsMap(rows, Executions, Status) /\ unrecorded \subseteq Executions
    BY DEF TypeInv, TypeOK
  <1>2. "started" \in Status
    BY DEF Status
  <1>3. CASE RecordStart(e)
    BY <1>1, <1>2, <1>3, PutType DEF RecordStart, WriteFails
  <1>4. CASE RecordCompletion(e, s)
    BY <1>1, <1>4, ExceptType DEF RecordCompletion, WriteFails
  <1> QED
    BY <1>3, <1>4

LEMMA PoolType ==
  ASSUME TypeInv, NEW t \in DOMAIN task, PickUp \/ ThreadStep(t)
  PROVE  TypeInv'
  <1>0. {"begin", "registered", "running", "ended", "recorded", "done"} \subseteq TaskState
    BY DEF TaskState, Unfinished, OnThread
  <1>a. Over = {"ended", "recorded", "done"}
    BY DEF Over
  <1> USE DEF threadUnchanged, loopVars, signalVars, historyVars
  <1>1. CASE PickUp
    <2>1. IsMap(task', Tasks, TaskRecord) /\ DOMAIN task' = DOMAIN task
      BY <1>0, <1>a, <1>1, AdvanceType DEF PickUp
    <2>2. queue' \in Seq(DOMAIN task' \cup {None})
      BY <1>1, <2>1 DEF PickUp, TypeInv, TypeOK
    <2> QED BY <1>1, <2>1, <2>2 DEF PickUp, TypeInv, FiniteInv, TypeOK, TodoInv
  <1>2. CASE StartAttempt(t)
    <2>1. /\ IsMap(task', Tasks, TaskRecord) /\ DOMAIN task' = DOMAIN task
          /\ Execution(t) \in Executions /\ task[t].job \in Jobs
      BY <1>0, <1>a, <1>2, AdvanceType DEF StartAttempt
    <2>2. IsMap(running, Jobs, Executions)
      BY DEF TypeInv, TypeOK
    <2>3. IsMap(running', Jobs, Executions)
      BY <1>2, <2>1, <2>2, PutType DEF StartAttempt, MarkStarted
    <2> QED BY <1>2, <2>1, <2>3 DEF StartAttempt, TypeInv, FiniteInv, TypeOK, TodoInv
  <1>3. CASE LogStart(t)
    <2>1. /\ IsMap(task', Tasks, TaskRecord) /\ DOMAIN task' = DOMAIN task
          /\ Execution(t) \in Executions
      BY <1>0, <1>a, <1>3, AdvanceType DEF LogStart
    <2>2. IsMap(rows', Executions, Status) /\ unrecorded' \subseteq Executions
      BY <1>3, <2>1, HistoryType DEF LogStart, Status
    <2> QED BY <1>3, <2>1, <2>2 DEF LogStart, TypeInv, FiniteInv, TypeOK, TodoInv
  <1>4. CASE RunEnds(t)
    <2>1. PICK status \in Outcomes :
            task' = [task EXCEPT ![t] = [task[t] EXCEPT !.st = "ended", !.result = status]]
      BY <1>4 DEF RunEnds
    <2>2. task[t] \in TaskRecord
      BY DEF TypeInv, FiniteInv, TypeOK, IsMap
    <2>3. [task[t] EXCEPT !.st = "ended", !.result = status] \in TaskRecord
      BY <1>0, <2>2, OutcomesAssumption DEF TaskRecord, TaskFields
    <2>4. IsMap(task', Tasks, TaskRecord)
      BY <2>1, <2>3, ExceptType DEF TypeInv, TypeOK
    <2> QED BY <1>4, <2>1, <2>4 DEF RunEnds, TypeInv, FiniteInv, TypeOK, TodoInv
  <1>5. CASE LogCompletion(t)
    <2>1. /\ IsMap(task', Tasks, TaskRecord) /\ DOMAIN task' = DOMAIN task
          /\ Execution(t) \in Executions /\ task[t].result \in Terminal
      BY <1>0, <1>a, <1>5, AdvanceType DEF LogCompletion
    <2>2. task[t].result \in Status
      BY <2>1 DEF Status
    <2>3. IsMap(rows', Executions, Status) /\ unrecorded' \subseteq Executions
      BY <1>5, <2>1, <2>2, HistoryType DEF LogCompletion
    <2> QED BY <1>5, <2>1, <2>3 DEF LogCompletion, TypeInv, FiniteInv, TypeOK, TodoInv
  <1>6. CASE FinishAttempt(t)
    <2>1. task[t] \in TaskRecord
      BY DEF TypeInv, FiniteInv, TypeOK, IsMap
    <2> DEFINE again == [task[t] EXCEPT !.st = "begin", !.attempt = @ + 1,
                                        !.result = "none"]
               over  == [task[t] EXCEPT !.st = "done"]
    <2>2. again \in TaskRecord /\ over \in TaskRecord
      <3>1. task[t].st = "recorded"
        BY <1>6 DEF FinishAttempt
      <3>2. over \in TaskRecord
        BY <1>0, <1>a, <2>1, <3>1, RestageType
      <3>3. task[t].attempt + 1 \in Nat \ {0}
        BY <2>1 DEF TaskRecord, TaskFields
      <3>4. again \in TaskFields
        BY <1>0, <2>1, <3>3 DEF TaskRecord, TaskFields
      <3>5. again.st \notin Over
        BY <1>a, <2>1 DEF TaskRecord, TaskFields
      <3> QED BY <3>2, <3>4, <3>5 DEF TaskRecord
    <2>3. task' = [task EXCEPT ![t] = again] \/ task' = [task EXCEPT ![t] = over]
      BY <1>6 DEF FinishAttempt
    <2> HIDE DEF again, over
    <2>4. IsMap(task', Tasks, TaskRecord) /\ DOMAIN task' = DOMAIN task
      BY <2>2, <2>3, ExceptType DEF TypeInv, TypeOK
    <2>5. IsMap(running', Jobs, Executions)
      BY <1>6, DropType DEF FinishAttempt, MarkFinished, TypeInv, TypeOK
    <2> QED BY <1>6, <2>4, <2>5 DEF FinishAttempt, TypeInv, FiniteInv, TypeOK, TodoInv
  <1> QED
    BY <1>1, <1>2, <1>3, <1>4, <1>5, <1>6 DEF ThreadStep

LEMMA LeaveType == TypeInv /\ ThreadLeaves => TypeInv'
  <1> SUFFICES ASSUME TypeInv, ThreadLeaves PROVE TypeInv'
    OBVIOUS
  <1>1. queue' \in Seq(DOMAIN task' \cup {None})
    BY DEF ThreadLeaves, TypeInv, TypeOK
  <1>2. threads' \in 0 .. PoolSize
    <2>1. Cardinality(TasksIn(OnThread)) \in Nat
      BY FS_Subset, FS_CardinalityType DEF TypeInv, FiniteInv, TasksIn
    <2>2. threads \in 0 .. PoolSize /\ Cardinality(TasksIn(OnThread)) < threads
      BY DEF ThreadLeaves, HasFreeThread, TypeInv, TypeOK
    <2> QED BY <2>1, <2>2, BoundsAssumption DEF ThreadLeaves
  <1> QED
    BY <1>1, <1>2 DEF ThreadLeaves, TypeInv, FiniteInv, TypeOK, TodoInv, threadUnchanged, loopVars,
                      signalVars, historyVars

LEMMA EnvironmentType ==
  ASSUME TypeInv,
         Sighup \/ Sigterm \/ EditFile \/ ClockTick \/ ClockStepsBack
           \/ \E t \in DOMAIN task : OrphanEnds(t)
  PROVE  TypeInv'
  <1> USE DEF TypeInv, FiniteInv, TypeOK, TodoInv, loopVars, signalVars, historyVars, poolVars
  <1>1. CASE Sighup
    BY <1>1 DEF Sighup
  <1>2. CASE Sigterm
    BY <1>2 DEF Sigterm
  <1>3. CASE EditFile
    BY <1>3 DEF EditFile
  <1>4. CASE ClockTick
    BY <1>4, BoundsAssumption DEF ClockTick, SetClock, Minutes
  <1>5. CASE ClockStepsBack
    BY <1>5, BoundsAssumption DEF ClockStepsBack, SetClock, Minutes
  <1>6. ASSUME NEW t \in DOMAIN task, OrphanEnds(t)
        PROVE  TypeInv'
    <2>1. IsMap(task', Tasks, TaskRecord) /\ DOMAIN task' = DOMAIN task
      BY <1>6, AdvanceType DEF OrphanEnds, TaskState, Over
    <2> QED BY <1>6, <2>1 DEF OrphanEnds, threadUnchanged
  <1> QED
    BY <1>1, <1>2, <1>3, <1>4, <1>5, <1>6

LEMMA TypeStep == TypeInv /\ [Next]_vars => TypeInv'
  <1> SUFFICES ASSUME TypeInv, [Next]_vars PROVE TypeInv'
    OBVIOUS
  <1>1. CASE MainLoop
    BY <1>1, BootType, LoadType, LoopType, DispatchType, ShutdownType DEF MainLoop
  <1>2. CASE PickUp
    <2>1. \E t \in DOMAIN task : TRUE
      BY <1>2 DEF PickUp, Advance
    <2> QED BY <1>2, <2>1, PoolType
  <1>3. CASE \E t \in DOMAIN task : ThreadStep(t)
    BY <1>3, PoolType
  <1>4. CASE Environment
    BY <1>4, RespawnType, CrashType, DispatchType, EnvironmentType DEF Environment
  <1>5. CASE UNCHANGED vars
    BY <1>5 DEF TypeInv, FiniteInv, TypeOK, TodoInv, vars, loopVars, othersVars, signalVars,
                historyVars, poolVars
  <1> QED
    BY <1>1, <1>2, <1>3, <1>4, <1>5, LeaveType DEF Next

\* In every reachable state the worker, the registry and the run history are
\* well typed.
THEOREM TypeCorrectness == Spec => []TypeOK
  <1>1. TypeInv => TypeOK
    BY DEF TypeInv
  <1> QED
    BY TypeInit, TypeStep, <1>1, PTL DEF Spec

-----------------------------------------------------------------------------
(* At most one dispatch per job and minute.  AtMostOncePerMinute is not     *)
(* inductive: that a job about to be dispatched was not dispatched before   *)
(* in this minute is known from the dedupe set, which forgets; what it      *)
(* forgets is no later than lastMinute, and the loop dispatches only in a   *)
(* later minute than that.                                                  *)

TimeInv ==
  /\ Alive => now <= clock
  /\ lastMinute <= now
  /\ pc = "dispatch" => lastMinute < now

DedupeInv ==
  /\ \A entry \in dispatched : lastMinute <= entry[2] /\ entry[2] <= now
  /\ DedupeBounded

DispatchedInv ==
  \A t \in DOMAIN task :
    /\ task[t].inc <= incarnation
    /\ task[t].inc = incarnation =>
         /\ task[t].minute <= now
         /\ task[t].minute > lastMinute => <<task[t].job, task[t].minute>> \in dispatched

DispatchInv == TimeInv /\ DedupeInv /\ DispatchedInv /\ AtMostOncePerMinute

\* The tasks are the same ones, dispatched for the same job, minute, process.
SameTasks ==
  /\ DOMAIN task' = DOMAIN task
  /\ \A t \in DOMAIN task :
       /\ task'[t].job = task[t].job /\ task'[t].minute = task[t].minute
       /\ task'[t].inc = task[t].inc /\ task'[t].def = task[t].def
       /\ task'[t].room = task[t].room

LEMMA DispatchInit == Init => DispatchInv
  BY DEF Init, DispatchInv, TimeInv, DedupeInv, DedupeBounded, DispatchedInv,
         AtMostOncePerMinute, NoMinute, EmptyMap

\* Most steps do not touch what the invariant is about.
LEMMA DispatchFrame ==
  ASSUME TypeOK, DispatchInv, SameTasks,
         UNCHANGED <<now, lastMinute, dispatched, incarnation>>,
         clock' = clock \/ clock' = clock + 1 \/ ~Alive,
         Alive' => Alive,
         pc' \in {"dispatch", "beat"} => pc' = pc
  PROVE  DispatchInv'
  <1>1. TimeInv'
    <2> HIDE DEF Alive
    <2>1. clock \in Int /\ now \in Int
      BY DEF TypeOK, Minutes
    <2>2. Alive' => now' <= clock'
      BY <2>1 DEF DispatchInv, TimeInv
    <2> QED BY <2>2 DEF DispatchInv, TimeInv
  <1>2. DedupeInv'
    BY DEF DispatchInv, DedupeInv, DedupeBounded
  <1>3. DispatchedInv' /\ AtMostOncePerMinute'
    BY DEF DispatchInv, DispatchedInv, AtMostOncePerMinute, SameTasks
  <1> QED
    BY <1>1, <1>2, <1>3 DEF DispatchInv

LEMMA PollClockDispatch == TypeOK /\ DispatchInv /\ PollClock => DispatchInv'
  <1> SUFFICES ASSUME TypeOK, DispatchInv, PollClock PROVE DispatchInv'
    OBVIOUS
  <1> USE DEF PollClock, othersVars, poolVars, Alive
  <1>1. now \in Int /\ clock \in Int /\ lastMinute \in Int
    BY DEF TypeOK, Minutes, NoMinute
  <1>2. TimeInv'
    BY <1>1 DEF DispatchInv, TimeInv
  <1>3. DedupeInv'
    <2>1. \A entry \in dispatched : entry[2] \in Int
      BY DEF TypeOK, Minutes
    <2>2. \A entry \in dispatched : lastMinute <= entry[2] /\ entry[2] <= clock
      BY <1>1, <2>1 DEF DispatchInv, DedupeInv, TimeInv
    <2>3. pc' = "beat" => clock = lastMinute
      OBVIOUS
    <2> QED BY <1>1, <2>1, <2>2, <2>3 DEF DedupeInv, DedupeBounded
  <1>4. DispatchedInv'
    <2>1. \A t \in DOMAIN task : task[t].minute \in Int
      BY DEF TypeOK, IsMap, TaskRecord, TaskFields, Minutes
    <2> QED BY <1>1, <2>1 DEF DispatchInv, DispatchedInv, TimeInv
  <1>5. AtMostOncePerMinute'
    BY DEF DispatchInv, AtMostOncePerMinute
  <1> QED
    BY <1>2, <1>3, <1>4, <1>5 DEF DispatchInv

LEMMA EndDispatchDispatch == TypeOK /\ DispatchInv /\ EndDispatch => DispatchInv'
  <1> SUFFICES ASSUME TypeOK, DispatchInv, EndDispatch PROVE DispatchInv'
    OBVIOUS
  <1> USE DEF EndDispatch, othersVars, poolVars, Alive
  <1>1. now \in Int /\ clock \in Int
    BY DEF TypeOK, Minutes
  <1>2. TimeInv' /\ DedupeInv'
    BY <1>1 DEF DispatchInv, TimeInv, DedupeInv, DedupeBounded
  <1>3. DispatchedInv'
    <2>1. \A t \in DOMAIN task : task[t].minute \in Int
      BY DEF TypeOK, IsMap, TaskRecord, TaskFields, Minutes
    <2> QED BY <1>1, <2>1 DEF DispatchInv, DispatchedInv
  <1>4. AtMostOncePerMinute'
    BY DEF DispatchInv, AtMostOncePerMinute
  <1> QED
    BY <1>2, <1>3, <1>4 DEF DispatchInv

\* A new process begins with no dispatch of its own.
LEMMA RespawnDispatch == TypeOK /\ DispatchInv /\ Respawn => DispatchInv'
  <1> SUFFICES ASSUME TypeOK, DispatchInv, Respawn PROVE DispatchInv'
    OBVIOUS
  <1> USE DEF Respawn, poolVars
  <1>1. clock \in Int /\ clock >= 0 /\ incarnation \in Int
    BY DEF TypeOK, Minutes
  <1>2. TimeInv' /\ DedupeInv'
    BY <1>1 DEF TimeInv, DedupeInv, DedupeBounded, NoMinute
  <1>3. \A t \in DOMAIN task : task[t].inc <= incarnation /\ task[t].inc \in Int
    <2>1. \A t \in DOMAIN task : task[t].inc \in 1 .. MaxIncarnation
      BY DEF TypeOK, IsMap, TaskRecord, TaskFields
    <2>2. \A t \in DOMAIN task : task[t].inc \in Int
      BY <2>1, BoundsAssumption
    <2>3. \A t \in DOMAIN task : task[t].inc <= incarnation
      BY DEF DispatchInv, DispatchedInv
    <2> QED BY <2>2, <2>3
  <1>4. DispatchedInv'
    BY <1>1, <1>3 DEF DispatchedInv
  <1>5. AtMostOncePerMinute'
    BY DEF DispatchInv, AtMostOncePerMinute
  <1> QED
    BY <1>2, <1>4, <1>5 DEF DispatchInv

\* The step that matters: a task for a job and minute is added.
LEMMA EnqueueDispatch ==
  ASSUME TypeOK, DispatchInv, NEW j, NEW size, Enqueue(j, size), pc' # "beat",
         UNCHANGED <<now, lastMinute, clock, incarnation>>
  PROVE  DispatchInv'
  <1>1. PICK t \in Tasks \ DOMAIN task : task' = Put(task, t, NewTask(j, Load < size))
    BY DEF Enqueue
  <1>2. /\ DOMAIN task' = DOMAIN task \cup {t}
        /\ task'[t] = NewTask(j, Load < size)
        /\ \A u \in DOMAIN task : task'[u] = task[u]
    BY <1>1 DEF Put
  <1>3. /\ task'[t].job = j /\ task'[t].minute = now /\ task'[t].inc = incarnation
    BY <1>2 DEF NewTask
  <1>4. now \in Int /\ incarnation \in Int /\ lastMinute \in Int /\ lastMinute < now
    BY DEF TypeOK, Minutes, NoMinute, DispatchInv, TimeInv, Enqueue
  <1>5. <<j, now>> \notin dispatched /\ dispatched' = dispatched \cup {<<j, now>>}
    BY DEF Enqueue
  <1>6. TimeInv'
    BY <1>4 DEF DispatchInv, TimeInv, Enqueue, Alive
  <1>7. DedupeInv'
    BY <1>4, <1>5 DEF DispatchInv, DedupeInv, DedupeBounded
  <1>8. DispatchedInv'
    BY <1>2, <1>3, <1>4, <1>5 DEF DispatchInv, DispatchedInv
  <1>9. \A u \in DOMAIN task :
          ~(task[u].job = j /\ task[u].minute = now /\ task[u].inc = incarnation)
    BY <1>4, <1>5 DEF DispatchInv, DispatchedInv
  <1>10. AtMostOncePerMinute'
    BY <1>2, <1>3, <1>9 DEF DispatchInv, AtMostOncePerMinute
  <1> QED
    BY <1>6, <1>7, <1>8, <1>10 DEF DispatchInv

\* Steps in the life of a task leave what it was dispatched for alone.
LEMMA TaskStepFrame ==
  ASSUME TypeOK,
         \/ PickUp
         \/ \E t \in DOMAIN task : ThreadStep(t) \/ OrphanEnds(t)
         \/ ShutdownCompletes
         \/ Crash
  PROVE  SameTasks
  <1>0. \A t \in DOMAIN task : task[t] \in TaskFields
    BY DEF TypeOK, IsMap, TaskRecord
  <1>1. ASSUME NEW t \in DOMAIN task, NEW s, task' = [task EXCEPT ![t].st = s]
        PROVE  SameTasks
    BY <1>0, <1>1 DEF SameTasks, TaskFields
  <1>2. CASE PickUp
    BY <1>1, <1>2 DEF PickUp, Advance
  <1>3. ASSUME NEW t \in DOMAIN task, ThreadStep(t) \/ OrphanEnds(t)
        PROVE  SameTasks
    <2>1. CASE StartAttempt(t) \/ LogStart(t) \/ LogCompletion(t) \/ OrphanEnds(t)
      BY <1>1, <2>1 DEF StartAttempt, LogStart, LogCompletion, OrphanEnds, Advance
    <2>2. CASE RunEnds(t)
      BY <1>0, <2>2 DEF RunEnds, SameTasks, TaskFields
    <2>3. CASE FinishAttempt(t)
      <3>1. CASE Retries(t)
        BY <1>0, <2>3, <3>1 DEF FinishAttempt, SameTasks, TaskFields
      <3>2. CASE ~Retries(t)
        BY <1>1, <2>3, <3>2 DEF FinishAttempt
      <3> QED BY <3>1, <3>2
    <2> QED BY <1>3, <2>1, <2>2, <2>3 DEF ThreadStep
  <1>4. CASE ShutdownCompletes
    BY <1>0, <1>4 DEF ShutdownCompletes, SameTasks, TaskFields
  <1>5. CASE Crash
    <2>1. \A t \in DOMAIN task : task'[t] = Bereaved(task[t])
      BY <1>5 DEF Crash
    <2>2. \A r \in TaskFields : Bereaved(r) \in {r, [r EXCEPT !.st = "orphan"],
                                                 [r EXCEPT !.st = "lost"]}
      BY DEF Bereaved
    <2> QED BY <1>0, <1>5, <2>1, <2>2 DEF Crash, SameTasks, TaskFields
  <1> QED
    BY <1>2, <1>3, <1>4, <1>5

LEMMA DispatchStep ==
  ASSUME ClockMayStepBack = FALSE, TypeInv, DispatchInv, [Next]_vars
  PROVE  DispatchInv'
  <1>0. TypeOK
    BY DEF TypeInv
  <1> USE DEF loopVars, othersVars, poolVars, threadUnchanged
  <1>1. CASE \/ Boot \/ BootFails \/ StopLoop \/ CheckReload \/ LoadFile \/ Beat \/ Wake
             \/ ThreadLeaves
             \/ \E j \in todo : AlreadyDispatched(j) \/ SkipOverlap(j)
             \/ Sighup \/ Sigterm \/ EditFile \/ ClockTick \/ ClockStepsBack
             \/ UNCHANGED vars
    <2>1. SameTasks
      BY <1>1 DEF SameTasks, Boot, BootFails, StopLoop, CheckReload, LoadFile,
        Beat, Wake, AlreadyDispatched, SkipOverlap, ThreadLeaves, Sighup, Sigterm, EditFile,
        ClockTick, ClockStepsBack, SetClock, vars
    <2>2. /\ UNCHANGED <<now, lastMinute, dispatched, incarnation>>
          /\ clock' = clock \/ clock' = clock + 1 \/ ~Alive
          /\ Alive' => Alive
          /\ pc' \in {"dispatch", "beat"} => pc' = pc
      BY <1>1 DEF Alive, GoTo, Boot, BootFails, StopLoop, CheckReload, LoadFile,
        Beat, Wake, AlreadyDispatched, SkipOverlap, ThreadLeaves, Sighup, Sigterm, EditFile,
        ClockTick, ClockStepsBack, SetClock, vars
    <2> QED BY <1>0, <2>1, <2>2, DispatchFrame
  <1>2. CASE \/ PickUp \/ ShutdownCompletes \/ Crash
             \/ \E t \in DOMAIN task : ThreadStep(t) \/ OrphanEnds(t)
    <2>1. SameTasks
      BY <1>0, <1>2, TaskStepFrame
    <2>2. /\ UNCHANGED <<now, lastMinute, dispatched, incarnation, clock>>
          /\ Alive' => Alive
          /\ pc' \in {"dispatch", "beat"} => pc' = pc
      BY <1>2 DEF Alive, GoTo, PickUp, ShutdownCompletes, Crash, ThreadStep, StartAttempt,
        LogStart, RunEnds, LogCompletion, FinishAttempt, OrphanEnds
    <2> QED BY <1>0, <2>1, <2>2, DispatchFrame
  <1>3. CASE PollClock \/ EndDispatch \/ Respawn
    BY <1>0, <1>3, PollClockDispatch, EndDispatchDispatch, RespawnDispatch
  <1>4. CASE \E j \in todo : Submit(j) \/ SubmitRaises(j)
    <2>1. PICK j \in todo : Submit(j) \/ SubmitRaises(j)
      BY <1>4
    <2>2. /\ \E size : Enqueue(j, size)
          /\ pc' # "beat"
          /\ UNCHANGED <<now, lastMinute, clock, incarnation>>
      BY <2>1 DEF Submit, SubmitRaises, Enqueue
    <2> QED BY <1>0, <2>2, EnqueueDispatch
  <1> QED
    BY <1>1, <1>2, <1>3, <1>4 DEF Next, MainLoop, Environment

\* With a clock that is not set back under it, one process dispatches a job at most once
\* for a minute, and the dedupe set that ensures it is pruned to one minute:
\* for any schedule, any reload, any number of polls in the minute, and any
\* iteration cut short by an exception.
THEOREM AtMostOnce ==
  ASSUME ClockMayStepBack = FALSE
  PROVE  Spec => [](AtMostOncePerMinute /\ DedupeBounded)
  <1>1. Init => TypeInv /\ DispatchInv
    BY TypeInit, DispatchInit
  <1>2. TypeInv /\ DispatchInv /\ [Next]_vars => TypeInv' /\ DispatchInv'
    BY TypeStep, DispatchStep
  <1>3. DispatchInv => AtMostOncePerMinute /\ DedupeBounded
    BY DEF DispatchInv, DedupeInv
  <1> QED
    BY <1>1, <1>2, <1>3, PTL DEF Spec

\* The dedupe set is pruned to the current minute by every iteration that ends
\* normally, also of the entries that interrupted iterations left: it does not
\* grow with the life of the process.
THEOREM DedupeStaysSmall ==
  ASSUME ClockMayStepBack = FALSE
  PROVE  Spec => []DedupeBounded
  BY AtMostOnce, PTL

=============================================================================
