-------------------------- MODULE SchedulerWorker --------------------------
(***************************************************************************)
(* workers/scheduler_worker.py: the process that polls the schedule,       *)
(* dispatches the jobs due in the current minute to a thread pool, and     *)
(* reloads or stops when signalled.  The actors are the main loop, one     *)
(* thread per dispatched task, the signal handlers, the operator who edits *)
(* the schedule file, the wall clock, and supervisord, which respawns a    *)
(* process that died.                                                      *)
(*                                                                         *)
(* Time is counted in minutes, the granularity of a cron expression and of *)
(* minute_key; how long a step takes is the subject of PollTiming.  The    *)
(* heartbeat and SchedulerState only report on the loop: see Readiness.    *)
(*                                                                         *)
(* Bounds: Tasks limits the number of dispatches, MaxMinute the clock,     *)
(* MaxIncarnation the number of processes supervisord starts.              *)
(***************************************************************************)
EXTENDS Integers, Sequences, FiniteSets, JobRegistry, RunHistory

CONSTANTS
  Jobs,             \* job names
  Tasks,            \* identities of calls of _execute_with_retries
  Files,            \* contents the schedule file may have
  Outcomes,         \* statuses with which run_job may return
  PoolSize,         \* MAX_THREAD_POOL_SIZE
  MaxMinute,        \* bound on the clock
  MaxIncarnation,   \* bound on scheduler processes
  Signals,          \* the signals that may arrive
  ReloadTimer,      \* outcomes of the config_reload_seconds test
  SubmitMayFail,    \* may starting a pool thread raise?
  ClockMayStepBack, \* may the wall clock be set back under a process?
  PickupIsPrompt,   \* has a free thread begun its task when the loop wakes?
  None              \* what shutdown puts in the executor's queue

JobDef == [enabled : BOOLEAN, allowConcurrent : BOOLEAN,
           maxRetries : Int, due : SUBSET Nat]

\* A loaded schedule: ScheduleFile.jobs by name (names are unique).
IsSchedule(s) == IsMap(s, Jobs, JobDef)

\* What load_schedule_file makes of a file: it returns a schedule, raises
\* ScheduleLoadError, or raises something it does not catch.
ASSUME FilesAssumption ==
  \A f \in Files : f.kind \in {"valid", "invalid", "raises"} /\ IsSchedule(f.jobs)
ASSUME OutcomesAssumption == Outcomes \subseteq Terminal
ASSUME BoundsAssumption ==
  /\ PoolSize \in Nat \ {0}
  /\ MaxMinute \in Nat
  /\ MaxIncarnation \in Nat \ {0}
ASSUME SwitchesAssumption ==
  /\ Signals \subseteq {"SIGHUP", "SIGTERM"}
  /\ ReloadTimer \in (SUBSET BOOLEAN) \ {{}}
  /\ SubmitMayFail \in BOOLEAN
  /\ ClockMayStepBack \in BOOLEAN
  /\ PickupIsPrompt \in BOOLEAN
ASSUME NoneAssumption == None \notin Tasks

VARIABLES
  pc,               \* where the main loop is
  clock,            \* the wall clock, in minutes
  now,              \* `now` / minute_key of the current iteration
  todo,             \* due jobs the dispatch loop has not reached
  lastMinute,       \* last_seen_minute
  dispatched,       \* _dispatched_this_minute
  schedule,         \* self.schedule
  file,             \* the schedule file
  reloadRequested,  \* _reload_requested
  stopRequested,    \* _stop_requested
  task,             \* the dispatched tasks, running or not
  queue,            \* the executor's work queue
  threads,          \* how many threads the executor has
  incarnation       \* which scheduler process this is

loopVars    == <<pc, now, todo, lastMinute, dispatched>>
signalVars  == <<reloadRequested, stopRequested>>
historyVars == <<rows, unrecorded>>
poolVars    == <<task, queue, threads, running>>
othersVars  == <<signalVars, historyVars, poolVars, clock, schedule, file,
                 incarnation>>
vars == <<loopVars, othersVars>>

\* The main loop moves on, its local state otherwise unchanged.
GoTo(place) == pc' = place /\ UNCHANGED <<now, todo, lastMinute, dispatched>>

NoMinute == -1      \* last_seen_minute is None

MaxAttempts(def) == 1 + (IF def.maxRetries > 0 THEN def.maxRetries ELSE 0)

DueJobs(s, m) == {j \in DOMAIN s : s[j].enabled /\ m \in s[j].due}

TasksIn(states) == {t \in DOMAIN task : task[t].st \in states}

\* The life of a task: waiting in the queue; then for each attempt begin (or
\* the retry delay before it), registered, running, ended and recorded; done.
\* When its process dies it is lost, but for its subprocess: an orphan.
OnThread   == {"begin", "registered", "running", "ended", "recorded"}
Unfinished == {"queued"} \cup OnThread
TaskState  == Unfinished \cup {"done", "orphan", "lost"}

-----------------------------------------------------------------------------
(* The process and its main loop *)

Init ==
  /\ pc = "boot" /\ incarnation = 1
  /\ clock = 0 /\ now = 0 /\ lastMinute = NoMinute
  /\ todo = {} /\ dispatched = {}
  /\ schedule = EmptyMap /\ file \in Files
  /\ reloadRequested = FALSE /\ stopRequested = FALSE
  /\ task = EmptyMap /\ queue = <<>> /\ threads = 0
  /\ InitRegistry
  /\ InitHistory

\* Mutant: the start resets the flags that a signal may have set already.
BootResetsFlags ==
  /\ pc = "boot" /\ file.kind = "valid"
  /\ schedule' = file.jobs
  /\ reloadRequested' = FALSE /\ stopRequested' = FALSE
  /\ GoTo("top")
  /\ UNCHANGED <<historyVars, poolVars, clock, file, incarnation>>

\* load_initial_schedule
Boot ==
  /\ pc = "boot" /\ file.kind = "valid"
  /\ schedule' = file.jobs
  /\ GoTo("top")
  /\ UNCHANGED <<signalVars, historyVars, poolVars, clock, file, incarnation>>

\* An unusable schedule at startup ends the process.
BootFails ==
  /\ pc = "boot" /\ file.kind # "valid"
  /\ GoTo("exited")
  /\ UNCHANGED othersVars

\* supervisord's autorestart: a new process, all of its memory initial.
Respawn ==
  /\ pc \in {"exited", "stopped"} /\ incarnation < MaxIncarnation
  /\ incarnation' = incarnation + 1
  /\ pc' = "boot"
  /\ now' = clock /\ lastMinute' = NoMinute
  /\ todo' = {} /\ dispatched' = {} /\ schedule' = EmptyMap
  /\ reloadRequested' = FALSE /\ stopRequested' = FALSE
  /\ UNCHANGED <<historyVars, poolVars, clock, file>>

\* Mutant: the token overtakes the tasks, as if the queue were cancelled.
StopLoopAtOnce ==
  /\ pc = "top" /\ stopRequested
  /\ GoTo("shutdown")
  /\ queue' = <<None>> \o queue
  /\ UNCHANGED <<signalVars, historyVars, task, threads, running, clock,
                 schedule, file, incarnation>>

\* The loop condition, then executor.shutdown(wait=True), which queues a token
\* behind the tasks and goes on to join the threads.
StopLoop ==
  /\ pc = "top" /\ stopRequested
  /\ GoTo("shutdown")
  /\ queue' = Append(queue, None)
  /\ UNCHANGED <<signalVars, historyVars, task, threads, running, clock,
                 schedule, file, incarnation>>

\* Mutant: the flag is lowered, and only the timer reloads.
CheckReloadTimer ==
  /\ pc = "top" /\ ~stopRequested
  /\ \E elapsed \in ReloadTimer : GoTo(IF elapsed THEN "load" ELSE "poll")
  /\ reloadRequested' = FALSE
  /\ UNCHANGED <<stopRequested, historyVars, poolVars, clock, schedule, file,
                 incarnation>>

\* The reload timer and the head of _maybe_reload, which lowers the flag before
\* it reads the file.
CheckReload ==
  /\ pc = "top" /\ ~stopRequested
  /\ \E elapsed \in ReloadTimer :
       GoTo(IF reloadRequested \/ elapsed THEN "load" ELSE "poll")
  /\ reloadRequested' = FALSE
  /\ UNCHANGED <<stopRequested, historyVars, poolVars, clock, schedule, file,
                 incarnation>>

\* Mutant: a file that is rejected is tried again at once.
LoadUntilValid ==
  /\ pc = "load"
  /\ IF file.kind = "valid" THEN schedule' = file.jobs /\ GoTo("poll")
                            ELSE UNCHANGED schedule /\ GoTo("sleep")
  /\ reloadRequested' = (reloadRequested \/ file.kind # "valid")
  /\ UNCHANGED <<stopRequested, historyVars, poolVars, clock, file, incarnation>>

\* The rest of _maybe_reload.  A rejected file leaves the schedule in force; an
\* exception that is not a ScheduleLoadError leaves the iteration through the
\* loop's except clause.
LoadFile ==
  /\ pc = "load"
  /\ schedule' = IF file.kind = "valid" THEN file.jobs ELSE schedule
  /\ GoTo(IF file.kind = "raises" THEN "sleep" ELSE "poll")
  /\ UNCHANGED <<signalVars, historyVars, poolVars, clock, file, incarnation>>

\* `now` is read once; a minute already seen has nothing to dispatch.
PollClock ==
  /\ pc = "poll"
  /\ now' = clock
  /\ IF clock = lastMinute
       THEN pc' = "beat" /\ todo' = {}
       ELSE pc' = "dispatch" /\ todo' = DueJobs(schedule, clock)
  /\ UNCHANGED <<lastMinute, dispatched, othersVars>>

\* The dedupe test finds the job: dispatched before an exception cut short an
\* earlier iteration of this minute.
AlreadyDispatched(j) ==
  /\ pc = "dispatch" /\ j \in todo
  /\ <<j, now>> \in dispatched
  /\ todo' = todo \ {j}
  /\ UNCHANGED <<pc, now, lastMinute, dispatched, othersVars>>

\* _dispatch, refused: the registry has the name.  No dedupe entry is made.
SkipOverlap(j) ==
  /\ pc = "dispatch" /\ j \in todo
  /\ <<j, now>> \notin dispatched
  /\ IsRunning(j) /\ ~schedule[j].allowConcurrent
  /\ todo' = todo \ {j}
  /\ UNCHANGED <<pc, now, lastMinute, dispatched, othersVars>>

\* Tasks the pool has to do, queued or in progress.
Load == Len(queue) + Cardinality(TasksIn(OnThread))

\* Mutant: attempts are counted from 0.
NewTaskFromZero(j, room) == [job |-> j, def |-> schedule[j], minute |-> now,
                             inc |-> incarnation, st |-> "queued", attempt |-> 0,
                             result |-> "none", room |-> room]

\* Of its history a task keeps whether there was room for it in the pool.
NewTask(j, room) == [job |-> j, def |-> schedule[j], minute |-> now,
                     inc |-> incarnation, st |-> "queued", attempt |-> 1,
                     result |-> "none", room |-> room]

\* Mutant: the dispatch is not entered in the dedupe set.
EnqueueUndeduped(j, size) ==
  /\ pc = "dispatch" /\ j \in todo
  /\ ~IsRunning(j) \/ schedule[j].allowConcurrent
  /\ UNCHANGED dispatched
  /\ \E t \in Tasks \ DOMAIN task :
       task' = Put(task, t, NewTask(j, Load < size)) /\ queue' = Append(queue, t)

\* Mutant: the registry is not asked.
EnqueueUnchecked(j, size) ==
  /\ pc = "dispatch" /\ j \in todo
  /\ <<j, now>> \notin dispatched
  /\ dispatched' = dispatched \cup {<<j, now>>}
  /\ \E t \in Tasks \ DOMAIN task :
       task' = Put(task, t, NewTask(j, Load < size)) /\ queue' = Append(queue, t)

\* _dispatch, accepted, up to the executor's queue; the pool will have `size`
\* threads.
Enqueue(j, size) ==
  /\ pc = "dispatch" /\ j \in todo
  /\ <<j, now>> \notin dispatched
  /\ ~IsRunning(j) \/ schedule[j].allowConcurrent
  /\ dispatched' = dispatched \cup {<<j, now>>}
  /\ \E t \in Tasks \ DOMAIN task :
       /\ task' = Put(task, t, NewTask(j, Load < size))
       /\ queue' = Append(queue, t)

\* The executor starts a thread when none is free, up to its limit.
PoolGrows == Load >= threads /\ threads < PoolSize

Submit(j) ==
  /\ threads' = IF PoolGrows THEN threads + 1 ELSE threads
  /\ Enqueue(j, threads')
  /\ todo' = todo \ {j}
  /\ UNCHANGED <<pc, now, lastMinute, signalVars, historyVars, running, clock,
                 schedule, file, incarnation>>

\* submit queues the task and then fails to start a thread for it: the
\* iteration is abandoned with the rest of the due jobs undispatched.
SubmitRaises(j) ==
  /\ SubmitMayFail /\ PoolGrows
  /\ Enqueue(j, threads)
  /\ todo' = {} /\ pc' = "sleep"
  /\ UNCHANGED <<now, lastMinute, signalVars, historyVars, threads, running,
                 clock, schedule, file, incarnation>>

\* Mutant: the dedupe set is not pruned.
EndDispatchUnpruned ==
  /\ pc = "dispatch" /\ todo = {}
  /\ lastMinute' = now /\ pc' = "beat"
  /\ UNCHANGED <<now, todo, dispatched, othersVars>>

\* The minute is done, and the dedupe set is pruned to it.
EndDispatch ==
  /\ pc = "dispatch" /\ todo = {}
  /\ lastMinute' = now
  /\ dispatched' = {entry \in dispatched : entry[2] = now}
  /\ pc' = "beat"
  /\ UNCHANGED <<now, todo, othersVars>>

\* write_heartbeat, whether it succeeds or raises.
Beat ==
  /\ pc = "beat"
  /\ GoTo("sleep")
  /\ UNCHANGED othersVars

HasFreeThread == Cardinality(TasksIn(OnThread)) < threads

\* A task that a free thread has not picked up, or not registered.
Unsettled ==
  \/ queue # <<>> /\ HasFreeThread
  \/ \E t \in TasksIn({"begin"}) : task[t].attempt = 1

\* time.sleep(poll_interval_seconds) is over.
Wake ==
  /\ pc = "sleep"
  /\ PickupIsPrompt => ~Unsettled
  /\ GoTo("top")
  /\ UNCHANGED othersVars

\* executor.shutdown(wait=True) returns: every thread has been joined.  What is
\* left in the queue is lost.
ShutdownCompletes ==
  /\ pc = "shutdown" /\ threads = 0
  /\ GoTo("stopped")
  /\ task' = [t \in DOMAIN task |->
                IF task[t].st = "queued" THEN [task[t] EXCEPT !.st = "lost"]
                                         ELSE task[t]]
  /\ queue' = <<>>
  /\ UNCHANGED <<signalVars, historyVars, threads, running, clock, schedule,
                 file, incarnation>>

MainLoop ==
  \/ Boot \/ BootFails \/ StopLoop \/ CheckReload \/ LoadFile
  \/ PollClock
  \/ \E j \in todo : AlreadyDispatched(j) \/ SkipOverlap(j) \/ Submit(j)
  \/ EndDispatch \/ Beat \/ Wake \/ ShutdownCompletes

-----------------------------------------------------------------------------
(* The pool threads: _execute_with_retries *)

Execution(t) == <<t, task[t].attempt>>      \* execution_id, fresh per attempt

Advance(t, from, to) ==
  /\ t \in DOMAIN task /\ task[t].st = from
  /\ task' = [task EXCEPT ![t].st = to]

threadUnchanged == <<loopVars, signalVars, clock, schedule, file, incarnation>>

\* Mutant: a thread is not used until there are two.
PickUpFromTwo ==
  /\ queue # <<>> /\ Head(queue) # None /\ HasFreeThread /\ threads > 1
  /\ Advance(Head(queue), "queued", "begin")
  /\ queue' = Tail(queue)
  /\ UNCHANGED <<threadUnchanged, historyVars, threads, running>>

\* A free thread takes the oldest queued task.
PickUp ==
  /\ queue # <<>> /\ Head(queue) # None /\ HasFreeThread
  /\ Advance(Head(queue), "queued", "begin")
  /\ queue' = Tail(queue)
  /\ UNCHANGED <<threadUnchanged, historyVars, threads, running>>

\* A free thread takes the token, puts it back for the next one and ends.
ThreadLeaves ==
  /\ queue # <<>> /\ Head(queue) = None /\ HasFreeThread
  /\ threads' = threads - 1
  /\ queue' = Append(Tail(queue), None)
  /\ UNCHANGED <<threadUnchanged, historyVars, task, running>>

StartAttempt(t) ==
  /\ Advance(t, "begin", "registered")
  /\ MarkStarted(task[t].job, Execution(t))
  /\ UNCHANGED <<threadUnchanged, historyVars, queue, threads>>

LogStart(t) ==
  /\ Advance(t, "registered", "running")
  /\ RecordStart(Execution(t))
  /\ UNCHANGED <<threadUnchanged, running, queue, threads>>

\* run_job returns, on the subprocess's exit or on its timeout; it never raises.
RunEnds(t) ==
  /\ t \in DOMAIN task /\ task[t].st = "running"
  /\ \E status \in Outcomes :
       task' = [task EXCEPT ![t].st = "ended", ![t].result = status]
  /\ UNCHANGED <<threadUnchanged, historyVars, running, queue,
                 threads>>

LogCompletion(t) ==
  /\ Advance(t, "ended", "recorded")
  /\ RecordCompletion(Execution(t), task[t].result)
  /\ UNCHANGED <<threadUnchanged, running, queue, threads>>

\* Mutant: a success is followed by the next attempt.
RetriesAlways(t) == task[t].attempt < MaxAttempts(task[t].def)

Retries(t) == task[t].result # "success" /\ task[t].attempt < MaxAttempts(task[t].def)

\* mark_finished, then the end of the while loop or the next attempt: through
\* the retry delay the job is not in the registry.
FinishAttempt(t) ==
  /\ t \in DOMAIN task /\ task[t].st = "recorded"
  /\ MarkFinished(task[t].job)
  /\ task' = IF Retries(t)
               THEN [task EXCEPT ![t].st = "begin", ![t].attempt = @ + 1,
                                 ![t].result = "none"]
               ELSE [task EXCEPT ![t].st = "done"]
  /\ UNCHANGED <<threadUnchanged, historyVars, queue, threads>>

ThreadStep(t) ==
  \/ StartAttempt(t) \/ LogStart(t) \/ RunEnds(t) \/ LogCompletion(t)
  \/ FinishAttempt(t)

-----------------------------------------------------------------------------
(* Signals, the operator, the clock, and the death of the process *)

Alive == pc \notin {"exited", "stopped"}

\* request_reload and request_stop run between two steps of the main thread.
Sighup ==
  /\ "SIGHUP" \in Signals /\ Alive /\ reloadRequested' = TRUE
  /\ UNCHANGED <<loopVars, stopRequested, historyVars, poolVars, clock,
                 schedule, file, incarnation>>

Sigterm ==
  /\ "SIGTERM" \in Signals /\ Alive /\ stopRequested' = TRUE
  /\ UNCHANGED <<loopVars, reloadRequested, historyVars, poolVars, clock,
                 schedule, file, incarnation>>

EditFile ==
  /\ file' \in Files \ {file}
  /\ UNCHANGED <<loopVars, signalVars, historyVars, poolVars, clock, schedule,
                 incarnation>>

SetClock(m) ==
  /\ clock' = m
  /\ UNCHANGED <<loopVars, signalVars, historyVars, poolVars, schedule, file,
                 incarnation>>

ClockTick == clock < MaxMinute /\ SetClock(clock + 1)
ClockStepsBack ==
  /\ ClockMayStepBack \/ ~Alive
  /\ clock > 0 /\ SetClock(clock - 1)

\* What is left of a task when its process dies.
Bereaved(r) ==
  CASE r.st = "running"                -> [r EXCEPT !.st = "orphan"]
    [] r.st \in Unfinished \ {"running"} -> [r EXCEPT !.st = "lost"]
    [] OTHER                           -> r

\* The process is killed between two steps; its subprocesses are not.
Crash ==
  /\ Alive /\ incarnation < MaxIncarnation
  /\ GoTo("exited")
  /\ task' = [t \in DOMAIN task |-> Bereaved(task[t])]
  /\ queue' = <<>> /\ threads' = 0
  /\ running' = EmptyMap
  /\ UNCHANGED <<signalVars, historyVars, clock, schedule, file, incarnation>>

OrphanEnds(t) ==
  /\ Advance(t, "orphan", "lost")
  /\ UNCHANGED <<threadUnchanged, historyVars, running, queue, threads>>

Environment ==
  \/ Respawn \/ Sighup \/ Sigterm \/ EditFile \/ ClockTick \/ ClockStepsBack
  \/ Crash
  \/ \E j \in todo : SubmitRaises(j)
  \/ \E t \in DOMAIN task : OrphanEnds(t)

-----------------------------------------------------------------------------
Next ==
  \/ MainLoop
  \/ PickUp \/ ThreadLeaves
  \/ \E t \in DOMAIN task : ThreadStep(t)
  \/ Environment

Spec == Init /\ [][Next]_vars

\* The operating system schedules the main thread and the pool threads, a
\* subprocess exits or times out, and a free thread takes what is queued.
Fairness ==
  /\ WF_vars(MainLoop)
  /\ WF_vars(PickUp) /\ WF_vars(ThreadLeaves)
  /\ \A t \in Tasks : WF_vars(ThreadStep(t))

FairSpec == Spec /\ Fairness

=============================================================================
