------------------------ MODULE SchedulerProperties ------------------------
(***************************************************************************)
(* What the scheduler worker must get right: the order of its main loop,   *)
(* its pool threads, its signal handlers, the operator, the clock and its  *)
(* own death may not break any of these.                                   *)
(***************************************************************************)
EXTENDS JobsApi

Minutes == 0 .. MaxMinute

\* A task; once its run has ended it has an outcome.
Over       == {"ended", "recorded", "done"}
TaskFields == [job : Jobs, def : JobDef, minute : Minutes,
               inc : 1 .. MaxIncarnation, st : TaskState,
               attempt : Nat \ {0}, result : Terminal \cup {"none"},
               room : BOOLEAN]
TaskRecord == {r \in TaskFields : r.st \in Over => r.result \in Terminal}

Executions == Tasks \X (Nat \ {0})

\* Type correctness of the worker, the registry and the run history.
TypeOK ==
  /\ pc \in {"boot", "top", "load", "poll", "dispatch", "beat", "sleep", "shutdown",
             "stopped", "exited"}
  /\ clock \in Minutes /\ now \in Minutes
  /\ lastMinute \in Minutes \cup {NoMinute}
  /\ todo \subseteq Jobs
  /\ dispatched \subseteq Jobs \X Minutes
  /\ IsSchedule(schedule) /\ file \in Files
  /\ reloadRequested \in BOOLEAN /\ stopRequested \in BOOLEAN
  /\ IsMap(task, Tasks, TaskRecord)
  /\ queue \in Seq(DOMAIN task \cup {None})
  /\ threads \in 0 .. PoolSize
  /\ incarnation \in 1 .. MaxIncarnation
  /\ IsMap(running, Jobs, Executions)
  /\ IsMap(rows, Executions, Status)
  /\ unrecorded \subseteq Executions

\* One scheduler process dispatches a job at most once for a given minute,
\* however often it polls in that minute, whatever iteration of the loop is
\* cut short, and whatever schedule is loaded in between.
AtMostOncePerMinute ==
  \A t, u \in DOMAIN task :
    /\ task[t].job = task[u].job
    /\ task[t].minute = task[u].minute
    /\ task[t].inc = task[u].inc
    => t = u

\* An iteration that ends normally leaves in the dedupe set nothing but the
\* current minute, also after iterations that ended in an exception and left
\* their entries behind: the set does not grow with the life of the process.
DedupeBounded ==
  pc = "beat" => \A entry \in dispatched : entry[2] = now

\* The registry has no ghosts: an entry names an attempt that is in flight in
\* this process, so no job is refused on account of a run that is over.
InFlight == {"registered", "running", "ended", "recorded"}
RegistryGhostFree ==
  \A j \in DOMAIN running :
    \E t \in TasksIn(InFlight) :
      task[t].job = j /\ running[j] = Execution(t) /\ task[t].inc = incarnation

\* Two runs of one job are in progress in one process only if the later of
\* them was dispatched under allow_concurrent.
NoOverlap ==
  \A t, u \in TasksIn({"running"}) :
    /\ t # u /\ task[t].job = task[u].job
    /\ task[t].minute <= task[u].minute
    => task[u].def.allowConcurrent

\* What the registry does prevent: no job overlaps itself that has never had
\* a retry, been allowed to run concurrently or been queued behind all threads,
\* if a free thread begins its task before the loop wakes (PickupIsPrompt).
Plain(j) ==
  \A t \in DOMAIN task :
    task[t].job = j => /\ ~task[t].def.allowConcurrent
                       /\ MaxAttempts(task[t].def) = 1
                       /\ task[t].room
PlainJobsDoNotOverlap ==
  \A t, u \in TasksIn({"running"}) :
    t # u /\ task[t].job = task[u].job => ~Plain(task[t].job)

\* Every attempt that ended while its process lived has a row with an outcome,
\* the outcome of the run for the last attempt and not a success for the
\* earlier ones, unless the database refused one of its two writes.
HistoryComplete ==
  \A t \in DOMAIN task :
    \A a \in 1 .. task[t].attempt :
      \/ <<t, a>> \in unrecorded
      \/ a = task[t].attempt /\ task[t].st \notin {"recorded", "done"}
      \/ /\ <<t, a>> \in DOMAIN rows
         /\ IF a = task[t].attempt THEN rows[<<t, a>>] = task[t].result
                                   ELSE rows[<<t, a>>] \in Terminal \ {"success"}

\* A worker that stops on request finishes every task it dispatched, retries
\* included, also those that were queued behind others or failed to get a
\* thread of their own; unless it never had a thread at all: then none of them
\* has begun.
StoppedIsDrained ==
  pc = "stopped" =>
    LET mine == {t \in DOMAIN task : task[t].inc = incarnation} IN
    \/ \A t \in mine : task[t].st = "done" /\ ~Retries(t)
    \/ /\ SubmitMayFail
       /\ \A t \in mine : task[t].st = "lost" /\ \A e \in DOMAIN rows : e[1] # t

\* The attempts a dispatch may reach under the files there are.
Attempts == UNION {UNION {1 .. MaxAttempts(f.jobs[j]) : j \in DOMAIN f.jobs} :
                   f \in Files}
RunsOf(t) == [a \in {b \in Attempts : <<t, b>> \in DOMAIN rows} |-> rows[<<t, a>>]]
Log == INSTANCE JobRuns WITH log <- [t \in Tasks |-> RunsOf(t)]

\* The history implements what its readers are promised: attempts in order, a
\* run closed at most once, nothing after a success.
HistoryIsALog == Log!Spec

\* Every dispatched task is finished in the end, with all its attempts, or
\* dies with its process.
TasksFinish ==
  \A t \in Tasks : t \in DOMAIN task ~> (t \in DOMAIN task /\ task[t].st \in {"done", "lost", "orphan"})

\* No job stays in the registry for ever, to be refused by every later minute.
RegistryClears == \A j \in Jobs : j \in DOMAIN running ~> j \notin DOMAIN running

\* A stop request ends the process, after the work in progress.
StopTakesEffect == (stopRequested /\ Alive) ~> ~Alive

\* A reload request brings the schedule in force into line with what /jobs
\* lists, which reads the file on its own, unless the file changes or the
\* process is stopped or dies first.
ReloadTakesEffect ==
  \A f \in Files :
    (reloadRequested /\ Alive /\ ListJobs = Listed(f) /\ ListJobs.code = 200)
      ~> (schedule = ListJobs.jobs \/ ListJobs # Listed(f) \/ stopRequested \/ ~Alive)

\* While it lives and is not stopped the loop comes back to look at the clock,
\* also when it is asked again and again to reload a file that is rejected.
\* (A file whose reading raises something else keeps it from its clock as
\* long as every iteration reloads.)
Escapes == file.kind = "raises"
LoopKeepsPolling ==
  (Alive /\ ~stopRequested /\ ~Escapes)
    ~> (pc = "poll" \/ stopRequested \/ ~Alive \/ Escapes)

=============================================================================
